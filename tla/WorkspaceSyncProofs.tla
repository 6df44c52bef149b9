------------------------- MODULE WorkspaceSyncProofs -------------------------
(***************************************************************************)
(* What `sync push`, `push --workspace`, `pull --all` and                  *)
(* `pull --workspace` promise of the shared cache and of one consumer      *)
(* directory, for any repositories, names, commits, refs and corpora, any  *)
(* number of pushes and pulls, and wherever they stop.                     *)
(***************************************************************************)
EXTENDS WorkspaceSync, FiniteSetTheorems, TLAPS

------------------------------------------------------------------------------
(* The inductive invariant. *)

CacheShape ==
  /\ cache = [code |-> cache.code, ws |-> cache.ws, know |-> cache.know]
  /\ cache.code \in [Repo -> [refs : [Ref -> Sha \cup {None}], arts : SUBSET Sha]]

\* A ref of a repository names one of its commits.
CacheOK ==
  CacheShape /\ \A r \in Repo, f \in Ref :
    cache.code[r].refs[f] # None => cache.code[r].refs[f] \in Commits[r]

\* A push carries a commit of every repository that it still has to publish.
CiOK ==
  ci # None =>
    /\ ci = [sha |-> ci.sha, branch |-> ci.branch, meta |-> ci.meta, todo |-> ci.todo]
    /\ ci.sha \in Sha /\ ci.branch \in Ref /\ ci.todo \subseteq Repo
    /\ \A r \in ci.todo : ci.sha \in Commits[r]

\* A member directory belongs to repositories of its own short name, and its
\* marker tells what its store is, unless the install was cut off in the middle.
DirOK ==
  \A n \in Name :
    /\ dir[n].cfg # None => n[1] = Short[dir[n].cfg]
    /\ ~dir[n].torn => dir[n].store = dir[n].marker
    /\ dir[n].marker # None => n[1] = Short[dir[n].marker[1]] /\ dir[n].marker[2] \in Commits[dir[n].marker[1]]

RootShape == root = [manifest |-> root.manifest, graph |-> root.graph, remote |-> root.remote,
                     knowledge |-> root.knowledge]

\* A run of pull --all.
Fields == {"kind", "phase", "corpus", "todo", "know", "ws", "members", "typed", "byRepo", "edges",
           "cur", "done", "pulled"}
AllShape(a) ==
  /\ a.kind = "all" /\ a = [x \in Fields |-> a[x]]
  /\ a.members \subseteq Name
  /\ a.byRepo \in [Repo -> Name \cup {None}]
  /\ a.done \in [Repo -> Sha \cup {None}]
  /\ a.pulled \subseteq Repo /\ \A r \in a.pulled : a.done[r] # None
  /\ a.edges # None => a.edges \subseteq Name \X Name
  /\ DOMAIN a.todo \subseteq Repo
  /\ \A r \in DOMAIN a.todo : a.todo[r].latest \in Commits[r] \cup {None}

\* by_repo_id is complete: the member that records a repository is the one it finds.
ByRepoComplete(a) == \A m \in a.members : dir[m].cfg # None => a.byRepo[dir[m].cfg] = m

\* For a repository that is still to be visited it is also exact: no orphan was adopted.
ByRepoExact(a) ==
  \A r \in DOMAIN a.todo : a.byRepo[r] # None => a.byRepo[r] \in a.members /\ dir[a.byRepo[r]].cfg = r

\* The member of r holds what was counted for r.
Holds(a, r) ==
  /\ r \notin DOMAIN a.todo
  /\ a.byRepo[r] \in a.members /\ dir[a.byRepo[r]].cfg = r
  /\ HoldsCounted(a.byRepo[r], r, a.done[r], a.pulled)

\* The member whose config is being written.
BeingWritten(a, r) == a.phase = "config" /\ r = a.cur[1]

\* The directory n may become the member of r.
Takes(a, r, n) ==
  /\ r \in DOMAIN a.todo /\ n \in Name /\ n[1] = Short[r]
  /\ a.byRepo[r] # None => n = a.byRepo[r]
  /\ n \in a.members => dir[n].cfg \in {r, None}
CurOK(a, r, n) == Takes(a, r, n) /\ a.done[r] # None /\ HoldsCounted(n, r, a.done[r], a.pulled)

\* Half installed: the marker is that of the store to come.
HalfOK(a, r, n) == Takes(a, r, n) /\ \E sha \in Sha : dir[n].marker = <<r, sha>>

Mapping == {"member", "activate", "config", "meta", "manifest", "graph", "rootcfg"}
AllOK(a) ==
  /\ AllShape(a)
  /\ a.phase \in Mapping \cup {"list", "knowledge_only"}
  /\ a.phase = "list" => \A r \in Repo : a.done[r] = None
  /\ a.phase \in Mapping =>
       /\ Members \subseteq a.members
       /\ ByRepoComplete(a) /\ ByRepoExact(a)
       /\ \A r \in Repo : a.done[r] # None /\ ~BeingWritten(a, r) => Holds(a, r)
  /\ a.phase = "config" => a.cur = <<a.cur[1], a.cur[2]>> /\ CurOK(a, a.cur[1], a.cur[2])
  /\ a.phase = "activate" => a.cur = <<a.cur[1], a.cur[2]>> /\ HalfOK(a, a.cur[1], a.cur[2])

\* What pull --workspace has been through, and the member it has half installed.
WorkspaceShape ==
  run = [kind |-> "workspace", phase |-> run.phase, force |-> run.force, ref |-> run.ref,
         ws |-> run.ws, todo |-> run.todo, cur |-> run.cur]
Half(n) == /\ n \in Name /\ WorkspaceRepo(n) # None
           /\ \E sha \in Sha : dir[n].marker = <<WorkspaceRepo(n), sha>>

RunOK ==
  run # Idle =>
    /\ run.kind \in {"all", "workspace"}
    /\ run.kind = "all" => AllOK(run)
    /\ run.kind = "workspace" =>
         /\ root.manifest # None /\ run.ref \in Ref \cup {None} /\ WorkspaceShape
         /\ run.phase = "activate" => Half(run.cur[2])

IInv ==
  /\ TypeOK /\ CacheOK /\ CiOK /\ DirOK /\ RootShape /\ OneMemberPerRepo /\ RunOK
  /\ VisitedIsInstalled /\ TornByFault

------------------------------------------------------------------------------
(* Facts about the operators. *)

LEMMA BareIsName ==
  ASSUME NEW r \in Repo
  PROVE  Bare(r) \in Name /\ Bare(r)[1] = Short[r]
<1>1. 1 \in 1..MaxSuffix
  BY WorkspaceAssumption
<1> QED BY <1>1 DEF Name, Bare

\* What a pull resolves is a published commit of the repository, or nothing.
LEMMA ResolvedIsCommit ==
  ASSUME CacheOK, NEW r \in Repo, NEW f \in Ref \cup {None}
  PROVE  ResolveLatest(cache, r, f) \in Commits[r] \cup {None}
<1>1. DefaultRef(cache, r) \in Ref \cup {None}
  <2>1. RefNames(cache, r) \subseteq Ref
    BY DEF RefNames
  <2>2. CASE Main \in RefNames(cache, r)
    BY <2>1, <2>2 DEF DefaultRef
  <2>3. CASE Main \notin RefNames(cache, r) /\ Cardinality(RefNames(cache, r)) = 1
    <3>1. RefNames(cache, r) # {}
      <4> DEFINE S == RefNames(cache, r)
      <4> SUFFICES ASSUME S = {} PROVE FALSE
        OBVIOUS
      <4>1. Cardinality({}) = 0
        BY FS_EmptySet
      <4> QED BY <2>3, <4>1
    <3> QED BY <2>1, <2>3, <3>1 DEF DefaultRef
  <2>4. CASE Main \notin RefNames(cache, r) /\ Cardinality(RefNames(cache, r)) # 1
    BY <2>4 DEF DefaultRef
  <2> QED BY <2>2, <2>3, <2>4
<1>2. ASSUME NEW g \in Ref PROVE cache.code[r].refs[g] \in Commits[r] \cup {None}
  BY DEF CacheOK
<1> QED BY <1>1, <1>2 DEF ResolveLatest

------------------------------------------------------------------------------
(* The pushes. *)

\* Publishing one member adds its artifact with its ref.
LEMMA PushOneOK ==
  ASSUME CacheOK, NEW r \in Repo, NEW sha \in Sha \cap Commits[r], NEW f \in Ref,
         cache' = PushOne(cache, r, sha, f)
  PROVE  CacheOK'
<1> DEFINE old == cache.code[r]
           new == [old EXCEPT !.arts = @ \cup {sha}, !.refs[f] = sha]
<1>1. old \in [refs : [Ref -> Sha \cup {None}], arts : SUBSET Sha]
  BY DEF CacheOK, CacheShape
<1>2. /\ new \in [refs : [Ref -> Sha \cup {None}], arts : SUBSET Sha]
      /\ new.arts = old.arts \cup {sha}
      /\ new.refs = [old.refs EXCEPT ![f] = sha]
  BY <1>1
<1>3. cache.code \in [Repo -> [refs : [Ref -> Sha \cup {None}], arts : SUBSET Sha]]
      /\ cache = [code |-> cache.code, ws |-> cache.ws, know |-> cache.know]
  BY DEF CacheOK, CacheShape
<1>4. PICK with : with = [cache EXCEPT !.code[r].arts = @ \cup {sha}]
  OBVIOUS
<1>5. cache' = [code |-> [cache.code EXCEPT ![r] = new], ws |-> cache.ws, know |-> cache.know]
  <2>1. /\ with = [code |-> [cache.code EXCEPT ![r] = [old EXCEPT !.arts = @ \cup {sha}]],
                   ws |-> cache.ws, know |-> cache.know]
        /\ cache' = [with EXCEPT !.code[r].refs[f] = sha]
    BY <1>3, <1>4 DEF PushOne
  <2>2. with.code[r] = [old EXCEPT !.arts = @ \cup {sha}]
    BY <1>3, <2>1
  <2>3. cache' = [code |-> [with.code EXCEPT ![r] = [with.code[r] EXCEPT !.refs[f] = sha]],
                  ws |-> cache.ws, know |-> cache.know]
    BY <2>1
  <2>4. [with.code EXCEPT ![r] = new] = [cache.code EXCEPT ![r] = new]
    <3> HIDE DEF new
    <3> QED BY <1>3, <2>1
  <2> QED BY <2>2, <2>3, <2>4
<1> HIDE DEF new
<1>6. cache'.code[r] = new /\ \A q \in Repo \ {r} : cache'.code[q] = cache.code[q]
  BY <1>3, <1>5
<1>7. CacheShape'
  BY <1>2, <1>3, <1>5 DEF CacheShape
<1>8. ASSUME NEW q \in Repo, NEW g \in Ref, cache'.code[q].refs[g] # None
      PROVE  cache'.code[q].refs[g] \in Commits[q]
  <2>1. CASE q # r
    BY <1>6, <1>8, <2>1 DEF CacheOK
  <2>2. CASE q = r
    <3>1. new.refs[g] = IF g = f THEN sha ELSE old.refs[g]
      BY <1>1, <1>2
    <3>2. g # f => old.refs[g] \in Commits[r]
      BY <1>6, <1>8, <2>2, <3>1 DEF CacheOK
    <3> QED BY <1>2, <1>6, <2>2, <3>1, <3>2
  <2> QED BY <2>1, <2>2
<1> QED BY <1>7, <1>8 DEF CacheOK

PushAction ==
  \/ PushStep \/ PushDies
  \/ \E co \in Checkout, f \in Ref \cup {None} :
       \/ StartPush(co, f, TRUE, None)
       \/ \E r \in Repo \ BaseMembers : StartPush(co, f, FALSE, r)
  \/ \E c \in Corpus, s \in Snap : PublishCorpus(c, s)

LEMMA PushOK ==
  ASSUME CacheOK, CiOK, PushAction, used \in [push : 0..MaxPush, run : 0..MaxRun, fault : 0..MaxFault]
  PROVE  CacheOK' /\ CiOK' /\ used' \in [push : 0..MaxPush, run : 0..MaxRun, fault : 0..MaxFault]
<1> DEFINE Used == [push : 0..MaxPush, run : 0..MaxRun, fault : 0..MaxFault]
<1>1. CASE PushStep
  <2>1. ci # None /\ used' = used
    BY <1>1 DEF PushStep
  <2>2. ASSUME NEW r \in ci.todo, cache' = PushOne(cache, r, ci.sha, ci.branch),
               ci' = IF ci.todo = {r} /\ ~ci.meta THEN None ELSE [ci EXCEPT !.todo = @ \ {r}]
        PROVE  CacheOK' /\ CiOK'
    <3>1. CacheOK'
      BY <2>1, <2>2, PushOneOK DEF CiOK
    <3>2. CASE ci' = [ci EXCEPT !.todo = @ \ {r}]
      <4>1. /\ ci'.sha = ci.sha /\ ci'.branch = ci.branch /\ ci'.meta = ci.meta
            /\ ci'.todo = ci.todo \ {r}
            /\ ci' = [sha |-> ci'.sha, branch |-> ci'.branch, meta |-> ci'.meta, todo |-> ci'.todo]
        BY <2>1, <3>2 DEF CiOK
      <4> QED BY <2>1, <3>1, <4>1 DEF CiOK
    <3>3. CASE ci' = None
      BY <3>1, <3>3 DEF CiOK
    <3> QED BY <2>2, <3>2, <3>3
  <2>3. ASSUME cache' = [cache EXCEPT !.ws = TRUE], ci' = None PROVE CacheOK' /\ CiOK'
    <3>1. cache' = [code |-> cache.code, ws |-> TRUE, know |-> cache.know]
      BY <2>3 DEF CacheOK, CacheShape
    <3>2. cache'.code = cache.code
      BY <3>1
    <3> QED BY <2>3, <3>1, <3>2 DEF CacheOK, CacheShape, CiOK
  <2> QED BY <1>1, <2>1, <2>2, <2>3 DEF PushStep
<1>2. CASE PushDies
  BY <1>2 DEF PushDies, CacheOK, CacheShape, CiOK
<1>3. ASSUME NEW co \in Checkout, NEW f \in Ref \cup {None}, NEW w \in BOOLEAN, NEW r,
             w \/ r \in Repo, StartPush(co, f, w, r)
      PROVE  CacheOK' /\ CiOK' /\ used' \in Used
  <2> DEFINE sha == ResolvePushSha(co)
             branch == ResolvePushBranch(co, f)
             todo == IF w THEN BaseMembers ELSE {r}
  <2>1. /\ sha # None /\ branch # None
        /\ sha \in Commits[IF w THEN CHOOSE q \in BaseMembers : TRUE ELSE r]
        /\ ci' = [sha |-> sha, branch |-> branch, meta |-> w, todo |-> todo]
        /\ cache' = cache /\ used.push < MaxPush /\ used' = [used EXCEPT !.push = @ + 1]
    BY <1>3 DEF StartPush
  <2>2. sha \in Sha /\ branch \in Ref
    BY <2>1, NoneAssumption DEF ResolvePushSha, ResolvePushBranch, Checkout
  <2>3. todo \subseteq Repo
    BY <1>3, WorkspaceAssumption
  <2>4. \A q \in todo : sha \in Commits[q]
    <3>1. CASE w
      <4>1. \A q \in BaseMembers : Commits[q] = Commits[CHOOSE s \in BaseMembers : TRUE]
        BY WorkspaceAssumption
      <4> QED BY <2>1, <3>1, <4>1
    <3>2. CASE ~w
      BY <2>1, <3>2
    <3> QED BY <3>1, <3>2
  <2>5. used' \in Used
    BY <2>1, WorkspaceAssumption
  <2> HIDE DEF sha, branch, todo
  <2>6. CiOK'
    BY <2>1, <2>2, <2>3, <2>4 DEF CiOK
  <2>7. CacheOK'
    BY <2>1 DEF CacheOK, CacheShape
  <2> QED BY <2>5, <2>6, <2>7
<1>4. ASSUME NEW c \in Corpus, NEW s \in Snap, PublishCorpus(c, s)
      PROVE  CacheOK' /\ CiOK' /\ used' \in Used
  <2>1. /\ cache' = [cache EXCEPT !.know = [cache.know EXCEPT ![c] = s]] /\ ci' = ci
        /\ used.push < MaxPush /\ used' = [used EXCEPT !.push = @ + 1]
    BY <1>4 DEF PublishCorpus
  <2>2. cache' = [code |-> cache.code, ws |-> cache.ws, know |-> [cache.know EXCEPT ![c] = s]]
    BY <2>1 DEF CacheOK, CacheShape
  <2>3. cache'.code = cache.code /\ cache'.ws = cache.ws
        /\ cache' = [code |-> cache'.code, ws |-> cache'.ws, know |-> cache'.know]
    BY <2>2
  <2>4. used' \in Used
    BY <2>1, WorkspaceAssumption
  <2> QED BY <2>1, <2>3, <2>4 DEF CacheOK, CacheShape, CiOK
<1> QED
  <2>1. used' = used => used' \in Used
    OBVIOUS
  <2>2. PushStep \/ PushDies => used' = used
    BY DEF PushStep, PushDies
  <2> QED BY <1>1, <1>2, <1>3, <1>4, <2>1, <2>2 DEF PushAction

------------------------------------------------------------------------------
(* The consumer. *)

DirType == [cfg : Repo \cup {None}, ref : Ref \cup {None}, marker : (Repo \X Sha) \cup {None},
            store : (Repo \X Sha) \cup {None}, torn : BOOLEAN]
Dirs == [Name -> DirType]
UsedSet == [push : 0..MaxPush, run : 0..MaxRun, fault : 0..MaxFault]

LEMMA Types ==
  ASSUME IInv
  PROVE  /\ dir \in Dirs /\ Members \subseteq Name /\ used \in UsedSet
         /\ root.graph # None => root.graph \subseteq Name \X Name
         /\ CacheOK /\ CiOK /\ DirOK /\ RootShape /\ OneMemberPerRepo /\ RunOK
         /\ VisitedIsInstalled /\ TornByFault
BY DEF IInv, TypeOK, Dirs, DirType, UsedSet

\* What is to be shown of a step of the consumer.
LEMMA ConsumerStep ==
  ASSUME IInv, UNCHANGED <<cache, ci>>, dir' \in Dirs, DirOK', RootShape', used' \in UsedSet,
         Members' \subseteq Name, root'.graph # None => root'.graph \subseteq Name \X Name,
         OneMemberPerRepo', RunOK', VisitedIsInstalled', TornByFault'
  PROVE  IInv'
<1>1. CacheOK' /\ CiOK'
  BY DEF IInv, CacheOK, CacheShape, CiOK
<1>2. TypeOK'
  BY <1>1 DEF TypeOK, Dirs, DirType, UsedSet, CacheOK, CacheShape
<1> QED BY <1>1, <1>2 DEF IInv

\* A step that is not one of an install: pull --workspace has been through no further member,
\* and a half installed one is left only by a fault.
Quiet ==
  /\ run' # Idle /\ run'.kind = "workspace" =>
       \A n \in Members' \ run'.todo : run # Idle /\ run.kind = "workspace" /\ n \in Members \ run.todo
  /\ used'.fault = 0 => used.fault = 0 /\ \A n \in Name : Installing(n) => Installing(n)'

LEMMA QuietOK ==
  ASSUME IInv, Quiet, dir' = dir, used' \in UsedSet
  PROVE  VisitedIsInstalled' /\ TornByFault'
<1>1. VisitedIsInstalled'
  BY Types DEF Quiet, VisitedIsInstalled
<1>2. TornByFault'
  <2> SUFFICES ASSUME NEW n \in Name, dir[n].store # dir[n].marker, used'.fault = 0
               PROVE  Installing(n)'
    BY DEF TornByFault, UsedSet
  <2>1. used.fault = 0
    BY DEF Quiet
  <2>2. Installing(n)
    BY <2>1, Types DEF TornByFault
  <2> QED BY <2>2 DEF Quiet
<1> QED BY <1>1, <1>2

\* A step of no install, or the end of a run outside of one.
LEMMA QuietStep ==
  ASSUME IInv, used' = used, run = Idle \/ run.phase # "activate",
         run' = Idle \/ run'.kind = "all"
  PROVE  Quiet
BY DEF Quiet, Installing

LEMMA FaultQuiet ==
  ASSUME IInv, used' = [used EXCEPT !.fault = @ + 1], run' = Idle \/ run'.kind = "all"
  PROVE  Quiet
<1>1. used'.fault = used.fault + 1 /\ used.fault \in Nat
  BY Types DEF UsedSet
<1> QED BY <1>1 DEF Quiet

\* A step that leaves the files alone.
LEMMA RunStep ==
  ASSUME IInv, UNCHANGED <<cache, ci, dir, root>>, used' \in UsedSet, RunOK', Quiet
  PROVE  IInv'
<1>1. Members' = Members
  BY DEF Members
<1>2. DirOK' /\ RootShape' /\ OneMemberPerRepo'
  BY <1>1, Types DEF DirOK, RootShape, OneMemberPerRepo
<1> QED BY <1>1, <1>2, QuietOK, Types, ConsumerStep

\* What AllOK says of a run does not depend on which variable holds it.
LEMMA HeldRun ==
  ASSUME NEW a, AllOK(a), UNCHANGED <<dir, root>>, run' = a
  PROVE  AllOK(run)'
<1>1. Members' = Members
  BY DEF Members
<1>2. ByRepoComplete(a) => ByRepoComplete(run)'
  BY DEF ByRepoComplete
<1>3. ByRepoExact(a) => ByRepoExact(run)'
  BY DEF ByRepoExact
<1>4. ASSUME NEW r PROVE (Holds(a, r) => Holds(run, r)') /\ (BeingWritten(a, r) <=> BeingWritten(run, r)')
  BY DEF Holds, BeingWritten, HoldsCounted
<1>5. ASSUME NEW r, NEW n PROVE (CurOK(a, r, n) => CurOK(run, r, n)') /\ (HalfOK(a, r, n) => HalfOK(run, r, n)')
  BY DEF CurOK, HalfOK, Takes, HoldsCounted
<1>6. AllShape(run)'
  BY DEF AllOK, AllShape
<1>7. /\ a.phase = "config" => CurOK(run, run.cur[1], run.cur[2])'
      /\ a.phase = "activate" => HalfOK(run, run.cur[1], run.cur[2])'
  BY <1>5 DEF AllOK
<1> QED BY <1>1, <1>2, <1>3, <1>4, <1>6, <1>7 DEF AllOK

\* An ended run.
LEMMA NoRunOK == run' = Idle => RunOK'
BY DEF RunOK

LEMMA StartPullAllOK ==
  ASSUME IInv, NEW c \in Corpus \cup {None}, StartPullAll(c)
  PROVE  IInv'
<1>1. used' \in UsedSet /\ UNCHANGED <<cache, ci, dir, root>>
  <2>1. used \in UsedSet /\ used.run < MaxRun /\ used' = [used EXCEPT !.run = @ + 1]
    BY Types DEF StartPullAll
  <2> QED BY <2>1, WorkspaceAssumption DEF StartPullAll, UsedSet
<1>2. PICK a : a = [kind |-> "all", phase |-> "list", corpus |-> c, todo |-> <<>>,
             know |-> None, ws |-> FALSE, members |-> {}, typed |-> {}, byRepo |-> [r \in Repo |-> None],
             edges |-> None, cur |-> None, done |-> [r \in Repo |-> None], pulled |-> {}]
  OBVIOUS
<1>3. AllOK(a)
  <2>1. DOMAIN <<>> = {}
    OBVIOUS
  <2>2. AllShape(a)
    BY <1>2, <2>1 DEF AllShape, Fields
  <2> QED BY <1>2, <2>2 DEF AllOK, Mapping
<1>4. run' = a
  BY <1>2 DEF StartPullAll
<1>5. run'.kind = "all"
  BY <1>2, <1>4
<1>6. RunOK'
  BY <1>1, <1>3, <1>4, <1>5, HeldRun DEF RunOK
<1>7. Quiet
  <2>1. run = Idle /\ used'.fault = used.fault
    BY Types DEF StartPullAll, NoRun, UsedSet
  <2> QED BY <1>5, <2>1 DEF Quiet, Installing
<1> QED BY <1>1, <1>6, <1>7, RunStep

\* cmd_list and the member configs: by_repo_id is complete and exact.
LEMMA ListCacheOK ==
  ASSUME IInv, ListCache
  PROVE  IInv'
<1>0. /\ dir \in Dirs /\ Members \subseteq Name /\ used \in UsedSet
      /\ CacheOK /\ OneMemberPerRepo /\ RunOK
  BY Types
<1>1. UNCHANGED <<cache, ci, dir, root, used>> /\ run # Idle /\ run.kind = "all" /\ run.phase = "list"
  BY DEF ListCache, In
<1>2. AllOK(run)
  BY <1>0, <1>1 DEF RunOK
<1>3. PICK found : found = [r \in Repo |-> IF \E n \in Members : dir[n].cfg = r
                                           THEN CHOOSE n \in Members : dir[n].cfg = r ELSE None]
  OBVIOUS
<1>r. PICK rows : rows = [r \in Listed(cache) |-> Row(cache, r)]
  OBVIOUS
<1>t. PICK typed : typed = {n \in Members : root.manifest[n]}
  OBVIOUS
<1>h. PICK ph \in {"knowledge_only", "member"} :
         ph = IF Listed(cache) = {} THEN "knowledge_only" ELSE "member"
  OBVIOUS
<1>a. PICK a : a = [run EXCEPT !.phase = ph, !.todo = rows, !.know = cache.know, !.ws = cache.ws,
                               !.members = Members, !.typed = typed, !.byRepo = found]
  OBVIOUS
<1>4. run' = Idle \/ run' = a
  BY <1>3, <1>r, <1>t, <1>h, <1>a DEF ListCache, Members, Fail
<1>5. /\ a.kind = "all" /\ a.phase \in {"knowledge_only", "member"}
      /\ a.todo = [r \in Listed(cache) |-> Row(cache, r)]
      /\ a.members = Members /\ a.done = run.done /\ a.edges = run.edges /\ a.pulled = run.pulled
      /\ a.byRepo = [r \in Repo |-> IF \E n \in Members : dir[n].cfg = r
                                    THEN CHOOSE n \in Members : dir[n].cfg = r ELSE None]
      /\ a = [x \in Fields |-> a[x]]
  <2>1. run = [x \in Fields |-> run[x]]
    BY <1>2 DEF AllOK, AllShape
  <2> QED BY <1>1, <1>3, <1>r, <1>h, <1>a, <2>1 DEF Fields
<1>6. \A r \in Repo : \/ a.byRepo[r] \in Members /\ dir[a.byRepo[r]].cfg = r
                      \/ a.byRepo[r] = None /\ \A n \in Members : dir[n].cfg # r
  BY <1>5
<1>7. \A r \in DOMAIN a.todo : r \in Repo /\ a.todo[r].latest \in Commits[r] \cup {None}
  <2> SUFFICES ASSUME NEW r \in Listed(cache) PROVE r \in Repo /\ Row(cache, r).latest \in Commits[r] \cup {None}
    BY <1>5
  <2> QED BY <1>0, ResolvedIsCommit DEF Listed, Row
<1>8. AllShape(a)
  <2>1. a.byRepo \in [Repo -> Name \cup {None}]
    BY <1>0, <1>5, <1>6
  <2>2. /\ a.done \in [Repo -> Sha \cup {None}] /\ (a.edges # None => a.edges \subseteq Name \X Name)
        /\ a.pulled \subseteq Repo /\ \A r \in a.pulled : a.done[r] # None
    BY <1>2, <1>5 DEF AllOK, AllShape
  <2> QED BY <1>0, <1>5, <1>7, <2>1, <2>2 DEF AllShape
<1>9. ByRepoComplete(a)
  <2> SUFFICES ASSUME NEW m \in Members, dir[m].cfg # None PROVE a.byRepo[dir[m].cfg] = m
    BY <1>5 DEF ByRepoComplete
  <2>1. dir[m].cfg \in Repo
    BY <1>0 DEF Dirs, DirType
  <2>2. a.byRepo[dir[m].cfg] \in Members /\ dir[a.byRepo[dir[m].cfg]].cfg = dir[m].cfg
    BY <1>6, <2>1
  <2> QED BY <1>0, <2>2 DEF OneMemberPerRepo
<1>10. ByRepoExact(a)
  BY <1>5, <1>6, <1>7 DEF ByRepoExact
<1>11. \A r \in Repo : a.done[r] = None
  BY <1>1, <1>2, <1>5 DEF AllOK
<1>12. AllOK(a)
  BY <1>5, <1>8, <1>9, <1>10, <1>11 DEF AllOK, Mapping
<1>13. CASE run' = a
  <2>1. run'.kind = "all" /\ AllOK(run)'
    BY <1>1, <1>5, <1>12, <1>13, HeldRun
  <2>2. Quiet
    BY <1>1, <2>1, QuietStep
  <2> QED BY <1>0, <1>1, <2>1, <2>2, RunStep DEF RunOK
<1>14. CASE run' = Idle
  BY <1>0, <1>1, <1>14, NoRunOK, QuietStep, RunStep
<1> QED BY <1>4, <1>13, <1>14

\* The member found for a repository: its own, an orphan of its short name, or a name nobody has.
LEMMA MemberForOK ==
  ASSUME IInv, In("all", "member") \/ In("all", "activate"), NEW r \in DOMAIN run.todo
  PROVE  /\ r \in Repo /\ ExistingMember(r) \in Name \cup {None}
         /\ run.byRepo[r] # None => ExistingMember(r) = run.byRepo[r]
         /\ \A n \in Name : MemberFor(r, n) => Takes(run, r, n)
         /\ run.byRepo[r] = None => \A m \in run.members : dir[m].cfg # r
<1>0. AllOK(run) /\ DirOK /\ dir \in Dirs /\ run.phase \in Mapping
  BY Types DEF RunOK, In, Mapping
<1>1. r \in Repo /\ r # None /\ Bare(r) \in Name /\ Bare(r) # None /\ Bare(r)[1] = Short[r]
      /\ run.byRepo[r] \in Name \cup {None}
  <2>1. r \in Repo /\ run.byRepo[r] \in Name \cup {None}
    BY <1>0 DEF AllOK, AllShape
  <2> QED BY <2>1, BareIsName, NoneAssumption
<1>2. CASE run.byRepo[r] # None
  <2>1. ExistingMember(r) = run.byRepo[r]
    BY <1>2 DEF ExistingMember
  <2>2. run.byRepo[r] \in run.members /\ dir[run.byRepo[r]].cfg = r /\ run.byRepo[r] \in Name
    BY <1>0, <1>1, <1>2 DEF AllOK, ByRepoExact
  <2>3. run.byRepo[r][1] = Short[r]
    BY <1>0, <1>1, <2>2 DEF DirOK
  <2> QED BY <1>1, <1>2, <2>1, <2>2, <2>3 DEF MemberFor, Takes
<1>3. CASE run.byRepo[r] = None
  <2>1. \A m \in run.members : dir[m].cfg # r
    BY <1>0, <1>1, <1>3, NoneAssumption DEF AllOK, ByRepoComplete, AllShape
  <2>2. CASE Bare(r) \in run.members /\ dir[Bare(r)].cfg = None
    BY <1>1, <1>3, <2>1, <2>2 DEF MemberFor, ExistingMember, Takes
  <2>3. CASE ~(Bare(r) \in run.members /\ dir[Bare(r)].cfg = None)
    BY <1>1, <1>3, <2>1, <2>3 DEF MemberFor, ExistingMember, FreeName, Takes
  <2> QED BY <2>2, <2>3
<1> QED BY <1>2, <1>3

\* The sync.ref of a member or the listing names a commit of the repository.
LEMMA TargetShaOK ==
  ASSUME IInv, In("all", "member"), NEW r \in DOMAIN run.todo
  PROVE  TargetSha(r) \in Commits[r] \cup {None}
<1>0. AllOK(run) /\ dir \in Dirs /\ CacheOK
  BY Types DEF RunOK, In
<1>1. r \in Repo /\ run.byRepo[r] \in Name \cup {None} /\ run.todo[r].latest \in Commits[r] \cup {None}
  BY <1>0 DEF AllOK, AllShape
<1>2. run.byRepo[r] # None => dir[run.byRepo[r]].ref \in Ref \cup {None}
  BY <1>0, <1>1 DEF Dirs, DirType
<1>3. \A f \in Ref : cache.code[r].refs[f] \in Commits[r] \cup {None}
  BY <1>0, <1>1 DEF CacheOK
<1> QED BY <1>1, <1>2, <1>3 DEF TargetSha

\* A repository is dropped from the list: skipped or failed, with an orphan adopted.
LEMMA SkipOK ==
  ASSUME IInv, In("all", "member") \/ In("all", "activate"), NEW r \in DOMAIN run.todo,
         NEW e \in {run.byRepo[r], ExistingMember(r)}, NEW c,
         UNCHANGED <<cache, ci, dir, root>>, used' \in UsedSet,
         \/ used' = used /\ In("all", "member")
         \/ used' = [used EXCEPT !.fault = @ + 1],
         run' = [run EXCEPT !.phase = "member", !.cur = c, !.todo = Visited(r), !.byRepo[r] = e]
  PROVE  IInv'
<1>0. AllOK(run) /\ run.kind = "all" /\ run.phase \in {"member", "activate"} /\ run.phase \in Mapping
  BY Types DEF RunOK, In, Mapping
<1>1. /\ r \in Repo /\ e \in Name \cup {None}
      /\ run.byRepo[r] # None => e = run.byRepo[r]
      /\ run.byRepo[r] = None => \A m \in run.members : dir[m].cfg # r
      /\ run.byRepo \in [Repo -> Name \cup {None}]
  BY <1>0, MemberForOK DEF AllOK, AllShape
<1>2. PICK todo : todo = Visited(r)
  OBVIOUS
<1>3. PICK found : found = [run.byRepo EXCEPT ![r] = e]
  OBVIOUS
<1>4. PICK a : a = [run EXCEPT !.phase = "member", !.cur = c, !.todo = todo, !.byRepo = found]
  OBVIOUS
<1>5. /\ a.kind = "all" /\ a = [x \in Fields |-> a[x]] /\ a.phase = "member"
      /\ a.todo = todo /\ a.byRepo = found
      /\ a.members = run.members /\ a.done = run.done /\ a.edges = run.edges /\ a.pulled = run.pulled
  <2>1. run = [x \in Fields |-> run[x]]
    BY <1>0 DEF AllOK, AllShape
  <2> QED BY <1>0, <1>4, <2>1 DEF Fields
<1>6. run' = a
  <2>1. run = [x \in Fields |-> run[x]]
    BY <1>0 DEF AllOK, AllShape
  <2> QED BY <1>2, <1>3, <1>4, <2>1 DEF Fields
<1>7. DOMAIN todo = DOMAIN run.todo \ {r} /\ \A q \in DOMAIN todo : todo[q] = run.todo[q]
  BY <1>2 DEF Visited
<1>8. found \in [Repo -> Name \cup {None}] /\ found[r] = e /\ \A q \in Repo \ {r} : found[q] = run.byRepo[q]
  BY <1>1, <1>3
<1>9. AllShape(a)
  BY <1>0, <1>5, <1>7, <1>8 DEF AllOK, AllShape
<1>10. ByRepoComplete(a)
  <2> SUFFICES ASSUME NEW m \in run.members, dir[m].cfg # None PROVE found[dir[m].cfg] = m
    BY <1>5 DEF ByRepoComplete
  <2>1. dir[m].cfg \in Repo /\ run.byRepo[dir[m].cfg] = m
    <3>1. m \in Name
      BY <1>0 DEF AllOK, AllShape
    <3> QED BY <1>0, <3>1, Types DEF AllOK, ByRepoComplete, Dirs, DirType
  <2> QED BY <1>1, <1>8, <2>1
<1>11. ByRepoExact(a)
  <2>1. \A q \in DOMAIN todo : q \in Repo \ {r} /\ q \in DOMAIN run.todo
    BY <1>0, <1>7 DEF AllOK, AllShape
  <2> QED BY <1>0, <1>5, <1>8, <2>1 DEF AllOK, ByRepoExact
<1>12. ASSUME NEW q \in Repo, a.done[q] # None PROVE Holds(a, q)
  <2>1. Holds(run, q)
    BY <1>0, <1>5, <1>12 DEF AllOK, BeingWritten
  <2>2. q # r
    BY <2>1 DEF Holds
  <2> QED BY <1>5, <1>7, <1>8, <2>1, <2>2 DEF Holds
<1>13. AllOK(a)
  BY <1>0, <1>5, <1>9, <1>10, <1>11, <1>12 DEF AllOK, Mapping
<1>14. RunOK'
  <2>1. AllOK(run)'
    BY <1>6, <1>13, HeldRun
  <2> QED BY <1>5, <1>6, <2>1 DEF RunOK
<1>15. Quiet
  <2>1. CASE used' = used /\ In("all", "member")
    BY <1>5, <1>6, <2>1, QuietStep DEF In
  <2>2. CASE used' = [used EXCEPT !.fault = @ + 1]
    BY <1>5, <1>6, <2>2, FaultQuiet
  <2> QED BY <2>1, <2>2
<1> QED BY <1>14, <1>15, RunStep

\* At most the store of directory n changes, and no config.
OnlyStoreOf(n) == \A m \in Name : dir'[m].cfg = dir[m].cfg /\ (m # n => dir'[m] = dir[m])

\* What such a step leaves of the run.
Counts(r, n, ph, done, pulled) ==
  /\ run # Idle /\ run.kind = "all" /\ run.phase \in {"member", "activate"}
  /\ Takes(run, r, n) /\ ph \in {"activate", "config"}
  /\ done \in [Repo -> Sha \cup {None}]
  /\ \A q \in pulled : q \in Repo /\ done[q] # None
  /\ \A q \in Repo \ {r} : done[q] = run.done[q] /\ (q \in pulled <=> q \in run.pulled)
  /\ ph = "activate" => done = run.done /\ \E sha \in Sha : dir'[n].marker = <<r, sha>>
  /\ ph = "config" => done[r] # None /\ HoldsCounted(n, r, done[r], pulled)'
  /\ dir' \in Dirs /\ OnlyStoreOf(n) /\ UNCHANGED root
  /\ run' = [run EXCEPT !.phase = ph, !.cur = <<r, n>>, !.done = done, !.pulled = pulled]

\* A member is half installed, or it is counted: up to date, or with its new store.
LEMMA MemberStep ==
  ASSUME IInv, NEW r, NEW n, NEW ph, NEW done, NEW pulled, Counts(r, n, ph, done, pulled)
  PROVE  RunOK'
<1>a. /\ run # Idle /\ run.kind = "all" /\ run.phase \in {"member", "activate"}
      /\ Takes(run, r, n) /\ ph \in {"activate", "config"}
      /\ done \in [Repo -> Sha \cup {None}]
      /\ \A q \in pulled : q \in Repo /\ done[q] # None
      /\ \A q \in Repo \ {r} : done[q] = run.done[q] /\ (q \in pulled <=> q \in run.pulled)
      /\ ph = "activate" => done = run.done /\ \E sha \in Sha : dir'[n].marker = <<r, sha>>
      /\ ph = "config" => done[r] # None /\ HoldsCounted(n, r, done[r], pulled)'
      /\ dir' \in Dirs /\ OnlyStoreOf(n) /\ UNCHANGED root
      /\ run' = [run EXCEPT !.phase = ph, !.cur = <<r, n>>, !.done = done, !.pulled = pulled]
  BY DEF Counts
<1>0. AllOK(run) /\ run.phase \in Mapping /\ run.phase # "config" /\ Members' = Members
  BY <1>a, Types DEF RunOK, Mapping, Members
<1>1. /\ r \in Repo /\ n \in Name /\ n[1] = Short[r]
      /\ run.byRepo[r] # None => n = run.byRepo[r]
      /\ n \in run.members => dir[n].cfg \in {r, None}
      /\ r \in DOMAIN run.todo
  BY <1>a, <1>0 DEF Takes, AllOK, AllShape
<1>2. PICK cur : cur = <<r, n>>
  OBVIOUS
<1>3. cur = <<cur[1], cur[2]>> /\ cur[1] = r /\ cur[2] = n
  BY <1>a, <1>2
<1>4. run' = [run EXCEPT !.phase = ph, !.cur = cur, !.done = done, !.pulled = pulled]
  BY <1>a, <1>2
<1>5. /\ run'.kind = "all" /\ run' = [x \in Fields |-> run'[x]] /\ run'.phase = ph
      /\ run'.cur = cur /\ run'.done = done /\ run'.pulled = pulled
      /\ run'.members = run.members /\ run'.todo = run.todo /\ run'.byRepo = run.byRepo
      /\ run'.edges = run.edges
  <2>1. run = [x \in Fields |-> run[x]]
    BY <1>a, <1>0 DEF AllOK, AllShape
  <2> QED BY <1>a, <1>4, <2>1 DEF Fields
<1>6. AllShape(run)'
  <2>1. AllShape(run)
    BY <1>0 DEF AllOK
  <2>2. (run.pulled \subseteq Repo /\ \A q \in run.pulled : run.done[q] # None)'
    BY <1>a, <1>5
  <2> QED BY <1>a, <1>5, <2>1, <2>2 DEF AllShape
<1>7. \A m \in run.members : m \in Name /\ dir'[m].cfg = dir[m].cfg
  BY <1>a, <1>0 DEF AllOK, AllShape, OnlyStoreOf
<1>8. ByRepoComplete(run)'
  BY <1>a, <1>0, <1>5, <1>7 DEF AllOK, ByRepoComplete
<1>9. ByRepoExact(run)'
  BY <1>a, <1>0, <1>5, <1>7 DEF AllOK, ByRepoExact
<1>10. ASSUME NEW q \in Repo, done[q] # None, q # r PROVE Holds(run, q)'
  <2>1. Holds(run, q)
    BY <1>a, <1>0, <1>10 DEF AllOK, BeingWritten
  <2>2. run.byRepo[q] \in run.members /\ dir[run.byRepo[q]].cfg = q /\ q # None
    BY <1>a, <2>1, <1>10, NoneAssumption DEF Holds
  <2>3. run.byRepo[q] # n
    BY <1>a, <1>1, <1>10, <2>2
  <2>4. dir'[run.byRepo[q]] = dir[run.byRepo[q]]
    BY <1>a, <1>7, <2>2, <2>3 DEF OnlyStoreOf
  <2>5. HoldsCounted(run.byRepo[q], q, run.done[q], run.pulled)
    BY <1>a, <2>1 DEF Holds
  <2>6. (HoldsCounted(run.byRepo[q], q, run.done[q], run.pulled))'
    BY <1>a, <1>5, <1>10, <2>4, <2>5 DEF HoldsCounted
  <2> QED BY <1>a, <1>5, <2>1, <2>2, <2>4, <2>6 DEF Holds
<1>11. ASSUME ph = "activate" PROVE done[r] = None
  <2>1. run.done[r] # None => Holds(run, r)
    BY <1>a, <1>0, <1>1 DEF AllOK, BeingWritten
  <2> QED BY <1>a, <1>1, <1>11, <2>1 DEF Holds
<1>12. Takes(run, r, n)'
  BY <1>a, <1>1, <1>5 DEF Takes, OnlyStoreOf
<1>13. ph = "config" => CurOK(run, r, n)'
  BY <1>a, <1>5, <1>12 DEF CurOK, HoldsCounted
<1>14. ph = "activate" => HalfOK(run, r, n)'
  BY <1>a, <1>12 DEF HalfOK
<1>15. AllOK(run)'
  <2>1. \A q \in Repo : (run.done[q] # None /\ ~BeingWritten(run, q) => Holds(run, q))'
    BY <1>a, <1>3, <1>5, <1>10, <1>11 DEF BeingWritten
  <2>2. (Members \subseteq run.members)'
    BY <1>a, <1>0, <1>5 DEF AllOK
  <2> QED BY <1>a, <1>3, <1>5, <1>6, <1>8, <1>9, <1>13, <1>14, <2>1, <2>2 DEF AllOK, Mapping
<1> QED BY <1>a, <1>5, <1>15 DEF RunOK

\* install_artifact, first half: the marker and nothing else.
LEMMA MarkerWritten ==
  ASSUME dir \in Dirs, NEW n \in Name, NEW r \in Repo, NEW sha \in Sha, WriteMarker(n, r, sha)
  PROVE  /\ dir' \in Dirs /\ dir'[n].marker = <<r, sha>> /\ dir'[n].torn = TRUE
         /\ OnlyStoreOf(n)
<1> DEFINE d == [dir[n] EXCEPT !.marker = <<r, sha>>, !.torn = TRUE]
<1>1. d \in DirType /\ d.marker = <<r, sha>> /\ d.torn = TRUE /\ d.cfg = dir[n].cfg
  BY DEF Dirs, DirType
<1>2. dir' = [dir EXCEPT ![n] = d]
  BY DEF Dirs, WriteMarker
<1> HIDE DEF d
<1> QED BY <1>1, <1>2, ZenonT(60) DEF Dirs, OnlyStoreOf

\* Second half: the store becomes that of the marker.
LEMMA StoreRenamed ==
  ASSUME dir \in Dirs, NEW n \in Name, RenameStore(n)
  PROVE  /\ dir' \in Dirs /\ dir'[n].marker = dir[n].marker /\ dir'[n].store = dir[n].marker
         /\ OnlyStoreOf(n)
<1> DEFINE d == [dir[n] EXCEPT !.store = dir[n].marker, !.torn = FALSE]
<1>1. d \in DirType /\ d.marker = dir[n].marker /\ d.store = dir[n].marker /\ d.cfg = dir[n].cfg
  BY DEF Dirs, DirType
<1>2. dir' = [dir EXCEPT ![n] = d]
  BY DEF Dirs, RenameStore
<1> HIDE DEF d
<1> QED BY <1>1, <1>2, ZenonT(60) DEF Dirs, OnlyStoreOf

LEMMA MarkerWrittenOK ==
  ASSUME DirOK, NEW n \in Name, NEW r \in Repo, NEW sha \in Commits[r], n[1] = Short[r],
         OnlyStoreOf(n), dir'[n].marker = <<r, sha>>, dir'[n].torn = TRUE
  PROVE  DirOK'
<1>1. <<r, sha>>[1] = r /\ <<r, sha>>[2] = sha
  OBVIOUS
<1> SUFFICES ASSUME NEW m \in Name
             PROVE  /\ dir'[m].cfg # None => m[1] = Short[dir'[m].cfg]
                    /\ ~dir'[m].torn => dir'[m].store = dir'[m].marker
                    /\ dir'[m].marker # None => /\ m[1] = Short[dir'[m].marker[1]]
                                                /\ dir'[m].marker[2] \in Commits[dir'[m].marker[1]]
  BY DEF DirOK
<1>2. CASE m # n
  BY <1>2 DEF DirOK, OnlyStoreOf
<1>3. CASE m = n
  <2>1. dir'[n].cfg # None => n[1] = Short[dir'[n].cfg]
    BY DEF DirOK, OnlyStoreOf
  <2> QED BY <1>1, <1>3, <2>1
<1> QED BY <1>2, <1>3

LEMMA StoreRenamedOK ==
  ASSUME DirOK, NEW n \in Name, OnlyStoreOf(n), dir'[n].marker = dir[n].marker,
         dir'[n].store = dir[n].marker
  PROVE  DirOK'
BY DEF DirOK, OnlyStoreOf

\* The files of no other member change, so only this one can come to differ from its marker.
LEMMA InstallStep ==
  ASSUME IInv, NEW n \in Name, OnlyStoreOf(n), UNCHANGED used,
         \A m \in Name : Installing(m) => m = n,
         Installing(n)' \/ dir'[n].store = dir'[n].marker
  PROVE  TornByFault'
<1> SUFFICES ASSUME NEW m \in Name, dir'[m].store # dir'[m].marker PROVE used.fault > 0 \/ Installing(m)'
  BY DEF TornByFault
<1>1. CASE m = n
  BY <1>1
<1>2. CASE m # n
  <2>1. dir[m].store # dir[m].marker /\ ~Installing(m)
    BY <1>2 DEF OnlyStoreOf
  <2> QED BY <2>1, Types DEF TornByFault
<1> QED BY <1>1, <1>2

\* The shortcut of pull --all: the marker's sha is right, so is the store, except when torn or forked.
LEMMA UpToDateHolds ==
  ASSUME IInv, NEW n \in Name, NEW r \in Repo, NEW sha \in Commits[r], n[1] = Short[r], sha # None,
         UpToDate(n, sha), NEW pulled, r \notin pulled
  PROVE  sha \in Sha /\ HoldsCounted(n, r, sha, pulled)
<1>0. dir \in Dirs /\ DirOK
  BY Types
<1>1. MarkerSha(dir[n].marker) = sha
  BY DEF UpToDate
<1>2. dir[n].marker \in Repo \X Sha /\ dir[n].marker[2] = sha
  BY <1>0, <1>1 DEF MarkerSha, Dirs, DirType
<1>3. PICK q \in Repo, x \in Sha : dir[n].marker = <<q, x>>
  BY <1>2
<1>4. <<q, x>> # None /\ <<q, x>>[1] = q /\ <<q, x>>[2] = x
  BY NoneAssumption
<1>5. x = sha /\ Short[q] = Short[r] /\ x \in Commits[q]
  BY <1>0, <1>2, <1>3, <1>4 DEF DirOK
<1>6. CASE dir[n].torn
  BY <1>1, <1>5, <1>6 DEF HoldsCounted
<1>7. CASE ~dir[n].torn /\ q = r
  <2>1. dir[n].store = <<r, sha>>
    BY <1>0, <1>3, <1>5, <1>7 DEF DirOK
  <2> QED BY <1>1, <1>5, <2>1 DEF HoldsCounted
<1>8. CASE q # r
  <2>1. Forked(r, sha)
    BY <1>5, <1>8 DEF Forked
  <2> QED BY <1>1, <1>5, <2>1 DEF HoldsCounted
<1> QED BY <1>6, <1>7, <1>8

LEMMA VisitMemberOK ==
  ASSUME IInv, VisitMember
  PROVE  IInv'
<1>0. /\ dir \in Dirs /\ used \in UsedSet /\ CacheOK /\ DirOK /\ RunOK
      /\ UNCHANGED <<cache, ci, root>> /\ In("all", "member")
      /\ run # Idle /\ run.kind = "all" /\ run.phase = "member"
      /\ AllOK(run) /\ AllShape(run)
  BY Types DEF VisitMember, In, RunOK, AllOK
<1>1. PICK r \in DOMAIN run.todo, n \in Name :
        LET sha == TargetSha(r)
            there == sha \in cache.code[r].arts
        IN /\ MemberFor(r, n)
           /\ \/ /\ sha = None
                 /\ run' = [run EXCEPT !.todo = Visited(r)]
                 /\ UNCHANGED <<dir, used>>
              \/ /\ sha # None /\ UpToDate(n, sha)
                 /\ run' = [run EXCEPT !.phase = "config", !.cur = <<r, n>>, !.done[r] = sha]
                 /\ UNCHANGED <<dir, used>>
              \/ /\ sha # None /\ ~UpToDate(n, sha) /\ there
                 /\ WriteMarker(n, r, sha)
                 /\ run' = [run EXCEPT !.phase = "activate", !.cur = <<r, n>>]
                 /\ UNCHANGED used
              \/ /\ sha # None /\ ~UpToDate(n, sha)
                 /\ there => used.fault < MaxFault
                 /\ used' = [used EXCEPT !.fault = IF there THEN @ + 1 ELSE @]
                 /\ SkipFailed(r) /\ UNCHANGED dir
  BY ZenonT(60) DEF VisitMember
<1> DEFINE sha == TargetSha(r)
<1>2. r \in Repo /\ Takes(run, r, n) /\ n[1] = Short[r] /\ sha \in Commits[r] \cup {None}
  BY <1>0, <1>1, MemberForOK, TargetShaOK DEF Takes
<1>3. cache.code[r].arts \subseteq Sha
  BY <1>0, <1>2 DEF CacheOK, CacheShape
<1>4. CASE run' = [run EXCEPT !.todo = Visited(r)] /\ UNCHANGED <<dir, used>>
  <2>1. PICK c, e : c = run.cur /\ e = run.byRepo[r]
    OBVIOUS
  <2>2. run' = [run EXCEPT !.phase = "member", !.cur = c, !.todo = Visited(r), !.byRepo[r] = e]
    <3>1. [run.byRepo EXCEPT ![r] = e] = run.byRepo
      BY <1>0, <1>2, <2>1 DEF AllShape
    <3> QED BY <1>0, <1>4, <2>1, <3>1 DEF AllShape, Fields
  <2> QED BY <1>0, <1>4, <2>1, <2>2, SkipOK
<1>5. CASE /\ sha # None /\ UpToDate(n, sha)
           /\ run' = [run EXCEPT !.phase = "config", !.cur = <<r, n>>, !.done[r] = sha]
           /\ UNCHANGED <<dir, used>>
  <2>1. PICK done, pulled : done = [run.done EXCEPT ![r] = sha] /\ pulled = run.pulled
    OBVIOUS
  <2>2. r \notin run.pulled
    <3>1. run.done[r] # None => Holds(run, r)
      BY <1>0, <1>2 DEF AllOK, Mapping, BeingWritten
    <3>2. run.done[r] = None
      BY <1>2, <3>1 DEF Holds, Takes
    <3> QED BY <1>0, <3>2 DEF AllShape
  <2>3. RunOK'
    <3>1. sha \in Sha /\ HoldsCounted(n, r, sha, pulled)
      BY <1>2, <1>5, <2>1, <2>2, UpToDateHolds
    <3>2. /\ done \in [Repo -> Sha \cup {None}] /\ done[r] = sha
          /\ \A q \in Repo \ {r} : done[q] = run.done[q]
          /\ \A q \in pulled : q \in Repo /\ done[q] # None
      BY <1>0, <1>2, <1>5, <2>1, <3>1 DEF AllShape
    <3>3. run' = [run EXCEPT !.phase = "config", !.cur = <<r, n>>, !.done = done, !.pulled = pulled]
      BY <1>0, <1>5, <2>1 DEF AllShape, Fields
    <3>4. HoldsCounted(n, r, done[r], pulled)' /\ OnlyStoreOf(n)
      BY <1>5, <3>1, <3>2 DEF HoldsCounted, OnlyStoreOf
    <3> HIDE DEF sha
    <3>5. Counts(r, n, "config", done, pulled)
      BY <1>0, <1>2, <1>5, <2>1, <3>1, <3>2, <3>3, <3>4 DEF Counts
    <3> QED BY <3>5, MemberStep
  <2>4. run'.kind = "all"
    BY <1>0, <1>5 DEF AllShape, Fields
  <2>5. Quiet
    BY <1>0, <1>5, <2>4, QuietStep
  <2> QED BY <1>0, <1>5, <2>3, <2>5, RunStep
<1>6. CASE /\ sha # None /\ sha \in cache.code[r].arts /\ WriteMarker(n, r, sha)
           /\ run' = [run EXCEPT !.phase = "activate", !.cur = <<r, n>>]
           /\ UNCHANGED used
  <2>1. sha \in Sha \cap Commits[r] /\ UNCHANGED root
    BY <1>0, <1>2, <1>3, <1>6
  <2>2. dir' \in Dirs /\ dir'[n].marker = <<r, sha>> /\ dir'[n].torn = TRUE /\ OnlyStoreOf(n)
    BY <1>0, <1>2, <1>6, <2>1, MarkerWritten
  <2>3. DirOK'
    BY <1>0, <1>2, <2>1, <2>2, MarkerWrittenOK
  <2>4. PICK done, pulled : done = run.done /\ pulled = run.pulled
    OBVIOUS
  <2>5. run' = [run EXCEPT !.phase = "activate", !.cur = <<r, n>>, !.done = done, !.pulled = pulled]
    BY <1>0, <1>6, <2>4 DEF AllShape, Fields
  <2>6. done \in [Repo -> Sha \cup {None}] /\ \A q \in pulled : q \in Repo /\ done[q] # None
    BY <1>0, <2>4 DEF AllShape
  <2>7. RunOK'
    <3> HIDE DEF sha
    <3>1. Counts(r, n, "activate", done, pulled)
      BY <1>0, <1>2, <2>1, <2>2, <2>4, <2>5, <2>6 DEF Counts
    <3> QED BY <3>1, MemberStep
  <2>8. Members' = Members /\ OneMemberPerRepo'
    <3>1. Members' = Members /\ Members \subseteq Name
      BY <1>0, Types DEF Members
    <3> QED BY <2>2, <3>1, Types DEF OneMemberPerRepo, OnlyStoreOf
  <2>9. run'.kind = "all" /\ run'.phase = "activate" /\ run'.cur[2] = n /\ run' # Idle
    <3>1. PICK cur : cur = <<r, n>>
      OBVIOUS
    <3>2. cur[2] = n /\ run' = [run EXCEPT !.phase = "activate", !.cur = cur]
      BY <1>6, <3>1
    <3>3. run'.kind = "all" /\ run'.phase = "activate" /\ run'.cur = cur
      BY <1>0, <3>2 DEF AllShape, Fields
    <3> QED BY <3>2, <3>3 DEF Idle
  <2>10. VisitedIsInstalled' /\ TornByFault'
    <3>1. Installing(n)' /\ \A m \in Name : ~Installing(m)
      BY <1>0, <2>9 DEF Installing
    <3> QED BY <1>6, <2>2, <2>9, <3>1, InstallStep DEF VisitedIsInstalled
  <2> QED BY <1>0, <1>6, <2>2, <2>3, <2>7, <2>8, <2>10, Types, ConsumerStep DEF RootShape
<1>7. CASE /\ sha \in cache.code[r].arts => used.fault < MaxFault
           /\ used' = [used EXCEPT !.fault = IF sha \in cache.code[r].arts THEN @ + 1 ELSE @]
           /\ SkipFailed(r) /\ UNCHANGED dir
  <2>1. used' \in UsedSet /\ (used' = used \/ used' = [used EXCEPT !.fault = @ + 1])
    BY <1>0, <1>7, WorkspaceAssumption DEF UsedSet
  <2> QED BY <1>0, <1>7, <2>1, SkipOK DEF SkipFailed
<1> QED BY <1>1, <1>4, <1>5, <1>6, <1>7

\* The renamed store is that of the marker, and the member is counted as pulled.
LEMMA ActivateStoreOK ==
  ASSUME IInv, ActivateStore
  PROVE  IInv'
<1>0. /\ dir \in Dirs /\ used \in UsedSet /\ DirOK /\ RunOK
      /\ UNCHANGED <<cache, ci, root>> /\ In("all", "activate")
      /\ run # Idle /\ run.kind = "all" /\ run.phase = "activate"
      /\ AllOK(run) /\ AllShape(run)
  BY Types DEF ActivateStore, In, RunOK, AllOK
<1>1. PICK r, n : run.cur = <<r, n>> /\ HalfOK(run, r, n)
  <2>1. run.cur = <<run.cur[1], run.cur[2]>> /\ HalfOK(run, run.cur[1], run.cur[2])
    BY <1>0 DEF AllOK
  <2> QED BY <2>1
<1>2. run.cur[1] = r /\ run.cur[2] = n
  BY <1>1
<1>3. Takes(run, r, n) /\ r \in DOMAIN run.todo /\ r \in Repo /\ n \in Name
  BY <1>0, <1>1 DEF HalfOK, Takes, AllShape
<1>4. PICK sha \in Sha : dir[n].marker = <<r, sha>>
  BY <1>1 DEF HalfOK
<1>5. MarkerSha(dir[n].marker) = sha /\ sha # None
  <2>1. <<r, sha>> # None /\ <<r, sha>>[2] = sha
    BY <1>3, NoneAssumption
  <2> QED BY <1>4, <2>1, NoneAssumption DEF MarkerSha
<1>6. CASE /\ RenameStore(n) /\ UNCHANGED used
           /\ run' = [run EXCEPT !.phase = "config", !.done[r] = sha, !.pulled = @ \cup {r}]
  <2>1. /\ dir' \in Dirs /\ dir'[n].marker = <<r, sha>> /\ dir'[n].store = <<r, sha>>
        /\ OnlyStoreOf(n) /\ DirOK'
    BY <1>0, <1>3, <1>4, <1>6, StoreRenamed, StoreRenamedOK
  <2>2. PICK done, pulled, cur : /\ done = [run.done EXCEPT ![r] = sha] /\ pulled = run.pulled \cup {r}
                                 /\ cur = run.cur
    OBVIOUS
  <2>3. run' = [run EXCEPT !.phase = "config", !.cur = cur, !.done = done, !.pulled = pulled]
    BY <1>0, <1>6, <2>2 DEF AllShape, Fields
  <2>4. /\ done \in [Repo -> Sha \cup {None}] /\ done[r] = sha
        /\ \A q \in Repo \ {r} : done[q] = run.done[q] /\ (q \in pulled <=> q \in run.pulled)
        /\ \A q \in pulled : q \in Repo /\ done[q] # None
    BY <1>0, <1>3, <1>5, <2>2 DEF AllShape
  <2>5. HoldsCounted(n, r, sha, pulled)'
    BY <1>4, <1>5, <2>1 DEF HoldsCounted
  <2>6. RunOK'
    <3>1. run' = [run EXCEPT !.phase = "config", !.cur = <<r, n>>, !.done = done, !.pulled = pulled]
      BY <1>1, <2>2, <2>3
    <3>2. Counts(r, n, "config", done, pulled)
      BY <1>0, <1>3, <1>5, <2>1, <2>4, <2>5, <3>1 DEF Counts
    <3> QED BY <3>2, MemberStep
  <2>7. Members' = Members /\ OneMemberPerRepo'
    <3>1. Members' = Members /\ Members \subseteq Name
      BY <1>0, Types DEF Members
    <3> QED BY <2>1, <3>1, Types DEF OneMemberPerRepo, OnlyStoreOf
  <2>8. VisitedIsInstalled' /\ TornByFault'
    <3>1. run'.kind = "all"
      BY <1>0, <2>3 DEF AllShape, Fields
    <3>2. \A m \in Name : Installing(m) => m = n
      BY <1>2 DEF Installing
    <3> QED BY <1>3, <1>6, <2>1, <3>1, <3>2, InstallStep DEF VisitedIsInstalled
  <2> QED BY <1>0, <1>6, <2>1, <2>6, <2>7, <2>8, Types, ConsumerStep DEF RootShape
<1>7. CASE used.fault < MaxFault /\ used' = [used EXCEPT !.fault = @ + 1] /\ SkipFailed(r) /\ UNCHANGED dir
  <2>1. used' \in UsedSet
    BY <1>0, <1>7, WorkspaceAssumption DEF UsedSet
  <2> QED BY <1>0, <1>3, <1>7, <2>1, SkipOK DEF SkipFailed
<1> QED BY <1>2, <1>5, <1>6, <1>7 DEF ActivateStore

\* The config names the repository, and the member is the one that by_repo_id finds.
LEMMA SaveMemberConfigOK ==
  ASSUME IInv, SaveMemberConfig
  PROVE  IInv'
<1>0. /\ dir \in Dirs /\ used \in UsedSet /\ DirOK /\ RootShape /\ Members \subseteq Name
      /\ UNCHANGED <<cache, ci, root, used>> /\ Members' = Members
      /\ root.graph # None => root.graph \subseteq Name \X Name
      /\ AllOK(run) /\ run.phase = "config" /\ run.phase \in Mapping
      /\ VisitedIsInstalled /\ TornByFault /\ run.kind = "all"
  BY Types DEF SaveMemberConfig, In, RunOK, Members, Mapping
<1>1. PICK r, n : run.cur = <<r, n>> /\ CurOK(run, r, n)
  <2>1. run.cur = <<run.cur[1], run.cur[2]>> /\ CurOK(run, run.cur[1], run.cur[2])
    BY <1>0 DEF AllOK
  <2> QED BY <2>1
<1>2. run.cur[1] = r /\ run.cur[2] = n
  BY <1>1
<1>3. /\ r \in Repo /\ r # None /\ n \in Name /\ n # None /\ n[1] = Short[r] /\ r \in DOMAIN run.todo
      /\ run.members \subseteq Name /\ run.byRepo \in [Repo -> Name \cup {None}]
  <2>1. r \in Repo /\ n \in Name
    BY <1>0, <1>1 DEF CurOK, Takes, AllOK, AllShape
  <2> QED BY <1>0, <1>1, <2>1, NoneAssumption DEF CurOK, Takes, AllOK, AllShape
<1>4. PICK ref : ref = IF run.byRepo[r] = None THEN None ELSE dir[run.byRepo[r]].ref
  OBVIOUS
<1>5. ref \in Ref \cup {None}
  BY <1>0, <1>3, <1>4 DEF Dirs, DirType
<1>6. /\ dir' \in Dirs /\ dir'[n].cfg = r /\ \A m \in Name : dir'[m].store = dir[m].store
      /\ \A m \in Name : dir'[m].marker = dir[m].marker /\ dir'[m].torn = dir[m].torn
      /\ \A m \in Name \ {n} : dir'[m] = dir[m]
  <2> DEFINE d == [dir[n] EXCEPT !.cfg = r, !.ref = ref]
  <2>1. /\ d \in DirType
        /\ d.cfg = r /\ d.marker = dir[n].marker /\ d.store = dir[n].store /\ d.torn = dir[n].torn
    <3>1. dir[n] \in DirType
      BY <1>0, <1>3 DEF Dirs
    <3> QED BY <1>3, <1>5, <3>1 DEF DirType
  <2>2. dir' = [dir EXCEPT ![n] = d]
    BY <1>0, <1>2, <1>3, <1>4 DEF SaveMemberConfig, Dirs, DirType
  <2> HIDE DEF d
  <2> QED BY <1>0, <1>3, <2>1, <2>2 DEF Dirs
<1>7. PICK todo : todo = Visited(r)
  OBVIOUS
<1>8. PICK found : found = [run.byRepo EXCEPT ![r] = n]
  OBVIOUS
<1>9. PICK members : members = run.members \cup {n}
  OBVIOUS
<1>10. /\ run'.kind = "all" /\ run' = [x \in Fields |-> run'[x]] /\ run'.phase = "member"
       /\ run'.todo = todo /\ run'.members = members /\ run'.byRepo = found
       /\ run'.done = run.done /\ run'.edges = run.edges /\ run'.pulled = run.pulled
  <2>1. run.kind = "all" /\ run = [x \in Fields |-> run[x]]
    BY <1>0 DEF AllOK, AllShape
  <2>2. run' = [run EXCEPT !.phase = "member", !.cur = None, !.todo = todo, !.members = members,
                           !.byRepo = found]
    BY <1>2, <1>7, <1>8, <1>9, <2>1 DEF SaveMemberConfig, Fields
  <2> QED BY <2>1, <2>2 DEF Fields
<1>11. DOMAIN todo = DOMAIN run.todo \ {r} /\ \A q \in DOMAIN todo : todo[q] = run.todo[q]
  BY <1>7 DEF Visited
<1>12. found \in [Repo -> Name \cup {None}] /\ found[r] = n /\ \A q \in Repo \ {r} : found[q] = run.byRepo[q]
  BY <1>3, <1>8
<1>13. members \subseteq Name /\ run.members \subseteq members /\ n \in members
  BY <1>3, <1>9
<1>14. AllShape(run)'
  BY <1>0, <1>10, <1>11, <1>12, <1>13 DEF AllOK, AllShape
<1>15. ByRepoComplete(run)'
  <2> SUFFICES ASSUME NEW m \in members, dir'[m].cfg # None PROVE found[dir'[m].cfg] = m
    BY <1>10 DEF ByRepoComplete
  <2>1. CASE m = n
    BY <1>6, <1>12, <2>1
  <2>2. CASE m # n
    <3>1. m \in run.members /\ dir'[m] = dir[m] /\ m \in Name
      BY <1>6, <1>9, <1>13, <2>2
    <3>2. dir[m].cfg \in Repo /\ run.byRepo[dir[m].cfg] = m
      BY <1>0, <3>1 DEF AllOK, ByRepoComplete, Dirs, DirType
    <3>3. dir[m].cfg # r
      BY <1>1, <2>2, <3>1, <3>2, NoneAssumption DEF CurOK, Takes
    <3> QED BY <1>12, <3>1, <3>2, <3>3
  <2> QED BY <2>1, <2>2
<1>16. ASSUME NEW q \in Repo \ {r}, run.byRepo[q] \in run.members, dir[run.byRepo[q]].cfg = q
       PROVE  found[q] = run.byRepo[q] /\ dir'[run.byRepo[q]] = dir[run.byRepo[q]]
  <2>1. run.byRepo[q] # n
    BY <1>1, <1>16, NoneAssumption DEF CurOK, Takes
  <2> QED BY <1>3, <1>6, <1>12, <1>16, <2>1
<1>17. ByRepoExact(run)'
  <2> SUFFICES ASSUME NEW q \in DOMAIN todo, found[q] # None
               PROVE  found[q] \in members /\ dir'[found[q]].cfg = q
    BY <1>10 DEF ByRepoExact
  <2>1. q \in Repo \ {r} /\ q \in DOMAIN run.todo
    BY <1>0, <1>11 DEF AllOK, AllShape
  <2>2. run.byRepo[q] \in run.members /\ dir[run.byRepo[q]].cfg = q
    BY <1>0, <1>12, <2>1 DEF AllOK, ByRepoExact
  <2> QED BY <1>13, <1>16, <2>1, <2>2
<1>18. ASSUME NEW q \in Repo, run.done[q] # None PROVE Holds(run, q)'
  <2>1. CASE q = r
    <3>1. HoldsCounted(n, r, run.done[r], run.pulled)'
      BY <1>1, <1>3, <1>6, <1>10 DEF CurOK, HoldsCounted
    <3> QED BY <1>6, <1>10, <1>11, <1>12, <1>13, <1>3, <2>1, <3>1 DEF Holds
  <2>2. CASE q # r
    <3>1. Holds(run, q)
      BY <1>0, <1>2, <1>18, <2>2 DEF AllOK, BeingWritten
    <3>2. run.byRepo[q] \in run.members /\ dir[run.byRepo[q]].cfg = q
      BY <3>1 DEF Holds
    <3>3. found[q] = run.byRepo[q] /\ dir'[run.byRepo[q]] = dir[run.byRepo[q]]
      BY <1>16, <2>2, <3>2
    <3>4. HoldsCounted(run.byRepo[q], q, run.done[q], run.pulled)'
      BY <1>10, <3>1, <3>3 DEF Holds, HoldsCounted
    <3> QED BY <1>10, <1>11, <1>13, <3>1, <3>3, <3>4 DEF Holds
  <2> QED BY <2>1, <2>2
<1>19. (Members \subseteq run.members)'
  BY <1>0, <1>10, <1>13 DEF AllOK
<1>20. RunOK'
  <2>1. AllOK(run)'
    BY <1>10, <1>14, <1>15, <1>17, <1>18, <1>19 DEF AllOK, Mapping
  <2> QED BY <1>10, <2>1 DEF RunOK
<1>21. DirOK'
  BY <1>0, <1>3, <1>6 DEF DirOK
<1>22. OneMemberPerRepo'
  BY <1>15, <1>19 DEF OneMemberPerRepo, ByRepoComplete
<1>23. VisitedIsInstalled' /\ TornByFault'
  <2>1. \A m \in Name : ~Installing(m)
    BY <1>0 DEF Installing
  <2> QED BY <1>0, <1>6, <1>10, <2>1 DEF VisitedIsInstalled, TornByFault
<1> QED BY <1>0, <1>6, <1>20, <1>21, <1>22, <1>23, ConsumerStep DEF RootShape

\* The phases in which no member is half written.
Resting == Mapping \ {"activate", "config"}

\* After the members: only the phase, the types and the edges change.
LEMMA PhaseOK ==
  ASSUME IInv, run # Idle, run.kind = "all", run.phase \in Resting,
         NEW ph \in Resting, NEW typed, NEW edges, edges # None => edges \subseteq Name \X Name,
         dir' = dir, Members' \subseteq run.members,
         run' = [run EXCEPT !.phase = ph, !.typed = typed, !.edges = edges]
  PROVE  RunOK' /\ DirOK' /\ OneMemberPerRepo'
<1>0. AllOK(run) /\ DirOK
  BY Types DEF RunOK
<1>1. /\ run'.kind = "all" /\ run' = [x \in Fields |-> run'[x]] /\ run'.phase = ph
      /\ run'.todo = run.todo /\ run'.members = run.members /\ run'.byRepo = run.byRepo
      /\ run'.done = run.done /\ run'.edges = edges /\ run'.pulled = run.pulled
  <2>1. run = [x \in Fields |-> run[x]]
    BY <1>0 DEF AllOK, AllShape
  <2> QED BY <2>1 DEF Fields
<1>2. AllShape(run)'
  BY <1>0, <1>1 DEF AllOK, AllShape
<1>3. ByRepoComplete(run)' /\ ByRepoExact(run)'
  BY <1>0, <1>1 DEF AllOK, ByRepoComplete, ByRepoExact, Resting
<1>4. ASSUME NEW q \in Repo, run.done[q] # None PROVE Holds(run, q)'
  <2>1. Holds(run, q)
    BY <1>0, <1>4 DEF AllOK, BeingWritten, Resting
  <2> QED BY <1>1, <2>1 DEF Holds, HoldsCounted
<1>5. AllOK(run)'
  BY <1>1, <1>2, <1>3, <1>4 DEF AllOK, Resting, Mapping
<1>6. RunOK'
  BY <1>1, <1>5 DEF RunOK
<1>7. DirOK'
  BY <1>0 DEF DirOK
<1>8. OneMemberPerRepo'
  BY <1>1, <1>3 DEF OneMemberPerRepo, ByRepoComplete
<1> QED BY <1>6, <1>7, <1>8

LEMMA PhaseAlone ==
  ASSUME IInv, run # Idle, run.kind = "all", run.phase \in Resting, NEW ph \in Resting,
         dir' = dir, Members' \subseteq run.members, run' = [run EXCEPT !.phase = ph]
  PROVE  RunOK' /\ DirOK' /\ OneMemberPerRepo'
<1>1. AllShape(run)
  BY Types DEF RunOK, AllOK
<1>2. PICK typed : typed = run.typed
  OBVIOUS
<1>3. PICK edges : edges = run.edges
  OBVIOUS
<1>4. run' = [run EXCEPT !.phase = ph, !.typed = typed, !.edges = edges]
  BY <1>1, <1>2, <1>3 DEF AllShape, Fields
<1>5. edges # None => edges \subseteq Name \X Name
  BY <1>1, <1>3 DEF AllShape
<1> QED BY <1>4, <1>5, PhaseOK

\* The knowledge of the cache and the workspace's own files, one by one.
LEMMA RootPhasesOK ==
  ASSUME IInv, PullAllKnowledge \/ ApplyMetadata \/ SaveManifest \/ SaveGraph \/ SaveRootConfig
  PROVE  IInv'
<1>0. /\ dir \in Dirs /\ used \in UsedSet /\ DirOK /\ RootShape /\ Members \subseteq Name /\ OneMemberPerRepo
      /\ root.graph # None => root.graph \subseteq Name \X Name
      /\ RunOK
  BY Types
<1>1. UNCHANGED <<cache, ci, dir, used>> /\ run # Idle /\ run.kind = "all"
  BY DEF PullAllKnowledge, ApplyMetadata, SaveManifest, SaveGraph, SaveRootConfig, In
<1>2. AllOK(run)
  BY <1>0, <1>1 DEF RunOK
<1>3. AllShape(run) /\ run.members \subseteq Name /\ run.byRepo \in [Repo -> Name \cup {None}]
      /\ (run.edges # None => run.edges \subseteq Name \X Name)
      /\ (run.phase \in Mapping => Members \subseteq run.members)
  BY <1>2 DEF AllOK, AllShape
<1>4. ASSUME NEW k, root' = [root EXCEPT !.knowledge = k]
      PROVE  RootShape' /\ Members' = Members /\ root'.graph = root.graph
  BY <1>0, <1>4 DEF RootShape, Members
<1>5. ASSUME root' = root
      PROVE  RootShape' /\ Members' = Members /\ root'.graph = root.graph
  BY <1>0, <1>5 DEF RootShape, Members
<1>6. ASSUME Members' = Members PROVE DirOK' /\ OneMemberPerRepo'
  BY <1>0, <1>1, <1>6 DEF DirOK, OneMemberPerRepo
<1>q. VisitedIsInstalled' /\ TornByFault'
  <2>1. run' = Idle \/ \E ph : run'.kind = "all" /\ ph = run'.phase
    BY <1>1, <1>3 DEF PullAllKnowledge, ApplyMetadata, SaveManifest, SaveGraph, SaveRootConfig, Phase, Fail,
                      AllShape, Fields
  <2>2. run.phase # "activate"
    BY DEF PullAllKnowledge, ApplyMetadata, SaveManifest, SaveGraph, SaveRootConfig, In
  <2> QED BY <1>0, <1>1, <2>1, <2>2, QuietStep, QuietOK
<1>7. CASE PullAllKnowledge
  <2>1. run.phase \in {"knowledge_only", "member"}
    BY <1>7 DEF PullAllKnowledge
  <2>2. RootShape' /\ Members' = Members /\ root'.graph = root.graph
    BY <1>4, <1>5, <1>7 DEF PullAllKnowledge
  <2>3. RunOK'
    <3>1. CASE run.phase = "knowledge_only"
      BY <1>7, <3>1, NoRunOK DEF PullAllKnowledge, Fail
    <3>2. CASE run.phase = "member"
      <4>1. run' = [run EXCEPT !.phase = "meta"] /\ Members' \subseteq run.members
        BY <1>3, <1>7, <2>2, <3>2 DEF PullAllKnowledge, Phase, Mapping
      <4> QED BY <1>1, <3>2, <4>1, PhaseAlone DEF Resting, Mapping
    <3> QED BY <2>1, <3>1, <3>2
  <2> QED BY <1>0, <1>1, <1>6, <2>2, <2>3, <1>q, ConsumerStep
<1>8. CASE ApplyMetadata
  <2>1. run.phase = "meta" /\ root' = root
    BY <1>8 DEF ApplyMetadata, In
  <2>2. RootShape' /\ Members' = Members /\ root'.graph = root.graph /\ Members' \subseteq run.members
    BY <1>3, <1>5, <2>1 DEF Mapping
  <2> DEFINE mine == {r \in BaseMembers : run.byRepo[r] # None}
  <2>3. PICK typed : typed = run.typed \cup {run.byRepo[r] : r \in mine}
    OBVIOUS
  <2>4. PICK edges : edges = {<<run.byRepo[e[1]], run.byRepo[e[2]]>> :
                                    e \in {f \in BaseEdges : f[1] \in mine /\ f[2] \in mine}}
    OBVIOUS
  <2>5. edges \subseteq Name \X Name
    <3>1. \A r \in mine : run.byRepo[r] \in Name
      BY <1>3, WorkspaceAssumption
    <3> HIDE DEF mine
    <3> QED BY <2>4, <3>1
  <2>6. \/ run' = Idle
        \/ run' = [run EXCEPT !.phase = "manifest", !.typed = typed, !.edges = edges]
        \/ run' = [run EXCEPT !.phase = "manifest"]
    <3>1. run' = [run EXCEPT !.phase = "manifest", !.typed = @ \cup {run.byRepo[r] : r \in mine},
                             !.edges = {<<run.byRepo[e[1]], run.byRepo[e[2]]>> :
                                    e \in {f \in BaseEdges : f[1] \in mine /\ f[2] \in mine}}]
          \/ run' = Idle \/ run' = [run EXCEPT !.phase = "manifest"]
      BY <1>8 DEF ApplyMetadata, Fail, Phase
    <3> HIDE DEF mine
    <3>2. [run EXCEPT !.phase = "manifest", !.typed = @ \cup {run.byRepo[r] : r \in mine},
                      !.edges = {<<run.byRepo[e[1]], run.byRepo[e[2]]>> :
                                    e \in {f \in BaseEdges : f[1] \in mine /\ f[2] \in mine}}]
          = [run EXCEPT !.phase = "manifest", !.typed = typed, !.edges = edges]
      BY <2>3, <2>4
    <3> QED BY <3>1, <3>2
  <2>7. RunOK'
    <3>1. dir' = dir /\ run.phase \in Resting /\ "manifest" \in Resting
      BY <1>1, <2>1 DEF Resting, Mapping
    <3>2. CASE run' = [run EXCEPT !.phase = "manifest", !.typed = typed, !.edges = edges]
      BY <1>1, <2>2, <2>5, <3>1, <3>2, PhaseOK
    <3>3. CASE run' = [run EXCEPT !.phase = "manifest"]
      BY <1>1, <2>2, <3>1, <3>3, PhaseAlone
    <3> QED BY <2>6, <3>2, <3>3, NoRunOK
  <2> QED BY <1>0, <1>1, <1>6, <2>2, <2>7, <1>q, ConsumerStep
<1>9. CASE SaveManifest
  <2>1. run.phase = "manifest"
    BY <1>9 DEF SaveManifest, In
  <2>2. PICK manifest : manifest = [n \in run.members |-> n \in run.typed]
    OBVIOUS
  <2>3. manifest # None /\ DOMAIN manifest = run.members
    <3>1. manifest \in [run.members -> BOOLEAN]
      BY <2>2
    <3> QED BY <1>3, <2>2, <3>1, NoneAssumption, ZenonT(60)
  <2>4. root' = [root EXCEPT !.manifest = manifest]
    BY <1>9, <2>2 DEF SaveManifest
  <2>5. RootShape' /\ root'.graph = root.graph /\ root'.manifest = manifest
    BY <1>0, <2>4 DEF RootShape
  <2>6. Members' = run.members
    BY <2>3, <2>5 DEF Members
  <2>7. RunOK' /\ DirOK' /\ OneMemberPerRepo'
    <3>1. PICK ph \in {"rootcfg", "graph"} : run' = [run EXCEPT !.phase = ph]
      BY <1>9 DEF SaveManifest, Phase
    <3> QED BY <1>1, <2>1, <2>6, <3>1, PhaseAlone DEF Resting, Mapping
  <2> QED BY <1>0, <1>1, <1>3, <2>5, <2>6, <2>7, <1>q, ConsumerStep
<1>10. CASE SaveGraph
  <2>1. run.phase = "graph" /\ run' = [run EXCEPT !.phase = "rootcfg"]
        /\ root' = [root EXCEPT !.graph = run.edges]
    BY <1>10 DEF SaveGraph, In, Phase
  <2>2. RootShape' /\ Members' = Members /\ root'.graph = run.edges
    BY <1>0, <2>1 DEF RootShape, Members
  <2>3. RunOK'
    <3>1. Members' \subseteq run.members
      BY <1>3, <2>1, <2>2 DEF Mapping
    <3> QED BY <1>1, <2>1, <3>1, PhaseAlone DEF Resting, Mapping
  <2> QED BY <1>0, <1>1, <1>3, <1>6, <2>2, <2>3, <1>q, ConsumerStep
<1>11. CASE SaveRootConfig
  <2>1. RootShape' /\ Members' = Members /\ root'.graph = root.graph
    BY <1>0, <1>11 DEF SaveRootConfig, RootShape, Members
  <2>2. RunOK'
    BY <1>11, NoRunOK DEF SaveRootConfig, Fail
  <2> QED BY <1>0, <1>1, <1>6, <2>1, <2>2, <1>q, ConsumerStep
<1> QED BY <1>7, <1>8, <1>9, <1>10, <1>11

\* pull --workspace: the published manifest names each repository's own directory.
LEMMA StartPullWorkspaceOK ==
  ASSUME IInv, NEW force \in BOOLEAN, NEW f \in Ref \cup {None}, StartPullWorkspace(force, f)
  PROVE  IInv'
<1>0. /\ dir \in Dirs /\ used \in UsedSet /\ DirOK /\ RootShape /\ Members \subseteq Name /\ OneMemberPerRepo
      /\ root.graph # None => root.graph \subseteq Name \X Name
  BY Types
<1>1. UNCHANGED <<cache, ci, dir>> /\ used.run < MaxRun /\ used' = [used EXCEPT !.run = @ + 1]
  BY DEF StartPullWorkspace
<1>2. used' \in UsedSet
  BY <1>0, <1>1, WorkspaceAssumption DEF UsedSet
<1>3. /\ root' = IF root.manifest # None THEN root
                 ELSE [root EXCEPT !.manifest = [n \in {Bare(r) : r \in BaseMembers} |-> TRUE]]
      /\ run' = [kind |-> "workspace", phase |-> "member", force |-> force, ref |-> f, ws |-> cache.ws,
                 todo |-> DOMAIN root'.manifest, cur |-> None]
  BY DEF StartPullWorkspace
<1>4. /\ RootShape' /\ root'.manifest # None /\ root'.graph = root.graph
      /\ Members' \subseteq Name /\ OneMemberPerRepo'
  <2>1. CASE root.manifest # None
    <3>1. root' = root /\ Members' = Members
      BY <1>3, <2>1 DEF Members
    <3> QED BY <1>0, <1>1, <2>1, <3>1 DEF RootShape, OneMemberPerRepo
  <2>2. CASE root.manifest = None
    <3>1. PICK names : names = {Bare(r) : r \in BaseMembers}
      OBVIOUS
    <3>2. names \subseteq Name
      BY <3>1, BareIsName, WorkspaceAssumption
    <3>3. PICK manifest : manifest = [n \in names |-> TRUE]
      OBVIOUS
    <3>4. manifest # None /\ DOMAIN manifest = names
      <4>1. manifest \in [names -> BOOLEAN]
        BY <3>3
      <4> QED BY <3>2, <3>3, <4>1, NoneAssumption
    <3>5. RootShape' /\ root'.manifest = manifest /\ root'.graph = root.graph
      BY <1>0, <1>3, <2>2, <3>1, <3>3 DEF RootShape
    <3>6. Members' = names
      BY <3>4, <3>5 DEF Members
    <3>7. OneMemberPerRepo'
      <4> SUFFICES ASSUME NEW m \in names, NEW n \in names, dir[m].cfg # None, dir[m].cfg = dir[n].cfg
                   PROVE  m = n
        BY <1>1, <3>6 DEF OneMemberPerRepo
      <4>1. PICK q \in BaseMembers : m = Bare(q)
        BY <3>1
      <4>2. PICK r \in BaseMembers : n = Bare(r)
        BY <3>1
      <4>3. Short[q] = Short[r]
        BY <1>0, <3>2, <4>1, <4>2, BareIsName, WorkspaceAssumption DEF DirOK
      <4> QED BY <4>1, <4>2, <4>3, WorkspaceAssumption
    <3> QED BY <3>2, <3>4, <3>5, <3>6, <3>7
  <2> QED BY <2>1, <2>2
<1>5. RunOK'
  <2>1. PICK todo : todo = DOMAIN root'.manifest
    OBVIOUS
  <2>2. PICK ws : ws = cache.ws
    OBVIOUS
  <2>3. run' = [kind |-> "workspace", phase |-> "member", force |-> force, ref |-> f, ws |-> ws, todo |-> todo,
                cur |-> None]
    BY <1>3, <2>1, <2>2
  <2> QED BY <1>4, <2>3 DEF RunOK, WorkspaceShape
<1>6. DirOK'
  BY <1>0, <1>1 DEF DirOK
<1>7. Quiet
  <2>1. run = Idle /\ used'.fault = used.fault
    BY <1>0, <1>1 DEF StartPullWorkspace, NoRun, UsedSet
  <2>2. run'.todo = Members'
    BY <1>3, <1>4 DEF Members
  <2> QED BY <2>1, <2>2 DEF Quiet, Installing
<1> QED BY <1>0, <1>1, <1>2, <1>4, <1>5, <1>6, <1>7, QuietOK, ConsumerStep

\* The marker of the member moves to a published commit of the repository of its name.
LEMMA PullMemberOK ==
  ASSUME IInv, PullMember
  PROVE  IInv'
<1>0. /\ dir \in Dirs /\ used \in UsedSet /\ DirOK /\ RootShape /\ Members \subseteq Name /\ OneMemberPerRepo
      /\ CacheOK /\ RunOK /\ (root.graph # None => root.graph \subseteq Name \X Name)
      /\ UNCHANGED <<cache, ci, root, used>> /\ run # Idle /\ run.kind = "workspace" /\ Members' = Members
      /\ run.phase = "member" /\ WorkspaceShape
  BY Types DEF PullMember, In, Members, RunOK
<1>1. PICK n \in run.todo :
        LET r == WorkspaceRepo(n)
            sha == IF r = None THEN None ELSE ResolveLatest(cache, r, run.ref)
        IN \/ /\ sha # None /\ sha \in cache.code[r].arts
              /\ WriteMarker(n, r, sha)
              /\ run' = [run EXCEPT !.phase = "activate", !.cur = <<r, n>>]
           \/ run' = Idle /\ dir' = dir
  BY DEF PullMember, Fail
<1>2. CASE run' = Idle /\ dir' = dir
  <2>1. Quiet
    BY <1>0, <1>2, QuietStep
  <2> QED BY <1>0, <1>2, <2>1, NoRunOK, RunStep
<1> DEFINE r == WorkspaceRepo(n)
           sha == IF r = None THEN None ELSE ResolveLatest(cache, r, run.ref)
<1>3. CASE /\ sha # None /\ sha \in cache.code[r].arts
           /\ WriteMarker(n, r, sha)
           /\ run' = [run EXCEPT !.phase = "activate", !.cur = <<r, n>>]
  <2>1. r \in BaseMembers /\ n = Bare(r) /\ r # None
    <3>1. r # None
      BY <1>3
    <3> QED BY <3>1 DEF WorkspaceRepo
  <2>2. r \in Repo /\ n \in Name /\ n[1] = Short[r]
    BY <2>1, BareIsName, WorkspaceAssumption
  <2>3. sha = ResolveLatest(cache, r, run.ref)
    BY <1>3
  <2>4. sha \in Sha \cap Commits[r]
    <3>1. cache.code[r].arts \subseteq Sha
      BY <1>0, <2>2 DEF CacheOK, CacheShape
    <3>2. ResolveLatest(cache, r, run.ref) \in Commits[r] \cup {None}
      BY <1>0, <2>2, ResolvedIsCommit DEF RunOK
    <3> QED BY <1>3, <2>3, <3>1, <3>2
  <2>p. PICK who : who = WorkspaceRepo(n)
    OBVIOUS
  <2>q. who = r
    BY <2>p
  <2> HIDE DEF r, sha
  <2>5. dir' \in Dirs /\ dir'[n].marker = <<r, sha>> /\ dir'[n].torn = TRUE /\ OnlyStoreOf(n)
    BY <1>0, <1>3, <2>2, <2>4, MarkerWritten
  <2>6. DirOK'
    BY <1>0, <2>2, <2>4, <2>5, MarkerWrittenOK
  <2>7. OneMemberPerRepo'
    BY <1>0, <2>5 DEF OneMemberPerRepo, OnlyStoreOf
  <2>8. PICK cur : cur = <<r, n>>
    OBVIOUS
  <2>9. /\ run' = [kind |-> "workspace", phase |-> "activate", force |-> run.force, ref |-> run.ref,
                  ws |-> run.ws, todo |-> run.todo, cur |-> cur]
        /\ cur[1] = r /\ cur[2] = n
    BY <1>0, <1>3, <2>8 DEF WorkspaceShape
  <2>10. RunOK'
    <3>1. Half(n)'
      BY <2>1, <2>2, <2>4, <2>5, <2>p, <2>q DEF Half
    <3>2. run'.kind = "workspace" /\ run'.phase = "activate" /\ run'.cur = cur /\ run'.ref = run.ref
          /\ WorkspaceShape'
      BY <2>9 DEF WorkspaceShape
    <3> QED BY <1>0, <2>9, <3>1, <3>2 DEF RunOK
  <2>11. TornByFault'
    <3>1. Installing(n)' /\ \A m \in Name : ~Installing(m)
      <4>1. run' # Idle
        BY <2>9 DEF Idle
      <4> QED BY <1>0, <2>9, <4>1 DEF Installing
    <3> QED BY <1>0, <2>2, <2>5, <3>1, InstallStep
  <2>12. VisitedIsInstalled'
    <3>1. run'.todo = run.todo
      BY <2>9
    <3> SUFFICES ASSUME NEW m \in Members \ run.todo
                 PROVE  dir'[m] = dir[m]
      BY <1>0, <3>1, Types DEF VisitedIsInstalled
    <3> QED BY <1>0, <1>1, <2>5 DEF OnlyStoreOf
  <2> QED BY <1>0, <2>5, <2>6, <2>7, <2>10, <2>11, <2>12, ConsumerStep DEF RootShape
<1> QED BY <1>1, <1>2, <1>3

\* The store of the member becomes that of its marker.
LEMMA ActivateMemberOK ==
  ASSUME IInv, ActivateMember
  PROVE  IInv'
<1>0. /\ dir \in Dirs /\ used \in UsedSet /\ DirOK /\ RootShape /\ Members \subseteq Name /\ OneMemberPerRepo
      /\ RunOK /\ (root.graph # None => root.graph \subseteq Name \X Name)
      /\ UNCHANGED <<cache, ci, root>> /\ run # Idle /\ run.kind = "workspace" /\ Members' = Members
      /\ run.phase = "activate" /\ WorkspaceShape /\ Half(run.cur[2])
      /\ VisitedIsInstalled /\ TornByFault
  BY Types DEF ActivateMember, In, Members, RunOK
<1>1. PICK n : n = run.cur[2]
  OBVIOUS
<1>2. n \in Name /\ WorkspaceRepo(n) # None /\ \E sha \in Sha : dir[n].marker = <<WorkspaceRepo(n), sha>>
  BY <1>0, <1>1 DEF Half
<1>3. dir[n].marker # None /\ dir[n].marker[1] = WorkspaceRepo(n)
  <2>1. WorkspaceRepo(n) \in Repo
    BY <1>2, WorkspaceAssumption DEF WorkspaceRepo
  <2>2. PICK sha \in Sha : dir[n].marker = <<WorkspaceRepo(n), sha>>
    BY <1>2
  <2> QED BY <2>1, <2>2, NoneAssumption
<1>4. CASE /\ RenameStore(n) /\ UNCHANGED used
           /\ run' = [run EXCEPT !.phase = "member", !.cur = None, !.todo = @ \ {n}]
  <2>1. /\ dir' \in Dirs /\ dir'[n].marker = dir[n].marker /\ dir'[n].store = dir[n].marker
        /\ OnlyStoreOf(n) /\ DirOK'
    BY <1>0, <1>2, <1>4, StoreRenamed, StoreRenamedOK
  <2>2. run' = [kind |-> "workspace", phase |-> "member", force |-> run.force, ref |-> run.ref,
                ws |-> run.ws, todo |-> run.todo \ {n}, cur |-> None]
    BY <1>0, <1>4 DEF WorkspaceShape
  <2>3. RunOK'
    <3>1. run'.kind = "workspace" /\ run'.phase = "member" /\ run'.ref = run.ref /\ WorkspaceShape'
      BY <2>2 DEF WorkspaceShape
    <3> QED BY <1>0, <3>1 DEF RunOK
  <2>4. TornByFault'
    <3>1. \A m \in Name : Installing(m) => m = n
      BY <1>1 DEF Installing
    <3> QED BY <1>2, <1>4, <2>1, <3>1, InstallStep
  <2>5. VisitedIsInstalled'
    <3>1. run'.todo = run.todo \ {n}
      BY <2>2
    <3> SUFFICES ASSUME NEW m \in Members \ (run.todo \ {n})
                 PROVE  /\ dir'[m].store = dir'[m].marker /\ dir'[m].marker # None
                        /\ dir'[m].marker[1] = WorkspaceRepo(m)
      BY <1>0, <3>1 DEF VisitedIsInstalled
    <3>2. CASE m = n
      BY <1>3, <2>1, <3>2
    <3>3. CASE m # n
      BY <1>0, <2>1, <3>3 DEF VisitedIsInstalled, OnlyStoreOf
    <3> QED BY <3>2, <3>3
  <2>6. OneMemberPerRepo'
    BY <1>0, <2>1 DEF OneMemberPerRepo, OnlyStoreOf
  <2> QED BY <1>0, <1>4, <2>1, <2>3, <2>4, <2>5, <2>6, ConsumerStep DEF RootShape
<1>5. CASE used.fault < MaxFault /\ used' = [used EXCEPT !.fault = @ + 1] /\ Fail /\ UNCHANGED dir
  <2>1. used' \in UsedSet
    BY <1>0, <1>5, WorkspaceAssumption DEF UsedSet
  <2>2. Quiet
    BY <1>5, FaultQuiet DEF Fail
  <2> QED BY <1>0, <1>5, <2>1, <2>2, NoRunOK, RunStep DEF Fail
<1> QED BY <1>1, <1>4, <1>5 DEF ActivateMember

\* The published types and graph.
LEMMA WorkspaceMetadataOK ==
  ASSUME IInv, AdoptMetadata \/ InstallGraph
  PROVE  IInv'
<1>0. /\ dir \in Dirs /\ used \in UsedSet /\ DirOK /\ RootShape /\ Members \subseteq Name /\ OneMemberPerRepo
      /\ RunOK /\ (root.graph # None => root.graph \subseteq Name \X Name)
  BY Types
<1>1. UNCHANGED <<cache, ci, dir, used>> /\ run # Idle /\ run.kind = "workspace" /\ root.manifest # None
  BY <1>0 DEF AdoptMetadata, InstallGraph, In, RunOK
<1>p. run.kind = "workspace" /\ run.phase # "activate"
  BY DEF AdoptMetadata, InstallGraph, In
<1>2. ASSUME Members' = Members PROVE DirOK' /\ OneMemberPerRepo'
  BY <1>0, <1>1, <1>2 DEF DirOK, OneMemberPerRepo
<1>e. run' = Idle => VisitedIsInstalled' /\ TornByFault'
  BY <1>0, <1>1, <1>p, QuietStep, QuietOK
<1>3. ASSUME run' = [run EXCEPT !.phase = "graph"], root'.manifest # None, Members' = Members
      PROVE  RunOK' /\ Quiet
  <2>1. WorkspaceShape /\ run.ref \in Ref \cup {None}
    BY <1>0, <1>1 DEF RunOK
  <2>2. run' = [kind |-> "workspace", phase |-> "graph", force |-> run.force, ref |-> run.ref,
                ws |-> run.ws, todo |-> run.todo, cur |-> run.cur]
    BY <1>3, <2>1 DEF WorkspaceShape
  <2>3. run'.kind = "workspace" /\ run'.phase = "graph" /\ run'.ref = run.ref /\ run'.todo = run.todo
        /\ WorkspaceShape'
    BY <2>2 DEF WorkspaceShape
  <2>4. Quiet
    BY <1>1, <1>3, <1>p, <2>3 DEF Quiet, Installing
  <2> QED BY <1>3, <2>1, <2>3, <2>4 DEF RunOK
<1>4. CASE AdoptMetadata
  <2>1. CASE run' = Idle /\ root' = root
    <3>1. Members' = Members
      BY <2>1 DEF Members
    <3> QED BY <1>0, <1>1, <1>2, <1>e, <2>1, <3>1, NoRunOK, ConsumerStep DEF RootShape
  <2>2. CASE ~(run' = Idle /\ root' = root)
    <3>1. PICK manifest : manifest = [n \in Members |-> root.manifest[n] \/ \E r \in BaseMembers : Bare(r) = n]
      OBVIOUS
    <3>2. run' = [run EXCEPT !.phase = "graph"] /\ root' = [root EXCEPT !.manifest = manifest]
      BY <1>1, <1>4, <2>2, <3>1 DEF AdoptMetadata, Phase, Fail, Members
    <3>3. manifest # None /\ DOMAIN manifest = Members
      <4>1. manifest \in [Members -> BOOLEAN]
        BY <3>1
      <4> QED BY <1>0, <3>1, <4>1, NoneAssumption
    <3>4. RootShape' /\ root'.manifest = manifest /\ root'.graph = root.graph
      BY <1>0, <3>2 DEF RootShape
    <3>5. Members' = Members
      BY <3>3, <3>4 DEF Members
    <3>6. RunOK' /\ VisitedIsInstalled' /\ TornByFault'
      BY <1>0, <1>1, <1>3, <3>2, <3>3, <3>4, <3>5, QuietOK
    <3> QED BY <1>0, <1>1, <1>2, <3>3, <3>4, <3>5, <3>6, ConsumerStep
  <2> QED BY <2>1, <2>2
<1>5. CASE InstallGraph
  <2>1. PICK graph : graph = {<<Bare(e[1]), Bare(e[2])>> : e \in BaseEdges}
    OBVIOUS
  <2>2. root' = [root EXCEPT !.graph = graph] /\ run' = Idle
    BY <1>5, <2>1 DEF InstallGraph, Fail
  <2>3. graph \subseteq Name \X Name
    <3>1. \A e \in BaseEdges : e[1] \in Repo /\ e[2] \in Repo
      BY WorkspaceAssumption
    <3>2. \A e \in BaseEdges : Bare(e[1]) \in Name /\ Bare(e[2]) \in Name
      BY <3>1, BareIsName
    <3> QED BY <2>1, <3>2
  <2>4. RootShape' /\ root'.graph = graph /\ Members' = Members
    BY <1>0, <2>2 DEF RootShape, Members
  <2> QED BY <1>0, <1>1, <1>2, <1>e, <2>2, <2>3, <2>4, NoRunOK, ConsumerStep
<1> QED BY <1>4, <1>5

\* A death of the consumer, a lost config, a sync.ref set by hand.
LEMMA FaultOK ==
  ASSUME IInv, \/ RunDies \/ \E n \in Name : LoseConfig(n) \/ \E f \in Ref : SetRef(n, f)
  PROVE  IInv'
<1>0. /\ dir \in Dirs /\ used \in UsedSet /\ DirOK /\ RootShape /\ Members \subseteq Name /\ OneMemberPerRepo
      /\ (root.graph # None => root.graph \subseteq Name \X Name)
  BY Types
<1>1. ASSUME used.fault < MaxFault, used' = [used EXCEPT !.fault = @ + 1] PROVE used' \in UsedSet
  BY <1>0, <1>1, WorkspaceAssumption DEF UsedSet
<1>2. CASE RunDies
  BY <1>1, <1>2, NoRunOK, FaultQuiet, RunStep DEF RunDies
<1>3. ASSUME NEW n \in Name, NEW d, dir' = [dir EXCEPT ![n] = d], run = Idle, run' = Idle,
             UNCHANGED <<cache, ci, root>>, used' \in UsedSet,
             used' = [used EXCEPT !.fault = @ + 1],
             d \in DirType, d.cfg \in {dir[n].cfg, None},
             \/ d.marker = dir[n].marker /\ d.store = dir[n].store /\ d.torn = dir[n].torn
             \/ d.marker = None /\ d.store = None
      PROVE  IInv'
  <2>1. dir' \in Dirs /\ dir'[n] = d /\ \A m \in Name \ {n} : dir'[m] = dir[m]
    BY <1>0, <1>3 DEF Dirs
  <2>2. DirOK'
    BY <1>0, <1>3, <2>1 DEF DirOK
  <2>3. Members' = Members
    BY <1>3 DEF Members
  <2>4. OneMemberPerRepo'
    <3> SUFFICES ASSUME NEW m \in Members, NEW k \in Members, dir'[m].cfg # None, dir'[m].cfg = dir'[k].cfg
                 PROVE  m = k
      BY <2>3 DEF OneMemberPerRepo
    <3>1. dir'[m].cfg = dir[m].cfg /\ dir'[k].cfg = dir[k].cfg
      BY <1>0, <1>3, <2>1
    <3> QED BY <1>0, <3>1 DEF OneMemberPerRepo
  <2>5. VisitedIsInstalled' /\ TornByFault'
    BY <1>0, <1>3 DEF VisitedIsInstalled, TornByFault, UsedSet
  <2> QED BY <1>0, <1>3, <2>1, <2>2, <2>3, <2>4, <2>5, NoRunOK, ConsumerStep DEF RootShape
<1>4. ASSUME NEW n \in Name, LoseConfig(n) PROVE IInv'
  <2>1. EmptyDir \in DirType /\ EmptyDir.cfg = None /\ EmptyDir.marker = None /\ EmptyDir.store = None
    BY DEF EmptyDir, DirType
  <2>2. PICK d : d = [dir[n] EXCEPT !.cfg = None, !.ref = None]
    OBVIOUS
  <2>3. /\ d \in DirType /\ d.cfg = None
        /\ d.marker = dir[n].marker /\ d.store = dir[n].store /\ d.torn = dir[n].torn
    BY <1>0, <2>2 DEF Dirs, DirType
  <2>4. dir' = [dir EXCEPT ![n] = EmptyDir] \/ dir' = [dir EXCEPT ![n] = d]
    BY <1>0, <1>4, <2>2 DEF LoseConfig, Dirs, DirType
  <2> QED BY <1>1, <1>3, <1>4, <2>1, <2>3, <2>4 DEF LoseConfig, NoRun
<1>5. ASSUME NEW n \in Name, NEW f \in Ref, SetRef(n, f) PROVE IInv'
  <2>1. PICK d : d = [dir[n] EXCEPT !.ref = f]
    OBVIOUS
  <2>2. /\ d \in DirType /\ d.cfg = dir[n].cfg
        /\ d.marker = dir[n].marker /\ d.store = dir[n].store /\ d.torn = dir[n].torn
    BY <1>0, <2>1 DEF Dirs, DirType
  <2> QED BY <1>1, <1>3, <1>5, <2>1, <2>2 DEF SetRef, NoRun
<1> QED BY <1>2, <1>4, <1>5

------------------------------------------------------------------------------
(* The invariant holds. *)

LEMMA InitInv ==
  ASSUME Init
  PROVE  IInv
<1>1. /\ cache = [code |-> [r \in Repo |-> [refs |-> [f \in Ref |-> None], arts |-> {}]],
                  ws |-> FALSE, know |-> [c \in Corpus |-> None]]
      /\ dir = [n \in Name |-> EmptyDir] /\ run = Idle /\ ci = None
      /\ root = [manifest |-> None, graph |-> None, remote |-> FALSE, knowledge |-> None]
      /\ used = [push |-> 0, run |-> 0, fault |-> 0]
  BY DEF Init
<1>2. CacheOK
  BY <1>1 DEF CacheOK, CacheShape
<1>3. dir \in Dirs /\ DirOK
  BY <1>1 DEF Dirs, DirType, DirOK, EmptyDir
<1>4. RootShape /\ Members = {} /\ root.graph = None
  BY <1>1 DEF RootShape, Members
<1>5. used \in UsedSet
  BY <1>1, WorkspaceAssumption DEF UsedSet
<1>6. TypeOK
  BY <1>2, <1>3, <1>4, <1>5 DEF TypeOK, CacheOK, CacheShape, Dirs, DirType, UsedSet
<1>7. VisitedIsInstalled /\ TornByFault
  BY <1>1 DEF VisitedIsInstalled, TornByFault, EmptyDir
<1> QED BY <1>1, <1>2, <1>3, <1>4, <1>6, <1>7 DEF IInv, CiOK, RunOK, OneMemberPerRepo

\* A push leaves the consumer alone.
LEMMA PushStepOK ==
  ASSUME IInv, PushAction
  PROVE  IInv'
<1>1. UNCHANGED <<dir, root, run>>
  BY DEF PushAction, PushStep, PushDies, StartPush, PublishCorpus
<1>2. CacheOK' /\ CiOK' /\ used' \in UsedSet
  BY PushOK, Types DEF UsedSet
<1>3. Members' = Members
  BY <1>1 DEF Members
<1>4. dir' \in Dirs /\ DirOK' /\ RootShape' /\ OneMemberPerRepo'
  BY <1>1, <1>3, Types DEF Dirs, DirOK, RootShape, OneMemberPerRepo
<1>5. RunOK'
  <2>1. run # Idle /\ run.kind = "all" => AllOK(run)'
    BY <1>1, Types, HeldRun DEF RunOK
  <2> QED BY <1>1, <2>1, Types DEF RunOK, WorkspaceShape, Half
<1>6. TypeOK'
  BY <1>1, <1>2, <1>3, <1>4, Types DEF TypeOK, CacheOK, CacheShape, Dirs, DirType, UsedSet
<1>7. VisitedIsInstalled' /\ TornByFault'
  <2>1. used'.fault = used.fault
    BY Types DEF PushAction, PushStep, PushDies, StartPush, PublishCorpus, UsedSet
  <2> QED BY <1>1, <1>3, <2>1, Types DEF VisitedIsInstalled, TornByFault, Installing
<1> QED BY <1>2, <1>4, <1>5, <1>6, <1>7 DEF IInv

LEMMA NextInv ==
  ASSUME IInv, [Next]_vars
  PROVE  IInv'
<1>1. CASE UNCHANGED vars
  <2>1. UNCHANGED <<cache, ci, dir, root, run, used>>
    BY <1>1 DEF vars
  <2>2. run # Idle /\ run.kind = "all" => AllOK(run)'
    BY <2>1, Types, HeldRun DEF RunOK
  <2>3. RunOK'
    BY <2>1, <2>2, Types DEF RunOK, WorkspaceShape, Half
  <2>4. Quiet
    BY <2>1 DEF Quiet, Installing, Members
  <2> QED BY <2>1, <2>3, <2>4, Types, RunStep
<1>2. CASE PullStep
  BY <1>2, ListCacheOK, VisitMemberOK, ActivateStoreOK, SaveMemberConfigOK, RootPhasesOK,
     PullMemberOK, ActivateMemberOK, WorkspaceMetadataOK DEF PullStep
<1>3. CASE PushAction
  BY <1>3, PushStepOK
<1>4. CASE \E c \in Corpus \cup {None} : StartPullAll(c)
  BY <1>4, StartPullAllOK
<1>5. CASE \E force \in BOOLEAN, f \in Ref \cup {None} : StartPullWorkspace(force, f)
  BY <1>5, StartPullWorkspaceOK
<1>6. CASE RunDies \/ \E n \in Name : LoseConfig(n) \/ \E f \in Ref : SetRef(n, f)
  BY <1>6, FaultOK
<1> QED BY <1>1, <1>2, <1>3, <1>4, <1>5, <1>6 DEF Next, PushAction

LEMMA SyncInvariance == Spec => []IInv
<1>1. Init => IInv
  BY InitInv
<1>2. IInv /\ [Next]_vars => IInv'
  BY NextInv
<1> QED BY <1>1, <1>2, PTL DEF Spec

------------------------------------------------------------------------------
(* The theorems. *)

\* Wherever pulls of a workspace stop and start again, lose a config or meet forks of one short
\* name, no two members record one repository; a member that pull --all pulled holds the store of
\* its own repository at the resolved sha, one it called up to date does too unless its install
\* had been cut off between marker and store or a fork shares the sha; and every member that
\* pull --workspace has been through holds the store of its marker (install_artifact).
THEOREM MembersAreSound == Spec => []MembersSound
<1>1. ASSUME IInv PROVE CountedIsInstalled
  <2> SUFFICES ASSUME In("all", "manifest"), NEW r \in Repo, run.done[r] # None
               PROVE  HoldsCounted(run.byRepo[r], r, run.done[r], run.pulled)
    BY DEF CountedIsInstalled
  <2>1. AllOK(run) /\ run.phase = "manifest"
    BY <1>1, Types DEF RunOK, In
  <2>2. Holds(run, r)
    BY <2>1 DEF AllOK, Mapping, BeingWritten
  <2> QED BY <2>2 DEF Holds
<1>2. IInv => MembersSound
  BY <1>1 DEF IInv, MembersSound
<1> QED BY <1>2, SyncInvariance, PTL

\* What a step does to the configs and, during a workspace pull, to the markers.
LEMMA StepKeepsMembers ==
  ASSUME IInv, [Next]_vars
  PROVE  /\ \A n \in Members : dir[n].cfg # None => dir'[n].cfg \in {dir[n].cfg, None}
         /\ run # Idle /\ run.kind = "workspace" /\ ~run.force =>
              \A n \in Name : dir[n].marker # None => MarkerSha(dir'[n].marker) = MarkerSha(dir[n].marker)
<1>0. /\ dir \in Dirs /\ Members \subseteq Name /\ RunOK /\ CacheOK
  BY Types
<1>1. CASE dir' = dir
  BY <1>1
<1>2. ASSUME NEW n \in Name, NEW r \in Repo, NEW sha \in Sha, WriteMarker(n, r, sha)
      PROVE  OnlyStoreOf(n) /\ dir'[n].marker = <<r, sha>> /\ MarkerSha(dir'[n].marker) = sha
  <2>1. OnlyStoreOf(n) /\ dir'[n].marker = <<r, sha>>
    BY <1>0, <1>2, MarkerWritten
  <2>2. <<r, sha>> # None /\ <<r, sha>>[2] = sha
    BY NoneAssumption
  <2> QED BY <2>1, <2>2 DEF MarkerSha
<1>r. ASSUME NEW n \in Name, RenameStore(n)
      PROVE  \A m \in Name : dir'[m].cfg = dir[m].cfg /\ dir'[m].marker = dir[m].marker
  BY <1>0, <1>r, StoreRenamed DEF OnlyStoreOf
<1>3. CASE VisitMember
  <2>1. run.kind = "all" /\ In("all", "member")
    BY <1>3 DEF VisitMember, In
  <2>2. PICK r \in DOMAIN run.todo, n \in Name :
          \/ dir' = dir
          \/ TargetSha(r) \in cache.code[r].arts /\ WriteMarker(n, r, TargetSha(r))
    BY <1>3 DEF VisitMember
  <2>3. CASE dir' # dir
    <3>1. r \in Repo
      BY <2>1, MemberForOK
    <3>2. cache.code[r].arts \subseteq Sha
      BY <1>0, <3>1 DEF CacheOK, CacheShape
    <3>3. OnlyStoreOf(n)
      BY <1>2, <2>2, <2>3, <3>1, <3>2
    <3> QED BY <1>0, <2>1, <3>3 DEF OnlyStoreOf
  <2> QED BY <1>1, <2>3
<1>a. CASE ActivateStore
  <2>1. AllOK(run) /\ run.phase = "activate"
    BY <1>0, <1>a DEF ActivateStore, In, RunOK
  <2>2. run.cur[2] \in Name
    BY <2>1 DEF AllOK, HalfOK, Takes
  <2>3. dir' = dir \/ RenameStore(run.cur[2])
    BY <1>a DEF ActivateStore
  <2> QED BY <1>0, <1>1, <1>r, <2>2, <2>3
<1>b. CASE ActivateMember
  <2>1. Half(run.cur[2])
    BY <1>0, <1>b DEF ActivateMember, In, RunOK
  <2>2. run.cur[2] \in Name
    BY <2>1 DEF Half
  <2>3. dir' = dir \/ RenameStore(run.cur[2])
    BY <1>b DEF ActivateMember
  <2> QED BY <1>0, <1>1, <1>r, <2>2, <2>3
<1>4. CASE SaveMemberConfig
  <2>1. AllOK(run) /\ run.phase = "config" /\ run.phase \in Mapping /\ run.kind = "all"
    BY <1>0, <1>4 DEF SaveMemberConfig, In, RunOK, Mapping
  <2>2. PICK r, n : run.cur = <<r, n>> /\ CurOK(run, r, n)
    <3>1. run.cur = <<run.cur[1], run.cur[2]>> /\ CurOK(run, run.cur[1], run.cur[2])
      BY <2>1 DEF AllOK
    <3> QED BY <3>1
  <2>3. n \in Name /\ (n \in Members => dir[n].cfg \in {r, None})
    BY <2>1, <2>2 DEF AllOK, CurOK, Takes
  <2>4. dir'[n].cfg = r /\ \A m \in Name \ {n} : dir'[m] = dir[m]
    <3>1. run.cur[1] = r /\ run.cur[2] = n
      BY <2>2
    <3>2. PICK ref : ref = IF run.byRepo[r] = None THEN None ELSE dir[run.byRepo[r]].ref
      OBVIOUS
    <3>3. dir' = [dir EXCEPT ![n].cfg = r, ![n].ref = ref]
      BY <1>4, <3>1, <3>2 DEF SaveMemberConfig
    <3> QED BY <1>0, <2>3, <3>3 DEF Dirs, DirType
  <2> QED BY <1>0, <2>1, <2>3, <2>4
<1>5. CASE PullMember
  <2>1. PICK n \in run.todo :
          LET r == WorkspaceRepo(n)
              sha == IF r = None THEN None ELSE ResolveLatest(cache, r, run.ref)
          IN \/ /\ sha # None /\ MemberGuard(n, sha) /\ sha \in cache.code[r].arts
                /\ WriteMarker(n, r, sha)
             \/ dir' = dir
    BY <1>5 DEF PullMember
  <2> DEFINE r == WorkspaceRepo(n)
             sha == IF r = None THEN None ELSE ResolveLatest(cache, r, run.ref)
  <2>2. CASE dir' # dir
    <3>1. sha # None /\ MemberGuard(n, sha) /\ sha \in cache.code[r].arts
          /\ WriteMarker(n, r, sha)
      BY <2>1, <2>2
    <3>2. r \in BaseMembers /\ n = Bare(r)
      <4>1. r # None
        BY <3>1
      <4> QED BY <4>1 DEF WorkspaceRepo
    <3>3. r \in Repo /\ n \in Name
      BY <3>2, BareIsName, WorkspaceAssumption
    <3>4. sha \in Sha
      BY <1>0, <3>1, <3>3 DEF CacheOK, CacheShape
    <3> HIDE DEF r, sha
    <3>5. OnlyStoreOf(n) /\ MarkerSha(dir'[n].marker) = sha
      BY <1>2, <3>1, <3>3, <3>4
    <3>6. ~run.force /\ dir[n].marker # None => MarkerSha(dir[n].marker) = sha
      BY <3>1 DEF MemberGuard, MarkerSha
    <3> QED BY <1>0, <3>5, <3>6 DEF OnlyStoreOf
  <2> QED BY <1>1, <2>2
<1>6. ASSUME NEW n \in Name, LoseConfig(n) \/ \E f \in Ref : SetRef(n, f)
      PROVE  /\ run = Idle
             /\ \A m \in Name : dir'[m].cfg \in {dir[m].cfg, None}
  <2>1. CASE LoseConfig(n)
    BY <1>0, <2>1 DEF LoseConfig, NoRun, EmptyDir, Dirs, DirType
  <2>2. CASE \E f \in Ref : SetRef(n, f)
    BY <1>0, <2>2 DEF SetRef, NoRun, Dirs, DirType
  <2> QED BY <1>6, <2>1, <2>2
<1>7. CASE \E n \in Name : LoseConfig(n) \/ \E f \in Ref : SetRef(n, f)
  BY <1>0, <1>6, <1>7
<1>8. \/ dir' = dir \/ VisitMember \/ ActivateStore \/ SaveMemberConfig \/ PullMember \/ ActivateMember
      \/ \E n \in Name : LoseConfig(n) \/ \E f \in Ref : SetRef(n, f)
  BY DEF Next, vars, PullStep, ListCache, PullAllKnowledge, ApplyMetadata, SaveManifest, SaveGraph,
         SaveRootConfig, AdoptMetadata, InstallGraph, PushStep, PushDies, RunDies, StartPush,
         PublishCorpus, StartPullAll, StartPullWorkspace
<1> QED BY <1>1, <1>3, <1>a, <1>b, <1>4, <1>5, <1>7, <1>8

\* No pull hands a member of the manifest to another repository, and pull --workspace without
\* --force moves no member that is pinned at another sha, whatever is pushed meanwhile.
THEOREM MembersAreKept == Spec => MembersStay
<1> DEFINE Keeps == \A n \in Members : dir[n].cfg # None => dir'[n].cfg \in {dir[n].cfg, None}
           Stays == run # Idle /\ run.kind = "workspace" /\ ~run.force =>
                      \A n \in Name : dir[n].marker # None => MarkerSha(dir'[n].marker) = MarkerSha(dir[n].marker)
<1>1. IInv /\ [Next]_vars => [Keeps]_vars /\ [Stays]_vars
  BY StepKeepsMembers
<1>2. Spec => [][Keeps]_vars /\ [][Stays]_vars
  <2> HIDE DEF Keeps, Stays
  <2> QED BY <1>1, SyncInvariance, PTL DEF Spec
<1> QED BY <1>2 DEF MembersStay, MemberKeepsRepo, PinnedMemberStays
==============================================================================
