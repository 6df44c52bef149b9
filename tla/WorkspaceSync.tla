---------------------------- MODULE WorkspaceSync ----------------------------
(***************************************************************************)
(* The code side of the shared cache with several repositories             *)
(* (src/sync/commands.rs): `sync push` and `push --workspace` by a CI      *)
(* checkout, and one consumer directory kept by `pull --all --into` and    *)
(* `pull --workspace`, with crashes and failed file writes in between.     *)
(*                                                                         *)
(* A put or a get is one step on the tip of the cache: put_many carries    *)
(* the artifact and its pointer in one commit (GitCache, which GitRemote   *)
(* implements).  The install of a member is two steps, its marker and then *)
(* its store; the rest of install_artifact is in CodeStore.  The members   *)
(* of a workspace share one commit, and so may forks of a repository: a    *)
(* sha does not identify a repository.                                     *)
(***************************************************************************)
EXTENDS Naturals, FiniteSets, SequencesExt, FiniteSetsExt

CONSTANTS RepoOrder,   \* the repo_ids in listing order
          Short,       \* [repo -> last `__` segment]
          BaseMembers, \* repos of the workspace that CI publishes
          BaseEdges,   \* its dependency edges, pairs of repos
          Ref, Main,   \* ref names, the default one among them
          Sha,         \* commits
          Commits,     \* [repo -> its commits]
          Corpus, Snap,\* knowledge corpora and snapshots on the cache
          MaxPush, MaxRun, MaxFault,   \* bounds
          MaxSuffix,   \* bound: members of one short name are numbered up to it
          None

Repo == ToSet(RepoOrder)

ASSUME WorkspaceAssumption ==
  /\ Main \in Ref /\ BaseMembers \subseteq Repo /\ BaseEdges \subseteq BaseMembers \X BaseMembers
  /\ \A r, s \in BaseMembers : Commits[r] = Commits[s] /\ (Short[r] = Short[s] => r = s)
  /\ MaxPush \in Nat /\ MaxRun \in Nat /\ MaxFault \in Nat /\ MaxSuffix \in Nat \ {0}

Name == {Short[r] : r \in Repo} \X (1..MaxSuffix)
Bare(r) == <<Short[r], 1>>

\* None is no value of the others.
ASSUME NoneAssumption ==
  /\ None \notin Repo \cup Ref \cup Sha \cup Name \cup (Repo \X Sha)
  /\ \A S \in SUBSET Name : None \notin [S -> BOOLEAN]

VARIABLES cache,   \* what is published
          dir,     \* [member directory -> its .cce/]
          root,    \* workspace.yml, workspace-graph.json, config, knowledge marker
          run,     \* the running pull, or Idle
          ci,      \* the running push, or None
          used     \* bounds

vars == <<cache, dir, root, run, ci, used>>

\* `torn` is history: the marker was written and its store not yet, or never, activated.
EmptyDir == [cfg |-> None, ref |-> None, marker |-> None, store |-> None, torn |-> FALSE]
Idle == [kind |-> "none"]
NoRun == run = Idle

-----------------------------------------------------------------------------
(* Reading the cache.                                                      *)

RefNames(c, r) == {f \in Ref : c.code[r].refs[f] # None}

\* The ref of a repository when nobody names one: main, else the only one.
DefaultRef(c, r) ==
  IF Main \in RefNames(c, r) THEN Main
  ELSE IF Cardinality(RefNames(c, r)) = 1 THEN CHOOSE f \in RefNames(c, r) : TRUE
  ELSE None

\* resolve_pull_sha for --latest: an explicit ref (flag or sync.ref) or the default.
ResolveLatest(c, r, explicit) ==
  LET f == IF explicit # None THEN explicit ELSE DefaultRef(c, r)
  IN IF f = None THEN None ELSE c.code[r].refs[f]

\* One row of cmd_list; a prefix with only workspace metadata is no row.
Row(c, r) == [latest |-> ResolveLatest(c, r, None), refs |-> RefNames(c, r),
              artifacts |-> Cardinality(c.code[r].arts)]
Listed(c) == {r \in Repo : c.code[r].arts # {} \/ RefNames(c, r) # {}}

\* The repositories of a set are visited in listing order.
Place(r) == CHOOSE i \in DOMAIN RepoOrder : RepoOrder[i] = r
First(r, S) == r \in S /\ \A s \in S : Place(r) <= Place(s)

-----------------------------------------------------------------------------
(* cce sync push, by a CI checkout.                                        *)

Checkout == [head : Sha, dirty : BOOLEAN, branch : Ref \cup {None}, commit : Sha \cup {None}]

\* resolve_push_sha: a clean tree, and --commit only as an assertion of HEAD.
ResolvePushSha(co) ==
  IF co.dirty \/ (co.commit # None /\ co.commit # co.head) THEN None ELSE co.head

\* resolve_push_branch: sync.ref or the branch; a detached HEAD moves no pointer.
ResolvePushBranch(co, cfgRef) == IF cfgRef # None THEN cfgRef ELSE co.branch

PushOne(c, r, sha, branch) ==
  [c EXCEPT !.code[r].arts = @ \cup {sha}, !.code[r].refs[branch] = sha]

\* cmd_push and push_workspace check the checkout before anything is written.
StartPush(co, cfgRef, workspace, r) ==
  /\ ci = None /\ used.push < MaxPush
  /\ LET sha == ResolvePushSha(co)
         branch == ResolvePushBranch(co, cfgRef)
     IN /\ sha # None /\ branch # None
        /\ sha \in Commits[IF workspace THEN CHOOSE q \in BaseMembers : TRUE ELSE r]
        /\ ci' = [sha |-> sha, branch |-> branch, meta |-> workspace,
                  todo |-> IF workspace THEN BaseMembers ELSE {r}]
  /\ used' = [used EXCEPT !.push = @ + 1]
  /\ UNCHANGED <<cache, dir, root, run>>

\* Member by member, artifact and pointer in one change; at the end the metadata.
PushStep ==
  /\ ci # None
  /\ \/ \E r \in ci.todo :
          /\ First(r, ci.todo)
          /\ cache' = PushOne(cache, r, ci.sha, ci.branch)
          /\ ci' = IF ci.todo = {r} /\ ~ci.meta THEN None ELSE [ci EXCEPT !.todo = @ \ {r}]
     \/ ci.todo = {} /\ cache' = [cache EXCEPT !.ws = TRUE] /\ ci' = None
  /\ UNCHANGED <<dir, root, run, used>>

\* A failed put or a death ends the push between two members.
PushDies == ci # None /\ ci' = None /\ UNCHANGED <<cache, dir, root, run, used>>

PublishCorpus(c, s) ==
  /\ used.push < MaxPush /\ cache.know[c] # s
  /\ cache' = [cache EXCEPT !.know[c] = s]
  /\ used' = [used EXCEPT !.push = @ + 1]
  /\ UNCHANGED <<dir, root, run, ci>>

-----------------------------------------------------------------------------
(* pull --all --into.                                                      *)

In(kind, ph) == run # Idle /\ run.kind = kind /\ run.phase = ph
Phase(ph) == run' = [run EXCEPT !.phase = ph]
Fail == run' = Idle

StartPullAll(corpus) ==
  /\ NoRun /\ used.run < MaxRun
  /\ used' = [used EXCEPT !.run = @ + 1]
  /\ run' = [kind |-> "all", phase |-> "list", corpus |-> corpus, todo |-> <<>>,
             know |-> None, ws |-> FALSE, members |-> {}, typed |-> {}, byRepo |-> [r \in Repo |-> None],
             edges |-> None, cur |-> None, done |-> [r \in Repo |-> None], pulled |-> {}]
  /\ UNCHANGED <<cache, dir, root, ci>>

\* cmd_list, then the manifest and the member configs of the consumer.  Of an
\* empty cache nothing is written; a knowledge-only cache still installs.
ListCache ==
  /\ In("all", "list")
  /\ LET names == IF root.manifest = None THEN {} ELSE DOMAIN root.manifest
     IN IF Listed(cache) = {} /\ \A c \in Corpus : cache.know[c] = None THEN Fail
        ELSE run' = [run EXCEPT !.phase = IF Listed(cache) = {} THEN "knowledge_only" ELSE "member",
                      !.todo = [r \in Listed(cache) |-> Row(cache, r)], !.know = cache.know, !.ws = cache.ws,
                      !.members = names,
                      !.typed = {n \in names : root.manifest[n]},
                      !.byRepo = [r \in Repo |->
                         IF \E n \in names : dir[n].cfg = r
                         THEN CHOOSE n \in names : dir[n].cfg = r ELSE None]]
  /\ UNCHANGED <<cache, dir, root, ci, used>>

\* The repository's member: the one that records its repo_id, else an orphan with
\* its short name, else the first free name.
FreeName(r, taken, n) ==
  n[1] = Short[r] /\ n \notin taken /\ \A i \in 1..n[2] - 1 : <<Short[r], i>> \in taken
ExistingByNameOnly(r) ==
  IF Bare(r) \in run.members /\ dir[Bare(r)].cfg = None THEN Bare(r) ELSE None
ExistingMember(r) ==
  IF run.byRepo[r] # None THEN run.byRepo[r]
  ELSE IF Bare(r) \in run.members /\ dir[Bare(r)].cfg = None THEN Bare(r)
  ELSE None
MemberFor(r, n) ==
  IF ExistingMember(r) # None THEN n = ExistingMember(r) ELSE FreeName(r, run.members, n)

\* The sync.ref of an existing member wins over the listing; read again, now.
TargetSha(r) ==
  LET ref == IF run.byRepo[r] = None THEN None ELSE dir[run.byRepo[r]].ref
  IN IF ref # None THEN cache.code[r].refs[ref] ELSE run.todo[r].latest

MarkerSha(m) == IF m = None THEN None ELSE m[2]
Visited(r) == [q \in DOMAIN run.todo \ {r} |-> run.todo[q]]

WriteMarker(n, r, sha) == dir' = [dir EXCEPT ![n].marker = <<r, sha>>, ![n].torn = TRUE]
RenameStore(n) == dir' = [dir EXCEPT ![n].store = dir[n].marker, ![n].torn = FALSE]

\* Of the marker only the sha is compared, not the repository and not the store.
UpToDate(n, sha) == MarkerSha(dir[n].marker) = sha

\* Fetch and install failed: the member is skipped (an orphan stays adopted).
SkipFailed(r) ==
  run' = [run EXCEPT !.phase = "member", !.cur = None, !.todo = Visited(r), !.byRepo[r] = ExistingMember(r)]

\* Nothing to resolve: warned and skipped.  An unmoved sha: up to date, no fetch.
\* Otherwise the artifact is fetched and the first half of its install is done.
VisitMember ==
  /\ In("all", "member")
  /\ \E r \in DOMAIN run.todo, n \in Name :
       LET sha == TargetSha(r)
           there == sha \in cache.code[r].arts
       IN /\ First(r, DOMAIN run.todo) /\ MemberFor(r, n)
          /\ \/ /\ sha = None
                /\ run' = [run EXCEPT !.todo = Visited(r)]
                /\ UNCHANGED <<dir, used>>
             \/ /\ sha # None /\ UpToDate(n, sha)
                /\ run' = [run EXCEPT !.phase = "config", !.cur = <<r, n>>, !.done[r] = sha]
                /\ UNCHANGED <<dir, used>>
             \/ /\ sha # None /\ ~UpToDate(n, sha) /\ there
                /\ WriteMarker(n, r, sha)
                /\ run' = [run EXCEPT !.phase = "activate", !.cur = <<r, n>>]
                /\ UNCHANGED used
             \/ /\ sha # None /\ ~UpToDate(n, sha)
                /\ there => used.fault < MaxFault
                /\ used' = [used EXCEPT !.fault = IF there THEN @ + 1 ELSE @]
                /\ SkipFailed(r) /\ UNCHANGED dir
  /\ UNCHANGED <<cache, root, ci>>

\* The second half: the staged store is renamed into place, or that fails.
ActivateStore ==
  /\ In("all", "activate")
  /\ LET r == run.cur[1]
         n == run.cur[2]
     IN \/ /\ RenameStore(n)
           /\ run' = [run EXCEPT !.phase = "config", !.done[r] = MarkerSha(dir[n].marker),
                                 !.pulled = @ \cup {r}]
           /\ UNCHANGED used
        \/ /\ used.fault < MaxFault
           /\ used' = [used EXCEPT !.fault = @ + 1]
           /\ SkipFailed(r) /\ UNCHANGED dir
  /\ UNCHANGED <<cache, root, ci>>

\* The member's .cce/config, with a hand-set sync.ref kept; its failure ends the run.
SaveMemberConfig ==
  /\ In("all", "config")
  /\ LET r == run.cur[1]
         n == run.cur[2]
     IN dir' = [dir EXCEPT ![n].cfg = r,
                           ![n].ref = IF run.byRepo[r] = None THEN None ELSE dir[run.byRepo[r]].ref]
        /\ run' = [run EXCEPT !.phase = "member", !.cur = None, !.todo = Visited(r),
                              !.members = @ \cup {n}, !.byRepo[r] = n]
  /\ UNCHANGED <<cache, root, ci, used>>

\* pull_all_knowledge: --corpus, else the only corpus; a marker that names the
\* listed snapshot is up to date; the pull reads the pointer again.  Another
\* corpus in the marker is refused, every problem only warns.
SelectedCorpus ==
  LET ids == {c \in Corpus : run.know[c] # None}
  IN IF run.corpus # None THEN (IF run.corpus \in ids THEN run.corpus ELSE None)
     ELSE IF Cardinality(ids) = 1 THEN CHOOSE c \in ids : TRUE ELSE None

PullAllKnowledge ==
  /\ run # Idle /\ run.kind = "all" /\ run.phase \in {"knowledge_only", "member"} /\ DOMAIN run.todo = {}
  /\ LET c == SelectedCorpus
     IN \/ /\ c # None /\ root.knowledge # <<c, run.know[c]>>
           /\ root.knowledge # None => root.knowledge[1] = c
           /\ root' = [root EXCEPT !.knowledge = <<c, cache.know[c]>>]
        \/ UNCHANGED root
  /\ IF run.phase = "knowledge_only" THEN Fail ELSE Phase("meta")
  /\ UNCHANGED <<cache, dir, ci, used>>

\* The published metadata: types for the members it names, and its edges between
\* consumer names.  Nothing pullable: no workspace is written.
ApplyMetadata ==
  /\ In("all", "meta")
  /\ LET mine == {r \in BaseMembers : run.byRepo[r] # None}
     IN IF run.members = {} THEN Fail
        ELSE IF run.ws
        THEN run' = [run EXCEPT !.phase = "manifest",
                       !.typed = @ \cup {run.byRepo[r] : r \in mine},
                       !.edges = {<<run.byRepo[e[1]], run.byRepo[e[2]]>> :
                                    e \in {f \in BaseEdges : f[1] \in mine /\ f[2] \in mine}}]
        ELSE Phase("manifest")
  /\ UNCHANGED <<cache, dir, root, ci, used>>

SaveManifest ==
  /\ In("all", "manifest")
  /\ root' = [root EXCEPT !.manifest = [n \in run.members |-> n \in run.typed]]
  /\ Phase(IF run.edges = None THEN "rootcfg" ELSE "graph")
  /\ UNCHANGED <<cache, dir, ci, used>>

SaveGraph ==
  /\ In("all", "graph")
  /\ root' = [root EXCEPT !.graph = run.edges]
  /\ Phase("rootcfg")
  /\ UNCHANGED <<cache, dir, ci, used>>

\* The remote in the root's config, so that a refresh needs no --remote.
SaveRootConfig ==
  /\ In("all", "rootcfg")
  /\ root' = [root EXCEPT !.remote = TRUE]
  /\ Fail
  /\ UNCHANGED <<cache, dir, ci, used>>

-----------------------------------------------------------------------------
(* pull --workspace.                                                       *)

\* The repo_id of a member is <base>__<name>: known only for published names.
WorkspaceRepo(n) == IF \E r \in BaseMembers : Bare(r) = n
                    THEN CHOOSE r \in BaseMembers : Bare(r) = n ELSE None

\* The members of a manifest are in the order of their paths.
NameOrder(n) == Min({i \in DOMAIN RepoOrder : Short[RepoOrder[i]] = n[1]}) * (MaxSuffix + 1) + n[2]
FirstName(n, S) == n \in S /\ \A m \in S : NameOrder(n) <= NameOrder(m)

\* Without a manifest the published one is saved and used; without either: error.
StartPullWorkspace(force, ref) ==
  /\ NoRun /\ used.run < MaxRun
  /\ used' = [used EXCEPT !.run = @ + 1]
  /\ root.manifest = None => cache.ws
  /\ root' = IF root.manifest # None THEN root
             ELSE [root EXCEPT !.manifest = [n \in {Bare(r) : r \in BaseMembers} |-> TRUE]]
  /\ run' = [kind |-> "workspace", phase |-> "member", force |-> force, ref |-> ref, ws |-> cache.ws,
             todo |-> DOMAIN root'.manifest, cur |-> None]
  /\ UNCHANGED <<cache, dir, ci>>

UnpinnedMemberGuard(n, sha) == TRUE

\* The guard on a member pinned elsewhere, before it is fetched.
MemberGuard(n, sha) == run.force \/ dir[n].marker = None \/ dir[n].marker[2] = sha

PullMemberRetrying ==
  /\ In("workspace", "member")
  /\ \E n \in run.todo :
       LET r == WorkspaceRepo(n)
           sha == IF r = None THEN None ELSE ResolveLatest(cache, r, run.ref)
       IN /\ FirstName(n, run.todo)
          /\ IF sha # None /\ MemberGuard(n, sha) /\ sha \in cache.code[r].arts
             THEN /\ WriteMarker(n, r, sha)
                  /\ run' = [run EXCEPT !.phase = "activate", !.cur = <<r, n>>]
             ELSE UNCHANGED <<run, dir>>
  /\ UNCHANGED <<cache, root, ci, used>>

\* The first member that cannot be resolved, is pinned or fails ends the pull.
PullMember ==
  /\ In("workspace", "member")
  /\ \E n \in run.todo :
       LET r == WorkspaceRepo(n)
           sha == IF r = None THEN None ELSE ResolveLatest(cache, r, run.ref)
       IN /\ FirstName(n, run.todo)
          /\ IF sha # None /\ MemberGuard(n, sha) /\ sha \in cache.code[r].arts
             THEN /\ WriteMarker(n, r, sha)
                  /\ run' = [run EXCEPT !.phase = "activate", !.cur = <<r, n>>]
             ELSE Fail /\ UNCHANGED dir
  /\ UNCHANGED <<cache, root, ci, used>>

\* The member's store is renamed into place; a failure ends the pull.
ActivateMember ==
  /\ In("workspace", "activate")
  /\ \/ /\ RenameStore(run.cur[2])
        /\ run' = [run EXCEPT !.phase = "member", !.cur = None, !.todo = @ \ {run.cur[2]}]
        /\ UNCHANGED used
     \/ /\ used.fault < MaxFault
        /\ used' = [used EXCEPT !.fault = @ + 1]
        /\ Fail /\ UNCHANGED dir
  /\ UNCHANGED <<cache, root, ci>>

\* The published types for members of that name, then the published graph.
AdoptMetadata ==
  /\ In("workspace", "member") /\ run.todo = {}
  /\ IF run.ws
     THEN /\ root' = [root EXCEPT !.manifest =
                       [n \in DOMAIN @ |-> @[n] \/ \E r \in BaseMembers : Bare(r) = n]]
          /\ Phase("graph")
     ELSE Fail /\ UNCHANGED root
  /\ UNCHANGED <<cache, dir, ci, used>>

InstallGraph ==
  /\ In("workspace", "graph")
  /\ root' = [root EXCEPT !.graph = {<<Bare(e[1]), Bare(e[2])>> : e \in BaseEdges}]
  /\ Fail
  /\ UNCHANGED <<cache, dir, ci, used>>

-----------------------------------------------------------------------------
(* The consumer's process dies, a config is deleted, a sync.ref is set.     *)

RunDies == run # Idle /\ used.fault < MaxFault /\ run' = Idle
           /\ used' = [used EXCEPT !.fault = @ + 1] /\ UNCHANGED <<cache, dir, root, ci>>

\* A damaged config is read as an absent one; the whole .cce may be gone with it.
LoseConfig(n) ==
  /\ NoRun /\ used.fault < MaxFault /\ dir[n].cfg # None
  /\ \/ dir' = [dir EXCEPT ![n] = EmptyDir]
     \/ dir' = [dir EXCEPT ![n].cfg = None, ![n].ref = None]
  /\ used' = [used EXCEPT !.fault = @ + 1]
  /\ UNCHANGED <<cache, root, run, ci>>

SetRef(n, f) ==
  /\ NoRun /\ used.fault < MaxFault /\ dir[n].cfg # None /\ dir[n].ref # f
  /\ dir' = [dir EXCEPT ![n].ref = f]
  /\ used' = [used EXCEPT !.fault = @ + 1]
  /\ UNCHANGED <<cache, root, run, ci>>

Init ==
  /\ cache = [code |-> [r \in Repo |-> [refs |-> [f \in Ref |-> None], arts |-> {}]],
              ws |-> FALSE, know |-> [c \in Corpus |-> None]]
  /\ dir = [n \in Name |-> EmptyDir]
  /\ root = [manifest |-> None, graph |-> None, remote |-> FALSE, knowledge |-> None]
  /\ run = Idle /\ ci = None
  /\ used = [push |-> 0, run |-> 0, fault |-> 0]

PullStep ==
  \/ ListCache \/ VisitMember \/ ActivateStore \/ SaveMemberConfig \/ PullAllKnowledge
  \/ ApplyMetadata \/ SaveManifest \/ SaveGraph \/ SaveRootConfig
  \/ PullMember \/ ActivateMember \/ AdoptMetadata \/ InstallGraph

Next ==
  \/ PullStep \/ PushStep \/ PushDies \/ RunDies
  \/ \E co \in Checkout, f \in Ref \cup {None} :
       \/ StartPush(co, f, TRUE, None)
       \/ \E r \in Repo \ BaseMembers : StartPush(co, f, FALSE, r)
  \/ \E c \in Corpus, s \in Snap : PublishCorpus(c, s)
  \/ \E c \in Corpus \cup {None} : StartPullAll(c)
  \/ \E force \in BOOLEAN, f \in Ref \cup {None} : StartPullWorkspace(force, f)
  \/ \E n \in Name : LoseConfig(n) \/ \E f \in Ref : SetRef(n, f)

Spec == Init /\ [][Next]_vars /\ WF_vars(PullStep)
-----------------------------------------------------------------------------
(* Properties.                                                             *)

Members == IF root.manifest = None THEN {} ELSE DOMAIN root.manifest

\* The shape of the state.
TypeOK ==
  /\ dir \in [Name -> [cfg : Repo \cup {None}, ref : Ref \cup {None},
                       marker : (Repo \X Sha) \cup {None}, store : (Repo \X Sha) \cup {None},
                       torn : BOOLEAN]]
  /\ Members \subseteq Name
  /\ root.graph # None => root.graph \subseteq Name \X Name
  /\ \A r \in Repo : cache.code[r].refs \in [Ref -> Sha \cup {None}] /\ cache.code[r].arts \subseteq Sha
  /\ used \in [push : 0..MaxPush, run : 0..MaxRun, fault : 0..MaxFault]

\* However runs of pull --all and pull --workspace stop, lose a config and start
\* again, two members of the manifest never record the same repository.
OneMemberPerRepo ==
  \A m, n \in Members : dir[m].cfg # None /\ dir[m].cfg = dir[n].cfg => m = n

\* Another repository of the same short name has the commit too.
Forked(r, sha) == \E q \in Repo \ {r} : Short[q] = Short[r] /\ sha \in Commits[q]

\* The member n, counted for r at sha, holds that store; only one that was found up to
\* date may not: its last install was cut off before the rename, or a fork owns its sha.
HoldsCounted(n, r, sha, pulled) ==
  /\ MarkerSha(dir[n].marker) = sha
  /\ dir[n].store = <<r, sha>> \/ (r \notin pulled /\ (dir[n].torn \/ Forked(r, sha)))

\* When pull --all writes the manifest, each member it pulled holds the store of its
\* own repository at the resolved sha, and each it called up to date does so too
\* unless its install had been cut off or a fork shares the sha.
CountedIsInstalled ==
  In("all", "manifest") =>
    \A r \in Repo : run.done[r] # None => HoldsCounted(run.byRepo[r], r, run.done[r], run.pulled)

\* pull --workspace takes no marker's word: every member it has been through holds the
\* store of its own repository, that of its marker, whatever was cut off before.
VisitedIsInstalled ==
  run # Idle /\ run.kind = "workspace" =>
    \A n \in Members \ run.todo :
      dir[n].store = dir[n].marker /\ dir[n].marker # None /\ dir[n].marker[1] = WorkspaceRepo(n)

\* Without a fault the marker and the store of a member differ only between the two
\* halves of its own install.
Installing(n) == run # Idle /\ run.phase = "activate" /\ run.cur[2] = n
TornByFault == \A n \in Name : dir[n].store # dir[n].marker => used.fault > 0 \/ Installing(n)

\* A member of the manifest is never handed to another repository.
MemberKeepsRepo ==
  [][\A n \in Members : dir[n].cfg # None => dir'[n].cfg \in {dir[n].cfg, None}]_vars

\* pull --workspace without --force never moves a member that is pinned at
\* another sha, whatever was pushed between the members of the pull.
PinnedMemberStays ==
  [][run # Idle /\ run.kind = "workspace" /\ ~run.force =>
       \A n \in Name : dir[n].marker # None => MarkerSha(dir'[n].marker) = MarkerSha(dir[n].marker)]_vars

\* Every pull ends.
EveryPullEnds == run # Idle ~> run = Idle

\* However pulls of a workspace stop and start again, a repository has one member, a member that
\* was pulled holds what was resolved for it, and one called up to date does so except in the
\* two cases named above.
MembersSound ==
  TypeOK /\ OneMemberPerRepo /\ CountedIsInstalled /\ VisitedIsInstalled /\ TornByFault

\* No pull hands a member to another repository or moves one that is pinned, without --force.
MembersStay == MemberKeepsRepo /\ PinnedMemberStays
=============================================================================
