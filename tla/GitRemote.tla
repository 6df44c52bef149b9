------------------------------ MODULE GitRemote ------------------------------
(***************************************************************************)
(* The git backend of the sync cache (src/sync/remote.rs): processes that  *)
(* share working clones (~/.cce/sync/<remote-id>/) publish to, prune and   *)
(* read one branch of a bare repository.  One action is one git command or *)
(* one file-system call, because that is where another process, a crash or *)
(* the network can come in between.                                        *)
(*                                                                         *)
(* Data is abstracted to what the protocol tells apart.  A tree maps keys  *)
(* to contents; a commit is its tree and the set of its ancestors.  An     *)
(* operation is [kind, entries]: `entries` is the sequence of <<key,       *)
(* value>> pairs of put_many, of <<key, Absent>> pairs of remove_many, the *)
(* one <<AttrsKey, line>> of ensure_lfs_pattern, or the one <<key, Absent>>*)
(* that get reads.                                                         *)
(***************************************************************************)
EXTENDS Naturals, Sequences

CONSTANTS Proc,          \* cce processes that talk to the cache
          Clone,         \* working-clone directories, one per machine and remote
          CloneOf,       \* the clone a process uses
          Key,           \* paths on the cache branch
          ArtifactKey,   \* the keys ending in .cce or .cck (possibly LFS pointers)
          AttrsKey,      \* .gitattributes; its content is a set of lines
          Val,           \* file contents
          Absent,        \* "no file"
          PointsTo,      \* PointsTo[v]: the artifact key a pointer holding v names
          Op,            \* the operations processes may run
          MaxOps,        \* bound: how many operations each process runs
          PushRetries,   \* PUSH_RETRIES
          LossyNet,      \* fetches and pushes may fail, acknowledgements get lost
          AllowAbort     \* an operation may die or fail between two commands

ASSUME ConstantsAssumption ==
  /\ CloneOf \in [Proc -> Clone]
  /\ ArtifactKey \subseteq Key
  /\ AttrsKey \in Key \ ArtifactKey
  /\ Absent \notin Val
  /\ PointsTo \in [DOMAIN PointsTo -> ArtifactKey]
  /\ Op # {}
  /\ Op \subseteq [kind : {"put", "remove", "attrs", "get"},
                   entries : Seq(Key \X (Val \cup {Absent}))]
  /\ \A o \in Op : /\ Len(o.entries) >= 1
                   /\ o.kind \in {"attrs", "get"} => Len(o.entries) = 1
                   /\ \A j \in 1..Len(o.entries) :
                        /\ (o.entries[j][1] = AttrsKey) <=> (o.kind = "attrs")
                        /\ o.kind \in {"put", "attrs"} => o.entries[j][2] \in Val
  /\ MaxOps \in [Proc -> Nat]
  /\ PushRetries \in Nat \ {0}
  /\ LossyNet \in BOOLEAN
  /\ AllowAbort \in BOOLEAN

\* A missing .gitattributes is not one without lines.
ASSUME AbsentAssumption == \A lines \in SUBSET Val : lines # Absent

\* remove_many takes keys: what its entries ask for is that there be no file.
ASSUME RemovesAssumption ==
  \A o \in Op : o.kind = "remove" => \A j \in 1..Len(o.entries) : o.entries[j][2] = Absent

VARIABLES commits,   \* every commit made: Seq([tree, anc]); a commit is its index
          remote,    \* the cache branch on the remote; 0 while unborn
          head,      \* head[c]: HEAD of clone c; 0 while unborn
          origin,    \* origin[c]: refs/remotes/origin/<branch>; 0 when not fetched
          index,     \* index[c]: the staged tree
          work,      \* work[c]: the files in the working tree
          pc,        \* pc[p]: the next command of process p
          op,        \* op[p]: the operation p runs, or ran last
          at,        \* at[p]: position in op[p].entries
          attempts,  \* attempts[p]: failed pushes of this operation
          pushed,    \* pushed[p]: pushed_sha
          got,       \* got[p]: the bytes get returned
          result,    \* result[p]: how the last operation ended
          left,      \* left[p]: operations p may still start
          asked,     \* asked[c]: history of the pairs requested on clone c
          broken     \* broken[c]: some operation on clone c was aborted

git    == <<commits, remote>>
clones == <<head, origin, index, work>>
local  == <<pc, op, at, attempts, pushed, got, result, left>>
aux    == <<asked, broken>>
vars   == <<commits, remote, head, origin, index, work,
            pc, op, at, attempts, pushed, got, result, left, asked, broken>>

Content == Val \cup {Absent} \cup SUBSET Val
Tree    == {t \in [Key -> Content] :
              \A k \in Key : t[k] \in {Absent} \cup (IF k = AttrsKey THEN SUBSET Val ELSE Val)}
Commit  == [tree : Tree, anc : SUBSET Nat]
EmptyTree == [k \in Key |-> Absent]

\* The tree and the ancestors (itself included) of a commit; 0 is "unborn".
TreeOf(x) == IF x = 0 THEN EmptyTree ELSE commits[x].tree
Anc(x)    == IF x = 0 THEN {} ELSE commits[x].anc

Lines(content) == IF content = Absent THEN {} ELSE content

Entry(p)    == op[p].entries[at[p]]
EntryKeys(o) == {o.entries[j][1] : j \in 1..Len(o.entries)}

Goto(p, l)   == pc' = [pc EXCEPT ![p] = l]
Finish(p, r) == /\ pc' = [pc EXCEPT ![p] = "idle"]
                /\ result' = [result EXCEPT ![p] = r]

------------------------------------------------------------------------------
(* Git, as the code uses it. *)

\* `git fetch`: the remote-tracking ref becomes the branch, or (offline) stays.
GitFetch(c) == /\ \/ origin' = [origin EXCEPT ![c] = remote]
                  \/ LossyNet /\ UNCHANGED origin
               /\ UNCHANGED <<git, head, index, work, aux>>

\* Mutant: a soft reset, which moves HEAD and keeps the index and the files.
SoftReset(c) == /\ head' = [head EXCEPT ![c] = origin[c]]
                /\ UNCHANGED <<git, origin, index, work, aux>>

\* `git checkout --force -B <branch> origin/<branch>`: HEAD, the index and every
\* tracked file become origin's; untracked files stay.
GitCheckoutForce(c) ==
  LET target == TreeOf(origin[c])
  IN /\ head'  = [head EXCEPT ![c] = origin[c]]
     /\ index' = [index EXCEPT ![c] = target]
     /\ work'  = [work EXCEPT ![c] =
                    [k \in Key |-> IF target[k] = Absent /\ index[c][k] = Absent
                                   THEN work[c][k] ELSE target[k]]]
     /\ UNCHANGED <<git, origin, aux>>

\* Whether a plain `git checkout -B` keeps the local state of key k: nothing to
\* do there, or the index already holds the target.
KeepsLocal(c, k) == LET target == TreeOf(origin[c])[k]
                    IN target = TreeOf(head[c])[k] \/ target = index[c][k]

\* Whether it may overwrite k: staged as in HEAD and unmodified on disk.
CleanAt(c, k) == /\ index[c][k] = TreeOf(head[c])[k]
                 /\ work[c][k] = index[c][k]

\* `git checkout -B <branch> origin/<branch>` without --force: refuses to
\* overwrite local changes, and carries over the ones it need not touch.
GitCheckoutAllowed(c) == \A k \in Key : KeepsLocal(c, k) \/ CleanAt(c, k)
GitCheckout(c) ==
  LET merged(mine) == [k \in Key |-> IF KeepsLocal(c, k) THEN mine[k]
                                     ELSE TreeOf(origin[c])[k]]
  IN /\ head'  = [head EXCEPT ![c] = origin[c]]
     /\ index' = [index EXCEPT ![c] = merged(index[c])]
     /\ work'  = [work EXCEPT ![c] = merged(work[c])]
     /\ UNCHANGED <<git, origin, aux>>

\* `git push origin HEAD:refs/heads/<branch>` is accepted when it fast-forwards.
GitPushAllowed(c) == head[c] # 0 /\ remote \in Anc(head[c]) \cup {0}

------------------------------------------------------------------------------
(* The operations.  A process starts one, runs its commands, and returns.   *)

First(o) == CASE o.kind \in {"put", "remove"} -> "fetch"
              [] o.kind = "attrs" -> "already"
              [] o.kind = "get" -> "get_fetch"

Start(p, o) ==
  /\ pc[p] = "idle" /\ left[p] > 0
  /\ Goto(p, First(o))
  /\ op' = [op EXCEPT ![p] = o]
  /\ at' = [at EXCEPT ![p] = 1]
  /\ attempts' = [attempts EXCEPT ![p] = 0]
  /\ pushed' = [pushed EXCEPT ![p] = 0]
  /\ got' = [got EXCEPT ![p] = Absent]
  /\ result' = [result EXCEPT ![p] = "none"]
  /\ left' = [left EXCEPT ![p] = @ - 1]
  /\ asked' = [asked EXCEPT ![CloneOf[p]] =
                 IF o.kind = "get" THEN @
                 ELSE @ \cup {o.entries[j] : j \in 1..Len(o.entries)}]
  /\ UNCHANGED <<git, clones, broken>>

\* put_many / remove_many: fetch, then start from the latest remote state.
Fetch(p) ==
  /\ pc[p] = "fetch"
  /\ GitFetch(CloneOf[p])
  /\ Goto(p, "checkout")
  /\ UNCHANGED <<op, at, attempts, pushed, got, result, left>>

\* The label where the operation's `apply` closure begins.
ApplyLabel(o) == IF o.kind = "remove" THEN "rm" ELSE "write"

\* Mutant: the retry re-applies only the last entry, the pointer.
ReapplyPointerOnly(p) ==
  /\ pc[p] = "checkout"
  /\ IF origin[CloneOf[p]] = 0 THEN UNCHANGED <<git, clones, aux>>
     ELSE GitCheckoutForce(CloneOf[p])
  /\ Goto(p, ApplyLabel(op[p]))
  /\ at' = [at EXCEPT ![p] = IF attempts[p] = 0 THEN 1 ELSE Len(op[p].entries)]
  /\ UNCHANGED <<op, attempts, pushed, got, result, left>>

\* checkout_branch_at_origin: a no-op while the remote branch is unborn.
CheckoutBranchAtOrigin(p) ==
  /\ pc[p] = "checkout"
  /\ IF origin[CloneOf[p]] = 0 THEN UNCHANGED <<git, clones, aux>>
     ELSE GitCheckoutForce(CloneOf[p])
  /\ Goto(p, ApplyLabel(op[p]))
  /\ at' = [at EXCEPT ![p] = 1]
  /\ UNCHANGED <<op, attempts, pushed, got, result, left>>

\* ensure_lfs_pattern: nothing to do when the file on disk names the pattern.
EnsureLfsPattern(p) ==
  LET c == CloneOf[p] IN
  /\ pc[p] = "already"
  /\ IF Entry(p)[2] \in Lines(work[c][AttrsKey])
     THEN Finish(p, "ok")
     ELSE Goto(p, "write") /\ UNCHANGED result
  /\ UNCHANGED <<git, clones, op, at, attempts, pushed, got, left, aux>>

\* What `apply` writes at the entry's key: the bytes, or the appended line.
Written(p) == LET k == Entry(p)[1] IN
  IF k = AttrsKey THEN Lines(work[CloneOf[p]][k]) \cup {Entry(p)[2]} ELSE Entry(p)[2]

\* apply: write one file.
WriteFile(p) ==
  LET c == CloneOf[p] IN
  /\ pc[p] = "write"
  /\ work' = [work EXCEPT ![c][Entry(p)[1]] = Written(p)]
  /\ Goto(p, "add")
  /\ UNCHANGED <<git, head, origin, index, op, at, attempts, pushed, got,
                 result, left, aux>>

\* apply: `git add -- <key>`, then the next entry or the commit.
GitAdd(p) ==
  LET c == CloneOf[p]
      k == Entry(p)[1] IN
  /\ pc[p] = "add"
  /\ index' = [index EXCEPT ![c][k] = work[c][k]]
  /\ IF at[p] < Len(op[p].entries)
     THEN at' = [at EXCEPT ![p] = @ + 1] /\ Goto(p, "write")
     ELSE Goto(p, "commit") /\ UNCHANGED at
  /\ UNCHANGED <<git, head, origin, work, op, attempts, pushed, got, result,
                 left, aux>>

\* apply of remove_many: `git rm -q --ignore-unmatch -- <keys>`, which refuses
\* when one of the tracked keys has local changes.
GitRm(p) ==
  LET c == CloneOf[p]
      tracked == {k \in EntryKeys(op[p]) : index[c][k] # Absent} IN
  /\ pc[p] = "rm"
  /\ IF \A k \in tracked : /\ index[c][k] = TreeOf(head[c])[k]
                           /\ work[c][k] \in {index[c][k], Absent}
     THEN /\ index' = [index EXCEPT ![c] =
                         [k \in Key |-> IF k \in tracked THEN Absent ELSE @[k]]]
          /\ work'  = [work EXCEPT ![c] =
                         [k \in Key |-> IF k \in tracked THEN Absent ELSE @[k]]]
          /\ Goto(p, "commit") /\ UNCHANGED result
     ELSE Finish(p, "err") /\ UNCHANGED <<index, work>>
  /\ UNCHANGED <<git, head, origin, op, at, attempts, pushed, got, left, aux>>

\* Mutant: an exhausted loop that reports success.
GiveUpSilently(p, failed) ==
  IF failed < PushRetries THEN Goto(p, "push") /\ UNCHANGED result
  ELSE Finish(p, "ok")

\* Push again while push_with_retry has attempts left, else its final Err.
PushOrGiveUp(p, failed) ==
  IF failed < PushRetries THEN Goto(p, "push") /\ UNCHANGED result
  ELSE Finish(p, "err")

\* commit_staged: commit the index, unless HEAD already holds it.
CommitStaged(p) ==
  LET c == CloneOf[p] IN
  /\ pc[p] = "commit"
  /\ IF index[c] = TreeOf(head[c])
     THEN UNCHANGED <<commits, head>>
     ELSE LET new == Len(commits) + 1 IN
          /\ commits' = Append(commits, [tree |-> index[c],
                                         anc |-> Anc(head[c]) \cup {new}])
          /\ head' = [head EXCEPT ![c] = new]
  /\ PushOrGiveUp(p, attempts[p])
  /\ UNCHANGED <<remote, origin, index, work, op, at, attempts, pushed, got,
                 left, aux>>

\* push_with_retry: an accepted push.  put_many goes on to verify; remove_many
\* and ensure_lfs_pattern are done.
PushAccepted(p) ==
  LET c == CloneOf[p] IN
  /\ pc[p] = "push" /\ GitPushAllowed(c)
  /\ remote' = head[c]
  /\ origin' = [origin EXCEPT ![c] = head[c]]
  /\ IF op[p].kind = "put" THEN Goto(p, "head_sha") /\ UNCHANGED result
     ELSE Finish(p, "ok")
  /\ UNCHANGED <<commits, head, index, work, op, at, attempts, pushed, got,
                 left, aux>>

\* Mutant: failed pushes are not counted.
PushFailedUncounted(p) ==
  /\ pc[p] = "push"
  /\ LossyNet \/ ~GitPushAllowed(CloneOf[p])
  /\ Goto(p, "refetch")
  /\ UNCHANGED <<git, clones, op, at, attempts, pushed, got, result, left, aux>>

\* push_with_retry: a failed push.  It was refused because it did not
\* fast-forward, or the network failed: before the remote moved, or after it
\* did, with the answer lost.
PushFailed(p) ==
  LET c == CloneOf[p] IN
  /\ pc[p] = "push"
  /\ \/ ~GitPushAllowed(c) /\ UNCHANGED remote
     \/ LossyNet /\ UNCHANGED remote
     \/ LossyNet /\ GitPushAllowed(c) /\ remote' = head[c]
  /\ attempts' = [attempts EXCEPT ![p] = @ + 1]
  /\ Goto(p, "refetch")
  /\ UNCHANGED <<commits, clones, op, at, pushed, got, result, left, aux>>

\* push_with_retry: fetch, and rebuild the change on the new remote state; with
\* the remote branch still unborn there is nothing to rebuild on.
RefetchAfterFailure(p) ==
  LET c == CloneOf[p] IN
  /\ pc[p] = "refetch"
  /\ GitFetch(c)
  /\ IF origin'[c] # 0 THEN Goto(p, "checkout") /\ UNCHANGED result
     ELSE PushOrGiveUp(p, attempts[p])
  /\ UNCHANGED <<op, at, attempts, pushed, got, left>>

\* put_many: the commit the successful push landed, as HEAD says it.
HeadSha(p) ==
  /\ pc[p] = "head_sha"
  /\ pushed' = [pushed EXCEPT ![p] = head[CloneOf[p]]]
  /\ Goto(p, "verify_fetch")
  /\ UNCHANGED <<git, clones, op, at, attempts, got, result, left, aux>>

VerifyFetch(p) ==
  /\ pc[p] = "verify_fetch"
  /\ GitFetch(CloneOf[p])
  /\ Goto(p, "verify")
  /\ UNCHANGED <<op, at, attempts, pushed, got, result, left>>

\* commit_carries: artifact keys by existence, every other key by its bytes.
CommitCarries(x, k, v) ==
  /\ x # 0
  /\ IF k \in ArtifactKey THEN TreeOf(x)[k] # Absent ELSE TreeOf(x)[k] = v

\* Mutant: that the pushed commit is on the branch is taken for enough.
CommitLanded(p, e) == pushed[p] \in Anc(origin[CloneOf[p]])

\* verify_published: each entry is at the tip, or was superseded after our
\* commit, which carries it, landed.
EntryVerified(p, e) ==
  LET tip == origin[CloneOf[p]] IN
  \/ CommitCarries(tip, e[1], e[2])
  \/ CommitCarries(pushed[p], e[1], e[2]) /\ pushed[p] \in Anc(tip)

VerifyPublished(p) ==
  /\ pc[p] = "verify"
  /\ Finish(p, IF \A j \in 1..Len(op[p].entries) : EntryVerified(p, op[p].entries[j])
               THEN "ok" ELSE "err")
  /\ UNCHANGED <<git, clones, op, at, attempts, pushed, got, left, aux>>

\* get: fetch, ...
GetFetch(p) ==
  /\ pc[p] = "get_fetch"
  /\ GitFetch(CloneOf[p])
  /\ Goto(p, "get_checkout")
  /\ UNCHANGED <<op, at, attempts, pushed, got, result, left>>


\* ... report a cache miss, or check the branch out so that LFS smudges it, ...
GetCheckout(p) ==
  LET c == CloneOf[p] IN
  /\ pc[p] = "get_checkout"
  /\ IF TreeOf(origin[c])[Entry(p)[1]] # Absent /\ GitCheckoutAllowed(c)
     THEN GitCheckout(c) /\ Goto(p, "get_read") /\ UNCHANGED result
     ELSE Finish(p, "err") /\ UNCHANGED <<git, clones, aux>>
  /\ UNCHANGED <<op, at, attempts, pushed, got, left>>

\* ... and read the file from disk.
GetRead(p) ==
  LET bytes == work[CloneOf[p]][Entry(p)[1]] IN
  /\ pc[p] = "get_read"
  /\ got' = [got EXCEPT ![p] = bytes]
  /\ Finish(p, IF bytes = Absent THEN "err" ELSE "ok")
  /\ UNCHANGED <<git, clones, op, at, attempts, pushed, left, aux>>

\* The process is killed, or a command fails (disk full, index.lock held) and
\* `?` returns: either way the clone stays as the last command left it.
Abort(p) ==
  /\ AllowAbort
  /\ pc[p] # "idle"
  /\ Finish(p, "err")
  /\ broken' = [broken EXCEPT ![CloneOf[p]] = TRUE]
  /\ UNCHANGED <<git, clones, op, at, attempts, pushed, got, left, asked>>

------------------------------------------------------------------------------
Init ==
  /\ commits = <<>>
  /\ remote = 0
  /\ head = [c \in Clone |-> 0]
  /\ origin = [c \in Clone |-> 0]
  /\ index = [c \in Clone |-> EmptyTree]
  /\ work = [c \in Clone |-> EmptyTree]
  /\ pc = [p \in Proc |-> "idle"]
  /\ op = [p \in Proc |-> CHOOSE o \in Op : TRUE]
  /\ at = [p \in Proc |-> 1]
  /\ attempts = [p \in Proc |-> 0]
  /\ pushed = [p \in Proc |-> 0]
  /\ got = [p \in Proc |-> Absent]
  /\ result = [p \in Proc |-> "none"]
  /\ left = MaxOps
  /\ asked = [c \in Clone |-> {}]
  /\ broken = [c \in Clone |-> FALSE]

Step(p) == \/ Fetch(p) \/ CheckoutBranchAtOrigin(p) \/ EnsureLfsPattern(p)
           \/ WriteFile(p) \/ GitAdd(p) \/ GitRm(p) \/ CommitStaged(p)
           \/ PushAccepted(p) \/ PushFailed(p) \/ RefetchAfterFailure(p)
           \/ HeadSha(p) \/ VerifyFetch(p) \/ VerifyPublished(p)
           \/ GetFetch(p) \/ GetCheckout(p) \/ GetRead(p)

Next == \E p \in Proc : Step(p) \/ Abort(p) \/ \E o \in Op : Start(p, o)

Spec == Init /\ [][Next]_vars

\* A process that runs a command keeps running: the operations never block on
\* one another, so weak fairness of each process is what the OS gives.
FairSpec == Spec /\ \A p \in Proc : WF_vars(Step(p))

------------------------------------------------------------------------------
(* Properties. *)

Label == {"idle", "fetch", "checkout", "already", "write", "add", "rm", "commit",
          "push", "refetch", "head_sha", "verify_fetch", "verify",
          "get_fetch", "get_checkout", "get_read"}

CommitId == 0..Len(commits)

\* The state of the clones, the branch and the processes is well formed.
TypeOK ==
  /\ commits \in Seq(Commit)
  /\ remote \in CommitId
  /\ head \in [Clone -> CommitId]
  /\ origin \in [Clone -> CommitId]
  /\ index \in [Clone -> Tree]
  /\ work \in [Clone -> Tree]
  /\ pc \in [Proc -> Label]
  /\ op \in [Proc -> Op]
  /\ at \in [Proc -> Nat \ {0}]
  /\ \A p \in Proc : at[p] <= Len(op[p].entries)
  /\ attempts \in [Proc -> 0..PushRetries]
  /\ pushed \in [Proc -> CommitId]
  /\ got \in [Proc -> Content]
  /\ result \in [Proc -> {"none", "ok", "err"}]
  /\ left \in [Proc -> Nat]
  /\ asked \in [Clone -> SUBSET (Key \X (Val \cup {Absent}))]
  /\ broken \in [Clone -> BOOLEAN]

\* The branch held, at some point of its history, something the code accepts as
\* entry e.
Landed(e) == \E x \in Anc(remote) : CommitCarries(x, e[1], e[2])

Succeeded(p, kind) == result[p] = "ok" /\ op[p].kind = kind

\* "Never Ok without our change published" (push_with_retry, verify_published):
\* whenever put_many returned Ok, each of its entries really was on the branch,
\* whatever other processes, clones and the network did in between.
PutOkLanded ==
  \A p \in Proc : Succeeded(p, "put") =>
     \A j \in 1..Len(op[p].entries) : Landed(op[p].entries[j])

\* The same with the bytes of artifacts compared too, which commit_carries does
\* not do: holds as long as no two processes share a working clone.
PutOkExact ==
  \A p \in Proc : Succeeded(p, "put") =>
     \A j \in 1..Len(op[p].entries) : \E x \in Anc(remote) :
        TreeOf(x)[op[p].entries[j][1]] = op[p].entries[j][2]

\* push_one publishes the artifact and the refs/<branch> pointer "in one
\* commit/push": no reader of the branch ever sees a pointer without its artifact.
PointerHasArtifact ==
  \A k \in Key \ (ArtifactKey \cup {AttrsKey}) :
     LET v == TreeOf(remote)[k] IN
     v \in DOMAIN PointsTo => TreeOf(remote)[PointsTo[v]] # Absent

\* get returns bytes that are on the branch at that key, never bytes that were
\* only written locally, provided its clone is its own and was never left
\* half-way by an aborted operation.
Owned(p) == \A q \in Proc \ {p} : CloneOf[q] # CloneOf[p]
GotPublished(p) == \E x \in Anc(remote) : TreeOf(x)[Entry(p)[1]] = got[p]
GetFromCleanClone ==
  \A p \in Proc : Succeeded(p, "get") /\ Owned(p) /\ ~broken[CloneOf[p]]
     => GotPublished(p)

\* The cache branch behaves like the key/value cache of GitCache: every step of
\* the branch only changes keys that the pushing machine was asked to write, to
\* what it was asked, and .gitattributes only gains lines.
Cache == INSTANCE GitCache WITH tree <- TreeOf(remote)
ImplementsCache == Cache!Spec

\* Every operation returns: the retry loop of push_with_retry is bounded and no
\* process waits for another.
EveryOpReturns == \A p \in Proc : pc[p] # "idle" ~> pc[p] = "idle"

\* What a successful put or get reports is what is on the branch: the bytes put are published, the
\* bytes got were, across lost answers, failed fetches and kills (push_with_retry, get).
ResultsExact == PutOkExact /\ GetFromCleanClone
=============================================================================
