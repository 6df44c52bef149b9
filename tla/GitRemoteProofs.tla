--------------------------- MODULE GitRemoteProofs ---------------------------
(***************************************************************************)
(* What the git backend guarantees for any number of processes, clones,    *)
(* keys, operations and retries, with or without a lossy network and       *)
(* aborted operations: the cache branch only fast-forwards, put_many never *)
(* reports a success that the branch does not carry, and the branch is the *)
(* key/value cache of GitCache.  On clones that are not shared, put and    *)
(* get are exact to the byte, and no pointer lacks its artifact.           *)
(***************************************************************************)
EXTENDS GitRemote, TLAPS

\* The commit graph: every commit is its own ancestor, has only earlier
\* commits as ancestors, and has the ancestors of its ancestors.
GraphOK ==
  \A x \in 1..Len(commits) :
     /\ x \in commits[x].anc
     /\ commits[x].anc \subseteq 1..x
     /\ \A y \in commits[x].anc : commits[y].anc \subseteq commits[x].anc

\* A remote-tracking ref lags behind the branch, never ahead of it.
OriginOK == \A c \in Clone : origin[c] \in Anc(remote) \cup {0}

\* Where a process can be, given its operation and its failed pushes.
ControlOK ==
  \A p \in Proc :
     /\ pc[p] = "already" => op[p].kind = "attrs"
     /\ pc[p] \in {"get_fetch", "get_checkout", "get_read"} => op[p].kind = "get"
     /\ pc[p] \in {"push", "head_sha"} => attempts[p] < PushRetries

\* The inductive invariant.
IInv == TypeOK /\ GraphOK /\ OriginOK /\ ControlOK /\ PutOkLanded

------------------------------------------------------------------------------
(* Facts about the operators. *)

\* The tree and the ancestors of a commit are well typed (TreeOf, Anc).
LEMMA CommitTypes ==
  ASSUME TypeOK
  PROVE  \A x \in CommitId : TreeOf(x) \in Tree /\ Anc(x) \in SUBSET Nat
<1>1. EmptyTree \in Tree
  BY DEF EmptyTree, Tree, Content
<1>2. ASSUME NEW x \in CommitId \ {0}
      PROVE  commits[x].tree \in Tree /\ commits[x].anc \in SUBSET Nat
  <2>1. commits \in Seq(Commit)
    BY DEF TypeOK
  <2>2. x \in 1..Len(commits)
    BY <2>1 DEF CommitId
  <2>3. commits[x] \in Commit
    BY <2>1, <2>2
  <2> QED
    BY <2>3 DEF Commit
<1> QED
  BY <1>1, <1>2 DEF TreeOf, Anc

\* A tree whose key k gets a content that is legal there is a tree.
LEMMA TreeExcept ==
  ASSUME NEW t \in Tree, NEW k \in Key, NEW v \in Content,
         v \in {Absent} \cup (IF k = AttrsKey THEN SUBSET Val ELSE Val)
  PROVE  [t EXCEPT ![k] = v] \in Tree
BY DEF Tree

\* A tree put together key by key from two trees is a tree.
LEMMA TreeMerge ==
  ASSUME NEW t \in Tree, NEW u \in Tree, NEW K \in SUBSET Key
  PROVE  [k \in Key |-> IF k \in K THEN t[k] ELSE u[k]] \in Tree
BY DEF Tree

\* The entry a process is at is one of its operation's (put_many's slice).
LEMMA EntryType ==
  ASSUME TypeOK, NEW p \in Proc
  PROVE  /\ Entry(p)[1] \in Key
         /\ Entry(p)[2] \in Val \cup {Absent}
         /\ (Entry(p)[1] = AttrsKey) <=> (op[p].kind = "attrs")
         /\ op[p].kind \in {"put", "attrs"} => Entry(p)[2] \in Val
<1> DEFINE o == op[p]
<1>1. o \in Op /\ o.entries \in Seq(Key \X (Val \cup {Absent}))
  BY ConstantsAssumption DEF TypeOK
<1>2. at[p] \in 1..Len(o.entries)
  BY <1>1 DEF TypeOK
<1>3. o.entries[at[p]] \in Key \X (Val \cup {Absent})
  BY <1>1, <1>2
<1> QED
  BY <1>1, <1>2, <1>3, ConstantsAssumption DEF Entry
------------------------------------------------------------------------------
(* Type correctness. *)

\* GitFetch moves only the remote-tracking ref, to the branch.
LEMMA FetchType ==
  ASSUME TypeOK, NEW c \in Clone, GitFetch(c)
  PROVE  origin' \in [Clone -> CommitId]
BY DEF TypeOK, GitFetch

\* Both checkouts leave HEAD on a commit and whole trees in the index and on disk.
LEMMA CheckoutForceType ==
  ASSUME TypeOK, NEW c \in Clone, GitCheckoutForce(c)
  PROVE  /\ head' \in [Clone -> CommitId]
         /\ index' \in [Clone -> Tree]
         /\ work' \in [Clone -> Tree]
         /\ UNCHANGED <<commits, remote, origin, aux>>
<1> DEFINE target == TreeOf(origin[c])
           K == {k \in Key : target[k] = Absent /\ index[c][k] = Absent}
<1>1. target \in Tree /\ index[c] \in Tree /\ work[c] \in Tree /\ K \in SUBSET Key
  BY CommitTypes DEF TypeOK
<1>2. [k \in Key |-> IF k \in K THEN work[c][k] ELSE target[k]] \in Tree
  <2> HIDE DEF target, K
  <2> QED
    BY <1>1, TreeMerge
<1>3. work' = [work EXCEPT ![c] = [k \in Key |-> IF k \in K THEN work[c][k] ELSE target[k]]]
  BY DEF GitCheckoutForce
<1>4. /\ head' = [head EXCEPT ![c] = origin[c]]
      /\ index' = [index EXCEPT ![c] = target]
      /\ UNCHANGED <<commits, remote, origin, aux>>
  BY DEF GitCheckoutForce, git
<1> HIDE DEF target, K
<1> QED
  BY <1>1, <1>2, <1>3, <1>4 DEF TypeOK

LEMMA CheckoutType ==
  ASSUME TypeOK, NEW c \in Clone, GitCheckout(c)
  PROVE  /\ head' \in [Clone -> CommitId]
         /\ index' \in [Clone -> Tree]
         /\ work' \in [Clone -> Tree]
         /\ UNCHANGED <<commits, remote, origin, aux>>
<1> DEFINE target == TreeOf(origin[c])
           K == {k \in Key : KeepsLocal(c, k)}
           merged(mine) == [k \in Key |-> IF k \in K THEN mine[k] ELSE target[k]]
<1>1. target \in Tree /\ index[c] \in Tree /\ work[c] \in Tree /\ K \in SUBSET Key
  BY CommitTypes DEF TypeOK
<1>2. merged(index[c]) \in Tree /\ merged(work[c]) \in Tree
  <2> HIDE DEF target, K
  <2> QED
    BY <1>1, TreeMerge
<1>3. /\ head' = [head EXCEPT ![c] = origin[c]]
      /\ index' = [index EXCEPT ![c] = merged(index[c])]
      /\ work' = [work EXCEPT ![c] = merged(work[c])]
      /\ UNCHANGED <<commits, remote, origin, aux>>
  BY DEF GitCheckout, git
<1> HIDE DEF merged
<1> QED
  BY <1>1, <1>2, <1>3 DEF TypeOK

\* The initial state is well typed.
LEMMA InitType == Init => TypeOK
<1> SUFFICES ASSUME Init PROVE TypeOK
  OBVIOUS
<1>1. EmptyTree \in Tree
  BY DEF EmptyTree, Tree, Content
<1>2. commits \in Seq(Commit) /\ Len(commits) = 0
  BY DEF Init
<1>3. (CHOOSE o \in Op : TRUE) \in Op
  BY ConstantsAssumption
<1>4. \A o \in Op : Len(o.entries) \in Nat /\ 1 <= Len(o.entries)
  BY ConstantsAssumption
<1> QED
  BY <1>1, <1>2, <1>3, <1>4, ConstantsAssumption
  DEF Init, TypeOK, CommitId, Label, Content

\* Every step keeps the state well typed.
LEMMA NextType == TypeOK /\ ControlOK /\ [Next]_vars => TypeOK'
<1> SUFFICES ASSUME TypeOK, ControlOK, [Next]_vars PROVE TypeOK'
  OBVIOUS
<1>s. CASE UNCHANGED vars
  BY <1>s DEF TypeOK, CommitId, vars
<1>n. ASSUME NEW p \in Proc, Step(p) \/ Abort(p) \/ \E o \in Op : Start(p, o)
      PROVE  TypeOK'
  <2> DEFINE c == CloneOf[p]
  <2>c. c \in Clone
    BY ConstantsAssumption
  <2>0. CASE \E o \in Op : Start(p, o)
    <3>1. PICK o \in Op : Start(p, o)
      BY <2>0
    <3>2. /\ o.entries \in Seq(Key \X (Val \cup {Absent}))
          /\ Len(o.entries) >= 1
          /\ o.kind \in {"put", "remove", "attrs", "get"}
      BY ConstantsAssumption
    <3>3. First(o) \in Label
      BY <3>2 DEF First, Label
    <3>4. {o.entries[j] : j \in 1..Len(o.entries)} \subseteq Key \X (Val \cup {Absent})
      BY <3>2
    <3>5. asked' \in [Clone -> SUBSET (Key \X (Val \cup {Absent}))]
      BY <2>c, <3>1, <3>4 DEF Start, TypeOK
    <3>6. \A q \in Proc : at'[q] <= Len(op'[q].entries)
      BY <3>1, <3>2 DEF Start, TypeOK
    <3>7. /\ at' \in [Proc -> Nat \ {0}]
          /\ attempts' \in [Proc -> 0..PushRetries]
          /\ pushed' \in [Proc -> CommitId]
          /\ left' \in [Proc -> Nat]
      <4>1. 0 \in 0..PushRetries /\ 0 \in CommitId
        BY ConstantsAssumption DEF TypeOK, CommitId
      <4>2. left[p] - 1 \in Nat
        BY <3>1 DEF Start, TypeOK
      <4> QED
        BY <3>1, <4>1, <4>2 DEF Start, TypeOK
    <3>8. /\ pc' \in [Proc -> Label]
          /\ op' \in [Proc -> Op]
          /\ got' \in [Proc -> Content]
          /\ result' \in [Proc -> {"none", "ok", "err"}]
      BY <3>1, <3>3 DEF Start, Goto, TypeOK, Content
    <3>9. UNCHANGED <<commits, remote, head, origin, index, work, broken>>
      BY <3>1 DEF Start, git, clones
    <3>t. CommitId' = CommitId
      BY <3>9 DEF CommitId
    <3> QED
      BY <3>5, <3>6, <3>7, <3>8, <3>9, <3>t DEF TypeOK
  <2>1. CASE Fetch(p)
    BY <2>1, <2>c, FetchType DEF Fetch, GitFetch, Goto, TypeOK, CommitId, Label, git, aux
  <2>2. CASE CheckoutBranchAtOrigin(p)
    <3>1. /\ head' \in [Clone -> CommitId]
          /\ index' \in [Clone -> Tree]
          /\ work' \in [Clone -> Tree]
          /\ UNCHANGED <<commits, remote, origin, aux>>
      BY <2>2, <2>c, CheckoutForceType
      DEF CheckoutBranchAtOrigin, TypeOK, git, clones, aux
    <3>2. ApplyLabel(op[p]) \in Label
      BY DEF ApplyLabel, Label
    <3>3. at' \in [Proc -> Nat \ {0}] /\ \A q \in Proc : at'[q] <= Len(op'[q].entries)
      BY <2>2, ConstantsAssumption DEF CheckoutBranchAtOrigin, TypeOK
    <3> QED
      BY <2>2, <3>1, <3>2, <3>3 DEF CheckoutBranchAtOrigin, Goto, TypeOK, CommitId, aux
  <2>3. CASE EnsureLfsPattern(p)
    BY <2>3 DEF EnsureLfsPattern, Finish, Goto, TypeOK, CommitId, Label, git, clones, aux
  <2>4. CASE WriteFile(p)
    <3>1. op[p].kind = "attrs" => Lines(work[c][AttrsKey]) \in SUBSET Val
      BY <2>c, ConstantsAssumption DEF Lines, TypeOK, Tree
    <3>2. /\ Written(p) \in Content
          /\ Written(p) \in {Absent} \cup
               (IF Entry(p)[1] = AttrsKey THEN SUBSET Val ELSE Val)
      BY <3>1, EntryType DEF Written, Content
    <3>3. [work[c] EXCEPT ![Entry(p)[1]] = Written(p)] \in Tree
      BY <2>c, <3>2, EntryType, TreeExcept DEF TypeOK
    <3>4. work' \in [Clone -> Tree]
      BY <2>4, <2>c, <3>3 DEF WriteFile, TypeOK
    <3> QED
      BY <2>4, <3>4 DEF WriteFile, Goto, TypeOK, CommitId, Label, git, aux
  <2>5. CASE GitAdd(p)
    <3> DEFINE k == Entry(p)[1]
    <3>1. /\ k \in Key
          /\ work[c][k] \in Content
          /\ work[c][k] \in {Absent} \cup (IF k = AttrsKey THEN SUBSET Val ELSE Val)
      BY <2>c, EntryType DEF TypeOK, Tree
    <3>2. [index[c] EXCEPT ![k] = work[c][k]] \in Tree
      BY <2>c, <3>1, TreeExcept DEF TypeOK
    <3>3. index' \in [Clone -> Tree]
      BY <2>5, <2>c, <3>2 DEF GitAdd, TypeOK
    <3>4. \A q \in Proc : Len(op[q].entries) \in Nat
      BY ConstantsAssumption DEF TypeOK
    <3>5. at' \in [Proc -> Nat \ {0}] /\ \A q \in Proc : at'[q] <= Len(op'[q].entries)
      <4>1. /\ op' = op
            /\ \/ at' = at
               \/ at[p] < Len(op[p].entries) /\ at' = [at EXCEPT ![p] = @ + 1]
        BY <2>5 DEF GitAdd
      <4>0. /\ at \in [Proc -> Nat \ {0}]
            /\ \A q \in Proc : at[q] <= Len(op[q].entries)
        BY DEF TypeOK
      <4>2. at' \in [Proc -> Nat \ {0}]
        BY <4>0, <4>1
      <4>3. ASSUME NEW q \in Proc PROVE at'[q] <= Len(op[q].entries)
        BY <3>4, <4>0, <4>1
      <4> QED
        BY <4>1, <4>2, <4>3
    <3>6. pc' \in [Proc -> Label]
      <4>1. \E l \in Label : pc' = [pc EXCEPT ![p] = l]
        BY <2>5 DEF GitAdd, Goto, Label
      <4> QED
        BY <4>1 DEF TypeOK
    <3>7. UNCHANGED <<commits, remote, head, origin, work, op, attempts, pushed, got,
                      result, left, asked, broken>>
      BY <2>5 DEF GitAdd, git, aux
    <3>8. CommitId' = CommitId
      BY <3>7 DEF CommitId
    <3> QED
      BY <3>3, <3>5, <3>6, <3>7, <3>8 DEF TypeOK
  <2>6. CASE GitRm(p)
    <3>1. ASSUME NEW t \in Tree, NEW K
          PROVE  [k \in Key |-> IF k \in K THEN Absent ELSE t[k]] \in Tree
      BY DEF Tree, Content
    <3>2. index' \in [Clone -> Tree] /\ work' \in [Clone -> Tree]
      <4>1. index[c] \in Tree /\ work[c] \in Tree
        BY <2>c DEF TypeOK
      <4> DEFINE K == {k \in EntryKeys(op[p]) : index[c][k] # Absent}
                 without(t) == [k \in Key |-> IF k \in K THEN Absent ELSE t[k]]
      <4>2. \/ UNCHANGED <<index, work>>
            \/ /\ index' = [index EXCEPT ![c] = without(index[c])]
               /\ work' = [work EXCEPT ![c] = without(work[c])]
        BY <2>6 DEF GitRm
      <4>3. without(index[c]) \in Tree /\ without(work[c]) \in Tree
        BY <3>1, <4>1
      <4>4. index \in [Clone -> Tree] /\ work \in [Clone -> Tree]
        BY DEF TypeOK
      <4> HIDE DEF without
      <4> QED
        BY <2>c, <4>2, <4>3, <4>4
    <3>3. pc' \in [Proc -> Label] /\ result' \in [Proc -> {"none", "ok", "err"}]
      BY <2>6 DEF GitRm, Goto, Finish, Label, TypeOK
    <3> QED
      BY <2>6, <3>2, <3>3 DEF GitRm, TypeOK, CommitId, git, aux
  <2>7. CASE CommitStaged(p)
    <3>1. pc' \in [Proc -> Label] /\ result' \in [Proc -> {"none", "ok", "err"}]
      BY <2>7 DEF CommitStaged, PushOrGiveUp, Goto, Finish, Label, TypeOK
    <3>2. CASE index[c] = TreeOf(head[c])
      BY <2>7, <3>1, <3>2 DEF CommitStaged, TypeOK, CommitId, aux
    <3>3. CASE index[c] # TreeOf(head[c])
      <4> DEFINE new == Len(commits) + 1
                 commit == [tree |-> index[c], anc |-> Anc(head[c]) \cup {new}]
      <4>1. commits \in Seq(Commit) /\ Len(commits) \in Nat
        BY DEF TypeOK
      <4>2. commit \in Commit
        BY <2>c, <4>1, CommitTypes DEF Commit, TypeOK
      <4>3. commits' = Append(commits, commit) /\ head' = [head EXCEPT ![c] = new]
        BY <2>7, <3>3 DEF CommitStaged
      <4> HIDE DEF commit
      <4>4. commits' \in Seq(Commit) /\ Len(commits') = new
        BY <4>1, <4>2, <4>3
      <4>5. CommitId \subseteq CommitId' /\ new \in CommitId'
        BY <4>1, <4>4 DEF CommitId
      <4>6. head' \in [Clone -> CommitId']
        BY <2>c, <4>3, <4>5 DEF TypeOK
      <4> QED
        BY <2>7, <3>1, <4>4, <4>5, <4>6 DEF CommitStaged, TypeOK, aux
    <3> QED
      BY <3>2, <3>3
  <2>8. CASE PushAccepted(p)
    BY <2>8, <2>c DEF PushAccepted, Finish, Goto, TypeOK, CommitId, Label, aux
  <2>9. CASE PushFailed(p)
    <3>1. attempts' \in [Proc -> 0..PushRetries]
      BY <2>9, ConstantsAssumption DEF PushFailed, ControlOK, TypeOK
    <3>2. remote' \in CommitId
      BY <2>9, <2>c DEF PushFailed, TypeOK
    <3> QED
      BY <2>9, <3>1, <3>2 DEF PushFailed, Goto, TypeOK, CommitId, Label, clones, aux
  <2>10. CASE RefetchAfterFailure(p)
    BY <2>10, <2>c, FetchType
    DEF RefetchAfterFailure, GitFetch, PushOrGiveUp, Finish, Goto, TypeOK, CommitId,
        Label, git, aux
  <2>11. CASE HeadSha(p)
    BY <2>11, <2>c DEF HeadSha, Goto, TypeOK, CommitId, Label, git, clones, aux
  <2>12. CASE VerifyFetch(p)
    BY <2>12, <2>c, FetchType
    DEF VerifyFetch, GitFetch, Goto, TypeOK, CommitId, Label, git, aux
  <2>13. CASE VerifyPublished(p)
    BY <2>13 DEF VerifyPublished, Finish, TypeOK, CommitId, Label, git, clones, aux
  <2>14. CASE GetFetch(p)
    BY <2>14, <2>c, FetchType
    DEF GetFetch, GitFetch, Goto, TypeOK, CommitId, Label, git, aux
  <2>15. CASE GetCheckout(p)
    <3>1. /\ head' \in [Clone -> CommitId]
          /\ index' \in [Clone -> Tree]
          /\ work' \in [Clone -> Tree]
          /\ UNCHANGED <<commits, remote, origin, aux>>
      BY <2>15, <2>c, CheckoutType DEF GetCheckout, TypeOK, git, clones, aux
    <3>2. pc' \in [Proc -> Label] /\ result' \in [Proc -> {"none", "ok", "err"}]
      BY <2>15 DEF GetCheckout, Goto, Finish, Label, TypeOK
    <3> QED
      BY <2>15, <3>1, <3>2 DEF GetCheckout, TypeOK, CommitId, aux
  <2>16. CASE GetRead(p)
    <3>1. work[c][Entry(p)[1]] \in Content
      BY <2>c, EntryType DEF TypeOK, Tree
    <3> QED
      BY <2>16, <3>1 DEF GetRead, Finish, Label, TypeOK, CommitId, git, clones, aux
  <2>17. CASE Abort(p)
    BY <2>17, <2>c DEF Abort, Finish, TypeOK, CommitId, Label, git, clones
  <2> QED
    BY <1>n, <2>0, <2>1, <2>2, <2>3, <2>4, <2>5, <2>6, <2>7, <2>8, <2>9, <2>10,
       <2>11, <2>12, <2>13, <2>14, <2>15, <2>16, <2>17 DEF Step
<1> QED
  BY <1>s, <1>n DEF Next

------------------------------------------------------------------------------
(* The commit graph and the refs into it. *)

\* All a step does to the graph: at most one commit is added, on top of a HEAD;
\* or the branch moves to a HEAD it fast-forwards to; a remote-tracking ref
\* moves only to where the branch is.
NewCommit(c) == [tree |-> index[c], anc |-> Anc(head[c]) \cup {Len(commits) + 1}]
GraphStep ==
  /\ \/ commits' = commits
     \/ remote' = remote /\ \E c \in Clone : commits' = Append(commits, NewCommit(c))
  /\ \/ remote' = remote
     \/ commits' = commits /\ \E c \in Clone : GitPushAllowed(c) /\ remote' = head[c]
  /\ \A c \in Clone : origin'[c] = origin[c] \/ origin'[c] = remote'

LEMMA NextGraph == TypeOK /\ [Next]_vars => GraphStep
<1> SUFFICES ASSUME TypeOK, [Next]_vars PROVE GraphStep
  OBVIOUS
<1>s. CASE UNCHANGED vars
  BY <1>s DEF vars, GraphStep
<1>n. ASSUME NEW p \in Proc, Step(p) \/ Abort(p) \/ \E o \in Op : Start(p, o)
      PROVE  GraphStep
  <2> DEFINE c == CloneOf[p]
  <2>c. c \in Clone
    BY ConstantsAssumption
  <2>f. origin \in [Clone -> CommitId]
    BY DEF TypeOK
  <2>g. ASSUME GitFetch(c) PROVE GraphStep
    BY <2>c, <2>f, <2>g DEF GitFetch, GraphStep, git
  <2>1. CASE Fetch(p) \/ RefetchAfterFailure(p) \/ VerifyFetch(p) \/ GetFetch(p)
    BY <2>1, <2>g DEF Fetch, RefetchAfterFailure, VerifyFetch, GetFetch
  <2>2. CASE \/ CheckoutBranchAtOrigin(p) \/ EnsureLfsPattern(p) \/ WriteFile(p)
             \/ GitAdd(p) \/ GitRm(p) \/ HeadSha(p) \/ VerifyPublished(p)
             \/ GetCheckout(p) \/ GetRead(p) \/ Abort(p) \/ \E o \in Op : Start(p, o)
    <3>1. UNCHANGED <<commits, remote, origin>>
      BY <2>2 DEF CheckoutBranchAtOrigin, GitCheckoutForce, EnsureLfsPattern, WriteFile,
                  GitAdd, GitRm, HeadSha, VerifyPublished, GetCheckout, GitCheckout,
                  GetRead, Abort, Start, git, clones
    <3> QED
      BY <3>1 DEF GraphStep
  <2>3. CASE CommitStaged(p)
    BY <2>3, <2>c DEF CommitStaged, GraphStep, NewCommit
  <2>4. CASE PushAccepted(p)
    BY <2>4, <2>c, <2>f DEF PushAccepted, GraphStep
  <2>5. CASE PushFailed(p)
    BY <2>5, <2>c DEF PushFailed, GraphStep, clones
  <2> QED
    BY <1>n, <2>1, <2>2, <2>3, <2>4, <2>5 DEF Step
<1> QED
  BY <1>s, <1>n DEF Next

\* Commits are immutable, and HEADs and refs stay inside the graph.
LEMMA CommitsGrow ==
  ASSUME TypeOK, GraphStep
  PROVE  /\ Len(commits) \in Nat
         /\ Len(commits) <= Len(commits')
         /\ \A x \in 1..Len(commits) : commits'[x] = commits[x]
<1>1. commits \in Seq(Commit) /\ Len(commits) \in Nat
  BY DEF TypeOK
<1>2. CASE commits' = commits
  BY <1>1, <1>2
<1>3. ASSUME NEW c \in Clone, commits' = Append(commits, NewCommit(c))
      PROVE  /\ Len(commits) <= Len(commits')
             /\ \A x \in 1..Len(commits) : commits'[x] = commits[x]
  BY <1>1, <1>3
<1> QED
  BY <1>1, <1>2, <1>3 DEF GraphStep

\* The graph stays well formed.
LEMMA NextGraphOK ==
  ASSUME TypeOK, GraphOK, GraphStep
  PROVE  GraphOK'
<1>1. CASE commits' = commits
  BY <1>1 DEF GraphOK
<1>2. ASSUME NEW c \in Clone, commits' = Append(commits, NewCommit(c))
      PROVE  GraphOK'
  <2> DEFINE n == Len(commits)
  <2>1. commits \in Seq(Commit) /\ n \in Nat /\ head[c] \in 0..n
    BY DEF TypeOK, CommitId
  <2>2. /\ Len(commits') = n + 1
        /\ commits'[n + 1] = NewCommit(c)
        /\ \A x \in 1..n : commits'[x] = commits[x]
    BY <1>2, <2>1
  <2>3. /\ Anc(head[c]) \subseteq 1..n
        /\ \A y \in Anc(head[c]) : commits[y].anc \subseteq Anc(head[c])
    BY <2>1 DEF GraphOK, Anc
  <2>4. commits'[n + 1].anc = Anc(head[c]) \cup {n + 1}
    BY <2>2 DEF NewCommit
  <2> SUFFICES ASSUME NEW x \in 1..n + 1
               PROVE  /\ x \in commits'[x].anc
                      /\ commits'[x].anc \subseteq 1..x
                      /\ \A y \in commits'[x].anc : commits'[y].anc \subseteq commits'[x].anc
    BY <2>2 DEF GraphOK
  <2>5. CASE x = n + 1
    BY <2>1, <2>2, <2>3, <2>4, <2>5
  <2>6. CASE x \in 1..n
    BY <2>1, <2>2, <2>6 DEF GraphOK
  <2> QED
    BY <2>1, <2>5, <2>6
<1> QED
  BY <1>1, <1>2 DEF GraphStep

\* The history of the branch only grows.
LEMMA HistoryGrows ==
  ASSUME TypeOK, GraphOK, GraphStep
  PROVE  Anc(remote) \subseteq Anc(remote)'
<1>1. remote \in CommitId
  BY DEF TypeOK
<1>2. CASE remote' = remote
  BY <1>1, <1>2, CommitsGrow DEF Anc, CommitId
<1>3. ASSUME commits' = commits, NEW c \in Clone, GitPushAllowed(c), remote' = head[c]
      PROVE  Anc(remote) \subseteq Anc(remote)'
  <2>1. head[c] \in 1..Len(commits) /\ remote \in commits[head[c]].anc \cup {0}
    BY <1>3 DEF TypeOK, CommitId, GitPushAllowed, Anc
  <2>2. Anc(remote) \subseteq commits[head[c]].anc
    BY <2>1 DEF GraphOK, Anc
  <2> QED
    BY <1>3, <2>1, <2>2 DEF Anc
<1> QED
  BY <1>2, <1>3 DEF GraphStep

\* The branch is in its own history.
LEMMA RemoteInHistory == TypeOK /\ GraphOK => remote \in Anc(remote) \cup {0}
BY DEF TypeOK, GraphOK, Anc, CommitId

\* A remote-tracking ref stays behind the branch.
LEMMA NextOriginOK ==
  ASSUME TypeOK, TypeOK', GraphOK, GraphOK', GraphStep, OriginOK
  PROVE  OriginOK'
<1>1. remote' \in Anc(remote)' \cup {0}
  BY DEF TypeOK, GraphOK, Anc, CommitId
<1> QED
  BY <1>1, HistoryGrows DEF OriginOK, GraphStep

------------------------------------------------------------------------------
(* The processes. *)

\* Each process stays where its operation and its failed pushes allow.
LEMMA NextControl == TypeOK /\ ControlOK /\ [Next]_vars => ControlOK'
<1> SUFFICES ASSUME TypeOK, ControlOK, [Next]_vars PROVE ControlOK'
  OBVIOUS
<1>s. CASE UNCHANGED vars
  BY <1>s DEF vars, ControlOK
<1>n. ASSUME NEW p \in Proc, Step(p) \/ Abort(p) \/ \E o \in Op : Start(p, o)
      PROVE  ControlOK'
  <2>t. pc \in [Proc -> Label] /\ op \in [Proc -> Op] /\ attempts \in [Proc -> 0..PushRetries]
    BY DEF TypeOK
  <2>0. CASE \E o \in Op : Start(p, o)
    <3>1. PICK o \in Op : Start(p, o)
      BY <2>0
    <3>2. o.kind \in {"put", "remove", "attrs", "get"}
      BY ConstantsAssumption
    <3> QED
      BY <2>t, <3>1, <3>2 DEF Start, Goto, First, ControlOK
  <2>1. CASE Fetch(p) \/ CheckoutBranchAtOrigin(p) \/ EnsureLfsPattern(p)
    BY <2>1, <2>t DEF Fetch, CheckoutBranchAtOrigin, EnsureLfsPattern, ApplyLabel,
                      Goto, Finish, ControlOK
  <2>2. CASE WriteFile(p) \/ GitAdd(p) \/ GitRm(p)
    BY <2>2, <2>t DEF WriteFile, GitAdd, GitRm, Goto, Finish, ControlOK
  <2>3. CASE CommitStaged(p) \/ RefetchAfterFailure(p)
    BY <2>3, <2>t DEF CommitStaged, RefetchAfterFailure, PushOrGiveUp, Goto, Finish, ControlOK
  <2>4. CASE PushAccepted(p) \/ HeadSha(p) \/ VerifyFetch(p) \/ VerifyPublished(p)
    BY <2>4, <2>t DEF PushAccepted, HeadSha, VerifyFetch, VerifyPublished, Goto, Finish,
                      ControlOK
  <2>5. CASE PushFailed(p)
    BY <2>5, <2>t DEF PushFailed, Goto, ControlOK
  <2>6. CASE GetFetch(p) \/ GetCheckout(p) \/ GetRead(p) \/ Abort(p)
    BY <2>6, <2>t DEF GetFetch, GetCheckout, GetRead, Abort, Goto, Finish, ControlOK
  <2> QED
    BY <1>n, <2>0, <2>1, <2>2, <2>3, <2>4, <2>5, <2>6 DEF Step
<1> QED
  BY <1>s, <1>n DEF Next

\* put_many reports Ok in one place only: after verify_published accepted every
\* entry, in a step that leaves the branch alone.
LEMMA OkOnlyVerified ==
  ASSUME TypeOK, ControlOK, [Next]_vars, NEW q \in Proc, Succeeded(q, "put")'
  PROVE  /\ op'[q] = op[q]
         /\ \/ Succeeded(q, "put")
            \/ /\ UNCHANGED <<commits, remote>>
               /\ \A j \in 1..Len(op[q].entries) : EntryVerified(q, op[q].entries[j])
<1> DEFINE Goal == /\ op'[q] = op[q]
                   /\ \/ Succeeded(q, "put")
                      \/ /\ UNCHANGED <<commits, remote>>
                         /\ \A j \in 1..Len(op[q].entries) : EntryVerified(q, op[q].entries[j])
<1>t. pc \in [Proc -> Label] /\ op \in [Proc -> Op] /\ result \in [Proc -> {"none", "ok", "err"}]
  BY DEF TypeOK
<1>s. CASE UNCHANGED vars
  BY <1>s DEF vars, Succeeded
<1>n. ASSUME NEW p \in Proc, Step(p) \/ Abort(p) \/ \E o \in Op : Start(p, o)
      PROVE  Goal
  <2>0. ASSUME UNCHANGED <<op, result>> PROVE Goal
    BY <2>0 DEF Succeeded
  <2>e. ASSUME op' = op, \/ result' = [result EXCEPT ![p] = "err"]
                         \/ result' = [result EXCEPT ![p] = "ok"] /\ op[p].kind # "put"
                         \/ result' = result
        PROVE  Goal
    BY <1>t, <2>e DEF Succeeded
  <2>1. CASE \E o \in Op : Start(p, o)
    BY <2>1, <1>t DEF Start, Succeeded
  <2>2. CASE \/ Fetch(p) \/ CheckoutBranchAtOrigin(p) \/ WriteFile(p) \/ GitAdd(p)
             \/ PushFailed(p) \/ HeadSha(p) \/ VerifyFetch(p) \/ GetFetch(p)
    <3>1. UNCHANGED <<op, result>>
      BY <2>2 DEF Fetch, CheckoutBranchAtOrigin, WriteFile, GitAdd, PushFailed, HeadSha,
                  VerifyFetch, GetFetch
    <3> QED
      BY <2>0, <3>1
  <2>3. CASE EnsureLfsPattern(p)
    BY <2>3, <2>e DEF EnsureLfsPattern, Finish, ControlOK
  <2>4. CASE GitRm(p) \/ GetCheckout(p) \/ Abort(p)
    BY <2>4, <2>e DEF GitRm, GetCheckout, Abort, Finish
  <2>5. CASE CommitStaged(p) \/ RefetchAfterFailure(p)
    BY <2>5, <2>e DEF CommitStaged, RefetchAfterFailure, PushOrGiveUp, Finish
  <2>6. CASE PushAccepted(p)
    BY <2>6, <2>e DEF PushAccepted, Finish
  <2>7. CASE GetRead(p)
    BY <2>7, <2>e DEF GetRead, Finish, ControlOK
  <2>8. CASE VerifyPublished(p)
    BY <2>8, <1>t DEF VerifyPublished, Finish, Succeeded, git
  <2> QED
    BY <1>n, <2>1, <2>2, <2>3, <2>4, <2>5, <2>6, <2>7, <2>8 DEF Step
<1> QED
  BY <1>s, <1>n DEF Next

\* What verify_published accepts is in the history of the branch.
LEMMA VerifiedLanded ==
  ASSUME TypeOK, GraphOK, OriginOK, NEW q \in Proc, NEW e, EntryVerified(q, e)
  PROVE  Landed(e)
<1> DEFINE tip == origin[CloneOf[q]]
<1>1. tip \in Anc(remote) \cup {0}
  BY ConstantsAssumption DEF OriginOK
<1>2. tip # 0
  BY DEF EntryVerified, CommitCarries, Anc
<1>3. Anc(tip) \subseteq Anc(remote)
  BY <1>1, <1>2 DEF TypeOK, GraphOK, CommitId, Anc
<1> QED
  BY <1>1, <1>2, <1>3 DEF EntryVerified, Landed

\* What landed stays landed.
LEMMA LandedStays ==
  ASSUME TypeOK, GraphOK, GraphStep, NEW e, Landed(e)
  PROVE  \E x \in Anc(remote)' : CommitCarries(x, e[1], e[2])'
<1>1. PICK x \in Anc(remote) : CommitCarries(x, e[1], e[2])
  BY DEF Landed
<1>2. x \in 1..Len(commits)
  BY <1>1 DEF TypeOK, GraphOK, CommitId, Anc
<1>3. commits'[x] = commits[x] /\ x \in Anc(remote)'
  BY <1>1, <1>2, CommitsGrow, HistoryGrows
<1> QED
  BY <1>1, <1>2, <1>3 DEF CommitCarries, TreeOf

\* Success of put_many keeps meaning that its entries landed.
LEMMA NextPutOk ==
  ASSUME TypeOK, GraphOK, OriginOK, ControlOK, PutOkLanded, GraphStep, [Next]_vars
  PROVE  PutOkLanded'
<1> SUFFICES ASSUME NEW q \in Proc, Succeeded(q, "put")',
                    NEW j \in 1..Len(op'[q].entries)
             PROVE  Landed(op[q].entries[j])'
  BY DEF PutOkLanded
<1>1. op'[q] = op[q]
  BY OkOnlyVerified
<1>2. Landed(op[q].entries[j])
  BY <1>1, OkOnlyVerified, VerifiedLanded DEF PutOkLanded
<1>3. PICK e : e = op[q].entries[j]
  OBVIOUS
<1>4. \E x \in Anc(remote)' : CommitCarries(x, e[1], e[2])'
  BY <1>2, <1>3, LandedStays
<1> QED
  BY <1>1, <1>3, <1>4 DEF Landed

------------------------------------------------------------------------------
(* The results. *)

\* The inductive invariant holds of every behaviour.
THEOREM Invariance == Spec => []IInv
<1>1. Init => IInv
  <2> SUFFICES ASSUME Init PROVE IInv
    OBVIOUS
  <2>1. GraphOK /\ OriginOK /\ ControlOK /\ PutOkLanded
    BY DEF Init, GraphOK, OriginOK, ControlOK, PutOkLanded, Succeeded
  <2> QED
    BY <2>1, InitType DEF IInv
<1>2. IInv /\ [Next]_vars => IInv'
  <2> SUFFICES ASSUME IInv, [Next]_vars PROVE IInv'
    OBVIOUS
  <2> USE DEF IInv
  <2>1. TypeOK'
    BY NextType
  <2>2. GraphStep
    BY NextGraph
  <2>3. GraphOK'
    BY <2>2, NextGraphOK
  <2>4. OriginOK'
    BY <2>1, <2>2, <2>3, NextOriginOK
  <2>5. ControlOK'
    BY NextControl
  <2>6. PutOkLanded'
    BY <2>2, NextPutOk
  <2> QED
    BY <2>1, <2>3, <2>4, <2>5, <2>6
<1> QED
  BY <1>1, <1>2, PTL DEF Spec

\* The state of clones, branch and processes of remote.rs is always well formed.
THEOREM TypeCorrect == Spec => []TypeOK
BY Invariance, PTL DEF IInv

\* put_many never returns Ok unless each of its entries was really published,
\* for any number of racing processes, shared clones, losses and aborts.
THEOREM PutOkIsPublished == Spec => []PutOkLanded
BY Invariance, PTL DEF IInv

------------------------------------------------------------------------------
(* The branch as a cache: GitRemote implements GitCache. *)

\* A machine that was asked for A may turn content `old` of key k into `new`.
Reaches(A, k, old, new) ==
  \/ new = old
  \/ IF k = AttrsKey
     THEN \E added \in SUBSET {r[2] : r \in {q \in A : q[1] = AttrsKey}} :
             new = Lines(old) \cup added
     ELSE <<k, new>> \in A

\* What was asked of a clone: of .gitattributes only lines.
Requests == {A \in SUBSET (Key \X (Val \cup {Absent})) : \A r \in A : r[1] = AttrsKey => r[2] \in Val}

LEMMA ReachesGrows ==
  ASSUME NEW A, NEW B, A \subseteq B, NEW k, NEW old, NEW new, Reaches(A, k, old, new)
  PROVE  Reaches(B, k, old, new)
<1>1. {r[2] : r \in {q \in A : q[1] = AttrsKey}} \subseteq {r[2] : r \in {q \in B : q[1] = AttrsKey}}
  OBVIOUS
<1> QED BY <1>1 DEF Reaches

LEMMA ReachesTransitive ==
  ASSUME NEW A \in Requests, NEW k \in Key, NEW t \in Tree, NEW u, NEW v,
         Reaches(A, k, t[k], u), Reaches(A, k, u, v)
  PROVE  Reaches(A, k, t[k], v)
<1> DEFINE lines == {r[2] : r \in {q \in A : q[1] = AttrsKey}}
<1>1. lines \subseteq Val
  BY DEF Requests
<1>2. CASE u = t[k] \/ v = u
  BY <1>2 DEF Reaches
<1>3. CASE k # AttrsKey
  BY <1>3 DEF Reaches
<1>4. ASSUME k = AttrsKey, u # t[k], v # u PROVE Reaches(A, k, t[k], v)
  <2>1. t[k] \in {Absent} \cup SUBSET Val
    BY <1>4 DEF Tree
  <2>2. PICK more \in SUBSET lines : u = Lines(t[k]) \cup more
    BY <1>4 DEF Reaches
  <2>3. PICK evenmore \in SUBSET lines : v = Lines(u) \cup evenmore
    BY <1>4 DEF Reaches
  <2>4. Lines(t[k]) \subseteq Val
    BY <2>1 DEF Lines
  <2>5. u \in SUBSET Val
    BY <1>1, <2>2, <2>4
  <2>6. Lines(u) = u
    BY <2>5, AbsentAssumption DEF Lines
  <2>7. v = Lines(t[k]) \cup (more \cup evenmore) /\ more \cup evenmore \in SUBSET lines
    BY <2>2, <2>3, <2>6
  <2> HIDE DEF lines
  <2>8. \E added \in SUBSET lines : v = Lines(t[k]) \cup added
    BY <2>7
  <2> QED BY <1>4, <2>8 DEF Reaches, lines
<1> QED BY <1>2, <1>3, <1>4

\* The commits that the branch, on its way to clone c's HEAD, may be at.
Bases(c) == {x \in Anc(head[c]) \cup {0} : x = remote \/ x \notin Anc(remote) \cup {0}}

\* A commit two clones have in their histories was published.
LocalOK == \A c, d \in Clone : c # d => Anc(head[c]) \cap Anc(head[d]) \subseteq Anc(remote)

\* What a clone was asked for, and by whom.
AskedOK ==
  /\ \A c \in Clone : asked[c] \in Requests
  /\ \A p \in Proc : pc[p] # "idle" /\ op[p].kind # "get" =>
        \A j \in 1..Len(op[p].entries) : op[p].entries[j] \in asked[CloneOf[p]]

\* The files, the index and HEAD of a clone are away from each other, and HEAD from the
\* branch it would fast-forward, only by what the clone was asked for.
WorkOK  == \A c \in Clone : \A k \in Key : Reaches(asked[c], k, index[c][k], work[c][k])
IndexOK == \A c \in Clone : \A k \in Key : Reaches(asked[c], k, TreeOf(head[c])[k], index[c][k])
HeadOK  == \A c \in Clone : \A x \in Bases(c) : \A k \in Key :
              Reaches(asked[c], k, TreeOf(x)[k], TreeOf(head[c])[k])

\* Which operations have a command that writes.
WritingOK ==
  \A p \in Proc :
     /\ pc[p] \notin {"idle", "get_fetch", "get_checkout", "get_read"} => op[p].kind # "get"
     /\ pc[p] = "rm" => op[p].kind = "remove"

CacheInv == IInv /\ LocalOK /\ WritingOK /\ AskedOK /\ WorkOK /\ IndexOK /\ HeadOK

\* Commits, once made, stay what they are.
LEMMA CommitsStay ==
  ASSUME TypeOK, GraphStep, NEW x \in CommitId
  PROVE  TreeOf(x)' = TreeOf(x) /\ Anc(x)' = Anc(x)
<1>1. x = 0 \/ x \in 1..Len(commits)
  BY DEF CommitId
<1> QED BY <1>1, CommitsGrow DEF TreeOf, Anc

\* A step of p touches no other process and no clone but p's own.
LEMMA StepLocal ==
  ASSUME TypeOK, NEW p \in Proc, Step(p) \/ Abort(p) \/ \E o \in Op : Start(p, o)
  PROVE  /\ \A q \in Proc \ {p} : /\ pc'[q] = pc[q] /\ op'[q] = op[q] /\ at'[q] = at[q]
                                  /\ pushed'[q] = pushed[q] /\ got'[q] = got[q]
                                  /\ result'[q] = result[q]
         /\ \A d \in Clone \ {CloneOf[p]} :
               /\ head'[d] = head[d] /\ origin'[d] = origin[d] /\ index'[d] = index[d]
               /\ work'[d] = work[d] /\ asked'[d] = asked[d] /\ broken'[d] = broken[d]
<1> DEFINE Others == \A q \in Proc \ {p} : /\ pc'[q] = pc[q] /\ op'[q] = op[q] /\ at'[q] = at[q]
                                           /\ pushed'[q] = pushed[q] /\ got'[q] = got[q]
                                           /\ result'[q] = result[q]
           Elsewhere == \A d \in Clone \ {CloneOf[p]} :
               /\ head'[d] = head[d] /\ origin'[d] = origin[d] /\ index'[d] = index[d]
               /\ work'[d] = work[d] /\ asked'[d] = asked[d] /\ broken'[d] = broken[d]
<1> USE DEF TypeOK
<1>1. CASE \E o \in Op : Start(p, o)
  BY <1>1 DEF Start, Goto, git, clones
<1>2. CASE Fetch(p) \/ VerifyFetch(p) \/ GetFetch(p) \/ RefetchAfterFailure(p)
  BY <1>2 DEF Fetch, VerifyFetch, GetFetch, RefetchAfterFailure, GitFetch, Goto, Finish,
     PushOrGiveUp, git, aux
<1>3. CASE CheckoutBranchAtOrigin(p)
  <2>1. Others BY <1>3 DEF CheckoutBranchAtOrigin, Goto
  <2>2. Elsewhere BY <1>3 DEF CheckoutBranchAtOrigin, GitCheckoutForce, git, clones, aux
  <2> QED BY <2>1, <2>2
<1>4. CASE EnsureLfsPattern(p) \/ HeadSha(p) \/ VerifyPublished(p) \/ GetRead(p) \/ Abort(p)
  BY <1>4 DEF EnsureLfsPattern, HeadSha, VerifyPublished, GetRead, Abort, Goto, Finish,
     git, clones, aux
<1>5. CASE WriteFile(p) \/ GitAdd(p)
  BY <1>5 DEF WriteFile, GitAdd, Goto, git, aux
<1>6. CASE GitRm(p)
  BY <1>6 DEF GitRm, Goto, Finish, git, aux
<1>7. CASE CommitStaged(p)
  BY <1>7 DEF CommitStaged, PushOrGiveUp, Goto, Finish, aux
<1>8. CASE PushAccepted(p) \/ PushFailed(p)
  BY <1>8 DEF PushAccepted, PushFailed, Goto, Finish, clones, aux
<1>9. CASE GetCheckout(p)
  <2>1. Others BY <1>9 DEF GetCheckout, Goto, Finish
  <2>2. Elsewhere BY <1>9 DEF GetCheckout, GitCheckout, git, clones, aux
  <2> QED BY <2>1, <2>2
<1> QED
  BY <1>1, <1>2, <1>3, <1>4, <1>5, <1>6, <1>7, <1>8, <1>9 DEF Step

\* HEAD moves to origin, or to a new commit of the index on top of it.
HeadStep(c) ==
  \/ head'[c] = head[c]
  \/ head'[c] = origin[c] /\ UNCHANGED <<commits, remote>>
  \/ /\ head'[c] = Len(commits) + 1 /\ commits' = Append(commits, NewCommit(c))
     /\ UNCHANGED remote

LEMMA StepHead ==
  ASSUME TypeOK, NEW p \in Proc, Step(p) \/ Abort(p) \/ \E o \in Op : Start(p, o)
  PROVE  HeadStep(CloneOf[p])
<1> DEFINE c == CloneOf[p]
<1>c. c \in Clone
  BY ConstantsAssumption
<1> USE DEF TypeOK, HeadStep
<1>1. CASE \E o \in Op : Start(p, o)
  BY <1>1 DEF Start, clones
<1>2. CASE Fetch(p) \/ VerifyFetch(p) \/ GetFetch(p) \/ RefetchAfterFailure(p)
  BY <1>2 DEF Fetch, VerifyFetch, GetFetch, RefetchAfterFailure, GitFetch
<1>3. CASE CheckoutBranchAtOrigin(p)
  BY <1>c, <1>3 DEF CheckoutBranchAtOrigin, GitCheckoutForce, git, clones
<1>4. CASE EnsureLfsPattern(p) \/ HeadSha(p) \/ VerifyPublished(p) \/ GetRead(p) \/ Abort(p)
  BY <1>4 DEF EnsureLfsPattern, HeadSha, VerifyPublished, GetRead, Abort, clones
<1>5. CASE WriteFile(p) \/ GitAdd(p) \/ GitRm(p)
  BY <1>5 DEF WriteFile, GitAdd, GitRm
<1>6. CASE CommitStaged(p)
  BY <1>c, <1>6 DEF CommitStaged, NewCommit
<1>7. CASE PushAccepted(p) \/ PushFailed(p)
  BY <1>7 DEF PushAccepted, PushFailed, clones
<1>8. CASE GetCheckout(p)
  BY <1>c, <1>8 DEF GetCheckout, GitCheckout, git, clones
<1> QED
  BY <1>1, <1>2, <1>3, <1>4, <1>5, <1>6, <1>7, <1>8 DEF Step

\* The history of a HEAD gains nothing but what was published or committed just now.
LEMMA HeadHistory ==
  ASSUME TypeOK, GraphOK, OriginOK, GraphStep, NEW c \in Clone, HeadStep(c)
  PROVE  \/ Anc(head[c])' \subseteq Anc(head[c])
         \/ Anc(head[c])' \subseteq Anc(remote)
         \/ /\ Anc(head[c])' = Anc(head[c]) \cup {Len(commits) + 1}
            /\ commits' = Append(commits, NewCommit(c)) /\ UNCHANGED remote
<1>0. head[c] \in CommitId /\ origin[c] \in CommitId
  BY DEF TypeOK
<1>1. CASE head'[c] = head[c]
  BY <1>0, <1>1, CommitsStay DEF Anc
<1>2. CASE head'[c] = origin[c] /\ UNCHANGED <<commits, remote>>
  <2>1. Anc(head[c])' = Anc(origin[c])
    BY <1>2 DEF Anc
  <2>2. Anc(origin[c]) \subseteq Anc(remote)
    BY DEF OriginOK, GraphOK, Anc, TypeOK, CommitId
  <2> QED BY <2>1, <2>2
<1>3. CASE head'[c] = Len(commits) + 1 /\ commits' = Append(commits, NewCommit(c))
           /\ UNCHANGED remote
  <2>1. commits \in Seq(Commit) /\ Len(commits) \in Nat
    BY DEF TypeOK
  <2>2. commits'[Len(commits) + 1] = NewCommit(c) /\ Len(commits) + 1 # 0
    BY <1>3, <2>1
  <2> QED BY <1>3, <2>2 DEF Anc, NewCommit
<1> QED BY <1>1, <1>2, <1>3 DEF HeadStep

\* The number of a new commit is in no history.
LEMMA FreshCommit ==
  ASSUME TypeOK, GraphOK, NEW x \in CommitId
  PROVE  Len(commits) + 1 \notin Anc(x)
BY DEF TypeOK, GraphOK, CommitId, Anc

LEMMA NextLocalOK ==
  ASSUME IInv, LocalOK, GraphStep, NEW c \in Clone, HeadStep(c),
         \A d \in Clone \ {c} : head'[d] = head[d]
  PROVE  LocalOK'
<1> USE DEF IInv
<1>1. Anc(remote) \subseteq Anc(remote)'
  BY HistoryGrows
<1>2. \A d \in Clone \ {c} : Anc(head[d])' = Anc(head[d]) /\ Len(commits) + 1 \notin Anc(head[d])
  <2> TAKE d \in Clone \ {c}
  <2>1. head[d] \in CommitId
    BY DEF TypeOK
  <2> QED BY <2>1, CommitsStay, FreshCommit DEF Anc
<1>3. ASSUME NEW d \in Clone \ {c} PROVE Anc(head[c])' \cap Anc(head[d])' \subseteq Anc(remote)'
  BY <1>1, <1>2, HeadHistory DEF LocalOK
<1>4. ASSUME NEW d \in Clone \ {c}, NEW e \in Clone \ {c}, d # e
      PROVE  Anc(head[d])' \cap Anc(head[e])' \subseteq Anc(remote)'
  BY <1>1, <1>2, <1>4 DEF LocalOK
<1> QED BY <1>3, <1>4 DEF LocalOK

\* While HEAD stays, the commits the branch may come by stay, but for HEAD itself.
LEMMA BasesStay ==
  ASSUME IInv, LocalOK, GraphStep, NEW c \in Clone, head'[c] = head[c],
         NEW x \in Bases(c)'
  PROVE  (x \in Bases(c) \/ x = head[c]) /\ x \in CommitId
<1> USE DEF IInv
<1>0. head[c] \in CommitId /\ remote \in CommitId
  BY DEF TypeOK
<1>1. Anc(head[c])' = Anc(head[c])
  BY <1>0, CommitsStay DEF Anc
<1>2. x \in Anc(head[c]) \cup {0}
  BY <1>1 DEF Bases
<1>3. x \in CommitId
  BY <1>0, <1>2 DEF TypeOK, GraphOK, CommitId, Anc
<1>4. CASE remote' = remote
  <2>1. Anc(remote)' = Anc(remote)
    BY <1>0, <1>4, CommitsStay DEF Anc
  <2> QED BY <1>2, <1>3, <1>4, <2>1 DEF Bases
<1>5. CASE x \notin Anc(remote)' \cup {0}
  BY <1>2, <1>3, <1>5, HistoryGrows DEF Bases
<1>6. ASSUME NEW d \in Clone, GitPushAllowed(d), remote' = head[d], x = remote'
      PROVE  x \in Bases(c) \/ x = head[c]
  <2>1. CASE d = c
    BY <1>6, <2>1
  <2>2. CASE d # c
    <3>1. head[d] \in 1..Len(commits) /\ head[d] \in Anc(head[d])
          /\ remote \in Anc(head[d]) \cup {0}
      BY <1>6 DEF GitPushAllowed, TypeOK, CommitId, GraphOK, Anc
    <3>2. x \in Anc(head[d]) \cap Anc(head[c])
      BY <1>2, <1>6, <3>1
    <3>3. x \in Anc(remote)
      BY <2>2, <3>2 DEF LocalOK
    <3>4. remote # 0 /\ remote \in 1..Len(commits)
      BY <1>0, <3>3 DEF Anc, CommitId
    <3>5. x <= remote /\ remote <= x
      BY <1>6, <3>1, <3>3, <3>4 DEF GraphOK, Anc
    <3>6. x = remote
      BY <1>3, <3>4, <3>5 DEF CommitId
    <3> QED BY <1>2, <3>6 DEF Bases
  <2> QED BY <2>1, <2>2
<1>7. x = remote' \/ x \notin Anc(remote)' \cup {0}
  BY DEF Bases
<1> QED BY <1>3, <1>4, <1>5, <1>6, <1>7 DEF GraphStep

\* A HEAD on a published commit has at most the branch itself as a base.
LEMMA BasesPublished ==
  ASSUME TypeOK, GraphOK, OriginOK, NEW c \in Clone, head'[c] = origin[c],
         UNCHANGED <<commits, remote>>, NEW x \in Bases(c)'
  PROVE  x = origin[c]
<1>1. x \in Anc(origin[c]) \cup {0} /\ (x = remote \/ x \notin Anc(remote) \cup {0})
  BY DEF Bases, Anc
<1>2. origin[c] \in CommitId /\ remote \in CommitId /\ origin[c] \in Anc(remote) \cup {0}
  BY DEF TypeOK, OriginOK
<1>3. Anc(origin[c]) \subseteq Anc(remote)
  BY <1>2 DEF GraphOK, Anc, CommitId, TypeOK
<1>4. x = remote
  BY <1>1, <1>3
<1>5. CASE remote = 0
  BY <1>2, <1>4, <1>5 DEF Anc
<1>6. CASE remote # 0
  <2>1. remote \in 1..Len(commits) /\ remote \in Anc(origin[c])
    BY <1>1, <1>2, <1>4, <1>6 DEF CommitId
  <2>2. origin[c] \in 1..Len(commits) /\ origin[c] \in Anc(remote)
    BY <1>2, <2>1 DEF Anc, CommitId
  <2>3. remote <= origin[c] /\ origin[c] <= remote
    BY <2>1, <2>2 DEF GraphOK, Anc
  <2> QED BY <1>4, <2>1, <2>2, <2>3
<1> QED BY <1>5, <1>6

\* Only get reads without writing, and only remove_many runs `git rm`.
LEMMA NextWriting == TypeOK /\ WritingOK /\ [Next]_vars => WritingOK'
<1> SUFFICES ASSUME TypeOK, WritingOK, [Next]_vars PROVE WritingOK'
  OBVIOUS
<1>s. CASE UNCHANGED vars
  BY <1>s DEF vars, WritingOK
<1>n. ASSUME NEW p \in Proc, Step(p) \/ Abort(p) \/ \E o \in Op : Start(p, o)
      PROVE  WritingOK'
  <2>t. pc \in [Proc -> Label] /\ op \in [Proc -> Op]
    BY DEF TypeOK
  <2>0. CASE \E o \in Op : Start(p, o)
    <3>1. PICK o \in Op : Start(p, o)
      BY <2>0
    <3>2. o.kind \in {"put", "remove", "attrs", "get"}
      BY ConstantsAssumption
    <3> QED
      BY <2>t, <3>1, <3>2 DEF Start, Goto, First, WritingOK
  <2>1. CASE Fetch(p) \/ CheckoutBranchAtOrigin(p) \/ EnsureLfsPattern(p)
    BY <2>1, <2>t DEF Fetch, CheckoutBranchAtOrigin, EnsureLfsPattern, ApplyLabel,
                      Goto, Finish, WritingOK
  <2>2. CASE WriteFile(p) \/ GitAdd(p) \/ GitRm(p)
    BY <2>2, <2>t DEF WriteFile, GitAdd, GitRm, Goto, Finish, WritingOK
  <2>3. CASE CommitStaged(p) \/ RefetchAfterFailure(p)
    BY <2>3, <2>t DEF CommitStaged, RefetchAfterFailure, PushOrGiveUp, Goto, Finish, WritingOK
  <2>4. CASE PushAccepted(p) \/ PushFailed(p) \/ HeadSha(p) \/ VerifyFetch(p) \/ VerifyPublished(p)
    BY <2>4, <2>t DEF PushAccepted, PushFailed, HeadSha, VerifyFetch, VerifyPublished, Goto,
                      Finish, WritingOK
  <2>5. CASE GetFetch(p) \/ GetCheckout(p) \/ GetRead(p) \/ Abort(p)
    BY <2>5, <2>t DEF GetFetch, GetCheckout, GetRead, Abort, Goto, Finish, WritingOK
  <2> QED
    BY <1>n, <2>0, <2>1, <2>2, <2>3, <2>4, <2>5 DEF Step
<1> QED
  BY <1>s, <1>n DEF Next

\* A clone is asked for what its operations will do, before they do it.
LEMMA NextAskedOK ==
  ASSUME TypeOK, AskedOK, [Next]_vars
  PROVE  AskedOK' /\ \A c \in Clone : asked[c] \subseteq asked'[c]
<1> DEFINE Goal == AskedOK' /\ \A c \in Clone : asked[c] \subseteq asked'[c]
<1>t. /\ pc \in [Proc -> Label] /\ op \in [Proc -> Op]
      /\ asked \in [Clone -> SUBSET (Key \X (Val \cup {Absent}))]
  BY DEF TypeOK
<1>1. ASSUME NEW p \in Proc, NEW o \in Op, Start(p, o) PROVE Goal
  <2> DEFINE new == {o.entries[j] : j \in 1..Len(o.entries)}
  <2>1. /\ o.entries \in Seq(Key \X (Val \cup {Absent}))
        /\ \A j \in 1..Len(o.entries) :
             /\ (o.entries[j][1] = AttrsKey) <=> (o.kind = "attrs")
             /\ o.kind \in {"put", "attrs"} => o.entries[j][2] \in Val
    BY ConstantsAssumption
  <2>2. \A j \in 1..Len(o.entries) : o.entries[j] \in Key \X (Val \cup {Absent})
    BY <2>1
  <2>3. new \in Requests
    BY <2>1, <2>2 DEF Requests
  <2>4. asked' = [asked EXCEPT ![CloneOf[p]] = IF o.kind = "get" THEN @ ELSE @ \cup new]
    BY <1>1 DEF Start
  <2> HIDE DEF new
  <2>5. \A c \in Clone : asked[c] \subseteq asked'[c] /\ asked'[c] \subseteq asked[c] \cup new
    BY <1>t, <2>4
  <2>6. \A c \in Clone : asked'[c] \in Requests
    BY <2>3, <2>5 DEF AskedOK, Requests
  <2>7. ASSUME NEW q \in Proc, pc'[q] # "idle", op'[q].kind # "get",
               NEW j \in 1..Len(op'[q].entries)
        PROVE  op'[q].entries[j] \in asked'[CloneOf[q]]
    <3>1. CASE q = p
      <4>1. op'[q] = o /\ CloneOf[q] \in Clone
        BY <1>t, <1>1, <3>1, ConstantsAssumption DEF Start
      <4>2. asked'[CloneOf[q]] = asked[CloneOf[q]] \cup new
        BY <1>t, <2>4, <2>7, <3>1, <4>1
      <4> QED BY <2>7, <4>1, <4>2 DEF new
    <3>2. CASE q # p
      <4>1. pc'[q] = pc[q] /\ op'[q] = op[q] /\ CloneOf[q] \in Clone
        BY <1>t, <1>1, <3>2, ConstantsAssumption DEF Start, Goto
      <4> QED BY <2>5, <2>7, <4>1 DEF AskedOK
    <3> QED BY <3>1, <3>2
  <2> QED BY <2>5, <2>6, <2>7 DEF AskedOK
<1>2. ASSUME NEW p \in Proc, Step(p) \/ Abort(p) PROVE Goal
  <2>1. asked' = asked /\ op' = op
    BY <1>2 DEF Step, Fetch, CheckoutBranchAtOrigin, GitCheckoutForce, GitFetch, EnsureLfsPattern,
       WriteFile, GitAdd, GitRm, CommitStaged, PushAccepted, PushFailed, RefetchAfterFailure,
       HeadSha, VerifyFetch, VerifyPublished, GetFetch, GetCheckout, GitCheckout, GetRead,
       Abort, git, clones, aux
  <2>2. pc[p] # "idle"
    BY <1>2 DEF Step, Fetch, CheckoutBranchAtOrigin, EnsureLfsPattern,
       WriteFile, GitAdd, GitRm, CommitStaged, PushAccepted, PushFailed, RefetchAfterFailure,
       HeadSha, VerifyFetch, VerifyPublished, GetFetch, GetCheckout, GetRead, Abort
  <2>3. \A q \in Proc \ {p} : pc'[q] = pc[q]
    BY <1>2, StepLocal
  <2> QED BY <2>1, <2>2, <2>3 DEF AskedOK
<1>3. CASE UNCHANGED vars
  BY <1>3 DEF vars, AskedOK
<1> QED BY <1>1, <1>2, <1>3 DEF Next

\* The entry at hand was asked for.
LEMMA EntryAsked ==
  ASSUME TypeOK, AskedOK, NEW p \in Proc, pc[p] # "idle", op[p].kind # "get"
  PROVE  Entry(p) \in asked[CloneOf[p]]
<1>1. op[p].entries \in Seq(Key \X (Val \cup {Absent})) /\ at[p] \in 1..Len(op[p].entries)
  BY ConstantsAssumption DEF TypeOK
<1> QED BY <1>1 DEF AskedOK, Entry

\* All a step does to the index and the files at a key of the clone it works on.
KeyStep(c, k) ==
  \/ /\ index'[c][k] = index[c][k] /\ work'[c][k] = work[c][k]
     /\ TreeOf(head[c])[k]' = TreeOf(head[c])[k]
  \/ /\ index'[c][k] = TreeOf(head[c])[k]'
     /\ work'[c][k] = index'[c][k] \/ (work'[c][k] = work[c][k] /\ index'[c][k] = index[c][k])
  \/ /\ index'[c][k] = index[c][k] /\ TreeOf(head[c])[k]' = TreeOf(head[c])[k]
     /\ Reaches(asked[c], k, work[c][k], work'[c][k])
  \/ /\ index'[c][k] = work[c][k] /\ work'[c][k] = work[c][k]
     /\ TreeOf(head[c])[k]' = TreeOf(head[c])[k]
  \/ /\ index'[c][k] = work'[c][k] /\ Reaches(asked[c], k, index[c][k], index'[c][k])
     /\ TreeOf(head[c])[k]' = TreeOf(head[c])[k]

LEMMA StepKeys ==
  ASSUME TypeOK, WritingOK, AskedOK, GraphStep, NEW p \in Proc,
         Step(p) \/ Abort(p) \/ \E o \in Op : Start(p, o), NEW k \in Key
  PROVE  KeyStep(CloneOf[p], k)
<1> DEFINE c == CloneOf[p]
<1>c. c \in Clone /\ head[c] \in CommitId /\ origin[c] \in CommitId
  BY ConstantsAssumption DEF TypeOK
<1>h. head' = head => TreeOf(head[c])[k]' = TreeOf(head[c])[k]
  BY <1>c, CommitsStay DEF TreeOf
<1>t. index \in [Clone -> Tree] /\ work \in [Clone -> Tree] /\ index[c] \in Tree /\ work[c] \in Tree
  BY <1>c DEF TypeOK
<1>f. \A t \in Tree : DOMAIN t = Key
  BY DEF Tree
<1>1. CASE UNCHANGED <<head, index, work>>
  BY <1>1, <1>h DEF KeyStep
<1>2. CASE \E o \in Op : Start(p, o)
  BY <1>1, <1>2 DEF Start, clones
<1>3. CASE \/ Fetch(p) \/ VerifyFetch(p) \/ GetFetch(p) \/ RefetchAfterFailure(p)
           \/ EnsureLfsPattern(p) \/ HeadSha(p) \/ VerifyPublished(p) \/ GetRead(p)
           \/ PushAccepted(p) \/ PushFailed(p) \/ Abort(p)
  BY <1>1, <1>3 DEF Fetch, VerifyFetch, GetFetch, RefetchAfterFailure, GitFetch, EnsureLfsPattern,
     HeadSha, VerifyPublished, GetRead, PushAccepted, PushFailed, Abort, clones
<1>4. ASSUME CheckoutBranchAtOrigin(p), origin[c] # 0 PROVE KeyStep(c, k)
  <2>1. GitCheckoutForce(c)
    BY <1>4 DEF CheckoutBranchAtOrigin
  <2>2. commits' = commits /\ head'[c] = origin[c] /\ index'[c] = TreeOf(origin[c])
        /\ work'[c][k] = IF TreeOf(origin[c])[k] = Absent /\ index[c][k] = Absent
                         THEN work[c][k] ELSE TreeOf(origin[c])[k]
    BY <1>c, <1>t, <2>1 DEF GitCheckoutForce, git, TypeOK
  <2>3. TreeOf(head[c])[k]' = TreeOf(origin[c])[k]
    BY <2>2 DEF TreeOf
  <2> QED BY <2>2, <2>3 DEF KeyStep
<1>5. CASE CheckoutBranchAtOrigin(p) /\ origin[c] = 0
  BY <1>1, <1>5 DEF CheckoutBranchAtOrigin, clones
<1>6. CASE WriteFile(p)
  <2>1. op[p].kind # "get" /\ pc[p] # "idle" => Entry(p) \in asked[c]
    BY EntryAsked
  <2>2. Entry(p)[1] \in Key /\ (Entry(p)[1] = AttrsKey <=> op[p].kind = "attrs")
    BY EntryType
  <2>3. CASE k # Entry(p)[1]
    BY <1>6, <1>h, <1>c, <1>t, <2>2, <2>3 DEF WriteFile, KeyStep
  <2>4. CASE k = Entry(p)[1]
    <3>1. work'[c][k] = Written(p) /\ index' = index /\ head' = head
      BY <1>6, <1>c, <1>t, <1>f, <2>2, <2>4 DEF WriteFile
    <3>2. Entry(p) \in asked[c] /\ Entry(p) = <<k, Entry(p)[2]>>
      <4>1. op[p].kind # "get"
        BY <1>6 DEF WriteFile, WritingOK
      <4>2. Entry(p) \in asked[c]
        BY <1>6, <2>1, <4>1 DEF WriteFile
      <4> QED BY <1>c, <2>4, <4>2 DEF TypeOK
    <3>3. Reaches(asked[c], k, work[c][k], Written(p))
      <4>1. CASE k = AttrsKey
        <5>1. {Entry(p)[2]} \subseteq {r[2] : r \in {q \in asked[c] : q[1] = AttrsKey}}
          BY <3>2, <4>1, <2>4
        <5> QED BY <2>4, <4>1, <5>1 DEF Written, Reaches
      <4>2. CASE k # AttrsKey
        BY <2>4, <3>2, <4>2 DEF Written, Reaches
      <4> QED BY <4>1, <4>2
    <3> QED BY <1>h, <3>1, <3>3 DEF KeyStep
  <2> QED BY <2>3, <2>4
<1>7. CASE GitAdd(p)
  <2>1. Entry(p)[1] \in Key
    BY EntryType
  <2>2. index'[c][k] = (IF k = Entry(p)[1] THEN work[c][k] ELSE index[c][k])
        /\ work' = work /\ head' = head
    BY <1>7, <1>c, <1>t, <1>f, <2>1 DEF GitAdd
  <2> QED BY <1>h, <2>2 DEF KeyStep
<1>8. CASE GitRm(p)
  <2> DEFINE K == {x \in EntryKeys(op[p]) : index[c][x] # Absent}
  <2>1. head' = head /\ \/ UNCHANGED <<index, work>>
                        \/ /\ index'[c][k] = (IF k \in K THEN Absent ELSE index[c][k])
                           /\ work'[c][k] = (IF k \in K THEN Absent ELSE work[c][k])
    BY <1>8, <1>c, <1>t DEF GitRm
  <2>2. CASE k \notin K \/ UNCHANGED <<index, work>>
    BY <1>h, <2>1, <2>2 DEF KeyStep
  <2>3. ASSUME k \in K, ~UNCHANGED <<index, work>> PROVE KeyStep(c, k)
    <3>1. PICK j \in 1..Len(op[p].entries) : k = op[p].entries[j][1]
      BY <2>3 DEF EntryKeys
    <3>2. op[p].kind = "remove"
      BY <1>8 DEF GitRm, WritingOK
    <3>3. op[p].entries[j] \in asked[c] /\ k # AttrsKey /\ op[p].entries[j][2] = Absent
      BY <1>8, <3>1, <3>2, ConstantsAssumption, RemovesAssumption DEF GitRm, AskedOK, TypeOK
    <3>4. op[p].entries[j] \in Key \X (Val \cup {Absent})
      BY <1>c, <3>3 DEF TypeOK
    <3>5. op[p].entries[j] = <<k, Absent>>
      BY <3>1, <3>3, <3>4
    <3>6. <<k, Absent>> \in asked[c]
      BY <3>3, <3>5
    <3> QED BY <1>h, <2>1, <2>3, <3>3, <3>6 DEF KeyStep, Reaches
  <2> QED BY <2>2, <2>3
<1>9. CASE CommitStaged(p)
  <2>1. CASE index[c] = TreeOf(head[c])
    BY <1>9, <1>1, <2>1 DEF CommitStaged
  <2>2. CASE index[c] # TreeOf(head[c])
    <3>1. commits \in Seq(Commit) /\ Len(commits) \in Nat
      BY DEF TypeOK
    <3>2. /\ commits' = Append(commits, NewCommit(c)) /\ head'[c] = Len(commits) + 1
          /\ index' = index /\ work' = work
      BY <1>9, <1>c, <2>2 DEF CommitStaged, TypeOK, NewCommit
    <3>3. TreeOf(head[c])' = index[c]
      BY <3>1, <3>2 DEF TreeOf, NewCommit
    <3> QED BY <3>2, <3>3 DEF KeyStep
  <2> QED BY <2>1, <2>2
<1>10. CASE GetCheckout(p)
  <2>1. CASE UNCHANGED clones
    BY <1>1, <2>1 DEF clones
  <2>2. ASSUME GitCheckout(c) PROVE KeyStep(c, k)
    <3>1. commits' = commits /\ head'[c] = origin[c]
          /\ index'[c][k] = (IF KeepsLocal(c, k) THEN index[c][k] ELSE TreeOf(origin[c])[k])
          /\ work'[c][k] = (IF KeepsLocal(c, k) THEN work[c][k] ELSE TreeOf(origin[c])[k])
      BY <2>2, <1>c, <1>t DEF GitCheckout, git, TypeOK
    <3>2. TreeOf(head[c])[k]' = TreeOf(origin[c])[k]
      BY <3>1 DEF TreeOf
    <3> QED BY <3>1, <3>2 DEF KeyStep, KeepsLocal
  <2> QED BY <1>10, <2>1, <2>2 DEF GetCheckout
<1> QED
  BY <1>2, <1>3, <1>4, <1>5, <1>6, <1>7, <1>8, <1>9, <1>10 DEF Step

\* The files and the index stay within what was asked for, on the clone that works...
LEMMA OwnKey ==
  ASSUME CacheInv, NEW c \in Clone, NEW k \in Key, KeyStep(c, k)
  PROVE  /\ Reaches(asked[c], k, index'[c][k], work'[c][k])
         /\ Reaches(asked[c], k, TreeOf(head[c])[k]', index'[c][k])
<1>1. /\ asked[c] \in Requests /\ index[c] \in Tree /\ TreeOf(head[c]) \in Tree
      /\ Reaches(asked[c], k, index[c][k], work[c][k])
      /\ Reaches(asked[c], k, TreeOf(head[c])[k], index[c][k])
  BY CommitTypes DEF CacheInv, IInv, TypeOK, AskedOK, WorkOK, IndexOK
<1>2. \A u : Reaches(asked[c], k, u, u)
  BY DEF Reaches
<1>3. \A v : Reaches(asked[c], k, work[c][k], v) => Reaches(asked[c], k, index[c][k], v)
  BY <1>1, ReachesTransitive
<1>4. \A v : Reaches(asked[c], k, index[c][k], v) => Reaches(asked[c], k, TreeOf(head[c])[k], v)
  BY <1>1, ReachesTransitive
<1> QED BY <1>1, <1>2, <1>3, <1>4 DEF KeyStep

\* ... and on every other.
LEMMA NextWorkIndexOK ==
  ASSUME CacheInv, GraphStep, NEW p \in Proc,
         Step(p) \/ Abort(p) \/ \E o \in Op : Start(p, o),
         \A d \in Clone : asked[d] \subseteq asked'[d]
  PROVE  WorkOK' /\ IndexOK'
<1> SUFFICES ASSUME NEW d \in Clone, NEW k \in Key
             PROVE  /\ Reaches(asked'[d], k, index'[d][k], work'[d][k])
                    /\ Reaches(asked'[d], k, TreeOf(head[d])[k]', index'[d][k])
  BY DEF WorkOK, IndexOK
<1>1. /\ Reaches(asked[d], k, index'[d][k], work'[d][k])
      /\ Reaches(asked[d], k, TreeOf(head[d])[k]', index'[d][k])
  <2>1. CASE d = CloneOf[p]
    <3>1. KeyStep(CloneOf[p], k)
      BY StepKeys DEF CacheInv, IInv
    <3> QED BY <2>1, <3>1, OwnKey
  <2>2. CASE d # CloneOf[p]
    <3>1. head'[d] = head[d] /\ index'[d] = index[d] /\ work'[d] = work[d]
      BY <2>2, StepLocal DEF CacheInv, IInv
    <3>2. head[d] \in CommitId
      BY DEF CacheInv, IInv, TypeOK
    <3>3. TreeOf(head[d])' = TreeOf(head[d])
      BY <3>1, <3>2, CommitsStay DEF CacheInv, IInv, TreeOf
    <3>4. TreeOf(head[d])[k]' = TreeOf(head[d])[k]
      BY <3>3
    <3> QED BY <3>1, <3>4 DEF CacheInv, WorkOK, IndexOK
  <2> QED BY <2>1, <2>2
<1> QED BY <1>1, ReachesGrows

\* What HEAD adds to the commits it would fast-forward stays within what was asked.
LEMMA NextHeadOK ==
  ASSUME CacheInv, GraphStep, NEW d \in Clone, HeadStep(d), asked[d] \subseteq asked'[d],
         NEW x \in Bases(d)', NEW k \in Key
  PROVE  Reaches(asked'[d], k, TreeOf(x)[k]', TreeOf(head[d])[k]')
<1> USE DEF IInv
<1>0. /\ TypeOK /\ GraphOK /\ OriginOK /\ LocalOK /\ HeadOK
      /\ head[d] \in CommitId /\ origin[d] \in CommitId
      /\ commits \in Seq(Commit) /\ Len(commits) \in Nat
  BY DEF CacheInv, TypeOK
<1>i. IInv
  BY DEF CacheInv
<1>r. \A u : Reaches(asked[d], k, u, u)
  BY DEF Reaches
<1>g. \A u, v : Reaches(asked[d], k, u, v) => Reaches(asked'[d], k, u, v)
  BY ReachesGrows
<1>1. CASE head'[d] = head[d]
  <2>1. (x \in Bases(d) \/ x = head[d]) /\ x \in CommitId
    BY <1>0, <1>i, <1>1, BasesStay
  <2>2. TreeOf(x)[k]' = TreeOf(x)[k] /\ TreeOf(head[d])[k]' = TreeOf(head[d])[k]
    BY <1>0, <1>1, <2>1, CommitsStay DEF TreeOf
  <2>3. Reaches(asked[d], k, TreeOf(x)[k], TreeOf(head[d])[k])
    BY <1>0, <1>r, <2>1 DEF HeadOK
  <2> QED BY <1>g, <2>2, <2>3
<1>2. CASE head'[d] = origin[d] /\ UNCHANGED <<commits, remote>>
  <2>1. x = head'[d]
    BY <1>0, <1>2, BasesPublished
  <2>2. TreeOf(x)[k]' = TreeOf(head[d])[k]'
    BY <2>1 DEF TreeOf
  <2> QED BY <1>g, <1>r, <2>2
<1>3. CASE /\ head'[d] = Len(commits) + 1 /\ commits' = Append(commits, NewCommit(d))
           /\ UNCHANGED remote
  <2> DEFINE new == Len(commits) + 1
  <2>1. commits'[new] = NewCommit(d) /\ new # 0
    BY <1>0, <1>3
  <2>2. TreeOf(head[d])' = index[d] /\ Anc(head[d])' = Anc(head[d]) \cup {new}
    BY <1>3, <2>1 DEF TreeOf, Anc, NewCommit
  <2>3. remote \in CommitId /\ Anc(remote)' = Anc(remote)
    BY <1>0, <1>3, CommitsStay DEF TypeOK, Anc
  <2>4. CASE x = new
    <3>1. TreeOf(x)[k]' = TreeOf(head[d])[k]'
      BY <1>3, <2>4 DEF TreeOf
    <3> QED BY <1>g, <1>r, <3>1
  <2>5. ASSUME x # new PROVE Reaches(asked[d], k, TreeOf(x)[k]', TreeOf(head[d])[k]')
    <3>1. x \in Bases(d)
      BY <1>3, <2>2, <2>3, <2>5 DEF Bases
    <3>2. x \in CommitId
      BY <1>0, <3>1 DEF Bases, GraphOK, Anc, CommitId
    <3>3. TreeOf(x)[k]' = TreeOf(x)[k]
      BY <1>0, <3>2, CommitsStay
    <3>4. TreeOf(x) \in Tree /\ asked[d] \in Requests
      BY <1>0, <3>2, CommitTypes DEF CacheInv, AskedOK
    <3>5. Reaches(asked[d], k, TreeOf(x)[k], TreeOf(head[d])[k])
      BY <1>0, <3>1 DEF HeadOK
    <3>6. Reaches(asked[d], k, TreeOf(head[d])[k], index[d][k])
      BY DEF CacheInv, IndexOK
    <3>7. Reaches(asked[d], k, TreeOf(x)[k], index[d][k])
      BY <3>4, <3>5, <3>6, ReachesTransitive
    <3>8. TreeOf(head[d])[k]' = index[d][k]
      BY <2>2
    <3> QED BY <3>3, <3>7, <3>8
  <2> QED BY <1>g, <2>4, <2>5
<1> QED BY <1>1, <1>2, <1>3 DEF HeadStep

LEMMA NextCacheInv == CacheInv /\ IInv' /\ [Next]_vars => CacheInv'
<1> SUFFICES ASSUME CacheInv, IInv', [Next]_vars PROVE CacheInv'
  OBVIOUS
<1>0. TypeOK /\ GraphOK /\ OriginOK /\ IInv
  BY DEF CacheInv, IInv
<1>1. GraphStep
  BY <1>0, NextGraph
<1>2. WritingOK' /\ AskedOK' /\ \A d \in Clone : asked[d] \subseteq asked'[d]
  BY <1>0, NextWriting, NextAskedOK DEF CacheInv
<1>3. CASE UNCHANGED vars
  <2>1. \A x : TreeOf(x)' = TreeOf(x) /\ Anc(x)' = Anc(x)
    BY <1>3 DEF TreeOf, Anc, vars
  <2>2. LocalOK'
    BY <1>3, <2>1 DEF CacheInv, LocalOK, vars, Anc
  <2>3. WorkOK' /\ IndexOK'
    BY <1>3, <2>1 DEF CacheInv, WorkOK, IndexOK, vars, TreeOf
  <2>4. HeadOK'
    BY <1>3, <2>1 DEF CacheInv, HeadOK, Bases, vars, TreeOf, Anc
  <2> QED BY <1>2, <2>2, <2>3, <2>4 DEF CacheInv
<1>4. ASSUME NEW p \in Proc, Step(p) \/ Abort(p) \/ \E o \in Op : Start(p, o) PROVE CacheInv'
  <2>1. CloneOf[p] \in Clone /\ HeadStep(CloneOf[p])
    BY <1>0, <1>4, StepHead, ConstantsAssumption
  <2>2. \A d \in Clone \ {CloneOf[p]} : head'[d] = head[d]
    BY <1>0, <1>4, StepLocal
  <2>3. \A d \in Clone : HeadStep(d)
    BY <2>1, <2>2 DEF HeadStep
  <2>4. LocalOK'
    BY <1>0, <1>1, <2>1, <2>2, NextLocalOK DEF CacheInv
  <2>5. WorkOK' /\ IndexOK'
    BY <1>1, <1>2, <1>4, NextWorkIndexOK
  <2>6. ASSUME NEW d \in Clone, NEW x \in Bases(d)', NEW k \in Key
        PROVE  Reaches(asked'[d], k, TreeOf(x)[k]', TreeOf(head[d])[k]')
    BY <1>1, <1>2, <2>3, <2>6, NextHeadOK
  <2>7. HeadOK'
    BY <2>6 DEF HeadOK
  <2> QED BY <1>2, <2>4, <2>5, <2>7 DEF CacheInv
<1> QED BY <1>3, <1>4 DEF Next

\* The history of the clones: CacheInv holds of every behaviour.
THEOREM CacheInvariance == Spec => []CacheInv
<1>1. Init => CacheInv
  <2> SUFFICES ASSUME Init PROVE CacheInv
    OBVIOUS
  <2>1. IInv
    BY InitType DEF IInv, Init, GraphOK, OriginOK, ControlOK, PutOkLanded, Succeeded
  <2>2. LocalOK /\ WritingOK
    BY DEF Init, LocalOK, WritingOK, Anc
  <2>3. AskedOK
    BY DEF Init, AskedOK, Requests
  <2>4. WorkOK /\ IndexOK /\ HeadOK
    BY DEF Init, WorkOK, IndexOK, HeadOK, Reaches, Bases, Anc, TreeOf
  <2> QED BY <2>1, <2>2, <2>3, <2>4 DEF CacheInv
<1>2. CacheInv /\ IInv' /\ [Next]_vars => CacheInv'
  BY NextCacheInv
<1> QED
  BY <1>1, <1>2, Invariance, PTL DEF Spec

\* What moves the branch is an accepted push, and it publishes one batch.
LEMMA PushPublishes ==
  ASSUME CacheInv, NEW c \in Clone, GitPushAllowed(c), remote' = head[c],
         UNCHANGED <<commits, asked>>
  PROVE  Cache!Publish(c)
<1>1. /\ TypeOK /\ HeadOK /\ head[c] \in CommitId /\ remote \in CommitId
  BY DEF CacheInv, IInv, TypeOK
<1>2. remote \in Bases(c)
  BY DEF GitPushAllowed, Bases
<1>3. TreeOf(remote)' = TreeOf(head[c])
  BY DEF TreeOf
<1>4. TreeOf(remote)' \in Tree
  BY <1>1, <1>3, CommitTypes
<1>5. ASSUME NEW k \in Key
      PROVE  TreeOf(remote)[k]' = TreeOf(remote)[k]
             \/ Cache!MayBecome(c, k, TreeOf(remote)[k], TreeOf(remote)[k]')
  <2>1. Reaches(asked[c], k, TreeOf(remote)[k], TreeOf(head[c])[k])
    BY <1>1, <1>2 DEF HeadOK
  <2> QED BY <1>3, <2>1 DEF Reaches, Cache!MayBecome, Cache!Lines, Lines
<1> QED BY <1>4, <1>5 DEF Cache!Publish, Tree, Content

\* Every step of the git backend is a step of the cache, or none of it.
LEMMA StepImplements == CacheInv /\ CacheInv' /\ [Next]_vars => [Cache!Next]_Cache!vars
<1> SUFFICES ASSUME CacheInv, CacheInv', [Next]_vars PROVE [Cache!Next]_Cache!vars
  OBVIOUS
<1>0. TypeOK /\ GraphStep
  BY NextGraph DEF CacheInv, IInv
<1>s. ASSUME remote' = remote, asked' = asked PROVE UNCHANGED Cache!vars
  <2>1. remote \in CommitId
    BY <1>0 DEF TypeOK
  <2>2. TreeOf(remote)' = TreeOf(remote)
    BY <1>0, <1>s, <2>1, CommitsStay DEF TreeOf
  <2> QED BY <1>s, <2>2 DEF Cache!vars
<1>1. CASE UNCHANGED vars
  BY <1>1, <1>s DEF vars
<1>2. ASSUME NEW p \in Proc, NEW o \in Op, Start(p, o) PROVE [Cache!Next]_Cache!vars
  <2> DEFINE c == CloneOf[p]
  <2>1. UNCHANGED <<commits, remote>> /\ c \in Clone
    BY <1>2, ConstantsAssumption DEF Start, git
  <2>2. asked' = [asked EXCEPT ![c] = asked'[c]]
    BY <1>0, <1>2, <2>1 DEF Start, TypeOK
  <2>3. asked[c] \subseteq asked'[c] /\ asked'[c] \subseteq Key \X (Val \cup {Absent})
    <3>1. asked[c] \subseteq asked'[c]
      BY <1>0, <2>1, NextAskedOK DEF CacheInv
    <3>2. asked'[c] \in Requests
      BY <2>1 DEF CacheInv, AskedOK
    <3> QED BY <3>1, <3>2 DEF Requests
  <2>4. UNCHANGED TreeOf(remote)
    BY <2>1 DEF TreeOf
  <2>5. Cache!Ask(c)
    BY <2>2, <2>3, <2>4 DEF Cache!Ask
  <2> QED BY <2>1, <2>5 DEF Cache!Next
<1>3. ASSUME NEW p \in Proc, Step(p) \/ Abort(p) PROVE [Cache!Next]_Cache!vars
  <2>1. CASE PushAccepted(p) \/ (PushFailed(p) /\ GitPushAllowed(CloneOf[p]) /\ remote' = head[CloneOf[p]])
    <3>1. /\ CloneOf[p] \in Clone /\ GitPushAllowed(CloneOf[p]) /\ remote' = head[CloneOf[p]]
          /\ UNCHANGED <<commits, asked>>
      BY <2>1, ConstantsAssumption DEF PushAccepted, PushFailed, aux
    <3>2. Cache!Publish(CloneOf[p])
      BY <3>1, PushPublishes
    <3> QED BY <3>1, <3>2 DEF Cache!Next
  <2>2. CASE PushFailed(p) /\ remote' = remote
    BY <2>2, <1>s DEF PushFailed, aux
  <2>3. CASE \/ Fetch(p) \/ CheckoutBranchAtOrigin(p) \/ EnsureLfsPattern(p)
             \/ WriteFile(p) \/ GitAdd(p) \/ GitRm(p) \/ CommitStaged(p)
             \/ RefetchAfterFailure(p) \/ HeadSha(p) \/ VerifyFetch(p) \/ VerifyPublished(p)
             \/ GetFetch(p) \/ GetCheckout(p) \/ GetRead(p) \/ Abort(p)
    <3>1. remote' = remote /\ asked' = asked
      BY <2>3 DEF Fetch, CheckoutBranchAtOrigin, GitCheckoutForce, GitFetch, EnsureLfsPattern,
         WriteFile, GitAdd, GitRm, CommitStaged, RefetchAfterFailure, HeadSha, VerifyFetch,
         VerifyPublished, GetFetch, GetCheckout, GitCheckout, GetRead, Abort, git, aux
    <3> QED BY <1>s, <3>1
  <2>4. PushFailed(p) => \/ remote' = remote
                         \/ GitPushAllowed(CloneOf[p]) /\ remote' = head[CloneOf[p]]
    BY DEF PushFailed
  <2> QED BY <1>3, <2>1, <2>2, <2>3, <2>4 DEF Step
<1> QED BY <1>1, <1>2, <1>3 DEF Next

\* The git backend implements the key/value cache its callers see (GitCache), for any
\* machines, keys, batches and faults: a push of remote.rs publishes, key by key, only what
\* its own machine was asked to write, whatever shared clones, kills and retries left behind.
THEOREM RemoteImplementsCache == Spec => ImplementsCache
<1>1. Init => Cache!Init
  BY DEF Init, Cache!Init, TreeOf, EmptyTree
<1> QED
  BY <1>1, StepImplements, CacheInvariance, PTL DEF Spec, ImplementsCache, Cache!Spec

------------------------------------------------------------------------------
(* What a put or a get that succeeded reports, on a clone of its own. *)

\* Tree t holds the first n entries of operation o, bytes and all.
Holds(t, o, n) == \A i \in 1..n : t[o.entries[i][1]] = o.entries[i][2]

\* From the entries staged to one commit that carries them all, to the branch.
PutInv(p) ==
  LET c == CloneOf[p]
      o == op[p]
      all == Len(op[p].entries) IN
  op[p].kind = "put" =>
    /\ pc[p] \in {"write", "add"} => Holds(index[c], o, at[p] - 1)
    /\ pc[p] = "add" => work[c][Entry(p)[1]] = Entry(p)[2]
    /\ pc[p] = "commit" => Holds(index[c], o, all)
    /\ pc[p] \in {"push", "refetch", "head_sha"} => Holds(TreeOf(head[c]), o, all)
    /\ pc[p] = "head_sha" => head[c] \in Anc(remote)
    /\ pc[p] \in {"verify_fetch", "verify"} =>
          pushed[p] \in Anc(remote) /\ Holds(TreeOf(pushed[p]), o, all)
    /\ result[p] = "ok" => \E x \in Anc(remote) : Holds(TreeOf(x), o, all)

\* The files, the index and HEAD of a clone agree, but for what is being committed.
Clean(p) ==
  LET c == CloneOf[p] IN
  /\ pc[p] \notin {"write", "add", "commit"} => index[c] = TreeOf(head[c])
  /\ pc[p] # "add" => work[c] = index[c]
  /\ pc[p] = "add" => \A k \in Key \ {Entry(p)[1]} : work[c][k] = index[c][k]

\* So it is with a clone no operation was aborted on, and what get returned is published.
CleanInv(p) ==
  ~broken[CloneOf[p]] =>
    /\ Clean(p)
    /\ pc[p] = "get_read" => head[CloneOf[p]] \in Anc(remote)
    /\ Succeeded(p, "get") => GotPublished(p)

\* No put writes a key twice.
DistinctKeys ==
  \A o \in Op : o.kind = "put" =>
     \A i, j \in 1..Len(o.entries) : o.entries[i][1] = o.entries[j][1] => i = j

\* A published commit stays published, as it is.
LEMMA PublishedStays ==
  ASSUME TypeOK, GraphOK, GraphStep, NEW x \in Anc(remote)
  PROVE  x \in CommitId /\ x \in Anc(remote)' /\ TreeOf(x)' = TreeOf(x)
<1>1. remote \in CommitId /\ remote # 0 /\ x \in commits[remote].anc
  BY DEF Anc, TypeOK
<1>2. x \in CommitId
  BY <1>1 DEF GraphOK, CommitId, TypeOK
<1> QED BY <1>2, HistoryGrows, CommitsStay

\* What p's own state and clone say stays said when another process steps.
LEMMA OthersKeep ==
  ASSUME IInv, GraphStep, NEW p \in Proc, NEW q \in Proc \ {p}, CloneOf[q] # CloneOf[p],
         Step(p) \/ Abort(p) \/ \E o \in Op : Start(p, o)
  PROVE  (PutInv(q) => PutInv(q)') /\ (CleanInv(q) => CleanInv(q)')
<1> DEFINE c == CloneOf[q]
<1>0. TypeOK /\ GraphOK /\ OriginOK /\ c \in Clone
  BY ConstantsAssumption DEF IInv
<1>1. /\ pc'[q] = pc[q] /\ op'[q] = op[q] /\ at'[q] = at[q] /\ pushed'[q] = pushed[q]
      /\ got'[q] = got[q] /\ result'[q] = result[q]
      /\ head'[c] = head[c] /\ index'[c] = index[c] /\ work'[c] = work[c] /\ broken'[c] = broken[c]
  BY <1>0, StepLocal
<1>2. \A x \in Anc(remote) : x \in CommitId /\ x \in Anc(remote)' /\ TreeOf(x)' = TreeOf(x)
  BY <1>0, PublishedStays
<1>3. TreeOf(head[c])' = TreeOf(head[c]) /\ TreeOf(pushed[q])' = TreeOf(pushed[q])
  <2>1. head[c] \in CommitId /\ pushed[q] \in CommitId
    BY <1>0 DEF TypeOK
  <2> QED BY <1>0, <1>1, <2>1, CommitsStay DEF TreeOf
<1>4. Entry(q)' = Entry(q)
  BY <1>1 DEF Entry
<1>5. PutInv(q) => PutInv(q)'
  BY <1>1, <1>2, <1>3, <1>4 DEF PutInv
<1>6. CleanInv(q) => CleanInv(q)'
  <2>1. Succeeded(q, "get")' = Succeeded(q, "get")
    BY <1>1 DEF Succeeded
  <2>2. GotPublished(q) => GotPublished(q)'
    BY <1>1, <1>2, <1>4 DEF GotPublished
  <2> QED BY <1>1, <1>2, <1>3, <1>4, <2>1, <2>2 DEF CleanInv, Clean
<1> QED BY <1>5, <1>6

\* One entry more is held once it is staged.
LEMMA HoldsMore ==
  ASSUME DistinctKeys, NEW o \in Op, o.kind = "put", NEW t \in Tree,
         NEW n \in 1..Len(o.entries), Holds(t, o, n - 1), NEW u \in Tree,
         u = [t EXCEPT ![o.entries[n][1]] = o.entries[n][2]]
  PROVE  Holds(u, o, n)
<1>1. o.entries \in Seq(Key \X (Val \cup {Absent})) /\ Len(o.entries) \in Nat
  BY ConstantsAssumption
<1>2. \A i \in 1..Len(o.entries) : o.entries[i][1] \in Key
  BY <1>1
<1>3. \A k \in Key : u[k] = IF k = o.entries[n][1] THEN o.entries[n][2] ELSE t[k]
  BY DEF Tree
<1> SUFFICES ASSUME NEW i \in 1..n PROVE u[o.entries[i][1]] = o.entries[i][2]
  BY DEF Holds
<1>4. i \in 1..Len(o.entries) /\ (i = n \/ i \in 1..n - 1)
  BY <1>1
<1>5. CASE i = n
  BY <1>2, <1>3, <1>4, <1>5
<1>6. CASE i \in 1..n - 1 /\ i # n
  <2>1. o.entries[i][1] # o.entries[n][1]
    BY <1>4, <1>6 DEF DistinctKeys
  <2>2. t[o.entries[i][1]] = o.entries[i][2]
    BY <1>6 DEF Holds
  <2> QED BY <1>2, <1>3, <1>4, <2>1, <2>2
<1> QED BY <1>4, <1>5, <1>6

\* put_many, command by command, on its own clone.
LEMMA OwnPut ==
  ASSUME IInv, WritingOK, IInv', GraphStep, DistinctKeys, NEW p \in Proc,
         Step(p) \/ Abort(p) \/ \E o \in Op : Start(p, o), PutInv(p)
  PROVE  PutInv(p)'
<1> DEFINE c == CloneOf[p]
           all == Len(op[p].entries)
<1>0. TypeOK /\ GraphOK /\ OriginOK /\ ControlOK /\ c \in Clone /\ TypeOK'
  BY ConstantsAssumption DEF IInv
<1>t. /\ pc \in [Proc -> Label] /\ op \in [Proc -> Op] /\ at \in [Proc -> Nat \ {0}]
      /\ result \in [Proc -> {"none", "ok", "err"}] /\ pushed \in [Proc -> CommitId]
      /\ index \in [Clone -> Tree] /\ work \in [Clone -> Tree] /\ at[p] <= all
      /\ head \in [Clone -> CommitId]
  BY <1>0 DEF TypeOK
<1>n. all \in Nat /\ op[p] \in Op /\ at[p] \in 1..all
  BY <1>t, ConstantsAssumption
<1>x. \A x \in Anc(remote) : x \in CommitId /\ x \in Anc(remote)' /\ TreeOf(x)' = TreeOf(x)
  BY <1>0, PublishedStays
<1>h. UNCHANGED head => TreeOf(head[c])' = TreeOf(head[c])
  <2>1. head[c] \in CommitId
    BY <1>0 DEF TypeOK
  <2> QED BY <1>0, <2>1, CommitsStay DEF TreeOf
<1>r. \A x \in Anc(remote) : op' = op /\ Holds(TreeOf(x), op[p], all)
                             => Holds(TreeOf(x), op[p], all)'
  BY <1>x DEF Holds
<1>1. CASE \E o \in Op : Start(p, o)
  <2>1. pc'[p] \in {"fetch", "already", "get_fetch"} /\ result'[p] = "none"
    BY <1>1, <1>t, ConstantsAssumption DEF Start, Goto, First
  <2> QED BY <2>1 DEF PutInv
<1>2. CASE Abort(p)
  <2>1. pc'[p] = "idle" /\ result'[p] = "err"
    BY <1>2, <1>t DEF Abort, Finish
  <2> QED BY <2>1 DEF PutInv
<1> DEFINE Kept == (op[p].kind = "put" /\ result'[p] = "ok") =>
                      \E x \in Anc(remote)' : Holds(TreeOf(x)', op[p], all)
<1>k. ASSUME op' = op, op[p].kind # "put" PROVE PutInv(p)'
  BY <1>k DEF PutInv
<1>3. ASSUME op' = op, result'[p] = result[p] PROVE Kept
  BY <1>3, <1>x DEF PutInv
<1>4. CASE Fetch(p) \/ CheckoutBranchAtOrigin(p) \/ EnsureLfsPattern(p)
  <2>1. CASE Fetch(p)
    BY <1>3, <1>t, <2>1 DEF Fetch, Goto, PutInv
  <2>2. CASE CheckoutBranchAtOrigin(p)
    <3>1. pc'[p] \in {"write", "rm"} /\ at'[p] = 1 /\ op' = op /\ result' = result
      BY <1>t, <2>2 DEF CheckoutBranchAtOrigin, Goto, ApplyLabel
    <3>2. \A t : Holds(t, op[p], 0)
      BY DEF Holds
    <3> QED BY <1>3, <3>1, <3>2 DEF PutInv
  <2>3. CASE EnsureLfsPattern(p)
    BY <1>0, <1>k, <2>3 DEF EnsureLfsPattern, ControlOK
  <2> QED BY <1>4, <2>1, <2>2, <2>3
<1>5. CASE WriteFile(p)
  <2> SUFFICES ASSUME op[p].kind = "put" PROVE PutInv(p)'
    BY <1>5, <1>k DEF WriteFile
  <2>1. /\ pc'[p] = "add" /\ op' = op /\ at' = at /\ result' = result /\ index' = index
        /\ work' = [work EXCEPT ![c][Entry(p)[1]] = Written(p)]
    BY <1>5, <1>t DEF WriteFile, Goto
  <2>2. Entry(p)[1] \in Key /\ Entry(p)[1] # AttrsKey /\ Written(p) = Entry(p)[2]
    BY <1>0, EntryType DEF Written
  <2>3. work'[c][Entry(p)[1]] = Entry(p)[2] /\ Entry(p)' = Entry(p)
    <3>1. DOMAIN work[c] = Key
      BY <1>0, <1>t DEF Tree
    <3> QED BY <1>0, <1>t, <2>1, <2>2, <3>1 DEF Entry
  <2>4. Holds(index[c], op[p], at[p] - 1)
    BY <1>5 DEF PutInv, WriteFile
  <2> QED BY <1>3, <2>1, <2>3, <2>4 DEF PutInv
<1>6. CASE GitAdd(p)
  <2> SUFFICES ASSUME op[p].kind = "put" PROVE PutInv(p)'
    BY <1>6, <1>k DEF GitAdd
  <2>1. /\ op' = op /\ result' = result
        /\ index' = [index EXCEPT ![c][Entry(p)[1]] = work[c][Entry(p)[1]]]
        /\ \/ at[p] < all /\ at'[p] = at[p] + 1 /\ pc'[p] = "write"
           \/ at[p] >= all /\ at'[p] = at[p] /\ pc'[p] = "commit"
    BY <1>6, <1>t, <1>n DEF GitAdd, Goto
  <2>2. work[c][Entry(p)[1]] = Entry(p)[2] /\ Holds(index[c], op[p], at[p] - 1)
    BY <1>6 DEF PutInv, GitAdd
  <2>3. index'[c] = [index[c] EXCEPT ![op[p].entries[at[p]][1]] = op[p].entries[at[p]][2]]
    BY <1>0, <1>t, <2>1, <2>2 DEF Entry
  <2>4. index'[c] \in Tree
    BY <1>0 DEF TypeOK
  <2>5. Holds(index'[c], op[p], at[p])
    BY <1>n, <1>0, <1>t, <2>2, <2>3, <2>4, HoldsMore
  <2>6. at[p] >= all => at[p] = all
    BY <1>n
  <2>7. pc'[p] = "write" => at'[p] - 1 = at[p]
    BY <1>n, <2>1
  <2>8. pc'[p] = "commit" => at[p] = all
    BY <2>1, <2>6
  <2>9. pc'[p] \in {"write", "commit"}
    BY <2>1
  <2>10. Kept
    BY <1>3, <2>1
  <2>11. Len(op'[p].entries) = all /\ op'[p] = op[p] /\ result'[p] = result[p]
    BY <2>1
  <2> HIDE DEF all, c
  <2> QED BY <2>5, <2>7, <2>8, <2>9, <2>10, <2>11 DEF PutInv, c, all
<1>7. CASE GitRm(p)
  BY <1>7, <1>k DEF GitRm, WritingOK
<1>8. CASE CommitStaged(p)
  <2> SUFFICES ASSUME op[p].kind = "put" PROVE PutInv(p)'
    BY <1>8, <1>k DEF CommitStaged
  <2>1. op' = op /\ Holds(index[c], op[p], all)
        /\ \/ pc'[p] = "push" /\ result' = result
           \/ pc'[p] = "idle" /\ result'[p] = "err"
    BY <1>8, <1>t DEF CommitStaged, PushOrGiveUp, Goto, Finish, PutInv
  <2>2. TreeOf(head[c])' = index[c]
    <3>1. CASE index[c] = TreeOf(head[c])
      BY <1>h, <1>8, <3>1 DEF CommitStaged
    <3>2. CASE index[c] # TreeOf(head[c])
      <4>1. commits \in Seq(Commit) /\ Len(commits) \in Nat
        BY <1>0 DEF TypeOK
      <4>2. commits' = Append(commits, NewCommit(c)) /\ head'[c] = Len(commits) + 1
        BY <1>0, <1>8, <1>t, <3>2 DEF CommitStaged, NewCommit
      <4> QED BY <4>1, <4>2 DEF TreeOf, NewCommit
    <3> QED BY <3>1, <3>2
  <2> QED BY <1>3, <2>1, <2>2 DEF PutInv
<1>9. CASE PushAccepted(p)
  <2> SUFFICES ASSUME op[p].kind = "put" PROVE PutInv(p)'
    BY <1>9, <1>k DEF PushAccepted
  <2>1. /\ op' = op /\ result' = result /\ pc'[p] = "head_sha" /\ head' = head
        /\ commits' = commits /\ remote' = head[c] /\ head[c] # 0
        /\ Holds(TreeOf(head[c]), op[p], all)
    BY <1>9, <1>t DEF PushAccepted, Goto, PutInv, GitPushAllowed
  <2>2. head'[c] \in Anc(remote)'
    BY <1>0, <1>t, <2>1 DEF GraphOK, Anc, CommitId
  <2> QED BY <1>3, <1>h, <2>1, <2>2 DEF PutInv
<1>10. CASE PushFailed(p)
  <2>1. /\ op' = op /\ result' = result /\ pc'[p] = "refetch" /\ head' = head
        /\ op[p].kind = "put" => Holds(TreeOf(head[c]), op[p], all)
    BY <1>10, <1>t DEF PushFailed, Goto, PutInv, clones
  <2> QED BY <1>3, <1>h, <2>1 DEF PutInv
<1>11. CASE RefetchAfterFailure(p)
  <2>1. /\ op' = op /\ head' = head
        /\ \/ result' = result /\ pc'[p] \in {"checkout", "push"}
           \/ result'[p] = "err" /\ pc'[p] = "idle"
        /\ op[p].kind = "put" => Holds(TreeOf(head[c]), op[p], all)
    BY <1>11, <1>t DEF RefetchAfterFailure, GitFetch, PushOrGiveUp, Goto, Finish, PutInv
  <2> QED BY <1>3, <1>h, <2>1 DEF PutInv
<1>12. CASE HeadSha(p)
  <2>1. /\ op' = op /\ result' = result /\ pc'[p] = "verify_fetch"
        /\ pushed'[p] = head[c] /\ commits' = commits
        /\ op[p].kind = "put" => Holds(TreeOf(head[c]), op[p], all) /\ head[c] \in Anc(remote)
    BY <1>12, <1>t DEF HeadSha, Goto, PutInv, git
  <2>2. TreeOf(pushed[p])' = TreeOf(head[c])
    BY <2>1 DEF TreeOf
  <2> QED BY <1>3, <1>x, <2>1, <2>2 DEF PutInv
<1>13. CASE VerifyFetch(p)
  <2>1. /\ op' = op /\ result' = result /\ pc'[p] = "verify" /\ pushed' = pushed
        /\ op[p].kind = "put" => pushed[p] \in Anc(remote) /\ Holds(TreeOf(pushed[p]), op[p], all)
    BY <1>13, <1>t DEF VerifyFetch, Goto, PutInv
  <2>2. op[p].kind = "put" => TreeOf(pushed[p])' = TreeOf(pushed[p])
    BY <1>x, <2>1 DEF TreeOf
  <2> QED BY <1>3, <1>x, <2>1, <2>2 DEF PutInv
<1>14. CASE VerifyPublished(p)
  <2>1. /\ op' = op /\ pc'[p] = "idle"
        /\ op[p].kind = "put" => pushed[p] \in Anc(remote) /\ Holds(TreeOf(pushed[p]), op[p], all)
    BY <1>14, <1>t DEF VerifyPublished, Finish, PutInv
  <2>2. Kept
    BY <1>x, <2>1
  <2> QED BY <2>1, <2>2 DEF PutInv
<1>15. CASE GetFetch(p) \/ GetCheckout(p) \/ GetRead(p)
  <2>1. op' = op
    BY <1>15 DEF GetFetch, GetCheckout, GetRead
  <2>2. op[p].kind = "get"
    BY <1>0, <1>15 DEF GetFetch, GetCheckout, GetRead, ControlOK
  <2> QED BY <1>k, <2>1, <2>2
<1> QED
  BY <1>1, <1>2, <1>4, <1>5, <1>6, <1>7, <1>8, <1>9, <1>10, <1>11, <1>12, <1>13, <1>14, <1>15 DEF Step

LEMMA OwnClean ==
  ASSUME IInv, IInv', GraphStep, NEW p \in Proc, Step(p) \/ \E o \in Op : Start(p, o), Clean(p)
  PROVE  Clean(p)'
<1> DEFINE c == CloneOf[p]
           busy == {"write", "add", "commit"}
<1>0. TypeOK /\ ControlOK /\ c \in Clone /\ TypeOK'
  BY ConstantsAssumption DEF IInv
<1>t. /\ pc \in [Proc -> Label] /\ op \in [Proc -> Op] /\ at \in [Proc -> Nat \ {0}]
      /\ index \in [Clone -> Tree] /\ work \in [Clone -> Tree] /\ head \in [Clone -> CommitId]
      /\ index[c] \in Tree /\ work[c] \in Tree /\ index'[c] \in Tree /\ work'[c] \in Tree
  BY <1>0 DEF TypeOK
<1>e. \A t, u \in Tree : (\A k \in Key : t[k] = u[k]) => t = u
  BY DEF Tree
<1>h. UNCHANGED head => TreeOf(head[c])' = TreeOf(head[c])
  <2>1. head[c] \in CommitId
    BY <1>0 DEF TypeOK
  <2> QED BY <1>0, <2>1, CommitsStay DEF TreeOf
<1>1. ASSUME pc[p] \notin busy, pc'[p] # "add", UNCHANGED <<head, index, work>> PROVE Clean(p)'
  BY <1>h, <1>1 DEF Clean
<1>2. CASE \E o \in Op : Start(p, o)
  <2>1. pc[p] \notin busy /\ pc'[p] # "add" /\ UNCHANGED <<head, index, work>>
    BY <1>2, <1>t, ConstantsAssumption DEF Start, Goto, First, clones
  <2> QED BY <1>1, <2>1
<1>3. CASE \/ Fetch(p) \/ VerifyFetch(p) \/ GetFetch(p) \/ RefetchAfterFailure(p)
           \/ EnsureLfsPattern(p) \/ HeadSha(p) \/ VerifyPublished(p) \/ GetRead(p)
           \/ PushAccepted(p) \/ PushFailed(p)
  <2>1. pc[p] \notin busy /\ pc'[p] # "add" /\ UNCHANGED <<head, index, work>>
    BY <1>3, <1>t DEF Fetch, VerifyFetch, GetFetch, RefetchAfterFailure, GitFetch, PushOrGiveUp,
       EnsureLfsPattern, HeadSha, VerifyPublished, GetRead, PushAccepted, PushFailed, Goto, Finish,
       clones
  <2> QED BY <1>1, <2>1
<1>4. CASE CheckoutBranchAtOrigin(p)
  <2>1. pc[p] \notin busy /\ pc'[p] \in {"write", "rm"}
        /\ index[c] = TreeOf(head[c]) /\ work[c] = index[c]
    BY <1>4, <1>t DEF CheckoutBranchAtOrigin, Goto, ApplyLabel, Clean
  <2>2. CASE origin[c] = 0
    BY <1>1, <1>4, <2>1, <2>2 DEF CheckoutBranchAtOrigin, clones
  <2>3. CASE GitCheckoutForce(c)
    <3> DEFINE target == TreeOf(origin[c])
    <3>0. target \in Tree
      BY <1>0, CommitTypes DEF TypeOK
    <3>1. /\ commits' = commits /\ head'[c] = origin[c] /\ index'[c] = target
          /\ work'[c] = [k \in Key |-> IF target[k] = Absent /\ index[c][k] = Absent
                                       THEN work[c][k] ELSE target[k]]
      BY <1>0, <1>t, <2>3 DEF GitCheckoutForce, git
    <3>2. TreeOf(head[c])' = target
      BY <3>1 DEF TreeOf
    <3>3. \A k \in Key : work'[c][k] = target[k]
      BY <2>1, <3>1
    <3>4. work'[c] = target
      BY <1>e, <1>t, <3>0, <3>3
    <3> QED BY <2>1, <3>1, <3>2, <3>4 DEF Clean
  <2> QED BY <1>4, <2>2, <2>3 DEF CheckoutBranchAtOrigin
<1>5. CASE WriteFile(p)
  <2>1. /\ pc'[p] = "add" /\ pc[p] = "write" /\ index' = index
        /\ work' = [work EXCEPT ![c][Entry(p)[1]] = Written(p)] /\ UNCHANGED <<op, at>>
    BY <1>5, <1>t DEF WriteFile, Goto
  <2>2. Entry(p)' = Entry(p)
    BY <2>1 DEF Entry
  <2>3. \A k \in Key \ {Entry(p)[1]} : work'[c][k] = work[c][k]
    BY <1>0, <1>t, <2>1 DEF Tree
  <2> QED BY <2>1, <2>2, <2>3 DEF Clean
<1>6. CASE GitAdd(p)
  <2>1. /\ pc'[p] \in {"write", "commit"} /\ pc[p] = "add" /\ work' = work
        /\ index' = [index EXCEPT ![c][Entry(p)[1]] = work[c][Entry(p)[1]]]
    BY <1>6, <1>t DEF GitAdd, Goto
  <2>2. \A k \in Key : index'[c][k] = IF k = Entry(p)[1] THEN work[c][k] ELSE index[c][k]
    BY <1>0, <1>t, <2>1 DEF Tree
  <2>3. \A k \in Key : work'[c][k] = index'[c][k]
    BY <2>1, <2>2 DEF Clean
  <2>4. work'[c] = index'[c]
    BY <1>e, <1>t, <2>3
  <2> QED BY <2>1, <2>4 DEF Clean
<1>7. CASE GitRm(p)
  <2>1. /\ pc[p] = "rm" /\ head' = head /\ index[c] = TreeOf(head[c]) /\ work[c] = index[c]
    BY <1>7 DEF GitRm, Clean
  <2>2. CASE UNCHANGED <<index, work>>
    <3>1. pc'[p] \in {"commit", "idle"}
      BY <1>7, <1>t DEF GitRm, Goto, Finish
    <3> QED BY <1>1, <2>1, <2>2, <3>1
  <2>3. CASE ~UNCHANGED <<index, work>>
    <3> DEFINE K == {k \in EntryKeys(op[p]) : index[c][k] # Absent}
    <3>1. /\ index'[c] = [k \in Key |-> IF k \in K THEN Absent ELSE index[c][k]]
          /\ work'[c] = [k \in Key |-> IF k \in K THEN Absent ELSE work[c][k]]
          /\ pc'[p] = "commit"
      BY <1>7, <1>0, <1>t, <2>3 DEF GitRm, Goto
    <3> QED BY <2>1, <3>1 DEF Clean
  <2> QED BY <2>2, <2>3
<1>8. CASE CommitStaged(p)
  <2>1. /\ pc[p] = "commit" /\ pc'[p] \in {"push", "idle"} /\ index' = index /\ work' = work
        /\ work[c] = index[c]
    BY <1>8, <1>t DEF CommitStaged, PushOrGiveUp, Goto, Finish, Clean
  <2>2. TreeOf(head[c])' = index[c]
    <3>1. CASE index[c] = TreeOf(head[c])
      BY <1>h, <1>8, <3>1 DEF CommitStaged
    <3>2. CASE index[c] # TreeOf(head[c])
      <4>1. commits \in Seq(Commit) /\ Len(commits) \in Nat
        BY <1>0 DEF TypeOK
      <4>2. commits' = Append(commits, NewCommit(c)) /\ head'[c] = Len(commits) + 1
        BY <1>0, <1>8, <1>t, <3>2 DEF CommitStaged, NewCommit
      <4> QED BY <4>1, <4>2 DEF TreeOf, NewCommit
    <3> QED BY <3>1, <3>2
  <2> QED BY <2>1, <2>2 DEF Clean
<1>9. CASE GetCheckout(p)
  <2>1. pc[p] \notin busy /\ pc'[p] \in {"get_read", "idle"}
        /\ index[c] = TreeOf(head[c]) /\ work[c] = index[c]
    BY <1>9, <1>t DEF GetCheckout, Goto, Finish, Clean
  <2>2. CASE UNCHANGED clones
    BY <1>1, <2>1, <2>2 DEF clones
  <2>3. CASE GitCheckout(c)
    <3> DEFINE target == TreeOf(origin[c])
    <3>0. target \in Tree
      BY <1>0, CommitTypes DEF TypeOK
    <3>1. /\ commits' = commits /\ head'[c] = origin[c]
          /\ index'[c] = [k \in Key |-> IF KeepsLocal(c, k) THEN index[c][k] ELSE target[k]]
          /\ work'[c] = [k \in Key |-> IF KeepsLocal(c, k) THEN work[c][k] ELSE target[k]]
      BY <1>0, <1>t, <2>3 DEF GitCheckout, git
    <3>2. TreeOf(head[c])' = target
      BY <3>1 DEF TreeOf
    <3>3. \A k \in Key : KeepsLocal(c, k) => index[c][k] = target[k]
      BY <2>1 DEF KeepsLocal
    <3>4. \A k \in Key : index'[c][k] = target[k] /\ work'[c][k] = target[k]
      BY <2>1, <3>1, <3>3
    <3>5. index'[c] = target /\ work'[c] = target
      BY <1>e, <1>t, <3>0, <3>4
    <3> QED BY <2>1, <3>2, <3>5 DEF Clean
  <2> QED BY <1>9, <2>2, <2>3 DEF GetCheckout
<1> QED
  BY <1>2, <1>3, <1>4, <1>5, <1>6, <1>7, <1>8, <1>9 DEF Step

\* get reads what its checkout put there, which is on the branch.
LEMMA OwnGet ==
  ASSUME IInv, WritingOK, GraphStep, NEW p \in Proc, Step(p) \/ \E o \in Op : Start(p, o), Clean(p),
         pc[p] = "get_read" => head[CloneOf[p]] \in Anc(remote),
         Succeeded(p, "get") => GotPublished(p)
  PROVE  /\ pc'[p] = "get_read" => head'[CloneOf[p]] \in Anc(remote)'
         /\ Succeeded(p, "get")' => GotPublished(p)'
<1> DEFINE c == CloneOf[p]
           Goal == /\ pc'[p] = "get_read" => head'[c] \in Anc(remote)'
                   /\ Succeeded(p, "get")' => GotPublished(p)'
<1>0. TypeOK /\ GraphOK /\ OriginOK /\ ControlOK /\ c \in Clone
  BY ConstantsAssumption DEF IInv
<1>t. /\ pc \in [Proc -> Label] /\ op \in [Proc -> Op] /\ head \in [Clone -> CommitId]
      /\ result \in [Proc -> {"none", "ok", "err"}] /\ got \in [Proc -> Content]
  BY <1>0 DEF TypeOK
<1>1. ASSUME pc'[p] # "get_read", Succeeded(p, "get")' => Succeeded(p, "get"),
             UNCHANGED <<op, at, got>>
      PROVE  Goal
  <2>1. Entry(p)' = Entry(p)
    BY <1>1 DEF Entry
  <2>2. GotPublished(p) => GotPublished(p)'
    BY <1>0, <1>1, <2>1, PublishedStays DEF GotPublished
  <2> QED BY <1>1, <2>2
<1>2. ASSUME pc'[p] # "get_read", ~Succeeded(p, "get")' PROVE Goal
  BY <1>2
<1>3. CASE \E o \in Op : Start(p, o)
  <2>1. pc'[p] # "get_read" /\ result'[p] = "none"
    BY <1>3, <1>t, ConstantsAssumption DEF Start, Goto, First
  <2> QED BY <1>2, <2>1 DEF Succeeded
<1>4. CASE \/ Fetch(p) \/ VerifyFetch(p) \/ GetFetch(p) \/ HeadSha(p) \/ PushFailed(p)
  <2>1. pc'[p] # "get_read" /\ UNCHANGED <<op, at, got, result>>
    BY <1>4, <1>t DEF Fetch, VerifyFetch, GetFetch, HeadSha, PushFailed, Goto
  <2> QED BY <1>1, <2>1 DEF Succeeded
<1>5. CASE \/ CheckoutBranchAtOrigin(p) \/ WriteFile(p) \/ GitAdd(p) \/ GitRm(p) \/ CommitStaged(p)
           \/ PushAccepted(p) \/ EnsureLfsPattern(p) \/ RefetchAfterFailure(p) \/ VerifyPublished(p)
  <2>1. pc'[p] # "get_read"
    BY <1>5, <1>t DEF CheckoutBranchAtOrigin, WriteFile, GitAdd, GitRm, CommitStaged, PushAccepted,
       EnsureLfsPattern, RefetchAfterFailure, VerifyPublished, PushOrGiveUp, Goto, Finish, ApplyLabel
  <2>2. op' = op
    BY <1>5 DEF CheckoutBranchAtOrigin, WriteFile, GitAdd, GitRm, CommitStaged, PushAccepted,
       EnsureLfsPattern, RefetchAfterFailure, VerifyPublished
  <2>3. pc[p] \notin {"idle", "get_fetch", "get_checkout", "get_read"}
    BY <1>5 DEF CheckoutBranchAtOrigin, WriteFile, GitAdd, GitRm, CommitStaged, PushAccepted,
       EnsureLfsPattern, RefetchAfterFailure, VerifyPublished
  <2>4. op'[p].kind # "get"
    BY <2>2, <2>3 DEF WritingOK
  <2> QED BY <1>2, <2>1, <2>4 DEF Succeeded
<1>6. CASE GetCheckout(p)
  <2>1. CASE TreeOf(origin[c])[Entry(p)[1]] # Absent /\ GitCheckoutAllowed(c)
    <3>1. origin[c] # 0
      BY <1>0, <2>1, EntryType DEF TreeOf, EmptyTree
    <3>2. /\ UNCHANGED <<op, at, got, commits, remote, result>> /\ head'[c] = origin[c]
          /\ pc'[p] = "get_read"
      BY <1>6, <1>0, <1>t, <2>1 DEF GetCheckout, GitCheckout, Goto, git
    <3>3. head'[c] \in Anc(remote)'
      BY <1>0, <3>1, <3>2 DEF OriginOK, Anc
    <3>4. Entry(p)' = Entry(p) /\ (Succeeded(p, "get")' => Succeeded(p, "get"))
      BY <3>2 DEF Entry, Succeeded
    <3>5. GotPublished(p) => GotPublished(p)'
      BY <1>0, <3>2, <3>4, PublishedStays DEF GotPublished
    <3> QED BY <3>3, <3>4, <3>5
  <2>2. CASE ~(TreeOf(origin[c])[Entry(p)[1]] # Absent /\ GitCheckoutAllowed(c))
    <3>1. pc'[p] = "idle" /\ result'[p] = "err"
      BY <1>6, <1>t, <2>2 DEF GetCheckout, Finish
    <3> QED BY <3>1 DEF Succeeded
  <2> QED BY <2>1, <2>2
<1>7. CASE GetRead(p)
  <2>1. /\ head[c] \in Anc(remote) /\ work[c] = TreeOf(head[c])
        /\ got'[p] = work[c][Entry(p)[1]] /\ UNCHANGED <<commits, remote, op, at>> /\ pc'[p] = "idle"
    BY <1>7, <1>t DEF GetRead, Finish, Clean, git
  <2>2. PICK x \in Anc(remote) : x = head[c]
    BY <2>1
  <2>3. /\ x \in Anc(remote)' /\ TreeOf(x)' = TreeOf(x) /\ Entry(p)' = Entry(p)
        /\ TreeOf(x)[Entry(p)[1]] = got'[p]
    BY <1>0, <2>1, <2>2, PublishedStays DEF Entry
  <2>4. GotPublished(p)'
    BY <2>3 DEF GotPublished
  <2> QED BY <2>1, <2>4
<1> QED
  BY <1>3, <1>4, <1>5, <1>6, <1>7 DEF Step

\* No two processes share a working clone.
Unshared == \A p, q \in Proc : CloneOf[p] = CloneOf[q] => p = q

\* get, on a clone no other process uses and none left half-way, returns bytes that were
\* published at that key, whatever the network, the other clones and other kills did.
THEOREM GetReadsPublished == Spec => []GetFromCleanClone
<1> DEFINE Inv == \A p \in Proc : Owned(p) => CleanInv(p)
<1>1. Init => Inv
  <2> SUFFICES ASSUME Init, NEW p \in Proc PROVE CleanInv(p)
    OBVIOUS
  <2>1. CloneOf[p] \in Clone
    BY ConstantsAssumption
  <2> QED BY <2>1 DEF Init, CleanInv, Clean, Succeeded, TreeOf
<1>2. CacheInv /\ IInv' /\ Inv /\ [Next]_vars => Inv'
  <2> SUFFICES ASSUME CacheInv, IInv', Inv, [Next]_vars, NEW q \in Proc, Owned(q) PROVE CleanInv(q)'
    BY DEF Owned
  <2>0. IInv /\ WritingOK /\ GraphStep /\ CleanInv(q)
    BY NextGraph, SMTT(30) DEF CacheInv, IInv
  <2>1. CASE UNCHANGED vars
    BY <2>0, <2>1 DEF vars, CleanInv, Clean, Succeeded, GotPublished, TreeOf, Anc, Entry
  <2>2. ASSUME NEW p \in Proc, Step(p) \/ Abort(p) \/ \E o \in Op : Start(p, o) PROVE CleanInv(q)'
    <3>1. CASE p # q
      BY <2>0, <2>2, <3>1, OthersKeep DEF Owned
    <3>2. CASE p = q /\ Abort(p)
      <4>1. broken'[CloneOf[q]]
        BY <2>0, <3>2, ConstantsAssumption DEF Abort, IInv, TypeOK
      <4> QED BY <4>1 DEF CleanInv
    <3>3. ASSUME p = q, Step(p) \/ \E o \in Op : Start(p, o) PROVE CleanInv(q)'
      <4>1. broken' = broken
        BY <3>3 DEF Start, Step, Fetch, CheckoutBranchAtOrigin, GitCheckoutForce, GitFetch,
           EnsureLfsPattern, WriteFile, GitAdd, GitRm, CommitStaged, PushAccepted, PushFailed,
           RefetchAfterFailure, HeadSha, VerifyFetch, VerifyPublished, GetFetch, GetCheckout,
           GitCheckout, GetRead, aux
      <4> SUFFICES ASSUME ~broken[CloneOf[q]]
                   PROVE  /\ Clean(q)'
                          /\ pc'[q] = "get_read" => head'[CloneOf[q]] \in Anc(remote)'
                          /\ Succeeded(q, "get")' => GotPublished(q)'
        BY <4>1 DEF CleanInv
      <4>2. /\ Clean(p)
            /\ pc[p] = "get_read" => head[CloneOf[p]] \in Anc(remote)
            /\ Succeeded(p, "get") => GotPublished(p)
        BY <2>0, <3>3 DEF CleanInv
      <4>3. Clean(p)'
        BY <2>0, <3>3, <4>2, OwnClean
      <4>4. /\ pc'[p] = "get_read" => head'[CloneOf[p]] \in Anc(remote)'
            /\ Succeeded(p, "get")' => GotPublished(p)'
        BY <2>0, <3>3, <4>2, OwnGet
      <4> QED BY <3>3, <4>3, <4>4, SMTT(30)
    <3> QED BY <2>2, <3>1, <3>2, <3>3
  <2> QED BY <2>1, <2>2 DEF Next
<1>3. Inv => GetFromCleanClone
  BY DEF CleanInv, GetFromCleanClone
<1> QED
  BY <1>1, <1>2, <1>3, Invariance, CacheInvariance, PTL DEF Spec

\* With no shared clone, a put that succeeded published exactly its bytes, and a get that
\* succeeded returned bytes that were published.
THEOREM ResultsAreExact ==
  ASSUME Unshared, DistinctKeys
  PROVE  Spec => []ResultsExact
<1> DEFINE Inv == \A p \in Proc : PutInv(p)
<1>1. Init => Inv
  BY DEF Init, PutInv
<1>2. CacheInv /\ IInv' /\ Inv /\ [Next]_vars => Inv'
  <2> SUFFICES ASSUME CacheInv, IInv', Inv, [Next]_vars, NEW q \in Proc PROVE PutInv(q)'
    OBVIOUS
  <2>0. IInv /\ WritingOK /\ GraphStep /\ PutInv(q)
    BY NextGraph, SMTT(30) DEF CacheInv, IInv
  <2>1. CASE UNCHANGED vars
    BY <2>0, <2>1, ZenonT(60) DEF vars, PutInv, Holds, TreeOf, Anc, Entry
  <2>2. ASSUME NEW p \in Proc, Step(p) \/ Abort(p) \/ \E o \in Op : Start(p, o) PROVE PutInv(q)'
    <3>1. CASE p # q
      BY <2>0, <2>2, <3>1, OthersKeep DEF Unshared
    <3>2. CASE p = q
      BY <2>0, <2>2, <3>2, OwnPut
    <3> QED BY <3>1, <3>2
  <2> QED BY <2>1, <2>2 DEF Next
<1>3. Inv => PutOkExact
  <2> SUFFICES ASSUME Inv, NEW p \in Proc, Succeeded(p, "put"), NEW j \in 1..Len(op[p].entries)
               PROVE  \E x \in Anc(remote) :
                        TreeOf(x)[op[p].entries[j][1]] = op[p].entries[j][2]
    BY DEF PutOkExact
  <2>1. PICK x \in Anc(remote) : Holds(TreeOf(x), op[p], Len(op[p].entries))
    BY DEF PutInv, Succeeded
  <2> QED BY <2>1 DEF Holds
<1> QED
  BY <1>1, <1>2, <1>3, Invariance, CacheInvariance, GetReadsPublished, PTL DEF Spec, ResultsExact

------------------------------------------------------------------------------
(* No pointer without its artifact. *)

\* Each pointer of tree t names an artifact that t holds.
PointersOK(t) ==
  \A k \in Key \ (ArtifactKey \cup {AttrsKey}) :
     t[k] \in DOMAIN PointsTo => t[PointsTo[t[k]]] # Absent

\* push_one's entries: operations put, an artifact before the pointer to it, and get.
PointersLast ==
  /\ Absent \notin DOMAIN PointsTo
  /\ \A o \in Op :
       /\ o.kind \in {"put", "get"}
       /\ o.kind = "put" => \A j \in 1..Len(o.entries) :
            o.entries[j][1] \notin ArtifactKey /\ o.entries[j][2] \in DOMAIN PointsTo
              => \E i \in 1..j - 1 : o.entries[i][1] = PointsTo[o.entries[j][2]]

\* Tree t has a file for each of the first n entries of operation o.
Present(t, o, n) == \A i \in 1..n : t[o.entries[i][1]] # Absent

\* Every commit is sound, and so is what process p may commit next: what is staged while
\* it works, and what stays staged on a clone that has no branch to start from.
CommitsOK == \A x \in CommitId : PointersOK(TreeOf(x))
StagedInv(p) ==
  LET c == CloneOf[p] IN
  /\ pc[p] \in {"write", "add", "commit"} \/ origin[c] = 0 => PointersOK(index[c])
  /\ pc[p] \in {"write", "add"} => Present(index[c], op[p], at[p] - 1)
  /\ pc[p] = "add" => work[c][Entry(p)[1]] = Entry(p)[2]

PointerInv == CommitsOK /\ \A p \in Proc : StagedInv(p)

\* Staging the next entry of a put keeps the pointers of the index sound.
LEMMA StagingKeepsPointers ==
  ASSUME PointersLast, NEW o \in Op, o.kind = "put", NEW t \in Tree, NEW u \in Tree,
         NEW n \in 1..Len(o.entries), PointersOK(t),
         Present(t, o, n - 1),
         u = [t EXCEPT ![o.entries[n][1]] = o.entries[n][2]]
  PROVE  PointersOK(u) /\ Present(u, o, n)
<1> DEFINE e == o.entries[n]
<1>1. o.entries \in Seq(Key \X (Val \cup {Absent})) /\ Len(o.entries) \in Nat
  BY ConstantsAssumption
<1>2. \A i \in 1..Len(o.entries) : o.entries[i][1] \in Key
  BY <1>1
<1>3. e[2] \in Val /\ e[2] # Absent
  BY ConstantsAssumption
<1>4. \A k \in Key : u[k] = IF k = e[1] THEN e[2] ELSE t[k]
  BY DEF Tree
<1>5. \A i \in 1..n : i \in 1..Len(o.entries) /\ (i = n \/ i \in 1..n - 1)
  BY <1>1
<1>6. \A k \in Key : t[k] # Absent => u[k] # Absent
  BY <1>3, <1>4
<1>7. \A i \in 1..n : u[o.entries[i][1]] # Absent
  <2> TAKE i \in 1..n
  <2>1. CASE i = n
    BY <1>2, <1>3, <1>4, <2>1
  <2>2. CASE i \in 1..n - 1
    BY <1>2, <1>5, <1>6, <2>2 DEF Present
  <2> QED BY <1>5, <2>1, <2>2
<1>8. ASSUME NEW k \in Key \ (ArtifactKey \cup {AttrsKey}), u[k] \in DOMAIN PointsTo
      PROVE  u[PointsTo[u[k]]] # Absent
  <2>1. CASE k = e[1]
    <3>1. u[k] = e[2] /\ e[1] \notin ArtifactKey
      BY <1>4, <2>1
    <3>2. PICK i \in 1..n - 1 : o.entries[i][1] = PointsTo[e[2]]
      BY <1>8, <3>1 DEF PointersLast
    <3>3. i \in 1..n
      BY <1>1
    <3> QED BY <1>7, <3>1, <3>2, <3>3
  <2>2. CASE k # e[1]
    <3>1. u[k] = t[k]
      BY <1>4, <2>2
    <3>2. t[PointsTo[t[k]]] # Absent
      BY <1>8, <3>1 DEF PointersOK
    <3>3. PointsTo[t[k]] \in Key
      BY <1>8, <3>1, ConstantsAssumption
    <3> QED BY <1>6, <3>1, <3>2, <3>3
  <2> QED BY <2>1, <2>2
<1> QED BY <1>7, <1>8 DEF PointersOK, Present

\* A clone whose fetch found no branch had none before.
LEMMA UnbornBefore ==
  ASSUME TypeOK, OriginOK, NEW c \in Clone, GitFetch(c), origin'[c] = 0
  PROVE  origin[c] = 0
BY DEF TypeOK, OriginOK, GitFetch, Anc

\* A new commit is what was staged.
LEMMA NextCommitsOK ==
  ASSUME TypeOK, CommitsOK, GraphStep, NEW p \in Proc,
         Step(p) \/ Abort(p) \/ \E o \in Op : Start(p, o), StagedInv(p)
  PROVE  CommitsOK'
<1>1. commits \in Seq(Commit) /\ Len(commits) \in Nat
  BY DEF TypeOK
<1>2. ASSUME commits' = commits PROVE CommitsOK'
  BY <1>2 DEF CommitsOK, CommitId, TreeOf
<1>3. ASSUME CommitStaged(p), commits' # commits PROVE CommitsOK'
  <2> DEFINE c == CloneOf[p]
  <2>0. PICK new : new = Len(commits) + 1
    OBVIOUS
  <2>1. PointersOK(index[c])
    BY <1>3 DEF CommitStaged, StagedInv
  <2>2. commits' = Append(commits, NewCommit(c))
    BY <1>3 DEF CommitStaged, NewCommit
  <2>3. CommitId' = CommitId \cup {new} /\ commits'[new] = NewCommit(c) /\ new # 0
    BY <1>1, <2>0, <2>2 DEF CommitId
  <2>4. \A x \in CommitId : TreeOf(x)' = TreeOf(x)
    BY CommitsStay
  <2>5. TreeOf(new)' = index[c]
    BY <2>3 DEF TreeOf, NewCommit
  <2>6. ASSUME NEW x \in CommitId' PROVE PointersOK(TreeOf(x)')
    BY <2>1, <2>3, <2>4, <2>5 DEF CommitsOK
  <2> QED BY <2>6 DEF CommitsOK, PointersOK
<1>4. CASE \/ Fetch(p) \/ CheckoutBranchAtOrigin(p) \/ EnsureLfsPattern(p)
           \/ WriteFile(p) \/ GitAdd(p) \/ GitRm(p) \/ PushAccepted(p) \/ PushFailed(p)
           \/ RefetchAfterFailure(p) \/ HeadSha(p) \/ VerifyFetch(p) \/ VerifyPublished(p)
           \/ GetFetch(p) \/ GetCheckout(p) \/ GetRead(p) \/ Abort(p)
           \/ \E o \in Op : Start(p, o)
  <2>1. commits' = commits
    BY <1>4 DEF Fetch, CheckoutBranchAtOrigin, GitCheckoutForce, GitFetch, EnsureLfsPattern,
       WriteFile, GitAdd, GitRm, PushAccepted, PushFailed, RefetchAfterFailure, HeadSha, VerifyFetch,
       VerifyPublished, GetFetch, GetCheckout, GitCheckout, GetRead, Abort, Start, git
  <2> QED BY <1>2, <2>1, SMTT(30)
<1> QED BY <1>2, <1>3, <1>4 DEF Step

\* What is staged stays sound, command by command.
LEMMA OwnStaged ==
  ASSUME IInv, IInv', WritingOK, CommitsOK, PointersLast, NEW p \in Proc,
         Step(p) \/ Abort(p) \/ \E o \in Op : Start(p, o), StagedInv(p)
  PROVE  StagedInv(p)'
<1> DEFINE c == CloneOf[p]
           busy == {"write", "add", "commit"}
<1>0. TypeOK /\ OriginOK /\ ControlOK /\ c \in Clone /\ TypeOK'
  BY ConstantsAssumption DEF IInv
<1>t. /\ pc \in [Proc -> Label] /\ op \in [Proc -> Op] /\ at \in [Proc -> Nat \ {0}]
      /\ index \in [Clone -> Tree] /\ work \in [Clone -> Tree] /\ origin \in [Clone -> CommitId]
      /\ at[p] <= Len(op[p].entries)
  BY <1>0 DEF TypeOK
<1>n. Len(op[p].entries) \in Nat /\ op[p] \in Op /\ at[p] \in 1..Len(op[p].entries)
      /\ op[p].kind \in {"put", "get"}
  BY <1>t, ConstantsAssumption DEF PointersLast
<1>1. ASSUME pc'[p] \notin busy, index'[c] = index[c], origin'[c] = 0 => origin[c] = 0 \/ pc[p] \in busy
      PROVE  StagedInv(p)'
  BY <1>1 DEF StagedInv, PointersOK, Present
<1>2. CASE \E o \in Op : Start(p, o)
  <2>1. pc'[p] \notin busy
    <3>1. PICK o \in Op : Start(p, o)
      BY <1>2
    <3>2. o.kind \in {"put", "get"}
      BY DEF PointersLast
    <3> QED BY <1>t, <3>1, <3>2 DEF Start, Goto, First
  <2>2. UNCHANGED <<index, origin>>
    BY <1>2 DEF Start, clones
  <2> QED BY <1>1, <2>1, <2>2
<1>3. CASE Fetch(p) \/ VerifyFetch(p) \/ GetFetch(p) \/ RefetchAfterFailure(p)
  <2>1. GitFetch(c) /\ pc'[p] \notin busy
    BY <1>3, <1>t DEF Fetch, VerifyFetch, GetFetch, RefetchAfterFailure, PushOrGiveUp, Goto, Finish
  <2>2. index' = index
    BY <2>1 DEF GitFetch
  <2> QED BY <1>0, <1>1, <2>1, <2>2, UnbornBefore
<1>4. CASE HeadSha(p) \/ VerifyPublished(p) \/ GetRead(p) \/ PushFailed(p) \/ Abort(p)
  <2>1. pc'[p] \notin busy /\ UNCHANGED <<index, origin>>
    BY <1>4, <1>t DEF HeadSha, VerifyPublished, GetRead, PushFailed, Abort, Goto, Finish, clones
  <2> QED BY <1>1, <2>1
<1>5. CASE EnsureLfsPattern(p) \/ GitRm(p)
  BY <1>0, <1>5, <1>n DEF EnsureLfsPattern, GitRm, ControlOK, WritingOK
<1>6. CASE PushAccepted(p)
  <2>1. pc'[p] \notin busy /\ index' = index /\ origin'[c] # 0
    BY <1>6, <1>t, <1>0 DEF PushAccepted, GitPushAllowed, Goto, Finish
  <2> QED BY <1>1, <2>1
<1>7. CASE CheckoutBranchAtOrigin(p)
  <2>1. pc'[p] \in {"write", "rm"} /\ at'[p] = 1
    BY <1>7, <1>t DEF CheckoutBranchAtOrigin, Goto, ApplyLabel
  <2>2. \A t, o : Present(t, o, 0)
    BY DEF Present
  <2>3. PointersOK(index'[c])
    <3>1. CASE origin[c] = 0
      BY <1>7, <3>1 DEF CheckoutBranchAtOrigin, clones, StagedInv
    <3>2. CASE GitCheckoutForce(c)
      <4>1. index'[c] = TreeOf(origin[c])
        BY <1>0, <1>t, <3>2 DEF GitCheckoutForce
      <4> QED BY <1>0, <1>t, <4>1 DEF CommitsOK
    <3> QED BY <1>7, <3>1, <3>2 DEF CheckoutBranchAtOrigin
  <2> QED BY <2>1, <2>2, <2>3 DEF StagedInv, PointersOK, Present
<1>8. CASE WriteFile(p)
  <2>1. /\ pc'[p] = "add" /\ index' = index /\ UNCHANGED <<op, at>>
        /\ work' = [work EXCEPT ![c][Entry(p)[1]] = Written(p)]
    BY <1>8, <1>t DEF WriteFile, Goto
  <2>2. op[p].kind # "get"
    BY <1>8 DEF WriteFile, WritingOK
  <2>3. Entry(p)[1] \in Key /\ Entry(p)[1] # AttrsKey /\ Written(p) = Entry(p)[2]
    BY <1>0, <1>n, <2>2, EntryType DEF Written
  <2>4. Entry(p)' = Entry(p) /\ work'[c][Entry(p)[1]] = Entry(p)[2]
    BY <1>0, <1>t, <2>1, <2>3 DEF Entry, Tree
  <2>5. /\ PointersOK(index[c])
        /\ Present(index[c], op[p], at[p] - 1)
    BY <1>8 DEF WriteFile, StagedInv
  <2> QED BY <2>1, <2>4, <2>5 DEF StagedInv, PointersOK, Present
<1>9. CASE GitAdd(p)
  <2>1. /\ op' = op
        /\ index' = [index EXCEPT ![c][Entry(p)[1]] = work[c][Entry(p)[1]]]
        /\ \/ at'[p] = at[p] + 1 /\ pc'[p] = "write"
           \/ at'[p] = at[p] /\ pc'[p] = "commit"
    BY <1>9, <1>t, <1>n DEF GitAdd, Goto
  <2>2. op[p].kind = "put"
    BY <1>9, <1>n DEF GitAdd, WritingOK
  <2>3. /\ PointersOK(index[c]) /\ work[c][Entry(p)[1]] = Entry(p)[2]
        /\ Present(index[c], op[p], at[p] - 1)
    BY <1>9 DEF GitAdd, StagedInv
  <2>4. index'[c] = [index[c] EXCEPT ![op[p].entries[at[p]][1]] = op[p].entries[at[p]][2]]
    BY <1>0, <1>t, <2>1, <2>3 DEF Entry
  <2>5. index[c] \in Tree /\ index'[c] \in Tree
    BY <1>0 DEF TypeOK
  <2>6. PointersOK(index'[c]) /\ Present(index'[c], op[p], at[p])
    BY <1>n, <2>2, <2>3, <2>4, <2>5, StagingKeepsPointers
  <2>7. pc'[p] = "write" => at'[p] - 1 = at[p]
    BY <1>n, <2>1
  <2>8. pc'[p] \in {"write", "commit"} /\ op'[p] = op[p]
    BY <2>1
  <2> HIDE DEF c
  <2> QED BY <2>6, <2>7, <2>8 DEF StagedInv, PointersOK, Present, c
<1>10. CASE CommitStaged(p)
  <2>1. pc'[p] \notin busy /\ UNCHANGED <<index, origin>> /\ pc[p] \in busy
    BY <1>10, <1>t DEF CommitStaged, PushOrGiveUp, Goto, Finish
  <2> QED BY <1>1, <2>1
<1>11. CASE GetCheckout(p)
  <2>1. pc'[p] \notin busy
    BY <1>11, <1>t DEF GetCheckout, Goto, Finish
  <2>2. CASE UNCHANGED clones
    BY <1>1, <2>1, <2>2 DEF clones
  <2>3. CASE ~UNCHANGED clones
    <3>1. origin' = origin /\ TreeOf(origin[c])[Entry(p)[1]] # Absent
      BY <1>11, <2>3 DEF GetCheckout, GitCheckout
    <3>2. origin'[c] # 0
      BY <1>0, <3>1, EntryType DEF TreeOf, EmptyTree
    <3> QED BY <2>1, <3>2 DEF StagedInv
  <2> QED BY <2>2, <2>3
<1> QED
  BY <1>2, <1>3, <1>4, <1>5, <1>6, <1>7, <1>8, <1>9, <1>10, <1>11 DEF Step

\* The branch never shows a pointer without its artifact: push_one stages the artifact
\* first, commits both at once, and rebuilds both on every retry, so neither a lost push, a
\* kill between two commands nor a race of clones separates them.  A shared clone would.
THEOREM PointersAreSound ==
  ASSUME Unshared, PointersLast
  PROVE  Spec => []PointerHasArtifact
<1>1. Init => PointerInv
  <2> SUFFICES ASSUME Init PROVE PointerInv
    OBVIOUS
  <2>1. PointersOK(EmptyTree)
    BY DEF PointersOK, EmptyTree, PointersLast
  <2>2. CommitsOK
    BY <2>1 DEF Init, CommitsOK, CommitId, TreeOf
  <2>3. \A p \in Proc : StagedInv(p)
    BY <2>1, ConstantsAssumption DEF Init, StagedInv, Present
  <2> QED BY <2>2, <2>3 DEF PointerInv
<1>2. CacheInv /\ IInv' /\ PointerInv /\ [Next]_vars => PointerInv'
  <2> SUFFICES ASSUME CacheInv, IInv', PointerInv, [Next]_vars PROVE PointerInv'
    OBVIOUS
  <2>0. /\ IInv /\ WritingOK /\ TypeOK /\ GraphStep /\ CommitsOK
        /\ \A q \in Proc : StagedInv(q)
    BY NextGraph, SMTT(30) DEF CacheInv, IInv, PointerInv
  <2>1. CASE UNCHANGED vars
    BY <2>0, <2>1 DEF vars, PointerInv, CommitsOK, CommitId, StagedInv, TreeOf, Entry, PointersOK, Present
  <2>2. ASSUME NEW p \in Proc, Step(p) \/ Abort(p) \/ \E o \in Op : Start(p, o) PROVE PointerInv'
    <3>1. CommitsOK'
      BY <2>0, <2>2, NextCommitsOK
    <3>2. ASSUME NEW q \in Proc, q # p PROVE StagedInv(q)'
      <4>1. CloneOf[q] \in Clone \ {CloneOf[p]}
        BY <3>2, ConstantsAssumption DEF Unshared
      <4>2. /\ pc'[q] = pc[q] /\ op'[q] = op[q] /\ at'[q] = at[q]
            /\ origin'[CloneOf[q]] = origin[CloneOf[q]] /\ index'[CloneOf[q]] = index[CloneOf[q]]
            /\ work'[CloneOf[q]] = work[CloneOf[q]]
        BY <2>0, <2>2, <3>2, <4>1, StepLocal
      <4>3. Entry(q)' = Entry(q) /\ StagedInv(q)
        BY <2>0, <4>2 DEF Entry
      <4> QED BY <4>2, <4>3 DEF StagedInv, PointersOK, Present
    <3>3. StagedInv(p)'
      BY <2>0, <2>2, OwnStaged
    <3> QED BY <3>1, <3>2, <3>3 DEF PointerInv
  <2> QED BY <2>1, <2>2 DEF Next
<1>3. IInv /\ PointerInv => PointerHasArtifact
  BY DEF IInv, TypeOK, PointerInv, CommitsOK, PointersOK, PointerHasArtifact
<1> QED
  BY <1>1, <1>2, <1>3, Invariance, CacheInvariance, PTL DEF Spec
=============================================================================
