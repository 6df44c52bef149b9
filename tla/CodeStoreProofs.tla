-------------------------- MODULE CodeStoreProofs --------------------------
(***************************************************************************)
(* Theorems about CodeStore, for any number of processes, shas, builds and  *)
(* commands, each under the weakest hypothesis it was found to need.  At    *)
(* most one process pulls (OnePuller): SharedRoot shows what two pulls of   *)
(* one root do to the staged file.  Nobody runs `pull --all` (NoPullAll):   *)
(* the run store_pull_all_heal shows that it does not heal.  Nobody works   *)
(* beside a process that indexes (IndexerAlone): the fingerprint is written *)
(* after the store it describes, so a second writer may come in between.    *)
(***************************************************************************)
EXTENDS CodeStore, TLAPS

Puller(p) == \E j \in JobsOf[p] : IsPull(j)

\* No two processes of the root ever pull.
OnePuller == \A p, q \in Proc : Puller(p) /\ Puller(q) => p = q

PullPc == {"resolve", "guard", "stage", "hash", "mark", "activate"}

\* Who is inside a pull runs a pull and, once resolved, has a sha; who saves a
\* store runs `cce index`; who writes a fingerprint has read bytes.
ControlOK ==
  \A p \in Proc :
    /\ pc[p] # "idle" => job[p] \in JobsOf[p]
    /\ pc[p] \in PullPc => IsPull(job[p])
    /\ pc[p] \in PullPc \ {"resolve"} => target[p] \in Sha
    /\ pc[p] = "save_store" => ~IsPull(job[p])
    /\ pc[p] = "fp_write" => hash[p] # None

\* The hash a marker records, if any, is that of the build its sha names.
MarkerOK == marker \notin {None, Corrupt} => marker.installed \in {None, marker.sha}

\* Between staging and hashing the staged file is the target's build, and the hash
\* is of it.
StagingOK ==
  \A p \in Proc : /\ pc[p] = "hash" => staged = target[p]
                  /\ pc[p] = "mark" => hash[p] \in {None, target[p]}

\* Before the guard the marker is the one the command found, unless it was damaged;
\* after it the command may pin.
GuardOK ==
  \A p \in Proc : /\ pc[p] \in {"resolve", "guard"} => marker \in {prior[p].marker, Corrupt}
                  /\ pc[p] \in {"stage", "hash", "mark"} => MayPin(p)

TypeInv == TypeOK /\ ControlOK
PullInv == TypeInv /\ MarkerOK /\ StagingOK /\ GuardOK

------------------------------------------------------------------------------

LEMMA JobFields ==
  ASSUME NEW j \in Job
  PROVE  /\ IsPull(j) => j.target \in Sha \cup {Latest} /\ j.force \in BOOLEAN
         /\ ~IsPull(j) => j.build \in LocalBuild
BY DEF Job, IsPull

LEMMA InitType == Init => TypeInv
BY CodeStoreAssumption DEF Init, TypeInv, TypeOK, ControlOK, Marker, Build, PullPc

LEMMA StepType ==
  ASSUME TypeInv, [Next]_vars
  PROVE  TypeInv'
<1> USE CodeStoreAssumption DEF TypeInv
<1>1. ASSUME NEW p \in Proc, NEW j \in JobsOf[p], Start(p, j) PROVE TypeInv'
  <2>1. j \in Job OBVIOUS
  <2>2. TypeOK' BY <1>1, <2>1 DEF Start, TypeOK, files, IsPull
  <2>3. ControlOK' BY <1>1, <2>1 DEF Start, TypeOK, ControlOK, PullPc
  <2> QED BY <2>2, <2>3
<1>2. ASSUME NEW p \in Proc, ResolvePullSha(p) PROVE TypeInv'
  <2>1. job[p].target \in Sha \cup {Latest}
    BY <1>2, JobFields DEF ResolvePullSha, TypeOK, ControlOK, PullPc
  <2>2. TypeOK' BY <1>2, <2>1 DEF ResolvePullSha, TypeOK, Goto, Finish, files, env
  <2>3. ControlOK' BY <1>2, <2>1 DEF ResolvePullSha, TypeOK, ControlOK, PullPc, Goto, Finish, files, env
  <2> QED BY <2>2, <2>3
<1>3. ASSUME NEW p \in Proc, Guard(p) PROVE TypeInv'
  <2>2. TypeOK' BY <1>3, ZenonT(60) DEF Guard, TypeOK, Goto, Finish, files, env
  <2>3. ControlOK' BY <1>3 DEF Guard, TypeOK, ControlOK, PullPc, Goto, Finish, files, env
  <2> QED BY <2>2, <2>3
<1>4. ASSUME NEW p \in Proc, StageIndex(p) PROVE TypeInv'
  <2>1. staged' \in Sha \cup {None}
    BY <1>4 DEF StageIndex, TypeOK
  <2>2. TypeOK' BY <1>4, <2>1 DEF StageIndex, TypeOK, Goto, Finish, env
  <2>3. ControlOK' BY <1>4 DEF StageIndex, TypeOK, ControlOK, PullPc, Goto, Finish, env
  <2> QED BY <2>2, <2>3
<1>5. ASSUME NEW p \in Proc, HashStaged(p) PROVE TypeInv'
  <2>1. hash' \in [Proc -> Build \cup {None}]
    BY <1>5 DEF HashStaged, TypeOK, Build
  <2>2. TypeOK' BY <1>5, <2>1 DEF HashStaged, TypeOK, Goto, Finish, files, env
  <2>3. ControlOK' BY <1>5 DEF HashStaged, TypeOK, ControlOK, PullPc, Goto, Finish, files, env, Build
  <2> QED BY <2>2, <2>3
<1>6. ASSUME NEW p \in Proc, SaveMarker(p) PROVE TypeInv'
  <2>1. target[p] \in Sha
    BY <1>6 DEF SaveMarker, ControlOK, PullPc
  <2>4. marker' \in Marker
    BY <1>6, <2>1 DEF SaveMarker, TypeOK, Marker
  <2>2. TypeOK' BY <1>6, <2>4 DEF SaveMarker, TypeOK, Goto, Finish, env
  <2>3. ControlOK' BY <1>6, <2>1 DEF SaveMarker, TypeOK, ControlOK, PullPc, Goto, Finish, env, Marker
  <2> QED BY <2>2, <2>3
<1>7. ASSUME NEW p \in Proc, Activate(p) PROVE TypeInv'
  <2>2. TypeOK' BY <1>7 DEF Activate, TypeOK, Goto, Finish, env, Build
  <2>3. ControlOK' BY <1>7 DEF Activate, TypeOK, ControlOK, PullPc, Goto, Finish, env, Build
  <2> QED BY <2>2, <2>3
<1>8. ASSUME NEW p \in Proc, SaveStore(p) PROVE TypeInv'
  <2>1. job[p].build \in LocalBuild
    BY <1>8, JobFields DEF SaveStore, TypeOK, ControlOK
  <2>2. TypeOK' BY <1>8, <2>1, ZenonT(60) DEF SaveStore, TypeOK, Goto, Finish, env, Build
  <2>3. ControlOK' BY <1>8, <2>1 DEF SaveStore, TypeOK, ControlOK, PullPc, Goto, Finish, env, Build
  <2> QED BY <2>2, <2>3
<1>9. ASSUME NEW p \in Proc, ReadStoreBack(p) PROVE TypeInv'
  <2>2. TypeOK' BY <1>9, ZenonT(60) DEF ReadStoreBack, TypeOK, Goto, Finish, files, env
  <2>3. ControlOK' BY <1>9 DEF ReadStoreBack, TypeOK, ControlOK, PullPc, Goto, Finish, files, env
  <2> QED BY <2>2, <2>3
<1>10. ASSUME NEW p \in Proc, WriteFingerprint(p) PROVE TypeInv'
  <2>1. hash[p] \in Build
    BY <1>10 DEF WriteFingerprint, TypeOK, ControlOK
  <2>4. fp' \in {None} \cup [of : Build, redaction : BOOLEAN]
    <3> DEFINE flag == IsPull(job[p]) \/ job[p].build \in Protected
    <3>1. flag \in BOOLEAN
      OBVIOUS
    <3>2. fp' = [of |-> hash[p], redaction |-> flag] \/ fp' = fp
      BY <1>10 DEF WriteFingerprint
    <3> HIDE DEF flag
    <3> QED BY <2>1, <3>1, <3>2 DEF TypeOK
  <2>2. TypeOK' BY <1>10, <2>4 DEF WriteFingerprint, TypeOK, Finish, env
  <2>3. ControlOK' BY <1>10, <2>1 DEF WriteFingerprint, TypeOK, ControlOK, PullPc, Finish, env
  <2> QED BY <2>2, <2>3
<1>11. ASSUME NEW p \in Proc, Crash(p) PROVE TypeInv'
  <2>2. TypeOK' BY <1>11 DEF Crash, TypeOK, Finish, files, env
  <2>3. ControlOK' BY <1>11 DEF Crash, TypeOK, ControlOK, PullPc, Finish, files, env
  <2> QED BY <2>2, <2>3
<1>12. ASSUME Publish PROVE TypeInv'
  BY <1>12 DEF Publish, TypeOK, ControlOK, PullPc, files
<1>13. ASSUME DamageMarker PROVE TypeInv'
  BY <1>13 DEF DamageMarker, TypeOK, ControlOK, PullPc, Marker
<1>14. CASE UNCHANGED vars
  BY <1>14 DEF vars, TypeOK, ControlOK, PullPc, Marker
<1> QED
  BY <1>1, <1>2, <1>3, <1>4, <1>5, <1>6, <1>7, <1>8, <1>9, <1>10, <1>11, <1>12,
     <1>13, <1>14 DEF Next, Step

\* Type correctness of the files and of every process, whoever runs what.
THEOREM TypeCorrect == Spec => []TypeOK
<1>1. TypeInv /\ [Next]_vars => TypeInv'
  BY StepType
<1>2. Spec => []TypeInv
  BY InitType, <1>1, PTL DEF Spec
<1> QED BY <1>2, PTL DEF TypeInv

------------------------------------------------------------------------------

\* Another process than p, when p is inside a pull, is outside of one.
LEMMA OnlyOneInside ==
  ASSUME OnePuller, TypeInv, NEW p \in Proc, NEW q \in Proc,
         pc[p] \in PullPc, pc[q] \in PullPc
  PROVE  p = q
BY DEF OnePuller, Puller, TypeInv, ControlOK, PullPc

LEMMA InitPull == Init => PullInv
BY InitType DEF Init, PullInv, MarkerOK, StagingOK, GuardOK

LEMMA StepPull ==
  ASSUME OnePuller, PullInv, [Next]_vars
  PROVE  PullInv'
<1> USE DEF PullInv
<1>0. TypeInv'
  BY StepType
<1>1. ASSUME NEW p \in Proc, NEW j \in JobsOf[p], Start(p, j) PROVE PullInv'
  <2>1. MarkerOK' BY <1>1 DEF Start, MarkerOK, files
  <2>2. StagingOK' BY <1>1 DEF Start, StagingOK, TypeInv, TypeOK, files
  <2>3. GuardOK' BY <1>1 DEF Start, GuardOK, MayPin, TypeInv, TypeOK, files
  <2> QED BY <1>0, <2>1, <2>2, <2>3
<1>2. ASSUME NEW p \in Proc, ResolvePullSha(p) PROVE PullInv'
  <2>0. \A q \in Proc : pc[q] \in PullPc => q = p
    BY <1>2, OnlyOneInside DEF ResolvePullSha, PullPc
  <2>1. MarkerOK' BY <1>2 DEF ResolvePullSha, MarkerOK, Goto, Finish, files, env
  <2>2. StagingOK' BY <1>2, <2>0 DEF ResolvePullSha, StagingOK, TypeInv, TypeOK, PullPc, Goto, Finish, files, env
  <2>3. GuardOK' BY <1>2, <2>0 DEF ResolvePullSha, GuardOK, MayPin, TypeInv, TypeOK, PullPc, Goto, Finish, files, env
  <2> QED BY <1>0, <2>1, <2>2, <2>3
<1>3. ASSUME NEW p \in Proc, Guard(p) PROVE PullInv'
  <2>0. \A q \in Proc : pc[q] \in PullPc => q = p
    BY <1>3, OnlyOneInside DEF Guard, PullPc
  <2>1. MarkerOK' BY <1>3 DEF Guard, MarkerOK, Goto, Finish, files, env
  <2>2. StagingOK' BY <1>3, <2>0 DEF Guard, StagingOK, TypeInv, TypeOK, PullPc, Goto, Finish, files, env
  <2>3. GuardOK' BY <1>3, <2>0, CodeStoreAssumption DEF Guard, UpToDate, PinnedElsewhere, GuardOK, MayPin, TypeInv, TypeOK, PullPc, Goto, Finish, files, env, MarkedSha, Marker, Build
  <2> QED BY <1>0, <2>1, <2>2, <2>3
<1>4. ASSUME NEW p \in Proc, StageIndex(p) PROVE PullInv'
  <2>0. \A q \in Proc : pc[q] \in PullPc => q = p
    BY <1>4, OnlyOneInside DEF StageIndex, PullPc
  <2>1. MarkerOK' BY <1>4 DEF StageIndex, MarkerOK, Goto, Finish, env
  <2>2. StagingOK' BY <1>4, <2>0 DEF StageIndex, StagingOK, TypeInv, TypeOK, PullPc, Goto, Finish, env
  <2>3. GuardOK' BY <1>4, <2>0 DEF StageIndex, GuardOK, MayPin, TypeInv, TypeOK, PullPc, Goto, Finish, env
  <2> QED BY <1>0, <2>1, <2>2, <2>3
<1>5. ASSUME NEW p \in Proc, HashStaged(p) PROVE PullInv'
  <2>0. \A q \in Proc : pc[q] \in PullPc => q = p
    BY <1>5, OnlyOneInside DEF HashStaged, PullPc
  <2>1. MarkerOK' BY <1>5 DEF HashStaged, MarkerOK, Goto, Finish, files, env
  <2>2. StagingOK' BY <1>5, <2>0 DEF HashStaged, StagingOK, TypeInv, TypeOK, PullPc, Goto, Finish, files, env
  <2>3. GuardOK' BY <1>5, <2>0 DEF HashStaged, GuardOK, MayPin, TypeInv, TypeOK, PullPc, Goto, Finish, files, env
  <2> QED BY <1>0, <2>1, <2>2, <2>3
<1>6. ASSUME NEW p \in Proc, SaveMarker(p) PROVE PullInv'
  <2>0. \A q \in Proc : pc[q] \in PullPc => q = p
    BY <1>6, OnlyOneInside DEF SaveMarker, PullPc
  <2>1. MarkerOK' BY <1>6 DEF SaveMarker, MarkerOK, Goto, Finish, env, StagingOK
  <2>2. StagingOK' BY <1>6, <2>0 DEF SaveMarker, StagingOK, TypeInv, TypeOK, PullPc, Goto, Finish, env
  <2>3. GuardOK' BY <1>6, <2>0 DEF SaveMarker, GuardOK, MayPin, TypeInv, TypeOK, PullPc, Goto, Finish, env
  <2> QED BY <1>0, <2>1, <2>2, <2>3
<1>7. ASSUME NEW p \in Proc, Activate(p) PROVE PullInv'
  <2>0. \A q \in Proc : pc[q] \in PullPc => q = p
    BY <1>7, OnlyOneInside DEF Activate, PullPc
  <2>1. MarkerOK' BY <1>7 DEF Activate, MarkerOK, Goto, Finish, env
  <2>2. StagingOK' BY <1>7, <2>0 DEF Activate, StagingOK, TypeInv, TypeOK, PullPc, Goto, Finish, env
  <2>3. GuardOK' BY <1>7, <2>0 DEF Activate, GuardOK, MayPin, TypeInv, TypeOK, PullPc, Goto, Finish, env
  <2> QED BY <1>0, <2>1, <2>2, <2>3
<1>8. ASSUME NEW p \in Proc, SaveStore(p) PROVE PullInv'
  <2>1. MarkerOK' BY <1>8 DEF SaveStore, MarkerOK, Goto, Finish, env
  <2>2. StagingOK' BY <1>8 DEF SaveStore, StagingOK, TypeInv, TypeOK, PullPc, Goto, Finish, env
  <2>3. GuardOK' BY <1>8 DEF SaveStore, GuardOK, MayPin, TypeInv, TypeOK, PullPc, Goto, Finish, env
  <2> QED BY <1>0, <2>1, <2>2, <2>3
<1>9. ASSUME NEW p \in Proc, ReadStoreBack(p) PROVE PullInv'
  <2>1. MarkerOK' BY <1>9 DEF ReadStoreBack, MarkerOK, Goto, Finish, files, env
  <2>2. StagingOK' BY <1>9 DEF ReadStoreBack, StagingOK, TypeInv, TypeOK, PullPc, Goto, Finish, files, env
  <2>3. GuardOK' BY <1>9 DEF ReadStoreBack, GuardOK, MayPin, TypeInv, TypeOK, PullPc, Goto, Finish, files, env
  <2> QED BY <1>0, <2>1, <2>2, <2>3
<1>10. ASSUME NEW p \in Proc, WriteFingerprint(p) PROVE PullInv'
  <2>1. MarkerOK' BY <1>10 DEF WriteFingerprint, MarkerOK, Finish, env
  <2>2. StagingOK' BY <1>10 DEF WriteFingerprint, StagingOK, TypeInv, TypeOK, PullPc, Finish, env
  <2>3. GuardOK' BY <1>10 DEF WriteFingerprint, GuardOK, MayPin, TypeInv, TypeOK, PullPc, Finish, env
  <2> QED BY <1>0, <2>1, <2>2, <2>3
<1>11. ASSUME NEW p \in Proc, Crash(p) PROVE PullInv'
  <2>1. MarkerOK' BY <1>11 DEF Crash, MarkerOK, Finish, files, env
  <2>2. StagingOK' BY <1>11 DEF Crash, StagingOK, TypeInv, TypeOK, PullPc, Finish, files, env
  <2>3. GuardOK' BY <1>11 DEF Crash, GuardOK, MayPin, TypeInv, TypeOK, PullPc, Finish, files, env
  <2> QED BY <1>0, <2>1, <2>2, <2>3
<1>12. ASSUME Publish PROVE PullInv'
  BY <1>0, <1>12 DEF Publish, MarkerOK, StagingOK, GuardOK, MayPin, files
<1>13. ASSUME DamageMarker PROVE PullInv'
  BY <1>0, <1>13 DEF DamageMarker, MarkerOK, StagingOK, GuardOK, MayPin
<1>14. CASE UNCHANGED vars
  BY <1>0, <1>14 DEF vars, MarkerOK, StagingOK, GuardOK, MayPin
<1> QED
  BY <1>1, <1>2, <1>3, <1>4, <1>5, <1>6, <1>7, <1>8, <1>9, <1>10, <1>11, <1>12,
     <1>13, <1>14 DEF Next, Step

LEMMA PullInvariance ==
  ASSUME OnePuller
  PROVE  Spec => []PullInv
<1>1. PullInv /\ [Next]_vars => PullInv'
  BY StepPull
<1> QED BY InitPull, <1>1, PTL DEF Spec

\* `cce sync verify --checksum-only` never says OK of a store that is not the build
\* of the sha in its marker: not after a crash between marker and rename, not after
\* a local `cce index`, not after a damaged marker was replaced.
THEOREM VerifyIsTruthful ==
  ASSUME OnePuller
  PROVE  Spec => []VerifyTruthful
<1>1. PullInv => VerifyTruthful
  BY DEF PullInv, MarkerOK, VerifyTruthful, VerifyStoreChecksum
<1> QED BY <1>1, PullInvariance, PTL

\* Paragraph 9.4 of SPEC-SYNC: an unforced pull overwrites no marker of another sha
\* and no marker it could not read.
THEOREM PinnedMarkerStays ==
  ASSUME OnePuller
  PROVE  Spec => PinnedStays
<1>1. PullInv /\ [Next]_vars
      => [\A p \in Proc : pc[p] = "mark" /\ marker' # marker => MayPin(p)]_vars
  BY DEF PullInv, GuardOK
<1> QED BY <1>1, PullInvariance, PTL DEF Spec, PinnedStays

------------------------------------------------------------------------------

\* Who works alone works with every other process idle.
AloneOK == \A p \in Proc : alone[p] => \A q \in Proc : q # p => pc[q] = "idle"

\* A command that is before its first write, and one that failed or refused, leaves
\* the store and the marker it found; only outside damage touches the marker.
PriorOK ==
  \A p \in Proc :
    /\ alone[p]
    /\ \/ pc[p] \in {"resolve", "guard", "stage", "hash", "mark", "save_store"}
       \/ pc[p] = "idle" /\ result[p] \in {"failed", "refused"}
    => store = prior[p].store /\ marker \in {prior[p].marker, Corrupt}

\* What a pull has staged, marked and activated is the build of its target.
HealOK ==
  \A p \in Proc : alone[p] /\ IsPull(job[p]) =>
    /\ pc[p] \in {"hash", "mark", "activate"} => staged = target[p]
    /\ pc[p] = "activate" => marker = Corrupt \/ MarkedSha = target[p]
    /\ pc[p] \in {"fp_read", "fp_write"} \/ (pc[p] = "idle" /\ result[p] = "ok")
       => store = target[p] /\ (marker = Corrupt \/ MarkedSha = target[p])

LoneInv == TypeInv /\ AloneOK /\ PriorOK

NoPullAll == \A p \in Proc : \A j \in JobsOf[p] : j.kind # "pull_all"

\* While p works alone no step is another process's.
LEMMA LoneStep ==
  ASSUME AloneOK, NEW p \in Proc, NEW q \in Proc, alone[p], pc[q] # "idle"
  PROVE  p = q
BY DEF AloneOK

LEMMA InitLone == Init => LoneInv
BY InitType DEF Init, LoneInv, AloneOK, PriorOK

LEMMA StepLone ==
  ASSUME LoneInv, [Next]_vars
  PROVE  LoneInv'
<1> USE DEF LoneInv
<1>0. TypeInv'
  BY StepType
<1>1. ASSUME NEW p \in Proc, NEW j \in JobsOf[p], Start(p, j) PROVE LoneInv'
  <2>0. \A q \in Proc : alone'[q] => q = p /\ \A r \in Proc : pc[r] = "idle"
    BY <1>1 DEF Start
  <2>1. AloneOK' BY <1>1, <2>0 DEF Start, AloneOK, TypeInv, TypeOK
  <2>2. PriorOK' BY <1>1, <2>0 DEF Start, PriorOK, TypeInv, TypeOK, files
  <2> QED BY <1>0, <2>1, <2>2
<1>2. ASSUME NEW p \in Proc, ResolvePullSha(p) PROVE LoneInv'
  <2>0. \A q \in Proc : alone[q] => q = p
    BY <1>2, LoneStep DEF ResolvePullSha
  <2>1. AloneOK' BY <1>2, <2>0 DEF ResolvePullSha, AloneOK, TypeInv, TypeOK, Goto, Finish, env
  <2>2. PriorOK' BY <1>2, <2>0 DEF ResolvePullSha, PriorOK, TypeInv, TypeOK, Goto, Finish, files, env
  <2> QED BY <1>0, <2>1, <2>2
<1>3. ASSUME NEW p \in Proc, Guard(p) PROVE LoneInv'
  <2>0. \A q \in Proc : alone[q] => q = p
    BY <1>3, LoneStep DEF Guard
  <2>1. AloneOK' BY <1>3, <2>0 DEF Guard, AloneOK, TypeInv, TypeOK, Goto, Finish, env
  <2>2. PriorOK' BY <1>3, <2>0 DEF Guard, PriorOK, TypeInv, TypeOK, Goto, Finish, files, env
  <2> QED BY <1>0, <2>1, <2>2
<1>4. ASSUME NEW p \in Proc, StageIndex(p) PROVE LoneInv'
  <2>0. \A q \in Proc : alone[q] => q = p
    BY <1>4, LoneStep DEF StageIndex
  <2>1. AloneOK' BY <1>4, <2>0 DEF StageIndex, AloneOK, TypeInv, TypeOK, Goto, Finish, env
  <2>2. PriorOK' BY <1>4, <2>0 DEF StageIndex, PriorOK, TypeInv, TypeOK, Goto, Finish, env
  <2> QED BY <1>0, <2>1, <2>2
<1>5. ASSUME NEW p \in Proc, HashStaged(p) PROVE LoneInv'
  <2>0. \A q \in Proc : alone[q] => q = p
    BY <1>5, LoneStep DEF HashStaged
  <2>1. AloneOK' BY <1>5, <2>0 DEF HashStaged, AloneOK, TypeInv, TypeOK, Goto, Finish, env
  <2>2. PriorOK' BY <1>5, <2>0 DEF HashStaged, PriorOK, TypeInv, TypeOK, Goto, Finish, files, env
  <2> QED BY <1>0, <2>1, <2>2
<1>6. ASSUME NEW p \in Proc, SaveMarker(p) PROVE LoneInv'
  <2>0. \A q \in Proc : alone[q] => q = p
    BY <1>6, LoneStep DEF SaveMarker
  <2>1. AloneOK' BY <1>6, <2>0 DEF SaveMarker, AloneOK, TypeInv, TypeOK, Goto, Finish, env
  <2>2. PriorOK' BY <1>6, <2>0 DEF SaveMarker, PriorOK, TypeInv, TypeOK, Goto, Finish, env
  <2> QED BY <1>0, <2>1, <2>2
<1>7. ASSUME NEW p \in Proc, Activate(p) PROVE LoneInv'
  <2>0. \A q \in Proc : alone[q] => q = p
    BY <1>7, LoneStep DEF Activate
  <2>1. AloneOK' BY <1>7, <2>0 DEF Activate, AloneOK, TypeInv, TypeOK, Goto, Finish, env
  <2>2. PriorOK' BY <1>7, <2>0 DEF Activate, PriorOK, TypeInv, TypeOK, Goto, Finish, env
  <2> QED BY <1>0, <2>1, <2>2
<1>8. ASSUME NEW p \in Proc, SaveStore(p) PROVE LoneInv'
  <2>0. \A q \in Proc : alone[q] => q = p
    BY <1>8, LoneStep DEF SaveStore
  <2>1. AloneOK' BY <1>8, <2>0 DEF SaveStore, AloneOK, TypeInv, TypeOK, Goto, Finish, env
  <2>2. PriorOK' BY <1>8, <2>0 DEF SaveStore, PriorOK, TypeInv, TypeOK, Goto, Finish, env
  <2> QED BY <1>0, <2>1, <2>2
<1>9. ASSUME NEW p \in Proc, ReadStoreBack(p) PROVE LoneInv'
  <2>0. \A q \in Proc : alone[q] => q = p
    BY <1>9, LoneStep DEF ReadStoreBack
  <2>1. AloneOK' BY <1>9, <2>0 DEF ReadStoreBack, AloneOK, TypeInv, TypeOK, Goto, Finish, env
  <2>2. PriorOK' BY <1>9, <2>0 DEF ReadStoreBack, PriorOK, TypeInv, TypeOK, Goto, Finish, files, env
  <2> QED BY <1>0, <2>1, <2>2
<1>10. ASSUME NEW p \in Proc, WriteFingerprint(p) PROVE LoneInv'
  <2>0. \A q \in Proc : alone[q] => q = p
    BY <1>10, LoneStep DEF WriteFingerprint
  <2>1. AloneOK' BY <1>10, <2>0 DEF WriteFingerprint, AloneOK, TypeInv, TypeOK, Finish, env
  <2>2. PriorOK' BY <1>10, <2>0 DEF WriteFingerprint, PriorOK, TypeInv, TypeOK, Finish, env
  <2> QED BY <1>0, <2>1, <2>2
<1>11. ASSUME NEW p \in Proc, Crash(p) PROVE LoneInv'
  <2>0. \A q \in Proc : alone[q] => q = p
    BY <1>11, LoneStep DEF Crash
  <2>1. AloneOK' BY <1>11, <2>0 DEF Crash, AloneOK, TypeInv, TypeOK, Finish, env
  <2>2. PriorOK' BY <1>11, <2>0 DEF Crash, PriorOK, TypeInv, TypeOK, Finish, files, env
  <2> QED BY <1>0, <2>1, <2>2
<1>12. ASSUME Publish PROVE LoneInv'
  BY <1>0, <1>12 DEF Publish, AloneOK, PriorOK, files
<1>13. ASSUME DamageMarker PROVE LoneInv'
  BY <1>0, <1>13 DEF DamageMarker, AloneOK, PriorOK
<1>14. CASE UNCHANGED vars
  BY <1>0, <1>14 DEF vars, AloneOK, PriorOK
<1> QED
  BY <1>1, <1>2, <1>3, <1>4, <1>5, <1>6, <1>7, <1>8, <1>9, <1>10, <1>11, <1>12,
     <1>13, <1>14 DEF Next, Step

LEMMA LoneInvariance == Spec => []LoneInv
<1>1. LoneInv /\ [Next]_vars => LoneInv'
  BY StepLone
<1> QED BY InitLone, <1>1, PTL DEF Spec

\* install_artifact: whatever step of a command fails, and wherever a pull refuses,
\* the store and the marker are those the command found.
THEOREM FailureLeavesPrior == Spec => []PriorIntact
<1>1. LoneInv => PriorIntact
  BY DEF LoneInv, PriorOK, PriorIntact, EndedAlone
<1> QED BY <1>1, LoneInvariance, PTL

------------------------------------------------------------------------------

HealInv == LoneInv /\ HealOK

LEMMA InitHeal == Init => HealInv
BY InitLone DEF Init, HealInv, HealOK

LEMMA StepHeal ==
  ASSUME NoPullAll, HealInv, [Next]_vars
  PROVE  HealInv'
<1> USE DEF HealInv, LoneInv
<1>0. LoneInv'
  BY StepLone
<1>1. ASSUME NEW p \in Proc, NEW j \in JobsOf[p], Start(p, j) PROVE HealInv'
  <2>0. \A q \in Proc : alone'[q] => q = p
    BY <1>1 DEF Start
  <2>1. HealOK' BY <1>1, <2>0 DEF Start, HealOK, TypeInv, TypeOK, files
  <2> QED BY <1>0, <2>1
<1>2. ASSUME NEW p \in Proc, ResolvePullSha(p) PROVE HealInv'
  <2>0. \A q \in Proc : alone[q] => q = p
    BY <1>2, LoneStep DEF ResolvePullSha
  <2>1. HealOK' BY <1>2, <2>0 DEF ResolvePullSha, HealOK, TypeInv, TypeOK, MarkedSha, Goto, Finish, files, env
  <2> QED BY <1>0, <2>1
<1>3. ASSUME NEW p \in Proc, Guard(p) PROVE HealInv'
  <2>0. \A q \in Proc : alone[q] => q = p
    BY <1>3, LoneStep DEF Guard
  <2>1. job[p].kind # "pull_all"
    BY <1>3 DEF Guard, NoPullAll, TypeInv, TypeOK
  <2>2. HealOK' BY <1>3, <2>0, <2>1 DEF Guard, HealOK, TypeInv, TypeOK, MarkedSha, Goto, Finish, files, env
  <2> QED BY <1>0, <2>2
<1>4. ASSUME NEW p \in Proc, StageIndex(p) PROVE HealInv'
  <2>0. \A q \in Proc : alone[q] => q = p
    BY <1>4, LoneStep DEF StageIndex
  <2>1. HealOK' BY <1>4, <2>0 DEF StageIndex, HealOK, TypeInv, TypeOK, ControlOK, PullPc, MarkedSha, Goto, Finish, env
  <2> QED BY <1>0, <2>1
<1>5. ASSUME NEW p \in Proc, HashStaged(p) PROVE HealInv'
  <2>0. \A q \in Proc : alone[q] => q = p
    BY <1>5, LoneStep DEF HashStaged
  <2>1. HealOK' BY <1>5, <2>0 DEF HashStaged, HealOK, TypeInv, TypeOK, ControlOK, PullPc, MarkedSha, Goto, Finish, files, env
  <2> QED BY <1>0, <2>1
<1>6. ASSUME NEW p \in Proc, SaveMarker(p) PROVE HealInv'
  <2>0. \A q \in Proc : alone[q] => q = p
    BY <1>6, LoneStep DEF SaveMarker
  <2>1. target[p] \in Sha /\ hash[p] \in Build \cup {None}
    BY <1>6 DEF SaveMarker, TypeInv, TypeOK, ControlOK, PullPc
  <2>2. pc'[p] = "activate" => MarkedSha' = target[p]
    BY <1>6, <2>1, NoRecordAssumption DEF SaveMarker, MarkedSha, Finish, TypeInv, TypeOK
  <2>3. HealOK' BY <1>6, <2>0, <2>2 DEF SaveMarker, HealOK, TypeInv, TypeOK, Goto, Finish, env
  <2> QED BY <1>0, <2>3
<1>7. ASSUME NEW p \in Proc, Activate(p) PROVE HealInv'
  <2>0. \A q \in Proc : alone[q] => q = p
    BY <1>7, LoneStep DEF Activate
  <2>1. HealOK' BY <1>7, <2>0 DEF Activate, HealOK, TypeInv, TypeOK, ControlOK, PullPc, MarkedSha, Goto, Finish, env
  <2> QED BY <1>0, <2>1
<1>8. ASSUME NEW p \in Proc, SaveStore(p) PROVE HealInv'
  <2>0. \A q \in Proc : alone[q] => q = p
    BY <1>8, LoneStep DEF SaveStore
  <2>1. HealOK' BY <1>8, <2>0 DEF SaveStore, HealOK, TypeInv, TypeOK, ControlOK, PullPc, MarkedSha, Goto, Finish, env
  <2> QED BY <1>0, <2>1
<1>9. ASSUME NEW p \in Proc, ReadStoreBack(p) PROVE HealInv'
  <2>0. \A q \in Proc : alone[q] => q = p
    BY <1>9, LoneStep DEF ReadStoreBack
  <2>1. HealOK' BY <1>9, <2>0 DEF ReadStoreBack, HealOK, TypeInv, TypeOK, ControlOK, PullPc, MarkedSha, Goto, Finish, files, env
  <2> QED BY <1>0, <2>1
<1>10. ASSUME NEW p \in Proc, WriteFingerprint(p) PROVE HealInv'
  <2>0. \A q \in Proc : alone[q] => q = p
    BY <1>10, LoneStep DEF WriteFingerprint
  <2>1. MarkedSha' = MarkedSha
    BY <1>10 DEF WriteFingerprint, MarkedSha, files
  <2>2. UNCHANGED <<store, staged, marker, alone, job, target>> /\ pc[p] = "fp_write"
        /\ pc' = [pc EXCEPT ![p] = "idle"] /\ result' = [result EXCEPT ![p] = "ok"]
    BY <1>10 DEF WriteFingerprint, Finish, env
  <2>3. HealOK' BY <2>0, <2>1, <2>2 DEF HealOK, TypeInv, TypeOK
  <2> QED BY <1>0, <2>3
<1>11. ASSUME NEW p \in Proc, Crash(p) PROVE HealInv'
  <2>0. \A q \in Proc : alone[q] => q = p
    BY <1>11, LoneStep DEF Crash
  <2>1. MarkedSha' = MarkedSha
    BY <1>11 DEF Crash, MarkedSha, files
  <2>2. UNCHANGED <<store, staged, marker, alone, job, target>>
        /\ pc' = [pc EXCEPT ![p] = "idle"] /\ result' = [result EXCEPT ![p] = "killed"]
    BY <1>11 DEF Crash, Finish, files, env
  <2>3. HealOK' BY <2>0, <2>1, <2>2 DEF HealOK, TypeInv, TypeOK
  <2> QED BY <1>0, <2>3
<1>12. ASSUME Publish PROVE HealInv'
  BY <1>0, <1>12 DEF Publish, HealOK, MarkedSha, files
<1>13. ASSUME DamageMarker PROVE HealInv'
  BY <1>0, <1>13 DEF DamageMarker, HealOK
<1>14. CASE UNCHANGED vars
  BY <1>0, <1>14 DEF vars, HealOK, MarkedSha
<1> QED
  BY <1>1, <1>2, <1>3, <1>4, <1>5, <1>6, <1>7, <1>8, <1>9, <1>10, <1>11, <1>12,
     <1>13, <1>14 DEF Next, Step

\* install_artifact: "the next same-sha pull self-heals", from any crash, failed
\* rename or damage before it, as long as no command is `pull --all`.
THEOREM NextPullHeals ==
  ASSUME NoPullAll
  PROVE  Spec => []PullHeals
<1>1. HealInv /\ [Next]_vars => HealInv'
  BY StepHeal
<1>2. HealInv => PullHeals
  BY DEF HealInv, HealOK, PullHeals, EndedAlone
<1> QED BY InitHeal, <1>1, <1>2, PTL DEF Spec

------------------------------------------------------------------------------

\* Whoever runs `cce index` is the only process that runs anything.
IndexerAlone ==
  \A p, q \in Proc : (\E j \in JobsOf[p] : ~IsPull(j)) /\ JobsOf[q] # {} => p = q

\* The recorded redaction is that of the build the fingerprint is of, and what a
\* command is about to fingerprint is the build it made or installed.
FpOK ==
  /\ fp # None => fp.redaction = (fp.of \in Protected)
  /\ \A p \in Proc :
       /\ pc[p] = "fp_read" /\ IsPull(job[p]) => store \in Sha
       /\ pc[p] = "fp_read" /\ ~IsPull(job[p]) => store = job[p].build
       /\ pc[p] = "fp_write" /\ IsPull(job[p]) => hash[p] \in Sha
       /\ pc[p] = "fp_write" /\ ~IsPull(job[p]) => hash[p] = job[p].build

FpInv == TypeInv /\ FpOK

LEMMA IndexerIsAlone ==
  ASSUME IndexerAlone, TypeInv, NEW p \in Proc, NEW q \in Proc,
         pc[p] # "idle", pc[q] # "idle", ~IsPull(job[p])
  PROVE  p = q
BY DEF IndexerAlone, TypeInv, ControlOK

LEMMA InitFp == Init => FpInv
BY InitType DEF Init, FpInv, FpOK

LEMMA StepFp ==
  ASSUME IndexerAlone, FpInv, [Next]_vars
  PROVE  FpInv'
<1> USE DEF FpInv
<1>0. TypeInv'
  BY StepType
<1>1. ASSUME NEW p \in Proc, NEW j \in JobsOf[p], Start(p, j) PROVE FpInv'
  <2>1. FpOK' BY <1>1 DEF Start, FpOK, TypeInv, TypeOK, files
  <2> QED BY <1>0, <2>1
<1>2. ASSUME NEW p \in Proc, ResolvePullSha(p) PROVE FpInv'
  <2>1. FpOK' BY <1>2 DEF ResolvePullSha, FpOK, TypeInv, TypeOK, Goto, Finish, files, env
  <2> QED BY <1>0, <2>1
<1>3. ASSUME NEW p \in Proc, Guard(p) PROVE FpInv'
  <2>1. FpOK' BY <1>3 DEF Guard, FpOK, TypeInv, TypeOK, Goto, Finish, files, env
  <2> QED BY <1>0, <2>1
<1>4. ASSUME NEW p \in Proc, StageIndex(p) PROVE FpInv'
  <2>1. FpOK' BY <1>4 DEF StageIndex, FpOK, TypeInv, TypeOK, Goto, Finish, env
  <2> QED BY <1>0, <2>1
<1>5. ASSUME NEW p \in Proc, HashStaged(p) PROVE FpInv'
  <2>1. FpOK' BY <1>5 DEF HashStaged, FpOK, TypeInv, TypeOK, Goto, Finish, files, env
  <2> QED BY <1>0, <2>1
<1>6. ASSUME NEW p \in Proc, SaveMarker(p) PROVE FpInv'
  <2>1. FpOK' BY <1>6 DEF SaveMarker, FpOK, TypeInv, TypeOK, Goto, Finish, env
  <2> QED BY <1>0, <2>1
<1>7. ASSUME NEW p \in Proc, Activate(p) PROVE FpInv'
  <2>0. IsPull(job[p])
    BY <1>7 DEF Activate, TypeInv, ControlOK, PullPc
  <2>1. \A q \in Proc : pc[q] # "idle" => IsPull(job[q])
    BY <1>7, <2>0, IndexerIsAlone DEF Activate
  <2>2. store' \in Sha \/ store' = store
    BY <1>7 DEF Activate, TypeInv, TypeOK
  <2>3. pc'[p] = "fp_read" => store' \in Sha
    BY <1>7 DEF Activate, TypeInv, TypeOK, Goto, Finish
  <2>4. FpOK' BY <1>7, <2>0, <2>1, <2>2, <2>3 DEF Activate, FpOK, TypeInv, TypeOK, Goto, Finish, env
  <2> QED BY <1>0, <2>4
<1>8. ASSUME NEW p \in Proc, SaveStore(p) PROVE FpInv'
  <2>0. ~IsPull(job[p])
    BY <1>8 DEF SaveStore, TypeInv, ControlOK
  <2>1. \A q \in Proc : pc[q] # "idle" => q = p
    BY <1>8, <2>0, IndexerIsAlone DEF SaveStore
  <2>2. FpOK' BY <1>8, <2>0, <2>1 DEF SaveStore, FpOK, TypeInv, TypeOK, Goto, Finish, env
  <2> QED BY <1>0, <2>2
<1>9. ASSUME NEW p \in Proc, ReadStoreBack(p) PROVE FpInv'
  <2>1. FpOK' BY <1>9 DEF ReadStoreBack, FpOK, TypeInv, TypeOK, Goto, Finish, files, env
  <2> QED BY <1>0, <2>1
<1>10. ASSUME NEW p \in Proc, WriteFingerprint(p) PROVE FpInv'
  <2>1. fp' # None => fp'.redaction = (fp'.of \in Protected)
    <3>1. CASE fp' = fp
      BY <3>1 DEF FpOK
    <3>2. CASE fp' # fp /\ IsPull(job[p])
      <4>1. fp' = [of |-> hash[p], redaction |-> TRUE]
        BY <1>10, <3>2 DEF WriteFingerprint
      <4>2. hash[p] \in Protected
        BY <1>10, <3>2, CodeStoreAssumption DEF WriteFingerprint, FpOK
      <4> QED BY <4>1, <4>2
    <3>3. CASE fp' # fp /\ ~IsPull(job[p])
      <4>1. fp' = [of |-> job[p].build, redaction |-> job[p].build \in Protected]
        BY <1>10, <3>3 DEF WriteFingerprint, FpOK
      <4> QED BY <4>1
    <3> QED BY <3>1, <3>2, <3>3
  <2>2. FpOK' BY <1>10, <2>1 DEF WriteFingerprint, FpOK, TypeInv, TypeOK, Finish, env
  <2> QED BY <1>0, <2>2
<1>11. ASSUME NEW p \in Proc, Crash(p) PROVE FpInv'
  <2>1. FpOK' BY <1>11 DEF Crash, FpOK, TypeInv, TypeOK, Finish, files, env
  <2> QED BY <1>0, <2>1
<1>12. ASSUME Publish PROVE FpInv'
  BY <1>0, <1>12 DEF Publish, FpOK, files
<1>13. ASSUME DamageMarker PROVE FpInv'
  BY <1>0, <1>13 DEF DamageMarker, FpOK
<1>14. CASE UNCHANGED vars
  BY <1>0, <1>14 DEF vars, FpOK
<1> QED
  BY <1>1, <1>2, <1>3, <1>4, <1>5, <1>6, <1>7, <1>8, <1>9, <1>10, <1>11, <1>12,
     <1>13, <1>14 DEF Next, Step

\* write_for_store: the files of a root describe each other whatever step fails.  A
\* fingerprint bound to the store tells truly whether the build was redacted, when
\* the process that indexes works alone; the prior store keeps its marker always.
THEOREM FilesDescribeEachOther ==
  ASSUME IndexerAlone
  PROVE  Spec => []StoreTruthful
<1>1. FpInv /\ [Next]_vars => FpInv'
  BY StepFp
<1>2. FpInv => FingerprintTruthful
  BY DEF FpInv, FpOK, FingerprintTruthful, FingerprintBound
<1>3. Spec => []FingerprintTruthful
  BY InitFp, <1>1, <1>2, PTL DEF Spec
<1> QED BY <1>3, FailureLeavesPrior, PTL DEF StoreTruthful
=============================================================================
