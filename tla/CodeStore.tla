------------------------------ MODULE CodeStore ------------------------------
(***************************************************************************)
(* The files of one root's .cce directory and the commands that write them:*)
(* `cce index` (cmd_index), `cce sync pull` (cmd_pull), one member of       *)
(* `cce sync pull --all` (cmd_pull_all) and the pull of a starting MCP      *)
(* server (warm_via_sync); and what `cce sync verify --checksum-only` and   *)
(* `cce doctor` conclude from the files.  Every step is one file-system     *)
(* call that replaces a file in one go (atomic_write, rename); a process    *)
(* may be killed, and a call may fail, between any two of them.             *)
(*                                                                         *)
(* A store is abstracted to the build it holds, a SHA-256 to the bytes it   *)
(* is of.  The artifact published for a sha holds the build of that sha.    *)
(***************************************************************************)
EXTENDS Naturals

CONSTANTS Proc,        \* cce processes working on the root
          Sha,         \* commits with an artifact on the remote; also their builds
          LocalBuild,  \* builds `cce index` may make of the working tree
          Protected,   \* the builds made with redaction on
          None,        \* "no file"
          Corrupt,     \* a marker that does not parse
          Latest,      \* the target of `--latest`
          JobsOf,      \* JobsOf[p]: the commands process p may run
          MaxJobs,     \* bound: how many commands are run in all
          MaxPublish,  \* bound: how often the latest pointer moves
          MaxDamage,   \* bound: how often the marker is damaged from outside
          Faulty       \* file-system calls and fetches may fail, processes may die

Build == Sha \cup LocalBuild
Job   == [kind : {"pull", "pull_all", "warm"}, target : Sha \cup {Latest}, force : BOOLEAN]
         \cup [kind : {"index"}, build : LocalBuild]

ASSUME CodeStoreAssumption ==
  /\ Sha \cap LocalBuild = {}
  /\ Sha \subseteq Protected /\ Protected \subseteq Build
  /\ None \notin Build /\ Corrupt # None /\ Latest \notin Sha
  /\ JobsOf \in [Proc -> SUBSET Job]
  /\ MaxJobs \in Nat /\ MaxPublish \in Nat /\ MaxDamage \in Nat
  /\ Faulty \in BOOLEAN

\* An absent or unreadable file is none of the records a file may hold.
ASSUME NoRecordAssumption ==
  /\ {None, Corrupt} \cap [sha : Sha, installed : Build \cup {None}] = {}
  /\ None \notin [of : Build, redaction : BOOLEAN]

VARIABLES store,    \* index.json
          staged,   \* index.json.incoming
          marker,   \* synced.json: [sha, installed]
          fp,       \* fingerprint.json: [of, redaction]
          latest,   \* the sha the remote's refs/main names
          pc, job,  \* per process: the next call, the command (None: not yet any)
          target,   \* target[p]: the sha a pull resolved to
          hash,     \* hash[p]: installed_sha256, or the bytes write_for_store read
          result,   \* result[p]: how the last command ended
          prior,    \* prior[p]: history, store and marker when p's command began
          alone,    \* alone[p]: history, no other command ran since p's began
          jobs,     \* commands still to be run
          moves,    \* publications still to come
          damages   \* marker damages still to come

files == <<store, staged, marker, fp>>
env   == <<latest, jobs, moves, damages, prior, alone>>
vars  == <<store, staged, marker, fp, latest, pc, job, target, hash, result,
           prior, alone, jobs, moves, damages>>

Goto(p, l)   == pc' = [pc EXCEPT ![p] = l] /\ UNCHANGED result
Finish(p, r) == /\ pc' = [pc EXCEPT ![p] = "idle"]
                /\ result' = [result EXCEPT ![p] = r]

IsPull(j) == j.kind # "index"

\* The marker as the lenient SyncState::load sees it.
MarkedSha == IF marker \in {None, Corrupt} THEN None ELSE marker.sha

------------------------------------------------------------------------------
(* The commands. *)

Start(p, j) ==
  /\ pc[p] = "idle" /\ jobs > 0
  /\ jobs' = jobs - 1
  /\ job' = [job EXCEPT ![p] = j]
  /\ result' = [result EXCEPT ![p] = "none"]
  /\ pc' = [pc EXCEPT ![p] = IF IsPull(j) THEN "resolve" ELSE "save_store"]
  /\ prior' = [prior EXCEPT ![p] = [store |-> store, marker |-> marker]]
  /\ alone' = [q \in Proc |-> q = p /\ \A r \in Proc : pc[r] = "idle"]
  /\ UNCHANGED <<files, latest, target, hash, moves, damages>>


\* resolve_pull_sha / the listing of pull --all: --latest reads the pointer.
ResolvePullSha(p) ==
  /\ pc[p] = "resolve"
  /\ \/ /\ target' = [target EXCEPT ![p] =
                       IF job[p].target = Latest THEN latest ELSE job[p].target]
        /\ Goto(p, "guard")
     \/ Faulty /\ Finish(p, "failed") /\ UNCHANGED target
  /\ UNCHANGED <<files, env, job, hash>>

\* Mutants: a lenient load, which takes a corrupt marker for an absent one; and
\* the up-to-date shortcut of pull --all in front of every pull.
LenientGuard(p) ==
  /\ pc[p] = "guard"
  /\ IF ~job[p].force /\ MarkedSha \notin {None, target[p]}
     THEN Finish(p, "refused")
     ELSE Goto(p, "stage")
  /\ UNCHANGED <<files, env, job, target, hash>>
ShortcutGuard(p) ==
  /\ pc[p] = "guard"
  /\ IF MarkedSha = target[p] THEN Finish(p, "ok") ELSE Goto(p, "stage")
  /\ UNCHANGED <<files, env, job, target, hash>>

\* cmd_pull_all, which has no guard: an unmoved sha is up to date.
UpToDate(p) == MarkedSha = target[p]

\* load_strict, which unlike `load` does not take a corrupt marker for an absent
\* one: the cache is pinned elsewhere, or nobody can tell where.
PinnedElsewhere(p) == marker = Corrupt \/ MarkedSha \notin {None, target[p]}

\* cmd_pull: without --force, leave a pinned cache alone.
Guard(p) ==
  /\ pc[p] = "guard"
  /\ IF job[p].kind = "pull_all"
     THEN IF UpToDate(p) THEN Finish(p, "ok") ELSE Goto(p, "stage")
     ELSE IF ~job[p].force /\ PinnedElsewhere(p) THEN Finish(p, "refused")
          ELSE Goto(p, "stage")
  /\ UNCHANGED <<files, env, job, target, hash>>

\* Fetch the artifact and install_artifact: save the index beside the store.
StageIndex(p) ==
  /\ pc[p] = "stage"
  /\ \/ staged' = target[p] /\ Goto(p, "hash")
     \/ Faulty /\ Finish(p, "failed") /\ UNCHANGED staged
  /\ UNCHANGED <<store, marker, fp, env, job, target, hash>>

\* Mutant: the hash recorded is that of the store about to be replaced.
HashActiveStore(p) ==
  /\ pc[p] = "hash"
  /\ hash' = [hash EXCEPT ![p] = store]
  /\ Goto(p, "mark")
  /\ UNCHANGED <<files, env, job, target>>

\* install_artifact: carry the mode over, which fails when the staged file is
\* gone, then hash the staged bytes; unreadable bytes leave no hash.
HashStaged(p) ==
  /\ pc[p] = "hash"
  /\ \/ hash' = [hash EXCEPT ![p] = staged] /\ Goto(p, "mark")
     \/ Faulty /\ hash' = [hash EXCEPT ![p] = None] /\ Goto(p, "mark")
     \/ (Faulty \/ staged = None) /\ Finish(p, "failed") /\ UNCHANGED hash
  /\ UNCHANGED <<files, env, job, target>>

\* Mutant: the store is activated before the marker is written.
ActivateFirst(p) ==
  /\ pc[p] = "mark"
  /\ \/ /\ store' = staged /\ staged' = None
        /\ marker' = [sha |-> target[p], installed |-> hash[p]]
        /\ Goto(p, "fp_read")
     \/ Faulty /\ store' = staged /\ staged' = None /\ Finish(p, "failed") /\ UNCHANGED marker
  /\ UNCHANGED <<fp, env, job, target, hash>>

\* install_artifact: SyncState::save; on failure the staged file is removed.
SaveMarker(p) ==
  /\ pc[p] = "mark"
  /\ \/ /\ marker' = [sha |-> target[p], installed |-> hash[p]]
        /\ Goto(p, "activate") /\ UNCHANGED staged
     \/ Faulty /\ staged' = None /\ Finish(p, "failed") /\ UNCHANGED marker
  /\ UNCHANGED <<store, fp, env, job, target, hash>>

\* install_artifact: rename the staged file over the store; a failed rename (it
\* is gone, or the call fails) removes it.
Activate(p) ==
  /\ pc[p] = "activate"
  /\ \/ staged # None /\ store' = staged /\ Goto(p, "fp_read")
     \/ staged = None /\ Finish(p, "torn") /\ UNCHANGED store
     \/ Faulty /\ Finish(p, "torn") /\ UNCHANGED store
  /\ staged' = None
  /\ UNCHANGED <<marker, fp, env, job, target, hash>>

\* cmd_index: build, then Index::save; a failed build or save writes nothing.
SaveStore(p) ==
  /\ pc[p] = "save_store"
  /\ \/ store' = job[p].build /\ Goto(p, "fp_read")
     \/ Faulty /\ Finish(p, "failed") /\ UNCHANGED store
  /\ UNCHANGED <<staged, marker, fp, env, job, target, hash>>

\* fingerprint::write_for_store: read the store back ...
ReadStoreBack(p) ==
  /\ pc[p] = "fp_read"
  /\ hash' = [hash EXCEPT ![p] = store]
  /\ IF store = None THEN Finish(p, "ok") ELSE Goto(p, "fp_write")
  /\ UNCHANGED <<files, env, job, target>>


\* ... and write the fingerprint of this command's build beside it, best effort.
\* A pulled artifact is always redacted.
WriteFingerprint(p) ==
  /\ pc[p] = "fp_write"
  /\ \/ fp' = [of |-> hash[p], redaction |-> IsPull(job[p]) \/ job[p].build \in Protected]
     \/ Faulty /\ UNCHANGED fp
  /\ Finish(p, "ok")
  /\ UNCHANGED <<store, staged, marker, env, job, target, hash>>

\* A process is killed between two calls.
Crash(p) ==
  /\ Faulty /\ pc[p] # "idle"
  /\ Finish(p, "killed")
  /\ UNCHANGED <<files, env, job, target, hash>>

------------------------------------------------------------------------------
(* The surroundings. *)

\* CI publishes another commit and moves refs/main.
Publish == \E s \in Sha \ {latest} :
  /\ moves > 0
  /\ latest' = s
  /\ moves' = moves - 1
  /\ UNCHANGED <<files, pc, job, target, hash, result, prior, alone, jobs, damages>>

\* The marker gets truncated or edited by something that is not cce.
DamageMarker ==
  /\ damages > 0 /\ marker # None
  /\ marker' = Corrupt
  /\ damages' = damages - 1
  /\ UNCHANGED <<store, staged, fp, latest, pc, job, target, hash, result, prior, alone,
                 jobs, moves>>

Init ==
  /\ store = None /\ staged = None /\ marker = None /\ fp = None
  /\ latest \in Sha
  /\ pc = [p \in Proc |-> "idle"]
  /\ job = [p \in Proc |-> None]
  /\ target = [p \in Proc |-> None]
  /\ hash = [p \in Proc |-> None]
  /\ result = [p \in Proc |-> "none"]
  /\ prior = [p \in Proc |-> [store |-> None, marker |-> None]]
  /\ alone = [p \in Proc |-> FALSE]
  /\ jobs = MaxJobs /\ moves = MaxPublish /\ damages = MaxDamage

Step(p) == \/ ResolvePullSha(p) \/ Guard(p) \/ StageIndex(p) \/ HashStaged(p)
           \/ SaveMarker(p) \/ Activate(p) \/ SaveStore(p)
           \/ ReadStoreBack(p) \/ WriteFingerprint(p)

Next == \/ \E p \in Proc : Step(p) \/ Crash(p) \/ \E j \in JobsOf[p] : Start(p, j)
        \/ Publish \/ DamageMarker

Spec == Init /\ [][Next]_vars

------------------------------------------------------------------------------
(* What the read-only commands conclude. *)

\* verify_store_checksum: compare the store with the hash the pull recorded.
VerifyStoreChecksum ==
  CASE marker \in {None, Corrupt}      -> "not_pulled"
    [] marker \notin {None, Corrupt} /\ marker.installed = None -> "no_record"
    [] OTHER -> IF store = marker.installed THEN "ok" ELSE "failed"

\* check_fingerprint: the recorded configuration is trusted only when the
\* fingerprint is bound to the bytes of the store.
FingerprintBound == fp # None /\ store # None /\ fp.of = store

------------------------------------------------------------------------------
(* Properties. *)

Marker == {None, Corrupt} \cup [sha : Sha, installed : Build \cup {None}]

\* The files and the processes are well formed.
TypeOK ==
  /\ store \in Build \cup {None}
  /\ staged \in Sha \cup {None}
  /\ marker \in Marker
  /\ fp \in {None} \cup [of : Build, redaction : BOOLEAN]
  /\ latest \in Sha
  /\ pc \in [Proc -> {"idle", "resolve", "guard", "stage", "hash", "mark", "activate",
                      "save_store", "fp_read", "fp_write"}]
  /\ job \in [Proc -> Job \cup {None}]
  /\ \A p \in Proc : pc[p] # "idle" => job[p] \in JobsOf[p]
  /\ target \in [Proc -> Sha \cup {None}]
  /\ hash \in [Proc -> Build \cup {None}]
  /\ result \in [Proc -> {"none", "ok", "refused", "failed", "torn", "killed"}]
  /\ prior \in [Proc -> [store : Build \cup {None}, marker : Marker]]
  /\ alone \in [Proc -> BOOLEAN]
  /\ jobs \in Nat /\ moves \in Nat /\ damages \in Nat

\* A crash between marker and rename is "a TRANSIENT inconsistency that
\* `verify`/`doctor` detect" (install_artifact): when verify reports OK, the store
\* really is the build of the sha the marker names.
VerifyTruthful == VerifyStoreChecksum = "ok" => store = marker.sha

\* p's command was the last one, and nothing else ran while it did.
EndedAlone(p, r) == pc[p] = "idle" /\ alone[p] /\ result[p] = r

\* "The next same-sha pull self-heals" (install_artifact): a pull that ends with
\* success leaves the marker and the store at the sha it pulled, whatever crashed
\* or failed commands left behind.
PullHeals ==
  \A p \in Proc : EndedAlone(p, "ok") /\ IsPull(job[p]) /\ marker # Corrupt
                  => MarkedSha = target[p] /\ store = target[p]

\* "A marker-write failure leaves the PRIOR index.json active with its own marker
\* intact" (install_artifact): a command that fails, or a pull that refuses, has
\* changed neither (a rename that fails after the marker was written is "torn").
PriorIntact ==
  \A p \in Proc : EndedAlone(p, "failed") \/ EndedAlone(p, "refused")
                  => /\ store = prior[p].store
                     /\ marker \in {prior[p].marker, Corrupt}

\* Paragraph 9.4: without --force neither a cache pinned at another sha nor a
\* corrupt marker is overwritten.  Whoever writes the marker was forced, or is
\* pull --all, or its command began with no marker or with one of the same sha.
MayPin(p) ==
  \/ job[p].kind = "pull_all" \/ job[p].force
  \/ prior[p].marker = None
  \/ prior[p].marker # Corrupt /\ prior[p].marker.sha = target[p]
PinnedStays ==
  [][\A p \in Proc : pc[p] = "mark" /\ marker' # marker => MayPin(p)]_vars

\* A fingerprint bound to the store's bytes describes how the store was built:
\* `cce doctor` never misses that secrets were not redacted.
FingerprintTruthful == FingerprintBound => fp.redaction = (store \in Protected)

\* "never clobber a WIP local cache" (warm_via_sync): the pull of a starting MCP
\* server does not replace a store that `cce index` built.
WarmKeepsLocalBuild ==
  [][\A p \in Proc : pc[p] = "activate" /\ job[p].kind = "warm" /\ store \in LocalBuild
        => store' = store]_vars

\* Whatever step of a pull or an index fails, the files that are there describe each other: the prior
\* store keeps its marker, and a fingerprint is of the store beside it.
StoreTruthful == PriorIntact /\ FingerprintTruthful
=============================================================================
