--------------------------- MODULE KnowledgeStore ---------------------------
(***************************************************************************)
(* The knowledge store of one root, .cce/knowledge: the snapshot files, the *)
(* `current` pointer and the sync marker; the commands that write them,     *)
(* `cce knowledge index` (ingest_file_verified, save) and `cce knowledge    *)
(* pull` (cmd_knowledge_pull); and the MCP server that reads them through   *)
(* its cache (load_knowledge).  Every step is one file-system call.         *)
(*                                                                         *)
(* A snapshot id is a hash of the feed alone, so two contents (another      *)
(* section budget, another redactor) may share it.  A snapshot file that    *)
(* does not parse, which no cce command leaves, is not modelled.            *)
(***************************************************************************)
EXTENDS Naturals

CONSTANTS Proc,       \* cce processes that write the store
          Snapshot,   \* snapshot ids
          Content,    \* contents of snapshot files
          SnapOf,     \* SnapOf[c]: the snapshot id of content c
          Corpus,     \* corpus ids
          JobsOf,     \* JobsOf[p]: the commands process p may run
          None,       \* "no file"
          Corrupt,    \* a marker that does not parse
          MaxJobs,    \* bound: how many commands are run in all
          MaxCalls,   \* bound: how many calls the server answers
          MaxDamage,  \* bound: how often the marker is damaged from outside
          Faulty      \* file-system calls and fetches may fail, processes may die

Job == [kind : {"ingest"}, content : Content]
       \cup [kind : {"pull"}, content : Content, corpus : Corpus, force : BOOLEAN]

ASSUME KnowledgeAssumption ==
  /\ SnapOf \in [Content -> Snapshot]
  /\ None \notin Content /\ None \notin Snapshot
  /\ JobsOf \in [Proc -> SUBSET Job]
  /\ MaxJobs \in Nat /\ MaxCalls \in Nat /\ MaxDamage \in Nat
  /\ Faulty \in BOOLEAN

\* A marker that cannot be read is not an absent one, an answer of "nothing here"
\* is no content.
ASSUME NamesAssumption == Corrupt # None /\ "absent" \notin Content

VARIABLES snap,     \* snap[s]: <s>.json
          current,  \* the pointer
          marker,   \* synced.json: [corpus, snapshot, installed]
          stamp,    \* stamp[f]: the (mtime, length) of each snapshot file and of "current"
          tick,     \* the last stamp given
          pc, job,  \* per process: the next call, the command
          hash,     \* hash[p]: installed_sha256
          listing,  \* listing[p]: what prune has still to remove
          result,   \* result[p]: how the last command ended
          prior,    \* prior[p]: history, active content and marker at the start
          alone,    \* alone[p]: history, no other command ran since p's began
          rpc,      \* the server's next call
          rsnap,    \* the pointer it read
          rfp,      \* the fingerprint it took: [ptr, snap]
          cache,    \* knowledge_cache: [fp, data] or None
          served,   \* the last answer: a content, "absent" or None
          named,    \* history: snapshots that were current since the call began
          seen,     \* history: what their files held since then
          jobs, calls, damages   \* commands, calls and damages still to come

files  == <<snap, current, marker, stamp, tick>>
procs  == <<pc, job, hash, listing, result, prior, alone, jobs>>
server == <<rpc, rsnap, rfp, cache, served, calls>>
watch  == <<named, seen>>
vars   == <<snap, current, marker, stamp, tick, pc, job, hash, listing, result, prior,
            alone, rpc, rsnap, rfp, cache, served, named, seen, jobs, calls,
            damages>>

\* load_current: what the pointer names.
Active == IF current = None THEN None ELSE snap[current]

Goto(p, l)   == pc' = [pc EXCEPT ![p] = l] /\ UNCHANGED result
Finish(p, r) == /\ pc' = [pc EXCEPT ![p] = "idle"]
                /\ result' = [result EXCEPT ![p] = r]

\* A file gets a stat it never had before.
Touch(f) == /\ tick' = tick + 1
            /\ stamp' = [stamp EXCEPT ![f] = tick + 1]

Target(p) == SnapOf[job[p].content]

\* History: during a call, the snapshots that are current and what they hold.
Held(ids) == {snap[i] : i \in ids \ {None}}
Watch ==
  IF rpc = "idle" THEN UNCHANGED watch
  ELSE named' = named \cup {current'} /\ seen' = seen \cup Held(named)'

------------------------------------------------------------------------------
(* The commands. *)

Start(p, j) ==
  /\ pc[p] = "idle" /\ jobs > 0
  /\ jobs' = jobs - 1
  /\ job' = [job EXCEPT ![p] = j]
  /\ result' = [result EXCEPT ![p] = "none"]
  /\ pc' = [pc EXCEPT ![p] = IF j.kind = "pull" THEN "guard" ELSE "write"]
  /\ prior' = [prior EXCEPT ![p] = [active |-> Active, marker |-> marker]]
  /\ alone' = [q \in Proc |-> q = p /\ \A r \in Proc : pc[r] = "idle"]
  /\ UNCHANGED <<files, hash, listing, server, watch, damages>>

\* Mutant: a lenient load takes a corrupt marker for an absent one.
LenientGuard(p) ==
  /\ pc[p] = "guard"
  /\ IF job[p].force \/ marker \in {None, Corrupt} \/ marker.corpus = job[p].corpus
     THEN Goto(p, "write")
     ELSE Finish(p, "refused")
  /\ UNCHANGED <<files, job, hash, listing, prior, alone, jobs, server, watch, damages>>

\* load_strict, which does not take a corrupt marker for an absent one.
Unclaimed(p) == marker = None \/ (marker # Corrupt /\ marker.corpus = job[p].corpus)

\* Resolve the snapshot on the remote; without --force, a marker of another corpus
\* and a corrupt one stop the pull.
Guard(p) ==
  /\ pc[p] = "guard"
  /\ \/ IF job[p].force \/ Unclaimed(p) THEN Goto(p, "write")
        ELSE Finish(p, "refused")
     \/ Faulty /\ Finish(p, "failed")
  /\ UNCHANGED <<files, job, hash, listing, prior, alone, jobs, server, watch, damages>>

\* Fetch and verify the artifact, or read, parse and verify the feed; then
\* write_snapshot.
WriteSnapshot(p) ==
  /\ pc[p] = "write"
  /\ \/ /\ snap' = [snap EXCEPT ![Target(p)] = job[p].content]
        /\ Touch(Target(p))
        /\ Goto(p, IF job[p].kind = "pull" THEN "hash" ELSE "advance")
     \/ Faulty /\ Finish(p, "failed") /\ UNCHANGED <<snap, stamp, tick>>
  /\ UNCHANGED <<current, marker, job, hash, listing, prior, alone, jobs, server, damages>>
  /\ Watch

\* Mutant: the recorded hash is that of the store being superseded.
HashActive(p) ==
  /\ pc[p] = "hash"
  /\ hash' = [hash EXCEPT ![p] = Active]
  /\ Goto(p, "mark")
  /\ UNCHANGED <<files, job, listing, prior, alone, jobs, server, watch, damages>>

\* Hash the snapshot file as installed; unreadable bytes leave no hash.
HashSnapshot(p) ==
  /\ pc[p] = "hash"
  /\ \/ hash' = [hash EXCEPT ![p] = snap[Target(p)]]
     \/ Faulty /\ hash' = [hash EXCEPT ![p] = None]
  /\ Goto(p, "mark")
  /\ UNCHANGED <<files, job, listing, prior, alone, jobs, server, watch, damages>>

MarkerOf(p) == [corpus |-> job[p].corpus, snapshot |-> Target(p), installed |-> hash[p]]


\* KnowledgeSyncState::save.
SaveMarker(p) ==
  /\ pc[p] = "mark"
  /\ \/ marker' = MarkerOf(p) /\ Goto(p, "advance")
     \/ Faulty /\ Finish(p, "failed") /\ UNCHANGED marker
  /\ UNCHANGED <<snap, current, stamp, tick, job, hash, listing, prior, alone, jobs,
                 server, watch, damages>>

\* advance_current, the pointer; a pull that fails here has its marker written.
AdvanceCurrent(p) ==
  /\ pc[p] = "advance"
  /\ \/ current' = Target(p) /\ Touch("current") /\ Goto(p, "list")
     \/ /\ Faulty /\ Finish(p, IF job[p].kind = "pull" THEN "torn" ELSE "failed")
        /\ UNCHANGED <<current, stamp, tick>>
  /\ UNCHANGED <<snap, marker, job, hash, listing, prior, alone, jobs, server, damages>>
  /\ Watch

\* Mutant: the prune spares nothing.
ListEverything(p) ==
  /\ pc[p] = "list"
  /\ listing' = [listing EXCEPT ![p] = {s \in Snapshot : snap[s] # None}]
  /\ Goto(p, "prune")
  /\ UNCHANGED <<files, job, hash, prior, alone, jobs, server, watch, damages>>


\* prune_superseded_snapshots: list the directory ...
ListSnapshots(p) ==
  /\ pc[p] = "list"
  /\ listing' = [listing EXCEPT ![p] = {s \in Snapshot \ {Target(p)} : snap[s] # None}]
  /\ Goto(p, "prune")
  /\ UNCHANGED <<files, job, hash, prior, alone, jobs, server, watch, damages>>

\* ... and remove what is superseded, best effort.
PruneSnapshots(p) ==
  /\ pc[p] = "prune"
  /\ \/ \E s \in listing[p] :
          /\ snap' = [snap EXCEPT ![s] = None]
          /\ listing' = [listing EXCEPT ![p] = @ \ {s}]
          /\ UNCHANGED <<pc, result>>
     \/ listing[p] = {} /\ Finish(p, "ok") /\ UNCHANGED <<snap, listing>>
     \/ Faulty /\ listing[p] # {} /\ Finish(p, "unpruned") /\ UNCHANGED <<snap, listing>>
  /\ UNCHANGED <<current, marker, stamp, tick, job, hash, prior, alone, jobs, server, damages>>
  /\ Watch

\* A process is killed between two calls.
Crash(p) ==
  /\ Faulty /\ pc[p] # "idle"
  /\ Finish(p, "killed")
  /\ UNCHANGED <<files, job, hash, listing, prior, alone, jobs, server, watch, damages>>

\* The marker gets truncated or edited by something that is not cce.
DamageMarker ==
  /\ damages > 0 /\ marker # None
  /\ marker' = Corrupt /\ damages' = damages - 1
  /\ UNCHANGED <<snap, current, stamp, tick, procs, server, watch>>

------------------------------------------------------------------------------
(* The server: load_knowledge. *)

Answer(a) == rpc' = "idle" /\ served' = a

CallKnowledge ==
  /\ rpc = "idle" /\ calls > 0
  /\ calls' = calls - 1
  /\ rpc' = "stat_pointer" /\ served' = None
  /\ named' = {current} /\ seen' = Held({current})
  /\ UNCHANGED <<files, procs, rsnap, rfp, cache, damages>>

\* knowledge_fingerprint: the pointer's stat; no pointer, no store.
StatPointer ==
  /\ rpc = "stat_pointer"
  /\ \/ /\ current # None
        /\ rfp' = [rfp EXCEPT !.ptr = stamp["current"]]
        /\ rpc' = "read_pointer" /\ UNCHANGED <<cache, served>>
     \/ current = None /\ cache' = None /\ Answer("absent") /\ UNCHANGED rfp
  /\ UNCHANGED <<files, procs, rsnap, calls, watch, damages>>

\* knowledge_fingerprint: the snapshot the pointer names.
ReadPointer ==
  /\ rpc = "read_pointer"
  /\ rsnap' = current /\ rpc' = "stat_snapshot"
  /\ UNCHANGED <<files, procs, rfp, cache, served, calls, watch, damages>>

\* Mutant: only the pointer's stat is compared.
PointerHit == cache # None /\ cache.fp.ptr = rfp.ptr
\* The fingerprint is the one the cached store was loaded under.
CacheHit == cache # None /\ cache.fp = [rfp EXCEPT !.snap = stamp[rsnap]]

\* knowledge_fingerprint: that snapshot's stat; then the comparison.
StatSnapshot ==
  /\ rpc = "stat_snapshot"
  /\ \/ /\ snap[rsnap] = None
        /\ cache' = None /\ Answer("absent") /\ UNCHANGED rfp
     \/ /\ snap[rsnap] # None
        /\ rfp' = [rfp EXCEPT !.snap = stamp[rsnap]]
        /\ IF CacheHit THEN Answer(cache.data) ELSE rpc' = "load_pointer" /\ UNCHANGED served
        /\ UNCHANGED cache
  /\ UNCHANGED <<files, procs, rsnap, calls, watch, damages>>

\* load_current reads the pointer again ...
LoadPointer ==
  /\ rpc = "load_pointer"
  /\ rsnap' = current /\ rpc' = "load_snapshot"
  /\ UNCHANGED <<files, procs, rfp, cache, served, calls, watch, damages>>


\* ... and loads what it names; gone by now is taken for absent.
LoadSnapshot ==
  /\ rpc = "load_snapshot"
  /\ \/ /\ snap[rsnap] # None
        /\ cache' = [fp |-> rfp, data |-> snap[rsnap]]
        /\ Answer(snap[rsnap])
     \/ snap[rsnap] = None /\ cache' = None /\ Answer("absent")
  /\ UNCHANGED <<files, procs, rsnap, rfp, calls, watch, damages>>

------------------------------------------------------------------------------

Init ==
  /\ snap = [s \in Snapshot |-> None] /\ current = None /\ marker = None
  /\ stamp = [f \in Snapshot \cup {"current"} |-> 0] /\ tick = 0
  /\ pc = [p \in Proc |-> "idle"] /\ job = [p \in Proc |-> None]
  /\ hash = [p \in Proc |-> None] /\ listing = [p \in Proc |-> {}]
  /\ result = [p \in Proc |-> "none"]
  /\ prior = [p \in Proc |-> [active |-> None, marker |-> None]]
  /\ alone = [p \in Proc |-> FALSE]
  /\ rpc = "idle" /\ rsnap = None /\ rfp = [ptr |-> 0, snap |-> 0]
  /\ cache = None /\ served = None /\ named = {} /\ seen = {}
  /\ jobs = MaxJobs /\ calls = MaxCalls /\ damages = MaxDamage

Step(p) == \/ Guard(p) \/ WriteSnapshot(p) \/ HashSnapshot(p) \/ SaveMarker(p)
           \/ AdvanceCurrent(p) \/ ListSnapshots(p) \/ PruneSnapshots(p)

LoadKnowledge == \/ CallKnowledge \/ StatPointer \/ ReadPointer \/ StatSnapshot
                 \/ LoadPointer \/ LoadSnapshot

Next == \/ \E p \in Proc : Step(p) \/ Crash(p) \/ \E j \in JobsOf[p] : Start(p, j)
        \/ DamageMarker \/ LoadKnowledge

Spec == Init /\ [][Next]_vars

------------------------------------------------------------------------------
(* Properties. *)

Marker == {None, Corrupt}
          \cup [corpus : Corpus, snapshot : Snapshot, installed : Content \cup {None}]
Fp == [ptr : Nat, snap : Nat]
Label == {"idle", "guard", "write", "hash", "mark", "advance", "list", "prune"}
Outcome == {"none", "ok", "unpruned", "refused", "failed", "torn", "killed"}

\* The files, the commands and the server are well formed.
TypeOK ==
  /\ snap \in [Snapshot -> Content \cup {None}]
  /\ current \in Snapshot \cup {None}
  /\ marker \in Marker
  /\ stamp \in [Snapshot \cup {"current"} -> Nat] /\ tick \in Nat
  /\ pc \in [Proc -> Label]
  /\ job \in [Proc -> Job \cup {None}]
  /\ hash \in [Proc -> Content \cup {None}]
  /\ listing \in [Proc -> SUBSET Snapshot]
  /\ result \in [Proc -> Outcome]
  /\ prior \in [Proc -> [active : Content \cup {None}, marker : Marker]]
  /\ alone \in [Proc -> BOOLEAN]
  /\ rpc \in {"idle", "stat_pointer", "read_pointer", "stat_snapshot", "load_pointer",
              "load_snapshot"}
  /\ rsnap \in Snapshot \cup {None}
  /\ rfp \in Fp
  /\ cache \in {None} \cup [fp : Fp, data : Content]
  /\ served \in Content \cup {None, "absent"}
  /\ named \subseteq Snapshot \cup {None}
  /\ seen \subseteq Content \cup {None}
  /\ jobs \in Nat /\ calls \in Nat /\ damages \in Nat

\* advance_current "must run after its snapshot artifact is on disk": the pointer
\* never names a snapshot that is not there, whatever dies or fails.
CurrentLoadable == current # None => snap[current] # None

\* p's command was the last one, and nothing else ran while it did.
EndedAlone(p, r) == pc[p] = "idle" /\ alone[p] /\ result[p] = r

\* "Any failure before it leaves the prior store active and its marker consistent"
\* (cmd_knowledge_pull): a command that fails or refuses leaves the marker and the
\* active store as they were.  The one exception is an artifact with the snapshot id
\* of the active store and another content: writing it replaces the active file.
FailureKeepsActive ==
  \A p \in Proc : EndedAlone(p, "failed") \/ EndedAlone(p, "refused") =>
     /\ marker \in {prior[p].marker, Corrupt}
     /\ \/ Active = prior[p].active
        \/ /\ prior[p].active # None /\ SnapOf[prior[p].active] = Target(p)
           /\ Active = job[p].content

\* Section 5: a pull without --force never takes over a root that another corpus, or
\* an unreadable marker, claims.
CorpusStays ==
  [][\A p \in Proc : pc[p] = "mark" /\ marker' # marker =>
        \/ job[p].force \/ prior[p].marker = None
        \/ prior[p].marker # Corrupt /\ prior[p].marker.corpus = job[p].corpus]_vars

\* verify_knowledge_checksum: compare the pulled snapshot with its recorded hash.
VerifyKnowledgeChecksum ==
  CASE marker \in {None, Corrupt} -> "not_pulled"
    [] marker \notin {None, Corrupt} /\ marker.installed = None -> "no_record"
    [] OTHER -> IF snap[marker.snapshot] = marker.installed THEN "ok" ELSE "failed"

\* A pull that ends with success has installed its artifact, whatever earlier
\* commands left half done: it is active, and verify does not contradict the marker.
PullInstalls ==
  \A p \in Proc : EndedAlone(p, "ok") /\ job[p].kind = "pull" =>
     Active = job[p].content /\ VerifyKnowledgeChecksum # "failed"

\* "Without this, routine re-ingestion / pull leaks unbounded disk" (advance_current):
\* a command that ends with success leaves its own snapshot and no other, also the
\* ones that killed or failed commands left.
NothingLeaks ==
  \A p \in Proc : EndedAlone(p, "ok") => \A s \in Snapshot \ {Target(p)} : snap[s] = None

\* "Never a stale answer" (load_knowledge): what the server answers with was, at some
\* moment of the call, in the file of a snapshot that was current during the call.
ServedWasCurrent == rpc = "idle" /\ served \in Content => served \in seen

\* How a knowledge command ends says what it did: a failure left the active store, a success
\* installed its own snapshot and left no other.
OutcomeTrue == FailureKeepsActive /\ PullInstalls /\ NothingLeaks
=============================================================================
