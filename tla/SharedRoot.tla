----------------------------- MODULE SharedRoot -----------------------------
(***************************************************************************)
(* Two cce processes writing one root at the same time, which no lock      *)
(* prevents: code pulls (install_artifact) share the staging name          *)
(* index.json.incoming, and knowledge writers prune each other's snapshots *)
(* (KnowledgeStore::advance_current).  CodeStore and KnowledgeStore model  *)
(* the commands in full for one writer of each kind; here the question is  *)
(* what an overlap can damage and what repairs it.                         *)
(***************************************************************************)
EXTENDS Naturals, FiniteSets

CONSTANTS Writer,    \* processes
          Version,   \* published builds, and snapshots
          MaxWrites, \* bound: commands in all
          Absent     \* no file

ASSUME RootAssumption == Absent \notin Version

VARIABLES files,  \* [staged, store, marker, snaps, current, writes, doubt]
          writer  \* [Writer -> [how, pc, v, hash, doomed, alone]]

rootVars == <<files, writer>>

\* `cce sync pull`, the same with --force, a member's turn in `cce sync pull --all`,
\* and `cce knowledge index`.
How == {"pull", "force", "all", "ingest"}
Ended == {"idle", "pulled", "saved", "refused", "uptodate", "failed"}

Resting == [how |-> "pull", pc |-> "idle", v |-> Absent, hash |-> Absent, doomed |-> {}, alone |-> FALSE]
AtPc(w, pc) == writer[w].pc = pc
Go(w, pc) == writer' = [writer EXCEPT ![w].pc = pc]
Busy == {w \in Writer : writer[w].pc \notin Ended}

\* A command starts; it ends alone unless another one runs meanwhile.  `doubt` is
\* kept for the properties: the side of the root that commands met on, or where a
\* pull was killed between marker and rename, until an install that runs alone.
Begin(w, how, v) ==
  /\ w \notin Busy /\ files.writes < MaxWrites
  /\ writer' = [u \in Writer |->
       IF u = w THEN [Resting EXCEPT !.how = how, !.pc = IF how = "ingest" THEN "snapshot" ELSE "guard",
                                     !.v = v, !.alone = Busy = {}]
       ELSE [writer[u] EXCEPT !.alone = FALSE]]
  /\ files' = [files EXCEPT !.writes = @ + 1, !.doubt = IF Busy = {} THEN @ ELSE {"code", "know"}]

\* cmd_pull refuses another sha than the marker's without --force; pull --all counts
\* a member whose marker has the sha as up to date.  Either way nothing is written.
MarkerSha == IF files.marker = Absent THEN Absent ELSE files.marker.sha
TurnedAway(w) == writer[w].how = "pull" /\ MarkerSha \notin {Absent, writer[w].v}
CountedUpToDate(w) == writer[w].how = "all" /\ MarkerSha = writer[w].v
GuardPull(w) ==
  /\ AtPc(w, "guard") /\ UNCHANGED files
  /\ Go(w, IF TurnedAway(w) THEN "refused" ELSE IF CountedUpToDate(w) THEN "uptodate" ELSE "stage")

-----------------------------------------------------------------------------
(* install_artifact.                                                       *)

Stage(w) ==
  AtPc(w, "stage") /\ files' = [files EXCEPT !.staged = writer[w].v] /\ Go(w, "hash")
\* The hash is of what is under the staging name now.  When another pull has renamed
\* it away, carrying the store's mode over fails, or the hash is left out of the marker.
HashBytes(w) ==
  /\ AtPc(w, "hash") /\ UNCHANGED files
  /\ \/ files.staged = Absent /\ Go(w, "failed")
     \/ writer' = [writer EXCEPT ![w].hash = files.staged, ![w].pc = "mark"]
MarkOnce(w) ==
  /\ AtPc(w, "mark") /\ Go(w, "rename")
  /\ files' = [files EXCEPT !.marker = IF @ = Absent THEN [sha |-> writer[w].v, installed |-> writer[w].hash] ELSE @]
SaveState(w) ==
  /\ AtPc(w, "mark") /\ Go(w, "rename")
  /\ files' = [files EXCEPT !.marker = [sha |-> writer[w].v, installed |-> writer[w].hash]]
\* Another pull may already have renamed the staged file away.
RenameStaged(w) ==
  /\ AtPc(w, "rename")
  /\ IF files.staged = Absent THEN Go(w, "failed") /\ UNCHANGED files
     ELSE /\ Go(w, "pulled")
          /\ files' = [files EXCEPT !.store = files.staged, !.staged = Absent,
                                    !.doubt = IF writer[w].alone THEN @ \ {"code"} ELSE @]

-----------------------------------------------------------------------------
(* KnowledgeStore::save: write_snapshot, advance_current, prune.            *)

WriteSnapshot(w) ==
  AtPc(w, "snapshot") /\ files' = [files EXCEPT !.snaps = @ \cup {writer[w].v}] /\ Go(w, "advance")
AdvanceCurrent(w) ==
  AtPc(w, "advance") /\ files' = [files EXCEPT !.current = writer[w].v] /\ Go(w, "list")
\* read_dir names every snapshot but the one just made current ...
ListSnapshots(w) ==
  /\ AtPc(w, "list") /\ UNCHANGED files
  /\ writer' = [writer EXCEPT ![w].doomed = files.snaps \ {writer[w].v}, ![w].pc = "prune"]
\* ... and each is removed, whatever `current` says by then.
Prune(w) ==
  /\ AtPc(w, "prune")
  /\ IF writer[w].doomed = {}
     THEN /\ Go(w, "saved")
          /\ files' = [files EXCEPT !.doubt = IF writer[w].alone THEN @ \ {"know"} ELSE @]
     ELSE \E s \in writer[w].doomed :
            /\ files' = [files EXCEPT !.snaps = @ \ {s}]
            /\ writer' = [writer EXCEPT ![w].doomed = @ \ {s}]

-----------------------------------------------------------------------------
KillWriter(w) ==
  /\ w \in Busy /\ writer' = [writer EXCEPT ![w] = Resting]
  /\ files' = [files EXCEPT !.doubt = IF AtPc(w, "rename") THEN @ \cup {"code"} ELSE @]

RootInit ==
  /\ files = [staged |-> Absent, store |-> Absent, marker |-> Absent, snaps |-> {},
              current |-> Absent, writes |-> 0, doubt |-> {}]
  /\ writer = [w \in Writer |-> Resting]

RootNext == \E w \in Writer :
  \/ \E v \in Version, how \in How : Begin(w, how, v)
  \/ GuardPull(w) \/ Stage(w) \/ HashBytes(w) \/ SaveState(w) \/ RenameStaged(w)
  \/ WriteSnapshot(w) \/ AdvanceCurrent(w) \/ ListSnapshots(w) \/ Prune(w)
  \/ KillWriter(w)

RootSpec == RootInit /\ [][RootNext]_rootVars

-----------------------------------------------------------------------------
(* Properties.                                                             *)

\* The marker tells the store (sha and recorded hash) while no pull stands between the
\* two, and `current` names a snapshot that is there, unless commands met or a pull was
\* killed at that point and no install has run by itself since.
WrongOnlyInDoubt ==
  /\ "code" \notin files.doubt /\ files.marker # Absent /\ ~(\E w \in Writer : AtPc(w, "rename"))
        => files.marker.sha = files.store /\ files.marker.installed = files.store
  /\ "know" \notin files.doubt /\ files.current # Absent => files.current \in files.snaps

\* Whatever mixture two commands left (a marker of one with the store of the
\* other, a staged file, a pointer to a pruned snapshot), the next install that
\* runs by itself does not fail and repairs all of its side.
NextInstallRepairs ==
  \A w \in Writer : writer[w].alone =>
    /\ AtPc(w, "pulled") => /\ files.store = writer[w].v /\ files.staged = Absent
                            /\ files.marker = [sha |-> writer[w].v, installed |-> writer[w].v]
    /\ AtPc(w, "saved") => files.current = writer[w].v /\ files.snaps = {writer[w].v}
    /\ ~AtPc(w, "failed")

\* The next command need not be an install: by itself, an unforced pull of another sha
\* than the marker's is refused, and a pull --all of the marker's sha is counted up to
\* date, truly so only where the root is not in doubt.  No other command is turned away.
TurnedAwayByMarker ==
  \A w \in Writer : writer[w].alone =>
    /\ AtPc(w, "refused") => TurnedAway(w)
    /\ AtPc(w, "uptodate") => /\ CountedUpToDate(w)
                              /\ "code" \notin files.doubt => files.store = writer[w].v

\* Commands on one root without a lock leave it wrong only if they met or a pull was killed
\* between marker and rename, until the next install that runs alone; what else runs alone is
\* turned away by the marker.
HarmBounded == WrongOnlyInDoubt /\ NextInstallRepairs /\ TurnedAwayByMarker
=============================================================================
