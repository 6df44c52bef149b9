---------------------------- MODULE EngineProofs ----------------------------
(***************************************************************************)
(* Parts of the `engine` run, for every value of their constants: two      *)
(* commands on one root (SharedRoot), the self-update (SelfUpdate), the    *)
(* answers of the MCP session (Session) and the writing of one file        *)
(* (AtomicWrite).  Each theorem is about the part's own specification; a   *)
(* step of another part leaves its variables alone.  At the end, the       *)
(* operators behind an answer (McpAnswers) and the ranking (Retrieval).    *)
(* The lemmas about sums and orders are those of OperatorProofs.           *)
(***************************************************************************)
EXTENDS Session, SharedRoot, SelfUpdate, AtomicWrite, McpAnswers, OperatorProofs, FiniteSetTheorems, TLAPS

(***************************************************************************)
(* Two commands on one root.                                               *)
(***************************************************************************)

FileOf == Version \cup {Absent}
RootPc == {"idle", "guard", "refused", "uptodate", "stage", "hash", "mark", "rename", "pulled", "failed",
           "snapshot", "advance", "list", "prune", "saved"}

RootFilesOK ==
  /\ files = [x \in {"staged", "store", "marker", "snaps", "current", "writes", "doubt"} |-> files[x]]
  /\ files.staged \in FileOf /\ files.store \in FileOf /\ files.current \in FileOf
  /\ files.marker # Absent => files.marker \in [sha : Version, installed : FileOf]
  /\ files.snaps \subseteq Version /\ files.doubt \subseteq {"code", "know"}
RootWritersOK ==
  writer \in [Writer -> [how : How, pc : RootPc, v : FileOf, hash : FileOf, doomed : SUBSET Version, alone : BOOLEAN]]
VersionGiven == \A w \in Writer : writer[w].pc # "idle" => writer[w].v \in Version

\* Who runs alone is the only one that runs, and when one side is not in doubt each does.
AloneIsAlone ==
  /\ \A w \in Writer : writer[w].alone => Busy \subseteq {w}
  /\ files.doubt # {"code", "know"} => \A w \in Busy : writer[w].alone

\* How far a command that runs alone has come, in what the files hold.
Progress(w) ==
  LET v == writer[w].v
  IN /\ writer[w].pc # "failed"
     /\ writer[w].pc = "refused" => TurnedAway(w)
     /\ writer[w].pc = "uptodate" => CountedUpToDate(w)
     /\ writer[w].pc \in {"hash", "mark", "rename"} => files.staged = v
     /\ writer[w].pc = "mark" => writer[w].hash = v
     /\ writer[w].pc \in {"rename", "pulled"} => files.marker = [sha |-> v, installed |-> v]
     /\ writer[w].pc = "pulled" => files.store = v /\ files.staged = Absent
     /\ writer[w].pc \in {"advance", "list", "prune", "saved"} => v \in files.snaps
     /\ writer[w].pc \in {"list", "prune", "saved"} => files.current = v
     /\ writer[w].pc = "prune" => v \notin writer[w].doomed /\ files.snaps = {v} \cup writer[w].doomed
     /\ writer[w].pc = "saved" => files.snaps = {v}
ProgressAlone == \A w \in Writer : writer[w].alone => Progress(w)

\* What is not in doubt: a marker of one build, the store's unless a pull is about to
\* rename its own, and a pointer to a snapshot that is there.
RootClean ==
  /\ "code" \notin files.doubt /\ files.marker # Absent
       => /\ files.marker.installed = files.marker.sha
          /\ files.store = files.marker.sha \/ \E w \in Writer : writer[w].pc = "rename"
  /\ "know" \notin files.doubt /\ files.current # Absent => files.current \in files.snaps

RootInv == RootFilesOK /\ RootWritersOK /\ VersionGiven /\ AloneIsAlone /\ ProgressAlone /\ RootClean
-----------------------------------------------------------------------------
\* The first state has no command and no file.
LEMMA RootInitInv == RootInit => RootInv
<1> SUFFICES ASSUME RootInit PROVE RootInv
  OBVIOUS
<1>1. RootFilesOK
  BY DEF RootInit, RootFilesOK, FileOf
<1>2. RootWritersOK
  BY DEF RootInit, RootWritersOK, RootPc, FileOf, Resting, How
<1>3. \A w \in Writer : writer[w].pc = "idle" /\ ~writer[w].alone
  BY DEF RootInit, Resting
<1>4. Busy = {}
  BY <1>3 DEF Busy, Ended
<1>5. files.current = Absent /\ files.marker = Absent /\ files.doubt = {}
  BY DEF RootInit
<1> QED
  BY <1>1, <1>2, <1>3, <1>4, <1>5 DEF RootInv, VersionGiven, AloneIsAlone, ProgressAlone, RootClean

\* No step of a command, start or kill breaks the invariant.
LEMMA RootStepInv == RootInv /\ [RootNext]_rootVars => RootInv'
<1> SUFFICES ASSUME RootInv, [RootNext]_rootVars PROVE RootInv'
  OBVIOUS
<1> USE RootAssumption DEF RootInv, FileOf
<1>0. Busy \subseteq Writer
  BY DEF Busy, Ended
<1>1. ASSUME NEW w \in Writer, NEW v \in Version, NEW how \in How, Begin(w, how, v)
      PROVE RootInv'
  <2>1. RootFilesOK'
    BY <1>1 DEF Begin, RootFilesOK
  <2>2. /\ writer' = [u \in Writer |-> writer'[u]]
        /\ writer'[w] = [how |-> how, pc |-> IF how = "ingest" THEN "snapshot" ELSE "guard", v |-> v, hash |-> Absent, doomed |-> {}, alone |-> (Busy = {})]
        /\ \A u \in Writer \ {w} : writer'[u] = [writer[u] EXCEPT !.alone = FALSE]
    BY <1>1 DEF Begin, Resting
  <2>3. /\ writer'[w].pc \in {"snapshot", "guard"} /\ writer'[w].v = v /\ writer'[w].alone = (Busy = {})
        /\ \A u \in Writer \ {w} : /\ writer'[u].pc = writer[u].pc /\ writer'[u].v = writer[u].v
                                   /\ writer'[u].hash = writer[u].hash /\ ~writer'[u].alone
    BY <2>2 DEF RootWritersOK
  <2>4. RootWritersOK'
    <3>1. writer'[w] \in [how : How, pc : RootPc, v : FileOf, hash : FileOf, doomed : SUBSET Version, alone : BOOLEAN]
      BY <2>2 DEF RootPc
    <3>2. ASSUME NEW u \in Writer \ {w}
          PROVE writer'[u] \in [how : How, pc : RootPc, v : FileOf, hash : FileOf, doomed : SUBSET Version, alone : BOOLEAN]
      BY <2>2 DEF RootWritersOK
    <3> QED BY <3>1, <3>2, <2>2 DEF RootWritersOK
  <2>5. Busy' = Busy \cup {w}
    BY <2>3 DEF Busy, Ended
  <2>6. VersionGiven'
    BY <1>0, <2>3, <2>5 DEF VersionGiven
  <2>7. AloneIsAlone'
    <3>1. files'.doubt = IF Busy = {} THEN files.doubt ELSE {"code", "know"}
      BY <1>1 DEF Begin, RootFilesOK
    <3> QED BY <2>3, <2>5, <3>1 DEF AloneIsAlone
  <2>8. ProgressAlone'
    BY <2>3 DEF ProgressAlone, Progress, TurnedAway, CountedUpToDate, MarkerSha
  <2>9. RootClean'
    <3>1. files'.doubt = {"code", "know"} \/ (Busy = {} /\ files'.doubt = files.doubt)
      BY <1>1 DEF Begin, RootFilesOK
    <3>2. /\ files'.marker = files.marker /\ files'.store = files.store
          /\ files'.current = files.current /\ files'.snaps = files.snaps
      BY <1>1 DEF Begin, RootFilesOK
    <3>3. Busy = {} => \A u \in Writer : writer[u].pc # "rename"
      BY DEF Busy, Ended
    <3> QED BY <3>1, <3>2, <3>3 DEF RootClean
  <2> QED BY <2>1, <2>4, <2>6, <2>7, <2>8, <2>9
<1>2. ASSUME NEW w \in Writer, Stage(w) PROVE RootInv'
  <2>1. RootFilesOK'
    BY <1>2 DEF Stage, AtPc, Go, RootFilesOK, RootWritersOK, VersionGiven, Busy, Ended
  <2>2. RootWritersOK'
    BY <1>2 DEF Stage, AtPc, Go, RootFilesOK, RootWritersOK, RootPc
  <2>3. VersionGiven'
    BY <1>2 DEF Stage, AtPc, Go, RootWritersOK, VersionGiven, Busy, Ended
  <2>4. AloneIsAlone'
    BY <1>2 DEF Stage, AtPc, Go, RootFilesOK, RootWritersOK, AloneIsAlone, Busy, Ended
  <2>5. ProgressAlone'
    BY <1>2 DEF Stage, AtPc, Go, RootFilesOK, RootWritersOK, VersionGiven, AloneIsAlone, ProgressAlone, Progress, TurnedAway, CountedUpToDate, MarkerSha, Busy, Ended
  <2>6. RootClean'
    BY <1>2 DEF Stage, AtPc, Go, RootFilesOK, RootWritersOK, VersionGiven, AloneIsAlone, ProgressAlone, Progress, TurnedAway, CountedUpToDate, MarkerSha, RootClean, Busy, Ended
  <2> QED BY <2>1, <2>2, <2>3, <2>4, <2>5, <2>6
<1>3. ASSUME NEW w \in Writer, HashBytes(w) PROVE RootInv'
  <2>1. RootFilesOK'
    BY <1>3 DEF HashBytes, AtPc, Go, RootFilesOK, RootWritersOK, VersionGiven, Busy, Ended
  <2>2. RootWritersOK'
    BY <1>3 DEF HashBytes, AtPc, Go, RootFilesOK, RootWritersOK, RootPc
  <2>3. VersionGiven'
    BY <1>3 DEF HashBytes, AtPc, Go, RootWritersOK, VersionGiven, Busy, Ended
  <2>4. AloneIsAlone'
    <3>1. Busy' = Busy \/ Busy' = Busy \ {w}
      BY <1>3 DEF HashBytes, AtPc, Go, RootWritersOK, Busy, Ended
    <3>2. files' = files /\ \A u \in Writer : writer'[u].alone = writer[u].alone
      BY <1>3 DEF HashBytes, AtPc, Go, RootWritersOK
    <3>3. Busy' \subseteq Busy
      BY <3>1
    <3>4. \A u \in Writer : writer'[u].alone => Busy' \subseteq {u}
      BY <3>2, <3>3 DEF AloneIsAlone
    <3>5. files'.doubt # {"code", "know"} => \A u \in Busy' : writer'[u].alone
      BY <3>2, <3>3 DEF AloneIsAlone, Busy
    <3> QED BY <3>4, <3>5 DEF AloneIsAlone
  <2>5. ProgressAlone'
    <3> SUFFICES ASSUME NEW u \in Writer, writer'[u].alone PROVE Progress(u)'
      BY DEF ProgressAlone
    <3>1. files' = files /\ writer[u].alone /\ Progress(u)
      BY <1>3 DEF HashBytes, AtPc, Go, RootWritersOK, ProgressAlone
    <3>2. CASE u # w
      <4>1. writer'[u] = writer[u]
        BY <1>3, <3>2 DEF HashBytes, Go, RootWritersOK
      <4> QED BY <3>1, <4>1 DEF Progress, TurnedAway, CountedUpToDate, MarkerSha
    <3>3. CASE u = w
      <4>1. writer[w].pc = "hash" /\ files.staged = writer[w].v /\ writer[w].v \in Version
        BY <1>3, <3>1, <3>3 DEF HashBytes, AtPc, Progress, VersionGiven
      <4>2. writer' = [writer EXCEPT ![w].hash = files.staged, ![w].pc = "mark"]
        BY <1>3, <4>1, RootAssumption DEF HashBytes
      <4>3. writer'[w].pc = "mark" /\ writer'[w].v = writer[w].v /\ writer'[w].hash = writer[w].v
        BY <4>1, <4>2 DEF RootWritersOK
      <4> QED BY <3>1, <3>3, <4>1, <4>3 DEF Progress
    <3> QED BY <3>2, <3>3
  <2>6. RootClean'
    BY <1>3 DEF HashBytes, AtPc, Go, RootFilesOK, RootWritersOK, VersionGiven, AloneIsAlone, ProgressAlone, Progress, TurnedAway, CountedUpToDate, MarkerSha, RootClean, Busy, Ended
  <2> QED BY <2>1, <2>2, <2>3, <2>4, <2>5, <2>6
<1>4. ASSUME NEW w \in Writer, SaveState(w) PROVE RootInv'
  <2>1. RootFilesOK'
    BY <1>4 DEF SaveState, AtPc, Go, RootFilesOK, RootWritersOK, VersionGiven, Busy, Ended
  <2>2. RootWritersOK'
    BY <1>4 DEF SaveState, AtPc, Go, RootFilesOK, RootWritersOK, RootPc
  <2>3. VersionGiven'
    BY <1>4 DEF SaveState, AtPc, Go, RootWritersOK, VersionGiven, Busy, Ended
  <2>4. AloneIsAlone'
    BY <1>4 DEF SaveState, AtPc, Go, RootFilesOK, RootWritersOK, AloneIsAlone, Busy, Ended
  <2>5. ProgressAlone'
    BY <1>4 DEF SaveState, AtPc, Go, RootFilesOK, RootWritersOK, VersionGiven, AloneIsAlone, ProgressAlone, Progress, TurnedAway, CountedUpToDate, MarkerSha, Busy, Ended
  <2>6. RootClean'
    BY <1>4 DEF SaveState, AtPc, Go, RootFilesOK, RootWritersOK, VersionGiven, AloneIsAlone, ProgressAlone, Progress, TurnedAway, CountedUpToDate, MarkerSha, RootClean, Busy, Ended
  <2> QED BY <2>1, <2>2, <2>3, <2>4, <2>5, <2>6
<1>5. ASSUME NEW w \in Writer, RenameStaged(w) PROVE RootInv'
  <2>1. w \in Busy /\ (writer[w].alone => files.staged # Absent)
    <3>1. writer[w].pc = "rename"
      BY <1>5 DEF RenameStaged, AtPc
    <3>2. w \in Busy
      BY <3>1 DEF Busy, Ended
    <3>3. writer[w].alone => files.staged = writer[w].v
      BY <3>1 DEF ProgressAlone, Progress
    <3>4. writer[w].v \in Version
      BY <3>1 DEF VersionGiven
    <3> QED BY <3>2, <3>3, <3>4, RootAssumption
  <2>2. CASE files.staged = Absent
    <3>1. Busy' = Busy \ {w} /\ UNCHANGED files
      BY <1>5, <2>2 DEF RenameStaged, AtPc, Go, Busy, Ended, RootWritersOK
    <3>2. /\ writer'[w].pc = "failed" /\ ~writer'[w].alone
          /\ \A u \in Writer \ {w} : writer'[u] = writer[u]
      BY <1>5, <2>1, <2>2 DEF RenameStaged, Go, RootWritersOK
    <3>3. RootWritersOK'
      BY <1>5, <2>2 DEF RenameStaged, Go, RootWritersOK, RootPc
    <3>4. RootFilesOK'
      BY <3>1 DEF RootFilesOK
    <3>8. VersionGiven'
      <4>1. writer'[w].v = writer[w].v /\ writer[w].pc = "rename"
        BY <1>5, <2>2 DEF RenameStaged, AtPc, Go, RootWritersOK
      <4> QED BY <3>2, <4>1 DEF VersionGiven
    <3>7. RootClean'
      BY <2>1, <2>2, <3>1 DEF AloneIsAlone, RootClean
    <3>5. AloneIsAlone'
      BY <1>0, <3>1, <3>2 DEF AloneIsAlone
    <3>6. ProgressAlone'
      BY <3>1, <3>2 DEF ProgressAlone, Progress, TurnedAway, CountedUpToDate, MarkerSha
    <3> QED BY <3>3, <3>4, <3>5, <3>6, <3>7, <3>8
  <2>3. CASE files.staged # Absent
    <3>1. /\ Busy' = Busy \ {w}
          /\ files' = [files EXCEPT !.store = files.staged, !.staged = Absent,
                                    !.doubt = IF writer[w].alone THEN @ \ {"code"} ELSE @]
      BY <1>5, <2>3 DEF RenameStaged, AtPc, Go, Busy, Ended, RootWritersOK
    <3>2. /\ writer'[w].pc = "pulled" /\ writer'[w].v = writer[w].v /\ writer'[w].alone = writer[w].alone
          /\ writer[w].pc = "rename"
          /\ \A u \in Writer \ {w} : writer'[u] = writer[u]
      BY <1>5, <2>3 DEF RenameStaged, AtPc, Go, RootWritersOK
    <3>3. RootWritersOK'
      BY <1>5, <2>3 DEF RenameStaged, Go, RootWritersOK, RootPc
    <3>4. RootFilesOK'
      BY <3>1 DEF RootFilesOK
    <3>5. VersionGiven'
      BY <3>1, <3>2 DEF VersionGiven, Busy, Ended
    <3>6. AloneIsAlone'
      BY <1>0, <2>1, <3>1, <3>2 DEF AloneIsAlone, RootFilesOK
    <3>7. ProgressAlone'
      <4>1. ASSUME NEW u \in Writer \ {w}, writer[u].alone PROVE FALSE
        BY <4>1, <2>1 DEF AloneIsAlone
      <4>2. writer'[w].alone => Progress(w)'
        BY <3>1, <3>2 DEF ProgressAlone, Progress, TurnedAway, CountedUpToDate, MarkerSha, RootFilesOK
      <4> QED BY <3>2, <4>1, <4>2 DEF ProgressAlone
    <3>8. RootClean'
      <4>1. /\ files'.marker = files.marker /\ files'.store = files.staged
            /\ files'.current = files.current /\ files'.snaps = files.snaps
            /\ files'.doubt = IF writer[w].alone THEN files.doubt \ {"code"} ELSE files.doubt
        BY <3>1 DEF RootFilesOK
      <4>2. CASE writer[w].alone
        <5>1. files.staged = writer[w].v /\ files.marker = [sha |-> writer[w].v, installed |-> writer[w].v]
          BY <3>2, <4>2 DEF ProgressAlone, Progress
        <5> QED BY <4>1, <4>2, <5>1 DEF RootClean
      <4>3. CASE ~writer[w].alone
        <5>1. files.doubt = {"code", "know"}
          BY <2>1, <4>3 DEF AloneIsAlone
        <5> QED BY <4>1, <4>3, <5>1 DEF RootClean
      <4> QED BY <4>2, <4>3
    <3> QED BY <3>3, <3>4, <3>5, <3>6, <3>7, <3>8
  <2> QED BY <2>2, <2>3
<1>6. ASSUME NEW w \in Writer, WriteSnapshot(w) PROVE RootInv'
  <2>1. RootFilesOK'
    BY <1>6 DEF WriteSnapshot, AtPc, Go, RootFilesOK, RootWritersOK, VersionGiven, Busy, Ended
  <2>2. RootWritersOK'
    BY <1>6 DEF WriteSnapshot, AtPc, Go, RootFilesOK, RootWritersOK, RootPc
  <2>3. VersionGiven'
    BY <1>6 DEF WriteSnapshot, AtPc, Go, RootWritersOK, VersionGiven, Busy, Ended
  <2>4. AloneIsAlone'
    BY <1>6 DEF WriteSnapshot, AtPc, Go, RootFilesOK, RootWritersOK, AloneIsAlone, Busy, Ended
  <2>5. ProgressAlone'
    BY <1>6 DEF WriteSnapshot, AtPc, Go, RootFilesOK, RootWritersOK, VersionGiven, AloneIsAlone, ProgressAlone, Progress, TurnedAway, CountedUpToDate, MarkerSha, Busy, Ended
  <2>6. RootClean'
    BY <1>6 DEF WriteSnapshot, AtPc, Go, RootFilesOK, RootWritersOK, VersionGiven, AloneIsAlone, ProgressAlone, Progress, TurnedAway, CountedUpToDate, MarkerSha, RootClean, Busy, Ended
  <2> QED BY <2>1, <2>2, <2>3, <2>4, <2>5, <2>6
<1>7. ASSUME NEW w \in Writer, AdvanceCurrent(w) PROVE RootInv'
  <2>1. RootFilesOK'
    BY <1>7 DEF AdvanceCurrent, AtPc, Go, RootFilesOK, RootWritersOK, VersionGiven, Busy, Ended
  <2>2. RootWritersOK'
    BY <1>7 DEF AdvanceCurrent, AtPc, Go, RootFilesOK, RootWritersOK, RootPc
  <2>3. VersionGiven'
    BY <1>7 DEF AdvanceCurrent, AtPc, Go, RootWritersOK, VersionGiven, Busy, Ended
  <2>4. AloneIsAlone'
    BY <1>7 DEF AdvanceCurrent, AtPc, Go, RootFilesOK, RootWritersOK, AloneIsAlone, Busy, Ended
  <2>5. ProgressAlone'
    BY <1>7 DEF AdvanceCurrent, AtPc, Go, RootFilesOK, RootWritersOK, VersionGiven, AloneIsAlone, ProgressAlone, Progress, TurnedAway, CountedUpToDate, MarkerSha, Busy, Ended
  <2>6. RootClean'
    BY <1>7 DEF AdvanceCurrent, AtPc, Go, RootFilesOK, RootWritersOK, VersionGiven, AloneIsAlone, ProgressAlone, Progress, TurnedAway, CountedUpToDate, MarkerSha, RootClean, Busy, Ended
  <2> QED BY <2>1, <2>2, <2>3, <2>4, <2>5, <2>6
<1>8. ASSUME NEW w \in Writer, ListSnapshots(w) PROVE RootInv'
  <2>1. RootFilesOK'
    BY <1>8 DEF ListSnapshots, AtPc, RootFilesOK, RootWritersOK, VersionGiven, Busy, Ended
  <2>2. RootWritersOK'
    BY <1>8 DEF ListSnapshots, AtPc, RootFilesOK, RootWritersOK, RootPc
  <2>3. VersionGiven'
    BY <1>8 DEF ListSnapshots, AtPc, RootWritersOK, VersionGiven, Busy, Ended
  <2>4. AloneIsAlone'
    BY <1>8 DEF ListSnapshots, AtPc, RootFilesOK, RootWritersOK, AloneIsAlone, Busy, Ended
  <2>5. ProgressAlone'
    BY <1>8 DEF ListSnapshots, AtPc, RootFilesOK, RootWritersOK, VersionGiven, AloneIsAlone, ProgressAlone, Progress, TurnedAway, CountedUpToDate, MarkerSha, Busy, Ended
  <2>6. RootClean'
    BY <1>8 DEF ListSnapshots, AtPc, RootFilesOK, RootWritersOK, VersionGiven, AloneIsAlone, ProgressAlone, Progress, TurnedAway, CountedUpToDate, MarkerSha, RootClean, Busy, Ended
  <2> QED BY <2>1, <2>2, <2>3, <2>4, <2>5, <2>6
<1>9. ASSUME NEW w \in Writer, Prune(w) PROVE RootInv'
  <2>1. RootFilesOK'
    BY <1>9 DEF Prune, AtPc, Go, RootFilesOK, RootWritersOK, VersionGiven, Busy, Ended
  <2>2. RootWritersOK'
    BY <1>9 DEF Prune, AtPc, Go, RootFilesOK, RootWritersOK, RootPc
  <2>3. VersionGiven'
    BY <1>9 DEF Prune, AtPc, Go, RootWritersOK, VersionGiven, Busy, Ended
  <2>4. AloneIsAlone'
    BY <1>9 DEF Prune, AtPc, Go, RootFilesOK, RootWritersOK, AloneIsAlone, Busy, Ended
  <2>5. ProgressAlone'
    BY <1>9 DEF Prune, AtPc, Go, RootFilesOK, RootWritersOK, VersionGiven, AloneIsAlone, ProgressAlone, Progress, TurnedAway, CountedUpToDate, MarkerSha, Busy, Ended
  <2>6. RootClean'
    BY <1>9 DEF Prune, AtPc, Go, RootFilesOK, RootWritersOK, VersionGiven, AloneIsAlone, ProgressAlone, Progress, TurnedAway, CountedUpToDate, MarkerSha, RootClean, Busy, Ended
  <2> QED BY <2>1, <2>2, <2>3, <2>4, <2>5, <2>6
<1>10. ASSUME NEW w \in Writer, KillWriter(w) PROVE RootInv'
  <2>1. RootFilesOK'
    BY <1>10 DEF KillWriter, Resting, RootFilesOK, RootWritersOK, VersionGiven, Busy, Ended
  <2>2. RootWritersOK'
    BY <1>10 DEF KillWriter, Resting, RootFilesOK, RootWritersOK, RootPc, How
  <2>3. VersionGiven'
    BY <1>10 DEF KillWriter, Resting, RootWritersOK, VersionGiven, Busy, Ended
  <2>4. AloneIsAlone'
    BY <1>10 DEF KillWriter, Resting, RootFilesOK, RootWritersOK, AloneIsAlone, Busy, Ended
  <2>5. ProgressAlone'
    BY <1>10 DEF KillWriter, Resting, RootFilesOK, RootWritersOK, VersionGiven, AloneIsAlone, ProgressAlone, Progress, TurnedAway, CountedUpToDate, MarkerSha, Busy, Ended
  <2>6. RootClean'
    <3>1. /\ files'.marker = files.marker /\ files'.store = files.store
          /\ files'.current = files.current /\ files'.snaps = files.snaps
          /\ files'.doubt = IF writer[w].pc = "rename" THEN files.doubt \cup {"code"} ELSE files.doubt
      BY <1>10 DEF KillWriter, AtPc, RootFilesOK
    <3>2. \A u \in Writer \ {w} : writer'[u] = writer[u]
      BY <1>10 DEF KillWriter, RootWritersOK
    <3>3. ASSUME "code" \notin files'.doubt PROVE \A u \in Writer : writer[u].pc = "rename" => writer'[u].pc = "rename"
      BY <3>1, <3>2, <3>3
    <3> QED BY <3>1, <3>3 DEF RootClean
  <2> QED BY <2>1, <2>2, <2>3, <2>4, <2>5, <2>6
<1>11. CASE UNCHANGED rootVars
  BY <1>11 DEF rootVars, RootFilesOK, RootWritersOK, VersionGiven, AloneIsAlone, ProgressAlone, Progress, TurnedAway, CountedUpToDate, MarkerSha, RootClean, Busy, Ended
<1>12. ASSUME NEW w \in Writer, GuardPull(w) PROVE RootInv'
  <2>1. RootFilesOK'
    BY <1>12 DEF GuardPull, AtPc, Go, RootFilesOK, RootWritersOK, VersionGiven, Busy, Ended
  <2>2. RootWritersOK'
    BY <1>12 DEF GuardPull, AtPc, Go, RootFilesOK, RootWritersOK, RootPc
  <2>3. VersionGiven'
    BY <1>12 DEF GuardPull, AtPc, Go, RootWritersOK, VersionGiven, Busy, Ended
  <2>4. AloneIsAlone'
    BY <1>12 DEF GuardPull, AtPc, Go, RootFilesOK, RootWritersOK, AloneIsAlone, Busy, Ended
  <2>5. ProgressAlone'
    BY <1>12 DEF GuardPull, AtPc, Go, RootFilesOK, RootWritersOK, VersionGiven, AloneIsAlone, ProgressAlone, Progress, TurnedAway, CountedUpToDate, MarkerSha, Busy, Ended
  <2>6. RootClean'
    BY <1>12 DEF GuardPull, AtPc, Go, RootFilesOK, RootWritersOK, VersionGiven, AloneIsAlone, ProgressAlone, Progress, TurnedAway, CountedUpToDate, MarkerSha, RootClean, Busy, Ended
  <2> QED BY <2>1, <2>2, <2>3, <2>4, <2>5, <2>6
<1> QED
  BY <1>1, <1>2, <1>3, <1>4, <1>5, <1>6, <1>7, <1>8, <1>9, <1>10, <1>11, <1>12 DEF RootNext

\* Commands on one root leave it wrong only if they met or a pull was killed between marker
\* and rename, until the next install that runs alone, which repairs all of its side; what else
\* runs alone is turned away by the marker: for any number of processes, builds and commands.
THEOREM OverlapHarmIsBounded == RootSpec => []HarmBounded
<1>1. RootInv => WrongOnlyInDoubt
  BY RootAssumption DEF RootInv, WrongOnlyInDoubt, RootClean, AtPc
<1>2. RootInv => NextInstallRepairs
  BY DEF RootInv, NextInstallRepairs, ProgressAlone, Progress, AtPc
<1>3. RootInv => TurnedAwayByMarker
  <2> SUFFICES ASSUME RootInv, NEW w \in Writer, writer[w].alone
               PROVE /\ AtPc(w, "refused") => TurnedAway(w)
                     /\ AtPc(w, "uptodate") => /\ CountedUpToDate(w)
                                               /\ "code" \notin files.doubt => files.store = writer[w].v
    BY DEF TurnedAwayByMarker
  <2>1. (AtPc(w, "refused") => TurnedAway(w)) /\ (AtPc(w, "uptodate") => CountedUpToDate(w))
    BY DEF RootInv, ProgressAlone, Progress, AtPc
  <2>2. ASSUME AtPc(w, "uptodate"), "code" \notin files.doubt PROVE files.store = writer[w].v
    <3>1. \A u \in Writer : writer[u].pc # "rename"
      BY <2>2 DEF RootInv, AloneIsAlone, Busy, Ended, AtPc
    <3>2. MarkerSha = writer[w].v
      BY <2>1, <2>2 DEF CountedUpToDate
    <3>3. writer[w].v # Absent
      BY <2>2, RootAssumption DEF RootInv, VersionGiven, AtPc
    <3> QED BY <2>2, <3>1, <3>2, <3>3 DEF MarkerSha, RootInv, RootClean
  <2> QED BY <2>1, <2>2
<1>4. RootInv => HarmBounded
  BY <1>1, <1>2, <1>3 DEF HarmBounded
<1> QED
  BY <1>4, RootInitInv, RootStepInv, PTL DEF RootSpec

(***************************************************************************)
(* The self-update.                                                        *)
(***************************************************************************)

FileState == [version : Nat, whole : BOOLEAN, from : {"intact", "altered"}]
UpdatePc == {"none", "resolve", "download", "checksum", "extract", "copy", "chmod", "rename", "done"}
UpdateState ==
  [pc : UpdatePc, version : Nat, target : Nat, check : BOOLEAN, got : {"none", "intact", "altered"},
   stage : BOOLEAN, exit : Int, before : FileState]

UpdateTypeOK ==
  /\ exe \in FileState /\ copies \in [Updater -> FileState]
  /\ update \in [Updater -> UpdateState]

\* Past the comparison the download is intact, and what is renamed is a whole copy of it.
CheckedFirst ==
  \A u \in Updater :
    /\ update[u].pc \in {"extract", "copy", "chmod", "rename"} => update[u].got = "intact"
    /\ update[u].pc \in {"chmod", "rename"} => copies[u] = Binary(update[u].target, "intact")
ExeGood == exe.whole /\ exe.from = "intact"

\* While nobody else ever started, an update that has not succeeded left the binary as it was.
NothingChanged ==
  \A u \in Updater :
    update[u].pc # "none" /\ update[u].exit # 0 /\ (\A w \in Updater \ {u} : update[w].pc = "none")
      => exe = update[u].before
ExitKnown ==
  \A u \in Updater : update[u].exit \in {-1, 0, 1, 10} /\ (update[u].pc # "done" => update[u].exit = -1)

UpdateInv == UpdateTypeOK /\ CheckedFirst /\ ExeGood /\ NothingChanged /\ ExitKnown
-----------------------------------------------------------------------------
\* The first state has a released binary installed and no update.
LEMMA UpdateInitInv == UpdateInit => UpdateInv
<1> SUFFICES ASSUME UpdateInit PROVE UpdateInv
  OBVIOUS
<1>1. exe \in FileState /\ ExeGood
  <2>1. PICK v \in Release : exe = Binary(v, "intact")
    BY DEF UpdateInit
  <2>2. v \in Nat
    BY SelfUpdateAssumption
  <2> QED BY <2>1, <2>2 DEF Binary, FileState, ExeGood
<1>2. NoFile \in FileState
  BY DEF NoFile, Part, FileState
<1>3. Unstarted \in UpdateState
  BY <1>2 DEF Unstarted, UpdateState, UpdatePc
<1>4. \A u \in Updater : update[u].pc = "none" /\ update[u].exit = -1
  BY DEF UpdateInit, Unstarted
<1> QED
  BY <1>1, <1>2, <1>3, <1>4 DEF UpdateInit, UpdateInv, UpdateTypeOK, CheckedFirst, NothingChanged, ExitKnown

\* What a step of u leaves to the others, and of u's own record.
Own(u, pc, code) ==
  /\ update' \in [Updater -> UpdateState]
  /\ update'[u].pc = pc /\ update'[u].exit = code /\ update'[u].before = update[u].before
  /\ \A w \in Updater \ {u} : update'[w] = update[w]

LEMMA EndOwn ==
  ASSUME UpdateTypeOK, NEW u \in Updater, NEW code \in Int, NEW stage \in BOOLEAN, EndWith(u, code, stage)
  PROVE  Own(u, "done", code)
<1>1. update[u].before \in FileState /\ NoFile \in FileState
  BY DEF UpdateTypeOK, UpdateState, NoFile, Part, FileState
<1>2. [Unstarted EXCEPT !.pc = "done", !.exit = code, !.stage = stage, !.before = update[u].before] \in UpdateState
  BY <1>1 DEF Unstarted, UpdateState, UpdatePc
<1>3. update'[u] = [Unstarted EXCEPT !.pc = "done", !.exit = code, !.stage = stage, !.before = update[u].before]
  BY DEF EndWith, UpdateTypeOK
<1> QED
  BY <1>2, <1>3 DEF EndWith, Own, UpdateTypeOK, Unstarted

LEMMA ExitOwn ==
  ASSUME UpdateTypeOK, NEW u \in Updater, NEW code \in Int, ExitWith(u, code)
  PROVE  Own(u, "done", code)
  BY EndOwn DEF ExitWith

LEMMA ToPcOwn ==
  ASSUME UpdateTypeOK, NEW u \in Updater, NEW pc \in UpdatePc, ToPc(u, pc)
  PROVE  Own(u, pc, update[u].exit) /\ update'[u].got = update[u].got /\ update'[u].target = update[u].target
  BY DEF ToPc, Own, UpdateTypeOK, UpdateState

\* The step of an update that is under way and leaves the installed binary alone.
LEMMA OwnStepInv ==
  ASSUME UpdateInv, NEW u \in Updater, update[u].pc \notin {"none", "done"}, exe' = exe,
         copies' \in [Updater -> FileState], \A w \in Updater \ {u} : copies'[w] = copies[w],
         NEW pc \in UpdatePc \ {"none"}, NEW code \in {-1, 0, 1, 10}, Own(u, pc, code),
         pc # "done" => code = -1,
         pc \in {"extract", "copy", "chmod", "rename"} => update'[u].got = "intact",
         pc \in {"chmod", "rename"} => copies'[u] = Binary(update'[u].target, "intact")
  PROVE  UpdateInv'
<1>1. UpdateTypeOK' /\ ExeGood'
  BY DEF UpdateInv, UpdateTypeOK, ExeGood, Own
<1>2. CheckedFirst'
  BY DEF UpdateInv, CheckedFirst, Own
<1>3. ExitKnown'
  BY DEF UpdateInv, ExitKnown, Own
<1>4. NothingChanged'
  <2>1. update[u].exit = -1 /\ update[u].pc # "none"
    BY DEF UpdateInv, ExitKnown
  <2>2. ASSUME NEW v \in Updater, update'[v].exit # 0, \A w \in Updater \ {v} : update'[w].pc = "none"
        PROVE exe' = update'[v].before
    <3>1. v = u
      BY <2>2 DEF Own
    <3>2. \A w \in Updater \ {u} : update[w].pc = "none"
      BY <2>2, <3>1 DEF Own
    <3> QED BY <2>1, <3>1, <3>2 DEF UpdateInv, NothingChanged, Own
  <2> QED BY <2>2 DEF NothingChanged
<1> QED BY <1>1, <1>2, <1>3, <1>4 DEF UpdateInv

\* No step of an update, start or kill breaks the invariant.
LEMMA UpdateStepInv == UpdateInv /\ [UpdateNext]_updateVars => UpdateInv'
<1> SUFFICES ASSUME UpdateInv, [UpdateNext]_updateVars PROVE UpdateInv'
  OBVIOUS
<1>0. UpdateTypeOK /\ CheckedFirst /\ NoFile \in FileState
      /\ \A u \in Updater : /\ update[u].exit = -1 \/ update[u].pc = "done"
                            /\ update[u].target \in Nat /\ copies[u] \in FileState
  BY DEF UpdateInv, UpdateTypeOK, UpdateState, ExitKnown, NoFile, Part, FileState
<1>1. ASSUME NEW u \in Updater, NEW check \in BOOLEAN, NEW pin \in Release \cup {0, 99}, StartUpdate(u, check, pin)
      PROVE UpdateInv'
  <2> DEFINE target == IF pin = 0 THEN CHOOSE v \in Release : \A w \in Release : w <= v ELSE pin
             new == [Unstarted EXCEPT !.pc = "resolve", !.version = exe.version, !.check = check, !.before = exe,
                                      !.target = target]
  <2>1. target \in Nat
    <3>1. (CHOOSE v \in Release : \A w \in Release : w <= v) \in Release
      BY SelfUpdateAssumption, Zenon
    <3>2. Release \subseteq Nat /\ pin \in Release \cup {0, 99}
      BY SelfUpdateAssumption
    <3>3. target \in Release \cup {pin}
      BY <3>1
    <3> HIDE DEF target
    <3> QED BY <3>2, <3>3
  <2> HIDE DEF target
  <2>2. exe \in FileState /\ exe.version \in Nat
    BY <1>0 DEF UpdateTypeOK, FileState
  <2>3. new \in UpdateState /\ new.pc = "resolve" /\ new.exit = -1 /\ new.before = exe
    <3>1. Unstarted \in UpdateState
      BY <1>0 DEF Unstarted, UpdateState, UpdatePc
    <3> QED BY <3>1, <2>1, <2>2 DEF UpdateState, UpdatePc, Unstarted
  <2>4. update' = [update EXCEPT ![u] = new] /\ UNCHANGED <<exe, copies>>
    BY <1>1 DEF StartUpdate, target
  <2> HIDE DEF new
  <2>5. /\ update' \in [Updater -> UpdateState] /\ update'[u] = new
        /\ \A w \in Updater \ {u} : update'[w] = update[w]
    BY <1>0, <2>3, <2>4 DEF UpdateTypeOK
  <2>6. UpdateTypeOK' /\ CheckedFirst' /\ ExeGood' /\ ExitKnown'
    BY <2>3, <2>4, <2>5 DEF UpdateInv, UpdateTypeOK, CheckedFirst, ExeGood, ExitKnown
  <2>7. NothingChanged'
    BY <2>3, <2>4, <2>5 DEF NothingChanged
  <2> QED BY <2>6, <2>7 DEF UpdateInv
<1>2. ASSUME NEW u \in Updater, ResolveRelease(u) PROVE UpdateInv'
  <2>1. update[u].pc = "resolve" /\ UNCHANGED <<exe, copies>> /\ copies \in [Updater -> FileState]
    BY <1>0, <1>2 DEF ResolveRelease, AtUpdate, UpdateTypeOK
  <2>2. CASE \E code \in {0, 1, 10} : ExitWith(u, code)
    BY <2>1, <2>2, <1>0, ExitOwn, OwnStepInv DEF UpdatePc
  <2>3. CASE update' = [update EXCEPT ![u].pc = "download", ![u].stage = TRUE]
    <3>1. Own(u, "download", -1)
      BY <1>0, <2>1, <2>3, ZenonT(60) DEF Own, UpdateTypeOK, UpdateState, UpdatePc
    <3> QED BY <2>1, <3>1, OwnStepInv DEF UpdatePc
  <2> QED BY <1>2, <2>2, <2>3 DEF ResolveRelease
<1>3. ASSUME NEW u \in Updater, Download(u) PROVE UpdateInv'
  <2>1. update[u].pc = "download" /\ UNCHANGED <<exe, copies>> /\ copies \in [Updater -> FileState]
    BY <1>0, <1>3 DEF Download, AtUpdate, UpdateTypeOK
  <2>2. CASE ExitWith(u, 1)
    BY <2>1, <2>2, <1>0, ExitOwn, OwnStepInv DEF UpdatePc
  <2>3. CASE \E got \in {"intact", "altered"} :
               update' = [update EXCEPT ![u].pc = "checksum", ![u].got = got]
    <3>0. PICK got \in {"intact", "altered"} : update' = [update EXCEPT ![u].pc = "checksum", ![u].got = got]
      BY <2>3
    <3>1. Own(u, "checksum", -1)
      BY <1>0, <2>1, <3>0, ZenonT(60) DEF Own, UpdateTypeOK, UpdateState, UpdatePc
    <3> QED BY <2>1, <3>1, OwnStepInv DEF UpdatePc
  <2> QED BY <1>3, <2>2, <2>3 DEF Download
<1>4. ASSUME NEW u \in Updater, CompareChecksum(u) PROVE UpdateInv'
  <2>1. update[u].pc = "checksum" /\ UNCHANGED <<exe, copies>> /\ copies \in [Updater -> FileState]
    BY <1>0, <1>4 DEF CompareChecksum, AtUpdate, UpdateTypeOK
  <2>2. CASE ExitWith(u, 1)
    BY <2>1, <2>2, <1>0, ExitOwn, OwnStepInv DEF UpdatePc
  <2>3. CASE update[u].got = "intact" /\ ToPc(u, "extract")
    <3>1. Own(u, "extract", -1) /\ update'[u].got = "intact"
      BY <1>0, <2>1, <2>3, ToPcOwn DEF UpdatePc
    <3> QED BY <2>1, <3>1, OwnStepInv DEF UpdatePc
  <2> QED BY <1>4, <2>2, <2>3 DEF CompareChecksum
<1>5. ASSUME NEW u \in Updater, ExtractTarball(u) PROVE UpdateInv'
  <2>1. update[u].pc = "extract" /\ UNCHANGED <<exe, copies>> /\ copies \in [Updater -> FileState]
    BY <1>0, <1>5 DEF ExtractTarball, AtUpdate, UpdateTypeOK
  <2>2. CASE ExitWith(u, 1)
    BY <2>1, <2>2, <1>0, ExitOwn, OwnStepInv DEF UpdatePc
  <2>3. CASE ToPc(u, "copy")
    <3>1. Own(u, "copy", -1) /\ update'[u].got = "intact"
      BY <1>0, <2>1, <2>3, ToPcOwn DEF UpdatePc, CheckedFirst
    <3> QED BY <2>1, <3>1, OwnStepInv DEF UpdatePc
  <2> QED BY <1>5, <2>2, <2>3 DEF ExtractTarball
<1>6. ASSUME NEW u \in Updater, CopyBeside(u) PROVE UpdateInv'
  <2>1. update[u].pc = "copy" /\ UNCHANGED exe /\ update[u].got = "intact"
    BY <1>0, <1>6 DEF CopyBeside, AtUpdate, CheckedFirst
  <2>2. Binary(update[u].target, "intact") \in FileState /\ Part(update[u].target) \in FileState
    BY <1>0 DEF Binary, Part, FileState
  <2>3. CASE copies' = [copies EXCEPT ![u] = Binary(update[u].target, update[u].got)] /\ ToPc(u, "chmod")
    <3>1. Own(u, "chmod", -1) /\ update'[u].got = "intact" /\ update'[u].target = update[u].target
      BY <1>0, <2>1, <2>3, ToPcOwn DEF UpdatePc
    <3>2. /\ copies' \in [Updater -> FileState] /\ \A w \in Updater \ {u} : copies'[w] = copies[w]
          /\ copies'[u] = Binary(update'[u].target, "intact")
      BY <1>0, <2>1, <2>2, <2>3, <3>1 DEF UpdateTypeOK
    <3> QED BY <2>1, <3>1, <3>2, OwnStepInv DEF UpdatePc
  <2>4. ASSUME NEW left \in {copies[u], Part(update[u].target)},
               copies' = [copies EXCEPT ![u] = left], ExitWith(u, 1)
        PROVE UpdateInv'
    <3>1. copies' \in [Updater -> FileState] /\ \A w \in Updater \ {u} : copies'[w] = copies[w]
      BY <1>0, <2>2, <2>4 DEF UpdateTypeOK
    <3> QED BY <1>0, <2>1, <2>4, <3>1, ExitOwn, OwnStepInv DEF UpdatePc
  <2> QED BY <1>6, <2>3, <2>4 DEF CopyBeside
<1>7. ASSUME NEW u \in Updater, Chmod(u) PROVE UpdateInv'
  <2>1. /\ update[u].pc = "chmod" /\ UNCHANGED exe /\ update[u].got = "intact"
        /\ copies[u] = Binary(update[u].target, "intact") /\ copies \in [Updater -> FileState]
    BY <1>0, <1>7 DEF Chmod, AtUpdate, CheckedFirst, UpdateTypeOK
  <2>2. CASE ToPc(u, "rename") /\ UNCHANGED copies
    <3>1. Own(u, "rename", -1) /\ update'[u].got = "intact" /\ update'[u].target = update[u].target
      BY <1>0, <2>1, <2>2, ToPcOwn DEF UpdatePc
    <3> QED BY <2>1, <2>2, <3>1, OwnStepInv DEF UpdatePc
  <2>3. CASE RemoveCopy(u) /\ ExitWith(u, 1)
    <3>1. copies' \in [Updater -> FileState] /\ \A w \in Updater \ {u} : copies'[w] = copies[w]
      BY <1>0, <2>3 DEF RemoveCopy, UpdateTypeOK
    <3> QED BY <1>0, <2>1, <2>3, <3>1, ExitOwn, OwnStepInv DEF UpdatePc
  <2> QED BY <1>7, <2>2, <2>3 DEF Chmod
<1>8. ASSUME NEW u \in Updater, RenameOverExe(u) PROVE UpdateInv'
  <2>1. /\ update[u].pc = "rename" /\ copies[u] = Binary(update[u].target, "intact")
        /\ copies' \in [Updater -> FileState] /\ \A w \in Updater \ {u} : copies'[w] = copies[w]
    BY <1>0, <1>8 DEF RenameOverExe, RemoveCopy, AtUpdate, CheckedFirst, UpdateTypeOK
  <2>2. CASE exe' = exe /\ ExitWith(u, 1)
    BY <1>0, <2>1, <2>2, ExitOwn, OwnStepInv DEF UpdatePc
  <2>3. CASE exe' = copies[u] /\ ExitWith(u, 0)
    <3>1. Own(u, "done", 0)
      BY <1>0, <2>3, ExitOwn
    <3>2. UpdateTypeOK' /\ ExeGood'
      <4>1. copies[u] \in FileState /\ copies[u].whole /\ copies[u].from = "intact"
        BY <1>0, <2>1 DEF Binary
      <4> QED BY <2>1, <2>3, <3>1, <4>1 DEF UpdateTypeOK, Own, ExeGood
    <3>3. CheckedFirst' /\ ExitKnown'
      BY <2>1, <3>1 DEF UpdateInv, CheckedFirst, ExitKnown, Own
    <3>4. NothingChanged'
      BY <3>1 DEF Own, NothingChanged
    <3> QED BY <3>2, <3>3, <3>4 DEF UpdateInv
  <2> QED BY <1>8, <2>2, <2>3 DEF RenameOverExe
<1>9. ASSUME NEW u \in Updater, KillUpdate(u) PROVE UpdateInv'
  <2>1. update[u].pc \notin {"none", "done"} /\ UNCHANGED exe /\ update[u].stage \in BOOLEAN
    BY <1>0, <1>9 DEF KillUpdate, UpdateTypeOK, UpdateState
  <2>2. Own(u, "done", -1)
    BY <1>0, <1>9, <2>1, EndOwn DEF KillUpdate
  <2>3. copies' \in [Updater -> FileState] /\ \A w \in Updater \ {u} : copies'[w] = copies[w]
    <3>1. Part(update[u].target) \in FileState
      BY <1>0 DEF Part, FileState
    <3> QED BY <1>0, <1>9, <3>1 DEF KillUpdate, UpdateTypeOK
  <2> QED BY <2>1, <2>2, <2>3, OwnStepInv DEF UpdatePc
<1>10. CASE UNCHANGED updateVars
  BY <1>10 DEF updateVars, UpdateInv, UpdateTypeOK, CheckedFirst, ExeGood, NothingChanged, ExitKnown
<1> QED
  BY <1>1, <1>2, <1>3, <1>4, <1>5, <1>6, <1>7, <1>8, <1>9, <1>10 DEF UpdateNext

\* However updates fail, die or meet, the installed binary is whole and was downloaded intact, and a
\* failed update that met no other has changed nothing.
THEOREM UpdateInstallsVerified == UpdateSpec => [](ExeAlwaysWhole /\ OnlyVerifiedInstalled)
<1>1. UpdateInv => ExeAlwaysWhole /\ OnlyVerifiedInstalled
  BY DEF UpdateInv, ExeAlwaysWhole, OnlyVerifiedInstalled, ExeGood, NothingChanged, ExitKnown, AtUpdate
<1> QED
  BY <1>1, UpdateInitInv, UpdateStepInv, PTL DEF UpdateSpec

\* The sections after one version up to another: as many as there are such releases, the
\* newest first.
DeltaExact(sections, from, to) ==
  LET d == ChangelogDelta(sections, from, to)
      new == {v \in ToSet(sections) : v > from /\ v <= to}
  IN /\ Len(d.shown) + d.more = Cardinality(new)
     /\ \A v \in new : v \in ToSet(d.shown) \/ \A i \in DOMAIN d.shown : d.shown[i] > v
     /\ \A i \in 1..(Len(d.shown) - 1) : d.shown[i] > d.shown[i + 1]
LEMMA DeltaShowsNewest ==
  ASSUME NEW sections \in Seq(Nat), \A i, j \in DOMAIN sections : sections[i] = sections[j] => i = j,
         NEW from \in Nat, NEW to \in Nat
  PROVE  DeltaExact(sections, from, to)
<1> DEFINE S == {i \in DOMAIN sections : sections[i] > from /\ sections[i] <= to}
           R == {p \in S \X S : sections[p[1]] > sections[p[2]] \/ (sections[p[1]] = sections[p[2]] /\ p[1] < p[2])}
           newer(i, j) == sections[i] > sections[j] \/ (sections[i] = sections[j] /\ i < j)
           n == Cardinality(S)
           q == Places(S, R)
           new == {v \in ToSet(sections) : v > from /\ v <= to}
           sorted == [k \in 1..n |-> sections[q[k]]]
           m == IF n < MaxDeltaSections THEN n ELSE MaxDeltaSections
           d == ChangelogDelta(sections, from, to)
<1>1. DOMAIN sections = 1..Len(sections) /\ Len(sections) \in Nat /\ S \in SUBSET (1..Len(sections))
      /\ \A i \in S : sections[i] \in Nat /\ i \in Nat
  OBVIOUS
<1>2. IsFiniteSet(S) /\ n \in Nat
  <2>1. IsFiniteSet(1..Len(sections))
    BY <1>1, FS_Interval
  <2> HIDE DEF S
  <2> QED BY <1>1, <2>1, FS_Subset, FS_CardinalityType
<1>3. TotalOrder(R, S)
  <2>1. \A x, y \in S : <<x, y>> \in R <=> (sections[x] > sections[y] \/ (sections[x] = sections[y] /\ x < y))
    <3> HIDE DEF S
    <3> QED OBVIOUS
  <2> HIDE DEF S, R
  <2>2. \A x \in S : <<x, x>> \notin R
    BY <1>1, <2>1
  <2>3. \A x, y, z \in S : <<x, y>> \in R /\ <<y, z>> \in R => <<x, z>> \in R
    BY <1>1, <2>1
  <2>4. \A x, y \in S : x # y => <<x, y>> \in R \/ <<y, x>> \in R
    BY <1>1, <2>1
  <2> QED BY <2>2, <2>3, <2>4 DEF TotalOrder
<1>4. InOrder(q, S, R)
  <2> HIDE DEF S, R
  <2> QED BY <1>2, <1>3, RanksOrder
<1>5. q = Ranked(S, newer)
  <2>1. \A x \in S : {y \in S : newer(y, x)} = {y \in S : <<y, x>> \in R}
    OBVIOUS
  <2>2. Ranked(S, newer) = [k \in 1..n |-> CHOOSE x \in S : Cardinality({y \in S : newer(y, x)}) = k - 1]
    BY DEF Ranked
  <2> HIDE DEF S, R, newer
  <2>3. \A k \in 1..n : (CHOOSE x \in S : Cardinality({y \in S : newer(y, x)}) = k - 1)
                        = CHOOSE x \in S : Cardinality({y \in S : <<y, x>> \in R}) = k - 1
    BY <2>1
  <2> QED BY <2>2, <2>3 DEF Places
<1>6. d = [shown |-> SubSeq(sorted, 1, m), more |-> IF n > MaxDeltaSections THEN n - MaxDeltaSections ELSE 0]
  <2> DEFINE ranked == [k \in 1..n |-> sections[Ranked(S, newer)[k]]]
  <2>1. d = [shown |-> SubSeq(ranked, 1, IF Len(ranked) < MaxDeltaSections THEN Len(ranked) ELSE MaxDeltaSections),
             more |-> IF Len(ranked) > MaxDeltaSections THEN Len(ranked) - MaxDeltaSections ELSE 0]
    BY DEF ChangelogDelta
  <2>2. ranked = sorted
    <3> HIDE DEF q, newer, S
    <3> QED BY <1>5
  <2>3. Len(sorted) = n
    <3> HIDE DEF n, q
    <3> QED BY <1>2
  <2> HIDE DEF d, ranked, sorted, n
  <2> QED BY <2>1, <2>2, <2>3
<1>7. MaxDeltaSections \in Nat
  BY SelfUpdateAssumption
<1> HIDE DEF q, d
<1>8. \A k \in 1..n : q[k] \in S
  BY <1>4 DEF InOrder
<1>9. \A i, j \in 1..n : i < j => sorted[i] > sorted[j]
  <2> TAKE i, j \in 1..n
  <2> HAVE i < j
  <2>1. <<q[i], q[j]>> \in R /\ q[i] # q[j]
    <3>1. <<q[i], q[j]>> \in R
      BY <1>4 DEF InOrder
    <3>2. <<q[i], q[i]>> \notin R
      BY <1>3, <1>8 DEF TotalOrder
    <3> HIDE DEF R
    <3> QED BY <3>1, <3>2
  <2>2. sections[q[i]] > sections[q[j]]
    BY <1>1, <1>8, <2>1
  <2> QED BY <2>2
<1>10. \A v \in new : \E k \in 1..n : sorted[k] = v
  <2> TAKE v \in new
  <2>1. PICK i \in S : sections[i] = v
    BY DEF ToSet
  <2>2. PICK k \in 1..n : q[k] = i
    BY <1>4 DEF InOrder
  <2> QED BY <2>1, <2>2
<1>11. sorted \in [1..n -> new] /\ sorted \in Seq(Nat) /\ Len(sorted) = n
  <2>1. \A k \in 1..n : sections[q[k]] \in new
    BY <1>1, <1>8 DEF ToSet
  <2>2. new \subseteq Nat
    BY <1>1 DEF ToSet
  <2> HIDE DEF q, new, n
  <2>3. sorted \in [1..n -> new]
    BY <2>1
  <2>4. sorted \in [1..n -> Nat]
    BY <2>2, <2>3
  <2> HIDE DEF sorted
  <2>5. sorted \in Seq(Nat)
    BY <1>2, <2>4
  <2>6. Len(sorted) = n
    BY <1>2, <2>4, <2>5
  <2> QED BY <2>3, <2>5, <2>6
<1>12. Cardinality(new) = n
  <2>1. IsFiniteSet(1..n) /\ Cardinality(1..n) = n
    <3> HIDE DEF n
    <3> QED BY <1>2, FS_Interval
  <2>2. \A i, j \in 1..n : sorted[i] = sorted[j] => i = j
    <3> TAKE i, j \in 1..n
    <3>1. sorted[i] \in Nat /\ sorted[j] \in Nat /\ i \in Nat /\ j \in Nat
      <4>1. new \subseteq Nat
        BY <1>1 DEF ToSet
      <4> HIDE DEF sorted, n, new
      <4> QED BY <1>2, <1>11, <4>1
    <3> HIDE DEF sorted, n
    <3> QED BY <1>9, <3>1
  <2> HIDE DEF sorted, new, n
  <2>3. sorted \in Bijection(1..n, new)
    BY <1>10, <1>11, <2>2 DEF Bijection, Injection, Surjection, IsInjective
  <2> QED BY <2>1, <2>3, FS_Bijection DEF ExistsBijection
<1> HIDE DEF sorted, new, n
<1>13. m \in 0..n /\ d.shown = SubSeq(sorted, 1, m) /\ Len(d.shown) = m /\ DOMAIN d.shown = 1..m
       /\ \A i \in 1..m : d.shown[i] = sorted[i] /\ i \in 1..n
  BY <1>2, <1>6, <1>7, <1>11
<1>14. Len(d.shown) + d.more = n
  BY <1>2, <1>6, <1>7, <1>13
<1>15. \A v \in new : v \in ToSet(d.shown) \/ \A i \in DOMAIN d.shown : d.shown[i] > v
  <2> TAKE v \in new
  <2>1. PICK k \in 1..n : sorted[k] = v
    BY <1>10
  <2>2. CASE k <= m
    <3>1. k \in DOMAIN d.shown /\ d.shown[k] = v
      BY <1>2, <1>13, <2>1, <2>2
    <3> QED BY <3>1 DEF ToSet
  <2>3. CASE k > m
    <3>1. \A i \in DOMAIN d.shown : i \in 1..n /\ i < k /\ d.shown[i] = sorted[i]
      BY <1>2, <1>13, <2>3
    <3> QED BY <1>9, <2>1, <3>1
  <2> QED BY <1>2, <1>13, <2>2, <2>3
<1>16. \A i \in 1..(Len(d.shown) - 1) : d.shown[i] > d.shown[i + 1]
  <2> TAKE i \in 1..(Len(d.shown) - 1)
  <2>1. i \in 1..m /\ i + 1 \in 1..m /\ i < i + 1
    <3>1. Len(d.shown) = m /\ m \in Nat
      BY <1>2, <1>13
    <3> HIDE DEF m
    <3> QED BY <3>1
  <2> QED BY <1>9, <1>13, <2>1
<1> QED BY <1>12, <1>14, <1>15, <1>16 DEF DeltaExact, d, new

\* A changelog names each release once.
DeltaInputOK ==
  For("delta") => /\ input.sections \in Seq(Nat) /\ input.from \in Nat /\ input.to \in Nat
                  /\ \A i, j \in DOMAIN input.sections : input.sections[i] = input.sections[j] => i = j
LEMMA DeltaCounts == DeltaInputOK => DeltaCountsEveryRelease
  BY DeltaShowsNewest DEF DeltaInputOK, DeltaCountsEveryRelease, DeltaExact

\* At every moment of any number of updates there is a whole binary to start, whose checksum
\* was compared; and the notes shown after one leave out no release, however long the
\* changelog.
THEOREM UpdatesAreSafe == UpdateSpec /\ []DeltaInputOK => []UpdateSafe
<1>1. ExeAlwaysWhole /\ OnlyVerifiedInstalled /\ DeltaInputOK => UpdateSafe
  BY DeltaCounts DEF UpdateSafe
<1> QED BY <1>1, UpdateInstallsVerified, PTL

(***************************************************************************)
(* The answers of the MCP session.                                         *)
(***************************************************************************)

IsSeq(q) == \E S : q \in Seq(S)
SrvFields == {"out", "expect", "ledger", "level", "served", "searches", "call"}
SrvShape(srv) == srv = [x \in SrvFields |-> srv[x]]

\* An answer to a search tells of every store it asked that is there and does not
\* load; `st` are the stores.
Asks(asked, pool) == (IF asked = "default" THEN DefaultSource ELSE asked) \in {pool, "both"}
HonestAnswer(r, st) ==
  LET b == r.body
  IN b # Nil /\ r.code = "ok" /\ b \notin Decision /\ "asked" \in DOMAIN b
     => /\ st.know = "corrupt" /\ Asks(b.asked, "knowledge") => "know" \in b.notices
        /\ st.code = "corrupt" /\ Asks(b.asked, "code") => b.notices \cap {"code", "guidance"} # {}

\* What was sent so far answers the first lines, in their order.
Answered(out, expect, st) ==
  /\ IsSeq(out) /\ expect \in Seq(Nat \cup {Nil}) /\ Len(out) <= Len(expect)
  /\ \A i \in 1..Len(out) : out[i].id = expect[i] /\ HonestAnswer(out[i], st)
AllAnswered(srv, st) ==
  SrvShape(srv) /\ Answered(srv.out, srv.expect, st) /\ Len(srv.expect) = Len(srv.out)
AllBut(srv, id, st) ==
  /\ SrvShape(srv) /\ Answered(srv.out, srv.expect, st)
  /\ Len(srv.expect) = Len(srv.out) + 1 /\ srv.expect[Len(srv.expect)] = id

\* What a call under way is about; where a search looks, and what it has noticed.
SourceOf(arg, st) ==
  IF arg # "default" THEN arg ELSE IF st.know # "absent" THEN DefaultSource ELSE "code"
CallOK(c, st) ==
  /\ c.tool = "record_decision" => c.arg \in Decision
  /\ c.tool = "context_search" =>
    /\ c.arg \in {"code", "knowledge", "both", "default"}
    /\ c.phase # "start" => c.source = SourceOf(c.arg, st)
    /\ c.phase \in {"code", "line", "newline", "logged"} => c.source \in {"code", "both"}
    /\ c.phase \in {"line", "newline", "logged"} => st.code = "ok"
    /\ c.phase = "know" => /\ c.source \in {"knowledge", "both"}
                           /\ c.source = "both" /\ st.code = "corrupt" => "code" \in c.notices

SrvInv(srv, st) ==
  IF srv.call = Nil THEN AllAnswered(srv, st)
  ELSE AllBut(srv, srv.call.id, st) /\ srv.call \in Pending /\ CallOK(srv.call, st)
SessionInv ==
  /\ stores \in [{"code", "know"} -> {"absent", "corrupt", "ok"}]
  /\ budget = [x \in {"msg", "tear"} |-> budget[x]] /\ budget.msg \in Nat
  /\ server = [s \in Server |-> server[s]] /\ \A s \in Server : SrvInv(server[s], stores)
-----------------------------------------------------------------------------
LEMMA AppendFacts ==
  ASSUME NEW q, IsSeq(q), NEW e
  PROVE  /\ IsSeq(Append(q, e)) /\ Len(q) \in Nat /\ Len(Append(q, e)) = Len(q) + 1
         /\ \A i \in 1..Len(q) : Append(q, e)[i] = q[i]
         /\ Append(q, e)[Len(q) + 1] = e
<1>1. PICK S : q \in Seq(S)
  BY DEF IsSeq
<1>2. q \in Seq(S \cup {e}) /\ e \in S \cup {e}
  BY <1>1
<1>3. Append(q, e) \in Seq(S \cup {e})
  BY <1>2
<1> QED BY <1>1, <1>2, <1>3 DEF IsSeq

\* The answer to the one line that waits leaves none waiting.
LEMMA OneAnswer ==
  ASSUME NEW out, NEW expect, NEW st, NEW reply, Answered(out, expect, st), Len(expect) = Len(out) + 1,
         reply.id = expect[Len(expect)], HonestAnswer(reply, st)
  PROVE  Answered(Append(out, reply), expect, st) /\ Len(expect) = Len(Append(out, reply))
<1> DEFINE more == Append(out, reply)
<1>1. /\ IsSeq(more) /\ Len(out) \in Nat /\ Len(more) = Len(out) + 1
      /\ \A i \in 1..Len(out) : more[i] = out[i]
      /\ more[Len(out) + 1] = reply
  BY AppendFacts DEF Answered
<1> HIDE DEF more
<1>2. ASSUME NEW i \in 1..Len(more) PROVE more[i].id = expect[i] /\ HonestAnswer(more[i], st)
  <2>1. CASE i \in 1..Len(out)
    BY <1>1, <2>1 DEF Answered
  <2>2. CASE i = Len(out) + 1
    BY <1>1, <2>2
  <2> QED BY <1>1, <2>1, <2>2
<1>3. expect \in Seq(Nat \cup {Nil}) /\ Len(more) <= Len(expect)
  BY <1>1 DEF Answered
<1> QED BY <1>1, <1>2, <1>3 DEF Answered, more

LEMMA AnswerInv ==
  ASSUME NEW srv, NEW reply, NEW st, AllBut(srv, reply.id, st), HonestAnswer(reply, st)
  PROVE  SrvInv([srv EXCEPT !.out = Append(@, reply), !.call = Nil], st)
<1> DEFINE new == [srv EXCEPT !.out = Append(@, reply), !.call = Nil]
<1>1. SrvShape(new) /\ new.out = Append(srv.out, reply) /\ new.call = Nil /\ new.expect = srv.expect
  BY DEF AllBut, SrvShape, SrvFields
<1>2. Answered(Append(srv.out, reply), srv.expect, st) /\ Len(srv.expect) = Len(Append(srv.out, reply))
  BY OneAnswer DEF AllBut
<1> HIDE DEF new
<1>3. SrvInv(new, st)
  BY <1>1, <1>2 DEF SrvInv, AllAnswered
<1> QED BY <1>3 DEF new

\* What a server counts and logs is no part of its answers.
LEMMA CountersKeep ==
  ASSUME NEW srv, NEW id, NEW st, AllBut(srv, id, st), NEW val
  PROVE  /\ AllBut([srv EXCEPT !.served = val], id, st) /\ [srv EXCEPT !.served = val].call = srv.call
         /\ AllBut([srv EXCEPT !.level = val], id, st) /\ [srv EXCEPT !.level = val].call = srv.call
         /\ AllBut([srv EXCEPT !.searches = val], id, st) /\ [srv EXCEPT !.searches = val].call = srv.call
         /\ AllBut([srv EXCEPT !.ledger = val], id, st) /\ [srv EXCEPT !.ledger = val].call = srv.call
         /\ AllBut([srv EXCEPT !.call = val], id, st) /\ [srv EXCEPT !.call = val].call = val
<1>1. SrvShape(srv)
  BY DEF AllBut
<1>2. ASSUME NEW new \in {[srv EXCEPT !.served = val], [srv EXCEPT !.level = val], [srv EXCEPT !.searches = val],
                          [srv EXCEPT !.ledger = val], [srv EXCEPT !.call = val]}
      PROVE SrvShape(new) /\ new.out = srv.out /\ new.expect = srv.expect
  BY <1>1 DEF SrvShape, SrvFields
<1>3. \A new : SrvShape(new) /\ new.out = srv.out /\ new.expect = srv.expect => AllBut(new, id, st)
  BY DEF AllBut
<1>4. /\ [srv EXCEPT !.served = val].call = srv.call /\ [srv EXCEPT !.level = val].call = srv.call
      /\ [srv EXCEPT !.searches = val].call = srv.call /\ [srv EXCEPT !.ledger = val].call = srv.call
      /\ [srv EXCEPT !.call = val].call = val
  BY <1>1 DEF SrvShape, SrvFields
<1> QED BY <1>2, <1>3, <1>4

LEMMA LogKeeps ==
  ASSUME NEW srv, NEW id, NEW st, AllBut(srv, id, st), NEW event
  PROVE  AllBut(Log(srv, event), id, st) /\ Log(srv, event).call = srv.call
  BY CountersKeep DEF Log

\* A step of one server that leaves the stores and does not unsay a line.
LEMMA OneServer ==
  ASSUME SessionInv, NEW s \in Server, NEW new, server' = [server EXCEPT ![s] = new], SrvInv(new, stores),
         UNCHANGED stores, budget' = [x \in {"msg", "tear"} |-> budget'[x]], budget'.msg \in Nat
  PROVE  SessionInv'
<1>1. server' = [t \in Server |-> server'[t]] /\ server'[s] = new /\ \A t \in Server \ {s} : server'[t] = server[t]
  BY DEF SessionInv
<1>2. \A t \in Server : SrvInv(server'[t], stores)
  BY <1>1 DEF SessionInv
<1>3. stores' = stores /\ \A t \in Server : SrvInv(server'[t], stores')
  BY <1>2
<1> QED BY <1>1, <1>3 DEF SessionInv

\* A tool's answer.
LEMMA ToolAnswerInv ==
  ASSUME SessionInv, NEW s \in Server, NEW srv, NEW code, NEW body, AllBut(srv, srv.call.id, stores),
         HonestAnswer(Reply(srv.call.id, code, body), stores), ToolAnswer(s, srv, code, body),
         UNCHANGED stores, budget' = [x \in {"msg", "tear"} |-> budget'[x]], budget'.msg \in Nat
  PROVE  SessionInv'
<1> DEFINE count == [srv EXCEPT !.served = @ + 1]
           reply == Reply(srv.call.id, code, body)
           new == [count EXCEPT !.out = Append(@, reply), !.call = Nil]
<1>1. AllBut(count, srv.call.id, stores) /\ reply.id = srv.call.id
  BY CountersKeep DEF Reply
<1>2. SrvInv(new, stores)
  BY <1>1, AnswerInv
<1>3. server' = [server EXCEPT ![s] = new]
  BY DEF ToolAnswer, Answer
<1> QED BY <1>2, <1>3, OneServer

\* The call goes on to another of its steps.
CallPhases == {"start", "tail", "write", "line", "newline", "logged", "code", "know"}
LEMMA CallStep ==
  ASSUME SessionInv, NEW s \in Server, ~Idle(s), NEW srv, AllBut(srv, server[s].call.id, stores),
         NEW c \in Pending, c.id = server[s].call.id, CallOK(c, stores),
         server' = [server EXCEPT ![s] = [srv EXCEPT !.call = c]],
         UNCHANGED stores, budget' = [x \in {"msg", "tear"} |-> budget'[x]], budget'.msg \in Nat
  PROVE  SessionInv'
<1> DEFINE new == [srv EXCEPT !.call = c]
<1>1. AllBut(new, c.id, stores) /\ new.call = c
  BY CountersKeep, ZenonT(60)
<1>2. SrvInv(new, stores)
  BY <1>1, NilAssumption DEF SrvInv
<1> QED BY <1>2, OneServer

LEMMA NextPhase ==
  ASSUME NEW c \in Pending, NEW ph \in CallPhases
  PROVE  /\ [c EXCEPT !.phase = ph] \in Pending
         /\ \A f \in {"id", "tool", "arg", "source", "notices", "pools", "nl"} : [c EXCEPT !.phase = ph][f] = c[f]
         /\ [c EXCEPT !.phase = ph].phase = ph
  BY DEF Pending, CallPhases

\* What every step of a busy server finds.
LEMMA Busily ==
  ASSUME SessionInv, NEW s \in Server, ~Idle(s)
  PROVE  /\ AllBut(server[s], server[s].call.id, stores)
         /\ server[s].call \in Pending /\ CallOK(server[s].call, stores)
         /\ SrvShape(server[s])
         /\ budget = [x \in {"msg", "tear"} |-> budget[x]] /\ budget.msg \in Nat
  BY DEF SessionInv, SrvInv, Idle, AllBut

\* Answers that are not a search's.
LEMMA PlainHonest ==
  ASSUME NEW id, NEW code, NEW body, NEW st,
         \/ code # "ok" \/ body = Nil \/ body \in Decision
         \/ "asked" \notin DOMAIN body
  PROVE  HonestAnswer(Reply(id, code, body), st)
  BY DEF HonestAnswer, Reply

\* A line that comes in, answered at once or kept as the call.
LEMMA ExpectOne ==
  ASSUME NEW srv, NEW st, AllAnswered(srv, st), NEW id \in Nat \cup {Nil}
  PROVE  AllBut([srv EXCEPT !.expect = @ \o <<id>>], id, st)
<1> DEFINE new == [srv EXCEPT !.expect = @ \o <<id>>]
<1>1. SrvShape(new) /\ new.out = srv.out /\ new.expect = srv.expect \o <<id>>
  BY DEF AllAnswered, SrvShape, SrvFields
<1>2. srv.expect \in Seq(Nat \cup {Nil}) /\ <<id>> \in Seq(Nat \cup {Nil}) /\ Len(srv.out) = Len(srv.expect)
  BY DEF AllAnswered, Answered
<1> HIDE DEF new
<1>3. /\ new.expect \in Seq(Nat \cup {Nil}) /\ Len(new.expect) = Len(srv.out) + 1
      /\ \A i \in 1..Len(srv.out) : new.expect[i] = srv.expect[i]
      /\ new.expect[Len(new.expect)] = id
  BY <1>1, <1>2
<1>4. Answered(new.out, new.expect, st)
  BY <1>1, <1>2, <1>3 DEF AllAnswered, Answered
<1>5. AllBut(new, id, st)
  BY <1>1, <1>3, <1>4 DEF AllBut
<1> QED BY <1>5 DEF new

LEMMA ExpectNone ==
  ASSUME NEW srv, NEW st, AllAnswered(srv, st)
  PROVE  [srv EXCEPT !.expect = @ \o <<>>] = srv
<1>1. srv.expect \o <<>> = srv.expect
  BY DEF AllAnswered, Answered
<1> QED BY <1>1 DEF AllAnswered, SrvShape, SrvFields

LEMMA NewCallOK ==
  ASSUME NEW id \in Nat, NEW call \in Call, NEW st
  PROVE  NewCall(id, call) \in Pending /\ NewCall(id, call).id = id /\ CallOK(NewCall(id, call), st)
<1>1. /\ call.tool \in {c.tool : c \in Call} /\ call.arg \in {c.arg : c \in Call}
  OBVIOUS
<1>2. /\ call.tool = "context_search" => call.arg \in {"code", "knowledge", "both", "default"}
      /\ call.tool = "record_decision" => call.arg \in Decision
  BY DEF Call
<1> QED BY <1>1, <1>2 DEF NewCall, Pending, CallOK

LEMMA ReceiveInv ==
  ASSUME SessionInv, NEW s \in Server, NEW form \in Form, NEW call \in Call, Receive(s, form, call)
  PROVE  SessionInv'
<1> DEFINE id == budget.msg + 1
           awaits == CASE form \in {"blank", "notification"} -> <<>>
                       [] form = "bytes" -> <<Nil>>
                       [] OTHER -> <<id>>
           srv == [server[s] EXCEPT !.expect = @ \o awaits]
<1>1. /\ server[s].call = Nil /\ HandleLine(s, form, id, call, srv) /\ UNCHANGED stores
      /\ budget' = [budget EXCEPT !.msg = id]
  BY DEF Receive, Idle
<1>2. id \in Nat /\ AllAnswered(server[s], stores)
  BY <1>1 DEF SessionInv, SrvInv
<1>3. budget' = [x \in {"msg", "tear"} |-> budget'[x]] /\ budget'.msg \in Nat
  BY <1>1, <1>2 DEF SessionInv
<1> HIDE DEF id
<1>4. CASE form \in {"bytes", "invalid"}
  <2> DEFINE who == IF form = "bytes" THEN Nil ELSE id
             code == IF form = "bytes" THEN "parse_error" ELSE "invalid_request"
             new == [srv EXCEPT !.out = Append(@, Reply(who, code, Nil)), !.call = Nil]
  <2>1. awaits = <<who>> /\ who \in Nat \cup {Nil}
    BY <1>2, <1>4
  <2>2. Answer(s, srv, Reply(who, code, Nil))
    BY <1>1, <1>4 DEF HandleLine
  <2> HIDE DEF who, awaits
  <2>3. AllBut(srv, who, stores)
    BY <1>2, <2>1, ExpectOne
  <2>4. HonestAnswer(Reply(who, code, Nil), stores) /\ Reply(who, code, Nil).id = who
    BY PlainHonest DEF Reply
  <2>5. SrvInv(new, stores)
    BY <2>3, <2>4, AnswerInv
  <2>6. server' = [server EXCEPT ![s] = new]
    BY <2>2 DEF Answer
  <2> QED BY <1>1, <1>3, <2>5, <2>6, OneServer
<1>5. CASE form \in {"blank", "notification"}
  <2>1. srv = server[s] /\ server' = [server EXCEPT ![s] = srv]
    BY <1>1, <1>2, <1>5, ExpectNone DEF HandleLine
  <2> QED BY <1>1, <1>3, <2>1, OneServer DEF SessionInv
<1>6. CASE form = "request"
  <2>1. awaits = <<id>> /\ server' = [server EXCEPT ![s] = [srv EXCEPT !.call = NewCall(id, call)]]
    BY <1>1, <1>6 DEF HandleLine
  <2>2. AllBut(srv, id, stores)
    BY <1>2, <2>1, ExpectOne
  <2> DEFINE new == [srv EXCEPT !.call = NewCall(id, call)]
  <2> HIDE DEF srv
  <2>3. AllBut(new, id, stores) /\ new.call = NewCall(id, call)
    BY <2>2, CountersKeep, ZenonT(60)
  <2>4. SrvInv(new, stores)
    BY <1>2, <2>3, NewCallOK, NilAssumption DEF SrvInv
  <2> QED BY <1>1, <1>3, <2>1, <2>4, OneServer
<1> QED BY <1>4, <1>5, <1>6 DEF Form

\* Tools that answer in one step, and a decision that is already there.
LEMMA AnswerStepInv ==
  ASSUME SessionInv, NEW s \in Server,
         \/ Dispatch(s) \/ BadArgs(s) \/ IndexStatus(s) \/ SetOutputCompression(s) \/ ExpandChunk(s)
         \/ RelatedContext(s) \/ SessionRecall(s) \/ SummarizeContext(s)
  PROVE  SessionInv'
<1> DEFINE c == server[s].call
           Logged == \E event : ToolAnswer(s, Log(server[s], event), "ok", Nil)
<1>1. ~Idle(s) /\ UNCHANGED <<stores, budget>>
  BY DEF Dispatch, BadArgs, IndexStatus, SetOutputCompression, ExpandChunk, RelatedContext, SessionRecall,
         SummarizeContext, OneStep, Doing
<1>2. AllBut(server[s], c.id, stores) /\ budget' = [x \in {"msg", "tear"} |-> budget'[x]] /\ budget'.msg \in Nat
  BY <1>1, Busily
<1>3. ASSUME NEW code, NEW body, code # "ok" \/ body = Nil \/ "asked" \notin DOMAIN body,
             ToolAnswer(s, server[s], code, body)
      PROVE SessionInv'
  BY <1>1, <1>2, <1>3, PlainHonest, ToolAnswerInv
<1>4. ASSUME NEW srv, AllBut(srv, srv.call.id, stores), ToolAnswer(s, srv, "ok", Nil) PROVE SessionInv'
  BY <1>1, <1>4, <1>2, PlainHonest, ToolAnswerInv
<1>5. ASSUME NEW code, Answer(s, server[s], Reply(c.id, code, Nil)) PROVE SessionInv'
  <2> DEFINE reply == Reply(c.id, code, Nil)
             new == [server[s] EXCEPT !.out = Append(@, reply), !.call = Nil]
  <2>1. reply.id = c.id /\ HonestAnswer(reply, stores)
    BY PlainHonest DEF Reply
  <2>2. SrvInv(new, stores)
    BY <1>2, <2>1, AnswerInv
  <2>3. server' = [server EXCEPT ![s] = new]
    BY <1>5 DEF Answer
  <2> QED BY <1>1, <1>2, <2>2, <2>3, OneServer
<1>6. CASE Dispatch(s)
  BY <1>5, <1>6 DEF Dispatch, Srv, Id
<1>7. CASE BadArgs(s)
  BY <1>3, <1>7 DEF BadArgs, Srv
<1>8. CASE IndexStatus(s)
  BY <1>3, <1>8 DEF IndexStatus, Srv
<1>9. CASE SetOutputCompression(s)
  <2>1. AllBut([server[s] EXCEPT !.level = c.arg], c.id, stores) /\ [server[s] EXCEPT !.level = c.arg].call = c
    BY <1>2, CountersKeep
  <2> QED BY <1>4, <1>9, <2>1 DEF SetOutputCompression, Srv
<1>10. CASE ExpandChunk(s)
  BY <1>2, <1>4, <1>10, LogKeeps DEF ExpandChunk, Srv
<1>11. CASE RelatedContext(s)
  BY <1>2, <1>4, <1>11, LogKeeps DEF RelatedContext, Srv
<1>12. CASE SessionRecall(s)
  <2>1. "asked" \notin DOMAIN [recalled |-> LoadEntries(mem)]
    OBVIOUS
  <2> QED BY <1>3, <1>12, <2>1 DEF SessionRecall, Srv
<1>13. CASE SummarizeContext(s)
  <2>1. "asked" \notin DOMAIN SessionDigest(server[s].ledger)
    BY DEF SessionDigest, Section
  <2> QED BY <1>3, <1>13, <2>1 DEF SummarizeContext, Srv
<1> QED
  BY <1>6, <1>7, <1>8, <1>9, <1>10, <1>11, <1>12, <1>13

\* The appends: record_decision, and the event of a search or of feedback.
LEMMA AppendStepInv ==
  ASSUME SessionInv, NEW s \in Server,
         \/ RecordDecision(s) \/ LookAtTail(s) \/ WriteDecision(s) \/ WriteDecisionFails(s)
         \/ RecordFeedback(s) \/ AppendLine(s) \/ AppendNewline(s) \/ AppendFails(s)
  PROVE  SessionInv'
<1> DEFINE c == server[s].call
<1>1. /\ ~Idle(s) /\ UNCHANGED stores
      /\ budget' = budget \/ budget' = [budget EXCEPT !.tear = @ + 1]
  BY DEF RecordDecision, LookAtTail, WriteDecision, WriteDecisionFails, RecordFeedback, AppendLine, AppendNewline,
         AppendFails, Doing
<1>2. AllBut(server[s], c.id, stores) /\ c \in Pending /\ CallOK(c, stores) /\ SrvShape(server[s])
  BY <1>1, Busily
<1>3. budget' = [x \in {"msg", "tear"} |-> budget'[x]] /\ budget'.msg \in Nat
  BY <1>1, Busily
<1>4. ASSUME NEW ph \in CallPhases, Phase(s, ph),
             c.tool = "context_search" =>
               /\ c.phase \in {"line", "newline", "logged"} /\ ph \in {"line", "newline", "logged"}
      PROVE SessionInv'
  <2> DEFINE d == [c EXCEPT !.phase = ph]
  <2>1. /\ d \in Pending /\ d.id = c.id /\ d.tool = c.tool /\ d.arg = c.arg /\ d.source = c.source
        /\ d.phase = ph
    BY <1>2, NextPhase
  <2>2. server' = [server EXCEPT ![s] = [server[s] EXCEPT !.call = d]]
    BY <1>4 DEF Phase
  <2> HIDE DEF d
  <2>3. CallOK(d, stores)
    BY <1>2, <1>4, <2>1 DEF CallOK
  <2> QED BY <1>1, <1>2, <1>3, <2>1, <2>2, <2>3, CallStep
<1>5. ASSUME NEW srv, NEW code, NEW body, srv = server[s] \/ (\E event : srv = Log(server[s], event)),
             code # "ok" \/ body = Nil \/ body \in Decision, ToolAnswer(s, srv, code, body)
      PROVE SessionInv'
  <2>1. AllBut(srv, srv.call.id, stores)
    BY <1>2, <1>5, LogKeeps
  <2> QED BY <1>1, <1>3, <1>5, <2>1, PlainHonest, ToolAnswerInv
<1>6. CASE RecordDecision(s)
  <2>1. c.tool = "record_decision" /\ c.arg \in Decision
    BY <1>2, <1>6 DEF RecordDecision, Doing, CallOK
  <2>2. CASE c.arg \in LoadEntries(mem)
    <3>1. ToolAnswer(s, Log(server[s], [event |-> "decision", id |-> c.arg]), "ok", c.arg)
      BY <1>6, <2>2 DEF RecordDecision
    <3> QED BY <1>5, <2>1, <3>1
  <2>3. CASE c.arg \notin LoadEntries(mem)
    <3>1. Phase(s, "tail")
      BY <1>6, <2>3 DEF RecordDecision
    <3> QED BY <1>4, <2>1, <3>1 DEF CallPhases
  <2> QED BY <2>2, <2>3
<1>7. CASE LookAtTail(s)
  <2> DEFINE d == [c EXCEPT !.phase = "write", !.nl = NeedsLeadingNl(mem)]
  <2>1. c.tool = "record_decision" /\ server' = [server EXCEPT ![s] = [server[s] EXCEPT !.call = d]]
    BY <1>7 DEF LookAtTail, Doing
  <2>2. NeedsLeadingNl(mem) \in BOOLEAN
    BY DEF NeedsLeadingNl
  <2>3. d \in Pending /\ d.id = c.id /\ d.tool = c.tool /\ d.arg = c.arg
    BY <1>2, <2>2 DEF Pending
  <2> HIDE DEF d
  <2>4. CallOK(d, stores)
    BY <1>2, <2>1, <2>3 DEF CallOK
  <2> QED BY <1>1, <1>2, <1>3, <2>1, <2>3, <2>4, CallStep
<1>8. CASE WriteDecision(s)
  <2>1. c.tool = "record_decision" /\ c.arg \in Decision
    BY <1>2, <1>8 DEF WriteDecision, Doing, CallOK
  <2>2. ToolAnswer(s, Log(server[s], [event |-> "decision", id |-> c.arg]), "ok", c.arg)
    BY <1>8 DEF WriteDecision
  <2> QED BY <1>5, <2>1, <2>2
<1>9. CASE WriteDecisionFails(s)
  BY <1>5, <1>9 DEF WriteDecisionFails
<1>10. CASE RecordFeedback(s)
  <2>1. c.tool = "record_feedback" /\ Phase(s, "line")
    BY <1>10 DEF RecordFeedback, StartAppend, Doing, Phase
  <2> QED BY <1>4, <2>1 DEF CallPhases
<1>11. CASE AppendLine(s)
  <2>1. c.phase = "line" /\ Phase(s, "newline")
    BY <1>11 DEF AppendLine
  <2> QED BY <1>4, <2>1 DEF CallPhases
<1>12. CASE AppendNewline(s)
  <2>1. c.phase = "newline" /\ (ToolAnswer(s, server[s], "ok", Nil) \/ Phase(s, "logged"))
    BY <1>12 DEF AppendNewline
  <2>2. CASE ToolAnswer(s, server[s], "ok", Nil)
    BY <1>5, <2>2
  <2>3. CASE Phase(s, "logged")
    BY <1>4, <2>1, <2>3 DEF CallPhases
  <2> QED BY <2>1, <2>2, <2>3
<1>13. CASE AppendFails(s)
  <2>1. /\ c.phase \in {"line", "newline"}
        /\ ToolAnswer(s, server[s], "tool_error", Nil) \/ Phase(s, "logged")
    BY <1>13 DEF AppendFails
  <2>2. CASE ToolAnswer(s, server[s], "tool_error", Nil)
    BY <1>5, <2>2
  <2>3. CASE Phase(s, "logged")
    BY <1>4, <2>1, <2>3 DEF CallPhases
  <2> QED BY <2>1, <2>2, <2>3
<1> QED
  BY <1>6, <1>7, <1>8, <1>9, <1>10, <1>11, <1>12, <1>13

\* context_search, from its source to its answer.
LEMMA SearchStepInv ==
  ASSUME SessionInv, NEW s \in Server,
         \/ ResolveSource(s) \/ SearchCode(s) \/ GatherCodeHits(s) \/ WriteSearchEvent(s)
         \/ SearchKnowledge(s) \/ SearchBoth(s)
  PROVE  SessionInv'
<1> DEFINE c == server[s].call
<1>1. ~Idle(s) /\ c.tool = "context_search" /\ UNCHANGED <<stores, budget>>
  BY DEF ResolveSource, SearchCode, GatherCodeHits, WriteSearchEvent, SearchKnowledge, SearchBoth, Doing
<1>2. /\ AllBut(server[s], c.id, stores) /\ c \in Pending /\ CallOK(c, stores) /\ SrvShape(server[s])
      /\ budget' = [x \in {"msg", "tear"} |-> budget'[x]] /\ budget'.msg \in Nat
      /\ stores \in [{"code", "know"} -> {"absent", "corrupt", "ok"}]
  BY <1>1, Busily DEF SessionInv
<1>3. ASSUME NEW srv, AllBut(srv, c.id, stores), NEW d \in Pending, d.id = c.id, CallOK(d, stores),
             server' = [server EXCEPT ![s] = [srv EXCEPT !.call = d]]
      PROVE SessionInv'
  BY <1>1, <1>2, <1>3, CallStep
<1>4. ASSUME NEW srv, AllBut(srv, c.id, stores), srv.call.id = c.id, NEW body,
             HonestAnswer(Reply(c.id, "ok", body), stores), ToolAnswer(s, srv, "ok", body)
      PROVE SessionInv'
  BY <1>1, <1>2, <1>4, ToolAnswerInv
\* The pool of code is taken in when its store loads.
<1>5. ASSUME c.phase = "code", stores.code = "ok", StartAppend(s, [server[s] EXCEPT !.call.pools = @ \cup {"code"}])
      PROVE SessionInv'
  <2> DEFINE d == [c EXCEPT !.pools = @ \cup {"code"}, !.phase = "line"]
  <2>1. server' = [server EXCEPT ![s] = [server[s] EXCEPT !.call = d]]
    BY <1>2, <1>5 DEF StartAppend, SrvShape, SrvFields
  <2>2. /\ d \in Pending /\ d.id = c.id /\ d.tool = c.tool /\ d.arg = c.arg /\ d.source = c.source
        /\ d.phase = "line"
    BY <1>2 DEF Pending
  <2> HIDE DEF d
  <2>3. CallOK(d, stores)
    BY <1>1, <1>2, <1>5, <2>2 DEF CallOK
  <2> QED BY <1>2, <1>3, <2>1, <2>2, <2>3
<1>6. CASE ResolveSource(s)
  <2> DEFINE src == SourceOf(c.arg, stores)
             d == [c EXCEPT !.source = src, !.phase = IF src = "knowledge" THEN "know" ELSE "code"]
  <2>1. c.phase = "start" /\ server' = [server EXCEPT ![s] = [server[s] EXCEPT !.call = d]]
    BY <1>6 DEF ResolveSource, Doing, SourceOf, IsPresent
  <2>2. src \in {"code", "knowledge", "both"}
    BY <1>1, <1>2, SessionAssumption DEF CallOK, SourceOf
  <2> HIDE DEF src
  <2>3. /\ d \in Pending /\ d.id = c.id /\ d.tool = c.tool /\ d.arg = c.arg /\ d.source = src
        /\ d.phase = IF src = "knowledge" THEN "know" ELSE "code"
    BY <1>2, <2>2 DEF Pending
  <2> HIDE DEF d
  <2>4. CallOK(d, stores)
    BY <1>1, <1>2, <2>2, <2>3 DEF CallOK, src
  <2> QED BY <1>2, <1>3, <2>1, <2>3, <2>4
<1>7. CASE SearchCode(s)
  <2>1. c.phase = "code" /\ c.source = "code" /\ c.source = SourceOf(c.arg, stores)
        /\ c.arg \in {"code", "knowledge", "both", "default"}
    BY <1>1, <1>2, <1>7 DEF SearchCode, Doing, CallOK
  <2>2. CASE stores.code = "ok"
    BY <1>5, <1>7, <2>1, <2>2 DEF SearchCode
  <2>3. CASE stores.code # "ok"
    <3> DEFINE body == [pools |-> {}, notices |-> {"guidance"}, asked |-> c.arg]
    <3>1. ToolAnswer(s, server[s], "ok", body)
      BY <1>7, <2>3 DEF SearchCode
    <3>2. HonestAnswer(Reply(c.id, "ok", body), stores)
      BY <2>1 DEF HonestAnswer, Reply, Asks, SourceOf
    <3> QED BY <1>2, <1>4, <3>1, <3>2
  <2> QED BY <2>2, <2>3
<1>8. CASE GatherCodeHits(s)
  <2>1. c.phase = "code" /\ c.source = "both"
    BY <1>8 DEF GatherCodeHits, Doing
  <2>2. CASE stores.code = "ok"
    BY <1>5, <1>8, <2>1, <2>2 DEF GatherCodeHits
  <2>3. CASE stores.code # "ok"
    <3> DEFINE told == IF stores.code = "corrupt" THEN {"code"} ELSE {}
               d == [c EXCEPT !.phase = "know", !.notices = told]
    <3>0. server' = [server EXCEPT ![s].call.phase = "know", ![s].call.notices = told] /\ told \in SUBSET {"code"}
      BY <1>8, <2>3 DEF GatherCodeHits
    <3>6. stores.code = "corrupt" => "code" \in told
      OBVIOUS
    <3> HIDE DEF told
    <3>1. server' = [server EXCEPT ![s] = [server[s] EXCEPT !.call = d]]
      BY <3>0
    <3>2. /\ d \in Pending /\ d.id = c.id /\ d.tool = c.tool /\ d.arg = c.arg /\ d.source = c.source
          /\ d.phase = "know" /\ d.notices = told
      BY <1>2, <3>0 DEF Pending
    <3> HIDE DEF d
    <3>3. CallOK(d, stores)
      BY <1>1, <1>2, <2>1, <3>2, <3>6 DEF CallOK
    <3> QED BY <1>2, <1>3, <3>1, <3>2, <3>3
  <2> QED BY <2>2, <2>3
<1>9. CASE WriteSearchEvent(s)
  <2> DEFINE logged == Log(server[s], [event |-> "search", id |-> Nil])
             srv == [logged EXCEPT !.searches = @ + 1]
  <2>1. AllBut(logged, c.id, stores) /\ logged.call = c
    BY <1>2, LogKeeps
  <2> HIDE DEF logged
  <2>2. AllBut(srv, c.id, stores) /\ srv.call = c
    BY <2>1, CountersKeep, ZenonT(60)
  <2>3. /\ c.phase = "logged" /\ stores.code = "ok" /\ c.source \in {"code", "both"}
        /\ c.source = SourceOf(c.arg, stores) /\ c.arg \in {"code", "knowledge", "both", "default"}
    BY <1>1, <1>2, <1>9 DEF WriteSearchEvent, Doing, CallOK
  <2>4. CASE c.source = "code"
    <3> DEFINE body == [pools |-> c.pools, notices |-> {}, asked |-> c.arg]
    <3>1. ToolAnswer(s, srv, "ok", body)
      BY <1>9, <2>2, <2>4 DEF WriteSearchEvent, logged
    <3>2. HonestAnswer(Reply(c.id, "ok", body), stores)
      BY <2>3, <2>4 DEF HonestAnswer, Reply, Asks, SourceOf
    <3> HIDE DEF srv
    <3> QED BY <1>4, <2>2, <3>1, <3>2
  <2>5. CASE c.source = "both"
    <3> DEFINE d == [c EXCEPT !.phase = "know"]
    <3>1. server' = [server EXCEPT ![s] = [srv EXCEPT !.call.phase = "know"]]
      BY <1>9, <2>2, <2>5 DEF WriteSearchEvent, logged
    <3>2. server' = [server EXCEPT ![s] = [srv EXCEPT !.call = d]]
      BY <2>2, <3>1
    <3>3. /\ d \in Pending /\ d.id = c.id /\ d.tool = c.tool /\ d.arg = c.arg /\ d.source = c.source
          /\ d.phase = "know"
      BY <1>2, NextPhase DEF CallPhases
    <3> HIDE DEF d, srv
    <3>4. CallOK(d, stores)
      BY <1>1, <1>2, <2>3, <2>5, <3>3 DEF CallOK
    <3> QED BY <1>3, <2>2, <3>2, <3>3, <3>4
  <2> QED BY <2>3, <2>4, <2>5
<1>10. CASE SearchKnowledge(s)
  <2> DEFINE k == LoadKnowledgeHits(stores.know)
             body == [pools |-> k.pools, notices |-> k.notices, asked |-> c.arg]
             srv == Log(server[s], [event |-> "search", id |-> Nil])
  <2>1. c.source = "knowledge" /\ c.phase = "know" /\ c.source = SourceOf(c.arg, stores)
        /\ c.arg \in {"code", "knowledge", "both", "default"}
    BY <1>1, <1>2, <1>10 DEF SearchKnowledge, Doing, CallOK
  <2>2. ToolAnswer(s, srv, "ok", body)
    BY <1>10 DEF SearchKnowledge
  <2>3. AllBut(srv, c.id, stores) /\ srv.call = c
    BY <1>2, LogKeeps
  <2>4. HonestAnswer(Reply(c.id, "ok", body), stores)
    BY <2>1 DEF HonestAnswer, Reply, Asks, SourceOf, LoadKnowledgeHits, IsPresent
  <2> HIDE DEF srv, body
  <2> QED BY <1>4, <2>2, <2>3, <2>4
<1>11. CASE SearchBoth(s)
  <2> DEFINE k == LoadKnowledgeHits(stores.know)
             body == [pools |-> c.pools \cup k.pools, notices |-> c.notices \cup k.notices, asked |-> c.arg]
  <2>1. c.source = "both" /\ c.phase = "know" /\ (stores.code = "corrupt" => "code" \in c.notices)
    BY <1>1, <1>2, <1>11 DEF SearchBoth, Doing, CallOK
  <2>2. ToolAnswer(s, server[s], "ok", body)
    BY <1>11 DEF SearchBoth
  <2>3. HonestAnswer(Reply(c.id, "ok", body), stores)
    BY <2>1 DEF HonestAnswer, Reply, LoadKnowledgeHits, IsPresent
  <2> HIDE DEF body
  <2> QED BY <1>2, <1>4, <2>2, <2>3
<1> QED
  BY <1>6, <1>7, <1>8, <1>9, <1>10, <1>11

LEMMA FreshOK == ASSUME NEW st PROVE SrvInv(Fresh, st)
<1>1. Fresh.call = Nil /\ Fresh.out = <<>> /\ Fresh.expect = <<>> /\ SrvShape(Fresh)
  BY DEF Fresh, SrvShape, SrvFields
<1>2. IsSeq(<<>>)
  BY DEF IsSeq
<1> QED BY <1>1, <1>2 DEF SrvInv, AllAnswered, Answered

LEMMA SessionInitInv == SessionInit => SessionInv
  BY FreshOK DEF SessionInit, SessionInv

LEMMA SessionNextInv == SessionInv /\ [SessionNext]_sessionVars => SessionInv'
<1> SUFFICES ASSUME SessionInv, [SessionNext]_sessionVars PROVE SessionInv'
  OBVIOUS
<1>1. ASSUME NEW s \in Server, SessionStep(s) PROVE SessionInv'
  BY <1>1, AnswerStepInv, AppendStepInv, SearchStepInv DEF SessionStep
<1>2. ASSUME NEW s \in Server, Kill(s) PROVE SessionInv'
  <2>1. /\ server' = [server EXCEPT ![s] = Fresh] /\ UNCHANGED stores /\ ~Idle(s)
        /\ budget' = [budget EXCEPT !.tear = @ + 1]
    BY <1>2 DEF Kill
  <2>2. budget' = [x \in {"msg", "tear"} |-> budget'[x]] /\ budget'.msg \in Nat
    BY <2>1, Busily
  <2> QED BY <2>1, <2>2, FreshOK, OneServer
<1>3. ASSUME NEW s \in Server, NEW form \in Form, NEW call \in Call, Receive(s, form, call) PROVE SessionInv'
  BY <1>3, ReceiveInv
<1>4. CASE UNCHANGED sessionVars
  BY <1>4 DEF sessionVars, SessionInv
<1> QED
  BY <1>1, <1>2, <1>3, <1>4 DEF SessionNext

\* Every server answers its requests in the order of their lines, under their ids, once each and none
\* that a bad line hid, and no answer to a search hides a store that does not load: for any number of
\* servers, lines, failed appends and kills.
THEOREM AnswersAreHonest == SessionSpec => []AnswersHonest
<1>1. SessionInv => AnswersHonest
  <2> SUFFICES ASSUME SessionInv PROVE AnswersHonest
    OBVIOUS
  <2>1. ASSUME NEW s \in Server PROVE Answered(server[s].out, server[s].expect, stores)
    BY DEF SessionInv, SrvInv, AllAnswered, AllBut
  <2>2. AnswersInOrder
    <3> SUFFICES ASSUME NEW s \in Server
                 PROVE IsPrefix([i \in DOMAIN server[s].out |-> server[s].out[i].id], server[s].expect)
      BY DEF AnswersInOrder
    <3> DEFINE out == server[s].out
               expect == server[s].expect
               ids == [i \in DOMAIN out |-> out[i].id]
    <3>1. PICK S : out \in Seq(S)
      BY <2>1 DEF Answered, IsSeq
    <3>2. /\ expect \in Seq(Nat \cup {Nil}) /\ Len(out) <= Len(expect) /\ Len(out) \in Nat
          /\ \A i \in 1..Len(out) : out[i].id = expect[i]
      BY <2>1, <3>1 DEF Answered
    <3>3. ids = [i \in 1..Len(out) |-> expect[i]]
      BY <3>1, <3>2
    <3> HIDE DEF out, expect, ids
    <3>4. ids \in Seq(Nat \cup {Nil}) /\ Len(ids) = Len(out)
      BY <3>2, <3>3
    <3>5. SubSeq(expect, 1, Len(ids)) = ids
      BY <3>2, <3>3, <3>4
    <3>6. SubSeq(ids, 1, Len(ids)) = ids
      BY <3>4
    <3> QED BY <3>2, <3>4, <3>5, <3>6 DEF IsPrefix, out, expect, ids
  <2>3. CorruptNeverSilent
    <3>1. ASSUME NEW s \in Server, NEW i \in DOMAIN server[s].out PROVE HonestAnswer(server[s].out[i], stores)
      <4>1. PICK S : server[s].out \in Seq(S)
        BY <2>1 DEF Answered, IsSeq
      <4>2. i \in 1..Len(server[s].out)
        BY <3>1, <4>1
      <4> QED BY <2>1, <4>2 DEF Answered
    <3> QED BY <3>1 DEF CorruptNeverSilent, HonestAnswer, Asks
  <2> QED BY <2>2, <2>3 DEF AnswersHonest
<1> QED
  BY <1>1, SessionInitInv, SessionNextInv, PTL DEF SessionSpec

(***************************************************************************)
(* The two files the servers append to.                                    *)
(***************************************************************************)

Tokens(S) == {Frag, Nl} \cup {Rec(x) : x \in S}
MemOK ==
  /\ mem \in Seq(Tokens(Decision))
  /\ acked = [x \in {"mem", "log", "blind", "merged"} |-> acked[x]]
  /\ acked.mem \ acked.blind \subseteq LinesRead(mem)

\* An event whose newline is written is out of reach of later appends; one whose
\* newline is not is still a line of its own, or counted as merged.
LineEnded(f, x) == \E i \in 1..(Len(f) - 1) : Whole(f, i) /\ f[i].of = x
BeforeNewline(srv) == srv.call # Nil /\ srv.call.phase = "newline"
LogOK ==
  /\ log \in Seq(Tokens(Nat))
  /\ \A x \in acked.log \ acked.merged : LineEnded(log, x)
  /\ \A s \in Server : BeforeNewline(server[s]) /\ server[s].call.id \notin acked.merged
                       => server[s].call.id \in LinesRead(log)
DurableInv == SessionInv /\ MemOK /\ LogOK
-----------------------------------------------------------------------------
\* An append breaks no line but the last, and that one only if it has no newline
\* and the append does not begin with one.
LEMMA AppendKeeps ==
  ASSUME NEW T, NEW f \in Seq(T), NEW g \in Seq(T), NEW x \in LinesRead(f),
         f = <<>> \/ Last(f) = Nl \/ g = <<>> \/ g[1] = Nl \/ x # Last(f).of
  PROVE  x \in LinesRead(f \o g)
<1>1. PICK i \in DOMAIN f : Whole(f, i) /\ f[i].of = x
  BY DEF LinesRead
<1>2. /\ Len(f \o g) = Len(f) + Len(g) /\ i \in 1..Len(f) /\ Len(f) \in Nat /\ Len(g) \in Nat
      /\ \A j \in 1..Len(f) : (f \o g)[j] = f[j]
      /\ DOMAIN (f \o g) = 1..(Len(f) + Len(g))
  BY <1>1
<1>3. i = Len(f) => g = <<>> \/ g[1] = Nl
  <2>1. ASSUME i = Len(f) PROVE Last(f) = f[i] /\ f[i] # Nl /\ x = Last(f).of /\ f # <<>>
    BY <1>1, <1>2, <2>1 DEF Last, Whole, Nl
  <2> QED BY <2>1
<1>4. i = Len(f \o g) \/ (f \o g)[i + 1] = Nl
  <2>1. CASE i < Len(f)
    BY <1>1, <1>2, <2>1 DEF Whole
  <2>2. CASE i = Len(f)
    <3>1. g = <<>> => Len(g) = 0
      OBVIOUS
    <3>2. g # <<>> => Len(g) > 0 /\ (f \o g)[i + 1] = g[1]
      BY <1>2, <2>2
    <3> QED BY <1>2, <1>3, <2>2, <3>1, <3>2
  <2> QED BY <1>2, <2>1, <2>2
<1>5. Whole(f \o g, i) /\ i \in DOMAIN (f \o g) /\ (f \o g)[i].of = x
  BY <1>1, <1>2, <1>4 DEF Whole
<1> QED BY <1>5 DEF LinesRead

LEMMA EndedKeeps ==
  ASSUME NEW T, NEW f \in Seq(T), NEW g \in Seq(T), NEW x, LineEnded(f, x)
  PROVE  LineEnded(f \o g, x) /\ x \in LinesRead(f)
<1>1. PICK i \in 1..(Len(f) - 1) : Whole(f, i) /\ f[i].of = x
  BY DEF LineEnded
<1>2. /\ Len(f \o g) = Len(f) + Len(g) /\ Len(f) \in Nat /\ Len(g) \in Nat
      /\ \A j \in 1..Len(f) : (f \o g)[j] = f[j]
  OBVIOUS
<1>3. Whole(f \o g, i) /\ (f \o g)[i].of = x /\ i \in 1..(Len(f \o g) - 1) /\ i \in DOMAIN f
  BY <1>1, <1>2 DEF Whole
<1> QED BY <1>1, <1>3 DEF LineEnded, LinesRead

\* A record on a line of its own is read.
LEMMA RecordRead ==
  ASSUME NEW T, NEW f \in Seq(T), NEW g \in Seq(T), NEW k \in 1..Len(g), NEW x, g[k] = Rec(x),
         k = Len(g) \/ g[k + 1] = Nl,
         IF k = 1 THEN f = <<>> \/ Last(f) = Nl ELSE g[k - 1] = Nl
  PROVE  x \in LinesRead(f \o g)
<1> DEFINE i == Len(f) + k
           h == f \o g
<1>1. /\ Len(h) = Len(f) + Len(g) /\ Len(f) \in Nat /\ Len(g) \in Nat
      /\ \A j \in 1..Len(f) : h[j] = f[j]
      /\ \A j \in 1..Len(g) : h[Len(f) + j] = g[j]
      /\ DOMAIN h = 1..(Len(f) + Len(g))
  OBVIOUS
<1> HIDE DEF h
<1>2. h[i] = Rec(x) /\ i \in DOMAIN h
  BY <1>1
<1>3. i = Len(h) \/ h[i + 1] = Nl
  <2>1. CASE k = Len(g)
    BY <1>1, <2>1
  <2>2. CASE k # Len(g)
    <3>1. k + 1 \in 1..Len(g) /\ g[k + 1] = Nl
      BY <1>1, <2>2
    <3>2. h[Len(f) + (k + 1)] = g[k + 1] /\ Len(f) + (k + 1) = i + 1
      BY <1>1, <3>1
    <3> QED BY <3>1, <3>2
  <2> QED BY <2>1, <2>2
<1>4. i = 1 \/ h[i - 1] = Nl
  <2>1. CASE k = 1
    <3>1. f = <<>> => Len(f) = 0
      OBVIOUS
    <3>2. f # <<>> => Len(f) > 0 /\ h[Len(f)] = Last(f)
      BY <1>1 DEF Last
    <3> QED BY <2>1, <3>1, <3>2, <1>1
  <2>2. CASE k # 1
    <3>1. k - 1 \in 1..Len(g) /\ h[Len(f) + (k - 1)] = g[k - 1] /\ g[k - 1] = Nl
      BY <1>1, <2>2
    <3> QED BY <1>1, <3>1
  <2> QED BY <2>1, <2>2
<1>5. Whole(h, i) /\ h[i].of = x
  BY <1>2, <1>3, <1>4 DEF Whole, Rec
<1> QED BY <1>2, <1>5 DEF LinesRead, h

LEMMA BufferIs ==
  ASSUME NEW c, c.arg \in Decision, c.nl \in BOOLEAN
  PROVE  /\ Buffer(c) \in Seq(Tokens(Decision))
         /\ c.nl => Len(Buffer(c)) = 3 /\ Buffer(c)[1] = Nl /\ Buffer(c)[2] = Rec(c.arg) /\ Buffer(c)[3] = Nl
         /\ ~c.nl => Len(Buffer(c)) = 2 /\ Buffer(c)[1] = Rec(c.arg) /\ Buffer(c)[2] = Nl
<1>1. Nl \in Tokens(Decision) /\ Rec(c.arg) \in Tokens(Decision)
  BY DEF Nl, Rec, Tokens
<1>2. /\ <<Nl>> \in Seq(Tokens(Decision)) /\ <<Rec(c.arg), Nl>> \in Seq(Tokens(Decision))
      /\ <<>> \in Seq(Tokens(Decision))
  BY <1>1
<1>3. CASE c.nl
  <2>1. Buffer(c) = <<Nl>> \o <<Rec(c.arg), Nl>>
    BY <1>3 DEF Buffer
  <2> QED BY <1>2, <1>3, <2>1
<1>4. CASE ~c.nl
  <2>1. Buffer(c) = <<>> \o <<Rec(c.arg), Nl>>
    BY <1>4 DEF Buffer
  <2> QED BY <1>2, <1>4, <2>1
<1> QED BY <1>3, <1>4

LEMMA CutSeq ==
  ASSUME NEW T, NEW run \in Seq(T), Frag \in T, NEW cut \in Cut(run)
  PROVE  cut \in Seq(T)
<1>1. DOMAIN run = 1..Len(run) /\ Len(run) \in Nat
  OBVIOUS
<1>2. ASSUME NEW n \in 0..(Len(run) - 1) PROVE SubSeq(run, 1, n) \in Seq(T)
  BY <1>1
<1>3. ASSUME NEW n \in DOMAIN run PROVE Append(SubSeq(run, 1, n - 1), Frag) \in Seq(T)
  <2>1. SubSeq(run, 1, n - 1) \in Seq(T)
    BY <1>1
  <2> QED BY <2>1
<1> QED BY <1>2, <1>3 DEF Cut

\* A part of a buffer begins as the buffer does.
LEMMA CutIs ==
  ASSUME NEW c, c.arg \in Decision, c.nl \in BOOLEAN, NEW cut \in Cut(Buffer(c))
  PROVE  cut \in Seq(Tokens(Decision)) /\ (c.nl => cut = <<>> \/ cut[1] = Nl)
<1> DEFINE run == Buffer(c)
<1>1. run \in Seq(Tokens(Decision)) /\ Len(run) \in Nat /\ DOMAIN run = 1..Len(run) /\ (c.nl => run[1] = Nl)
  BY BufferIs
<1>2. Frag \in Tokens(Decision)
  BY DEF Frag, Tokens
<1> HIDE DEF run
<1>3. ASSUME NEW n \in 0..(Len(run) - 1), cut = SubSeq(run, 1, n)
      PROVE cut \in Seq(Tokens(Decision)) /\ (c.nl => cut = <<>> \/ cut[1] = Nl)
  <2>1. cut \in Seq(Tokens(Decision)) /\ Len(cut) = n /\ \A j \in 1..n : cut[j] = run[j]
    BY <1>1, <1>3
  <2>2. n = 0 => cut = <<>>
    BY <2>1
  <2> QED BY <1>1, <2>1, <2>2
<1>4. ASSUME NEW n \in DOMAIN run, run[n] # Nl, cut = Append(SubSeq(run, 1, n - 1), Frag)
      PROVE cut \in Seq(Tokens(Decision)) /\ (c.nl => cut = <<>> \/ cut[1] = Nl)
  <2> DEFINE front == SubSeq(run, 1, n - 1)
  <2>1. front \in Seq(Tokens(Decision)) /\ Len(front) = n - 1 /\ \A j \in 1..(n - 1) : front[j] = run[j]
    BY <1>1
  <2> HIDE DEF front
  <2>2. cut \in Seq(Tokens(Decision)) /\ \A j \in 1..(n - 1) : cut[j] = run[j]
    BY <1>2, <1>4, <2>1 DEF front
  <2>3. c.nl => n # 1
    BY <1>1, <1>4
  <2> QED BY <1>1, <2>2, <2>3
<1> QED BY <1>3, <1>4 DEF Cut, run

\* A whole or a cut record of a decision at the end of the file.
LEMMA WrittenOK ==
  ASSUME MemOK, NEW c, c.arg \in Decision, c.nl \in BOOLEAN, mem' = mem \o Buffer(c),
         acked' = [acked EXCEPT !.mem = @ \cup {c.arg},
                     !.blind = IF GluedTail(c) = {} THEN @ ELSE @ \cup GluedTail(c) \cup {c.arg}]
  PROVE  MemOK'
<1> DEFINE buf == Buffer(c)
<1>1. /\ mem \in Seq(Tokens(Decision)) /\ buf \in Seq(Tokens(Decision))
      /\ c.nl => Len(buf) = 3 /\ buf[1] = Nl /\ buf[2] = Rec(c.arg) /\ buf[3] = Nl
      /\ ~c.nl => Len(buf) = 2 /\ buf[1] = Rec(c.arg) /\ buf[2] = Nl
  BY BufferIs DEF MemOK
<1> HIDE DEF buf
<1>2. mem' \in Seq(Tokens(Decision)) /\ mem' = mem \o buf
  BY <1>1 DEF buf
<1>3. /\ acked' = [x \in {"mem", "log", "blind", "merged"} |-> acked'[x]]
      /\ acked'.mem = acked.mem \cup {c.arg}
      /\ acked'.blind = IF GluedTail(c) = {} THEN acked.blind ELSE acked.blind \cup GluedTail(c) \cup {c.arg}
  BY DEF MemOK
<1>4. GluedTail(c) = {} => c.nl \/ mem = <<>> \/ Last(mem) = Nl
  BY DEF GluedTail, NeedsLeadingNl
<1>5. GluedTail(c) # {} => GluedTail(c) = {Last(mem).of}
  BY DEF GluedTail
<1>6. ASSUME NEW x \in acked.mem \ acked'.blind PROVE x \in LinesRead(mem')
  <2>1. x \in LinesRead(mem)
    BY <1>3, <1>6 DEF MemOK
  <2>2. mem = <<>> \/ Last(mem) = Nl \/ buf[1] = Nl \/ x # Last(mem).of
    BY <1>1, <1>3, <1>4, <1>5, <1>6
  <2> QED BY <1>1, <1>2, <2>1, <2>2, AppendKeeps
<1>7. c.arg \notin acked'.blind => c.arg \in LinesRead(mem')
  <2>1. CASE c.nl
    <3>1. Len(buf) = 3 /\ buf[1] = Nl /\ buf[2] = Rec(c.arg) /\ buf[3] = Nl
      BY <1>1, <2>1
    <3>2. PICK k \in 1..Len(buf) : k = 2
      BY <3>1
    <3>3. buf[k] = Rec(c.arg) /\ buf[k + 1] = Nl /\ buf[k - 1] = Nl /\ k # 1
      BY <3>1, <3>2
    <3> QED BY <1>1, <1>2, <3>3, RecordRead
  <2>2. CASE ~c.nl /\ GluedTail(c) = {}
    <3>1. 1 \in 1..Len(buf) /\ buf[1] = Rec(c.arg) /\ buf[1 + 1] = Nl /\ (mem = <<>> \/ Last(mem) = Nl)
      BY <1>1, <1>4, <2>2
    <3> QED BY <1>1, <1>2, <3>1, RecordRead
  <2>3. CASE GluedTail(c) # {}
    BY <1>3, <2>3
  <2> QED BY <2>1, <2>2, <2>3
<1> QED BY <1>2, <1>3, <1>6, <1>7 DEF MemOK

LEMMA CutOK ==
  ASSUME MemOK, NEW c, c.arg \in Decision, c.nl \in BOOLEAN, AppendCut(c)
  PROVE  MemOK' /\ acked'.log = acked.log /\ acked'.merged = acked.merged
<1>1. PICK cut \in Cut(Buffer(c)) :
         /\ mem' = mem \o cut
         /\ acked' = IF cut = <<>> THEN acked ELSE [acked EXCEPT !.blind = @ \cup GluedTail(c)]
  BY DEF AppendCut
<1>2. /\ mem \in Seq(Tokens(Decision)) /\ cut \in Seq(Tokens(Decision))
      /\ c.nl => cut = <<>> \/ cut[1] = Nl
  BY CutIs DEF MemOK
<1>3. mem' \in Seq(Tokens(Decision))
  BY <1>1, <1>2
<1>4. /\ acked' = [x \in {"mem", "log", "blind", "merged"} |-> acked'[x]]
      /\ acked'.mem = acked.mem /\ acked'.log = acked.log /\ acked'.merged = acked.merged
      /\ acked'.blind = IF cut = <<>> THEN acked.blind ELSE acked.blind \cup GluedTail(c)
  BY <1>1 DEF MemOK
<1>5. ASSUME NEW x \in acked.mem \ acked'.blind PROVE x \in LinesRead(mem')
  <2>1. x \in LinesRead(mem)
    BY <1>4, <1>5 DEF MemOK
  <2>2. mem = <<>> \/ Last(mem) = Nl \/ cut = <<>> \/ cut[1] = Nl \/ x # Last(mem).of
    BY <1>2, <1>4, <1>5 DEF GluedTail, NeedsLeadingNl
  <2> QED BY <1>1, <1>2, <2>1, <2>2, AppendKeeps
<1> QED BY <1>3, <1>4, <1>5 DEF MemOK

\* Steps that leave the log alone and bring no server to its newline.
LEMMA LogUntouched ==
  ASSUME LogOK, UNCHANGED log, acked'.log = acked.log, acked.merged \subseteq acked'.merged,
         \A s \in Server : BeforeNewline(server'[s]) => BeforeNewline(server[s]) /\ server'[s].call.id = server[s].call.id
  PROVE  LogOK'
  BY DEF LogOK, BeforeNewline

\* After an answer there is no call; a call that goes on is where it was sent.
LEMMA AnswerEnds ==
  ASSUME SessionInv, NEW s \in Server, NEW srv, SrvShape(srv), NEW reply, Answer(s, srv, reply)
  PROVE  server'[s].call = Nil /\ \A t \in Server \ {s} : server'[t] = server[t]
  BY DEF SessionInv, Answer, SrvShape, SrvFields

LEMMA ToolAnswerEnds ==
  ASSUME SessionInv, NEW s \in Server, NEW srv, NEW id, AllBut(srv, id, stores), NEW code, NEW body,
         ToolAnswer(s, srv, code, body)
  PROVE  server'[s].call = Nil /\ \A t \in Server \ {s} : server'[t] = server[t]
<1>1. SrvShape([srv EXCEPT !.served = @ + 1])
  BY CountersKeep DEF AllBut
<1> QED BY <1>1, AnswerEnds DEF ToolAnswer

LEMMA CallMoves ==
  ASSUME SessionInv, NEW s \in Server, NEW srv, SrvShape(srv), NEW c,
         server' = [server EXCEPT ![s] = [srv EXCEPT !.call = c]]
  PROVE  server'[s].call = c /\ \A t \in Server \ {s} : server'[t] = server[t]
  BY DEF SessionInv, SrvShape, SrvFields

LEMMA PhaseMoves ==
  ASSUME SessionInv, NEW s \in Server, ~Idle(s), NEW ph \in CallPhases, Phase(s, ph)
  PROVE  /\ server'[s].call.phase = ph /\ server'[s].call.id = server[s].call.id
         /\ \A t \in Server \ {s} : server'[t] = server[t]
<1> DEFINE c == [server[s].call EXCEPT !.phase = ph]
<1>1. server' = [server EXCEPT ![s] = [server[s] EXCEPT !.call = c]]
  BY DEF Phase
<1>2. c.phase = ph /\ c.id = server[s].call.id
  BY Busily, NextPhase
<1> HIDE DEF c
<1> QED BY <1>1, <1>2, Busily, CallMoves, ZenonT(60)

\* The steps that write no file come to no newline.
Quiet(s) == /\ UNCHANGED log
            /\ ~BeforeNewline(server'[s]) /\ \A t \in Server \ {s} : server'[t] = server[t]

LEMMA AnswerStepQuiet ==
  ASSUME SessionInv, NEW s \in Server,
         \/ Dispatch(s) \/ BadArgs(s) \/ IndexStatus(s) \/ SetOutputCompression(s) \/ ExpandChunk(s)
         \/ RelatedContext(s) \/ SessionRecall(s) \/ SummarizeContext(s)
  PROVE  Quiet(s) /\ UNCHANGED <<mem, acked>>
<1>1. ~Idle(s) /\ UNCHANGED <<mem, log, acked>>
  BY DEF Dispatch, BadArgs, IndexStatus, SetOutputCompression, ExpandChunk, RelatedContext, SessionRecall,
         SummarizeContext, OneStep, Doing
<1>2. AllBut(server[s], server[s].call.id, stores) /\ SrvShape(server[s])
  BY <1>1, Busily
<1>3. CASE Dispatch(s)
  BY <1>1, <1>2, <1>3, AnswerEnds DEF Dispatch, Srv, Quiet, BeforeNewline
<1>4. CASE BadArgs(s) \/ IndexStatus(s) \/ SessionRecall(s) \/ SummarizeContext(s)
  BY <1>1, <1>2, <1>4, ToolAnswerEnds
  DEF BadArgs, IndexStatus, SessionRecall, SummarizeContext, Srv, Quiet, BeforeNewline
<1>5. CASE SetOutputCompression(s)
  <2>1. AllBut([server[s] EXCEPT !.level = server[s].call.arg], server[s].call.id, stores)
    BY <1>2, CountersKeep
  <2> QED BY <1>1, <1>5, <2>1, ToolAnswerEnds DEF SetOutputCompression, Srv, Quiet, BeforeNewline
<1>6. CASE ExpandChunk(s) \/ RelatedContext(s)
  BY <1>1, <1>2, <1>6, LogKeeps, ToolAnswerEnds DEF ExpandChunk, RelatedContext, Srv, Quiet, BeforeNewline
<1> QED BY <1>3, <1>4, <1>5, <1>6

LEMMA SearchStepQuiet ==
  ASSUME SessionInv, NEW s \in Server,
         \/ ResolveSource(s) \/ SearchCode(s) \/ GatherCodeHits(s) \/ WriteSearchEvent(s)
         \/ SearchKnowledge(s) \/ SearchBoth(s)
  PROVE  Quiet(s) /\ UNCHANGED <<mem, acked>>
<1> DEFINE c == server[s].call
           logged == Log(server[s], [event |-> "search", id |-> Nil])
<1>1. ~Idle(s) /\ UNCHANGED <<mem, log, acked>>
  BY DEF ResolveSource, SearchCode, GatherCodeHits, WriteSearchEvent, SearchKnowledge, SearchBoth, Doing
<1>2. /\ AllBut(server[s], c.id, stores) /\ SrvShape(server[s]) /\ c \in Pending
      /\ AllBut(logged, c.id, stores) /\ logged.call = c
  BY <1>1, Busily, LogKeeps
<1>3. ASSUME NEW srv, AllBut(srv, c.id, stores), NEW body, ToolAnswer(s, srv, "ok", body)
      PROVE Quiet(s) /\ UNCHANGED <<mem, acked>>
  BY <1>1, <1>3, ToolAnswerEnds DEF Quiet, BeforeNewline
<1>4. ASSUME NEW srv, SrvShape(srv), NEW d, server' = [server EXCEPT ![s] = [srv EXCEPT !.call = d]],
             d.phase # "newline"
      PROVE Quiet(s) /\ UNCHANGED <<mem, acked>>
  BY <1>1, <1>4, CallMoves, ZenonT(60) DEF Quiet, BeforeNewline
<1>5. ASSUME StartAppend(s, [server[s] EXCEPT !.call.pools = @ \cup {"code"}])
      PROVE Quiet(s) /\ UNCHANGED <<mem, acked>>
  <2> DEFINE d == [c EXCEPT !.pools = @ \cup {"code"}, !.phase = "line"]
  <2>1. server' = [server EXCEPT ![s] = [server[s] EXCEPT !.call = d]]
    BY <1>2, <1>5 DEF StartAppend, SrvShape, SrvFields
  <2>2. d.phase = "line"
    BY <1>2 DEF Pending
  <2> HIDE DEF d
  <2> QED BY <1>2, <1>4, <2>1, <2>2
<1>6. CASE ResolveSource(s)
  <2> DEFINE src == SourceOf(c.arg, stores)
             d == [c EXCEPT !.source = src, !.phase = IF src = "knowledge" THEN "know" ELSE "code"]
  <2>1. server' = [server EXCEPT ![s] = [server[s] EXCEPT !.call = d]]
    BY <1>6 DEF ResolveSource, SourceOf, IsPresent
  <2> HIDE DEF src
  <2>2. d.phase # "newline"
    BY <1>2 DEF Pending
  <2> HIDE DEF d
  <2> QED BY <1>2, <1>4, <2>1, <2>2
<1>7. CASE SearchCode(s)
  BY <1>2, <1>3, <1>5, <1>7 DEF SearchCode
<1>8. CASE GatherCodeHits(s)
  <2> DEFINE told == IF stores.code = "corrupt" THEN {"code"} ELSE {}
             d == [c EXCEPT !.phase = "know", !.notices = told]
  <2>1. CASE stores.code = "ok"
    BY <1>5, <1>8, <2>1 DEF GatherCodeHits
  <2>2. CASE stores.code # "ok"
    <3>1. server' = [server EXCEPT ![s].call.phase = "know", ![s].call.notices = told]
      BY <1>8, <2>2 DEF GatherCodeHits
    <3> HIDE DEF told
    <3>2. server' = [server EXCEPT ![s] = [server[s] EXCEPT !.call = d]]
      BY <3>1
    <3>3. d.phase # "newline"
      BY <1>2 DEF Pending
    <3> HIDE DEF d
    <3> QED BY <1>2, <1>4, <3>2, <3>3
  <2> QED BY <2>1, <2>2
<1>9. CASE WriteSearchEvent(s)
  <2> DEFINE srv == [logged EXCEPT !.searches = @ + 1]
             d == [c EXCEPT !.phase = "know"]
  <2> HIDE DEF logged
  <2>0. AllBut(srv, c.id, stores) /\ srv.call = c
    BY <1>2, CountersKeep, ZenonT(60)
  <2>1. AllBut(srv, c.id, stores) /\ srv.call = c /\ SrvShape(srv)
    <3> HIDE DEF srv
    <3> QED BY <2>0 DEF AllBut
  <2>2. CASE srv.call.source = "code"
    BY <1>3, <1>9, <2>1, <2>2 DEF WriteSearchEvent, logged
  <2>3. CASE srv.call.source # "code"
    <3>1. server' = [server EXCEPT ![s] = [srv EXCEPT !.call.phase = "know"]]
      BY <1>9, <2>3 DEF WriteSearchEvent, logged
    <3>2. server' = [server EXCEPT ![s] = [srv EXCEPT !.call = d]]
      BY <2>1, <3>1
    <3>3. d.phase # "newline"
      BY <1>2 DEF Pending
    <3> HIDE DEF d, srv
    <3> QED BY <1>4, <2>1, <3>2, <3>3
  <2> QED BY <2>2, <2>3
<1>10. CASE SearchKnowledge(s)
  BY <1>2, <1>3, <1>10 DEF SearchKnowledge
<1>11. CASE SearchBoth(s)
  BY <1>2, <1>3, <1>11 DEF SearchBoth
<1> QED
  BY <1>6, <1>7, <1>8, <1>9, <1>10, <1>11

\* A step that touches neither file keeps what both hold.
LEMMA QuietKeeps ==
  ASSUME DurableInv, NEW s \in Server, Quiet(s), UNCHANGED mem, acked' = acked \/
           (\E d \in LinesRead(mem) : acked' = [acked EXCEPT !.mem = @ \cup {d}])
  PROVE  MemOK' /\ LogOK'
<1>1. MemOK'
  BY DEF DurableInv, MemOK
<1>2. acked'.log = acked.log /\ acked'.merged = acked.merged
  BY DEF DurableInv, MemOK
<1>3. \A t \in Server : BeforeNewline(server'[t]) => BeforeNewline(server[t]) /\ server'[t].call.id = server[t].call.id
  BY DEF Quiet
<1> QED BY <1>1, <1>2, <1>3, LogUntouched DEF DurableInv, Quiet

LEMMA MemoryStepInv ==
  ASSUME DurableInv, NEW s \in Server,
         RecordDecision(s) \/ LookAtTail(s) \/ WriteDecision(s) \/ WriteDecisionFails(s)
  PROVE  MemOK' /\ LogOK'
<1> DEFINE c == server[s].call
<1>1. ~Idle(s) /\ UNCHANGED log /\ c.tool = "record_decision" /\ SessionInv /\ MemOK /\ LogOK
  BY DEF RecordDecision, LookAtTail, WriteDecision, WriteDecisionFails, Doing, DurableInv
<1>2. /\ AllBut(server[s], c.id, stores) /\ c \in Pending /\ SrvShape(server[s])
      /\ c.arg \in Decision /\ c.nl \in BOOLEAN
  BY <1>1, Busily DEF CallOK, Pending
<1>3. ASSUME NEW event, NEW body, ToolAnswer(s, Log(server[s], event), "ok", body) PROVE Quiet(s)
  BY <1>1, <1>2, <1>3, LogKeeps, ToolAnswerEnds DEF Quiet, BeforeNewline
<1>4. CASE RecordDecision(s)
  <2>1. CASE c.arg \in LoadEntries(mem)
    <3>1. /\ ToolAnswer(s, Log(server[s], [event |-> "decision", id |-> c.arg]), "ok", c.arg)
          /\ acked' = [acked EXCEPT !.mem = @ \cup {c.arg}] /\ UNCHANGED mem /\ c.arg \in LinesRead(mem)
      BY <1>4, <2>1 DEF RecordDecision, Acked, LoadEntries
    <3> QED BY <1>3, <3>1, QuietKeeps
  <2>2. CASE c.arg \notin LoadEntries(mem)
    <3>1. Phase(s, "tail") /\ UNCHANGED <<mem, acked>>
      BY <1>4, <2>2 DEF RecordDecision
    <3>2. Quiet(s)
      BY <1>1, <3>1, PhaseMoves DEF Quiet, BeforeNewline, CallPhases
    <3> QED BY <3>1, <3>2, QuietKeeps
  <2> QED BY <2>1, <2>2
<1>5. CASE LookAtTail(s)
  <2> DEFINE d == [c EXCEPT !.phase = "write", !.nl = NeedsLeadingNl(mem)]
  <2>1. server' = [server EXCEPT ![s] = [server[s] EXCEPT !.call = d]] /\ UNCHANGED <<mem, acked>>
    BY <1>5 DEF LookAtTail
  <2>2. d.phase = "write"
    BY <1>2 DEF Pending
  <2> HIDE DEF d
  <2>3. server'[s].call = d /\ \A t \in Server \ {s} : server'[t] = server[t]
    BY <1>1, <1>2, <2>1, CallMoves
  <2>4. Quiet(s)
    BY <1>1, <2>2, <2>3 DEF Quiet, BeforeNewline
  <2> QED BY <2>1, <2>4, QuietKeeps
<1>6. CASE WriteDecision(s)
  <2>1. /\ ToolAnswer(s, Log(server[s], [event |-> "decision", id |-> c.arg]), "ok", c.arg)
        /\ mem' = mem \o Buffer(c)
        /\ acked' = [acked EXCEPT !.mem = @ \cup {c.arg},
                       !.blind = IF GluedTail(c) = {} THEN @ ELSE @ \cup GluedTail(c) \cup {c.arg}]
    BY <1>6, SMTT(30) DEF WriteDecision
  <2>2. MemOK'
    BY <1>1, <1>2, <2>1, WrittenOK
  <2>3. acked'.log = acked.log /\ acked'.merged = acked.merged
    BY <1>1, <2>1 DEF MemOK
  <2>4. Quiet(s)
    BY <1>3, <2>1
  <2> QED BY <1>1, <2>2, <2>3, <2>4, LogUntouched DEF Quiet
<1>7. CASE WriteDecisionFails(s)
  <2>1. AppendCut(c) /\ ToolAnswer(s, server[s], "tool_error", Nil)
    BY <1>7 DEF WriteDecisionFails
  <2>2. MemOK' /\ acked'.log = acked.log /\ acked'.merged = acked.merged
    BY <1>1, <1>2, <2>1, CutOK
  <2>3. Quiet(s)
    BY <1>1, <1>2, <2>1, ToolAnswerEnds DEF Quiet, BeforeNewline
  <2> QED BY <1>1, <2>2, <2>3, LogUntouched DEF Quiet
<1> QED BY <1>4, <1>5, <1>6, <1>7

LEMMA LogStepInv ==
  ASSUME DurableInv, NEW s \in Server,
         RecordFeedback(s) \/ AppendLine(s) \/ AppendNewline(s) \/ AppendFails(s)
  PROVE  MemOK' /\ LogOK'
<1> DEFINE c == server[s].call
<1>1. ~Idle(s) /\ UNCHANGED mem /\ SessionInv /\ MemOK /\ LogOK
  BY DEF RecordFeedback, AppendLine, AppendNewline, AppendFails, Doing, DurableInv
<1>2. AllBut(server[s], c.id, stores) /\ c \in Pending /\ SrvShape(server[s]) /\ c.id \in Nat
  BY <1>1, Busily DEF Pending
<1>3. /\ acked = [x \in {"mem", "log", "blind", "merged"} |-> acked[x]]
      /\ log \in Seq(Tokens(Nat)) /\ Rec(c.id) \in Tokens(Nat) /\ Nl \in Tokens(Nat) /\ Frag \in Tokens(Nat)
  BY <1>1, <1>2 DEF MemOK, LogOK, Rec, Nl, Frag, Tokens
\* Appending breaks no event whose newline is written.
<1>4. ASSUME NEW t \in Tokens(Nat), log' = Append(log, t)
      PROVE /\ log' = log \o <<t>> /\ <<t>> \in Seq(Tokens(Nat)) /\ log' \in Seq(Tokens(Nat))
            /\ \A x \in acked.log \ acked.merged : LineEnded(log', x)
  <2>1. log' = log \o <<t>> /\ <<t>> \in Seq(Tokens(Nat)) /\ log' \in Seq(Tokens(Nat))
    BY <1>3, <1>4
  <2> QED BY <1>1, <1>3, <2>1, EndedKeeps DEF LogOK
<1>5. ASSUME NEW ph \in {"line", "newline", "logged"}, Phase(s, ph)
      PROVE /\ server'[s].call.phase = ph /\ server'[s].call.id = c.id
            /\ \A t \in Server \ {s} : server'[t] = server[t]
  BY <1>1, <1>5, PhaseMoves DEF CallPhases
\* The others that wait to write their newline are a line of their own, or merged.
<1>6. ASSUME NEW t \in Tokens(Nat), log' = Append(log, t), log = <<>> \/ Last(log) = Nl \/ t = Nl,
             NEW u \in Server, BeforeNewline(server[u]), server[u].call.id \notin acked.merged
      PROVE server[u].call.id \in LinesRead(log')
  <2>1. server[u].call.id \in LinesRead(log)
    BY <1>1, <1>6 DEF LogOK
  <2>2. <<t>>[1] = t
    OBVIOUS
  <2> QED BY <1>3, <1>4, <1>6, <2>1, <2>2, AppendKeeps
<1>7. MemOK'
  BY <1>1, <1>3 DEF RecordFeedback, AppendLine, AppendNewline, AppendFails, MemOK
<1>8. CASE RecordFeedback(s)
  <2>1. Phase(s, "line") /\ UNCHANGED <<log, acked>>
    BY <1>8 DEF RecordFeedback, StartAppend, Phase
  <2> QED BY <1>1, <1>5, <1>7, <2>1, LogUntouched DEF BeforeNewline
<1>9. CASE AppendLine(s)
  <2>1. /\ log' = Append(log, Rec(c.id)) /\ Phase(s, "newline")
        /\ acked' = IF log # <<>> /\ Last(log) # Nl
                    THEN [acked EXCEPT !.merged = @ \cup {c.id} \cup {server[t].call.id : t \in InNewline}]
                    ELSE acked
    BY <1>9 DEF AppendLine
  <2>2. \A u \in Server : BeforeNewline(server[u]) => u \in InNewline
    BY DEF BeforeNewline, InNewline, Idle
  <2>3. acked'.log = acked.log /\ acked.merged \subseteq acked'.merged
    BY <1>3, <2>1
  <2>4. ASSUME NEW u \in Server, BeforeNewline(server'[u]), server'[u].call.id \notin acked'.merged
        PROVE server'[u].call.id \in LinesRead(log')
    <3>1. log = <<>> \/ Last(log) = Nl
      <4>1. CASE u = s
        BY <1>3, <1>5, <2>1, <2>4, <4>1
      <4>2. CASE u # s
        BY <1>3, <1>5, <2>1, <2>2, <2>4, <4>2
      <4> QED BY <4>1, <4>2
    <3>2. CASE u = s
      <4> DEFINE g == <<Rec(c.id)>>
      <4>0. Len(g) = 1 /\ g[1] = Rec(c.id) /\ log' = log \o g /\ g \in Seq(Tokens(Nat))
        BY <1>3, <1>4, <2>1
      <4> HIDE DEF g
      <4>1. PICK k \in 1..Len(g) : k = 1
        BY <4>0
      <4>2. c.id \in LinesRead(log')
        BY <1>3, <3>1, <4>0, <4>1, RecordRead
      <4> QED BY <1>5, <2>1, <3>2, <4>2
    <3>3. CASE u # s
      BY <1>3, <1>5, <1>6, <2>1, <2>3, <2>4, <3>1, <3>3
    <3> QED BY <3>2, <3>3
  <2> QED BY <1>3, <1>4, <1>7, <2>1, <2>3, <2>4 DEF LogOK
<1>10. CASE AppendNewline(s)
  <2>1. /\ log' = Append(log, Nl) /\ c.phase = "newline"
        /\ acked' = [acked EXCEPT !.log = @ \cup {c.id}]
        /\ ToolAnswer(s, server[s], "ok", Nil) \/ Phase(s, "logged")
    BY <1>10 DEF AppendNewline
  <2>2. acked'.log = acked.log \cup {c.id} /\ acked'.merged = acked.merged
    BY <1>3, <2>1
  <2>3. ~BeforeNewline(server'[s]) /\ \A t \in Server \ {s} : server'[t] = server[t]
    <3>1. CASE ToolAnswer(s, server[s], "ok", Nil)
      BY <1>1, <1>2, <3>1, ToolAnswerEnds DEF BeforeNewline
    <3>2. CASE Phase(s, "logged")
      BY <1>5, <3>2 DEF BeforeNewline
    <3> QED BY <2>1, <3>1, <3>2
  <2>4. c.id \notin acked.merged => LineEnded(log', c.id)
    <3> SUFFICES ASSUME c.id \notin acked.merged PROVE LineEnded(log', c.id)
      OBVIOUS
    <3>1. c.id \in LinesRead(log)
      BY <1>1, <2>1 DEF LogOK, BeforeNewline, Idle
    <3>2. PICK i \in DOMAIN log : Whole(log, i) /\ log[i].of = c.id
      BY <3>1 DEF LinesRead
    <3>3. /\ i \in 1..Len(log) /\ Len(log) \in Nat /\ Len(log') = Len(log) + 1
          /\ \A j \in 1..Len(log) : log'[j] = log[j]
          /\ log'[Len(log) + 1] = Nl
      BY <1>3, <2>1, <3>2
    <3>4. Whole(log', i)
      BY <3>2, <3>3 DEF Whole
    <3> QED BY <3>2, <3>3, <3>4 DEF LineEnded
  <2>5. \A x \in acked'.log \ acked'.merged : LineEnded(log', x)
    BY <1>3, <1>4, <2>1, <2>2, <2>4
  <2>6. ASSUME NEW u \in Server, BeforeNewline(server'[u]), server'[u].call.id \notin acked'.merged
        PROVE server'[u].call.id \in LinesRead(log')
    BY <1>3, <1>6, <2>1, <2>2, <2>3, <2>6
  <2> QED BY <1>3, <1>4, <1>7, <2>1, <2>5, <2>6 DEF LogOK
<1>11. CASE AppendFails(s)
  <2>1. ~BeforeNewline(server'[s]) /\ \A t \in Server \ {s} : server'[t] = server[t]
    <3>1. ToolAnswer(s, server[s], "tool_error", Nil) \/ Phase(s, "logged")
      BY <1>11 DEF AppendFails
    <3>2. CASE ToolAnswer(s, server[s], "tool_error", Nil)
      BY <1>1, <1>2, <3>2, ToolAnswerEnds DEF BeforeNewline
    <3>3. CASE Phase(s, "logged")
      BY <1>5, <3>3 DEF BeforeNewline
    <3> QED BY <3>1, <3>2, <3>3
  <2>2. CASE UNCHANGED <<log, acked>>
    BY <1>1, <1>7, <2>1, <2>2, LogUntouched
  <2>3. ASSUME NEW cut \in Cut(<<Rec(c.id), Nl>>), Len(cut) <= 1, log' = log \o cut, cut # <<>>,
               acked' = [acked EXCEPT !.merged = @ \cup {server[t].call.id : t \in InNewline}]
        PROVE MemOK' /\ LogOK'
    <3> DEFINE run == <<Rec(c.id), Nl>>
    <3>1. run \in Seq(Tokens(Nat)) /\ Len(run) = 2 /\ DOMAIN run = 1..2
      BY <1>3
    <3> HIDE DEF run
    <3>2. cut \in Seq(Tokens(Nat))
      BY <1>3, <2>3, <3>1, CutSeq DEF run
    <3>3. log' \in Seq(Tokens(Nat)) /\ \A x \in acked.log \ acked.merged : LineEnded(log', x)
      BY <1>1, <1>3, <2>3, <3>2, EndedKeeps DEF LogOK
    <3>4. /\ acked'.log = acked.log /\ acked.merged \subseteq acked'.merged
          /\ \A u \in Server : BeforeNewline(server[u]) => server[u].call.id \in acked'.merged
      BY <1>3, <2>3 DEF BeforeNewline, InNewline, Idle
    <3>5. \A u \in Server : BeforeNewline(server'[u]) => server'[u].call.id \in acked'.merged
      BY <2>1, <3>4
    <3> QED BY <1>7, <3>3, <3>4, <3>5 DEF LogOK
  <2>4. ASSUME NEW cut \in Cut(<<Rec(c.id), Nl>>), log' = log \o cut, cut = <<>>, acked' = acked
        PROVE MemOK' /\ LogOK'
    <3>1. log' = log
      BY <1>3, <2>4
    <3> QED BY <2>2, <2>4, <3>1
  <2> QED BY <1>11, <2>2, <2>3, <2>4 DEF AppendFails
<1> QED BY <1>8, <1>9, <1>10, <1>11

LEMMA DurableStepInv == DurableInv /\ [SessionNext]_sessionVars => DurableInv'
<1> SUFFICES ASSUME DurableInv, [SessionNext]_sessionVars PROVE MemOK' /\ LogOK'
  BY SessionNextInv DEF DurableInv
<1> USE DEF DurableInv
<1>1. ASSUME NEW s \in Server, SessionStep(s) PROVE MemOK' /\ LogOK'
  <2>1. CASE \/ Dispatch(s) \/ BadArgs(s) \/ IndexStatus(s) \/ SetOutputCompression(s) \/ ExpandChunk(s)
             \/ RelatedContext(s) \/ SessionRecall(s) \/ SummarizeContext(s)
    BY <2>1, AnswerStepQuiet, QuietKeeps
  <2>2. CASE \/ ResolveSource(s) \/ SearchCode(s) \/ GatherCodeHits(s) \/ WriteSearchEvent(s)
             \/ SearchKnowledge(s) \/ SearchBoth(s)
    BY <2>2, SearchStepQuiet, QuietKeeps
  <2>3. CASE RecordDecision(s) \/ LookAtTail(s) \/ WriteDecision(s) \/ WriteDecisionFails(s)
    BY <2>3, MemoryStepInv
  <2>4. CASE RecordFeedback(s) \/ AppendLine(s) \/ AppendNewline(s) \/ AppendFails(s)
    BY <2>4, LogStepInv
  <2> QED BY <1>1, <2>1, <2>2, <2>3, <2>4 DEF SessionStep
<1>2. ASSUME NEW s \in Server, Kill(s) PROVE MemOK' /\ LogOK'
  <2>1. ~Idle(s) /\ server' = [server EXCEPT ![s] = Fresh] /\ UNCHANGED log
    BY <1>2 DEF Kill
  <2>2. Quiet(s)
    BY <2>1 DEF Quiet, BeforeNewline, Fresh, SessionInv
  <2>3. CASE UNCHANGED <<mem, acked>>
    BY <2>2, <2>3, QuietKeeps
  <2>4. CASE Doing(s, "record_decision", "write") /\ AppendCut(server[s].call)
    <3>1. server[s].call.arg \in Decision /\ server[s].call.nl \in BOOLEAN
      BY <2>1, <2>4, Busily DEF Doing, CallOK, Pending
    <3>2. MemOK' /\ acked'.log = acked.log /\ acked'.merged = acked.merged
      BY <2>4, <3>1, CutOK
    <3> QED BY <2>2, <3>2, LogUntouched DEF Quiet
  <2> QED BY <1>2, <2>3, <2>4 DEF Kill
<1>3. ASSUME NEW s \in Server, NEW form \in Form, NEW call \in Call, Receive(s, form, call) PROVE MemOK' /\ LogOK'
  <2> DEFINE id == budget.msg + 1
             awaits == CASE form \in {"blank", "notification"} -> <<>>
                         [] form = "bytes" -> <<Nil>>
                         [] OTHER -> <<id>>
             srv == [server[s] EXCEPT !.expect = @ \o awaits]
  <2>1. /\ HandleLine(s, form, id, call, srv) /\ UNCHANGED <<mem, log, acked>>
        /\ server[s].call = Nil /\ SrvShape(server[s])
    BY <1>3 DEF Receive, Idle, SessionInv, SrvInv, AllAnswered
  <2> HIDE DEF id, awaits
  <2>2. SrvShape(srv) /\ srv.call = Nil
    BY <2>1 DEF SrvShape, SrvFields
  <2> HIDE DEF srv
  <2>3. CASE form \in {"bytes", "invalid"}
    <3>1. \E reply : Answer(s, srv, reply)
      BY <2>1, <2>3 DEF HandleLine
    <3>2. Quiet(s)
      BY <2>1, <2>2, <3>1, AnswerEnds DEF Quiet, BeforeNewline
    <3> QED BY <2>1, <3>2, QuietKeeps
  <2>4. CASE form \in {"blank", "notification"}
    <3>1. server' = [server EXCEPT ![s] = srv]
      BY <2>1, <2>4 DEF HandleLine
    <3>2. Quiet(s)
      BY <2>1, <2>2, <3>1 DEF Quiet, BeforeNewline, SessionInv
    <3> QED BY <2>1, <3>2, QuietKeeps
  <2>5. CASE form = "request"
    <3>1. server' = [server EXCEPT ![s] = [srv EXCEPT !.call = NewCall(id, call)]]
      BY <2>1, <2>5 DEF HandleLine
    <3>2. NewCall(id, call).phase = "start"
      BY DEF NewCall
    <3>3. Quiet(s)
      BY <2>1, <2>2, <3>1, <3>2, CallMoves DEF Quiet, BeforeNewline
    <3> QED BY <2>1, <3>3, QuietKeeps
  <2> QED BY <2>3, <2>4, <2>5 DEF Form
<1>4. CASE UNCHANGED sessionVars
  BY <1>4 DEF sessionVars, MemOK, LogOK
<1> QED
  BY <1>1, <1>2, <1>3, <1>4 DEF SessionNext

(***************************************************************************)
(* The ledger of a session, its digest, and what a server has counted.     *)
(***************************************************************************)

Event == [event : {"decision"}, id : Decision] \cup [event : {"expand", "related", "search"}, id : {Nil}]
IsDecision(r) == r.code = "ok" /\ r.body \in Decision
Told(out) == {out[i].body : i \in {j \in DOMAIN out : IsDecision(out[j])}}
DecidedAt(ledger) == {i \in DOMAIN ledger : ledger[i].event = "decision"}
NumberIn(S, i) == Cardinality({j \in S : j <= i})

\* The ledger holds the decisions the session was told, and numbers them one by one
\* in the order they were first seen.
LedgerOK(ledger, told) ==
  LET first == FirstSeen(ledger)
  IN /\ ledger \in Seq(Event) /\ told = {ledger[i].id : i \in DecidedAt(ledger)}
     /\ IsFiniteSet(first) /\ IsFiniteSet(told) /\ Cardinality(first) = Cardinality(told)
     /\ \A k \in 1..Cardinality(first) : \E i \in first : NumberIn(first, i) = k

\* A server has answered at most one tool call per line, the one under way not yet.
Counted(srv, n) ==
  /\ srv.level \in Level \cup {Nil} /\ srv.served \in Nat
  /\ IF srv.call = Nil THEN srv.served <= n
     ELSE /\ srv.served + 1 <= n /\ srv.call.id \in 1..n
          /\ srv.call.tool = "set_output_compression" => srv.call.arg \in Level
SrvCounted(srv, n) == Counted(srv, n) /\ LedgerOK(srv.ledger, Told(srv.out))
LedgerInv ==
  /\ DurableInv /\ budget.msg <= MaxMsg /\ log \in Seq(Tokens(1..MaxMsg))
  /\ \A s \in Server : SrvCounted(server[s], budget.msg)
-----------------------------------------------------------------------------
LEMMA EmptyLedger == LedgerOK(<<>>, Told(<<>>))
<1>1. FirstSeen(<<>>) = {} /\ DecidedAt(<<>>) = {} /\ Told(<<>>) = {} /\ <<>> \in Seq(Event)
  BY DEF FirstSeen, DecidedAt, Told
<1> QED BY <1>1, FS_EmptySet DEF LedgerOK

\* What an event adds to the ledger's decisions: a new one its place, a known one nothing.
LEMMA FirstSeenAppend ==
  ASSUME NEW ledger \in Seq(Event), NEW e \in Event
  PROVE  LET n == Len(ledger) + 1
             new == e.event = "decision" /\ e.id \notin {ledger[i].id : i \in DecidedAt(ledger)}
         IN /\ FirstSeen(Append(ledger, e)) = FirstSeen(ledger) \cup (IF new THEN {n} ELSE {})
            /\ DecidedAt(Append(ledger, e)) = DecidedAt(ledger) \cup (IF e.event = "decision" THEN {n} ELSE {})
<1> DEFINE n == Len(ledger) + 1
           more == Append(ledger, e)
           new == e.event = "decision" /\ e.id \notin {ledger[i].id : i \in DecidedAt(ledger)}
<1>1. /\ Len(ledger) \in Nat /\ DOMAIN ledger = 1..Len(ledger) /\ DOMAIN more = 1..n /\ more[n] = e
      /\ \A i \in 1..Len(ledger) : more[i] = ledger[i] /\ ledger[i] \in Event
  OBVIOUS
<1> HIDE DEF more
<1>2. DecidedAt(more) = DecidedAt(ledger) \cup (IF e.event = "decision" THEN {n} ELSE {})
  BY <1>1 DEF DecidedAt
<1>3. ASSUME e.event = "decision"
      PROVE (\A j \in 1..(n - 1) : more[j] # more[n]) <=> e.id \notin {ledger[i].id : i \in DecidedAt(ledger)}
  <2>1. ASSUME NEW j \in 1..Len(ledger) PROVE ledger[j] = e <=> ledger[j].event = "decision" /\ ledger[j].id = e.id
    BY <1>1, <1>3 DEF Event
  <2> QED BY <1>1, <2>1 DEF DecidedAt
<1>4. n \in FirstSeen(more) <=> new
  BY <1>1, <1>3 DEF FirstSeen
<1>5. ASSUME NEW i \in 1..Len(ledger) PROVE i \in FirstSeen(more) <=> i \in FirstSeen(ledger)
  BY <1>1 DEF FirstSeen
<1>6. FirstSeen(more) \subseteq 1..n /\ FirstSeen(ledger) \subseteq 1..Len(ledger)
  BY <1>1 DEF FirstSeen
<1>7. FirstSeen(more) = FirstSeen(ledger) \cup (IF new THEN {n} ELSE {})
  <2> HIDE DEF new
  <2> QED BY <1>1, <1>4, <1>5, <1>6
<1> QED BY <1>2, <1>7 DEF more

\* An event that is no decision changes nothing of what the digest tells.
LEMMA OtherEvent ==
  ASSUME NEW ledger, NEW told, LedgerOK(ledger, told), NEW e \in Event, e.event # "decision"
  PROVE  LedgerOK(Append(ledger, e), told)
<1> DEFINE more == Append(ledger, e)
<1>1. ledger \in Seq(Event) /\ more \in Seq(Event) /\ Len(ledger) \in Nat
      /\ \A i \in DecidedAt(ledger) : more[i] = ledger[i]
  BY DEF LedgerOK, DecidedAt
<1>2. FirstSeen(more) = FirstSeen(ledger) /\ DecidedAt(more) = DecidedAt(ledger)
  BY <1>1, FirstSeenAppend, ZenonT(60)
<1> HIDE DEF more
<1>3. {more[i].id : i \in DecidedAt(more)} = {ledger[i].id : i \in DecidedAt(ledger)}
  BY <1>1, <1>2
<1>4. LedgerOK(more, told)
  BY <1>1, <1>2, <1>3 DEF LedgerOK
<1> QED BY <1>4 DEF more

\* A decision is told and logged together.
LEMMA DecisionEvent ==
  ASSUME NEW ledger, NEW told, LedgerOK(ledger, told), NEW d \in Decision
  PROVE  LedgerOK(Append(ledger, [event |-> "decision", id |-> d]), told \cup {d})
<1> DEFINE e == [event |-> "decision", id |-> d]
           more == Append(ledger, e)
           n == Len(ledger) + 1
           first == FirstSeen(ledger)
<1>1. /\ ledger \in Seq(Event) /\ e \in Event /\ e.event = "decision" /\ e.id = d
      /\ IsFiniteSet(first) /\ IsFiniteSet(told) /\ Cardinality(first) = Cardinality(told)
      /\ told = {ledger[i].id : i \in DecidedAt(ledger)}
      /\ \A k \in 1..Cardinality(first) : \E i \in first : NumberIn(first, i) = k
  BY DEF LedgerOK, Event
<1>2. /\ FirstSeen(more) = first \cup (IF d \notin told THEN {n} ELSE {})
      /\ DecidedAt(more) = DecidedAt(ledger) \cup {n}
  BY <1>1, FirstSeenAppend
<1>3. /\ more \in Seq(Event) /\ Len(ledger) \in Nat /\ more[n] = e
      /\ \A i \in DecidedAt(ledger) : more[i] = ledger[i]
      /\ first \subseteq 1..Len(ledger)
  BY <1>1 DEF DecidedAt, FirstSeen
<1> HIDE DEF more, e, first
<1>4. {more[i].id : i \in DecidedAt(more)} = told \cup {d}
  BY <1>1, <1>2, <1>3
<1>5. Cardinality(first) \in Nat /\ IsFiniteSet(told \cup {d})
      /\ Cardinality(told \cup {d}) = IF d \in told THEN Cardinality(told) ELSE Cardinality(told) + 1
  BY <1>1, FS_CardinalityType, FS_AddElement
<1>6. CASE d \in told
  <2>1. FirstSeen(more) = first /\ told \cup {d} = told
    BY <1>2, <1>6
  <2> QED BY <1>1, <1>3, <1>4, <2>1 DEF LedgerOK, more, e
<1>7. CASE d \notin told
  <2> DEFINE all == first \cup {n}
  <2>1. FirstSeen(more) = all /\ n \notin first
    BY <1>2, <1>3, <1>7
  <2>2. IsFiniteSet(all) /\ Cardinality(all) = Cardinality(first) + 1
    BY <1>1, <2>1, FS_AddElement
  <2>3. NumberIn(all, n) = Cardinality(all)
    <3>1. \A j \in all : j <= n
      BY <1>3
    <3>2. {j \in all : j <= n} = all
      BY <3>1
    <3> QED BY <3>2 DEF NumberIn
  <2>4. \A i \in first : NumberIn(all, i) = NumberIn(first, i)
    <3>1. ASSUME NEW i \in first PROVE {j \in all : j <= i} = {j \in first : j <= i}
      <4>1. i \in Nat /\ i <= Len(ledger) /\ ~(n <= i)
        BY <1>3
      <4> HIDE DEF n
      <4> QED BY <4>1
    <3> QED BY <3>1 DEF NumberIn
  <2>5. n \in all /\ first \subseteq all
    OBVIOUS
  <2> HIDE DEF all
  <2>6. ASSUME NEW k \in 1..Cardinality(all) PROVE \E i \in all : NumberIn(all, i) = k
    <3>1. CASE k = Cardinality(all)
      BY <2>3, <2>5, <3>1
    <3>2. CASE k # Cardinality(all)
      <4>1. k \in 1..Cardinality(first)
        BY <1>5, <2>2, <3>2
      <4> QED BY <1>1, <2>4, <2>5, <4>1
    <3> QED BY <3>1, <3>2
  <2> QED BY <1>1, <1>3, <1>4, <1>5, <1>7, <2>1, <2>2, <2>6 DEF LedgerOK, more, e
<1> QED BY <1>6, <1>7

\* The digest of such a ledger.
LEMMA DigestIs ==
  ASSUME NEW ledger, NEW told, LedgerOK(ledger, told)
  PROVE  LET d == SessionDigest(ledger)
         IN /\ d.count = Cardinality(told) /\ ToSet(d.shown) \subseteq told
            /\ Len(d.shown) + d.more = d.count
            /\ d \in Bodies
<1> DEFINE first == FirstSeen(ledger)
           items == DecisionsOf(ledger)
           at(k) == CHOOSE i \in first : NumberIn(first, i) = k
           size == Cardinality(first)
           cap == SummaryMaxItems
           few == IF Len(items) < cap THEN Len(items) ELSE cap
           rest == IF Len(items) > cap THEN Len(items) - cap ELSE 0
           d == SessionDigest(ledger)
           shown == SubSeq(items, 1, few)
<1>1. /\ ledger \in Seq(Event) /\ told = {ledger[i].id : i \in DecidedAt(ledger)}
      /\ IsFiniteSet(first) /\ size = Cardinality(told)
      /\ \A k \in 1..size : \E i \in first : NumberIn(first, i) = k
  BY DEF LedgerOK
<1>2. size \in Nat /\ cap \in Nat \ {0}
  BY <1>1, FS_CardinalityType, SessionAssumption
<1>3. items = [k \in 1..size |-> ledger[at(k)].id]
  BY DEF DecisionsOf, NumberIn
<1>4. first \subseteq DecidedAt(ledger) /\ \A i \in DecidedAt(ledger) : ledger[i].id \in Decision
  BY <1>1 DEF FirstSeen, DecidedAt, Event
<1>5. ASSUME NEW k \in 1..size PROVE ledger[at(k)].id \in told /\ ledger[at(k)].id \in Decision
  <2>1. at(k) \in first
    BY <1>1
  <2> HIDE DEF at
  <2> QED BY <1>1, <1>4, <2>1
<1> HIDE DEF items, at, size, cap
<1>6. items \in Seq(told) /\ items \in Seq(Decision) /\ Len(items) = size
  BY <1>2, <1>3, <1>5
<1>7. few \in 0..size /\ few + rest = size /\ rest \in Nat
  BY <1>2, <1>6
<1>8. d = [count |-> Len(items), shown |-> shown, more |-> rest]
  BY DEF SessionDigest, Section, items, cap
<1> HIDE DEF few, rest
<1>9. shown \in Seq(told) /\ shown \in Seq(Decision) /\ Len(shown) = few
  BY <1>6, <1>7
<1> HIDE DEF shown, d
<1>10. ToSet(shown) \subseteq told
  BY <1>9 DEF ToSet
<1>11. d.count = size /\ d.shown = shown /\ d.more = rest
  BY <1>6, <1>8
<1>12. d \in Bodies
  BY <1>2, <1>6, <1>7, <1>8, <1>9 DEF Bodies
<1> QED BY <1>1, <1>7, <1>9, <1>10, <1>11, <1>12 DEF size, d
-----------------------------------------------------------------------------
LEMMA ToldAppend ==
  ASSUME NEW out, IsSeq(out), NEW r
  PROVE  Told(Append(out, r)) = Told(out) \cup (IF IsDecision(r) THEN {r.body} ELSE {})
<1> DEFINE more == Append(out, r)
           n == Len(out) + 1
<1>1. PICK S : out \in Seq(S)
  BY DEF IsSeq
<1>2. /\ Len(out) \in Nat /\ DOMAIN out = 1..Len(out)
      /\ \A i \in 1..Len(out) : more[i] = out[i]
      /\ more[n] = r
  BY <1>1, AppendFacts
<1>3. DOMAIN more = 1..n
  BY <1>1
<1> HIDE DEF more
<1>4. {j \in DOMAIN more : IsDecision(more[j])} =
        {j \in DOMAIN out : IsDecision(out[j])} \cup (IF IsDecision(r) THEN {n} ELSE {})
  BY <1>2, <1>3
<1>5. Told(more) = Told(out) \cup (IF IsDecision(r) THEN {r.body} ELSE {})
  BY <1>2, <1>4 DEF Told
<1> QED BY <1>5 DEF more

\* One step of a server: what it counts, and what it logs and says.
Tally(srv, new) ==
  /\ new.level \in Level \cup {Nil}
  /\ \/ new.call = Nil /\ new.served = srv.served
     \/ new.call = Nil /\ srv.call # Nil /\ new.served = srv.served + 1
     \/ /\ new.call # Nil /\ srv.call # Nil /\ new.served = srv.served
        /\ new.call.id = srv.call.id /\ new.call.tool = srv.call.tool /\ new.call.arg = srv.call.arg
Entry(srv, new) ==
  /\ \/ new.ledger = srv.ledger
     \/ \E e \in Event : e.event # "decision" /\ new.ledger = Append(srv.ledger, e)
  /\ \/ new.out = srv.out
     \/ \E r : ~IsDecision(r) /\ new.out = Append(srv.out, r)
DecisionEntry(srv, new) ==
  \E r : /\ IsDecision(r) /\ new.out = Append(srv.out, r)
         /\ new.ledger = Append(srv.ledger, [event |-> "decision", id |-> r.body])

LEMMA StepCounted ==
  ASSUME NEW n \in Nat, NEW srv, SrvCounted(srv, n), IsSeq(srv.out),
         NEW new, Tally(srv, new), Entry(srv, new) \/ DecisionEntry(srv, new)
  PROVE  SrvCounted(new, n)
<1>1. Counted(new, n)
  BY DEF SrvCounted, Counted, Tally
<1>2. CASE Entry(srv, new)
  <2>1. Told(new.out) = Told(srv.out)
    BY <1>2, ToldAppend DEF Entry
  <2>2. LedgerOK(new.ledger, Told(srv.out))
    BY <1>2, OtherEvent DEF Entry, SrvCounted
  <2> QED BY <1>1, <2>1, <2>2 DEF SrvCounted
<1>3. CASE DecisionEntry(srv, new)
  <2>1. PICK r : /\ IsDecision(r) /\ new.out = Append(srv.out, r)
                 /\ new.ledger = Append(srv.ledger, [event |-> "decision", id |-> r.body])
    BY <1>3 DEF DecisionEntry
  <2>2. Told(new.out) = Told(srv.out) \cup {r.body} /\ r.body \in Decision
    BY <2>1, ToldAppend DEF IsDecision
  <2>3. LedgerOK(new.ledger, Told(srv.out) \cup {r.body})
    BY <2>1, <2>2, DecisionEvent DEF SrvCounted
  <2> QED BY <1>1, <2>2, <2>3 DEF SrvCounted
<1> QED BY <1>2, <1>3

\* What the steps of one server come to.
LEMMA OneCounted ==
  ASSUME LedgerInv, DurableInv', NEW s \in Server, SrvCounted(server'[s], budget'.msg),
         \A t \in Server \ {s} : server'[t] = server[t],
         budget'.msg = budget.msg, log' \in Seq(Tokens(1..MaxMsg))
  PROVE  LedgerInv'
<1>1. \A t \in Server : SrvCounted(server'[t], budget'.msg)
  BY DEF LedgerInv
<1>2. budget'.msg <= MaxMsg
  BY DEF LedgerInv
<1> QED BY <1>1, <1>2 DEF LedgerInv

LEMMA CountedStep ==
  ASSUME LedgerInv, DurableInv', NEW s \in Server, Tally(server[s], server'[s]),
         Entry(server[s], server'[s]) \/ DecisionEntry(server[s], server'[s]),
         \A t \in Server \ {s} : server'[t] = server[t],
         budget'.msg = budget.msg, log' \in Seq(Tokens(1..MaxMsg))
  PROVE  LedgerInv'
<1>1. budget.msg \in Nat /\ IsSeq(server[s].out) /\ SrvCounted(server[s], budget.msg)
  BY DEF LedgerInv, DurableInv, SessionInv, SrvInv, AllAnswered, AllBut, Answered
<1>2. SrvCounted(server'[s], budget'.msg)
  BY <1>1, StepCounted
<1> QED BY <1>2, OneCounted

LEMMA LogFields ==
  ASSUME NEW srv, SrvShape(srv), NEW e
  PROVE  /\ SrvShape(Log(srv, e)) /\ Log(srv, e).ledger = Append(srv.ledger, e)
         /\ \A f \in SrvFields \ {"ledger"} : Log(srv, e)[f] = srv[f]
  BY DEF SrvShape, SrvFields, Log

LEMMA AnswerFields ==
  ASSUME SessionInv, NEW s \in Server, NEW srv, SrvShape(srv), NEW reply, Answer(s, srv, reply)
  PROVE  /\ server'[s].out = Append(srv.out, reply) /\ server'[s].call = Nil
         /\ server'[s].level = srv.level /\ server'[s].ledger = srv.ledger /\ server'[s].served = srv.served
         /\ \A t \in Server \ {s} : server'[t] = server[t]
<1> DEFINE new == [srv EXCEPT !.out = Append(@, reply), !.call = Nil]
<1>1. new.out = Append(srv.out, reply) /\ new.call = Nil
      /\ new.level = srv.level /\ new.ledger = srv.ledger /\ new.served = srv.served
  BY DEF SrvShape, SrvFields
<1>2. server' = [server EXCEPT ![s] = new]
  BY DEF Answer
<1> HIDE DEF new
<1>3. server'[s] = new /\ \A t \in Server \ {s} : server'[t] = server[t]
  BY <1>2 DEF SessionInv
<1> QED BY <1>1, <1>3

LEMMA ToolAnswerFields ==
  ASSUME SessionInv, NEW s \in Server, NEW srv, SrvShape(srv), NEW code, NEW body, ToolAnswer(s, srv, code, body)
  PROVE  /\ server'[s].out = Append(srv.out, Reply(srv.call.id, code, body)) /\ server'[s].call = Nil
         /\ server'[s].level = srv.level /\ server'[s].ledger = srv.ledger
         /\ server'[s].served = srv.served + 1
         /\ \A t \in Server \ {s} : server'[t] = server[t]
<1> DEFINE count == [srv EXCEPT !.served = @ + 1]
<1>1. SrvShape(count) /\ count.served = srv.served + 1 /\ \A f \in SrvFields \ {"served"} : count[f] = srv[f]
  BY DEF SrvShape, SrvFields
<1>2. Answer(s, count, Reply(srv.call.id, code, body))
  BY DEF ToolAnswer
<1> HIDE DEF count
<1> QED BY <1>1, <1>2, AnswerFields DEF SrvFields

LEMMA CallFields ==
  ASSUME SessionInv, NEW s \in Server, NEW srv, SrvShape(srv), NEW c,
         server' = [server EXCEPT ![s] = [srv EXCEPT !.call = c]]
  PROVE  /\ server'[s].call = c /\ \A f \in SrvFields \ {"call"} : server'[s][f] = srv[f]
         /\ \A t \in Server \ {s} : server'[t] = server[t]
  BY DEF SessionInv, SrvShape, SrvFields

\* An answer that is no decision, of a server that may have logged an event or
\* changed its level.
LEMMA AnswerCounted ==
  ASSUME LedgerInv, DurableInv', NEW s \in Server, ~Idle(s), NEW srv, SrvShape(srv),
         srv.level \in Level \cup {Nil}, srv.served = server[s].served, srv.out = server[s].out,
         \/ srv.ledger = server[s].ledger
         \/ \E e \in Event : e.event # "decision" /\ srv.ledger = Append(server[s].ledger, e),
         NEW code, NEW body, code # "ok" \/ body \in Bodies, ToolAnswer(s, srv, code, body),
         budget'.msg = budget.msg, log' \in Seq(Tokens(1..MaxMsg))
  PROVE  LedgerInv'
<1>1. SessionInv
  BY DEF LedgerInv, DurableInv
<1>2. ~IsDecision(Reply(srv.call.id, code, body))
  BY DecisionAssumption DEF IsDecision, Reply
<1>3. Tally(server[s], server'[s])
  BY <1>1, ToolAnswerFields DEF Tally, Idle
<1>4. Entry(server[s], server'[s])
  BY <1>1, <1>2, ToolAnswerFields DEF Entry
<1> QED BY <1>1, <1>3, <1>4, ToolAnswerFields, CountedStep

\* A call that goes on, of a server that may have logged its search.
LEMMA CallCounted ==
  ASSUME LedgerInv, DurableInv', NEW s \in Server, ~Idle(s), NEW srv, SrvShape(srv),
         srv.level = server[s].level, srv.served = server[s].served, srv.out = server[s].out,
         \/ srv.ledger = server[s].ledger
         \/ \E e \in Event : e.event # "decision" /\ srv.ledger = Append(server[s].ledger, e),
         NEW c, c # Nil, c.id = server[s].call.id, c.tool = server[s].call.tool, c.arg = server[s].call.arg,
         server' = [server EXCEPT ![s] = [srv EXCEPT !.call = c]],
         budget'.msg = budget.msg, log' \in Seq(Tokens(1..MaxMsg))
  PROVE  LedgerInv'
<1>1. SessionInv /\ server[s].level \in Level \cup {Nil}
  BY DEF LedgerInv, DurableInv, SrvCounted, Counted
<1>2. Tally(server[s], server'[s])
  BY <1>1, CallFields DEF Tally, Idle, SrvFields
<1>3. Entry(server[s], server'[s])
  BY <1>1, CallFields DEF Entry, SrvFields
<1> QED BY <1>1, <1>2, <1>3, CallFields, CountedStep

LEMMA LinesWithin == ASSUME NEW S, NEW f \in Seq(Tokens(S)) PROVE LinesRead(f) \subseteq S
<1>1. ASSUME NEW i \in DOMAIN f, Whole(f, i) PROVE f[i].of \in S
  <2>1. f[i] \in Tokens(S) /\ f[i].token = "rec"
    BY <1>1 DEF Whole
  <2> QED BY <2>1 DEF Tokens, Rec, Frag, Nl
<1> QED BY <1>1 DEF LinesRead

\* What every step of a busy server finds.
LEMMA BusyCounted ==
  ASSUME LedgerInv, NEW s \in Server, ~Idle(s)
  PROVE  /\ SessionInv /\ SrvShape(server[s]) /\ server[s].call \in Pending /\ CallOK(server[s].call, stores)
         /\ server[s].level \in Level \cup {Nil} /\ server[s].call.id \in 1..MaxMsg
         /\ server[s].call.tool = "set_output_compression" => server[s].call.arg \in Level
         /\ log \in Seq(Tokens(1..MaxMsg)) /\ LinesRead(mem) \subseteq Decision
         /\ LedgerOK(server[s].ledger, Told(server[s].out))
<1>1. SessionInv /\ MemOK /\ SrvCounted(server[s], budget.msg) /\ budget.msg \in Nat /\ budget.msg <= MaxMsg
      /\ log \in Seq(Tokens(1..MaxMsg))
  BY DEF LedgerInv, DurableInv, SessionInv
<1>2. LinesRead(mem) \subseteq Decision
  BY <1>1, LinesWithin DEF MemOK
<1>3. server[s].call.id \in 1..MaxMsg
  BY <1>1, SessionAssumption DEF SrvCounted, Counted, Idle
<1> QED BY <1>1, <1>2, <1>3, Busily DEF SrvCounted, Counted, Idle

LEMMA AnswerStepCounted ==
  ASSUME LedgerInv, DurableInv', NEW s \in Server,
         \/ Dispatch(s) \/ BadArgs(s) \/ IndexStatus(s) \/ SetOutputCompression(s) \/ ExpandChunk(s)
         \/ RelatedContext(s) \/ SessionRecall(s) \/ SummarizeContext(s)
  PROVE  LedgerInv'
<1> DEFINE srv == server[s]
<1>1. ~Idle(s) /\ UNCHANGED <<log, budget>>
  BY DEF Dispatch, BadArgs, IndexStatus, SetOutputCompression, ExpandChunk, RelatedContext, SessionRecall,
         SummarizeContext, OneStep, Doing
<1>2. /\ SessionInv /\ SrvShape(srv) /\ srv.level \in Level \cup {Nil} /\ LinesRead(mem) \subseteq Decision
      /\ srv.call.tool = "set_output_compression" => srv.call.arg \in Level
      /\ LedgerOK(srv.ledger, Told(srv.out))
      /\ budget'.msg = budget.msg /\ log' \in Seq(Tokens(1..MaxMsg))
  BY <1>1, BusyCounted
<1>3. Nil \in Bodies
  BY DEF Bodies
<1>4. ASSUME NEW code, NEW body, code # "ok" \/ body \in Bodies, ToolAnswer(s, srv, code, body) PROVE LedgerInv'
  BY <1>1, <1>2, <1>4, AnswerCounted
<1>5. ASSUME NEW code, Answer(s, srv, Reply(srv.call.id, code, Nil)) PROVE LedgerInv'
  <2> DEFINE reply == Reply(srv.call.id, code, Nil)
  <2>1. ~IsDecision(reply)
    BY <1>3, DecisionAssumption DEF IsDecision, Reply
  <2>2. /\ server'[s].out = Append(srv.out, reply) /\ server'[s].call = Nil
        /\ server'[s].level = srv.level /\ server'[s].ledger = srv.ledger /\ server'[s].served = srv.served
        /\ \A t \in Server \ {s} : server'[t] = server[t]
    BY <1>2, <1>5, AnswerFields
  <2> HIDE DEF reply
  <2>3. Tally(srv, server'[s]) /\ Entry(srv, server'[s])
    BY <1>2, <2>1, <2>2 DEF Tally, Entry
  <2> QED BY <1>2, <2>2, <2>3, CountedStep
<1>6. ASSUME NEW e \in Event, e.event # "decision", ToolAnswer(s, Log(srv, e), "ok", Nil) PROVE LedgerInv'
  <2> DEFINE logged == Log(srv, e)
  <2>1. /\ SrvShape(logged) /\ logged.ledger = Append(srv.ledger, e) /\ logged.level = srv.level
        /\ logged.served = srv.served /\ logged.out = srv.out
    BY <1>2, LogFields DEF SrvFields
  <2> HIDE DEF logged
  <2>2. ToolAnswer(s, logged, "ok", Nil)
    BY <1>6 DEF logged
  <2> QED BY <1>1, <1>2, <1>3, <1>6, <2>1, <2>2, AnswerCounted
<1>7. CASE Dispatch(s)
  BY <1>5, <1>7 DEF Dispatch, Srv, Id
<1>8. CASE BadArgs(s) \/ IndexStatus(s)
  BY <1>3, <1>4, <1>8 DEF BadArgs, IndexStatus, Srv
<1>9. CASE SetOutputCompression(s)
  <2> DEFINE new == [srv EXCEPT !.level = srv.call.arg]
  <2>1. ToolAnswer(s, new, "ok", Nil) /\ srv.call.arg \in Level
    BY <1>2, <1>9 DEF SetOutputCompression, Srv, OneStep, Doing
  <2>2. /\ SrvShape(new) /\ new.ledger = srv.ledger /\ new.level = srv.call.arg
        /\ new.served = srv.served /\ new.out = srv.out
    BY <1>2 DEF SrvShape, SrvFields
  <2> HIDE DEF new
  <2> QED BY <1>1, <1>2, <1>3, <2>1, <2>2, AnswerCounted
<1>10. CASE ExpandChunk(s)
  <2>1. [event |-> "expand", id |-> Nil] \in Event
    BY DEF Event
  <2> QED BY <1>6, <1>10, <2>1 DEF ExpandChunk, Srv
<1>11. CASE RelatedContext(s)
  <2>1. [event |-> "related", id |-> Nil] \in Event
    BY DEF Event
  <2> QED BY <1>6, <1>11, <2>1 DEF RelatedContext, Srv
<1>12. CASE SessionRecall(s)
  <2>1. [recalled |-> LoadEntries(mem)] \in Bodies
    BY <1>2 DEF LoadEntries, Bodies
  <2> QED BY <1>4, <1>12, <2>1 DEF SessionRecall, Srv
<1>13. CASE SummarizeContext(s)
  <2>1. SessionDigest(srv.ledger) \in Bodies
    BY <1>2, DigestIs
  <2> QED BY <1>4, <1>13, <2>1 DEF SummarizeContext, Srv
<1> QED BY <1>7, <1>8, <1>9, <1>10, <1>11, <1>12, <1>13

\* A server that goes on with its call, one or two of whose fields change.
LEMMA PhaseCounted ==
  ASSUME LedgerInv, DurableInv', NEW s \in Server, ~Idle(s), NEW ph \in CallPhases, Phase(s, ph),
         budget'.msg = budget.msg, log' \in Seq(Tokens(1..MaxMsg))
  PROVE  LedgerInv'
<1> DEFINE c == [server[s].call EXCEPT !.phase = ph]
<1>1. SrvShape(server[s]) /\ server[s].call \in Pending
  BY BusyCounted
<1>2. c \in Pending /\ c.id = server[s].call.id /\ c.tool = server[s].call.tool /\ c.arg = server[s].call.arg
  BY <1>1, NextPhase
<1>3. server' = [server EXCEPT ![s] = [server[s] EXCEPT !.call = c]]
  BY DEF Phase
<1> HIDE DEF c
<1> QED BY <1>1, <1>2, <1>3, NilAssumption, CallCounted

LEMMA MemoryStepCounted ==
  ASSUME LedgerInv, DurableInv', NEW s \in Server,
         RecordDecision(s) \/ LookAtTail(s) \/ WriteDecision(s) \/ WriteDecisionFails(s)
  PROVE  LedgerInv'
<1> DEFINE srv == server[s]
           c == srv.call
           e == [event |-> "decision", id |-> c.arg]
<1>1. ~Idle(s) /\ UNCHANGED log /\ c.tool = "record_decision" /\ (budget' = budget \/ WriteDecisionFails(s))
  BY DEF RecordDecision, LookAtTail, WriteDecision, WriteDecisionFails, Doing
<1>2. /\ SessionInv /\ SrvShape(srv) /\ c \in Pending /\ c.arg \in Decision /\ srv.level \in Level \cup {Nil}
      /\ log' \in Seq(Tokens(1..MaxMsg))
  BY <1>1, BusyCounted DEF CallOK
<1>3. budget'.msg = budget.msg
  <2>1. budget = [x \in {"msg", "tear"} |-> budget[x]]
    BY <1>2 DEF SessionInv
  <2> QED BY <1>1, <2>1 DEF WriteDecisionFails
<1>4. ASSUME ToolAnswer(s, Log(srv, e), "ok", c.arg) PROVE LedgerInv'
  <2> DEFINE logged == Log(srv, e)
             reply == Reply(c.id, "ok", c.arg)
  <2>1. /\ SrvShape(logged) /\ logged.ledger = Append(srv.ledger, e) /\ logged.level = srv.level
        /\ logged.served = srv.served /\ logged.out = srv.out /\ logged.call = c
    BY <1>2, LogFields DEF SrvFields
  <2> HIDE DEF logged
  <2>2. ToolAnswer(s, logged, "ok", c.arg)
    BY <1>4 DEF logged
  <2>3. /\ server'[s].out = Append(srv.out, reply) /\ server'[s].call = Nil
        /\ server'[s].level = srv.level /\ server'[s].ledger = Append(srv.ledger, e)
        /\ server'[s].served = srv.served + 1
        /\ \A t \in Server \ {s} : server'[t] = server[t]
    <3>1. /\ server'[s].out = Append(logged.out, Reply(logged.call.id, "ok", c.arg)) /\ server'[s].call = Nil
          /\ server'[s].level = logged.level /\ server'[s].ledger = logged.ledger
          /\ server'[s].served = logged.served + 1
          /\ \A t \in Server \ {s} : server'[t] = server[t]
      BY <1>2, <2>1, <2>2, ToolAnswerFields
    <3> QED BY <2>1, <3>1
  <2>4. IsDecision(reply) /\ e = [event |-> "decision", id |-> reply.body]
    BY <1>2 DEF IsDecision, Reply
  <2>5. Tally(srv, server'[s])
    BY <1>1, <1>2, <2>3 DEF Tally, Idle
  <2>6. DecisionEntry(srv, server'[s])
    BY <2>3, <2>4 DEF DecisionEntry
  <2> QED BY <1>2, <1>3, <2>3, <2>5, <2>6, CountedStep
<1>5. CASE RecordDecision(s)
  <2>1. CASE c.arg \in LoadEntries(mem)
    BY <1>4, <1>5, <2>1 DEF RecordDecision
  <2>2. CASE c.arg \notin LoadEntries(mem)
    BY <1>1, <1>2, <1>3, <1>5, <2>2, PhaseCounted DEF RecordDecision, CallPhases
  <2> QED BY <2>1, <2>2
<1>6. CASE LookAtTail(s)
  <2> DEFINE d == [c EXCEPT !.phase = "write", !.nl = NeedsLeadingNl(mem)]
  <2>1. server' = [server EXCEPT ![s] = [srv EXCEPT !.call = d]]
    BY <1>6 DEF LookAtTail
  <2>2. d \in Pending /\ d.id = c.id /\ d.tool = c.tool /\ d.arg = c.arg
    BY <1>2 DEF Pending, NeedsLeadingNl
  <2> HIDE DEF d
  <2> QED BY <1>1, <1>2, <1>3, <2>1, <2>2, NilAssumption, CallCounted
<1>7. CASE WriteDecision(s)
  BY <1>4, <1>7 DEF WriteDecision
<1>8. CASE WriteDecisionFails(s)
  BY <1>1, <1>2, <1>3, <1>8, AnswerCounted DEF WriteDecisionFails
<1> QED BY <1>5, <1>6, <1>7, <1>8

LEMMA LogStepCounted ==
  ASSUME LedgerInv, DurableInv', NEW s \in Server,
         RecordFeedback(s) \/ AppendLine(s) \/ AppendNewline(s) \/ AppendFails(s)
  PROVE  LedgerInv'
<1> DEFINE srv == server[s]
           id == srv.call.id
           T == Tokens(1..MaxMsg)
<1>1. ~Idle(s) /\ (budget' = budget \/ AppendFails(s))
  BY DEF RecordFeedback, AppendLine, AppendNewline, AppendFails, Doing
<1>2. /\ SessionInv /\ SrvShape(srv) /\ srv.level \in Level \cup {Nil}
      /\ id \in 1..MaxMsg /\ log \in Seq(T)
  BY <1>1, BusyCounted
<1>3. budget'.msg = budget.msg
  <2>1. budget = [x \in {"msg", "tear"} |-> budget[x]]
    BY <1>2 DEF SessionInv
  <2> QED BY <1>1, <2>1 DEF AppendFails
<1>4. Rec(id) \in T /\ Nl \in T /\ Frag \in T
  BY <1>2 DEF Tokens
<1>5. log' \in Seq(T)
  <2> HIDE DEF T
  <2>1. ASSUME NEW cut \in Cut(<<Rec(id), Nl>>), log' = log \o cut PROVE log' \in Seq(T)
    <3> DEFINE run == <<Rec(id), Nl>>
    <3>1. run \in Seq(T) /\ cut \in Cut(run)
      BY <1>4
    <3> HIDE DEF run
    <3> QED BY <1>2, <1>4, <2>1, <3>1, CutSeq
  <2>2. \/ log' = log \/ log' = Append(log, Rec(id)) \/ log' = Append(log, Nl)
        \/ \E cut \in Cut(<<Rec(id), Nl>>) : log' = log \o cut
    BY DEF RecordFeedback, AppendLine, AppendNewline, AppendFails
  <2>3. \A x \in T : Append(log, x) \in Seq(T)
    BY <1>2
  <2>4. log' \in {log, Append(log, Rec(id)), Append(log, Nl)} => log' \in Seq(T)
    BY <1>2, <1>4, <2>3
  <2> QED BY <2>1, <2>2, <2>4
<1>6. ASSUME NEW ph \in {"line", "newline", "logged"}, Phase(s, ph) PROVE LedgerInv'
  BY <1>1, <1>3, <1>5, <1>6, PhaseCounted DEF CallPhases
<1>7. ASSUME NEW code, ToolAnswer(s, srv, code, Nil) PROVE LedgerInv'
  <2>1. Nil \in Bodies
    BY DEF Bodies
  <2> QED BY <1>1, <1>2, <1>3, <1>5, <1>7, <2>1, AnswerCounted
<1>8. CASE RecordFeedback(s)
  BY <1>6, <1>8 DEF RecordFeedback, StartAppend, Phase
<1>9. CASE AppendLine(s)
  BY <1>6, <1>9 DEF AppendLine
<1>10. CASE AppendNewline(s) \/ AppendFails(s)
  BY <1>6, <1>7, <1>10 DEF AppendNewline, AppendFails
<1> QED BY <1>8, <1>9, <1>10

LEMMA SearchStepCounted ==
  ASSUME LedgerInv, DurableInv', NEW s \in Server,
         \/ ResolveSource(s) \/ SearchCode(s) \/ GatherCodeHits(s) \/ WriteSearchEvent(s)
         \/ SearchKnowledge(s) \/ SearchBoth(s)
  PROVE  LedgerInv'
<1> DEFINE srv == server[s]
           c == srv.call
           e == [event |-> "search", id |-> Nil]
           logged == Log(srv, e)
           FoundIn(pools, notices) == [pools |-> pools, notices |-> notices, asked |-> c.arg]
<1>1. ~Idle(s) /\ c.tool = "context_search" /\ UNCHANGED <<log, budget>>
  BY DEF ResolveSource, SearchCode, GatherCodeHits, WriteSearchEvent, SearchKnowledge, SearchBoth, Doing
<1>2. /\ SessionInv /\ SrvShape(srv) /\ c \in Pending /\ srv.level \in Level \cup {Nil}
      /\ c.arg \in {"code", "knowledge", "both", "default"}
      /\ budget'.msg = budget.msg /\ log' \in Seq(Tokens(1..MaxMsg))
  BY <1>1, BusyCounted DEF CallOK
<1>3. ASSUME NEW pools \in SUBSET {"code", "know"}, NEW notices \in SUBSET {"code", "know", "guidance"}
      PROVE FoundIn(pools, notices) \in Bodies
  BY <1>2 DEF Bodies
<1>4. /\ SrvShape(logged) /\ logged.ledger = Append(srv.ledger, e) /\ logged.level = srv.level
      /\ logged.served = srv.served /\ logged.out = srv.out /\ logged.call = c
      /\ e \in Event /\ e.event # "decision"
  BY <1>2, LogFields DEF SrvFields, Event
<1>5. c.pools \subseteq {"code"} /\ c.notices \subseteq {"code"}
  BY <1>2 DEF Pending
<1> HIDE DEF logged, FoundIn
<1>6. ASSUME NEW d \in Pending, d.id = c.id, d.tool = c.tool, d.arg = c.arg,
             server' = [server EXCEPT ![s] = [srv EXCEPT !.call = d]]
      PROVE LedgerInv'
  BY <1>1, <1>2, <1>6, NilAssumption, CallCounted
<1>7. ASSUME NEW body \in Bodies, ToolAnswer(s, srv, "ok", body) PROVE LedgerInv'
  BY <1>1, <1>2, <1>7, AnswerCounted
<1>8. ASSUME StartAppend(s, [srv EXCEPT !.call.pools = @ \cup {"code"}]) PROVE LedgerInv'
  <2> DEFINE d == [c EXCEPT !.pools = @ \cup {"code"}, !.phase = "line"]
  <2>1. server' = [server EXCEPT ![s] = [srv EXCEPT !.call = d]]
    BY <1>2, <1>8 DEF StartAppend, SrvShape, SrvFields
  <2>2. d \in Pending /\ d.id = c.id /\ d.tool = c.tool /\ d.arg = c.arg
    BY <1>2 DEF Pending
  <2> HIDE DEF d
  <2> QED BY <1>6, <2>1, <2>2
<1>9. CASE ResolveSource(s)
  <2> DEFINE src == SourceOf(c.arg, stores)
             d == [c EXCEPT !.source = src, !.phase = IF src = "knowledge" THEN "know" ELSE "code"]
  <2>1. server' = [server EXCEPT ![s] = [srv EXCEPT !.call = d]]
    BY <1>9 DEF ResolveSource, SourceOf, IsPresent
  <2>2. src \in {"code", "knowledge", "both"}
    BY <1>2, SessionAssumption DEF SourceOf
  <2> HIDE DEF src
  <2>3. d \in Pending /\ d.id = c.id /\ d.tool = c.tool /\ d.arg = c.arg
    BY <1>2, <2>2 DEF Pending
  <2> HIDE DEF d
  <2> QED BY <1>6, <2>1, <2>3
<1>10. CASE SearchCode(s)
  <2>1. FoundIn({}, {"guidance"}) \in Bodies
    BY <1>3
  <2> QED BY <1>7, <1>8, <1>10, <2>1 DEF SearchCode, FoundIn
<1>11. CASE GatherCodeHits(s)
  <2> DEFINE told == IF stores.code = "corrupt" THEN {"code"} ELSE {}
             d == [c EXCEPT !.phase = "know", !.notices = told]
  <2>1. CASE stores.code = "ok"
    BY <1>8, <1>11, <2>1 DEF GatherCodeHits
  <2>2. CASE stores.code # "ok"
    <3>1. server' = [server EXCEPT ![s].call.phase = "know", ![s].call.notices = told] /\ told \in SUBSET {"code"}
      BY <1>11, <2>2 DEF GatherCodeHits
    <3> HIDE DEF told
    <3>2. server' = [server EXCEPT ![s] = [srv EXCEPT !.call = d]]
      BY <3>1
    <3>3. d \in Pending /\ d.id = c.id /\ d.tool = c.tool /\ d.arg = c.arg
      BY <1>2, <3>1 DEF Pending
    <3> HIDE DEF d
    <3> QED BY <1>6, <3>2, <3>3
  <2> QED BY <2>1, <2>2
<1>12. CASE WriteSearchEvent(s)
  <2> DEFINE new == [logged EXCEPT !.searches = @ + 1]
  <2>1. /\ SrvShape(new) /\ new.ledger = logged.ledger /\ new.level = logged.level
        /\ new.served = logged.served /\ new.out = logged.out /\ new.call = logged.call
    BY <1>4 DEF SrvShape, SrvFields
  <2>2. IF new.call.source = "code"
        THEN ToolAnswer(s, new, "ok", [pools |-> new.call.pools, notices |-> {}, asked |-> new.call.arg])
        ELSE server' = [server EXCEPT ![s] = [new EXCEPT !.call.phase = "know"]]
    BY <1>12 DEF WriteSearchEvent, logged
  <2> HIDE DEF new
  <2>3. CASE c.source = "code"
    <3>1. ToolAnswer(s, new, "ok", FoundIn(c.pools, {})) /\ FoundIn(c.pools, {}) \in Bodies
      BY <1>3, <1>4, <1>5, <2>1, <2>2, <2>3 DEF FoundIn
    <3> QED BY <1>1, <1>2, <1>4, <2>1, <3>1, AnswerCounted
  <2>4. CASE c.source # "code"
    <3> DEFINE d == [c EXCEPT !.phase = "know"]
    <3>1. server' = [server EXCEPT ![s] = [new EXCEPT !.call = d]]
      BY <1>4, <2>1, <2>2, <2>4
    <3>2. d \in Pending /\ d.id = c.id /\ d.tool = c.tool /\ d.arg = c.arg
      BY <1>2, NextPhase DEF CallPhases
    <3> HIDE DEF d
    <3> QED BY <1>1, <1>2, <1>4, <2>1, <3>1, <3>2, NilAssumption, CallCounted
  <2> QED BY <2>3, <2>4
<1>13. CASE SearchKnowledge(s)
  <2> DEFINE k == LoadKnowledgeHits(stores.know)
  <2>1. ToolAnswer(s, logged, "ok", FoundIn(k.pools, k.notices))
    BY <1>13 DEF SearchKnowledge, logged, FoundIn
  <2>2. FoundIn(k.pools, k.notices) \in Bodies
    BY <1>3 DEF LoadKnowledgeHits
  <2> QED BY <1>1, <1>2, <1>4, <2>1, <2>2, AnswerCounted
<1>14. CASE SearchBoth(s)
  <2> DEFINE k == LoadKnowledgeHits(stores.know)
             body == FoundIn(c.pools \cup k.pools, c.notices \cup k.notices)
  <2>1. ToolAnswer(s, srv, "ok", body)
    BY <1>14 DEF SearchBoth, FoundIn
  <2>2. body \in Bodies
    BY <1>3, <1>5 DEF LoadKnowledgeHits
  <2> HIDE DEF body
  <2> QED BY <1>7, <2>1, <2>2
<1> QED
  BY <1>9, <1>10, <1>11, <1>12, <1>13, <1>14

\* A new line is one more that may be served.
LEMMA CountGrows ==
  ASSUME NEW n \in Nat, NEW srv, SrvCounted(srv, n) PROVE SrvCounted(srv, n + 1)
  BY DEF SrvCounted, Counted

LEMMA ReceiveCounted ==
  ASSUME LedgerInv, DurableInv', NEW s \in Server, NEW form \in Form, NEW call \in Call, Receive(s, form, call)
  PROVE  LedgerInv'
<1> DEFINE id == budget.msg + 1
           awaits == CASE form \in {"blank", "notification"} -> <<>>
                       [] form = "bytes" -> <<Nil>>
                       [] OTHER -> <<id>>
           srv == [server[s] EXCEPT !.expect = @ \o awaits]
<1>1. /\ server[s].call = Nil /\ HandleLine(s, form, id, call, srv) /\ UNCHANGED log
      /\ budget' = [budget EXCEPT !.msg = id] /\ budget.msg < MaxMsg
  BY DEF Receive, Idle
<1>2. /\ SessionInv /\ SrvShape(server[s]) /\ budget.msg \in Nat /\ IsSeq(server[s].out)
      /\ budget = [x \in {"msg", "tear"} |-> budget[x]]
      /\ log' \in Seq(Tokens(1..MaxMsg))
      /\ \A t \in Server : SrvCounted(server[t], budget.msg)
  BY <1>1 DEF LedgerInv, DurableInv, SessionInv, SrvInv, AllAnswered, Answered
<1>3. budget'.msg = id /\ id \in Nat /\ id <= MaxMsg
  BY <1>1, <1>2, SessionAssumption
<1> HIDE DEF awaits
<1>4. /\ SrvShape(srv) /\ srv.call = Nil /\ srv.level = server[s].level /\ srv.ledger = server[s].ledger
      /\ srv.served = server[s].served /\ srv.out = server[s].out
  BY <1>1, <1>2 DEF SrvShape, SrvFields
<1> HIDE DEF srv
<1>5. SrvCounted(srv, id) /\ \A t \in Server : SrvCounted(server[t], id)
  <2>1. SrvCounted(srv, budget.msg)
    BY <1>1, <1>2, <1>4 DEF SrvCounted, Counted
  <2> QED BY <1>2, <2>1, CountGrows
<1>6. ASSUME SrvCounted(server'[s], id), \A t \in Server \ {s} : server'[t] = server[t] PROVE LedgerInv'
  BY <1>2, <1>3, <1>5, <1>6 DEF LedgerInv
<1>7. CASE form \in {"bytes", "invalid"}
  <2>1. PICK who, code : Answer(s, srv, Reply(who, code, Nil))
    BY <1>1, <1>7 DEF HandleLine
  <2> DEFINE reply == Reply(who, code, Nil)
  <2>2. /\ server'[s].out = Append(srv.out, reply) /\ server'[s].call = Nil
        /\ server'[s].level = srv.level /\ server'[s].ledger = srv.ledger /\ server'[s].served = srv.served
        /\ \A t \in Server \ {s} : server'[t] = server[t]
    BY <1>2, <1>4, <2>1, AnswerFields
  <2>3. Nil \in Bodies
    BY DEF Bodies
  <2>4. ~IsDecision(reply)
    BY <2>3, DecisionAssumption DEF IsDecision, Reply
  <2> HIDE DEF reply
  <2>5. Tally(srv, server'[s]) /\ Entry(srv, server'[s])
    BY <1>5, <2>2, <2>4 DEF Tally, Entry, SrvCounted, Counted
  <2>6. SrvCounted(server'[s], id)
    BY <1>2, <1>3, <1>4, <1>5, <2>5, StepCounted
  <2> QED BY <1>6, <2>2, <2>6
<1>8. CASE form \in {"blank", "notification"}
  <2>1. server' = [server EXCEPT ![s] = srv]
    BY <1>1, <1>8 DEF HandleLine
  <2>2. server'[s] = srv /\ \A t \in Server \ {s} : server'[t] = server[t]
    BY <1>2, <2>1 DEF SessionInv
  <2> QED BY <1>5, <1>6, <2>2
<1>9. CASE form = "request"
  <2> DEFINE c == NewCall(id, call)
  <2>1. server' = [server EXCEPT ![s] = [srv EXCEPT !.call = c]]
    BY <1>1, <1>9 DEF HandleLine
  <2>2. c \in Pending /\ c.id = id /\ c.tool = call.tool /\ c.arg = call.arg
    BY <1>3, NewCallOK DEF NewCall
  <2>3. call.tool = "set_output_compression" => call.arg \in Level
    BY DEF Call
  <2> HIDE DEF c
  <2>4. /\ server'[s].call = c /\ \A f \in SrvFields \ {"call"} : server'[s][f] = srv[f]
        /\ \A t \in Server \ {s} : server'[t] = server[t]
    BY <1>2, <1>4, <2>1, CallFields
  <2>5. /\ server'[s].level = srv.level /\ server'[s].served = srv.served
        /\ server'[s].ledger = srv.ledger /\ server'[s].out = srv.out
    BY <2>4 DEF SrvFields
  <2>6. srv.served + 1 <= id /\ srv.served \in Nat /\ srv.level \in Level \cup {Nil} /\ id \in 1..id
    BY <1>1, <1>2, <1>3, <1>4 DEF SrvCounted, Counted
  <2>7. Counted(server'[s], id)
    BY <2>2, <2>3, <2>4, <2>5, <2>6, NilAssumption DEF Counted
  <2>8. SrvCounted(server'[s], id)
    BY <1>5, <2>5, <2>7 DEF SrvCounted
  <2> QED BY <1>6, <2>4, <2>8
<1> QED BY <1>7, <1>8, <1>9 DEF Form

LEMMA FreshCounted == ASSUME NEW n \in Nat PROVE SrvCounted(Fresh, n)
  BY EmptyLedger DEF Fresh, SrvCounted, Counted

LEMMA LedgerStepInv == LedgerInv /\ [SessionNext]_sessionVars => LedgerInv'
<1> SUFFICES ASSUME LedgerInv, [SessionNext]_sessionVars PROVE LedgerInv'
  OBVIOUS
<1>1. DurableInv'
  BY DurableStepInv DEF LedgerInv
<1>2. ASSUME NEW s \in Server, SessionStep(s) PROVE LedgerInv'
  BY <1>1, <1>2, AnswerStepCounted, MemoryStepCounted, LogStepCounted, SearchStepCounted DEF SessionStep
<1>3. ASSUME NEW s \in Server, Kill(s) PROVE LedgerInv'
  <2>1. /\ server' = [server EXCEPT ![s] = Fresh] /\ UNCHANGED log
        /\ budget' = [budget EXCEPT !.tear = @ + 1]
    BY <1>3 DEF Kill
  <2>2. SessionInv /\ budget.msg \in Nat /\ budget = [x \in {"msg", "tear"} |-> budget[x]]
    BY DEF LedgerInv, DurableInv, SessionInv
  <2>3. server'[s] = Fresh /\ \A t \in Server \ {s} : server'[t] = server[t]
    BY <2>1, <2>2 DEF SessionInv
  <2>4. budget'.msg = budget.msg /\ log' \in Seq(Tokens(1..MaxMsg))
    BY <2>1, <2>2 DEF LedgerInv
  <2> QED BY <1>1, <2>2, <2>3, <2>4, FreshCounted, OneCounted
<1>4. ASSUME NEW s \in Server, NEW form \in Form, NEW call \in Call, Receive(s, form, call) PROVE LedgerInv'
  BY <1>1, <1>4, ReceiveCounted
<1>5. CASE UNCHANGED sessionVars
  BY <1>1, <1>5 DEF sessionVars, LedgerInv
<1> QED
  BY <1>2, <1>3, <1>4, <1>5 DEF SessionNext

\* What a server acknowledged is there for the next one, but for the appends that met a torn line in the
\* ways the parts name, and the digest tells each decision the session was told of once, with counts that
\* add up: for any number of servers, decisions, lines, torn appends and kills.
THEOREM AppendsAreKept == SessionSpec => []AppendsSurvive
<1>1. SessionInit => LedgerInv
  <2> SUFFICES ASSUME SessionInit PROVE LedgerInv
    OBVIOUS
  <2>1. MemOK
    BY DEF SessionInit, MemOK
  <2>2. \A s \in Server : ~BeforeNewline(server[s])
    BY DEF SessionInit, Fresh, BeforeNewline
  <2>3. LogOK
    BY <2>2 DEF SessionInit, LogOK
  <2>4. budget.msg = 0 /\ \A s \in Server : SrvCounted(server[s], budget.msg)
    BY FreshCounted DEF SessionInit
  <2>5. log \in Seq(Tokens(1..MaxMsg))
    BY DEF SessionInit
  <2> QED BY <2>1, <2>3, <2>4, <2>5, SessionInitInv, SessionAssumption DEF DurableInv, LedgerInv
<1>2. LedgerInv => AppendsSurvive
  <2> SUFFICES ASSUME LedgerInv PROVE AppendsSurvive
    OBVIOUS
  <2>1. log \in Seq(Tokens(Nat)) /\ <<>> \in Seq(Tokens(Nat))
    BY DEF LedgerInv, DurableInv, LogOK
  <2>2. \A x \in acked.log \ acked.merged : x \in LinesRead(log)
    BY <2>1, EndedKeeps DEF LedgerInv, DurableInv, LogOK
  <2>3. AckedDecisionRecalled /\ LoggedEventRead
    BY <2>2 DEF LedgerInv, DurableInv, MemOK, AckedDecisionRecalled, LoggedEventRead, LoadEntries
  <2>4. LinesRead(mem) \subseteq Decision /\ LinesRead(log) \subseteq 1..MaxMsg
    BY LinesWithin DEF LedgerInv, DurableInv, MemOK
  <2>5. SessionTypeOK
    <3>1. ASSUME NEW s \in Server PROVE server[s].level \in Level \cup {Nil} /\ server[s].served \in 0..MaxMsg
      <4>1. /\ Counted(server[s], budget.msg) /\ budget.msg \in Nat /\ budget.msg <= MaxMsg /\ MaxMsg \in Nat
        BY SessionAssumption DEF LedgerInv, DurableInv, SessionInv, SrvCounted
      <4> QED BY <4>1 DEF Counted
    <3> QED BY <2>4, <3>1 DEF SessionTypeOK, LedgerInv, DurableInv, SessionInv
  <2>6. DigestTellsDecisions
    <3>1. ASSUME NEW s \in Server PROVE LedgerOK(server[s].ledger, Told(server[s].out))
      BY DEF LedgerInv, SrvCounted
    <3> QED BY <3>1, DigestIs DEF DigestTellsDecisions, Told, IsDecision
  <2> QED BY <2>3, <2>5, <2>6 DEF AppendsSurvive
<1> QED
  BY <1>1, <1>2, LedgerStepInv, PTL DEF SessionSpec
-----------------------------------------------------------------------------
(***************************************************************************)
(* One file written by atomic_write.                                       *)
(***************************************************************************)

Value == Content \cup {NoContent}
File == [v : Value, state : {"none", "part", "written", "synced"}, mode : {"none", "new", "old"}]
Pc == {"idle", "create", "write", "sync", "mode", "rename", "ok", "err"}

FileTypeOK ==
  /\ dest \in File
  /\ temps \in [Name -> File]
  /\ seq \in [Proc -> 0..MaxSeq]
  /\ thread \in [Thread -> [pc : Pc, v : Value, tmp : Name \cup {<<>>}]]
  /\ past \in SUBSET Value
\* A name is one of its process' numbers so far, and no two threads share one.
NamesDiffer ==
  \A t \in Thread : thread[t].pc # "idle" =>
    /\ thread[t].tmp \in Name /\ thread[t].tmp[1] = ProcOf[t] /\ thread[t].tmp[2] < seq[ProcOf[t]]
    /\ thread[t].v \in Content
    /\ \A u \in Thread : u # t /\ thread[u].pc # "idle" => thread[u].tmp # thread[t].tmp
IdleWritesNothing == \A t \in Thread : thread[t].pc = "idle" => thread[t].v = NoContent
\* What is renamed is all of what the thread was given, on the disk.
SyncedBeforeRename ==
  \A t \in Thread :
    /\ thread[t].pc \in {"write", "sync", "mode", "rename"} => temps[thread[t].tmp].v = thread[t].v
    /\ thread[t].pc \in {"mode", "rename"} => temps[thread[t].tmp].state = "synced"
DestWhole == dest.state \in {"none", "synced"} /\ dest.v \in past
FileInv == FileTypeOK /\ NamesDiffer /\ IdleWritesNothing /\ SyncedBeforeRename /\ DestWhole
-----------------------------------------------------------------------------
\* The first state has no write under way and a target that is missing or whole.
LEMMA FileInitInv == FileInit => FileInv
  BY FileAssumption DEF FileInit, FileInv, FileTypeOK, NamesDiffer, IdleWritesNothing, SyncedBeforeRename,
     DestWhole, FullFile, Missing, NoWrite, File, Pc, Value, Name

\* No step of a thread, kill or power loss breaks the invariant.
LEMMA FileStepInv == FileInv /\ [FileNext]_fileVars => FileInv'
<1> SUFFICES ASSUME FileInv, [FileNext]_fileVars PROVE FileInv'
  OBVIOUS
<1> USE FileAssumption DEF FileInv
<1>1. ASSUME NEW t \in Thread, NEW v \in Content, PickName(t, v) PROVE FileInv'
  <2>1. FileTypeOK'
    BY <1>1 DEF PickName, FileTypeOK, FileAt, Name, Pc, Value
  <2>2. NamesDiffer'
    BY <1>1 DEF PickName, FileTypeOK, NamesDiffer, FileAt, Name
  <2>3. IdleWritesNothing'
    BY <1>1 DEF PickName, FileTypeOK, IdleWritesNothing, NamesDiffer, FileAt
  <2>4. SyncedBeforeRename'
    BY <1>1 DEF PickName, FileTypeOK, NamesDiffer, SyncedBeforeRename, FileAt, Name
  <2>5. DestWhole'
    BY <1>1 DEF PickName, DestWhole
  <2> QED BY <2>1, <2>2, <2>3, <2>4, <2>5
<1>2. ASSUME NEW t \in Thread, CreateTemp(t) PROVE FileInv'
  <2>0. thread[t].tmp \in Name /\ Temp(t) \in File /\ thread[t] \in [pc : Pc, v : Value, tmp : Name \cup {<<>>}]
    BY <1>2 DEF CreateTemp, FileTypeOK, NamesDiffer, FileAt, Temp
  <2>1. FileTypeOK'
    <3>1. temps' \in [Name -> File] /\ dest' \in File /\ past' \in SUBSET Value
      BY <1>2, <2>0 DEF CreateTemp, FileTypeOK, SetTemp, Temp, Missing, File, Value
    <3>2. thread' \in [Thread -> [pc : Pc, v : Value, tmp : Name \cup {<<>>}]]
      BY <1>2, <2>0 DEF CreateTemp, FileTypeOK, FileGo, Pc
    <3> QED BY <1>2, <3>1, <3>2 DEF CreateTemp, FileTypeOK
  <2>2. NamesDiffer'
    BY <1>2 DEF CreateTemp, FileTypeOK, NamesDiffer, FileAt, FileGo
  <2>3. IdleWritesNothing'
    BY <1>2 DEF CreateTemp, FileTypeOK, IdleWritesNothing, NamesDiffer, FileAt, FileGo
  <2>4. SyncedBeforeRename'
    BY <1>2 DEF CreateTemp, FileTypeOK, NamesDiffer, SyncedBeforeRename, FileAt, FileGo, Temp, SetTemp
  <2>5. DestWhole'
    BY <1>2 DEF CreateTemp, DestWhole
  <2> QED BY <2>1, <2>2, <2>3, <2>4, <2>5
<1>3. ASSUME NEW t \in Thread, WriteAll(t) PROVE FileInv'
  <2>0. thread[t].tmp \in Name /\ Temp(t) \in File /\ thread[t] \in [pc : Pc, v : Value, tmp : Name \cup {<<>>}]
    BY <1>3 DEF WriteAll, FileTypeOK, NamesDiffer, FileAt, Temp
  <2>1. FileTypeOK'
    <3>1. temps' \in [Name -> File] /\ dest' \in File /\ past' \in SUBSET Value
      BY <1>3, <2>0 DEF WriteAll, FileTypeOK, SetTemp, Temp, Missing, File, Value
    <3>2. thread' \in [Thread -> [pc : Pc, v : Value, tmp : Name \cup {<<>>}]]
      BY <1>3, <2>0 DEF WriteAll, FileTypeOK, FileGo, Pc
    <3> QED BY <1>3, <3>1, <3>2 DEF WriteAll, FileTypeOK
  <2>2. NamesDiffer'
    BY <1>3 DEF WriteAll, FileTypeOK, NamesDiffer, FileAt, FileGo
  <2>3. IdleWritesNothing'
    BY <1>3 DEF WriteAll, FileTypeOK, IdleWritesNothing, NamesDiffer, FileAt, FileGo
  <2>4. SyncedBeforeRename'
    BY <1>3 DEF WriteAll, FileTypeOK, NamesDiffer, SyncedBeforeRename, FileAt, FileGo, Temp, SetTemp
  <2>5. DestWhole'
    BY <1>3 DEF WriteAll, DestWhole
  <2> QED BY <2>1, <2>2, <2>3, <2>4, <2>5
<1>4. ASSUME NEW t \in Thread, SyncAll(t) PROVE FileInv'
  <2>0. thread[t].tmp \in Name /\ Temp(t) \in File /\ thread[t] \in [pc : Pc, v : Value, tmp : Name \cup {<<>>}]
    BY <1>4 DEF SyncAll, FileTypeOK, NamesDiffer, FileAt, Temp
  <2>1. FileTypeOK'
    <3>1. temps' \in [Name -> File] /\ dest' \in File /\ past' \in SUBSET Value
      BY <1>4, <2>0 DEF SyncAll, FileTypeOK, SetTemp, Temp, Missing, File, Value
    <3>2. thread' \in [Thread -> [pc : Pc, v : Value, tmp : Name \cup {<<>>}]]
      BY <1>4, <2>0 DEF SyncAll, FileTypeOK, FileGo, Pc
    <3> QED BY <1>4, <3>1, <3>2 DEF SyncAll, FileTypeOK
  <2>2. NamesDiffer'
    BY <1>4 DEF SyncAll, FileTypeOK, NamesDiffer, FileAt, FileGo
  <2>3. IdleWritesNothing'
    BY <1>4 DEF SyncAll, FileTypeOK, IdleWritesNothing, NamesDiffer, FileAt, FileGo
  <2>4. SyncedBeforeRename'
    BY <1>4 DEF SyncAll, FileTypeOK, NamesDiffer, SyncedBeforeRename, FileAt, FileGo, Temp, SetTemp, File
  <2>5. DestWhole'
    BY <1>4 DEF SyncAll, DestWhole
  <2> QED BY <2>1, <2>2, <2>3, <2>4, <2>5
<1>5. ASSUME NEW t \in Thread, CarryMode(t) PROVE FileInv'
  <2>0. thread[t].tmp \in Name /\ Temp(t) \in File /\ thread[t] \in [pc : Pc, v : Value, tmp : Name \cup {<<>>}]
    BY <1>5 DEF CarryMode, FileTypeOK, NamesDiffer, FileAt, Temp
  <2>1. FileTypeOK'
    <3>1. temps' \in [Name -> File] /\ dest' \in File /\ past' \in SUBSET Value
      BY <1>5, <2>0, SMTT(30) DEF CarryMode, FileTypeOK, SetTemp, Temp, Missing, File, Value
    <3>2. thread' \in [Thread -> [pc : Pc, v : Value, tmp : Name \cup {<<>>}]]
      BY <1>5, <2>0 DEF CarryMode, FileTypeOK, FileGo, Pc
    <3> QED BY <1>5, <3>1, <3>2 DEF CarryMode, FileTypeOK
  <2>2. NamesDiffer'
    BY <1>5 DEF CarryMode, FileTypeOK, NamesDiffer, FileAt, FileGo
  <2>3. IdleWritesNothing'
    BY <1>5 DEF CarryMode, FileTypeOK, IdleWritesNothing, NamesDiffer, FileAt, FileGo
  <2>4. SyncedBeforeRename'
    BY <1>5 DEF CarryMode, FileTypeOK, NamesDiffer, SyncedBeforeRename, FileAt, FileGo, Temp, SetTemp, File
  <2>5. DestWhole'
    BY <1>5 DEF CarryMode, DestWhole
  <2> QED BY <2>1, <2>2, <2>3, <2>4, <2>5
<1>6. ASSUME NEW t \in Thread, RenameOver(t) PROVE FileInv'
  <2>0. thread[t].tmp \in Name /\ Temp(t) \in File /\ thread[t] \in [pc : Pc, v : Value, tmp : Name \cup {<<>>}]
    BY <1>6 DEF RenameOver, FileTypeOK, NamesDiffer, FileAt, Temp
  <2>1. FileTypeOK'
    <3>1. temps' \in [Name -> File] /\ dest' \in File /\ past' \in SUBSET Value
      BY <1>6, <2>0 DEF RenameOver, FileTypeOK, SetTemp, Temp, Missing, File, Value
    <3>2. thread' \in [Thread -> [pc : Pc, v : Value, tmp : Name \cup {<<>>}]]
      BY <1>6, <2>0 DEF RenameOver, FileTypeOK, FileGo, Pc
    <3> QED BY <1>6, <3>1, <3>2 DEF RenameOver, FileTypeOK
  <2>2. NamesDiffer'
    BY <1>6 DEF RenameOver, FileTypeOK, NamesDiffer, FileAt, FileGo
  <2>3. IdleWritesNothing'
    BY <1>6 DEF RenameOver, FileTypeOK, IdleWritesNothing, NamesDiffer, FileAt, FileGo
  <2>4. SyncedBeforeRename'
    BY <1>6 DEF RenameOver, FileTypeOK, NamesDiffer, SyncedBeforeRename, FileAt, FileGo, SetTemp
  <2>5. DestWhole'
    BY <1>6 DEF RenameOver, DestWhole, FileTypeOK, SyncedBeforeRename, FileAt, Temp, File
  <2> QED BY <2>1, <2>2, <2>3, <2>4, <2>5
<1>7. ASSUME NEW t \in Thread, FailWrite(t) PROVE FileInv'
  <2>0. thread[t].tmp \in Name /\ Temp(t) \in File /\ thread[t] \in [pc : Pc, v : Value, tmp : Name \cup {<<>>}]
    BY <1>7 DEF FailWrite, FileTypeOK, NamesDiffer, FileAt, Temp
  <2>1. FileTypeOK'
    <3>1. temps' \in [Name -> File]
      <4>1. CASE SetTemp(t, Missing)
        BY <2>0, <4>1 DEF FileTypeOK, SetTemp, Missing, File, Value
      <4>2. CASE UNCHANGED temps
        BY <4>2 DEF FileTypeOK
      <4> QED BY <1>7, <4>1, <4>2 DEF FailWrite
    <3>2. thread' \in [Thread -> [pc : Pc, v : Value, tmp : Name \cup {<<>>}]]
      BY <1>7, <2>0 DEF FailWrite, FileTypeOK, FileGo, Pc
    <3> QED BY <1>7, <3>1, <3>2 DEF FailWrite, FileTypeOK
  <2>2. NamesDiffer'
    BY <1>7 DEF FailWrite, FileTypeOK, NamesDiffer, FileGo
  <2>3. IdleWritesNothing'
    BY <1>7 DEF FailWrite, FileTypeOK, IdleWritesNothing, NamesDiffer, FileGo
  <2>4. SyncedBeforeRename'
    BY <1>7, SMTT(30) DEF FailWrite, FileTypeOK, NamesDiffer, SyncedBeforeRename, FileGo, SetTemp
  <2>5. DestWhole'
    BY <1>7 DEF FailWrite, DestWhole
  <2> QED BY <2>1, <2>2, <2>3, <2>4, <2>5
<1>8. ASSUME NEW t \in Thread, ReturnWrite(t) PROVE FileInv'
  <2>1. FileTypeOK'
    BY <1>8 DEF ReturnWrite, FileTypeOK, NoWrite, Pc, Value
  <2>2. NamesDiffer'
    BY <1>8 DEF ReturnWrite, FileTypeOK, NamesDiffer, NoWrite
  <2>3. IdleWritesNothing'
    BY <1>8 DEF ReturnWrite, FileTypeOK, IdleWritesNothing, NamesDiffer, NoWrite
  <2>4. SyncedBeforeRename'
    BY <1>8 DEF ReturnWrite, FileTypeOK, NamesDiffer, SyncedBeforeRename, NoWrite
  <2>5. DestWhole'
    BY <1>8 DEF ReturnWrite, DestWhole
  <2> QED BY <2>1, <2>2, <2>3, <2>4, <2>5
<1>9. ASSUME NEW p \in Proc, KillProcess(p) PROVE FileInv'
  <2>1. FileTypeOK'
    BY <1>9 DEF KillProcess, FileTypeOK, NoWrite, Pc, Value
  <2>2. NamesDiffer'
    BY <1>9 DEF KillProcess, FileTypeOK, NamesDiffer, NoWrite
  <2>3. IdleWritesNothing'
    BY <1>9 DEF KillProcess, FileTypeOK, IdleWritesNothing, NamesDiffer, NoWrite
  <2>4. SyncedBeforeRename'
    BY <1>9 DEF KillProcess, FileTypeOK, NamesDiffer, SyncedBeforeRename, NoWrite
  <2>5. DestWhole'
    BY <1>9 DEF KillProcess, DestWhole
  <2> QED BY <2>1, <2>2, <2>3, <2>4, <2>5
<1>10. ASSUME LosePower PROVE FileInv'
  <2>1. FileTypeOK'
    <3>1. temps' \in [Name -> File]
      BY <1>10 DEF LosePower, FileTypeOK, File
    <3>2. dest' \in File
      BY <1>10 DEF LosePower, FileTypeOK, FullFile, Missing, File, Value
    <3>3. thread' \in [Thread -> [pc : Pc, v : Value, tmp : Name \cup {<<>>}]] /\ seq' \in [Proc -> 0..MaxSeq]
      BY <1>10 DEF LosePower, NoWrite, Pc, Value
    <3> QED BY <1>10, <3>1, <3>2, <3>3 DEF LosePower, FileTypeOK
  <2>2. NamesDiffer'
    BY <1>10 DEF LosePower, FileTypeOK, NamesDiffer, NoWrite
  <2>3. IdleWritesNothing'
    BY <1>10 DEF LosePower, FileTypeOK, IdleWritesNothing, NamesDiffer, NoWrite
  <2>4. SyncedBeforeRename'
    BY <1>10 DEF LosePower, FileTypeOK, NamesDiffer, SyncedBeforeRename, NoWrite
  <2>5. DestWhole'
    BY <1>10, SMTT(60) DEF LosePower, DestWhole, FileTypeOK, File, FullFile, Missing
  <2> QED BY <2>1, <2>2, <2>3, <2>4, <2>5
<1>11. ASSUME UNCHANGED fileVars PROVE FileInv'
  BY <1>11 DEF fileVars, FileTypeOK, NamesDiffer, IdleWritesNothing, SyncedBeforeRename, DestWhole
<1> QED BY <1>1, <1>2, <1>3, <1>4, <1>5, <1>6, <1>7, <1>8, <1>9, <1>10, <1>11 DEF FileNext, ThreadStep

-----------------------------------------------------------------------------
\* Whatever fails, is killed or loses power, the file that atomic_write replaces is missing or
\* holds all bytes of a content it was given, and what a thread renames is synced.
THEOREM FileInvariant == FileSpec => []FileInv
<1>1. FileInit => FileInv
  BY FileInitInv
<1>2. FileInv /\ [FileNext]_fileVars => FileInv'
  BY FileStepInv
<1> QED BY <1>1, <1>2, PTL DEF FileSpec

\* A first state of the files is one of the register.
LEMMA RegisterInit == FileInit => Register!Init
<1> SUFFICES ASSUME FileInit PROVE Register!Init
  OBVIOUS
<1>1. PICK c \in Content \cup {NoContent} : past = {c} /\ dest = IF c = NoContent THEN Missing ELSE FullFile(c)
  BY DEF FileInit
<1>2. dest.state # "part" /\ dest.v = c
  BY <1>1 DEF FullFile, Missing
<1>3. [t \in Thread |-> [v |-> thread[t].v, done |-> thread[t].pc = "ok"]] = [t \in Thread |-> Register!NoCall]
  BY DEF FileInit, NoWrite, Register!NoCall
<1> QED BY <1>1, <1>2, <1>3 DEF Register!Init

\* Every step is one of the register or leaves it as it is.
LEMMA RegisterStep == FileInv /\ FileInv' /\ [FileNext]_fileVars => [Register!Next]_(Register!regVars)
<1> SUFFICES ASSUME FileInv, FileInv', [FileNext]_fileVars PROVE [Register!Next]_(Register!regVars)
  OBVIOUS
<1> DEFINE val == IF dest.state = "part" THEN Torn ELSE dest.v
           calls == [t \in Thread |-> [v |-> thread[t].v, done |-> thread[t].pc = "ok"]]
<1>0. val = dest.v /\ val' = dest'.v
  BY DEF FileInv, DestWhole
<1> USE FileAssumption DEF FileInv
<1>1. ASSUME NEW t \in Thread, NEW v \in Content, PickName(t, v) PROVE [Register!Next]_(Register!regVars)
  <2>1. Register!Call(t, v)
    BY <1>0, <1>1 DEF PickName, FileAt, FileTypeOK, IdleWritesNothing, Register!Call, Register!NoCall
  <2> QED BY <2>1 DEF Register!Next
<1>2. ASSUME NEW t \in Thread, CreateTemp(t) PROVE [Register!Next]_(Register!regVars)
  <2>1. UNCHANGED <<dest, past, calls>>
    BY <1>2 DEF CreateTemp, FileAt, FileGo, FileTypeOK
  <2> QED BY <1>0, <2>1 DEF Register!regVars
<1>3. ASSUME NEW t \in Thread, WriteAll(t) PROVE [Register!Next]_(Register!regVars)
  <2>1. UNCHANGED <<dest, past, calls>>
    BY <1>3 DEF WriteAll, FileAt, FileGo, FileTypeOK
  <2> QED BY <1>0, <2>1 DEF Register!regVars
<1>4. ASSUME NEW t \in Thread, SyncAll(t) PROVE [Register!Next]_(Register!regVars)
  <2>1. UNCHANGED <<dest, past, calls>>
    BY <1>4 DEF SyncAll, FileAt, FileGo, FileTypeOK
  <2> QED BY <1>0, <2>1 DEF Register!regVars
<1>5. ASSUME NEW t \in Thread, CarryMode(t) PROVE [Register!Next]_(Register!regVars)
  <2>1. UNCHANGED <<dest, past, calls>>
    BY <1>5 DEF CarryMode, FileAt, FileGo, FileTypeOK
  <2> QED BY <1>0, <2>1 DEF Register!regVars
<1>6. ASSUME NEW t \in Thread, FailWrite(t) PROVE [Register!Next]_(Register!regVars)
  <2>1. UNCHANGED <<dest, past, calls>>
    BY <1>6 DEF FailWrite, FileAt, FileGo, FileTypeOK
  <2> QED BY <1>0, <2>1 DEF Register!regVars
<1>7. ASSUME NEW t \in Thread, RenameOver(t) PROVE [Register!Next]_(Register!regVars)
  <2>1. calls[t] # Register!NoCall /\ ~calls[t].done
    BY <1>7 DEF RenameOver, FileAt, NamesDiffer, Register!NoCall
  <2>2. val' = calls[t].v /\ past' = past \cup {calls[t].v}
    BY <1>0, <1>7 DEF RenameOver, FileAt, SyncedBeforeRename, Temp
  <2>3. calls' = [calls EXCEPT ![t].done = TRUE]
    BY <1>7 DEF RenameOver, FileGo, FileTypeOK
  <2>4. Register!Commit(t)
    BY <2>1, <2>2, <2>3 DEF Register!Commit
  <2> QED BY <2>4 DEF Register!Next
<1>8. ASSUME NEW t \in Thread, ReturnWrite(t) PROVE [Register!Next]_(Register!regVars)
  <2>1. Register!Return(t)
    BY <1>0, <1>8, ZenonT(60) DEF ReturnWrite, NoWrite, FileTypeOK, NamesDiffer, Register!Return, Register!NoCall
  <2> QED BY <2>1 DEF Register!Next
<1>9. ASSUME NEW p \in Proc, KillProcess(p) PROVE [Register!Next]_(Register!regVars)
  <2>1. Register!Kill({t \in Thread : ProcOf[t] = p})
    BY <1>0, <1>9 DEF KillProcess, NoWrite, FileTypeOK, Register!Kill, Register!NoCall
  <2> QED BY <2>1 DEF Register!Next
<1>10. ASSUME LosePower PROVE [Register!Next]_(Register!regVars)
  <2>1. Register!PowerLoss
    BY <1>0, <1>10 DEF LosePower, NoWrite, DestWhole, Register!PowerLoss, Register!NoCall
  <2> QED BY <2>1 DEF Register!Next
<1>11. ASSUME UNCHANGED fileVars PROVE [Register!Next]_(Register!regVars)
  BY <1>11 DEF fileVars, Register!regVars
<1> QED BY <1>1, <1>2, <1>3, <1>4, <1>5, <1>6, <1>7, <1>8, <1>9, <1>10, <1>11 DEF FileNext, ThreadStep

\* atomic_write, with all its calls, failures, kills and power losses, is a write in one step.
THEOREM FileImplementsRegister == FileSpec => WritesAtomically
<1>1. FileInit => Register!Init
  BY RegisterInit
<1>2. FileInv /\ FileInv' /\ [FileNext]_fileVars => [Register!Next]_(Register!regVars)
  BY RegisterStep
<1> QED BY <1>1, <1>2, FileInvariant, PTL DEF FileSpec, WritesAtomically, Register!Spec
-----------------------------------------------------------------------------
\* Besides ModeKept: the target stays there, and a thread about to rename has given its file the mode.
ModeInv ==
  NoContent \notin past =>
    /\ dest.mode = "old" /\ dest.state # "none"
    /\ \A t \in Thread : thread[t].pc = "rename" => temps[thread[t].tmp].mode = "old"

\* With the invariant, each step keeps the mode.
LEMMA ModeStep == FileInv /\ ModeInv /\ [FileNext]_fileVars => ModeInv'
<1> SUFFICES ASSUME FileInv, ModeInv, [FileNext]_fileVars PROVE ModeInv'
  OBVIOUS
<1> USE FileAssumption DEF FileInv, ModeInv
<1>1. ASSUME NEW t \in Thread, NEW v \in Content, PickName(t, v) PROVE ModeInv'
  BY <1>1 DEF PickName, FileAt, FileTypeOK
<1>2. ASSUME NEW t \in Thread, CreateTemp(t) PROVE ModeInv'
  BY <1>2 DEF CreateTemp, FileAt, FileGo, FileTypeOK, NamesDiffer, Temp, SetTemp, File
<1>3. ASSUME NEW t \in Thread, WriteAll(t) PROVE ModeInv'
  BY <1>3 DEF WriteAll, FileAt, FileGo, FileTypeOK, NamesDiffer, Temp, SetTemp, File
<1>4. ASSUME NEW t \in Thread, SyncAll(t) PROVE ModeInv'
  BY <1>4 DEF SyncAll, FileAt, FileGo, FileTypeOK, NamesDiffer, Temp, SetTemp, File
<1>5. ASSUME NEW t \in Thread, CarryMode(t) PROVE ModeInv'
  BY <1>5 DEF CarryMode, FileAt, FileGo, FileTypeOK, NamesDiffer, Temp, SetTemp, File
<1>6. ASSUME NEW t \in Thread, RenameOver(t) PROVE ModeInv'
  BY <1>6 DEF RenameOver, FileAt, FileGo, FileTypeOK, NamesDiffer, Temp, SetTemp, File, SyncedBeforeRename
<1>7. ASSUME NEW t \in Thread, FailWrite(t) PROVE ModeInv'
  BY <1>7 DEF FailWrite, FileGo, FileTypeOK, NamesDiffer, SetTemp
<1>8. ASSUME NEW t \in Thread, ReturnWrite(t) PROVE ModeInv'
  BY <1>8 DEF ReturnWrite, NoWrite, FileTypeOK
<1>9. ASSUME NEW p \in Proc, KillProcess(p) PROVE ModeInv'
  BY <1>9 DEF KillProcess, NoWrite, FileTypeOK
<1>10. ASSUME LosePower PROVE ModeInv'
  BY <1>10 DEF LosePower, NoWrite, FileTypeOK, File, DestWhole, FullFile
<1>11. ASSUME UNCHANGED fileVars PROVE ModeInv'
  BY <1>11 DEF fileVars
<1> QED BY <1>1, <1>2, <1>3, <1>4, <1>5, <1>6, <1>7, <1>8, <1>9, <1>10, <1>11 DEF FileNext, ThreadStep

\* The permissions that a user gave the file outlive every write of it.
THEOREM ModeIsKept == FileSpec => []ModeKept
<1>1. FileInit => ModeInv
  BY FileAssumption DEF FileInit, ModeInv, FullFile, Missing, NoWrite
<1>2. FileInv /\ ModeInv /\ [FileNext]_fileVars => ModeInv'
  BY ModeStep
<1>3. ModeInv => ModeKept
  BY DEF ModeInv, ModeKept
<1> QED BY <1>1, <1>2, <1>3, FileInvariant, PTL DEF FileSpec

(***************************************************************************)
(* Answers: what is folded over a list, and what it sums to.               *)
(***************************************************************************)

\* A fold over a sequence, read off a function on sets of positions, goes step by step.
OnIntervals(h, e, step, n, X) ==
  h[{}] = e /\ \A i \in 1..n : h[1..(i - 1)] \in X => h[1..i] = step[<<i, h[1..(i - 1)]>>]
Follows(f, h, e, step, n) == Stepwise(f, e, step, n) /\ f[n] = h[1..n]

\* A fold over a list is reached in as many steps as the list is long.
LEMMA FoldSteps ==
  ASSUME NEW n \in Nat, NEW X, NEW e \in X, NEW step \in [(1..n) \X X -> X], NEW h, OnIntervals(h, e, step, n, X)
  PROVE  \E f \in [0..n -> X] : Follows(f, h, e, step, n)
<1>0. h[{}] = e /\ \A i \in 1..n : h[1..(i - 1)] \in X => h[1..i] = step[<<i, h[1..(i - 1)]>>]
  BY DEF OnIntervals
<1> DEFINE f == [i \in 0..n |-> h[1..i]]
           T == {i \in 0..n : f[i] \in X}
<1>1. f[0] = e
  <2>1. 1..0 = {}
    OBVIOUS
  <2> QED BY <1>0, <2>1
<1>2. \A i \in 1..n : f[i] = h[1..i] /\ f[i - 1] = h[1..(i - 1)]
  OBVIOUS
<1> HIDE DEF f
<1>3. 0 \in T
  BY <1>1
<1>4. \A i \in 0..(n - 1) : i \in T => i + 1 \in T
  <2> TAKE i \in 0..(n - 1)
  <2> HAVE i \in T
  <2>1. i + 1 \in 1..n /\ (i + 1) - 1 = i /\ i + 1 \in 0..n /\ f[i] \in X
    OBVIOUS
  <2>2. f[i + 1] = step[<<i + 1, f[i]>>]
    <3>1. f[i + 1] = h[1..(i + 1)] /\ f[i] = h[1..i]
      BY <1>2, <2>1
    <3>2. h[1..((i + 1) - 1)] \in X => h[1..(i + 1)] = step[<<i + 1, h[1..((i + 1) - 1)]>>]
      BY <1>0, <2>1
    <3> QED BY <2>1, <3>1, <3>2
  <2>3. <<i + 1, f[i]>> \in (1..n) \X X
    BY <2>1
  <2> QED BY <2>1, <2>2, <2>3
<1> HIDE DEF T
<1>5. \A i \in 0..n : i \in T
  BY <1>3, <1>4, UpTo
<1>6. \A i \in 0..n : f[i] \in X
  BY <1>5 DEF T
<1>7. f \in [0..n -> X]
  BY <1>6 DEF f
<1>8. \A i \in 1..n : f[i] = step[<<i, f[i - 1]>>]
  <2> TAKE i \in 1..n
  <2>1. i - 1 \in 0..n
    OBVIOUS
  <2>2. f[i - 1] \in X
    BY <1>6, <2>1
  <2>3. h[1..(i - 1)] \in X => h[1..i] = step[<<i, h[1..(i - 1)]>>]
    BY <1>0
  <2> QED BY <1>2, <2>2, <2>3
<1>9. f[n] = h[1..n]
  BY DEF f
<1> QED BY <1>1, <1>7, <1>8, <1>9 DEF Stepwise, Follows

\* A sum, one number after the other.
Adds(f, vals) == f[0] = 0 /\ \A i \in 1..Len(vals) : f[i] = f[i - 1] + vals[i]

\* A function that sums a list from the front,
SumsUp(h, vals) ==
  h[{}] = 0 /\ \A i \in 1..Len(vals) : h[1..(i - 1)] \in Nat => h[1..i] = h[1..(i - 1)] + vals[i]
\* and one for each part of a list.
SumsParts(g, vals) ==
  /\ g \in [SUBSET (1..Len(vals)) -> Nat] /\ g[{}] = 0
  /\ \A s \in SUBSET (1..Len(vals)) : s # {} => Max(s) \in 1..Len(vals) /\ g[s] = g[s \ {Max(s)}] + vals[Max(s)]
  /\ \A i \in 1..Len(vals) : Max(1..i) = i /\ (1..i) \ {i} = 1..(i - 1) /\ 1..i # {} /\ 1..i \in SUBSET (1..Len(vals))

\* There is one,
LEMMA SumsPartsExists == ASSUME NEW vals \in Seq(Nat) PROVE \E g : SumsParts(g, vals)
<1> DEFINE n == Len(vals)
           step == [p \in (1..n) \X Nat |-> p[2] + vals[p[1]]]
           c == Top(n)
<1>1. n \in Nat /\ DOMAIN vals = 1..n /\ \A i \in 1..n : vals[i] \in Nat
  OBVIOUS
<1>2. step \in [(1..n) \X Nat -> Nat]
  BY <1>1
<1> HIDE DEF n
<1>3. IsFiniteSet(1..n) /\ Picks(c, 1..n) /\ \A i \in 1..n : Max(1..i) = i /\ (1..i) \ {i} = 1..(i - 1) /\ 1..i # {}
  BY <1>1, TopPicks
<1>4. PICK g \in [SUBSET (1..n) -> Nat] : Folds(g, 1..n, 0, c, step)
  <2> HIDE DEF c, step
  <2> QED BY <1>2, <1>3, FoldDefines
<1>5. ASSUME NEW s \in SUBSET (1..n), s # {}
      PROVE  Max(s) \in 1..n /\ g[s] = g[s \ {Max(s)}] + vals[Max(s)]
  <2>1. c[s] = Max(s) /\ Max(s) \in 1..n
    BY <1>3, <1>5 DEF Top, Picks
  <2>2. g[s] = step[<<c[s], g[s \ {c[s]}]>>] /\ g[s \ {c[s]}] \in Nat
    BY <1>4, <1>5 DEF Folds
  <2> QED BY <2>1, <2>2
<1>6. g[{}] = 0
  BY <1>4 DEF Folds
<1>7. \A i \in 1..n : 1..i \in SUBSET (1..n)
  BY <1>1
<1> HIDE DEF c, step
<1> QED BY <1>3, <1>4, <1>5, <1>6, <1>7 DEF SumsParts, n

\* and the sum is reached one number after the other.
LEMMA SumsReached ==
  ASSUME NEW vals \in Seq(Nat), NEW h, SumsUp(h, vals)
  PROVE  \E f \in [0..Len(vals) -> Nat] : Adds(f, vals) /\ h[1..Len(vals)] = f[Len(vals)]
<1> DEFINE n == Len(vals)
           step == [p \in (1..n) \X Nat |-> p[2] + vals[p[1]]]
<1>1. n \in Nat /\ DOMAIN vals = 1..n /\ \A i \in 1..n : vals[i] \in Nat
  OBVIOUS
<1>2. step \in [(1..n) \X Nat -> Nat]
  BY <1>1
<1>3. ASSUME NEW i \in 1..n, h[1..(i - 1)] \in Nat PROVE h[1..i] = step[<<i, h[1..(i - 1)]>>]
  BY <1>3 DEF SumsUp
<1>4. h[{}] = 0
  BY DEF SumsUp
<1> HIDE DEF n, step
<1>5. OnIntervals(h, 0, step, n, Nat)
  BY <1>3, <1>4 DEF OnIntervals
<1>6. PICK f \in [0..n -> Nat] : Follows(f, h, 0, step, n)
  BY <1>1, <1>2, <1>5, FoldSteps
<1>7. \A i \in 1..n : f[i] = f[i - 1] + vals[i]
  <2> TAKE i \in 1..n
  <2>1. i - 1 \in 0..n
    BY <1>1
  <2>2. f[i - 1] \in Nat /\ f[i] = step[<<i, f[i - 1]>>]
    BY <1>6, <2>1 DEF Stepwise, Follows
  <2> QED BY <2>2 DEF step
<1>8. Adds(f, vals)
  BY <1>6, <1>7 DEF Adds, Stepwise, Follows, n
<1> QED BY <1>6, <1>8 DEF Follows, n

\* A sum of a list is reached so.
LEMMA SumFolds ==
  ASSUME NEW vals \in Seq(Nat)
  PROVE  \E f \in [0..Len(vals) -> Nat] : Adds(f, vals) /\ SumOf(vals) = f[Len(vals)]
<1> DEFINE n == Len(vals)
           Run(g) == g = [s \in SUBSET (1..n) |-> IF s = {} THEN 0 ELSE g[s \ {Max(s)}] + vals[Max(s)]]
           h == CHOOSE f : Run(f)
<1>1. n \in Nat /\ DOMAIN vals = 1..n
  OBVIOUS
<1>2. SumOf(vals) = h[1..n]
  BY <1>1 DEF SumOf, FoldLeft, MapThenFoldSet
<1> HIDE DEF n
<1>3. PICK g : SumsParts(g, vals)
  BY SumsPartsExists
<1>4. Run(g)
  <2>1. g \in [SUBSET (1..n) -> Nat] /\ g[{}] = 0 /\ \A s \in SUBSET (1..n) : s # {} => g[s] = g[s \ {Max(s)}] + vals[Max(s)]
    BY <1>3 DEF SumsParts, n
  <2> QED BY <2>1
<1>5. Run(h)
  <2> HIDE DEF Run
  <2> QED BY <1>4
<1> HIDE DEF h
<1>6. h[{}] = 0
  <2>1. {} \in SUBSET (1..n)
    OBVIOUS
  <2> QED BY <1>5, <2>1
<1>7. ASSUME NEW i \in 1..n PROVE h[1..i] = h[1..(i - 1)] + vals[i]
  <2>1. 1..i \in SUBSET (1..n) /\ 1..i # {} /\ Max(1..i) = i /\ (1..i) \ {i} = 1..(i - 1)
    BY <1>3 DEF SumsParts, n
  <2> QED BY <1>5, <2>1
<1>8. SumsUp(h, vals)
  BY <1>6, <1>7 DEF SumsUp, n
<1> QED BY <1>2, <1>8, SumsReached DEF n

\* A greater list has a sum at least as great, and one that is not all zero has a sum.
LEMMA SumsCompare ==
  ASSUME NEW n \in Nat, NEW a \in Seq(Nat), Len(a) = n, NEW f \in [0..n -> Nat], Adds(f, a),
         NEW b \in Seq(Nat), Len(b) = n, NEW g \in [0..n -> Nat], Adds(g, b), \A i \in 1..n : a[i] >= b[i]
  PROVE  f[n] >= g[n]
<1> DEFINE T == {i \in 0..n : f[i] >= g[i]}
<1>1. f[0] = 0 /\ g[0] = 0 /\ \A i \in 1..n : f[i] = f[i - 1] + a[i] /\ g[i] = g[i - 1] + b[i] /\ a[i] \in Nat /\ b[i] \in Nat
  <2>1. \A i \in 1..n : a[i] \in Nat /\ b[i] \in Nat
    OBVIOUS
  <2> QED BY <2>1 DEF Adds
<1>2. 0 \in T
  BY <1>1
<1>3. \A i \in 0..(n - 1) : i \in T => i + 1 \in T
  <2> TAKE i \in 0..(n - 1)
  <2> HAVE i \in T
  <2>1. i + 1 \in 1..n /\ (i + 1) - 1 = i /\ i \in 0..n /\ f[i] >= g[i]
    OBVIOUS
  <2>2. f[i + 1] = f[i] + a[i + 1] /\ g[i + 1] = g[i] + b[i + 1] /\ a[i + 1] \in Nat /\ b[i + 1] \in Nat /\ a[i + 1] >= b[i + 1]
    BY <1>1, <2>1
  <2>3. f[i] \in Nat /\ g[i] \in Nat
    BY <2>1
  <2> QED BY <2>1, <2>2, <2>3
<1> HIDE DEF T
<1>4. \A i \in 0..n : i \in T
  BY <1>2, <1>3, UpTo
<1> QED BY <1>4 DEF T
LEMMA SumsSome ==
  ASSUME NEW n \in Nat, NEW a \in Seq(Nat), Len(a) = n, NEW f \in [0..n -> Nat], Adds(f, a)
  PROVE  f[n] > 0 <=> \E i \in 1..n : a[i] > 0
<1> DEFINE T == {i \in 0..n : f[i] > 0 <=> \E j \in 1..i : a[j] > 0}
<1>1. f[0] = 0 /\ \A i \in 1..n : f[i] = f[i - 1] + a[i] /\ a[i] \in Nat
  BY DEF Adds
<1>2. 0 \in T
  BY <1>1
<1>3. \A i \in 0..(n - 1) : i \in T => i + 1 \in T
  <2> TAKE i \in 0..(n - 1)
  <2> HAVE i \in T
  <2>1. i + 1 \in 1..n /\ (i + 1) - 1 = i /\ i \in 0..n /\ (f[i] > 0 <=> \E j \in 1..i : a[j] > 0)
    OBVIOUS
  <2>2. f[i + 1] = f[i] + a[i + 1] /\ a[i + 1] \in Nat
    BY <1>1, <2>1
  <2>3. f[i] \in Nat
    BY <2>1
  <2>4. (\A j \in 1..(i + 1) : j \in 1..i \/ j = i + 1) /\ (\A j \in 1..i : j \in 1..(i + 1)) /\ i + 1 \in 1..(i + 1)
    BY <2>1
  <2>5. f[i + 1] > 0 <=> (f[i] > 0 \/ a[i + 1] > 0)
    BY <2>2, <2>3
  <2>6. f[i + 1] > 0 <=> \E j \in 1..(i + 1) : a[j] > 0
    BY <2>1, <2>4, <2>5
  <2>7. i + 1 \in 0..n
    BY <2>1
  <2> QED BY <2>6, <2>7
<1> HIDE DEF T
<1>4. \A i \in 0..n : i \in T
  BY <1>2, <1>3, UpTo
<1> QED BY <1>4 DEF T

\* The first k of them, for any k.
LEMMA SumsTaken ==
  ASSUME NEW s \in Seq(Nat)
  PROVE  \E f \in [0..Len(s) -> Nat] :
           /\ f[0] = 0 /\ \A i \in 1..Len(s) : f[i] = f[i - 1] + s[i]
           /\ \A k \in 0..Len(s) : Take(s, k) \in Seq(Nat) /\ Len(Take(s, k)) = k /\ SumOf(Take(s, k)) = f[k]
           /\ Take(s, Len(s)) = s
<1> DEFINE n == Len(s)
<1>1. n \in Nat /\ \A i \in 1..n : s[i] \in Nat
  OBVIOUS
<1>2. PICK f \in [0..n -> Nat] : Adds(f, s) /\ SumOf(s) = f[n]
  BY SumFolds
<1>3. ASSUME NEW k \in 0..n PROVE Take(s, k) \in Seq(Nat) /\ Len(Take(s, k)) = k /\ SumOf(Take(s, k)) = f[k]
  <2> DEFINE t == Take(s, k)
  <2>1. t = SubSeq(s, 1, k)
    BY DEF Take
  <2>2. t \in Seq(Nat) /\ Len(t) = k /\ \A i \in 1..k : t[i] = s[i]
    BY <2>1
  <2> HIDE DEF t
  <2>3. PICK g \in [0..k -> Nat] : Adds(g, t) /\ SumOf(t) = g[k]
    BY <2>2, SumFolds
  <2> DEFINE T == {i \in 0..k : g[i] = f[i]}
  <2> HIDE DEF n
  <2>4. 0 \in T
    BY <1>2, <2>3 DEF Adds
  <2>5. \A i \in 0..(k - 1) : i \in T => i + 1 \in T
    <3> TAKE i \in 0..(k - 1)
    <3> HAVE i \in T
    <3>1. i + 1 \in 1..k /\ (i + 1) - 1 = i /\ i + 1 \in 0..k /\ i + 1 \in 1..n
      BY <1>1
    <3>2. g[i + 1] = g[i] + t[i + 1]
      BY <2>2, <2>3, <3>1 DEF Adds
    <3>3. f[i + 1] = f[i] + s[i + 1]
      BY <1>2, <3>1 DEF Adds, n
    <3> QED BY <2>2, <3>1, <3>2, <3>3
  <2> HIDE DEF T
  <2>6. k \in Nat /\ k \in 0..k
    BY <1>1
  <2>7. \A i \in 0..k : i \in T
    BY <2>4, <2>5, <2>6, UpTo
  <2>8. g[k] = f[k]
    BY <2>6, <2>7 DEF T
  <2> QED BY <2>2, <2>3, <2>8 DEF t
<1>4. Take(s, n) = s
  BY DEF Take
<1> QED BY <1>2, <1>3, <1>4 DEF Adds

\* One number more is that much more.
LEMMA SumAppended ==
  ASSUME NEW s \in Seq(Nat), NEW x \in Nat
  PROVE  SumOf(s) \in Nat /\ Append(s, x) \in Seq(Nat) /\ SumOf(Append(s, x)) = SumOf(s) + x
<1> DEFINE t == Append(s, x)
           n == Len(s)
<1>1. n \in Nat /\ t \in Seq(Nat) /\ Len(t) = n + 1 /\ t[n + 1] = x /\ \A i \in 1..n : t[i] = s[i]
  OBVIOUS
<1>2. Take(t, n) = s
  <2>1. Take(t, n) = SubSeq(t, 1, n)
    BY <1>1 DEF Take
  <2>2. SubSeq(t, 1, n) = [i \in 1..n |-> t[i]] /\ s = [i \in 1..n |-> s[i]]
    BY <1>1
  <2> QED BY <1>1, <2>1, <2>2
<1> HIDE DEF t
<1>3. PICK f \in [0..Len(t) -> Nat] :
           /\ f[0] = 0 /\ \A i \in 1..Len(t) : f[i] = f[i - 1] + t[i]
           /\ \A k \in 0..Len(t) : Take(t, k) \in Seq(Nat) /\ Len(Take(t, k)) = k /\ SumOf(Take(t, k)) = f[k]
           /\ Take(t, Len(t)) = t
  BY <1>1, SumsTaken
<1> HIDE DEF n
<1>4. n \in 0..(n + 1) /\ n + 1 \in 0..(n + 1) /\ n + 1 \in 1..(n + 1) /\ (n + 1) - 1 = n
  BY <1>1
<1>5. SumOf(t) = f[n + 1] /\ SumOf(s) = f[n] /\ f[n + 1] = f[n] + t[n + 1] /\ f[n] \in Nat
  BY <1>1, <1>2, <1>3, <1>4
<1> QED BY <1>1, <1>5 DEF t

\* A text that is cut keeps whole characters, and no more than its share.
Fits(t, text, max) ==
  /\ t = [text |-> t.text, cut |-> t.cut] /\ t.text \in Seq(Nat) /\ TokenCount(t.text) \in Nat
  /\ IsPrefix(t.text, text) /\ (t.cut = TRUE \/ t.cut = FALSE) /\ (t.cut = TRUE <=> t.text # text)
  /\ max > 0 => TokenCount(t.text) <= max

\* The first k characters of a text.
LEMMA PrefixTaken ==
  ASSUME NEW s \in Seq(Nat), NEW k \in 0..Len(s)
  PROVE  IsPrefix(Take(s, k), s) /\ Take(s, k) \in Seq(Nat) /\ Len(Take(s, k)) = k
<1>1. Take(s, k) = SubSeq(s, 1, k)
  BY DEF Take
<1>2. SubSeq(s, 1, k) \in Seq(Nat) /\ Len(SubSeq(s, 1, k)) = k
  OBVIOUS
<1>3. IsPrefix(SubSeq(s, 1, k), s)
  BY <1>2 DEF IsPrefix
<1> QED BY <1>1, <1>2, <1>3

\* A text has as many tokens as its bytes make, and an empty one none.
LEMMA TokensCounted ==
  ASSUME NEW s \in Seq(Nat)
  PROVE  Bytes(s) \in Nat /\ TokenCount(s) \in Nat /\ TokenCount(s) > 0 /\ \A m \in Nat : m > 0 => (TokenCount(s) <= m <=> Bytes(s) <= 4 * m + 3)
<1>1. Bytes(s) \in Nat
  BY SumAppended DEF Bytes
<1>2. TokenCount(s) = IF Bytes(s) \div 4 = 0 THEN 1 ELSE Bytes(s) \div 4
  BY DEF TokenCount
<1>3. \A b \in Nat : (b \div 4) \in Nat /\ \A m \in Nat : (b \div 4) <= m <=> b <= 4 * m + 3
  OBVIOUS
<1> QED BY <1>1, <1>2, <1>3

\* What a text is trimmed to fits, begins as the text does, and is not empty if the text is not and one token is left.
LEMMA TrimFits ==
  ASSUME NEW text \in Seq(Nat), text # <<>>, NEW max \in Nat
  PROVE  Fits(TrimToTokens(text, max), text, max)
<1> DEFINE t == TrimToTokens(text, max)
           n == Len(text)
<1>1. n \in Nat /\ n > 0
  OBVIOUS
<1>2. CASE max = 0
  <2>1. t = [text |-> <<>>, cut |-> TRUE]
    BY <1>2 DEF TrimToTokens
  <2>2. <<>> \in Seq(Nat) /\ IsPrefix(<<>>, text)
    <3>1. Take(text, 0) = <<>>
      BY <1>1 DEF Take
    <3>2. 0 \in 0..Len(text)
      BY <1>1
    <3> QED BY <3>1, <3>2, PrefixTaken
  <2>3. t.text = <<>> /\ t.cut = TRUE
    BY <2>1
  <2> HIDE DEF t
  <2>4. TokenCount(<<>>) \in Nat
    BY <2>2, TokensCounted
  <2> DEFINE nil == <<>>
  <2>5. nil \in Seq(Nat) /\ IsPrefix(nil, text) /\ nil # text /\ TokenCount(nil) \in Nat /\ t.text = nil /\ t = [text |-> nil, cut |-> TRUE]
    BY <2>1, <2>2, <2>3, <2>4
  <2>6. ~ (max > 0)
    BY <1>2
  <2> HIDE DEF nil
  <2> QED BY <2>3, <2>5, <2>6 DEF Fits, t
<1>3. CASE max # 0 /\ TokenCount(text) <= max
  <2>1. t = [text |-> text, cut |-> FALSE]
    BY <1>3 DEF TrimToTokens
  <2>2. IsPrefix(text, text)
    <3>1. Take(text, n) = text
      BY DEF Take
    <3> QED BY <1>1, <3>1, PrefixTaken
  <2>3. t.text = text /\ t.cut = FALSE
    BY <2>1
  <2> HIDE DEF t
  <2>4. TokenCount(text) \in Nat
    BY TokensCounted
  <2> QED BY <1>3, <2>1, <2>2, <2>3, <2>4 DEF Fits, t
<1>4. CASE max # 0 /\ ~ (TokenCount(text) <= max)
  <2> DEFINE ok(k) == /\ Bytes(Take(text, k)) <= 4 * max
                      /\ k = Len(text) \/ Bytes(Take(text, k + 1)) > 4 * max
             k == CHOOSE j \in 0..Len(text) : ok(j)
  <2>1. t = [text |-> Take(text, k), cut |-> TRUE]
    BY <1>4 DEF TrimToTokens
  <2>2. PICK f \in [0..n -> Nat] :
           /\ f[0] = 0 /\ \A i \in 1..n : f[i] = f[i - 1] + text[i]
           /\ \A i \in 0..n : Take(text, i) \in Seq(Nat) /\ Len(Take(text, i)) = i /\ SumOf(Take(text, i)) = f[i]
           /\ Take(text, n) = text
    BY SumsTaken
  <2>3. \A i \in 0..n : Bytes(Take(text, i)) = f[i]
    BY <2>2 DEF Bytes
  <2>4. f[n] > 4 * max
    <3>1. Bytes(text) = f[n]
      BY <1>1, <2>2, <2>3
    <3>2. ~ (Bytes(text) <= 4 * max + 3)
      BY <1>4, TokensCounted
    <3>3. f[n] \in Nat
      <4>1. n \in 0..n
        BY <1>1
      <4>2. f \in [0..n -> Nat]
        BY <2>2
      <4> QED BY <4>1, <4>2
    <3> HIDE DEF n
    <3> QED BY <3>1, <3>2, <3>3
  <2> DEFINE S == {i \in 0..n : f[i] > 4 * max}
  <2>5. PICK m \in S : \A i \in S : m <= i
    <3>1. S \in SUBSET Nat /\ S # {}
      BY <1>1, <2>4
    <3> HIDE DEF S
    <3> QED BY <3>1, LeastNumber
  <2>6. m # 0 /\ m - 1 \in 0..n /\ (m - 1) + 1 = m /\ f[m - 1] <= 4 * max /\ f[m] > 4 * max /\ m \in 0..n
    <3>1. m # 0
      BY <2>2, <2>5
    <3>2. m \in 0..n /\ m - 1 \in 0..n /\ m - 1 \notin S
      BY <1>1, <2>5, <3>1
    <3>3. f[m - 1] \in Nat
      BY <2>2, <3>2
    <3>4. ~ (f[m - 1] > 4 * max) /\ f[m] > 4 * max
      BY <2>5, <3>2
    <3>5. (m - 1) + 1 = m
      BY <3>2
    <3> HIDE DEF n, S
    <3> QED BY <3>1, <3>2, <3>3, <3>4, <3>5
  <2>7. ok(m - 1)
    BY <2>3, <2>6
  <2>8. k \in 0..n /\ ok(k)
    <3> HIDE DEF ok
    <3> QED BY <2>6, <2>7
  <2> HIDE DEF k
  <2>9. k # n
    BY <2>3, <2>4, <2>8
  <2> DEFINE u == Take(text, k)
  <2>10. u \in Seq(Nat) /\ Len(u) = k /\ IsPrefix(u, text) /\ Bytes(u) <= 4 * max
    BY <2>8, PrefixTaken
  <2>11. t.text = u /\ t.cut = TRUE /\ t = [text |-> u, cut |-> TRUE]
    BY <2>1
  <2> HIDE DEF t, u, ok
  <2>12. u # text
    BY <2>9, <2>10
  <2>13. TokenCount(u) \in Nat /\ TokenCount(u) <= max
    <3>1. Bytes(u) \in Nat /\ Bytes(u) <= 4 * max + 3
      BY <2>10, TokensCounted
    <3> QED BY <1>4, <2>10, <3>1, TokensCounted
  <2> QED BY <2>10, <2>11, <2>12, <2>13 DEF Fits, t
<1> QED BY <1>2, <1>3, <1>4

(***************************************************************************)
(* Answers: the token budget.                                              *)
(***************************************************************************)

\* Rows of non-empty texts; a body per row so far.
Row == [text : Seq(Nat) \ {<<>>}]
AnswerSoFar == [bodies : Seq(Seq(Nat)), used : Nat, cut : BOOLEAN]
Counts(bodies) == [k \in DOMAIN bodies |-> TokenCount(bodies[k])]

\* One body more is shown, and counted.
LEMMA BodyAdded ==
  ASSUME NEW b \in Seq(Seq(Nat)), NEW u \in Seq(Nat)
  PROVE  /\ SumOf(Counts(b)) \in Nat /\ SumOf(Counts(Append(b, u))) = SumOf(Counts(b)) + TokenCount(u)
         /\ Append(b, u) \in Seq(Seq(Nat)) /\ Len(Append(b, u)) = Len(b) + 1 /\ Append(b, u)[Len(b) + 1] = u
         /\ \A k \in 1..Len(b) : Append(b, u)[k] = b[k]
<1> DEFINE n == Len(b)
           c == Append(b, u)
<1>1. n \in Nat /\ c \in Seq(Seq(Nat)) /\ Len(c) = n + 1 /\ c[n + 1] = u /\ DOMAIN c = 1..(n + 1) /\ DOMAIN b = 1..n
      /\ \A k \in 1..n : c[k] = b[k] /\ b[k] \in Seq(Nat)
  OBVIOUS
<1>2. \A k \in 1..n : TokenCount(b[k]) \in Nat
  BY <1>1, TokensCounted
<1>3. TokenCount(u) \in Nat
  BY TokensCounted
<1> HIDE DEF n, c
<1> DEFINE p == Counts(b)
           q == Counts(c)
<1>4. p \in Seq(Nat) /\ Len(p) = n /\ \A k \in 1..n : p[k] = TokenCount(b[k])
  <2>1. p = [k \in 1..n |-> TokenCount(b[k])]
    BY <1>1 DEF Counts
  <2>2. p \in [1..n -> Nat]
    BY <1>2, <2>1
  <2> QED BY <1>1, <2>1, <2>2
<1>5. q = [k \in 1..(n + 1) |-> TokenCount(c[k])]
  BY <1>1 DEF Counts
<1> HIDE DEF p
<1>6. q = Append(p, TokenCount(u))
  <2> DEFINE x == TokenCount(u)
             r == Append(p, x)
  <2>0. x \in Nat
    BY <1>3
  <2> HIDE DEF x
  <2>1. r \in Seq(Nat) /\ Len(r) = n + 1 /\ r[n + 1] = x /\ \A k \in 1..n : r[k] = p[k]
    BY <1>1, <1>4, <2>0
  <2> HIDE DEF r
  <2>2. \A k \in 1..(n + 1) : TokenCount(c[k]) = r[k]
    <3> TAKE k \in 1..(n + 1)
    <3>1. k = n + 1 \/ k \in 1..n
      BY <1>1
    <3> QED BY <1>1, <1>4, <2>1, <3>1 DEF x
  <2>3. r = [k \in 1..(n + 1) |-> r[k]]
    BY <1>1, <2>1
  <2>4. q = r
    BY <1>5, <2>2, <2>3
  <2> QED BY <2>4 DEF r, x
<1>7. SumOf(p) \in Nat /\ SumOf(Append(p, TokenCount(u))) = SumOf(p) + TokenCount(u)
  BY <1>3, <1>4, SumAppended
<1> QED BY <1>1, <1>6, <1>7 DEF c, n, p

\* One row more: it is shown, or the budget is spent and the answer says so.
NextAnswer(a, row, max) == IF Spent(a, max) /\ a # NoRows THEN [a EXCEPT !.cut = TRUE] ELSE ShowRow(a, row, max)

\* After i rows the answer is honest, and shows them all or has spent its budget.
HonestSoFar(a, rows, max, i) ==
  /\ a \in AnswerSoFar
  /\ a.used = SumOf(Counts(a.bodies)) /\ (max > 0 => a.used <= max)
  /\ \A k \in 1..Len(a.bodies) : IsPrefix(a.bodies[k], rows[k].text)
  /\ (a.cut = FALSE <=> Len(a.bodies) = i /\ \A k \in 1..i : a.bodies[k] = rows[k].text)
  /\ Len(a.bodies) <= i
  /\ i > 0 => Len(a.bodies) > 0
  /\ Len(a.bodies) # i => a.cut = TRUE /\ Spent(a, max)

\* One row more leaves the answer honest.
LEMMA RowKeeps ==
  ASSUME NEW rows \in Seq(Row), NEW max \in Nat \cup {NoLimit}, NEW i \in 1..Len(rows), NEW a, HonestSoFar(a, rows, max, i - 1)
  PROVE  HonestSoFar(NextAnswer(a, rows[i], max), rows, max, i)
<1> DEFINE n == NextAnswer(a, rows[i], max)
           b == Len(a.bodies)
           text == rows[i].text
<1>0. max \in Int /\ i \in Nat /\ i > 0 /\ i - 1 \in Nat
  BY DEF NoLimit
<1>1. text \in Seq(Nat) /\ text # <<>>
  <2>1. rows[i] \in Row
    OBVIOUS
  <2> QED BY <2>1 DEF Row
<1> HIDE DEF text
<1>2. /\ a.bodies \in Seq(Seq(Nat)) /\ a.used \in Nat /\ a.cut \in BOOLEAN /\ b \in Nat
      /\ a = [bodies |-> a.bodies, used |-> a.used, cut |-> a.cut]
  BY DEF HonestSoFar, AnswerSoFar
<1> HIDE DEF b
<1>3. /\ a.used = SumOf(Counts(a.bodies)) /\ (max > 0 => a.used <= max)
      /\ \A k \in 1..b : IsPrefix(a.bodies[k], rows[k].text)
      /\ (a.cut = FALSE <=> b = i - 1 /\ \A k \in 1..(i - 1) : a.bodies[k] = rows[k].text)
      /\ b <= i - 1
      /\ i - 1 > 0 => b > 0
      /\ b # i - 1 => a.cut = TRUE /\ Spent(a, max)
  BY DEF HonestSoFar, b
<1>4. CASE Spent(a, max) /\ a # NoRows
  <2>1. n = [a EXCEPT !.cut = TRUE]
    BY <1>4 DEF NextAnswer
  <2>2. n = [bodies |-> a.bodies, used |-> a.used, cut |-> TRUE]
    BY <1>2, <2>1
  <2>3. n.bodies = a.bodies /\ n.used = a.used /\ n.cut = TRUE
    BY <2>2
  <2>4. n \in AnswerSoFar
    BY <1>2, <2>2 DEF AnswerSoFar
  <2>5. Spent(n, max)
    BY <1>4, <2>3 DEF Spent
  <2>6. b # i /\ b <= i
    BY <1>0, <1>2, <1>3
  <2>7. b > 0
    <3>1. CASE i - 1 > 0
      BY <1>3, <3>1
    <3>2. CASE ~ (i - 1 > 0)
      <4>1. b = 0 /\ i - 1 = 0
        BY <1>0, <1>2, <1>3, <3>2
      <4>2. a.bodies = <<>> /\ a.cut = FALSE
        BY <1>0, <1>2, <1>3, <4>1 DEF b
      <4>3. a.used = 0
        <5>1. Counts(<<>>) = <<>>
          BY DEF Counts
        <5>2. SumOf(<<>>) = 0
          <6>1. <<>> \in Seq(Nat) /\ Len(<<>>) = 0
            OBVIOUS
          <6>2. PICK f \in [0..Len(<<>>) -> Nat] : Adds(f, <<>>) /\ SumOf(<<>>) = f[Len(<<>>)]
            BY <6>1, SumFolds
          <6> QED BY <6>1, <6>2 DEF Adds
        <5> QED BY <1>3, <4>2, <5>1, <5>2
      <4> QED BY <1>2, <1>4, <4>2, <4>3 DEF NoRows
    <3> QED BY <3>1, <3>2
  <2> HIDE DEF n
  <2> QED BY <1>3, <2>3, <2>4, <2>5, <2>6, <2>7 DEF HonestSoFar, b, n
<1>5. CASE ~ (Spent(a, max) /\ a # NoRows)
  <2> DEFINE t == IF max = NoLimit THEN [text |-> text, cut |-> FALSE]
                  ELSE TrimToTokens(text, IF max > a.used THEN max - a.used ELSE 0)
  <2>1. n = [bodies |-> Append(a.bodies, t.text), used |-> a.used + TokenCount(t.text), cut |-> a.cut \/ t.cut]
    BY <1>5 DEF NextAnswer, ShowRow, AddBody, text
  <2>2. b = i - 1
    <3>1. CASE a = NoRows
      <4>1. b = 0
        BY <3>1 DEF NoRows, b
      <4> QED BY <1>0, <1>3, <4>1
    <3>2. CASE ~ Spent(a, max)
      BY <1>3, <3>2
    <3> QED BY <1>5, <3>1, <3>2
  <2>3. /\ t.text \in Seq(Nat) /\ TokenCount(t.text) \in Nat /\ IsPrefix(t.text, text)
        /\ (t.cut = TRUE \/ t.cut = FALSE) /\ (t.cut = TRUE <=> t.text # text)
        /\ max > 0 => a.used + TokenCount(t.text) <= max
    <3>1. CASE max = NoLimit
      <4>1. t = [text |-> text, cut |-> FALSE]
        BY <3>1
      <4>2. t.text = text /\ t.cut = FALSE
        BY <4>1
      <4> HIDE DEF t
      <4>3. IsPrefix(text, text)
        <5>1. Take(text, Len(text)) = text /\ Len(text) \in 0..Len(text)
          BY <1>1 DEF Take
        <5> QED BY <1>1, <5>1, PrefixTaken
      <4>4. ~ (max > 0)
        BY <3>1 DEF NoLimit
      <4>5. TokenCount(text) \in Nat
        BY <1>1, TokensCounted
      <4> QED BY <1>1, <4>2, <4>3, <4>4, <4>5
    <3>2. CASE max # NoLimit
      <4> DEFINE left == IF max > a.used THEN max - a.used ELSE 0
      <4>1. left \in Nat /\ t = TrimToTokens(text, left) /\ max \in Nat
        BY <1>0, <1>2, <3>2
      <4>2. max > 0 => left > 0 /\ left = max - a.used
        <5> HAVE max > 0
        <5>1. max > a.used
          <6>1. CASE a = NoRows
            <7>1. a.used = 0
              BY <6>1 DEF NoRows
            <7> QED BY <4>1, <7>1
          <6>2. CASE ~ Spent(a, max)
            BY <1>2, <3>2, <4>1, <6>2 DEF Spent
          <6> QED BY <1>5, <6>1, <6>2
        <5> QED BY <1>2, <4>1, <5>1
      <4> HIDE DEF left, t
      <4>3. Fits(t, text, left)
        BY <1>1, <4>1, TrimFits
      <4>4. max > 0 => a.used + TokenCount(t.text) <= max
        BY <1>2, <4>1, <4>2, <4>3 DEF Fits
      <4> QED BY <4>3, <4>4 DEF Fits
    <3> QED BY <3>1, <3>2
  <2> HIDE DEF t
  <2> DEFINE c == Append(a.bodies, t.text)
  <2>4. n.bodies = c /\ n.used = a.used + TokenCount(t.text) /\ n.cut = (a.cut \/ t.cut)
    BY <2>1
  <2>5. /\ SumOf(Counts(a.bodies)) \in Nat /\ SumOf(Counts(c)) = SumOf(Counts(a.bodies)) + TokenCount(t.text)
        /\ c \in Seq(Seq(Nat)) /\ Len(c) = b + 1 /\ c[b + 1] = t.text
        /\ \A k \in 1..b : c[k] = a.bodies[k]
    BY <1>2, <2>3, BodyAdded DEF b
  <2> HIDE DEF c
  <2>6. n \in AnswerSoFar
    <3>1. (a.cut \/ t.cut) \in BOOLEAN
      BY <1>2, <2>3
    <3>2. a.used + TokenCount(t.text) \in Nat
      BY <1>2, <2>3
    <3> QED BY <2>1, <2>5, <3>1, <3>2 DEF AnswerSoFar, c
  <2>7. b + 1 = i
    BY <1>0, <2>2
  <2> HIDE DEF n
  <2>8. \A k \in 1..i : IsPrefix(c[k], rows[k].text)
    <3> TAKE k \in 1..i
    <3>1. CASE k = i
      BY <2>3, <2>5, <2>7, <3>1 DEF text
    <3>2. CASE k # i
      <4>1. k \in 1..b
        BY <1>0, <2>2, <3>2
      <4> QED BY <1>3, <2>5, <4>1
    <3> QED BY <3>1, <3>2
  <2>9. n.cut = FALSE <=> \A k \in 1..i : c[k] = rows[k].text
    <3>1. n.cut = FALSE <=> a.cut = FALSE /\ t.cut = FALSE
      BY <1>2, <2>3, <2>4
    <3>2. t.cut = FALSE <=> c[i] = rows[i].text
      BY <2>3, <2>5, <2>7 DEF text
    <3>3. a.cut = FALSE <=> \A k \in 1..(i - 1) : c[k] = rows[k].text
      BY <1>3, <2>2, <2>5
    <3>4. \A k : k \in 1..i <=> k \in 1..(i - 1) \/ k = i
      BY <1>0
    <3> QED BY <3>1, <3>2, <3>3, <3>4
  <2>10. n.used = SumOf(Counts(n.bodies)) /\ (max > 0 => n.used <= max)
    BY <1>3, <2>3, <2>4, <2>5
  <2>11. Len(n.bodies) = i
    BY <2>4, <2>5, <2>7
  <2> QED BY <1>0, <2>4, <2>6, <2>8, <2>9, <2>10, <2>11 DEF HonestSoFar, n
<1> QED BY <1>4, <1>5

\* One row more leaves an answer an answer.
LEMMA RowTyped ==
  ASSUME NEW row \in Row, NEW max \in Nat \cup {NoLimit}, NEW a \in AnswerSoFar
  PROVE  NextAnswer(a, row, max) \in AnswerSoFar
<1> DEFINE text == row.text
           t == IF max = NoLimit THEN [text |-> text, cut |-> FALSE]
                ELSE TrimToTokens(text, IF max > a.used THEN max - a.used ELSE 0)
           left == IF max > a.used THEN max - a.used ELSE 0
<1>1. text \in Seq(Nat) /\ text # <<>>
  BY DEF Row
<1>2. a.bodies \in Seq(Seq(Nat)) /\ a.used \in Nat /\ a.cut \in BOOLEAN /\ a = [bodies |-> a.bodies, used |-> a.used, cut |-> a.cut]
  BY DEF AnswerSoFar
<1>3. CASE Spent(a, max) /\ a # NoRows
  <2>1. [a EXCEPT !.cut = TRUE] \in AnswerSoFar
    BY <1>2 DEF AnswerSoFar
  <2> QED BY <1>3, <2>1 DEF NextAnswer
<1>4. CASE ~ (Spent(a, max) /\ a # NoRows)
  <2>1. NextAnswer(a, row, max) = [bodies |-> Append(a.bodies, t.text), used |-> a.used + TokenCount(t.text), cut |-> a.cut \/ t.cut]
    BY <1>4 DEF NextAnswer, ShowRow, AddBody
  <2> HIDE DEF text
  <2>2. t.text \in Seq(Nat) /\ TokenCount(t.text) \in Nat /\ (t.cut = TRUE \/ t.cut = FALSE)
    <3>1. CASE max = NoLimit
      <4>1. t.text = text /\ t.cut = FALSE
        BY <3>1
      <4> HIDE DEF t
      <4> QED BY <1>1, <4>1, TokensCounted
    <3>2. CASE max # NoLimit
      <4>1. left \in Nat /\ t = TrimToTokens(text, left)
        BY <1>2, <3>2
      <4> HIDE DEF left, t
      <4> QED BY <1>1, <4>1, TrimFits DEF Fits
    <3> QED BY <3>1, <3>2
  <2> HIDE DEF t
  <2> DEFINE b == Append(a.bodies, t.text)
             u == a.used + TokenCount(t.text)
             x == a.cut \/ t.cut
  <2>3. b \in Seq(Seq(Nat)) /\ u \in Nat /\ x \in BOOLEAN
    BY <1>2, <2>2
  <2>4. NextAnswer(a, row, max) = [bodies |-> b, used |-> u, cut |-> x]
    BY <2>1
  <2> HIDE DEF b, u, x
  <2> QED BY <2>3, <2>4 DEF AnswerSoFar
<1> QED BY <1>3, <1>4

\* The rows' answer is honest.
LEMMA RowsHonest ==
  ASSUME NEW rows \in Seq(Row), NEW max \in Nat \cup {NoLimit}
  PROVE  HonestSoFar(FormatRows(rows, max), rows, max, Len(rows))
<1> DEFINE n == Len(rows)
           X == AnswerSoFar
           Run(g) == g = [s \in SUBSET (1..n) |-> IF s = {} THEN NoRows ELSE
                            IF Spent(g[s \ {Max(s)}], max) /\ g[s \ {Max(s)}] # NoRows
                            THEN [g[s \ {Max(s)}] EXCEPT !.cut = TRUE] ELSE ShowRow(g[s \ {Max(s)}], rows[Max(s)], max)]
           step == [p \in (1..n) \X X |-> NextAnswer(p[2], rows[p[1]], max)]
           c == Top(n)
<1>1. n \in Nat /\ DOMAIN rows = 1..n /\ \A i \in 1..n : rows[i] \in Row
  OBVIOUS
<1>2. step \in [(1..n) \X X -> X]
  <2>1. \A p \in (1..n) \X X : NextAnswer(p[2], rows[p[1]], max) \in X
    BY <1>1, RowTyped
  <2> QED BY <2>1
<1>0. NoRows \in X /\ <<>> \in Seq(Seq(Nat)) /\ Len(<<>>) = 0
  BY DEF NoRows, AnswerSoFar
<1> HIDE DEF n
<1>3. IsFiniteSet(1..n) /\ Picks(c, 1..n) /\ \A i \in 1..n : Max(1..i) = i /\ (1..i) \ {i} = 1..(i - 1) /\ 1..i # {}
  BY <1>1, TopPicks
<1>4. PICK g \in [SUBSET (1..n) -> X] : Folds(g, 1..n, NoRows, c, step)
  <2> HIDE DEF c, step, X
  <2> QED BY <1>0, <1>2, <1>3, FoldDefines
<1>5. Run(g)
  <2>1. ASSUME NEW s \in SUBSET (1..n), s # {}
        PROVE  g[s] = NextAnswer(g[s \ {Max(s)}], rows[Max(s)], max)
    <3>1. c[s] = Max(s) /\ Max(s) \in 1..n
      BY <1>3, <2>1 DEF Top, Picks
    <3>2. g[s] = step[<<c[s], g[s \ {c[s]}]>>] /\ g[s \ {c[s]}] \in X
      BY <1>4, <2>1 DEF Folds
    <3> HIDE DEF c, X
    <3> QED BY <3>1, <3>2
  <2>2. g[{}] = NoRows
    BY <1>4 DEF Folds
  <2>3. \A s \in SUBSET (1..n) : g[s] = IF s = {} THEN NoRows ELSE NextAnswer(g[s \ {Max(s)}], rows[Max(s)], max)
    BY <2>1, <2>2
  <2> HIDE DEF c, step
  <2>4. g = [s \in SUBSET (1..n) |-> IF s = {} THEN NoRows ELSE NextAnswer(g[s \ {Max(s)}], rows[Max(s)], max)]
    <3> DEFINE v(s) == IF s = {} THEN NoRows ELSE NextAnswer(g[s \ {Max(s)}], rows[Max(s)], max)
    <3>1. \A s \in SUBSET (1..n) : g[s] = v(s)
      BY <2>3
    <3> HIDE DEF v
    <3>2. g = [s \in SUBSET (1..n) |-> v(s)]
      BY <1>4, <3>1
    <3> QED BY <3>2 DEF v
  <2> QED BY <2>4 DEF NextAnswer
<1> DEFINE h == CHOOSE f : Run(f)
<1>6. Run(h)
  <2> HIDE DEF Run
  <2> QED BY <1>5
<1>7. FormatRows(rows, max) = h[1..n]
  BY <1>1 DEF FormatRows, FoldLeft, MapThenFoldSet
<1> HIDE DEF h
<1>8. h[{}] = NoRows
  <2>1. {} \in SUBSET (1..n)
    OBVIOUS
  <2> QED BY <1>6, <2>1
<1>9. ASSUME NEW i \in 1..n PROVE h[1..i] = NextAnswer(h[1..(i - 1)], rows[i], max)
  <2>1. 1..i \in SUBSET (1..n) /\ 1..i # {} /\ Max(1..i) = i /\ (1..i) \ {i} = 1..(i - 1)
    BY <1>1, <1>3
  <2> QED BY <1>6, <2>1 DEF NextAnswer
<1> DEFINE T == {i \in 0..n : HonestSoFar(h[1..i], rows, max, i)}
<1> HIDE DEF Run, step, c, X
<1>10. 0 \in T
  <2>1. h[1..0] = NoRows
    <3>1. 1..0 = {}
      OBVIOUS
    <3> QED BY <1>8, <3>1
  <2>2. HonestSoFar(NoRows, rows, max, 0)
    <3> DEFINE a == NoRows
    <3>1. a.bodies = <<>> /\ a.used = 0 /\ a.cut = FALSE
      BY DEF NoRows
    <3>2. SumOf(Counts(<<>>)) = 0
      <4>1. Counts(<<>>) = <<>>
        BY DEF Counts
      <4>2. SumOf(<<>>) = 0
        <5>1. <<>> \in Seq(Nat) /\ Len(<<>>) = 0
          OBVIOUS
        <5>2. PICK f \in [0..Len(<<>>) -> Nat] : Adds(f, <<>>) /\ SumOf(<<>>) = f[Len(<<>>)]
          BY <5>1, SumFolds
        <5> QED BY <5>1, <5>2 DEF Adds
      <4> QED BY <4>1, <4>2
    <3>3. a \in AnswerSoFar
      BY <1>0 DEF X
    <3> HIDE DEF a
    <3> QED BY <1>0, <3>1, <3>2, <3>3 DEF HonestSoFar, a
  <2> QED BY <1>1, <2>1, <2>2
<1>11. \A i \in 0..(n - 1) : i \in T => i + 1 \in T
  <2> TAKE i \in 0..(n - 1)
  <2> HAVE i \in T
  <2> DEFINE j == i + 1
  <2>1. j \in 1..n /\ j - 1 = i /\ j \in 0..n
    BY <1>1
  <2>2. HonestSoFar(h[1..(j - 1)], rows, max, j - 1)
    BY <2>1
  <2> HIDE DEF j, T
  <2>3. HonestSoFar(NextAnswer(h[1..(j - 1)], rows[j], max), rows, max, j)
    BY <2>1, <2>2, RowKeeps DEF n
  <2>4. HonestSoFar(h[1..j], rows, max, j)
    BY <1>9, <2>1, <2>3
  <2>5. j \in T
    BY <2>1, <2>4 DEF T
  <2> QED BY <2>5 DEF j
<1> HIDE DEF T
<1>12. \A i \in 0..n : i \in T
  BY <1>1, <1>10, <1>11, UpTo
<1>13. n \in T
  BY <1>1, <1>12
<1> QED BY <1>7, <1>13 DEF T, n

BudgetInputOK == For("budget") => input.rows \in Seq(Row) /\ input.max \in Nat \cup {NoLimit}

\* An answer is within its budget or is said to be cut: of any rows.
LEMMA BudgetHolds == BudgetInputOK => BudgetHonest
<1> SUFFICES ASSUME BudgetInputOK, For("budget")
             PROVE  LET out == FormatRows(input.rows, input.max) IN
                    /\ input.max > 0 => SumOf([k \in DOMAIN out.bodies |-> TokenCount(out.bodies[k])]) <= input.max
                    /\ \A k \in DOMAIN out.bodies : IsPrefix(out.bodies[k], input.rows[k].text)
                    /\ out.cut <=> out.bodies # [k \in DOMAIN input.rows |-> input.rows[k].text]
  BY DEF BudgetHonest
<1> DEFINE out == FormatRows(input.rows, input.max)
           rows == input.rows
           n == Len(rows)
           full == [k \in DOMAIN rows |-> rows[k].text]
<1>1. rows \in Seq(Row) /\ input.max \in Nat \cup {NoLimit}
  BY DEF BudgetInputOK
<1>2. HonestSoFar(out, rows, input.max, n)
  BY <1>1, RowsHonest
<1>3. n \in Nat /\ full = [k \in 1..n |-> rows[k].text]
  BY <1>1
<1> HIDE DEF out, n, full
<1>4. /\ out.bodies \in Seq(Seq(Nat)) /\ DOMAIN out.bodies = 1..Len(out.bodies) /\ out.cut \in BOOLEAN
      /\ out.bodies = [k \in 1..Len(out.bodies) |-> out.bodies[k]]
  <2>1. out.bodies \in Seq(Seq(Nat)) /\ out.cut \in BOOLEAN
    BY <1>2 DEF HonestSoFar, AnswerSoFar
  <2> QED BY <2>1
<1>5. out.cut = FALSE <=> out.bodies = full
  <2>1. ASSUME out.cut = FALSE PROVE out.bodies = full
    <3>1. Len(out.bodies) = n /\ \A k \in 1..n : out.bodies[k] = rows[k].text
      BY <1>2, <2>1 DEF HonestSoFar
    <3> QED BY <1>3, <1>4, <3>1
  <2>2. ASSUME out.bodies = full PROVE out.cut = FALSE
    <3>1. Len(out.bodies) = n
      <4>1. DOMAIN out.bodies = 1..n /\ Len(out.bodies) \in Nat
        BY <1>3, <1>4, <2>2
      <4> QED BY <1>3, <1>4, <4>1
    <3>2. \A k \in 1..n : out.bodies[k] = rows[k].text
      BY <1>3, <2>2
    <3> QED BY <1>2, <3>1, <3>2 DEF HonestSoFar
  <2> QED BY <2>1, <2>2
<1>6. input.max > 0 => SumOf(Counts(out.bodies)) <= input.max
  BY <1>2 DEF HonestSoFar
<1>7. \A k \in DOMAIN out.bodies : IsPrefix(out.bodies[k], input.rows[k].text)
  BY <1>2, <1>4 DEF HonestSoFar
<1>8. out.cut <=> out.bodies # full
  BY <1>4, <1>5
<1> QED BY <1>6, <1>7, <1>8 DEF Counts, out, full

(***************************************************************************)
(* Answers: the blend of two pools.                                        *)
(***************************************************************************)

\* Hits of the two pools; no two of one pool have one id.
Hit == [score : Int, code : BOOLEAN, id : Int]
EachFirst(s) == \A i, j \in DOMAIN s : i = j \/ Before(s[i], s[j]) \/ Before(s[j], s[i])
BeforePlaces(s) == {p \in (DOMAIN s) \X (DOMAIN s) : Before(s[p[1]], s[p[2]])}
BestOf(S) == {p \in S \X S : Before(p[1], p[2])}

\* The order of hits is total on those that differ.
LEMMA BeforeOrders ==
  /\ \A x \in Hit : ~ Before(x, x)
  /\ \A x, y, z \in Hit : Before(x, y) /\ Before(y, z) => Before(x, z)
<1>1. \A x \in Hit : x.score \in Int /\ x.code \in BOOLEAN /\ x.id \in Int
  BY DEF Hit
<1>2. \A x \in Hit : ~ Before(x, x)
  BY <1>1 DEF Before
<1>3. ASSUME NEW x \in Hit, NEW y \in Hit, NEW z \in Hit, Before(x, y), Before(y, z) PROVE Before(x, z)
  <2>1. x.score >= y.score /\ y.score >= z.score
    BY <1>1, <1>3 DEF Before
  <2>2. CASE x.score > z.score
    BY <2>2 DEF Before
  <2>3. CASE x.score = y.score /\ y.score = z.score
    BY <1>1, <1>3, <2>3 DEF Before
  <2> QED BY <1>1, <2>1, <2>2, <2>3
<1> QED BY <1>2, <1>3

\* Sorting them puts the best first.
LEMMA BlendSorted ==
  ASSUME NEW s \in Seq(Hit), EachFirst(s)
  PROVE  /\ InOrder(Sorted(s, Before), ToSet(s), BestOf(ToSet(s))) /\ TotalOrder(BestOf(ToSet(s)), ToSet(s))
         /\ IsFiniteSet(ToSet(s)) /\ Cardinality(ToSet(s)) = Len(s)
<1> DEFINE D == DOMAIN s
           R == BeforePlaces(s)
           p == Places(D, R)
           n == Len(s)
           S == ToSet(s)
           Ahead(i, j) == Before(s[i], s[j]) \/ (~ Before(s[j], s[i]) /\ i < j)
<1>1. D = 1..n /\ n \in Nat /\ \A i \in D : s[i] \in Hit
  OBVIOUS
<1>2. IsFiniteSet(D) /\ Cardinality(D) = n
  <2>1. \A m \in Nat : Cardinality(1..m) = m /\ IsFiniteSet(1..m)
    BY FS_Interval
  <2> QED BY <1>1, <2>1
<1>3. \A x, y \in D : <<x, y>> \in R <=> Before(s[x], s[y])
  BY DEF BeforePlaces
<1> HIDE DEF R
<1>4. TotalOrder(R, D)
  <2>1. \A x \in D : <<x, x>> \notin R
    BY <1>1, <1>3, BeforeOrders
  <2>2. \A x, y, z \in D : <<x, y>> \in R /\ <<y, z>> \in R => <<x, z>> \in R
    BY <1>1, <1>3, BeforeOrders
  <2>3. \A x, y \in D : x = y \/ <<x, y>> \in R \/ <<y, x>> \in R
    BY <1>3 DEF EachFirst
  <2> QED BY <2>1, <2>2, <2>3 DEF TotalOrder
<1>5. InOrder(p, D, R)
  BY <1>2, <1>4, RanksOrder
<1>6. \A x, y \in D : Ahead(y, x) <=> <<y, x>> \in R
  <2> TAKE x, y \in D
  <2>1. x = y \/ Before(s[x], s[y]) \/ Before(s[y], s[x])
    BY DEF EachFirst
  <2>2. x = y => ~ (y < x)
    BY <1>1
  <2> QED BY <1>3, <2>1, <2>2
<1>7. Sorted(s, Before) = [k \in 1..n |-> s[p[k]]]
  <2>1. \A x \in D : {y \in D : Ahead(y, x)} = {y \in D : <<y, x>> \in R}
    BY <1>6
  <2> DEFINE one(k) == CHOOSE x \in D : Cardinality({y \in D : Ahead(y, x)}) = k - 1
             two(k) == CHOOSE x \in D : Cardinality({y \in D : <<y, x>> \in R}) = k - 1
             q == [k \in 1..n |-> one(k)]
  <2>2. \A k \in 1..n : one(k) = two(k)
    BY <2>1
  <2>3. p = [k \in 1..n |-> two(k)]
    BY <1>2 DEF Places
  <2>4. Ranked(D, Ahead) = q
    BY <1>2 DEF Ranked
  <2> HIDE DEF one, two, p, Ahead
  <2>5. q = p
    BY <2>2, <2>3
  <2>6. DOMAIN q = 1..n
    OBVIOUS
  <2> HIDE DEF q
  <2>7. Sorted(s, Before) = [k \in DOMAIN q |-> s[q[k]]]
    BY <2>4 DEF Sorted, Ahead
  <2> QED BY <2>5, <2>6, <2>7
<1> DEFINE t == [k \in 1..n |-> s[p[k]]]
<1> HIDE DEF p
<1>8. p \in [1..n -> D] /\ (\A i, j \in 1..n : i < j => <<p[i], p[j]>> \in R) /\ \A x \in D : \E i \in 1..n : p[i] = x
  BY <1>2, <1>5 DEF InOrder
<1> DEFINE f == [i \in D |-> s[i]]
<1>9. f \in Bijection(D, S)
  <2>1. S = {s[i] : i \in D}
    BY DEF ToSet
  <2>2. \A i, j \in D : s[i] = s[j] => i = j
    BY <1>1, BeforeOrders DEF EachFirst
  <2> HIDE DEF D, S
  <2>3. f \in [D -> S] /\ (\A i, j \in D : f[i] = f[j] => i = j) /\ \A x \in S : \E i \in D : f[i] = x
    BY <2>1, <2>2
  <2> QED BY <2>3 DEF Bijection, Injection, Surjection, IsInjective
<1>10. IsFiniteSet(S) /\ Cardinality(S) = n
  BY <1>2, <1>9, FS_Bijection DEF ExistsBijection
<1>11. \A x \in S : \E i \in D : s[i] = x
  BY DEF ToSet
<1>12. \A i \in D : s[i] \in S
  BY DEF ToSet
<1>13. \A x, y \in S : <<x, y>> \in BestOf(S) <=> Before(x, y)
  BY DEF BestOf
<1>14. TotalOrder(BestOf(S), S)
  <2>1. \A x \in S : x \in Hit
    BY <1>1, <1>11
  <2>2. \A x, y \in S : x = y \/ Before(x, y) \/ Before(y, x)
    BY <1>11 DEF EachFirst
  <2> HIDE DEF S
  <2> QED BY <1>13, <2>1, <2>2, BeforeOrders DEF TotalOrder
<1> HIDE DEF D, S, n, t
<1>15. InOrder(t, S, BestOf(S))
  <2>1. t \in [1..n -> S]
    BY <1>8, <1>12 DEF t
  <2>2. \A k \in 1..n : t[k] = s[p[k]] /\ p[k] \in D
    BY <1>8 DEF t
  <2>3. \A i, j \in 1..n : i < j => <<t[i], t[j]>> \in BestOf(S)
    BY <1>3, <1>8, <1>12, <1>13, <2>2
  <2>4. \A x \in S : \E i \in 1..n : t[i] = x
    BY <1>8, <1>11, <2>2
  <2> QED BY <1>10, <2>1, <2>3, <2>4 DEF InOrder
<1> QED BY <1>7, <1>10, <1>14, <1>15 DEF S, n, t

Pool(s, code) ==
  /\ s \in Seq(Hit) /\ \A i \in DOMAIN s : s[i].code = code
  /\ \A i, j \in DOMAIN s : s[i].id = s[j].id => i = j
BlendInputOK == For("blend") => Pool(input.code, TRUE) /\ Pool(input.know, FALSE) /\ input.topk \in Nat

\* The two pools as one list.
LEMMA PoolsJoined ==
  ASSUME NEW a, NEW b, NEW c \in BOOLEAN, Pool(a, c), Pool(b, ~c)
  PROVE  (a \o b) \in Seq(Hit) /\ EachFirst(a \o b) /\ ToSet(a \o b) = ToSet(a) \cup ToSet(b)
<1> DEFINE s == a \o b
           m == Len(a)
           n == Len(b)
<1>1. a \in Seq(Hit) /\ b \in Seq(Hit) /\ m \in Nat /\ n \in Nat /\ DOMAIN a = 1..m /\ DOMAIN b = 1..n
  BY DEF Pool
<1>2. s \in Seq(Hit) /\ IsJoined(s, a, b)
  BY <1>1, Joined
<1> HIDE DEF s, m, n
<1>3. DOMAIN s = 1..(m + n) /\ (\A i \in 1..m : s[i] = a[i]) /\ \A j \in 1..n : s[m + j] = b[j]
  BY <1>1, <1>2 DEF IsJoined, m, n
<1>4. \A i \in 1..(m + n) : i \in 1..m \/ (i - m \in 1..n /\ m + (i - m) = i)
  BY <1>1
<1>5. \A x \in Hit : x.score \in Int /\ x.code \in BOOLEAN /\ x.id \in Int
  BY DEF Hit
<1>6. \A i \in 1..m : a[i] \in Hit /\ a[i].code = c
  BY <1>1 DEF Pool
<1>7. \A i \in 1..n : b[i] \in Hit /\ b[i].code = ~ c
  BY <1>1 DEF Pool
<1>8. ASSUME NEW x \in Hit, NEW y \in Hit, x.code # y.code \/ x.id # y.id PROVE Before(x, y) \/ Before(y, x)
  BY <1>5, <1>8 DEF Before
<1>9. ASSUME NEW i \in 1..(m + n), NEW j \in 1..(m + n), i # j PROVE Before(s[i], s[j]) \/ Before(s[j], s[i])
  <2>1. CASE i \in 1..m /\ j \in 1..m
    <3>1. a[i].id # a[j].id
      BY <1>1, <1>9, <2>1 DEF Pool
    <3> QED BY <1>3, <1>6, <1>8, <2>1, <3>1
  <2>2. CASE i \in 1..m /\ j \notin 1..m
    <3>1. s[i] = a[i] /\ s[j] = b[j - m] /\ j - m \in 1..n
      BY <1>3, <1>4, <2>2
    <3>2. s[i] \in Hit /\ s[j] \in Hit /\ s[i].code # s[j].code
      BY <1>6, <1>7, <2>2, <3>1
    <3> QED BY <1>8, <3>2
  <2>3. CASE i \notin 1..m /\ j \in 1..m
    <3>1. s[j] = a[j] /\ s[i] = b[i - m] /\ i - m \in 1..n
      BY <1>3, <1>4, <2>3
    <3>2. s[i] \in Hit /\ s[j] \in Hit /\ s[i].code # s[j].code
      BY <1>6, <1>7, <2>3, <3>1
    <3> QED BY <1>8, <3>2
  <2>4. CASE i \notin 1..m /\ j \notin 1..m
    <3>1. s[j] = b[j - m] /\ s[i] = b[i - m] /\ i - m \in 1..n /\ j - m \in 1..n /\ i - m # j - m
      BY <1>1, <1>3, <1>4, <1>9, <2>4
    <3>2. b[i - m].id # b[j - m].id
      BY <1>1, <3>1 DEF Pool
    <3> QED BY <1>7, <1>8, <3>1, <3>2
  <2> QED BY <2>1, <2>2, <2>3, <2>4
<1>10. EachFirst(s)
  BY <1>3, <1>9 DEF EachFirst
<1>11. ToSet(s) = ToSet(a) \cup ToSet(b)
  <2>1. ToSet(s) = {s[i] : i \in 1..(m + n)} /\ ToSet(a) = {a[i] : i \in 1..m} /\ ToSet(b) = {b[i] : i \in 1..n}
    BY <1>1, <1>3 DEF ToSet
  <2>2. \A j \in 1..n : m + j \in 1..(m + n)
    BY <1>1
  <2>3. \A i \in 1..m : i \in 1..(m + n)
    BY <1>1
  <2> QED BY <1>3, <1>4, <2>1, <2>2, <2>3
<1> QED BY <1>2, <1>10, <1>11 DEF s

\* The blend shows the best of both pools: of any two.
LEMMA BlendHolds == BlendInputOK => BlendShowsBest
<1> SUFFICES ASSUME BlendInputOK, For("blend")
             PROVE  LET out == RenderBlend(input.code, input.know, input.topk)
                        all == ToSet(input.code \o input.know) IN
                    /\ out = RenderBlend(input.know, input.code, input.topk)
                    /\ \A x \in all \ ToSet(out), y \in ToSet(out) : ~Before(x, y)
                    /\ Len(out) = (IF Cardinality(all) < input.topk THEN Cardinality(all) ELSE input.topk)
  BY DEF BlendShowsBest
<1> DEFINE s == input.code \o input.know
           r == input.know \o input.code
           all == ToSet(s)
           t == Sorted(s, Before)
           n == Cardinality(all)
           k == input.topk
           m == IF k < n THEN k ELSE n
           out == Take(t, k)
<1>1. Pool(input.code, TRUE) /\ Pool(input.know, FALSE) /\ k \in Nat
  BY DEF BlendInputOK
<1>2. s \in Seq(Hit) /\ EachFirst(s) /\ all = ToSet(input.code) \cup ToSet(input.know)
  BY <1>1, PoolsJoined
<1>3. r \in Seq(Hit) /\ EachFirst(r) /\ ToSet(r) = all
  <2>1. TRUE = ~ FALSE
    OBVIOUS
  <2>2. r \in Seq(Hit) /\ EachFirst(r) /\ ToSet(r) = ToSet(input.know) \cup ToSet(input.code)
    BY <1>1, <2>1, PoolsJoined
  <2> HIDE DEF all, r
  <2> QED BY <1>2, <2>2
<1> HIDE DEF s, r
<1>4. InOrder(t, all, BestOf(all)) /\ TotalOrder(BestOf(all), all) /\ IsFiniteSet(all) /\ n \in Nat
  <2>1. InOrder(t, all, BestOf(all)) /\ TotalOrder(BestOf(all), all) /\ IsFiniteSet(all)
    BY <1>2, BlendSorted
  <2> QED BY <2>1, FS_CardinalityType
<1>5. InOrder(Sorted(r, Before), all, BestOf(all))
  BY <1>3, BlendSorted
<1> HIDE DEF all, t
<1>6. t = Sorted(r, Before)
  BY <1>4, <1>5, OneOrder
<1>7. out = RenderBlend(input.code, input.know, k) /\ out = RenderBlend(input.know, input.code, k)
  BY <1>6 DEF RenderBlend, t, s, r
<1> HIDE DEF n, k
<1>8. t \in [1..n -> all] /\ (\A i, j \in 1..n : i < j => Before(t[i], t[j])) /\ \A x \in all : \E i \in 1..n : t[i] = x
  BY <1>4 DEF InOrder, BestOf, n
<1>9. t \in Seq(all) /\ Len(t) = n
  BY <1>4, <1>8
<1>10. m \in Nat /\ m <= n /\ (IF k < Len(t) THEN k ELSE Len(t)) = m
  BY <1>1, <1>4, <1>9
<1> HIDE DEF m
<1>11. out = SubSeq(t, 1, m)
  BY <1>10 DEF Take
<1>12. Len(out) = m /\ DOMAIN out = 1..m /\ \A i \in 1..m : out[i] = t[i]
  BY <1>4, <1>9, <1>10, <1>11
<1> HIDE DEF out
<1>13. ASSUME NEW x \in all \ ToSet(out), NEW y \in ToSet(out) PROVE ~ Before(x, y)
  <2>1. PICK i \in 1..n : t[i] = x
    BY <1>8
  <2>2. PICK j \in 1..m : out[j] = y
    BY <1>12 DEF ToSet
  <2>3. i \notin 1..m
    <3> SUFFICES ASSUME i \in 1..m PROVE FALSE
      OBVIOUS
    <3>1. out[i] = x
      BY <1>12, <2>1
    <3> QED BY <1>12, <3>1 DEF ToSet
  <2>4. j < i /\ j \in 1..n
    BY <1>4, <1>10, <2>3
  <2>5. Before(y, x)
    BY <1>8, <1>12, <2>1, <2>2, <2>4
  <2>6. x \in Hit /\ y \in Hit
    <3>1. \A i1 \in 1..n : t[i1] \in Hit
      <4>1. \A z \in all : z \in Hit
        BY <1>2 DEF all, ToSet
      <4> QED BY <1>8, <4>1
    <3> QED BY <1>12, <2>1, <2>2, <2>4, <3>1
  <2> QED BY <2>5, <2>6, BeforeOrders
<1>14. Len(out) = IF n < k THEN n ELSE k
  BY <1>1, <1>4, <1>12 DEF m
<1> QED BY <1>7, <1>13, <1>14 DEF all, n, k, s

(***************************************************************************)
(* Answers: rankings, and the recall of remembered decisions.              *)
(***************************************************************************)

\* Positions with numbers for a score and for an id.
Scored(idx, n, score, id) == idx = [k \in 1..n |-> idx[k]] /\ \A k \in 1..n : score[idx[k]] \in Int /\ id[idx[k]] \in Int
Above(score, id, i, j) == score[i] > score[j] \/ (score[i] = score[j] /\ id[i] < id[j])
Nearer(idx, n, score, id) ==
  {p \in (1..n) \X (1..n) : Above(score, id, idx[p[1]], idx[p[2]])
                            \/ (~ Above(score, id, idx[p[2]], idx[p[1]]) /\ p[1] < p[2])}

\* Sorting positions by score ranks them.
LEMMA SortByIs ==
  ASSUME NEW n \in Nat, NEW idx, NEW score, NEW id, Scored(idx, n, score, id)
  PROVE  \E p : InOrder(p, 1..n, Nearer(idx, n, score, id)) /\ SortBy(idx, score, id) = [k \in 1..n |-> idx[p[k]]]
<1> DEFINE D == 1..n
           R == Nearer(idx, n, score, id)
           p == Places(D, R)
           Higher(i, j) == score[i] > score[j] \/ (score[i] = score[j] /\ id[i] < id[j])
           Ahead(i, j) == Higher(idx[i], idx[j]) \/ (~ Higher(idx[j], idx[i]) /\ i < j)
<1>1. IsFiniteSet(D) /\ Cardinality(D) = n
  BY FS_Interval
<1>2. DOMAIN idx = D
  BY DEF Scored
<1>3. \A k \in D : score[idx[k]] \in Int /\ id[idx[k]] \in Int
  BY DEF Scored
<1>4. \A x, y \in D : Ahead(y, x) <=> <<y, x>> \in R
  BY DEF Nearer, Above
<1> DEFINE A(i, j) == Above(score, id, idx[i], idx[j])
<1>5. \A x \in D : ~ A(x, x)
  BY <1>3 DEF Above
<1>6. ASSUME NEW x \in D, NEW y \in D, NEW z \in D, A(x, y) \/ (~ A(y, x) /\ x < y), A(y, z) \/ (~ A(z, y) /\ y < z)
      PROVE  A(x, z) \/ (~ A(z, x) /\ x < z)
  <2> DEFINE a == score[idx[x]]
             b == score[idx[y]]
             c == score[idx[z]]
             u == id[idx[x]]
             v == id[idx[y]]
             w == id[idx[z]]
  <2>1. a \in Int /\ b \in Int /\ c \in Int /\ u \in Int /\ v \in Int /\ w \in Int /\ x \in Int /\ y \in Int /\ z \in Int
    BY <1>3
  <2>2. (a > b \/ (a = b /\ u < v)) \/ (~ (b > a \/ (b = a /\ v < u)) /\ x < y)
    BY <1>6 DEF Above
  <2>3. (b > c \/ (b = c /\ v < w)) \/ (~ (c > b \/ (c = b /\ w < v)) /\ y < z)
    BY <1>6 DEF Above
  <2> HIDE DEF a, b, c, u, v, w
  <2>4. (a > c \/ (a = c /\ u < w)) \/ (~ (c > a \/ (c = a /\ w < u)) /\ x < z)
    BY <2>1, <2>2, <2>3
  <2> QED BY <2>4 DEF Above, a, b, c, u, v, w
<1>7. \A x, y \in D : <<x, y>> \in R <=> A(x, y) \/ (~ A(y, x) /\ x < y)
  BY DEF Nearer
<1> HIDE DEF R, A, Ahead
<1>8. TotalOrder(R, D)
  <2>1. \A x \in D : <<x, x>> \notin R
    BY <1>5, <1>7
  <2>2. \A x, y, z \in D : <<x, y>> \in R /\ <<y, z>> \in R => <<x, z>> \in R
    BY <1>6, <1>7
  <2>3. \A x, y \in D : x = y \/ <<x, y>> \in R \/ <<y, x>> \in R
    <3> TAKE x, y \in D
    <3>1. x = y \/ x < y \/ y < x
      OBVIOUS
    <3> HIDE DEF D
    <3> QED BY <1>7, <3>1
  <2> HIDE DEF D
  <2> QED BY <2>1, <2>2, <2>3 DEF TotalOrder
<1>9. InOrder(p, D, R)
  BY <1>1, <1>8, RanksOrder
<1>10. SortBy(idx, score, id) = [k \in 1..n |-> idx[p[k]]]
  <2>1. \A x \in D : {y \in D : Ahead(y, x)} = {y \in D : <<y, x>> \in R}
    BY <1>4
  <2> DEFINE one(k) == CHOOSE x \in D : Cardinality({y \in D : Ahead(y, x)}) = k - 1
             two(k) == CHOOSE x \in D : Cardinality({y \in D : <<y, x>> \in R}) = k - 1
             q == [k \in 1..n |-> one(k)]
  <2>2. \A k \in 1..n : one(k) = two(k)
    BY <2>1
  <2>3. p = [k \in 1..n |-> two(k)]
    BY <1>1 DEF Places
  <2>4. Ranked(D, Ahead) = q
    BY <1>1 DEF Ranked
  <2> HIDE DEF one, two, p, Ahead, D
  <2>5. q = p
    BY <2>2, <2>3
  <2>6. DOMAIN q = 1..n
    OBVIOUS
  <2> HIDE DEF q
  <2>7. SortBy(idx, score, id) = [k \in DOMAIN q |-> idx[q[k]]]
    BY <1>2, <2>4 DEF SortBy, Sorted, Ahead
  <2> QED BY <2>5, <2>6, <2>7
<1> QED BY <1>9, <1>10 DEF R

\* What a sort promises: the same positions, once each, none of a higher score behind.
SortsWell(t, n, S, score) ==
  /\ t \in [1..n -> S] /\ (\A x \in S : \E k \in 1..n : t[k] = x) /\ (\A i, j \in 1..n : t[i] = t[j] => i = j)
  /\ \A i, j \in 1..n : i < j => score[t[i]] >= score[t[j]]

\* A sorted list of positions in order is what the sort promises.
LEMMA SortByWell ==
  ASSUME NEW S \in SUBSET Int, IsFiniteSet(S), NEW n \in Nat, NEW idx \in [1..n -> S],
         \A x \in S : \E k \in 1..n : idx[k] = x, \A i, j \in 1..n : idx[i] = idx[j] => i = j,
         NEW score, NEW id, \A x \in S : score[x] \in Int /\ id[x] \in Int
  PROVE  SortsWell(SortBy(idx, score, id), n, S, score)
<1>1. Scored(idx, n, score, id)
  BY DEF Scored
<1>2. PICK p : InOrder(p, 1..n, Nearer(idx, n, score, id)) /\ SortBy(idx, score, id) = [k \in 1..n |-> idx[p[k]]]
  BY <1>1, SortByIs
<1> DEFINE t == [k \in 1..n |-> idx[p[k]]]
<1>3. Cardinality(1..n) = n
  BY FS_Interval
<1>4. /\ p \in [1..n -> 1..n] /\ (\A i, j \in 1..n : i < j => <<p[i], p[j]>> \in Nearer(idx, n, score, id))
      /\ \A x \in 1..n : \E i \in 1..n : p[i] = x
  BY <1>2, <1>3 DEF InOrder
<1>5. \A k \in 1..n : t[k] = idx[p[k]] /\ p[k] \in 1..n /\ t[k] \in S
  BY <1>4
<1>6. t \in [1..n -> S]
  BY <1>5
<1> HIDE DEF t
<1>7. ASSUME NEW x \in S PROVE \E k \in 1..n : t[k] = x
  <2>1. PICK j \in 1..n : idx[j] = x
    OBVIOUS
  <2>2. PICK k \in 1..n : p[k] = j
    BY <1>4
  <2> QED BY <1>5, <2>1, <2>2
<1>8. ASSUME NEW i \in 1..n, NEW j \in 1..n, i < j PROVE p[i] # p[j] /\ score[t[i]] >= score[t[j]]
  <2>1. Above(score, id, idx[p[i]], idx[p[j]]) \/ (~ Above(score, id, idx[p[j]], idx[p[i]]) /\ p[i] < p[j])
    BY <1>4, <1>8 DEF Nearer
  <2>2. score[t[i]] \in Int /\ score[t[j]] \in Int /\ id[t[i]] \in Int /\ id[t[j]] \in Int /\ p[i] \in Int /\ p[j] \in Int
    <3>1. t[i] \in S /\ t[j] \in S /\ p[i] \in 1..n /\ p[j] \in 1..n
      BY <1>5
    <3>2. \A x \in S : score[x] \in Int /\ id[x] \in Int
      OBVIOUS
    <3>3. p[i] \in Int /\ p[j] \in Int
      BY <3>1
    <3>4. score[t[i]] \in Int /\ id[t[i]] \in Int
      BY <3>1, <3>2, Zenon
    <3>5. score[t[j]] \in Int /\ id[t[j]] \in Int
      BY <3>1, <3>2, Zenon
    <3> QED BY <3>3, <3>4, <3>5
  <2>3. Above(score, id, t[i], t[j]) \/ (~ Above(score, id, t[j], t[i]) /\ p[i] < p[j])
    BY <1>5, <2>1
  <2> QED BY <1>5, <2>2, <2>3 DEF Above
<1>9. \A i, j \in 1..n : t[i] = t[j] => i = j
  <2> TAKE i, j \in 1..n
  <2> HAVE t[i] = t[j]
  <2>1. p[i] = p[j]
    BY <1>5
  <2>2. ~ (i < j) /\ ~ (j < i)
    BY <1>8, <2>1
  <2> QED BY <2>2
<1> QED BY <1>2, <1>6, <1>7, <1>8, <1>9 DEF SortsWell, t

\* Putting numbers in order,
LEMMA AscendingIs ==
  ASSUME NEW S \in SUBSET Int, IsFiniteSet(S)
  PROVE  /\ Cardinality(S) \in Nat /\ Ascending(S) \in [1..Cardinality(S) -> S]
         /\ \A x \in S : \E k \in 1..Cardinality(S) : Ascending(S)[k] = x
         /\ \A i, j \in 1..Cardinality(S) : Ascending(S)[i] = Ascending(S)[j] => i = j
         /\ \A i, j \in 1..Cardinality(S) : i < j => Ascending(S)[i] < Ascending(S)[j]
<1> DEFINE a == Ascending(S)
           n == Cardinality(S)
<1>1. n \in Nat
  BY FS_CardinalityType
<1>2. a = Ranked(S, <)
  BY DEF Ascending
<1> HIDE DEF a
<1>3. InOrder(a, S, Below(S))
  BY <1>2, PositionsInOrder
<1> HIDE DEF n
<1>4. a \in [1..n -> S] /\ (\A i, j \in 1..n : i < j => a[i] < a[j]) /\ \A x \in S : \E i \in 1..n : a[i] = x
  BY <1>3 DEF InOrder, Below, n
<1>5. \A i, j \in 1..n : a[i] = a[j] => i = j
  <2> TAKE i, j \in 1..n
  <2> HAVE a[i] = a[j]
  <2>1. a[i] \in Int /\ a[j] \in Int
    BY <1>4
  <2>2. ~ (i < j) /\ ~ (j < i)
    BY <1>4, <2>1
  <2> QED BY <1>1, <2>2
<1> QED BY <1>1, <1>4, <1>5 DEF a, n

\* which loses none and doubles none.
LEMMA AscendingSorted ==
  ASSUME NEW S \in SUBSET Int, IsFiniteSet(S), NEW score, NEW id, \A x \in S : score[x] \in Int /\ id[x] \in Int
  PROVE  Cardinality(S) \in Nat /\ SortsWell(SortBy(Ascending(S), score, id), Cardinality(S), S, score)
<1> DEFINE a == Ascending(S)
           n == Cardinality(S)
<1>1. /\ n \in Nat /\ a \in [1..n -> S] /\ (\A x \in S : \E k \in 1..n : a[k] = x)
      /\ \A i, j \in 1..n : a[i] = a[j] => i = j
  BY AscendingIs
<1> HIDE DEF a, n
<1>2. SortsWell(SortBy(a, score, id), n, S, score)
  BY <1>1, SortByWell
<1> QED BY <1>1, <1>2 DEF a, n

\* Taking the first k of n.
IsTaken(u, t, n, S, k, m) ==
  /\ m = (IF k < n THEN k ELSE n) /\ u \in [1..m -> S] /\ Len(u) = m /\ \A i \in 1..m : u[i] = t[i] /\ i \in 1..n

\* The first k of a list.
LEMMA TakeIs ==
  ASSUME NEW n \in Nat, NEW S, NEW t \in [1..n -> S], NEW k \in Nat
  PROVE  \E m \in Nat : IsTaken(Take(t, k), t, n, S, k, m)
<1> DEFINE m == IF k < n THEN k ELSE n
<1>1. t \in Seq(S) /\ Len(t) = n
  OBVIOUS
<1>2. Take(t, k) = SubSeq(t, 1, m)
  BY <1>1 DEF Take
<1>3. m \in Nat /\ m <= n
  OBVIOUS
<1> HIDE DEF m
<1>4. SubSeq(t, 1, m) \in [1..m -> S] /\ Len(SubSeq(t, 1, m)) = m /\ \A i \in 1..m : SubSeq(t, 1, m)[i] = t[i]
  <2> DEFINE u == SubSeq(t, 1, m)
  <2>1. u \in Seq(S) /\ Len(u) = m /\ \A i \in 1..m : u[i] = t[i]
    BY <1>1, <1>3
  <2> HIDE DEF u
  <2>2. u \in [1..m -> S]
    BY <1>3, <2>1
  <2> QED BY <2>1, <2>2 DEF u
<1>5. \A i \in 1..m : i \in 1..n
  BY <1>3
<1>6. IsTaken(Take(t, k), t, n, S, k, m)
  BY <1>2, <1>4, <1>5 DEF IsTaken, m
<1> QED BY <1>3, <1>6

\* What is picked of a sequence.
IsPicked(p, s, at, c) == p \in [1..c -> {s[i] : i \in at}] /\ \A i \in at : \E k \in 1..c : p[k] = s[i]

\* What is picked from a list, and in which order.
LEMMA PickedIs ==
  ASSUME NEW n \in Nat, NEW S, NEW s \in [1..n -> S], NEW at \in SUBSET (1..n)
  PROVE  Cardinality(at) \in Nat /\ IsPicked(Picked(s, at), s, at, Cardinality(at))
<1> DEFINE c == Cardinality(at)
           a == Ascending(at)
<1>1. IsFiniteSet(at) /\ at \in SUBSET Int
  <2>1. IsFiniteSet(1..n)
    BY FS_Interval
  <2>2. IsFiniteSet(at)
    BY <2>1, FS_Subset
  <2> QED BY <2>2
<1>2. c \in Nat /\ a \in [1..c -> at] /\ \A x \in at : \E k \in 1..c : a[k] = x
  BY <1>1, AscendingIs
<1>3. Picked(s, at) = [k \in 1..c |-> s[a[k]]]
  BY DEF Picked, Ascending
<1> HIDE DEF a, c
<1>4. \A k \in 1..c : s[a[k]] \in {s[i] : i \in at}
  BY <1>2
<1>5. ASSUME NEW i \in at PROVE \E k \in 1..c : Picked(s, at)[k] = s[i]
  <2>1. PICK k \in 1..c : a[k] = i
    BY <1>2
  <2> QED BY <1>3, <2>1
<1>6. Picked(s, at) \in [1..c -> {s[i] : i \in at}]
  BY <1>3, <1>4
<1> QED BY <1>2, <1>5, <1>6 DEF c, IsPicked

\* The elements of a finite set in some order.
LEMMA SetAsSeq ==
  ASSUME NEW S, IsFiniteSet(S)
  PROVE  /\ Cardinality(S) \in Nat /\ SetToSeq(S) \in [1..Cardinality(S) -> S]
         /\ (\A x \in S : \E k \in 1..Cardinality(S) : SetToSeq(S)[k] = x)
         /\ \A i, j \in 1..Cardinality(S) : SetToSeq(S)[i] = SetToSeq(S)[j] => i = j
<1> DEFINE n == Cardinality(S)
           f == SetToSeq(S)
<1>1. n \in Nat /\ ExistsBijection(1..n, S)
  BY FS_CardinalityType
<1>2. \E g \in [1..n -> S] : IsInjective(g)
  BY <1>1 DEF ExistsBijection, Bijection, Injection
<1>3. f \in [1..n -> S] /\ IsInjective(f)
  BY <1>2 DEF SetToSeq
<1> HIDE DEF n, f
<1>4. f \in Injection(1..n, S) /\ IsFiniteSet(1..n) /\ Cardinality(1..n) = n
  BY <1>1, <1>3, FS_Interval DEF Injection
<1>5. f \in Surjection(1..n, S)
  BY <1>4, FS_Injection DEF n
<1>6. \A x \in S : \E k \in 1..n : f[k] = x
  BY <1>5 DEF Surjection
<1>7. \A i, j \in 1..n : f[i] = f[j] => i = j
  BY <1>3 DEF IsInjective
<1> QED BY <1>1, <1>3, <1>6, <1>7 DEF n, f

\* The greatest of some numbers that are bounded is one of them.
LEMMA BoundedMax ==
  ASSUME NEW N \in Nat, NEW S \in SUBSET (0..N), S # {}
  PROVE  Max(S) \in S
<1> DEFINE gaps == {N - i : i \in S}
<1>1. \A i \in S : i \in 0..N /\ N - i \in Nat
  OBVIOUS
<1>2. gaps \in SUBSET Nat /\ gaps # {}
  BY <1>1
<1>3. PICK m \in gaps : \A k \in gaps : m <= k
  BY <1>2, LeastNumber
<1>4. PICK i \in S : m = N - i
  BY <1>3
<1>5. \A j \in S : i >= j
  <2> TAKE j \in S
  <2>1. N - j \in gaps /\ i \in Nat /\ j \in Nat
    BY <1>1
  <2>2. m <= N - j
    BY <1>3, <2>1
  <2> QED BY <1>4, <2>1, <2>2
<1> QED BY <1>5 DEF Max

\* A chunk as a search sees it; candidates are positions in a sequence of them.
Chunk(c) == c.cos \in Int /\ c.kw \in Int /\ c.id \in Int
ChunksOf(chunks, n) == DOMAIN chunks = 1..n /\ \A i \in 1..n : Chunk(chunks[i])

\* A place in a list is a whole number, counted from 0.
LEMMA RanksAreWhole ==
  ASSUME NEW m \in Nat, NEW S, NEW v \in [1..m -> S], NEW i
  PROVE  Rank(v, i) \in Nat
<1>1. ToSet(v) = {v[k] : k \in 1..m} /\ DOMAIN v = 1..m
  BY DEF ToSet
<1>2. i \in ToSet(v) => \E k \in 1..m : v[k] = i
  BY <1>1
<1>3. Rank(v, i) = IF i \in ToSet(v) THEN CHOOSE k \in 1..m : v[k] = i ELSE 0
  BY <1>1 DEF Rank
<1>4. i \in ToSet(v) => (CHOOSE k \in 1..m : v[k] = i) \in 1..m
  BY <1>2
<1> QED BY <1>3, <1>4

RrfTop == 3000000

\* The fusion's numerator is a number,
LEMMA RrfTopIs == RrfTop \in Nat
  BY SMT DEF RrfTop

\* what is divided is not more than it was,
LEMMA Divided == \A a \in Nat, b \in Nat : b > 0 => (a \div b) \in Nat /\ (a \div b) <= a
  OBVIOUS

\* so that a list's share of a fused score is bounded.
LEMMA RrfBounded ==
  ASSUME NEW m \in Nat, NEW l \in Nat, NEW S, NEW v \in [1..m -> S], NEW f \in [1..l -> S], NEW i, NEW code
  PROVE  Rrf(v, f, i, code) \in 0..RrfTop
<1>1. Rank(v, i) \in Nat /\ Rank(f, i) \in Nat
  BY RanksAreWhole
<1> DEFINE a == Rank(v, i)
           b == Rank(f, i)
           million == 1000000
           most == 1500000
           x == IF i \in ToSet(v) THEN million \div (59 + a) ELSE 0
           y == IF i \in ToSet(f) THEN (IF code THEN most ELSE million) \div (59 + b) ELSE 0
<1>2. Rrf(v, f, i, code) = x + y
  BY SMT DEF Rrf
<1>4. \A d \in Nat : (million \div (59 + d)) \in 0..most /\ (most \div (59 + d)) \in 0..most
  <2>1. million \in Nat /\ most \in Nat /\ million <= most
    BY SMT
  <2> HIDE DEF million, most
  <2>2. \A d \in Nat : 59 + d \in Nat /\ 59 + d > 0
    OBVIOUS
  <2> QED BY <2>1, <2>2, Divided
<1>5. most \in Nat /\ most + most = RrfTop
  BY SMT DEF RrfTop
<1> HIDE DEF a, b, million, most
<1>3. a \in Nat /\ b \in Nat
  BY <1>1 DEF a, b
<1>6. x \in 0..most
  <2>1. (million \div (59 + a)) \in 0..most
    BY <1>3, <1>4
  <2> QED BY <1>5, <2>1
<1>7. y \in 0..most
  <2>1. (million \div (59 + b)) \in 0..most /\ (most \div (59 + b)) \in 0..most
    BY <1>3, <1>4
  <2> QED BY <1>5, <2>1
<1> HIDE DEF x, y
<1> QED BY <1>2, <1>5, <1>6, <1>7

\* Fused scores are whole numbers.
LEMMA ScoresWhole ==
  ASSUME NEW n \in Nat, NEW chunks, ChunksOf(chunks, n), NEW among \in SUBSET (1..n), NEW rrf \in [among -> 0..RrfTop]
  PROVE  \A i \in among : FinalScores(chunks, rrf)[i] \in Int
<1> DEFINE S == {0} \cup {rrf[i] : i \in DOMAIN rrf}
           max == Max(S)
<1>0. RrfTop \in Nat
  BY RrfTopIs
<1>1. S \in SUBSET (0..RrfTop) /\ S # {}
  BY <1>0
<1> HIDE DEF S
<1>2. max \in Nat
  <2>1. max \in S
    BY <1>0, <1>1, BoundedMax
  <2> HIDE DEF max
  <2> QED BY <1>0, <1>1, <2>1
<1> HIDE DEF max
<1>3. FinalScores(chunks, rrf) = [i \in among |-> FinalScore(chunks[i], rrf[i], max)]
  BY DEF FinalScores, S, max
<1>4. ASSUME NEW c, c.cos \in Int, NEW r \in Nat PROVE FinalScore(c, r, max) \in Int
  <2>0. One \in Nat
    BY SMT DEF One
  <2>1. Confidence(c) \in Int
    BY <1>4, <2>0 DEF Confidence
  <2> DEFINE q == IF max = 0 THEN 0 ELSE (r * One) \div max
  <2>2. q \in Int
    <3>1. \A a \in Nat, b \in Nat : b # 0 => (a \div b) \in Int
      OBVIOUS
    <3>2. r * One \in Nat
      BY <2>0
    <3> QED BY <1>2, <3>1, <3>2
  <2> DEFINE s == (Confidence(c) + q) \div 2
  <2>3. FinalScore(c, r, max) = IF Penalised(c) THEN (s * 4) \div 5 ELSE s
    BY DEF FinalScore
  <2> HIDE DEF q
  <2>4. s \in Int
    BY <2>1, <2>2
  <2> HIDE DEF s
  <2> QED BY <2>3, <2>4
<1>5. \A i \in among : chunks[i].cos \in Int /\ rrf[i] \in Nat
  BY <1>0 DEF ChunksOf, Chunk
<1> QED BY <1>3, <1>4, <1>5
Query == [words : BOOLEAN, vector : BOOLEAN, code : BOOLEAN, topk : Nat]

\* A list of positions, without a repetition.
Some(v, n) == \E m \in Nat : v \in [1..m -> 1..n]

\* The candidates that are near the query are chunks.
LEMMA VectorSome ==
  ASSUME NEW n \in Nat, NEW chunks, ChunksOf(chunks, n), NEW q \in Query
  PROVE  Some(VectorCandidates(chunks, q), n)
<1> DEFINE cos == FieldOf(chunks, "cos")
           id == FieldOf(chunks, "id")
           all == Positions(chunks)
           k == IF q.topk = 0 THEN 1 ELSE q.topk * CandidateMultiplier
<1>1. all = [i \in 1..n |-> i] /\ \A i \in 1..n : cos[i] \in Int /\ id[i] \in Int
  BY DEF ChunksOf, Chunk, Positions, FieldOf
<1>2. q.topk \in Nat /\ CandidateMultiplier \in Nat
  BY RetrievalAssumption DEF Query
<1>3. k \in Nat
  BY <1>2
<1> HIDE DEF cos, id, all, k
<1>4. SortsWell(SortBy(all, cos, id), n, 1..n, cos)
  <2>1. (1..n) \in SUBSET Int /\ IsFiniteSet(1..n)
    BY FS_Interval
  <2>2. all \in [1..n -> 1..n] /\ (\A x \in 1..n : \E j \in 1..n : all[j] = x) /\ \A i, j \in 1..n : all[i] = all[j] => i = j
    BY <1>1
  <2> QED BY <1>1, <2>1, <2>2, SortByWell
<1> DEFINE t == SortBy(all, cos, id)
<1>5. t \in [1..n -> 1..n]
  BY <1>4 DEF SortsWell
<1>6. VectorCandidates(chunks, q) = IF ~ q.vector THEN <<>> ELSE Take(t, k)
  BY DEF VectorCandidates, RankByCosine, cos, id, all, k
<1> HIDE DEF t
<1>7. PICK m \in Nat : IsTaken(Take(t, k), t, n, 1..n, k, m)
  BY <1>3, <1>5, TakeIs
<1>8. <<>> \in [1..0 -> 1..n] /\ 0 \in Nat
  OBVIOUS
<1> QED BY <1>6, <1>7, <1>8 DEF Some, IsTaken

\* With room for every chunk, all that share a word with the query are candidates.
LEMMA KeywordAll ==
  ASSUME NEW n \in Nat, NEW chunks, ChunksOf(chunks, n), NEW q \in Query, q.topk >= n
  PROVE  /\ Some(KeywordCandidates(chunks, q), n)
         /\ ToSet(KeywordCandidates(chunks, q)) = {i \in 1..n : chunks[i].kw > 0}
<1> DEFINE S == {i \in DOMAIN chunks : chunks[i].kw > 0}
           kw == FieldOf(chunks, "kw")
           id == FieldOf(chunks, "id")
           k == q.topk * CandidateMultiplier
           c == Cardinality(S)
           t == SortBy(Ascending(S), kw, id)
<1>1. S = {i \in 1..n : chunks[i].kw > 0} /\ \A i \in 1..n : kw[i] \in Int /\ id[i] \in Int
  BY DEF ChunksOf, Chunk, FieldOf
<1>2. S \in SUBSET Int /\ IsFiniteSet(S) /\ c \in Nat /\ c <= n /\ S \in SUBSET (1..n)
  <2>1. IsFiniteSet(1..n) /\ Cardinality(1..n) = n /\ S \in SUBSET (1..n) /\ S \in SUBSET Int
    BY <1>1, FS_Interval
  <2> HIDE DEF S
  <2> QED BY <2>1, FS_Subset, FS_CardinalityType
<1>3. q.topk \in Nat /\ CandidateMultiplier \in Nat /\ CandidateMultiplier > 0
  BY RetrievalAssumption DEF Query
<1>4. k \in Nat /\ k >= n
  BY <1>3
<1>5. \A i \in S : kw[i] \in Int /\ id[i] \in Int
  BY <1>1
<1> HIDE DEF S, kw, id, c, k
<1>6. SortsWell(t, c, S, kw)
  BY <1>2, <1>5, AscendingSorted DEF c
<1>7. KeywordCandidates(chunks, q) = Take(t, k)
  BY DEF KeywordCandidates, S, kw, id, k
<1> HIDE DEF t
<1>8. t \in [1..c -> S] /\ \A x \in S : \E j \in 1..c : t[j] = x
  BY <1>6 DEF SortsWell
<1>9. PICK m \in Nat : IsTaken(Take(t, k), t, c, S, k, m)
  BY <1>2, <1>4, <1>8, TakeIs
<1>10. m = c
  BY <1>2, <1>4, <1>9 DEF IsTaken
<1> DEFINE u == Take(t, k)
<1>11. u \in [1..c -> S] /\ \A i \in 1..c : u[i] = t[i]
  BY <1>9, <1>10 DEF IsTaken
<1> HIDE DEF u
<1>12. ToSet(u) = S
  <2>1. ToSet(u) = {u[i] : i \in 1..c}
    BY <1>11 DEF ToSet
  <2>2. \A x \in S : \E j \in 1..c : u[j] = x
    BY <1>8, <1>11
  <2> QED BY <1>11, <2>1, <2>2
<1>13. u \in [1..c -> 1..n]
  BY <1>2, <1>11
<1> QED BY <1>1, <1>2, <1>7, <1>12, <1>13 DEF Some, u

\* The positions of a file that are under the cap, counted from the front.
Within(A, cap) == {k \in A : Cardinality(A \cap 1..k) <= cap}

\* They are as many as the cap if there are others.
LEMMA CapShares ==
  ASSUME NEW n \in Nat, NEW A \in SUBSET (1..n), NEW cap \in Nat
  PROVE  /\ IsFiniteSet(Within(A, cap)) /\ Cardinality(Within(A, cap)) <= cap
         /\ Within(A, cap) # A => Cardinality(Within(A, cap)) = cap
<1> DEFINE W == Within(A, cap)
<1>1. W \subseteq A /\ \A k \in A : k \in W <=> Cardinality(A \cap 1..k) <= cap
  BY DEF Within
<1> HIDE DEF W
<1>2. \A T \in SUBSET (1..n) : IsFiniteSet(T) /\ Cardinality(T) \in Nat
  <2>1. IsFiniteSet(1..n)
    BY FS_Interval
  <2> TAKE T \in SUBSET (1..n)
  <2>2. IsFiniteSet(T)
    BY <2>1, FS_Subset
  <2> QED BY <2>2, FS_CardinalityType
<1>3. IsFiniteSet(W) /\ Cardinality(W) \in Nat
  BY <1>1, <1>2
<1>4. Cardinality(W) <= cap
  <2>1. CASE W = {}
    BY <2>1, FS_EmptySet
  <2>2. CASE W # {}
    <3> DEFINE B == {j \in Nat : \A k \in W : k <= j}
    <3>1. n \in B
      BY <1>1
    <3>2. PICK m \in B : \A j \in B : m <= j
      <4>1. B \in SUBSET Nat /\ B # {}
        BY <3>1
      <4> HIDE DEF B
      <4> QED BY <4>1, LeastNumber
    <3>3. m \in W
      <4> SUFFICES ASSUME m \notin W PROVE FALSE
        OBVIOUS
      <4>1. PICK k \in W : TRUE
        BY <2>2
      <4>2. k \in Nat /\ k >= 1 /\ k <= m /\ m \in Nat
        BY <1>1, <3>2
      <4>3. m - 1 \in Nat
        BY <4>2
      <4>4. \A x \in W : x <= m - 1
        <5> TAKE x \in W
        <5>1. x \in Nat /\ x <= m /\ x # m
          BY <1>1, <3>2
        <5> QED BY <4>2, <5>1
      <4>5. m - 1 \in B
        BY <4>3, <4>4
      <4> QED BY <3>2, <4>2, <4>5
    <3>4. W \subseteq A \cap 1..m
      <4> SUFFICES ASSUME NEW x \in W PROVE x \in A \cap 1..m
        OBVIOUS
      <4>1. x \in A /\ x \in 1..n /\ x <= m /\ m \in Nat
        BY <1>1, <3>2
      <4> QED BY <4>1
    <3>5. Cardinality(A \cap 1..m) <= cap
      BY <1>1, <3>3
    <3>6. Cardinality(W) <= Cardinality(A \cap 1..m) /\ Cardinality(A \cap 1..m) \in Nat
      <4>1. IsFiniteSet(A \cap 1..m) /\ Cardinality(A \cap 1..m) \in Nat
        BY <1>2
      <4> QED BY <3>4, <4>1, FS_Subset
    <3> QED BY <1>3, <3>5, <3>6
  <2> QED BY <2>1, <2>2
<1>5. ASSUME W # A PROVE Cardinality(W) = cap
  <2> DEFINE D == A \ W
  <2>1. PICK x \in D : \A y \in D : x <= y
    <3>1. D # {}
      BY <1>1, <1>5
    <3>2. \A y \in A : y \in Nat
      OBVIOUS
    <3>3. D \in SUBSET Nat
      BY <3>2
    <3> HIDE DEF D
    <3> QED BY <3>1, <3>3, LeastNumber
  <2> DEFINE F == A \cap 1..(x - 1)
  <2>2. x \in A /\ x \in 1..n /\ ~ (Cardinality(A \cap 1..x) <= cap)
    BY <1>1
  <2>3. A \cap 1..x = F \cup {x} /\ x \notin F
    BY <2>2
  <2>4. IsFiniteSet(F) /\ Cardinality(F) \in Nat
    BY <1>2
  <2>5. F \subseteq W
    <3> SUFFICES ASSUME NEW y \in F PROVE y \in W
      OBVIOUS
    <3>1. y \in A /\ y < x
      BY <2>2
    <3>2. y \notin D
      BY <2>1, <2>2, <3>1
    <3> QED BY <3>1, <3>2
  <2> HIDE DEF F, D
  <2>6. Cardinality(A \cap 1..x) = Cardinality(F) + 1
    BY <2>3, <2>4, FS_AddElement
  <2>7. Cardinality(F) <= Cardinality(W)
    BY <1>3, <2>5, FS_Subset
  <2> QED BY <1>3, <1>4, <2>2, <2>4, <2>6, <2>7
<1> QED BY <1>3, <1>4, <1>5 DEF W

\* A list without a repetition, and what is at some of its places.
OnceEach(t, n, S) == t \in [1..n -> S] /\ \A i, j \in 1..n : t[i] = t[j] => i = j
IsAt(T, t, K) == T = {t[k] : k \in K}

\* The elements at some places are as many as the places.
LEMMA AsMany ==
  ASSUME NEW n \in Nat, NEW S, NEW t, OnceEach(t, n, S), NEW K \in SUBSET (1..n), NEW T, IsAt(T, t, K)
  PROVE  IsFiniteSet(T) /\ Cardinality(T) = Cardinality(K)
<1> DEFINE f == [k \in K |-> t[k]]
<1>1. IsFiniteSet(K)
  <2>1. IsFiniteSet(1..n)
    BY FS_Interval
  <2> QED BY <2>1, FS_Subset
<1>2. f \in [K -> T] /\ (\A x \in T : \E k \in K : f[k] = x) /\ \A i, j \in K : f[i] = f[j] => i = j
  BY DEF OnceEach, IsAt
<1> HIDE DEF f
<1>3. f \in Bijection(K, T)
  BY <1>2 DEF Bijection, Injection, Surjection, IsInjective
<1>4. ExistsBijection(K, T)
  BY <1>3 DEF ExistsBijection
<1> QED BY <1>1, <1>4, FS_Bijection

\* With any number of places, the candidates that share a word with the query are chunks.
LEMMA KeywordSome ==
  ASSUME NEW n \in Nat, NEW chunks, ChunksOf(chunks, n), NEW q \in Query
  PROVE  Some(KeywordCandidates(chunks, q), n)
<1> DEFINE S == {i \in DOMAIN chunks : chunks[i].kw > 0}
           kw == FieldOf(chunks, "kw")
           id == FieldOf(chunks, "id")
           k == q.topk * CandidateMultiplier
           c == Cardinality(S)
           t == SortBy(Ascending(S), kw, id)
<1>1. S \in SUBSET (1..n) /\ \A i \in 1..n : kw[i] \in Int /\ id[i] \in Int
  BY DEF ChunksOf, Chunk, FieldOf
<1>2. k \in Nat
  BY RetrievalAssumption DEF Query
<1>3. KeywordCandidates(chunks, q) = Take(t, k)
  BY DEF KeywordCandidates
<1> HIDE DEF S, kw, id, k
<1>4. S \in SUBSET Int /\ IsFiniteSet(S) /\ \A i \in S : kw[i] \in Int /\ id[i] \in Int
  <2>1. IsFiniteSet(1..n)
    BY FS_Interval
  <2>2. IsFiniteSet(S)
    BY <1>1, <2>1, FS_Subset
  <2> QED BY <1>1, <2>2
<1>5. c \in Nat /\ SortsWell(t, c, S, kw)
  BY <1>4, AscendingSorted
<1> HIDE DEF c, t
<1>6. PICK m \in Nat : IsTaken(Take(t, k), t, c, S, k, m)
  BY <1>2, <1>5, TakeIs DEF SortsWell
<1>7. Take(t, k) \in [1..m -> 1..n]
  BY <1>1, <1>6 DEF IsTaken
<1> QED BY <1>3, <1>6, <1>7 DEF Some

\* The candidates are chunks, few enough to count,
LEMMA CandidatesAre ==
  ASSUME NEW n \in Nat, NEW chunks, ChunksOf(chunks, n), NEW q \in Query
  PROVE  /\ Candidates(chunks, q) \in SUBSET (1..n) /\ Candidates(chunks, q) \in SUBSET Int
         /\ IsFiniteSet(Candidates(chunks, q)) /\ Cardinality(Candidates(chunks, q)) \in Nat
<1>1. PICK a \in Nat : VectorCandidates(chunks, q) \in [1..a -> 1..n]
  BY VectorSome DEF Some
<1>2. PICK b \in Nat : KeywordCandidates(chunks, q) \in [1..b -> 1..n]
  BY KeywordSome DEF Some
<1>3. ToSet(VectorCandidates(chunks, q)) \in SUBSET (1..n)
  BY <1>1 DEF ToSet
<1>4. ToSet(KeywordCandidates(chunks, q)) \in SUBSET (1..n)
  BY <1>2 DEF ToSet
<1> DEFINE C == Candidates(chunks, q)
<1>5. C \in SUBSET (1..n) /\ C \in SUBSET Int
  BY <1>3, <1>4 DEF Candidates
<1> HIDE DEF C
<1>6. IsFiniteSet(1..n)
  BY FS_Interval
<1>7. IsFiniteSet(C)
  BY <1>5, <1>6, FS_Subset
<1>8. Cardinality(C) \in Nat
  BY <1>7, FS_CardinalityType
<1> QED BY <1>5, <1>7, <1>8 DEF C

\* and each has a score and an id.
LEMMA CandidatesScored ==
  ASSUME NEW n \in Nat, NEW chunks, ChunksOf(chunks, n), NEW q \in Query
  PROVE  \A i \in Candidates(chunks, q) :
           RankScores(chunks, q, Candidates(chunks, q))[i] \in Int /\ FieldOf(chunks, "id")[i] \in Int
<1> DEFINE C == Candidates(chunks, q)
           v == VectorCandidates(chunks, q)
           f == KeywordCandidates(chunks, q)
           rrf == RrfScores(v, f, C, q.code)
<1>1. C \in SUBSET (1..n)
  BY CandidatesAre
<1>2. PICK a \in Nat : v \in [1..a -> 1..n]
  BY VectorSome DEF Some
<1>3. PICK b \in Nat : f \in [1..b -> 1..n]
  BY KeywordSome DEF Some
<1>4. RankScores(chunks, q, C) = FinalScores(chunks, rrf)
  BY DEF RankScores
<1>5. rrf = [i \in C |-> Rrf(v, f, i, q.code)]
  BY DEF RrfScores
<1> HIDE DEF C, v, f, rrf
<1>6. rrf \in [C -> 0..RrfTop]
  <2>1. \A i \in C : Rrf(v, f, i, q.code) \in 0..RrfTop
    BY <1>2, <1>3, RrfBounded
  <2> QED BY <1>5, <2>1
<1>7. \A i \in C : FinalScores(chunks, rrf)[i] \in Int
  BY <1>1, <1>6, ScoresWhole
<1>8. \A i \in C : FieldOf(chunks, "id")[i] \in Int
  BY <1>1 DEF ChunksOf, Chunk, FieldOf
<1> QED BY <1>4, <1>7, <1>8 DEF C

\* An order of all candidates,
AnOrder(order, C) == OnceEach(order, Cardinality(C), C)
\* and the candidates in the order of their scores.
InScoreOrder(order, chunks, q) ==
  SortBy(order, RankScores(chunks, q, Candidates(chunks, q)), FieldOf(chunks, "id"))

\* An order names every candidate.
LEMMA OrderNamesAll ==
  ASSUME NEW C, IsFiniteSet(C), NEW order, AnOrder(order, C)
  PROVE  (\A x \in C : \E k \in 1..Cardinality(C) : order[k] = x) /\ ToSet(order) = C
<1> DEFINE c == Cardinality(C)
           T == {order[k] : k \in 1..c}
<1>1. c \in Nat
  BY FS_CardinalityType
<1>2. order \in [1..c -> C] /\ \A i, j \in 1..c : order[i] = order[j] => i = j
  BY DEF AnOrder, OnceEach
<1> HIDE DEF c
<1>3. IsFiniteSet(1..c) /\ Cardinality(1..c) = c
  BY <1>1, FS_Interval
<1>4. Cardinality(T) = c
  <2>1. 1..c \in SUBSET (1..c)
    OBVIOUS
  <2>3. IsAt(T, order, 1..c) /\ OnceEach(order, c, C)
    BY <1>2 DEF IsAt, OnceEach
  <2> HIDE DEF T
  <2>2. Cardinality(T) = Cardinality(1..c)
    BY <1>1, <2>1, <2>3, AsMany
  <2> QED BY <1>3, <2>2
<1>5. T \subseteq C
  BY <1>2
<1>6. T = C
  <2> HIDE DEF T
  <2> QED BY <1>4, <1>5, FS_Subset DEF c
<1>7. ToSet(order) = T
  BY <1>2 DEF ToSet
<1> QED BY <1>6, <1>7 DEF c

\* However they are handed out, the candidates are ranked each once.
LEMMA CandidatesRanked ==
  ASSUME NEW n \in Nat, NEW chunks, ChunksOf(chunks, n), NEW q \in Query, q.words = TRUE,
         NEW order, AnOrder(order, Candidates(chunks, q))
  PROVE  /\ RankCore(chunks, q, order) = Keep(InScoreOrder(order, chunks, q), chunks, q.topk)
         /\ SortsWell(InScoreOrder(order, chunks, q), Cardinality(Candidates(chunks, q)), Candidates(chunks, q),
                      RankScores(chunks, q, Candidates(chunks, q)))
<1> DEFINE C == Candidates(chunks, q)
           c == Cardinality(C)
           score == RankScores(chunks, q, C)
           id == FieldOf(chunks, "id")
           t == SortBy(order, score, id)
<1>1. C \in SUBSET Int /\ IsFiniteSet(C) /\ c \in Nat
  BY CandidatesAre
<1>2. \A i \in C : score[i] \in Int /\ id[i] \in Int
  BY CandidatesScored
<1>3. AnOrder(order, C)
  OBVIOUS
<1> HIDE DEF C
<1>4. ToSet(order) = C /\ \A x \in C : \E k \in 1..c : order[k] = x
  BY <1>1, <1>3, OrderNamesAll
<1>5. order \in [1..c -> C] /\ \A i, j \in 1..c : order[i] = order[j] => i = j
  BY <1>3 DEF AnOrder, OnceEach
<1>6. RankCore(chunks, q, order) = Keep(t, chunks, q.topk)
  BY <1>4 DEF RankCore
<1> HIDE DEF score, id, c
<1>7. SortsWell(t, c, C, score)
  BY <1>1, <1>2, <1>4, <1>5, SortByWell
<1> QED BY <1>6, <1>7 DEF t, score, id, c, C, InScoreOrder

\* The ranking of chunks of different files, with room for all, loses no candidate.
OneEach(chunks) == \A i, j \in DOMAIN chunks : chunks[i].file = chunks[j].file => i = j
RanksOnce(r, S) ==
  \E m \in Nat : /\ r \in [1..m -> S] /\ (\A x \in S : \E k \in 1..m : r[k] = x)
                 /\ \A i, j \in 1..m : r[i] = r[j] => i = j

\* With room for every chunk, each that shares a word with the query is ranked, once.
LEMMA RankedAll ==
  ASSUME NEW n \in Nat, NEW chunks, ChunksOf(chunks, n), NEW q \in Query, q.topk >= n, q.words = TRUE, OneEach(chunks)
  PROVE  /\ RanksOnce(RankCore(chunks, q, AnyOrder(chunks, q)), Candidates(chunks, q))
         /\ Candidates(chunks, q) \in SUBSET (1..n)
         /\ \A i \in 1..n : chunks[i].kw > 0 => i \in Candidates(chunks, q)
<1> DEFINE C == Candidates(chunks, q)
           c == Cardinality(C)
           order == AnyOrder(chunks, q)
           t == InScoreOrder(order, chunks, q)
<1>1. C \in SUBSET (1..n) /\ \A i \in 1..n : chunks[i].kw > 0 => i \in C
  <2>1. C \in SUBSET (1..n)
    BY CandidatesAre
  <2>2. ToSet(KeywordCandidates(chunks, q)) = {i \in 1..n : chunks[i].kw > 0}
    BY KeywordAll
  <2>3. ToSet(KeywordCandidates(chunks, q)) \subseteq C
    BY DEF Candidates
  <2> HIDE DEF C
  <2> QED BY <2>1, <2>2, <2>3
<1>2. order = SetToSeq(C)
  BY DEF AnyOrder
<1>3. IsFiniteSet(C) /\ c \in Nat /\ c <= n
  <2>1. IsFiniteSet(1..n) /\ Cardinality(1..n) = n
    BY FS_Interval
  <2> HIDE DEF C
  <2> QED BY <1>1, <2>1, FS_Subset, FS_CardinalityType
<1>4. AnOrder(order, C)
  <2> HIDE DEF C, order
  <2> QED BY <1>2, <1>3, SetAsSeq DEF AnOrder, OnceEach
<1>5. RankCore(chunks, q, order) = Keep(t, chunks, q.topk) /\ SortsWell(t, c, C, RankScores(chunks, q, C))
  BY <1>4, CandidatesRanked
<1> HIDE DEF C, c, order, t
<1>6. /\ t \in [1..c -> C] /\ (\A x \in C : \E k \in 1..c : t[k] = x) /\ \A i, j \in 1..c : t[i] = t[j] => i = j
  BY <1>5 DEF SortsWell
<1>7. UnderCap(t, chunks) = 1..c
  <2>1. DOMAIN t = 1..c /\ \A k \in 1..c : t[k] \in DOMAIN chunks
    BY <1>1, <1>6 DEF ChunksOf
  <2>2. \A k \in 1..c : {j \in 1..k : chunks[t[j]].file = chunks[t[k]].file} = {k}
    <3> TAKE k \in 1..c
    <3>1. \A j \in 1..k : j \in 1..c
      BY <1>3
    <3>2. \A j \in 1..k : chunks[t[j]].file = chunks[t[k]].file => j = k
      BY <1>6, <2>1, <3>1 DEF OneEach
    <3>3. k \in 1..k
      BY <1>3
    <3> QED BY <3>2, <3>3
  <2>3. \A k \in 1..c : Cardinality({k}) <= MaxChunksPerFile
    <3>1. MaxChunksPerFile \in Nat \ {0}
      BY RetrievalAssumption
    <3>2. \A k \in 1..c : Cardinality({k}) = 1
      BY FS_Singleton
    <3> QED BY <3>1, <3>2
  <2> QED BY <2>1, <2>2, <2>3 DEF UnderCap
<1>8. Picked(t, 1..c) = t
  <2>1. t = [i \in 1..c |-> t[i]]
    BY <1>6
  <2> QED BY <1>3, <2>1, PickedAll
<1>9. Take(t, q.topk) = t
  <2>1. q.topk \in Nat
    BY DEF Query
  <2>2. PICK m \in Nat : IsTaken(Take(t, q.topk), t, c, C, q.topk, m)
    BY <1>3, <1>6, <2>1, TakeIs
  <2>3. m = c
    BY <1>3, <2>1, <2>2 DEF IsTaken
  <2> QED BY <1>6, <2>2, <2>3 DEF IsTaken
<1>10. RankCore(chunks, q, order) = t
  BY <1>5, <1>7, <1>8, <1>9 DEF Keep
<1>11. RanksOnce(t, C)
  BY <1>3, <1>6 DEF RanksOnce
<1> QED BY <1>1, <1>10, <1>11 DEF C, order
Remembered == [id : Int, file : Int, start : Int, cos : Int, kw : Nat, sure : BOOLEAN]

\* Each entry is a file of its own; a question without words shares none.
RecallInputOK ==
  For("recall") =>
    /\ input.entries \in Seq(Remembered) /\ OneEach(input.entries) /\ input.q \in Query /\ input.topk \in Nat
    /\ input.q.words = FALSE => \A i \in DOMAIN input.entries : input.entries[i].kw = 0

Sharing(entries) == {i \in DOMAIN entries : entries[i].sure /\ entries[i].kw > 0}
Kept(entries, r) == {k \in DOMAIN r : entries[r[k]].sure /\ entries[r[k]].kw > 0}

Covers(r, m, S) == (\A i, j \in 1..m : r[i] = r[j] => i = j) /\ \A x \in S : \E k \in 1..m : r[k] = x
Filled(hits, S, topk) ==
  ToSet(hits) \subseteq S /\ Len(hits) = (IF Cardinality(S) < topk THEN Cardinality(S) ELSE topk)

\* Of a ranking that covers the entries that share a word, the first of those are taken.
LEMMA KeptShare ==
  ASSUME NEW n \in Nat, NEW e, DOMAIN e = 1..n, NEW m \in Nat, NEW r \in [1..m -> 1..n],
         Covers(r, m, Sharing(e)), NEW topk \in Nat
  PROVE  Filled(Take(Picked(r, Kept(e, r)), topk), Sharing(e), topk)
<1> DEFINE at == Kept(e, r)
           S == Sharing(e)
           c == Cardinality(at)
           p == Picked(r, at)
           hits == Take(p, topk)
           f == [k \in at |-> r[k]]
<1>0. (\A i, j \in 1..m : r[i] = r[j] => i = j) /\ \A x \in S : \E k \in 1..m : r[k] = x
  BY DEF Covers
<1>1. at \in SUBSET (1..m) /\ \A k \in 1..m : k \in at <=> r[k] \in S
  BY DEF Kept, Sharing
<1>2. \A k \in at : r[k] \in S
  BY <1>1
<1>3. \A x \in S : \E k \in at : r[k] = x
  BY <1>0, <1>1
<1> HIDE DEF at, S
<1>4. f \in Bijection(at, S)
  <2>1. f \in [at -> S]
    BY <1>2
  <2>2. \A x, y \in at : f[x] = f[y] => x = y
    BY <1>0, <1>1
  <2>3. \A x \in S : \E k \in at : f[k] = x
    BY <1>3
  <2> HIDE DEF f
  <2> QED BY <2>1, <2>2, <2>3 DEF Bijection, Injection, Surjection, IsInjective
<1>5. IsFiniteSet(at)
  <2>1. IsFiniteSet(1..m)
    BY FS_Interval
  <2> QED BY <1>1, <2>1, FS_Subset
<1>6. Cardinality(S) = c
  BY <1>4, <1>5, FS_Bijection DEF ExistsBijection
<1>7. c \in Nat /\ p \in [1..c -> {r[i] : i \in at}]
  BY <1>1, PickedIs DEF IsPicked
<1> HIDE DEF c, p
<1>8. p \in [1..c -> S]
  BY <1>2, <1>7
<1>9. PICK l \in Nat : IsTaken(hits, p, c, S, topk, l)
  BY <1>7, <1>8, TakeIs
<1> HIDE DEF hits
<1>10. Len(hits) = IF c < topk THEN c ELSE topk
  BY <1>7, <1>9 DEF IsTaken
<1>11. ToSet(hits) \subseteq S
  BY <1>9 DEF IsTaken, ToSet
<1> QED BY <1>6, <1>10, <1>11 DEF Filled, hits, p, at, S

\* No place of a recall is lost to what shares no word: of any entries.
LEMMA RecallHolds == RecallInputOK => RecallFillsPlaces
<1> SUFFICES ASSUME RecallInputOK, For("recall")
             PROVE  Filled(Recall(input.entries, input.q, input.topk), Sharing(input.entries), input.topk)
  BY DEF RecallFillsPlaces, Sharing, Filled
<1> DEFINE e == input.entries
           n == Len(e)
           topk == input.topk
           K == IF topk > n THEN topk ELSE n
           w == [input.q EXCEPT !.topk = K]
           r == RankCore(e, w, AnyOrder(e, w))
           hits == Take(Picked(r, Kept(e, r)), topk)
<1>1. e \in Seq(Remembered) /\ OneEach(e) /\ input.q \in Query /\ topk \in Nat /\ (input.q.words = FALSE => \A i \in DOMAIN e : e[i].kw = 0)
  BY DEF RecallInputOK
<1>2. n \in Nat /\ DOMAIN e = 1..n /\ \A i \in 1..n : e[i] \in Remembered
  BY <1>1
<1>3. hits = Recall(e, input.q, topk)
  BY DEF Recall, RecallOver, Kept
<1>4. ChunksOf(e, n)
  <2>1. \A x \in Remembered : x.cos \in Int /\ x.kw \in Int /\ x.id \in Int
    BY DEF Remembered
  <2> QED BY <1>2, <2>1 DEF ChunksOf, Chunk
<1> HIDE DEF e, n
<1>5. K \in Nat /\ K >= n
  BY <1>1, <1>2
<1> HIDE DEF topk, K
<1>6. w \in Query /\ w.topk = K /\ w.words = input.q.words /\ w.words \in BOOLEAN
  BY <1>1, <1>5 DEF Query
<1> HIDE DEF w
<1>7. CASE w.words = TRUE
  <2>1. /\ RanksOnce(r, Candidates(e, w)) /\ Candidates(e, w) \in SUBSET (1..n)
        /\ \A i \in 1..n : e[i].kw > 0 => i \in Candidates(e, w)
    <3>1. w.topk >= n
      BY <1>5, <1>6
    <3> QED BY <1>1, <1>2, <1>4, <1>6, <1>7, <3>1, RankedAll
  <2> HIDE DEF r
  <2>2. PICK m \in Nat : /\ r \in [1..m -> Candidates(e, w)] /\ (\A x \in Candidates(e, w) : \E k \in 1..m : r[k] = x)
                         /\ \A i, j \in 1..m : r[i] = r[j] => i = j
    BY <2>1 DEF RanksOnce
  <2>3. r \in [1..m -> 1..n]
    BY <2>1, <2>2
  <2>4. \A x \in Sharing(e) : \E k \in 1..m : r[k] = x
    BY <1>2, <2>1, <2>2 DEF Sharing
  <2>5. Covers(r, m, Sharing(e))
    BY <2>2, <2>4 DEF Covers
  <2>6. Filled(hits, Sharing(e), topk)
    BY <1>1, <1>2, <2>3, <2>5, KeptShare
  <2> QED BY <1>3, <2>6 DEF e, topk
<1>8. CASE w.words = FALSE
  <2>1. r = <<>>
    BY <1>8 DEF RankCore
  <2>2. Sharing(e) = {}
    BY <1>1, <1>2, <1>6, <1>8 DEF Sharing
  <2>3. r \in [1..0 -> 1..n] /\ 0 \in Nat
    BY <2>1
  <2>4. \A i, j \in 1..0 : r[i] = r[j] => i = j
    OBVIOUS
  <2>5. \A x \in Sharing(e) : \E k \in 1..0 : r[k] = x
    BY <2>2
  <2> HIDE DEF r
  <2>6. Covers(r, 0, Sharing(e))
    BY <2>4, <2>5 DEF Covers
  <2>7. Filled(hits, Sharing(e), topk)
    BY <1>1, <1>2, <2>3, <2>6, KeptShare
  <2> QED BY <1>3, <2>7 DEF e, topk
<1> QED BY <1>6, <1>7, <1>8

(***************************************************************************)
(* Answers: what a hit expands to.                                         *)
(***************************************************************************)

Item == [id : Int, file : Int, start : Int]

\* A list of chunks, in reading order if by their start.
Listed(t, S) == \E m \in Nat : t \in [1..m -> S] /\ \A x \in S : \E k \in 1..m : t[k] = x
Reading(t, chunks) == \A n \in 1..(Len(t) - 1) : chunks[t[n]].start <= chunks[t[n + 1]].start

\* The chunks of a file, listed in the order of the file.
LEMMA ItemsListed ==
  ASSUME NEW n \in Nat, NEW S \in SUBSET (1..n), NEW score, NEW id, \A x \in S : score[x] \in Int /\ id[x] \in Int
  PROVE  /\ Listed(SortBy(Ascending(S), score, id), S)
         /\ \A k \in 1..(Len(SortBy(Ascending(S), score, id)) - 1) :
              score[SortBy(Ascending(S), score, id)[k]] >= score[SortBy(Ascending(S), score, id)[k + 1]]
<1> DEFINE t == SortBy(Ascending(S), score, id)
           c == Cardinality(S)
<1>1. S \in SUBSET Int /\ IsFiniteSet(S)
  <2>1. IsFiniteSet(1..n)
    BY FS_Interval
  <2>2. IsFiniteSet(S)
    BY <2>1, FS_Subset
  <2> QED BY <2>2
<1>2. c \in Nat /\ SortsWell(t, c, S, score)
  BY <1>1, AscendingSorted
<1> HIDE DEF t, c
<1>3. /\ t \in [1..c -> S] /\ (\A x \in S : \E k \in 1..c : t[k] = x)
      /\ \A i, j \in 1..c : i < j => score[t[i]] >= score[t[j]]
  BY <1>2 DEF SortsWell
<1>4. Len(t) = c
  BY <1>2, <1>3
<1>5. ASSUME NEW k \in 1..(c - 1) PROVE score[t[k]] >= score[t[k + 1]]
  <2>1. k \in 1..c /\ k + 1 \in 1..c /\ k < k + 1
    BY <1>2
  <2> QED BY <1>3, <2>1
<1> QED BY <1>2, <1>3, <1>4, <1>5 DEF Listed, t

\* A list of all of a set is that set.
LEMMA ListedSet ==
  ASSUME NEW S, NEW t, Listed(t, S)
  PROVE  ToSet(t) = S /\ ToSet(Take(t, 9)) \subseteq S
<1>1. PICK m \in Nat : t \in [1..m -> S] /\ \A x \in S : \E k \in 1..m : t[k] = x
  BY DEF Listed
<1>2. ToSet(t) = S
  <2>1. ToSet(t) = {t[k] : k \in 1..m}
    BY <1>1 DEF ToSet
  <2> QED BY <1>1, <2>1
<1>3. PICK l \in Nat : IsTaken(Take(t, 9), t, m, S, 9, l)
  <2>1. 9 \in Nat
    OBVIOUS
  <2> QED BY <1>1, <2>1, TakeIs
<1>4. ToSet(Take(t, 9)) \subseteq S
  <2> DEFINE u == Take(t, 9)
  <2>1. u \in [1..l -> S]
    BY <1>3 DEF IsTaken
  <2> HIDE DEF u
  <2>2. ToSet(u) \subseteq S
    BY <2>1 DEF ToSet
  <2> QED BY <2>2 DEF u
<1> QED BY <1>2, <1>4

\* The chunk of an id that some chunk has.
LEMMA FoundIs ==
  ASSUME NEW chunks, NEW n \in Nat, Len(chunks) = n, NEW id
  PROVE  \/ Found(chunks, id) \in 1..n /\ chunks[Found(chunks, id)].id = id
         \/ Found(chunks, id) = 0 /\ \A i \in 1..n : chunks[i].id # id
<1> DEFINE I == {i \in 1..n : chunks[i].id = id}
<1>1. Found(chunks, id) = IF I # {} THEN Min(I) ELSE 0
  BY DEF Found, SelectInSeq
<1>2. ASSUME I # {} PROVE Min(I) \in I
  <2>1. I \in SUBSET Nat
    OBVIOUS
  <2> HIDE DEF I
  <2>2. PICK m \in I : \A k \in I : m <= k
    BY <1>2, <2>1, LeastNumber
  <2> QED BY <2>2 DEF Min
<1> QED BY <1>1, <1>2

Graph(g) == \A f : <<f, f>> \notin g

\* A code hit expands to the chunk, its neighbours in the file and what the file imports,
LEMMA CodeExpands ==
  ASSUME NEW chunks \in Seq(Item), NEW g, Graph(g), NEW at \in 1..Len(chunks)
  PROVE  ExpandsTo(chunks, chunks[at].id, at, ChunksInFile(chunks, chunks[at].file), Take(NeighborChunks(chunks, g, chunks[at].file), 9))
<1> DEFINE n == Len(chunks)
           file == chunks[at].file
           S == {i \in DOMAIN chunks : chunks[i].file = file}
           N == {i \in DOMAIN chunks : chunks[i].file \in Neighbors(g, file)}
           id == FieldOf(chunks, "id")
           start == [i \in DOMAIN chunks |-> -chunks[i].start]
           place == [i \in DOMAIN chunks |-> -(chunks[i].file * 100 + chunks[i].start)]
           t == ChunksInFile(chunks, file)
           u == NeighborChunks(chunks, g, file)
<1>1. n \in Nat /\ DOMAIN chunks = 1..n /\ at \in 1..n /\ \A i \in 1..n : chunks[i].file \in Int /\ chunks[i].start \in Int /\ chunks[i].id \in Int
  <2>1. \A x \in Item : x.file \in Int /\ x.start \in Int /\ x.id \in Int
    BY DEF Item
  <2> QED BY <2>1
<1>2. \A i \in 1..n : id[i] \in Int /\ start[i] = - chunks[i].start /\ start[i] \in Int /\ place[i] \in Int
  BY <1>1 DEF FieldOf
<1>3. t = SortBy(Ascending(S), start, id) /\ u = SortBy(Ascending(N), place, id)
  BY DEF ChunksInFile, NeighborChunks
<1>4. S \in SUBSET (1..n) /\ N \in SUBSET (1..n) /\ at \in S
  BY <1>1
<1>5. at \notin N
  BY DEF Graph, Neighbors
<1>6. \A i \in S : chunks[i].file = file
  OBVIOUS
<1> HIDE DEF n, S, N, id, start, place, t, u
<1>7. Listed(u, N)
  BY <1>1, <1>2, <1>3, <1>4, ItemsListed
<1>8. Listed(t, S) /\ \A k \in 1..(Len(t) - 1) : start[t[k]] >= start[t[k + 1]]
  BY <1>1, <1>2, <1>3, <1>4, ItemsListed
<1>9. ToSet(t) = S /\ ToSet(Take(u, 9)) \subseteq N
  BY <1>7, <1>8, ListedSet
<1>10. ASSUME NEW k \in 1..(Len(t) - 1) PROVE chunks[t[k]].start <= chunks[t[k + 1]].start
  <2>1. t[k] \in 1..n /\ t[k + 1] \in 1..n
    <3>1. PICK m \in Nat : t \in [1..m -> S]
      BY <1>8 DEF Listed
    <3>2. Len(t) = m
      BY <3>1
    <3>3. k \in 1..m /\ k + 1 \in 1..m
      BY <3>2
    <3> QED BY <1>4, <3>1, <3>3
  <2>2. start[t[k]] >= start[t[k + 1]]
    BY <1>8
  <2> DEFINE i == t[k]
             j == t[k + 1]
  <2>3. i \in 1..n /\ j \in 1..n /\ start[i] >= start[j]
    BY <2>1, <2>2
  <2> HIDE DEF i, j
  <2>4. start[i] = - chunks[i].start /\ start[j] = - chunks[j].start /\ chunks[i].start \in Int /\ chunks[j].start \in Int
    BY <1>1, <1>2, <2>3
  <2>5. chunks[i].start <= chunks[j].start
    BY <2>3, <2>4
  <2> QED BY <2>5 DEF i, j
<1> QED BY <1>4, <1>5, <1>6, <1>9, <1>10 DEF ExpandsTo, t, u

\* a section to itself and its neighbours.
LEMMA SectionExpands ==
  ASSUME NEW know \in Seq(Item), NEW at \in 1..Len(know)
  PROVE  ExpandsTo(know, know[at].id, at, SameDocumentSections(know, at, TRUE), Take(SameDocumentSections(know, at, FALSE), 9))
<1> DEFINE n == Len(know)
           S == {i \in DOMAIN know : know[i].file = know[at].file /\ (TRUE \/ know[i].id # know[at].id)}
           N == {i \in DOMAIN know : know[i].file = know[at].file /\ (FALSE \/ know[i].id # know[at].id)}
           id == FieldOf(know, "id")
           start == [i \in DOMAIN know |-> -know[i].start]
           t == SameDocumentSections(know, at, TRUE)
           u == SameDocumentSections(know, at, FALSE)
<1>1. n \in Nat /\ DOMAIN know = 1..n /\ at \in 1..n /\ \A i \in 1..n : know[i].file \in Int /\ know[i].start \in Int /\ know[i].id \in Int
  <2>1. \A x \in Item : x.file \in Int /\ x.start \in Int /\ x.id \in Int
    BY DEF Item
  <2> QED BY <2>1
<1>2. \A i \in 1..n : id[i] \in Int /\ start[i] = - know[i].start /\ start[i] \in Int
  BY <1>1 DEF FieldOf
<1>3. t = SortBy(Ascending(S), start, id) /\ u = SortBy(Ascending(N), start, id)
  BY DEF SameDocumentSections
<1>4. S \in SUBSET (1..n) /\ N \in SUBSET (1..n) /\ at \in S
  BY <1>1
<1>5. at \notin N
  OBVIOUS
<1>6. \A i \in S : know[i].file = know[at].file
  OBVIOUS
<1> HIDE DEF n, S, N, id, start, t, u
<1>7. Listed(u, N)
  BY <1>1, <1>2, <1>3, <1>4, ItemsListed
<1>8. Listed(t, S) /\ \A k \in 1..(Len(t) - 1) : start[t[k]] >= start[t[k + 1]]
  BY <1>1, <1>2, <1>3, <1>4, ItemsListed
<1>9. ToSet(t) = S /\ ToSet(Take(u, 9)) \subseteq N
  BY <1>7, <1>8, ListedSet
<1>10. ASSUME NEW k \in 1..(Len(t) - 1) PROVE know[t[k]].start <= know[t[k + 1]].start
  <2>1. t[k] \in 1..n /\ t[k + 1] \in 1..n
    <3>1. PICK m \in Nat : t \in [1..m -> S]
      BY <1>8 DEF Listed
    <3>2. Len(t) = m
      BY <3>1
    <3>3. k \in 1..m /\ k + 1 \in 1..m
      BY <3>2
    <3> QED BY <1>4, <3>1, <3>3
  <2>2. start[t[k]] >= start[t[k + 1]]
    BY <1>8
  <2> DEFINE i == t[k]
             j == t[k + 1]
  <2>3. i \in 1..n /\ j \in 1..n /\ start[i] >= start[j]
    BY <2>1, <2>2
  <2> HIDE DEF i, j
  <2>4. start[i] = - know[i].start /\ start[j] = - know[j].start /\ know[i].start \in Int /\ know[j].start \in Int
    BY <1>1, <1>2, <2>3
  <2>5. know[i].start <= know[j].start
    BY <2>3, <2>4
  <2> QED BY <2>5 DEF i, j
<1> QED BY <1>4, <1>5, <1>6, <1>9, <1>10 DEF ExpandsTo, t, u

IndexOf(ix) ==
  /\ ix.loads \in BOOLEAN /\ ix.code \in Seq(Item) /\ ix.know \in Seq(Item) /\ Graph(ix.graph)
  /\ \A i \in DOMAIN ix.code : ix.code[i].id # 99
  /\ \A i \in DOMAIN ix.know : ix.know[i].id # 99
ExpandInputOK == For("expand") => IndexOf(input.ix)

HitExpands(ix, id) ==
  LET body == ExpandOf(ix, id, "body")
  IN body.pool \in {"code", "know"} /\ ExpandsTo(ix[body.pool], id, body.ids[1], ExpandOf(ix, id, "file").ids, RelatedOf(ix, id, 9).ids)

\* Every code hit expands so,
LEMMA CodeHits ==
  ASSUME NEW ix, IndexOf(ix), NEW id, NEW c \in 1..Len(ix.code), c = Found(WorkingIndex(ix), id), ix.code[c].id = id
  PROVE  HitExpands(ix, id)
<1> DEFINE k == Found(ix.know, id)
           body == ExpandOf(ix, id, "body")
           file == ExpandOf(ix, id, "file")
           near == ExpandOf(ix, id, "neighbors")
           f == ix.code[c].file
<1>1. c > 0
  BY DEF IndexOf
<1>2. \A scope : ExpandOf(ix, id, scope) = [pool |-> "code", ids |-> ExpandCode(ix, c, scope)]
  BY <1>1 DEF ExpandOf, Expansion
<1>3. body.pool = "code" /\ body.ids = <<c>>
  BY <1>2 DEF ExpandCode
<1>4. file.ids = ChunksInFile(ix.code, f)
  BY <1>2 DEF ExpandCode
<1>5. near = [pool |-> "code", ids |-> NeighborChunks(ix.code, ix.graph, f)]
  BY <1>2 DEF ExpandCode
<1>6. RelatedOf(ix, id, 9).ids = Take(NeighborChunks(ix.code, ix.graph, f), 9)
  BY <1>5 DEF RelatedOf
<1>7. ExpandsTo(ix.code, ix.code[c].id, c, ChunksInFile(ix.code, f), Take(NeighborChunks(ix.code, ix.graph, f), 9))
  BY CodeExpands DEF IndexOf
<1>8. ix[body.pool] = ix.code /\ body.ids[1] = c
  BY <1>3
<1> HIDE DEF body, file, f
<1> QED BY <1>3, <1>4, <1>6, <1>7, <1>8 DEF HitExpands, body, file

\* and every section.
LEMMA SectionHits ==
  ASSUME NEW ix, IndexOf(ix), NEW id, NEW k \in 1..Len(ix.know), k = Found(ix.know, id), ix.know[k].id = id, Found(WorkingIndex(ix), id) = 0
  PROVE  HitExpands(ix, id)
<1> DEFINE body == ExpandOf(ix, id, "body")
           file == ExpandOf(ix, id, "file")
           near == ExpandOf(ix, id, "neighbors")
<1>1. k > 0
  BY DEF IndexOf
<1>2. \A scope : ExpandOf(ix, id, scope) = [pool |-> "know", ids |-> ExpandKnowledgeChunk(ix.know, k, scope)]
  BY <1>1 DEF ExpandOf, Expansion
<1>3. body.pool = "know" /\ body.ids = <<k>>
  BY <1>2 DEF ExpandKnowledgeChunk
<1>4. file.ids = SameDocumentSections(ix.know, k, TRUE)
  <2> DEFINE all == SameDocumentSections(ix.know, k, TRUE)
  <2>1. ("file" = "file") = TRUE /\ "file" # "body"
    OBVIOUS
  <2>2. ExpandKnowledgeChunk(ix.know, k, "file") = SameDocumentSections(ix.know, k, "file" = "file")
    BY <2>1 DEF ExpandKnowledgeChunk
  <2>3. ExpandKnowledgeChunk(ix.know, k, "file") = all
    BY <2>1, <2>2, Zenon
  <2> HIDE DEF all
  <2>4. file = [pool |-> "know", ids |-> all]
    BY <1>2, <2>3
  <2>5. file.ids = all
    BY <2>4
  <2> QED BY <2>5 DEF all
<1> DEFINE others == SameDocumentSections(ix.know, k, FALSE)
<1>5. near = [pool |-> "know", ids |-> others]
  <2>1. ("neighbors" = "file") = FALSE /\ "neighbors" # "body"
    OBVIOUS
  <2>2. ExpandKnowledgeChunk(ix.know, k, "neighbors") = SameDocumentSections(ix.know, k, "neighbors" = "file")
    BY <2>1 DEF ExpandKnowledgeChunk
  <2>3. ExpandKnowledgeChunk(ix.know, k, "neighbors") = others
    BY <2>1, <2>2, Zenon
  <2> HIDE DEF others
  <2> QED BY <1>2, <2>3
<1> HIDE DEF others
<1>6. RelatedOf(ix, id, 9).ids = Take(others, 9)
  BY <1>5 DEF RelatedOf
<1>7. ExpandsTo(ix.know, ix.know[k].id, k, SameDocumentSections(ix.know, k, TRUE), Take(SameDocumentSections(ix.know, k, FALSE), 9))
  BY SectionExpands DEF IndexOf
<1>8. ix[body.pool] = ix.know /\ body.ids[1] = k
  BY <1>3
<1> HIDE DEF body, file
<1>9. ExpandsTo(ix.know, ix.know[k].id, k, SameDocumentSections(ix.know, k, TRUE), Take(others, 9))
  BY <1>7 DEF others
<1> QED BY <1>3, <1>4, <1>6, <1>9, <1>8 DEF HitExpands, body, file

\* Every hit can be expanded: of any index.
LEMMA ExpandHolds == ExpandInputOK => HitsExpand
<1> DEFINE ix == input.ix
           ids == {c.id : c \in ToSet(ix.know)} \cup (IF ix.loads THEN {c.id : c \in ToSet(ix.code)} ELSE {})
           w == WorkingIndex(ix)
<1> SUFFICES ASSUME ExpandInputOK, For("expand")
             PROVE  (\A id \in ids : HitExpands(ix, id)) /\ ExpandOf(ix, 99, "body").pool = IF ix.loads THEN "stale" ELSE "missing"
  BY DEF HitsExpand, HitExpands
<1>1. IndexOf(ix)
  BY DEF ExpandInputOK
<1> HIDE DEF ix
<1>2. /\ ix.loads \in BOOLEAN /\ Len(ix.code) \in Nat /\ Len(ix.know) \in Nat /\ DOMAIN ix.code = 1..Len(ix.code) /\ DOMAIN ix.know = 1..Len(ix.know)
  BY <1>1 DEF IndexOf
<1>3. w = IF ix.loads THEN ix.code ELSE <<>>
  BY DEF WorkingIndex
<1>4. Len(w) \in Nat /\ (ix.loads => w = ix.code) /\ (~ ix.loads => Len(w) = 0)
  BY <1>2, <1>3
<1> HIDE DEF w
<1>5. ASSUME NEW id \in ids PROVE HitExpands(ix, id)
  <2>1. CASE Found(w, id) \in 1..Len(w) /\ w[Found(w, id)].id = id
    <3>1. ix.loads /\ w = ix.code
      BY <1>2, <1>4, <2>1
    <3> QED BY <1>1, <2>1, <3>1, CodeHits DEF w
  <2>2. CASE Found(w, id) = 0 /\ \A i \in 1..Len(w) : w[i].id # id
    <3>1. id \in {c.id : c \in ToSet(ix.know)}
      <4>1. ix.loads => id \notin {c.id : c \in ToSet(ix.code)}
        BY <1>2, <1>4, <2>2 DEF ToSet
      <4> QED BY <1>2, <4>1
    <3>2. PICK i \in 1..Len(ix.know) : ix.know[i].id = id
      BY <1>2, <3>1 DEF ToSet
    <3>3. Found(ix.know, id) \in 1..Len(ix.know) /\ ix.know[Found(ix.know, id)].id = id
      BY <1>2, <3>2, FoundIs
    <3> QED BY <1>1, <2>2, <3>3, SectionHits DEF w
  <2> DEFINE n == Len(w)
             k == Found(w, id)
  <2>3. n \in Nat
    BY <1>4
  <2>4. (k \in 1..n /\ w[k].id = id) \/ (k = 0 /\ \A i \in 1..n : w[i].id # id)
    <3> HIDE DEF n
    <3>1. Len(w) = n
      BY DEF n
    <3> QED BY <2>3, <3>1, FoundIs
  <2> QED BY <2>1, <2>2, <2>4
<1>6. ExpandOf(ix, 99, "body").pool = IF ix.loads THEN "stale" ELSE "missing"
  <2>1. \A i \in 1..Len(w) : w[i].id # 99
    BY <1>1, <1>2, <1>4 DEF IndexOf
  <2>2. Found(w, 99) = 0
    BY <1>4, <2>1, FoundIs
  <2>3. \A i \in 1..Len(ix.know) : ix.know[i].id # 99
    BY <1>1, <1>2 DEF IndexOf
  <2>4. Found(ix.know, 99) = 0
    BY <1>2, <2>3, FoundIs
  <2>5. ExpandOf(ix, 99, "body") = [pool |-> IF ix.loads THEN "stale" ELSE "missing", ids |-> <<>>]
    BY <2>2, <2>4 DEF ExpandOf, Expansion, w
  <2> QED BY <2>5
<1> QED BY <1>5, <1>6

(***************************************************************************)
(* Answers: the normal form of a text.                                     *)
(***************************************************************************)

\* A text read character by character: what is written, and whether a space is owed.
Blanks == {"sp", "nl"}
NextChar(a, c) ==
  IF c \in Blanks THEN [a EXCEPT !.space = a.out # <<>>]
  ELSE [out |-> (IF a.space THEN Append(a.out, "sp") ELSE a.out) \o <<c>>, space |-> FALSE]
Unread == [out |-> <<>>, space |-> FALSE]
Reads(f, text) == f[0] = Unread /\ \A i \in 1..Len(text) : f[i] = NextChar(f[i - 1], text[i])
ReadSoFar(L) == [out : Seq(L), space : BOOLEAN]

\* One character more is written.
LEMMA CharTyped ==
  ASSUME NEW L, "sp" \in L, NEW a \in ReadSoFar(L), NEW c \in L
  PROVE  NextChar(a, c) \in ReadSoFar(L)
<1>1. a.out \in Seq(L) /\ a.space \in BOOLEAN /\ a = [out |-> a.out, space |-> a.space]
  BY DEF ReadSoFar
<1>2. CASE c \in Blanks
  <2>1. [a EXCEPT !.space = a.out # <<>>] = [out |-> a.out, space |-> a.out # <<>>]
    BY <1>1
  <2>2. (a.out # <<>>) \in BOOLEAN
    OBVIOUS
  <2>3. [out |-> a.out, space |-> a.out # <<>>] \in ReadSoFar(L)
    BY <1>1, <2>2 DEF ReadSoFar
  <2> QED BY <1>2, <2>1, <2>3 DEF NextChar
<1>3. CASE c \notin Blanks
  <2> DEFINE o == (IF a.space THEN Append(a.out, "sp") ELSE a.out) \o <<c>>
  <2>1. o \in Seq(L)
    BY <1>1
  <2>2. NextChar(a, c) = [out |-> o, space |-> FALSE]
    BY <1>3 DEF NextChar
  <2> HIDE DEF o
  <2> QED BY <2>1, <2>2 DEF ReadSoFar
<1> QED BY <1>2, <1>3

\* A text is read one character at a time.
LEMMA TextRead ==
  ASSUME NEW L, "sp" \in L, NEW text \in Seq(L)
  PROVE  \E f \in [0..Len(text) -> ReadSoFar(L)] : Reads(f, text) /\ Normalize(text) = f[Len(text)].out
<1> DEFINE n == Len(text)
           X == ReadSoFar(L)
           Run(g) == g = [s \in SUBSET (1..n) |-> IF s = {} THEN Unread ELSE
                            IF text[Max(s)] \in {"sp", "nl"} THEN [g[s \ {Max(s)}] EXCEPT !.space = g[s \ {Max(s)}].out # <<>>]
                            ELSE [out |-> (IF g[s \ {Max(s)}].space THEN Append(g[s \ {Max(s)}].out, "sp") ELSE g[s \ {Max(s)}].out) \o <<text[Max(s)]>>,
                                  space |-> FALSE]]
           step == [p \in (1..n) \X X |-> NextChar(p[2], text[p[1]])]
           c == Top(n)
<1>1. n \in Nat /\ DOMAIN text = 1..n /\ \A i \in 1..n : text[i] \in L
  OBVIOUS
<1>2. step \in [(1..n) \X X -> X]
  <2>1. \A p \in (1..n) \X X : NextChar(p[2], text[p[1]]) \in X
    BY <1>1, CharTyped
  <2> QED BY <2>1
<1>0. Unread \in X
  BY DEF Unread, ReadSoFar
<1> HIDE DEF n
<1>3. IsFiniteSet(1..n) /\ Picks(c, 1..n) /\ \A i \in 1..n : Max(1..i) = i /\ (1..i) \ {i} = 1..(i - 1) /\ 1..i # {}
  BY <1>1, TopPicks
<1>4. PICK g \in [SUBSET (1..n) -> X] : Folds(g, 1..n, Unread, c, step)
  <2> HIDE DEF c, step, X
  <2> QED BY <1>0, <1>2, <1>3, FoldDefines
<1>5. Run(g)
  <2>1. ASSUME NEW s \in SUBSET (1..n), s # {}
        PROVE  g[s] = NextChar(g[s \ {Max(s)}], text[Max(s)])
    <3>1. c[s] = Max(s) /\ Max(s) \in 1..n
      BY <1>3, <2>1 DEF Top, Picks
    <3>2. g[s] = step[<<c[s], g[s \ {c[s]}]>>] /\ g[s \ {c[s]}] \in X
      BY <1>4, <2>1 DEF Folds
    <3> HIDE DEF c, X
    <3> QED BY <3>1, <3>2
  <2>2. g[{}] = Unread
    BY <1>4 DEF Folds
  <2> HIDE DEF c, step
  <2>3. \A s \in SUBSET (1..n) : g[s] = IF s = {} THEN Unread ELSE NextChar(g[s \ {Max(s)}], text[Max(s)])
    BY <2>1, <2>2
  <2>4. g = [s \in SUBSET (1..n) |-> IF s = {} THEN Unread ELSE NextChar(g[s \ {Max(s)}], text[Max(s)])]
    <3> DEFINE v(s) == IF s = {} THEN Unread ELSE NextChar(g[s \ {Max(s)}], text[Max(s)])
    <3>1. \A s \in SUBSET (1..n) : g[s] = v(s)
      BY <2>3
    <3> HIDE DEF v
    <3>2. g = [s \in SUBSET (1..n) |-> v(s)]
      BY <1>4, <3>1
    <3> QED BY <3>2 DEF v
  <2> QED BY <2>4 DEF NextChar, Blanks
<1> DEFINE h == CHOOSE f : Run(f)
<1>6. Run(h)
  <2> HIDE DEF Run
  <2> QED BY <1>5
<1>7. Normalize(text) = h[1..n].out
  BY <1>1 DEF Normalize, FoldLeft, MapThenFoldSet, Unread
<1> HIDE DEF h
<1>8. h[{}] = Unread
  <2>1. {} \in SUBSET (1..n)
    OBVIOUS
  <2> QED BY <1>6, <2>1
<1>9. ASSUME NEW i \in 1..n, h[1..(i - 1)] \in X PROVE h[1..i] = step[<<i, h[1..(i - 1)]>>]
  <2>1. 1..i \in SUBSET (1..n) /\ 1..i # {} /\ Max(1..i) = i /\ (1..i) \ {i} = 1..(i - 1)
    BY <1>1, <1>3, SMTT(40)
  <2>2. h[1..i] = NextChar(h[1..(i - 1)], text[i])
    BY <1>6, <2>1, ZenonT(60) DEF NextChar, Blanks
  <2> HIDE DEF X, Run
  <2> QED BY <1>9, <2>2
<1> HIDE DEF step, Run, c, X
<1>10. OnIntervals(h, Unread, step, n, X)
  BY <1>8, <1>9 DEF OnIntervals
<1>11. PICK f \in [0..n -> X] : Follows(f, h, Unread, step, n)
  BY <1>0, <1>1, <1>2, <1>10, FoldSteps
<1>12. Reads(f, text)
  <2>1. \A i \in 1..n : f[i] = NextChar(f[i - 1], text[i])
    <3> TAKE i \in 1..n
    <3>1. i - 1 \in 0..n
      BY <1>1
    <3>2. f[i - 1] \in X /\ f[i] = step[<<i, f[i - 1]>>]
      BY <1>11, <3>1 DEF Stepwise, Follows
    <3> QED BY <3>2 DEF step
  <2> QED BY <1>11, <2>1 DEF Reads, Stepwise, Follows, n
<1> QED BY <1>7, <1>11, <1>12 DEF Follows, n, X

\* There is one reading of a text.
LEMMA OneReading ==
  ASSUME NEW n \in Nat, NEW text, Len(text) = n, NEW f, Reads(f, text), NEW g, Reads(g, text)
  PROVE  \A i \in 0..n : g[i] = f[i]
<1> DEFINE T == {i \in 0..n : g[i] = f[i]}
<1>1. 0 \in T
  BY DEF Reads
<1>2. \A i \in 0..(n - 1) : i \in T => i + 1 \in T
  <2> TAKE i \in 0..(n - 1)
  <2> HAVE i \in T
  <2>1. i + 1 \in 1..n /\ (i + 1) - 1 = i /\ i + 1 \in 0..n
    OBVIOUS
  <2>2. g[i + 1] = NextChar(g[i], text[i + 1]) /\ f[i + 1] = NextChar(f[i], text[i + 1])
    BY <2>1 DEF Reads
  <2> QED BY <2>1, <2>2
<1> HIDE DEF T
<1>3. \A i \in 0..n : i \in T
  BY <1>1, <1>2, UpTo
<1> QED BY <1>3 DEF T

\* What is written has no blank at its ends, no two in a row, and none but a space.
Neat(o) ==
  \A i \in 1..Len(o) : o[i] # "nl" /\ (o[i] = "sp" => i > 1 /\ i < Len(o) /\ o[i - 1] # "sp" /\ o[i + 1] # "sp")

\* What is written stays neat,
LEMMA CharNeat ==
  ASSUME NEW L, "sp" \in L, NEW a \in ReadSoFar(L), NEW c \in L, Neat(a.out), a.space = TRUE => a.out # <<>>
  PROVE  Neat(NextChar(a, c).out) /\ (NextChar(a, c).space = TRUE => NextChar(a, c).out # <<>>)
<1> DEFINE o == a.out
           m == Len(o)
<1>1. o \in Seq(L) /\ a.space \in BOOLEAN /\ a = [out |-> o, space |-> a.space] /\ m \in Nat
  BY DEF ReadSoFar
<1>2. CASE c \in Blanks
  <2>1. NextChar(a, c) = [out |-> o, space |-> o # <<>>]
    BY <1>1, <1>2 DEF NextChar
  <2>2. NextChar(a, c).out = o /\ NextChar(a, c).space = (o # <<>>)
    BY <2>1
  <2> QED BY <2>2
<1>3. CASE c \notin Blanks
  <2> DEFINE p == (IF a.space THEN Append(o, "sp") ELSE o)
             q == p \o <<c>>
  <2>1. NextChar(a, c).out = q /\ NextChar(a, c).space = FALSE
    BY <1>3 DEF NextChar
  <2>2. c # "sp" /\ c # "nl"
    BY <1>3 DEF Blanks
  <2> HIDE DEF o, m
  <2>3. CASE a.space = TRUE
    <3>1. q \in Seq(L) /\ Len(q) = m + 2 /\ q[m + 1] = "sp" /\ q[m + 2] = c /\ \A i \in 1..m : q[i] = o[i]
      BY <1>1, <2>3 DEF m
    <3>2. m > 0
      BY <1>1, <2>3 DEF o, m
    <3> HIDE DEF q
    <3>3. o[m] # "sp"
      BY <1>1, <3>2 DEF Neat, o, m
    <3>4. ASSUME NEW i \in 1..(m + 2) PROVE q[i] # "nl" /\ (q[i] = "sp" => i > 1 /\ i < m + 2 /\ q[i - 1] # "sp" /\ q[i + 1] # "sp")
      <4>1. CASE i = m + 2
        BY <2>2, <3>1, <4>1
      <4>2. CASE i = m + 1
        <5>1. i - 1 = m /\ i + 1 = m + 2 /\ m \in 1..m
          BY <1>1, <3>2, <4>2
        <5> QED BY <1>1, <2>2, <3>1, <3>2, <3>3, <4>2, <5>1
      <4>3. CASE i \in 1..m
        <5>1. q[i] = o[i] /\ o[i] # "nl" /\ (o[i] = "sp" => i > 1 /\ i < m /\ o[i - 1] # "sp" /\ o[i + 1] # "sp")
          BY <3>1, <4>3 DEF Neat, o, m
        <5>2. i > 1 /\ i < m => i - 1 \in 1..m /\ i + 1 \in 1..m
          BY <1>1, <4>3
        <5> QED BY <1>1, <3>1, <5>1, <5>2
      <4> QED BY <1>1, <4>1, <4>2, <4>3
    <3>5. Neat(q)
      BY <3>1, <3>4 DEF Neat
    <3> QED BY <2>1, <3>5
  <2>4. CASE a.space = FALSE
    <3>1. q \in Seq(L) /\ Len(q) = m + 1 /\ q[m + 1] = c /\ \A i \in 1..m : q[i] = o[i]
      BY <1>1, <2>4 DEF m
    <3> HIDE DEF q
    <3>4. ASSUME NEW i \in 1..(m + 1) PROVE q[i] # "nl" /\ (q[i] = "sp" => i > 1 /\ i < m + 1 /\ q[i - 1] # "sp" /\ q[i + 1] # "sp")
      <4>1. CASE i = m + 1
        BY <2>2, <3>1, <4>1
      <4>3. CASE i \in 1..m
        <5>1. q[i] = o[i] /\ o[i] # "nl" /\ (o[i] = "sp" => i > 1 /\ i < m /\ o[i - 1] # "sp" /\ o[i + 1] # "sp")
          BY <3>1, <4>3 DEF Neat, o, m
        <5>2. i > 1 /\ i < m => i - 1 \in 1..m /\ i + 1 \in 1..m
          BY <1>1, <4>3
        <5> QED BY <1>1, <3>1, <5>1, <5>2
      <4> QED BY <1>1, <4>1, <4>3
    <3>5. Neat(q)
      BY <3>1, <3>4 DEF Neat
    <3> QED BY <2>1, <3>5
  <2> QED BY <1>1, <2>3, <2>4
<1> QED BY <1>2, <1>3

\* so that a normal form is neat.
LEMMA NormalIsNeat ==
  ASSUME NEW L, "sp" \in L, NEW text \in Seq(L)
  PROVE  Normalize(text) \in Seq(L) /\ Neat(Normalize(text))
<1> DEFINE n == Len(text)
<1>1. PICK f \in [0..n -> ReadSoFar(L)] : Reads(f, text) /\ Normalize(text) = f[n].out
  BY TextRead
<1> DEFINE T == {i \in 0..n : Neat(f[i].out) /\ (f[i].space = TRUE => f[i].out # <<>>)}
<1>2. n \in Nat /\ \A i \in 1..n : text[i] \in L
  OBVIOUS
<1>3. 0 \in T
  <2>1. Len(<<>>) = 0 /\ 1..0 = {}
    OBVIOUS
  <2>2. Neat(<<>>)
    BY <2>1 DEF Neat
  <2>3. f[0].out = <<>> /\ f[0].space = FALSE
    BY <1>1 DEF Reads, Unread
  <2> QED BY <1>2, <2>2, <2>3
<1> HIDE DEF n
<1>4. \A i \in 0..(n - 1) : i \in T => i + 1 \in T
  <2> TAKE i \in 0..(n - 1)
  <2> HAVE i \in T
  <2>1. i + 1 \in 1..n /\ (i + 1) - 1 = i /\ i + 1 \in 0..n /\ i \in 0..n
    BY <1>2
  <2>2. f[i + 1] = NextChar(f[i], text[i + 1])
    BY <1>1, <2>1 DEF Reads, n
  <2>3. f[i] \in ReadSoFar(L) /\ text[i + 1] \in L
    BY <1>1, <1>2, <2>1
  <2>4. Neat(NextChar(f[i], text[i + 1]).out) /\ (NextChar(f[i], text[i + 1]).space = TRUE => NextChar(f[i], text[i + 1]).out # <<>>)
    BY <2>3, CharNeat
  <2> QED BY <2>1, <2>2, <2>4
<1> HIDE DEF T
<1>5. \A i \in 0..n : i \in T
  BY <1>2, <1>3, <1>4, UpTo
<1>6. n \in 0..n
  BY <1>2
<1>7. f[n].out \in Seq(L)
  BY <1>1, <1>6 DEF ReadSoFar
<1> QED BY <1>1, <1>5, <1>6, <1>7 DEF T

\* The first i characters and the next.
LEMMA TakeMore ==
  ASSUME NEW L, NEW o \in Seq(L), NEW i \in 0..(Len(o) - 1)
  PROVE  /\ Take(o, i) \in Seq(L) /\ Len(Take(o, i)) = i /\ Append(Take(o, i), o[i + 1]) = Take(o, i + 1)
         /\ Take(o, i) \o <<o[i + 1]>> = Take(o, i + 1)
<1> DEFINE n == Len(o)
           s == Take(o, i)
           t == Take(o, i + 1)
           c == o[i + 1]
<1>1. n \in Nat /\ i \in Nat /\ i + 1 \in 1..n
  OBVIOUS
<1>2. s = SubSeq(o, 1, i) /\ t = SubSeq(o, 1, i + 1) /\ c \in L
  BY <1>1 DEF Take
<1>3. s \in Seq(L) /\ Len(s) = i /\ \A k \in 1..i : s[k] = o[k]
  BY <1>1, <1>2
<1>4. t \in Seq(L) /\ Len(t) = i + 1 /\ \A k \in 1..(i + 1) : t[k] = o[k]
  BY <1>1, <1>2
<1> HIDE DEF s, t, n
<1> DEFINE a == Append(s, c)
           b == s \o <<c>>
<1>5. a \in Seq(L) /\ Len(a) = i + 1 /\ a[i + 1] = c /\ \A k \in 1..i : a[k] = s[k]
  BY <1>2, <1>3
<1>6. b \in Seq(L) /\ Len(b) = i + 1 /\ b[i + 1] = c /\ \A k \in 1..i : b[k] = s[k]
  BY <1>2, <1>3
<1> HIDE DEF a, b
<1>7. \A k \in 1..(i + 1) : a[k] = t[k] /\ b[k] = t[k]
  <2> TAKE k \in 1..(i + 1)
  <2>1. k = i + 1 \/ k \in 1..i
    BY <1>1
  <2> QED BY <1>3, <1>4, <1>5, <1>6, <2>1
<1>8. a = t /\ b = t
  <2>1. a = [k \in 1..(i + 1) |-> a[k]] /\ b = [k \in 1..(i + 1) |-> b[k]] /\ t = [k \in 1..(i + 1) |-> t[k]]
    BY <1>4, <1>5, <1>6
  <2> QED BY <1>7, <2>1
<1> QED BY <1>3, <1>8 DEF a, b, s, t

\* All of them are the text.
LEMMA TakeAll ==
  ASSUME NEW L, NEW o \in Seq(L)
  PROVE  Take(o, Len(o)) = o /\ Take(o, 0) = <<>>
<1>1. Take(o, Len(o)) = SubSeq(o, 1, Len(o)) /\ Take(o, 0) = SubSeq(o, 1, 0)
  BY DEF Take
<1> QED BY <1>1

\* Reading a neat text writes it.
LEMMA NeatStays ==
  ASSUME NEW L, "sp" \in L, NEW o \in Seq(L), Neat(o)
  PROVE  Normalize(o) = o
<1> DEFINE n == Len(o)
           State(i) == IF i > 0 /\ o[i] = "sp" THEN [out |-> Take(o, i - 1), space |-> TRUE]
                       ELSE [out |-> Take(o, i), space |-> FALSE]
<1>1. n \in Nat /\ \A i \in 1..n : o[i] \in L
  OBVIOUS
<1>2. PICK f \in [0..n -> ReadSoFar(L)] : Reads(f, o) /\ Normalize(o) = f[n].out
  BY TextRead
<1>3. \A i \in 1..n : o[i] # "nl" /\ (o[i] = "sp" => i > 1 /\ i < n /\ o[i - 1] # "sp" /\ o[i + 1] # "sp")
  BY DEF Neat
<1> DEFINE T == {i \in 0..n : f[i] = State(i)}
<1>4. 0 \in T
  <2>1. Take(o, 0) = <<>>
    BY TakeAll
  <2>2. f[0] = [out |-> <<>>, space |-> FALSE]
    BY <1>2 DEF Reads, Unread
  <2> QED BY <1>1, <2>1, <2>2
<1> HIDE DEF n
<1>5. \A i \in 0..(n - 1) : i \in T => i + 1 \in T
  <2> TAKE i \in 0..(n - 1)
  <2> HAVE i \in T
  <2> DEFINE j == i + 1
             c == o[j]
  <2>1. j \in 1..n /\ j - 1 = i /\ j \in 0..n /\ j > 0 /\ i \in Nat
    BY <1>1
  <2>2. f[j] = NextChar(f[i], c) /\ f[i] = State(i)
    BY <1>2, <2>1 DEF Reads, n
  <2>3. Take(o, i) \in Seq(L) /\ Len(Take(o, i)) = i /\ Take(o, i) \o <<c>> = Take(o, j)
    BY TakeMore DEF n
  <2>4. c # "nl"
    BY <1>3, <2>1
  <2>5. CASE c = "sp"
    <3>1. i > 0 /\ o[i] # "sp"
      BY <1>3, <2>1, <2>5
    <3> DEFINE s == Take(o, i)
    <3>2. f[i] = [out |-> s, space |-> FALSE]
      BY <2>2, <3>1
    <3>3. s # <<>>
      BY <2>1, <2>3, <3>1
    <3> HIDE DEF s
    <3>4. f[j] = [out |-> s, space |-> s # <<>>]
      BY <2>2, <2>5, <3>2 DEF NextChar, Blanks
    <3>5. f[j] = [out |-> s, space |-> TRUE]
      <4>1. (s # <<>>) = TRUE
        BY <3>3
      <4> QED BY <3>4, <4>1
    <3>6. State(j) = [out |-> Take(o, j - 1), space |-> TRUE]
      BY <2>1, <2>5
    <3>7. f[j] = State(j)
      BY <2>1, <3>5, <3>6 DEF s
    <3> HIDE DEF j, State
    <3>8. j \in T
      BY <2>1, <3>7
    <3> QED BY <3>8 DEF j
  <2>6. CASE c # "sp"
    <3>1. State(j) = [out |-> Take(o, j), space |-> FALSE]
      BY <2>1, <2>6
    <3>2. c \notin Blanks
      BY <2>4, <2>6 DEF Blanks
    <3>3. CASE i > 0 /\ o[i] = "sp"
      <4>1. f[i] = [out |-> Take(o, i - 1), space |-> TRUE]
        BY <2>2, <3>3
      <4>2. Append(Take(o, i - 1), "sp") = Take(o, i)
        <5>1. i - 1 \in 0..(Len(o) - 1) /\ (i - 1) + 1 = i
          BY <2>1, <3>3 DEF n
        <5> QED BY <3>3, <5>1, TakeMore
      <4> DEFINE r == Take(o, i - 1)
      <4>3. f[i].out = r /\ f[i].space = TRUE
        BY <4>1
      <4>4. f[j] = [out |-> Append(r, "sp") \o <<c>>, space |-> FALSE]
        <5> HIDE DEF r, State
        <5> QED BY <2>2, <3>2, <4>3 DEF NextChar
      <4>5. f[j] = State(j)
        <5>1. Append(r, "sp") \o <<c>> = Take(o, j)
          BY <2>3, <4>2
        <5> HIDE DEF r, State, j
        <5> QED BY <3>1, <4>4, <5>1
      <4> HIDE DEF j, State, r
      <4>6. j \in T
        BY <2>1, <4>5
      <4> QED BY <4>6 DEF j
    <3>4. CASE ~ (i > 0 /\ o[i] = "sp")
      <4> DEFINE r == Take(o, i)
      <4>1. f[i] = [out |-> r, space |-> FALSE]
        BY <2>2, <3>4
      <4>2. f[i].out = r /\ f[i].space = FALSE
        BY <4>1
      <4>3. f[j] = [out |-> r \o <<c>>, space |-> FALSE]
        <5> HIDE DEF r, State
        <5> QED BY <2>2, <3>2, <4>2 DEF NextChar
      <4>4. f[j] = State(j)
        <5> HIDE DEF State, j
        <5> QED BY <2>3, <3>1, <4>3
      <4> HIDE DEF j, State, r
      <4>5. j \in T
        BY <2>1, <4>4
      <4> QED BY <4>5 DEF j
    <3> QED BY <3>3, <3>4
  <2> QED BY <2>5, <2>6
<1> HIDE DEF T
<1>6. \A i \in 0..n : i \in T
  BY <1>1, <1>4, <1>5, UpTo
<1>7. n \in 0..n /\ f[n] = State(n)
  BY <1>1, <1>6 DEF T
<1>8. ~ (n > 0 /\ o[n] = "sp")
  BY <1>1, <1>3
<1>9. f[n] = [out |-> Take(o, n), space |-> FALSE]
  BY <1>7, <1>8
<1>10. f[n].out = Take(o, n) /\ Take(o, n) = o
  BY <1>9, TakeAll DEF n
<1> QED BY <1>2, <1>10

\* The characters that are not blank.
LettersAt(s) == {i \in DOMAIN s : s[i] \notin Blanks}
Letters(s) == Picked(s, LettersAt(s))

\* One character more is one letter more, or none.
LEMMA MoreLetters ==
  ASSUME NEW L, NEW s \in Seq(L), NEW c \in L
  PROVE  Letters(Append(s, c)) = IF c \in Blanks THEN Letters(s) ELSE Append(Letters(s), c)
<1> DEFINE n == Len(s)
           t == Append(s, c)
           A == LettersAt(s)
           B == LettersAt(t)
           p == Ranked(A, <)
           m == Cardinality(A)
           new == n + 1
<1>1. n \in Nat /\ DOMAIN s = 1..n /\ DOMAIN t = 1..(n + 1) /\ t[n + 1] = c /\ \A i \in 1..n : t[i] = s[i]
  OBVIOUS
<1>2. new \in Nat /\ new \notin 1..n /\ \A i : i \in 1..(n + 1) <=> i \in 1..n \/ i = new
  BY <1>1
<1> HIDE DEF t
<1>3. A \in SUBSET (1..n) /\ B = IF c \in Blanks THEN A ELSE A \cup {new}
  <2>1. A = {i \in 1..n : s[i] \notin Blanks} /\ B = {i \in 1..(n + 1) : t[i] \notin Blanks}
    BY <1>1 DEF LettersAt
  <2> HIDE DEF A, B
  <2>2. \A i : i \in B <=> i \in A \/ (i = new /\ c \notin Blanks)
    BY <1>1, <1>2, <2>1
  <2> QED BY <2>1, <2>2
<1> HIDE DEF A, B, n, new
<1>4. IsFiniteSet(A) /\ A \in SUBSET Int /\ \A x \in A : x < new /\ x \in 1..n
  <2>1. IsFiniteSet(1..n)
    BY <1>1, FS_Interval
  <2>2. IsFiniteSet(A)
    BY <1>3, <2>1, FS_Subset
  <2>3. \A x \in 1..n : x < new /\ x \in Int
    BY <1>1, <1>2 DEF new
  <2> QED BY <1>3, <2>2, <2>3
<1>5. InOrder(p, A, Below(A)) /\ m \in Nat
  BY <1>4, PositionsInOrder, FS_CardinalityType
<1>6. Letters(s) = [k \in 1..m |-> s[p[k]]]
  BY DEF Letters, Picked, A
<1> HIDE DEF p, m
<1>7. /\ p \in [1..m -> A] /\ (\A i, j \in 1..m : i < j => p[i] < p[j]) /\ \A x \in A : \E i \in 1..m : p[i] = x
  BY <1>5 DEF InOrder, Below, m
<1>8. \A k \in 1..m : s[p[k]] = t[p[k]] /\ s[p[k]] \in L
  <2>1. \A i \in 1..n : s[i] \in L
    BY <1>1 DEF n
  <2>2. \A i \in 1..n : t[i] = s[i]
    BY <1>1
  <2> TAKE k \in 1..m
  <2>3. p[k] \in A
    BY <1>7
  <2>4. p[k] \in 1..n
    BY <1>4, <2>3
  <2> QED BY <2>1, <2>2, <2>4
<1>9. CASE c \in Blanks
  <2>1. B = A
    BY <1>3, <1>9
  <2>2. Letters(t) = [k \in 1..m |-> t[p[k]]]
    BY <2>1 DEF Letters, Picked, B, A, p, m
  <2> QED BY <1>6, <1>8, <1>9, <2>2 DEF t
<1>10. CASE c \notin Blanks
  <2>1. B = A \cup {new} /\ new \notin A /\ new \in Int
    BY <1>2, <1>3, <1>4, <1>10
  <2>2. IsFiniteSet(B) /\ Cardinality(B) = m + 1 /\ B \in SUBSET Int
    BY <1>4, <2>1, FS_AddElement DEF m
  <2> DEFINE q == [k \in 1..(m + 1) |-> IF k = m + 1 THEN new ELSE p[k]]
             r == Ranked(B, <)
  <2>3. \A k \in 1..(m + 1) : k = m + 1 \/ k \in 1..m
    BY <1>5
  <2>4. q \in [1..(m + 1) -> B]
    BY <1>7, <2>1, <2>3
  <2>5. q[m + 1] = new /\ \A k \in 1..m : q[k] = p[k] /\ k \in 1..(m + 1) /\ k # m + 1
    BY <1>5
  <2> HIDE DEF q
  <2>6. \A i, j \in 1..(m + 1) : i < j => q[i] < q[j]
    <3> TAKE i, j \in 1..(m + 1)
    <3> HAVE i < j
    <3>1. i \in 1..m
      BY <1>5
    <3>2. CASE j = m + 1
      BY <1>4, <1>7, <2>5, <3>1, <3>2
    <3>3. CASE j \in 1..m
      BY <1>7, <2>5, <3>1, <3>3
    <3> QED BY <2>3, <3>2, <3>3
  <2>7. \A x \in B : \E i \in 1..(m + 1) : q[i] = x
    <3> TAKE x \in B
    <3>1. CASE x = new
      <4>1. m + 1 \in 1..(m + 1)
        BY <1>5
      <4> QED BY <2>5, <3>1, <4>1
    <3>2. CASE x \in A
      BY <1>7, <2>5, <3>2
    <3> QED BY <2>1, <3>1, <3>2
  <2>8. InOrder(q, B, Below(B))
    <3>1. \A i, j \in 1..(m + 1) : i < j => <<q[i], q[j]>> \in Below(B)
      BY <2>4, <2>6 DEF Below
    <3> QED BY <2>2, <2>4, <2>7, <3>1 DEF InOrder
  <2>9. InOrder(r, B, Below(B)) /\ TotalOrder(Below(B), B)
    <3>1. TotalOrder(Below(B), B)
      BY <2>2 DEF TotalOrder, Below
    <3> QED BY <2>2, <3>1, PositionsInOrder
  <2>10. q = r
    BY <2>2, <2>8, <2>9, OneOrder
  <2>11. Letters(t) = [k \in 1..(m + 1) |-> t[q[k]]]
    BY <2>2, <2>10 DEF Letters, Picked, B, r
  <2> DEFINE l == Letters(s)
             a == Append(l, c)
  <2>12. l \in Seq(L) /\ Len(l) = m /\ \A k \in 1..m : l[k] = s[p[k]]
    <3>1. l \in [1..m -> L]
      BY <1>6, <1>8
    <3> HIDE DEF l
    <3>2. l \in Seq(L) /\ Len(l) = m
      BY <1>5, <3>1
    <3> QED BY <1>6, <3>2 DEF l
  <2> HIDE DEF l
  <2>13. a \in Seq(L) /\ Len(a) = m + 1 /\ a[m + 1] = c /\ \A k \in 1..m : a[k] = l[k]
    BY <2>12, <1>5
  <2> HIDE DEF a
  <2>14. \A k \in 1..(m + 1) : t[q[k]] = a[k]
    <3> TAKE k \in 1..(m + 1)
    <3>1. CASE k = m + 1
      BY <1>1, <2>5, <2>13, <3>1 DEF new
    <3>2. CASE k \in 1..m
      BY <1>8, <2>5, <2>12, <2>13, <3>2
    <3> QED BY <2>3, <3>1, <3>2
  <2>15. a = [k \in 1..(m + 1) |-> a[k]]
    BY <2>13
  <2>16. Letters(t) = a
    BY <2>11, <2>14, <2>15
  <2> QED BY <1>10, <2>16 DEF t, a, l
<1> QED BY <1>9, <1>10

\* A normal form has the letters of its text.
LEMMA LettersKept ==
  ASSUME NEW L, "sp" \in L, NEW text \in Seq(L)
  PROVE  Letters(Normalize(text)) = Letters(text)
<1> DEFINE n == Len(text)
<1>1. n \in Nat /\ \A i \in 1..n : text[i] \in L
  OBVIOUS
<1>2. PICK f \in [0..n -> ReadSoFar(L)] : Reads(f, text) /\ Normalize(text) = f[n].out
  BY TextRead
<1> DEFINE T == {i \in 0..n : Letters(f[i].out) = Letters(Take(text, i))}
<1>3. 0 \in T
  <2>1. Take(text, 0) = <<>> /\ f[0].out = <<>>
    BY <1>2, TakeAll DEF Reads, Unread
  <2> QED BY <1>1, <2>1
<1> HIDE DEF n
<1>4. \A i \in 0..(n - 1) : i \in T => i + 1 \in T
  <2> TAKE i \in 0..(n - 1)
  <2> HAVE i \in T
  <2> DEFINE j == i + 1
             c == text[j]
             s == Take(text, i)
             a == f[i]
             o == a.out
  <2>1. j \in 1..n /\ j - 1 = i /\ j \in 0..n /\ i \in 0..n
    BY <1>1
  <2>2. f[j] = NextChar(a, c) /\ c \in L /\ Letters(o) = Letters(s)
    BY <1>1, <1>2, <2>1 DEF Reads, n
  <2>3. s \in Seq(L) /\ Append(s, c) = Take(text, j)
    BY TakeMore DEF n
  <2>4. o \in Seq(L) /\ a.space \in BOOLEAN /\ a = [out |-> o, space |-> a.space]
    BY <1>2, <2>1 DEF ReadSoFar
  <2> HIDE DEF c, s, a, o, T
  <2>5. Letters(Take(text, j)) = IF c \in Blanks THEN Letters(s) ELSE Append(Letters(s), c)
    BY <2>2, <2>3, MoreLetters
  <2>6. CASE c \in Blanks
    <3>1. f[j] = [out |-> o, space |-> o # <<>>]
      BY <2>2, <2>4, <2>6 DEF NextChar, o
    <3>2. f[j].out = o
      BY <3>1
    <3>3. Letters(f[j].out) = Letters(Take(text, j))
      BY <2>2, <2>5, <2>6, <3>2
    <3> QED BY <2>1, <3>3 DEF T
  <2>7. CASE c \notin Blanks
    <3> DEFINE p == IF a.space THEN Append(o, "sp") ELSE o
    <3>1. f[j] = [out |-> p \o <<c>>, space |-> FALSE]
      BY <2>2, <2>7 DEF NextChar, o
    <3>2. p \in Seq(L) /\ Letters(p) = Letters(o)
      <4>1. CASE a.space = TRUE
        <5>1. "sp" \in Blanks
          BY DEF Blanks
        <5>2. Letters(Append(o, "sp")) = Letters(o)
          BY <2>4, <5>1, MoreLetters
        <5> QED BY <2>4, <4>1, <5>2
      <4>2. CASE a.space = FALSE
        BY <2>4, <4>2
      <4> QED BY <2>4, <4>1, <4>2
    <3> HIDE DEF p
    <3>3. p \o <<c>> = Append(p, c)
      <4> DEFINE u == p \o <<c>>
                 v == Append(p, c)
                 m == Len(p)
      <4>1. u \in Seq(L) /\ Len(u) = m + 1 /\ u[m + 1] = c /\ (\A k \in 1..m : u[k] = p[k]) /\ m \in Nat
        BY <2>2, <3>2
      <4>2. v \in Seq(L) /\ Len(v) = m + 1 /\ v[m + 1] = c /\ \A k \in 1..m : v[k] = p[k]
        BY <2>2, <3>2
      <4> HIDE DEF u, v, m
      <4>3. \A k \in 1..(m + 1) : u[k] = v[k]
        <5> TAKE k \in 1..(m + 1)
        <5>1. k = m + 1 \/ k \in 1..m
          BY <4>1
        <5> QED BY <4>1, <4>2, <5>1
      <4>4. u = [k \in 1..(m + 1) |-> u[k]] /\ v = [k \in 1..(m + 1) |-> v[k]]
        BY <4>1, <4>2
      <4>5. u = v
        BY <4>3, <4>4
      <4> QED BY <4>5 DEF u, v
    <3>4. Letters(f[j].out) = Append(Letters(p), c)
      <4>1. f[j].out = Append(p, c)
        BY <3>1, <3>3
      <4> QED BY <2>2, <2>7, <3>2, <4>1, MoreLetters
    <3>5. Letters(f[j].out) = Letters(Take(text, j))
      BY <2>2, <2>5, <2>7, <3>2, <3>4
    <3> QED BY <2>1, <3>5 DEF T
  <2> QED BY <2>6, <2>7
<1> HIDE DEF T
<1>5. \A i \in 0..n : i \in T
  BY <1>1, <1>3, <1>4, UpTo
<1>6. n \in 0..n
  BY <1>1
<1>7. Take(text, n) = text
  BY TakeAll DEF n
<1> QED BY <1>2, <1>5, <1>6, <1>7 DEF T

\* Blanks around a text are not part of what is written.
LEMMA WrappedSame ==
  ASSUME NEW L, {"sp", "nl"} \subseteq L, NEW text \in Seq(L)
  PROVE  Normalize(<<"nl">> \o text \o <<"sp">>) = Normalize(text)
<1> DEFINE n == Len(text)
           h == <<"nl">> \o text
           w == h \o <<"sp">>
<1>1. n \in Nat /\ \A i \in 1..n : text[i] \in L
  OBVIOUS
<1>2. PICK f \in [0..n -> ReadSoFar(L)] : Reads(f, text) /\ Normalize(text) = f[n].out
  BY TextRead
<1>3. h \in Seq(L) /\ Len(h) = n + 1 /\ h[1] = "nl" /\ \A i \in 1..n : h[i + 1] = text[i]
  <2>1. "nl" \in L /\ <<"nl">> \in Seq(L) /\ Len(<<"nl">>) = 1 /\ <<"nl">>[1] = "nl"
    OBVIOUS
  <2> DEFINE b == <<"nl">>
  <2> HIDE DEF b, n, h
  <2>2. b \in Seq(L) /\ Len(b) = 1 /\ b[1] = "nl"
    BY <2>1 DEF b
  <2>3. h \in Seq(L) /\ IsJoined(h, b, text)
    BY <2>2, Joined DEF h, b
  <2>4. Len(h) = 1 + n /\ (\A i \in 1..1 : h[i] = b[i]) /\ \A j \in 1..n : h[1 + j] = text[j]
    BY <2>2, <2>3 DEF IsJoined, n
  <2> QED BY <1>1, <2>2, <2>3, <2>4
<1> HIDE DEF h, n
<1>4. w \in Seq(L) /\ Len(w) = n + 2 /\ w[n + 2] = "sp" /\ \A i \in 1..(n + 1) : w[i] = h[i]
  <2>1. "sp" \in L /\ <<"sp">> \in Seq(L) /\ Len(<<"sp">>) = 1 /\ <<"sp">>[1] = "sp"
    OBVIOUS
  <2> DEFINE b == <<"sp">>
             m == n + 1
  <2> HIDE DEF b, m, w
  <2>2. b \in Seq(L) /\ Len(b) = 1 /\ b[1] = "sp" /\ m \in Nat /\ Len(h) = m
    BY <1>1, <1>3, <2>1 DEF b, m
  <2>3. w \in Seq(L) /\ IsJoined(w, h, b)
    BY <1>3, <2>2, Joined DEF w, b
  <2>4. Len(w) = m + 1 /\ (\A i \in 1..m : w[i] = h[i]) /\ w[m + 1] = b[1]
    BY <2>2, <2>3 DEF IsJoined
  <2> QED BY <1>1, <2>2, <2>3, <2>4 DEF m
<1> HIDE DEF w
<1> DEFINE k == n + 2
<1>5. k \in Nat /\ Len(w) = k
  BY <1>1, <1>4
<1>6. "sp" \in L
  OBVIOUS
<1>7. PICK g \in [0..k -> ReadSoFar(L)] : Reads(g, w) /\ Normalize(w) = g[k].out
  BY <1>4, <1>5, <1>6, TextRead
<1>8. \A i \in 1..k : g[i] = NextChar(g[i - 1], w[i])
  BY <1>5, <1>7 DEF Reads
<1>9. g[1] = Unread
  <2>1. g[0] = Unread
    BY <1>7 DEF Reads
  <2>2. 1 \in 1..k /\ 1 \in 1..(n + 1) /\ 1 - 1 = 0
    BY <1>1
  <2>3. w[1] = "nl"
    BY <1>3, <1>4, <2>2
  <2>4. g[1] = NextChar(Unread, "nl")
    BY <1>8, <2>1, <2>2, <2>3
  <2>5. "nl" \in Blanks
    BY DEF Blanks
  <2>6. NextChar(Unread, "nl") = [Unread EXCEPT !.space = Unread.out # <<>>]
    BY <2>5 DEF NextChar
  <2>7. Unread = [out |-> <<>>, space |-> FALSE] /\ Unread.out = <<>>
    BY DEF Unread
  <2>8. [Unread EXCEPT !.space = Unread.out # <<>>] = [out |-> <<>>, space |-> FALSE]
    <3> DEFINE z == Unread
    <3>1. z.out # <<>> <=> FALSE
      BY <2>7
    <3>2. z = [out |-> <<>>, space |-> FALSE]
      BY <2>7
    <3>3. [z EXCEPT !.space = z.out # <<>>] = [out |-> z.out, space |-> z.out # <<>>]
      BY <3>2
    <3>4. z.space = FALSE
      BY <3>2
    <3>5. (z.out # <<>>) = FALSE
      BY <3>1
    <3> HIDE DEF z
    <3> QED BY <2>7, <3>3, <3>5 DEF z
  <2> QED BY <2>4, <2>6, <2>7, <2>8
<1> DEFINE e == [i \in 0..n |-> g[i + 1]]
<1>10. e[0] = Unread /\ \A i \in 1..n : e[i] = NextChar(e[i - 1], text[i])
  <2>1. e[0] = Unread
    BY <1>1, <1>9
  <2>2. ASSUME NEW i \in 1..n PROVE e[i] = NextChar(e[i - 1], text[i])
    <3>1. i + 1 \in 1..k /\ (i + 1) - 1 = i /\ i \in 0..n /\ i - 1 \in 0..n /\ (i - 1) + 1 = i /\ i + 1 \in 1..(n + 1)
      BY <1>1
    <3>2. g[i + 1] = NextChar(g[i], w[i + 1])
      BY <1>8, <3>1
    <3>3. w[i + 1] = text[i]
      BY <1>3, <1>4, <3>1
    <3>4. e[i] = g[i + 1] /\ e[i - 1] = g[i]
      BY <3>1
    <3> QED BY <3>2, <3>3, <3>4
  <2> QED BY <2>1, <2>2
<1> HIDE DEF e
<1>11. \A i \in 0..n : e[i] = f[i]
  <2>1. Len(text) = n /\ n \in Nat
    BY <1>1 DEF n
  <2>2. Reads(e, text)
    BY <1>10, <2>1 DEF Reads
  <2>3. Reads(f, text)
    BY <1>2
  <2> QED BY <2>1, <2>2, <2>3, OneReading
<1>12. g[n + 1] = f[n]
  <2>1. n \in 0..n
    BY <1>1
  <2>2. e[n] = g[n + 1]
    BY <2>1 DEF e
  <2> QED BY <1>11, <2>1, <2>2
<1>13. g[k].out = f[n].out
  <2>1. k \in 1..k /\ k - 1 = n + 1
    BY <1>1
  <2>2. g[k] = NextChar(f[n], "sp")
    BY <1>4, <1>8, <1>12, <2>1
  <2>3. "sp" \in Blanks
    BY DEF Blanks
  <2>4. f[n] \in ReadSoFar(L)
    <3>1. n \in 0..n
      BY <1>1
    <3> QED BY <1>2, <3>1
  <2> DEFINE a == f[n]
  <2>5. a = [out |-> a.out, space |-> a.space]
    BY <2>4 DEF ReadSoFar
  <2> HIDE DEF a
  <2>6. NextChar(a, "sp") = [out |-> a.out, space |-> a.out # <<>>]
    BY <2>3, <2>5 DEF NextChar
  <2> QED BY <2>2, <2>6 DEF a
<1> QED BY <1>2, <1>7, <1>13 DEF w, h

NormalizeInputOK == For("normalize") => \E L : {"sp", "nl"} \subseteq L /\ input.text \in Seq(L)

\* The normal form is stable: of any text.
LEMMA NormalizeHolds == NormalizeInputOK => NormalFormStable
<1> SUFFICES ASSUME NormalizeInputOK, For("normalize")
             PROVE  /\ Normalize(Normalize(input.text)) = Normalize(input.text)
                    /\ Letters(Normalize(input.text)) = Letters(input.text)
                    /\ Normalize(<<"nl">> \o input.text \o <<"sp">>) = Normalize(input.text)
  BY DEF NormalFormStable, Letters, LettersAt, Blanks
<1> DEFINE text == input.text
           n == Normalize(text)
<1>1. PICK L : {"sp", "nl"} \subseteq L /\ text \in Seq(L)
  BY DEF NormalizeInputOK
<1> HIDE DEF text
<1>2. "sp" \in L
  BY <1>1
<1>3. n \in Seq(L) /\ Neat(n)
  BY <1>1, <1>2, NormalIsNeat
<1> HIDE DEF n
<1>4. Normalize(n) = n
  BY <1>2, <1>3, NeatStays
<1>5. Letters(Normalize(text)) = Letters(text)
  BY <1>1, <1>2, LettersKept
<1>6. Normalize(<<"nl">> \o text \o <<"sp">>) = Normalize(text)
  BY <1>1, WrappedSame
<1> QED BY <1>4, <1>5, <1>6 DEF n, text

AnswersInputOK ==
  /\ BudgetInputOK /\ BlendInputOK /\ ExpandInputOK /\ RecallInputOK /\ NormalizeInputOK

\* The promises of the answers, of any input.
THEOREM AnswersAreFaithful == AnswersInputOK => AnswersFaithful
  BY BudgetHolds, BlendHolds, ExpandHolds, RecallHolds, NormalizeHolds DEF AnswersInputOK, AnswersFaithful

(***************************************************************************)
(* Retrieval: the cap per file, and the order of the hash maps.            *)
(***************************************************************************)

\* The places of a file in a ranking.
OfFile(t, chunks, n, f) == {k \in 1..n : chunks[t[k]].file = f}
\* The results of one file, and all that a ranking has of it.
Share(K, chunks, f) == {i \in K : chunks[i].file = f}
CapKept(K, C, chunks, topk, m) ==
  /\ K \subseteq C
  /\ \A i \in K : Cardinality(Share(K, chunks, chunks[i].file)) <= MaxChunksPerFile
  /\ m < topk => \A i \in C \ K : Cardinality(Share(K, chunks, chunks[i].file)) = MaxChunksPerFile

\* The chunks under the cap, file by file.
LEMMA CapByFile ==
  ASSUME NEW n \in Nat, NEW C, NEW t, OnceEach(t, n, C), NEW chunks
  PROVE  /\ UnderCap(t, chunks) \in SUBSET (1..n)
         /\ \A f : UnderCap(t, chunks) \cap OfFile(t, chunks, n, f) = Within(OfFile(t, chunks, n, f), MaxChunksPerFile)
<1> DEFINE U == UnderCap(t, chunks)
           A(f) == OfFile(t, chunks, n, f)
<1>1. DOMAIN t = 1..n
  BY DEF OnceEach
<1>2. U = {k \in 1..n : Cardinality({j \in 1..k : chunks[t[j]].file = chunks[t[k]].file}) <= MaxChunksPerFile}
  BY <1>1 DEF UnderCap
<1>3. ASSUME NEW f, NEW k \in A(f)
      PROVE  k \in 1..n /\ {j \in 1..k : chunks[t[j]].file = chunks[t[k]].file} = A(f) \cap 1..k
  BY DEF OfFile
<1>4. ASSUME NEW f PROVE U \cap A(f) = Within(A(f), MaxChunksPerFile)
  <2>1. A(f) \subseteq 1..n
    BY DEF OfFile
  <2>2. \A k \in A(f) : k \in U <=> Cardinality(A(f) \cap 1..k) <= MaxChunksPerFile
    BY <1>2, <1>3
  <2>3. \A k \in A(f) : k \in U <=> k \in Within(A(f), MaxChunksPerFile)
    BY <2>2 DEF Within
  <2>4. Within(A(f), MaxChunksPerFile) \subseteq A(f)
    BY DEF Within
  <2> HIDE DEF U, A
  <2> QED BY <2>3, <2>4
<1> QED BY <1>2, <1>4

\* What is kept of a ranking has the cap's share of every file, and wastes no place.
LEMMA KeepCaps ==
  ASSUME NEW n \in Nat, NEW C, NEW t, OnceEach(t, n, C), \A x \in C : \E k \in 1..n : t[k] = x,
         NEW chunks, NEW topk \in Nat
  PROVE  CapKept(ToSet(Keep(t, chunks, topk)), C, chunks, topk, Len(Keep(t, chunks, topk)))
<1> DEFINE U == UnderCap(t, chunks)
           A(f) == OfFile(t, chunks, n, f)
           W(f) == Within(A(f), MaxChunksPerFile)
           P == {t[k] : k \in U}
           p == Picked(t, U)
           c == Cardinality(U)
           kept == Take(p, topk)
           K == ToSet(kept)
<1>1. MaxChunksPerFile \in Nat
  BY RetrievalAssumption
<1>2. /\ t \in [1..n -> C] /\ (\A i, j \in 1..n : t[i] = t[j] => i = j) /\ U \in SUBSET (1..n)
      /\ \A f : U \cap A(f) = W(f)
  BY CapByFile DEF OnceEach
<1>3. \A f : A(f) \in SUBSET (1..n) /\ \A k \in 1..n : k \in A(f) <=> chunks[t[k]].file = f
  BY DEF OfFile
<1>4. kept = Keep(t, chunks, topk)
  BY DEF Keep
<1> HIDE DEF U
<1>5. c \in Nat /\ p \in [1..c -> P] /\ \A k \in U : \E j \in 1..c : p[j] = t[k]
  <2>1. c \in Nat /\ IsPicked(p, t, U, c)
    BY <1>2, PickedIs
  <2> HIDE DEF p, c
  <2> QED BY <2>1 DEF IsPicked
<1> HIDE DEF p, c
<1>6. PICK m \in Nat : IsTaken(kept, p, c, P, topk, m)
  BY <1>5, TakeIs
<1> HIDE DEF kept
<1>7. K = {kept[k] : k \in 1..m} /\ K \subseteq P /\ Len(kept) = m
  BY <1>6 DEF IsTaken, ToSet
<1>8. ASSUME m < topk PROVE K = P
  <2>1. m = c
    BY <1>5, <1>6, <1>8 DEF IsTaken
  <2>2. \A j \in 1..c : kept[j] = p[j]
    BY <1>6, <2>1 DEF IsTaken
  <2>3. ASSUME NEW k \in U PROVE t[k] \in K
    BY <1>5, <1>7, <2>1, <2>2
  <2> HIDE DEF K
  <2> QED BY <1>7, <2>3
<1> HIDE DEF K, A
<1>9. P \subseteq C
  BY <1>2
<1>10. ASSUME NEW f
       PROVE  /\ IsFiniteSet(Share(P, chunks, f)) /\ Cardinality(Share(P, chunks, f)) = Cardinality(W(f))
              /\ Cardinality(W(f)) <= MaxChunksPerFile
              /\ W(f) # A(f) => Cardinality(W(f)) = MaxChunksPerFile
  <2>1. W(f) \in SUBSET (1..n)
    BY <1>2, <1>3
  <2>2. IsAt(Share(P, chunks, f), t, W(f))
    <3>1. Share(P, chunks, f) = {t[k] : k \in U \cap A(f)}
      BY <1>2, <1>3 DEF Share
    <3> QED BY <1>2, <3>1 DEF IsAt
  <2>3. IsFiniteSet(Share(P, chunks, f)) /\ Cardinality(Share(P, chunks, f)) = Cardinality(W(f))
    <3> HIDE DEF W, P
    <3> QED BY <2>1, <2>2, AsMany
  <2>4. Cardinality(W(f)) <= MaxChunksPerFile /\ (W(f) # A(f) => Cardinality(W(f)) = MaxChunksPerFile)
    BY <1>1, <1>3, CapShares
  <2> QED BY <2>3, <2>4
<1> HIDE DEF P, W
<1>11. ASSUME NEW i \in K PROVE Cardinality(Share(K, chunks, chunks[i].file)) <= MaxChunksPerFile
  <2> DEFINE S == Share(K, chunks, chunks[i].file)
             T == Share(P, chunks, chunks[i].file)
  <2>1. S \subseteq T
    BY <1>7 DEF Share
  <2>2. IsFiniteSet(T) /\ Cardinality(T) <= MaxChunksPerFile
    BY <1>10
  <2> HIDE DEF S, T
  <2>3. Cardinality(S) <= Cardinality(T) /\ IsFiniteSet(S)
    BY <2>1, <2>2, FS_Subset
  <2>4. Cardinality(S) \in Nat /\ Cardinality(T) \in Nat
    BY <2>2, <2>3, FS_CardinalityType
  <2> QED BY <1>1, <2>2, <2>3, <2>4 DEF S
<1>12. ASSUME m < topk, NEW i \in C \ K PROVE Cardinality(Share(K, chunks, chunks[i].file)) = MaxChunksPerFile
  <2>1. PICK k \in 1..n : t[k] = i
    OBVIOUS
  <2>2. k \notin U
    BY <1>8, <1>12, <2>1 DEF P
  <2>3. k \in A(chunks[i].file)
    BY <1>3, <2>1
  <2>4. W(chunks[i].file) # A(chunks[i].file)
    BY <1>2, <2>2, <2>3
  <2> QED BY <1>8, <1>10, <1>12, <2>4
<1> QED BY <1>4, <1>7, <1>9, <1>11, <1>12 DEF CapKept, K

RankInputOK ==
  For("rank") => \E n \in Nat : ChunksOf(input.chunks, n) /\ input.q \in Query

\* The cap leaves no place empty that a file could fill: of any ranking.
LEMMA CapHolds == RankInputOK => CapWastesNoPlace
<1> SUFFICES ASSUME RankInputOK, For("rank") PROVE CapWastesNoPlace
  BY DEF CapWastesNoPlace
<1> DEFINE q == input.q
           chunks == input.chunks
           C == Candidates(chunks, q)
           order == AnyOrder(chunks, q)
           kept == RankCore(chunks, q, order)
           t == InScoreOrder(order, chunks, q)
           share(f) == Cardinality({i \in ToSet(kept) : chunks[i].file = f})
<1>1. PICK n \in Nat : ChunksOf(chunks, n) /\ q \in Query
  BY DEF RankInputOK
<1>2. \A f : share(f) = Cardinality(Share(ToSet(kept), chunks, f))
  BY DEF Share
<1>3. CapWastesNoPlace <=>
        /\ \A i \in ToSet(kept) : share(chunks[i].file) <= MaxChunksPerFile
        /\ Len(kept) < q.topk /\ q.words => \A i \in C \ ToSet(kept) : share(chunks[i].file) = MaxChunksPerFile
  BY DEF CapWastesNoPlace
<1> HIDE DEF share, q, chunks
<1>4. CASE q.words = FALSE
  <2> HIDE DEF order, C
  <2>1. kept = <<>>
    BY <1>4 DEF RankCore
  <2>2. ToSet(<<>>) = {}
    BY DEF ToSet
  <2>3. ToSet(kept) = {}
    BY <2>1, <2>2
  <2> HIDE DEF kept
  <2> QED BY <1>3, <1>4, <2>3
<1>5. CASE q.words = TRUE
  <2> DEFINE c == Cardinality(C)
  <2>1. IsFiniteSet(C) /\ c \in Nat /\ q.topk \in Nat
    BY <1>1, CandidatesAre DEF Query
  <2>2. AnOrder(order, C)
    <3> HIDE DEF C
    <3> QED BY <2>1, SetAsSeq DEF AnOrder, OnceEach, AnyOrder, C
  <2>3. kept = Keep(t, chunks, q.topk) /\ SortsWell(t, c, C, RankScores(chunks, q, C))
    BY <1>1, <1>5, <2>2, CandidatesRanked
  <2> HIDE DEF kept, t, C, c
  <2>4. OnceEach(t, c, C) /\ \A x \in C : \E k \in 1..c : t[k] = x
    BY <2>3 DEF SortsWell, OnceEach
  <2>5. CapKept(ToSet(kept), C, chunks, q.topk, Len(kept))
    BY <2>1, <2>3, <2>4, KeepCaps
  <2> QED BY <1>2, <1>3, <2>5 DEF CapKept
<1> QED BY <1>1, <1>4, <1>5 DEF Query

\* Positions that differ in their scores or in their ids,
ScoresApart(C, score, id) == \A x, y \in C : x # y => score[x] # score[y] \/ id[x] # id[y]
Numbered(C, score, id) == \A x \in C : score[x] \in Int /\ id[x] \in Int
ByScore(C, score, id) == {p \in C \X C : Above(score, id, p[1], p[2])}

\* are in one order,
LEMMA ScoresOrder ==
  ASSUME NEW C, NEW score, NEW id, Numbered(C, score, id), ScoresApart(C, score, id)
  PROVE  TotalOrder(ByScore(C, score, id), C)
<1> DEFINE R == ByScore(C, score, id)
<1>1. \A x, y \in C : <<x, y>> \in R <=> (score[x] > score[y] \/ (score[x] = score[y] /\ id[x] < id[y]))
  BY DEF ByScore, Above
<1>2. \A x \in C : score[x] \in Int /\ id[x] \in Int
  BY DEF Numbered
<1>3. \A x, y \in C : x # y => score[x] # score[y] \/ id[x] # id[y]
  BY DEF ScoresApart
<1> HIDE DEF R
<1>4. \A x \in C : <<x, x>> \notin R
  BY <1>1, <1>2
<1>5. \A x, y, z \in C : <<x, y>> \in R /\ <<y, z>> \in R => <<x, z>> \in R
  <2> TAKE x, y, z \in C
  <2>1. score[x] \in Int /\ score[y] \in Int /\ score[z] \in Int /\ id[x] \in Int /\ id[y] \in Int /\ id[z] \in Int
    BY <1>2
  <2> QED BY <1>1, <2>1
<1>6. \A x, y \in C : x = y \/ <<x, y>> \in R \/ <<y, x>> \in R
  <2> TAKE x, y \in C
  <2>1. score[x] \in Int /\ score[y] \in Int /\ id[x] \in Int /\ id[y] \in Int
    BY <1>2
  <2> QED BY <1>1, <1>3, <2>1
<1> QED BY <1>4, <1>5, <1>6 DEF TotalOrder, R

\* whichever order they come in.
LEMMA SortsInOrder ==
  ASSUME NEW C, IsFiniteSet(C), NEW score, NEW id, Numbered(C, score, id), ScoresApart(C, score, id),
         NEW idx, AnOrder(idx, C)
  PROVE  InOrder(SortBy(idx, score, id), C, ByScore(C, score, id))
<1> DEFINE n == Cardinality(C)
           R == ByScore(C, score, id)
<1>1. n \in Nat
  BY FS_CardinalityType
<1>2. idx \in [1..n -> C] /\ (\A i, j \in 1..n : idx[i] = idx[j] => i = j) /\ \A x \in C : \E k \in 1..n : idx[k] = x
  <2>1. \A x \in C : \E k \in 1..n : idx[k] = x
    BY OrderNamesAll
  <2> QED BY <2>1 DEF AnOrder, OnceEach
<1>3. TotalOrder(R, C)
  BY ScoresOrder
<1> HIDE DEF n
<1>4. Scored(idx, n, score, id)
  BY <1>2 DEF Scored, Numbered
<1>5. PICK p : InOrder(p, 1..n, Nearer(idx, n, score, id)) /\ SortBy(idx, score, id) = [k \in 1..n |-> idx[p[k]]]
  BY <1>1, <1>4, SortByIs
<1>6. Cardinality(1..n) = n
  BY <1>1, FS_Interval
<1>7. /\ p \in [1..n -> 1..n] /\ (\A i, j \in 1..n : i < j => <<p[i], p[j]>> \in Nearer(idx, n, score, id))
      /\ \A x \in 1..n : \E i \in 1..n : p[i] = x
  BY <1>5, <1>6 DEF InOrder
<1> DEFINE t == [k \in 1..n |-> idx[p[k]]]
<1>8. t \in [1..n -> C] /\ \A k \in 1..n : t[k] = idx[p[k]] /\ p[k] \in 1..n /\ t[k] \in C
  BY <1>2, <1>7
<1> HIDE DEF t
<1>9. ASSUME NEW x \in C PROVE \E k \in 1..n : t[k] = x
  <2>1. PICK j \in 1..n : idx[j] = x
    BY <1>2
  <2>2. PICK k \in 1..n : p[k] = j
    BY <1>7
  <2> QED BY <1>8, <2>1, <2>2
<1>10. ASSUME NEW i \in 1..n, NEW j \in 1..n, i < j PROVE <<t[i], t[j]>> \in R
  <2>1. Above(score, id, idx[p[i]], idx[p[j]]) \/ (~ Above(score, id, idx[p[j]], idx[p[i]]) /\ p[i] < p[j])
    BY <1>7, <1>10 DEF Nearer
  <2>2. Above(score, id, t[i], t[j]) \/ (~ Above(score, id, t[j], t[i]) /\ p[i] < p[j])
    BY <1>8, <2>1
  <2>3. CASE Above(score, id, t[i], t[j])
    BY <1>8, <2>3 DEF ByScore
  <2>4. CASE ~ Above(score, id, t[j], t[i]) /\ p[i] < p[j]
    <3>1. p[i] # p[j]
      BY <1>8, <2>4
    <3>2. t[i] # t[j]
      BY <1>2, <1>8, <3>1
    <3>3. <<t[j], t[i]>> \notin R
      BY <2>4 DEF ByScore
    <3> HIDE DEF R
    <3> QED BY <1>3, <1>8, <3>2, <3>3 DEF TotalOrder
  <2> QED BY <2>2, <2>3, <2>4
<1> HIDE DEF R
<1>11. InOrder(t, C, R)
  BY <1>8, <1>9, <1>10 DEF InOrder, n
<1> QED BY <1>5, <1>11 DEF R, t

\* Chunks of one id are copies of one chunk; no two candidates of one id come to the very same score.
CopiesAlike(chunks) ==
  \A i, j \in DOMAIN chunks : chunks[i].id = chunks[j].id => chunks[i].cos = chunks[j].cos /\ chunks[i].kw = chunks[j].kw
CopiesApart(chunks, q) ==
  \A i, j \in Candidates(chunks, q) : i # j /\ chunks[i].id = chunks[j].id =>
    RankScores(chunks, q, Candidates(chunks, q))[i] # RankScores(chunks, q, Candidates(chunks, q))[j]
OrderInputOK == For("rank") /\ CopiesAlike(input.chunks) => CopiesApart(input.chunks, input.q)

\* Then every order of the hash maps gives one ranking,
LEMMA OneRanking ==
  ASSUME NEW n \in Nat, NEW chunks, ChunksOf(chunks, n), NEW q \in Query, CopiesApart(chunks, q),
         NEW r, AnOrder(r, Candidates(chunks, q)), NEW s, AnOrder(s, Candidates(chunks, q))
  PROVE  RankCore(chunks, q, r) = RankCore(chunks, q, s)
<1> DEFINE C == Candidates(chunks, q)
           score == RankScores(chunks, q, C)
           id == FieldOf(chunks, "id")
           R == ByScore(C, score, id)
<1>1. C \in SUBSET (1..n) /\ IsFiniteSet(C)
  BY CandidatesAre
<1>2. Numbered(C, score, id)
  BY CandidatesScored DEF Numbered
<1>3. ScoresApart(C, score, id)
  <2>1. \A i \in C : id[i] = chunks[i].id
    BY <1>1 DEF FieldOf, ChunksOf
  <2> QED BY <2>1 DEF CopiesApart, ScoresApart
<1>4. InScoreOrder(r, chunks, q) = SortBy(r, score, id) /\ InScoreOrder(s, chunks, q) = SortBy(s, score, id)
  BY DEF InScoreOrder
<1>5. AnOrder(r, C) /\ AnOrder(s, C)
  OBVIOUS
<1> HIDE DEF C, score, id
<1>6. InOrder(SortBy(r, score, id), C, R) /\ InOrder(SortBy(s, score, id), C, R) /\ TotalOrder(R, C)
  BY <1>1, <1>2, <1>3, <1>5, SortsInOrder, ScoresOrder
<1> HIDE DEF R
<1>7. SortBy(r, score, id) = SortBy(s, score, id)
  BY <1>1, <1>6, OneOrder
<1>8. CASE q.words = FALSE
  BY <1>8 DEF RankCore
<1>9. CASE q.words = TRUE
  <2>1. RankCore(chunks, q, r) = Keep(InScoreOrder(r, chunks, q), chunks, q.topk)
    BY <1>9, CandidatesRanked
  <2>2. RankCore(chunks, q, s) = Keep(InScoreOrder(s, chunks, q), chunks, q.topk)
    BY <1>9, CandidatesRanked
  <2> QED BY <1>4, <1>7, <2>1, <2>2
<1> QED BY <1>8, <1>9 DEF Query

\* and no result depends on them.
LEMMA OrderHidden == RankInputOK /\ OrderInputOK => RankIgnoresHashOrder
<1> SUFFICES ASSUME RankInputOK, For("rank"), CopiesApart(input.chunks, input.q) PROVE RankIgnoresHashOrder
  BY DEF RankIgnoresHashOrder, OrderInputOK, CopiesAlike
<1> DEFINE q == input.q
           chunks == input.chunks
           C == Candidates(chunks, q)
           all == {RankCore(chunks, q, order) : order \in SetToSeqs(C)}
           any == SetToSeq(C)
<1>1. PICK n \in Nat : ChunksOf(chunks, n) /\ q \in Query
  BY DEF RankInputOK
<1>2. Cardinality(all) = 1 => RankIgnoresHashOrder
  BY DEF RankIgnoresHashOrder
<1>3. CopiesApart(chunks, q)
  OBVIOUS
<1> HIDE DEF q, chunks
<1>4. IsFiniteSet(C)
  BY <1>1, CandidatesAre
<1>5. \A order : order \in SetToSeqs(C) <=> AnOrder(order, C)
  <2> HIDE DEF C
  <2> QED BY DEF SetToSeqs, AnOrder, OnceEach
<1>6. any \in SetToSeqs(C)
  <2> HIDE DEF C
  <2>1. AnOrder(any, C)
    BY <1>4, SetAsSeq DEF AnOrder, OnceEach
  <2> QED BY <1>5, <2>1
<1>7. \A order \in SetToSeqs(C) : RankCore(chunks, q, order) = RankCore(chunks, q, any)
  BY <1>1, <1>3, <1>5, <1>6, OneRanking
<1>8. all = {RankCore(chunks, q, any)}
  <2> HIDE DEF C, any
  <2> QED BY <1>6, <1>7
<1>9. Cardinality(all) = 1
  BY <1>8, FS_Singleton
<1> QED BY <1>2, <1>9

(***************************************************************************)
(* Retrieval: the words of documents.                                      *)
(***************************************************************************)

\* A quotient is the greatest number of times.
LEMMA Quotient ==
  ASSUME NEW a \in Nat, NEW b \in Nat, b > 0
  PROVE  /\ (a \div b) \in Nat /\ b * (a \div b) <= a
         /\ \A k \in Nat : b * k <= a => k <= a \div b
<1>1. (a \div b) \in Nat /\ a = b * (a \div b) + (a % b) /\ (a % b) \in 0..(b - 1)
  OBVIOUS
<1>2. ASSUME NEW k \in Nat, b * k <= a PROVE k <= a \div b
  <2> DEFINE d == a \div b
  <2>1. d \in Nat /\ a < b * d + b
    BY <1>1
  <2> HIDE DEF d
  <2>2. b * d + b = b * (d + 1)
    BY <2>1
  <2>3. b * k < b * (d + 1)
    BY <1>2, <2>1, <2>2
  <2>4. SUFFICES ASSUME k >= d + 1 PROVE FALSE
    BY <2>1 DEF d
  <2>5. b * k >= b * (d + 1)
    BY <2>1, <2>4
  <2> QED BY <2>1, <2>3, <2>5
<1> QED BY <1>1, <1>2

\* A word said more often counts no less, and at least one.
LEMMA Saturates ==
  ASSUME NEW w \in Nat, NEW g \in Nat, g > 0, NEW f \in Nat, f >= g, NEW k \in Nat
  PROVE  /\ (w * f * 2200) \div (f * 1000 + 300 + k) >= (w * g * 2200) \div (g * 1000 + 300 + k)
         /\ (w * f * 2200) \div (f * 1000 + 300 + k) \in Nat
         /\ w >= 100 /\ k <= 2700 => (w * f * 2200) \div (f * 1000 + 300 + k) >= 1
<1> DEFINE a == w * 2200
           c == 300 + k
           d == (a * g) \div (g * 1000 + c)
<1>1. a \in Nat /\ c \in Nat /\ a * g \in Nat /\ a * f \in Nat /\ g * 1000 + c \in Nat /\ g * 1000 + c > 0
      /\ f * 1000 + c \in Nat /\ f * 1000 + c > 0
  OBVIOUS
<1>2. w * f * 2200 = a * f /\ w * g * 2200 = a * g /\ f * 1000 + 300 + k = f * 1000 + c /\ g * 1000 + 300 + k = g * 1000 + c
  OBVIOUS
<1> HIDE DEF a, c
<1>3. d \in Nat /\ (g * 1000 + c) * d <= a * g
  BY <1>1, Quotient
<1> HIDE DEF d
<1>4. 1000 * d <= a
  <2>1. (g * 1000 + c) * d = g * (1000 * d) + c * d /\ c * d \in Nat
    BY <1>1, <1>3
  <2>2. g * (1000 * d) <= g * a
    BY <1>1, <1>3, <2>1
  <2>3. SUFFICES ASSUME 1000 * d > a PROVE FALSE
    BY <1>1, <1>3
  <2>4. g * (1000 * d) > g * a
    BY <1>1, <1>3, <2>3
  <2> QED BY <1>1, <1>3, <2>2, <2>4
<1>5. (f * 1000 + c) * d <= a * f
  <2> DEFINE e == f - g
  <2>1. e \in Nat /\ f = g + e
    OBVIOUS
  <2> HIDE DEF e
  <2>2. (f * 1000 + c) * d = (g * 1000 + c) * d + e * (1000 * d)
    BY <1>1, <1>3, <2>1
  <2>3. a * f = a * g + e * a
    BY <1>1, <2>1
  <2>4. e * (1000 * d) <= e * a
    BY <1>1, <1>3, <1>4, <2>1
  <2> QED BY <1>1, <1>3, <2>1, <2>2, <2>3, <2>4
<1>6. d <= (a * f) \div (f * 1000 + c) /\ (a * f) \div (f * 1000 + c) \in Nat
  BY <1>1, <1>3, <1>5, Quotient
<1>7. ASSUME w >= 100, k <= 2700 PROVE 1 <= (a * f) \div (f * 1000 + c)
  <2>1. a >= 220000 /\ c <= 3000
    BY <1>7 DEF a, c
  <2>2. f >= 1
    OBVIOUS
  <2>3. a * f >= 220000 * f
    BY <1>1, <2>1, <2>2
  <2>4. (f * 1000 + c) * 1 <= a * f
    BY <1>1, <2>1, <2>2, <2>3
  <2> QED BY <1>1, <2>4, Quotient
<1> QED BY <1>2, <1>6, <1>7 DEF d

\* Documents and a query of words; a few of them, as the table of weights has.
Documents(docs, L) == docs \in Seq(Seq(L)) /\ Len(docs) <= Len(IdfTable)

\* How often a document says a word.
LEMMA FreqIs ==
  ASSUME NEW L, NEW doc \in Seq(L), NEW t
  PROVE  Len(doc) \in Nat /\ Freq(doc, t) \in Nat /\ (Freq(doc, t) > 0 <=> t \in ToSet(doc)) /\ (t \in ToSet(doc) => Len(doc) > 0)
<1> DEFINE S == {i \in DOMAIN doc : doc[i] = t}
           n == Len(doc)
<1>1. n \in Nat /\ DOMAIN doc = 1..n
  OBVIOUS
<1>2. S \in SUBSET (1..n)
  BY <1>1
<1>3. t \in ToSet(doc) <=> S # {}
  BY <1>1 DEF ToSet
<1>4. S # {} => n > 0
  BY <1>1
<1>5. Freq(doc, t) = Cardinality(S)
  BY DEF Freq
<1> HIDE DEF S, n
<1>6. IsFiniteSet(S)
  <2>1. IsFiniteSet(1..n)
    BY <1>1, FS_Interval
  <2> QED BY <1>2, <2>1, FS_Subset
<1>7. Cardinality(S) \in Nat /\ (Cardinality(S) = 0 <=> S = {})
  BY <1>6, FS_CardinalityType, FS_EmptySet
<1> QED BY <1>1, <1>3, <1>4, <1>5, <1>7 DEF n

\* The documents' words and weights.
Weighs(b, docs) ==
  /\ b.n = Len(docs) /\ b.total \in Nat
  /\ \A i \in 1..Len(docs) : Len(docs[i]) <= b.total
  /\ \A i \in 1..Len(docs) : \A t \in ToSet(docs[i]) : Idf(b, t) \in Nat /\ Idf(b, t) >= 100

\* The words of all documents are at least as many as those of one.
LEMMA WordsCounted ==
  ASSUME NEW L, NEW docs, Documents(docs, L)
  PROVE  Bm25Build(docs).total \in Nat /\ \A i \in 1..Len(docs) : Len(docs[i]) <= Bm25Build(docs).total
<1> DEFINE n == Len(docs)
           vals == [i \in 1..n |-> Len(docs[i])]
           Run(g) == g = [s \in SUBSET (1..n) |-> IF s = {} THEN 0 ELSE g[s \ {Max(s)}] + Len(docs[Max(s)])]
           h == CHOOSE g : Run(g)
<1>1. n \in Nat /\ DOMAIN docs = 1..n /\ \A i \in 1..n : Len(docs[i]) \in Nat
  BY DEF Documents
<1>2. vals \in Seq(Nat) /\ Len(vals) = n /\ \A i \in 1..n : vals[i] = Len(docs[i])
  BY <1>1
<1>3. Bm25Build(docs).total = h[1..n]
  BY <1>1 DEF Bm25Build, FoldLeft, MapThenFoldSet
<1> HIDE DEF n, vals
<1>4. PICK g : SumsParts(g, vals)
  BY <1>2, SumsPartsExists
<1>5. Run(g)
  <2>1. ASSUME NEW s \in SUBSET (1..n), s # {} PROVE g[s] = g[s \ {Max(s)}] + Len(docs[Max(s)])
    <3>1. Max(s) \in 1..n /\ g[s] = g[s \ {Max(s)}] + vals[Max(s)]
      BY <1>2, <1>4, <2>1 DEF SumsParts
    <3> QED BY <1>2, <3>1
  <2>2. g \in [SUBSET (1..n) -> Nat] /\ g[{}] = 0
    BY <1>2, <1>4 DEF SumsParts
  <2> QED BY <2>1, <2>2
<1>6. Run(h)
  <2> HIDE DEF Run
  <2> QED BY <1>5
<1> HIDE DEF h
<1>7. SumsUp(h, vals)
  <2>1. h[{}] = 0
    <3>1. {} \in SUBSET (1..n)
      OBVIOUS
    <3> QED BY <1>6, <3>1
  <2>2. ASSUME NEW i \in 1..n PROVE h[1..i] = h[1..(i - 1)] + vals[i]
    <3>1. 1..i \in SUBSET (1..n) /\ 1..i # {} /\ Max(1..i) = i /\ (1..i) \ {i} = 1..(i - 1)
      BY <1>2, <1>4 DEF SumsParts
    <3>2. h[1..i] = h[(1..i) \ {Max(1..i)}] + Len(docs[Max(1..i)])
      BY <1>6, <3>1
    <3> QED BY <1>2, <3>1, <3>2
  <2> QED BY <1>2, <2>1, <2>2 DEF SumsUp
<1>8. PICK f \in [0..n -> Nat] : Adds(f, vals) /\ h[1..n] = f[n]
  BY <1>2, <1>7, SumsReached
<1>9. ASSUME NEW i \in 1..n PROVE Len(docs[i]) <= f[n]
  <2> DEFINE T == {j \in 0..n : j >= i => f[j] >= vals[i]}
  <2>1. f[0] = 0 /\ \A j \in 1..n : f[j] = f[j - 1] + vals[j] /\ vals[j] \in Nat
    <3>1. \A j \in 1..n : vals[j] \in Nat
      BY <1>1, <1>2
    <3> QED BY <1>2, <1>8, <3>1 DEF Adds
  <2>2. 0 \in T
    BY <1>1
  <2>3. \A j \in 0..(n - 1) : j \in T => j + 1 \in T
    <3> TAKE j \in 0..(n - 1)
    <3> HAVE j \in T
    <3>1. j + 1 \in 1..n /\ (j + 1) - 1 = j /\ j \in 0..n /\ j + 1 \in 0..n /\ (j >= i => f[j] >= vals[i])
      BY <1>1
    <3>2. f[j + 1] = f[j] + vals[j + 1] /\ vals[j + 1] \in Nat /\ vals[i] \in Nat
      BY <2>1, <3>1
    <3>3. f[j] \in Nat
      BY <3>1
    <3>4. j + 1 >= i => j >= i \/ j + 1 = i
      BY <3>1
    <3> QED BY <3>1, <3>2, <3>3, <3>4
  <2> HIDE DEF T
  <2>4. n \in T
    <3>1. \A j \in 0..n : j \in T
      BY <1>1, <2>2, <2>3, UpTo
    <3> QED BY <1>1, <3>1
  <2> QED BY <1>1, <1>2, <2>4 DEF T
<1>10. f[n] \in Nat
  BY <1>1
<1> QED BY <1>3, <1>8, <1>9, <1>10 DEF n

\* A word that a document says has a weight.
LEMMA WordsWeigh ==
  ASSUME NEW L, NEW docs, Documents(docs, L)
  PROVE  Weighs(Bm25Build(docs), docs)
<1> DEFINE n == Len(docs)
           b == Bm25Build(docs)
           Has(t) == {i \in DOMAIN docs : t \in ToSet(docs[i])}
<1>1. n \in Nat /\ DOMAIN docs = 1..n /\ n <= 3
  BY DEF Documents, IdfTable
<1>2. b.n = n
  BY DEF Bm25Build
<1>3. ASSUME NEW i \in 1..n, NEW t \in ToSet(docs[i]) PROVE Idf(b, t) \in Nat /\ Idf(b, t) >= 100
  <2> DEFINE c == Cardinality(Has(t))
  <2>1. t \in UNION {ToSet(docs[j]) : j \in DOMAIN docs}
    BY <1>1
  <2>2. b.df[t] = c
    BY <2>1 DEF Bm25Build
  <2>3. Has(t) \in SUBSET (1..n) /\ i \in Has(t)
    BY <1>1
  <2> HIDE DEF Has
  <2>4. IsFiniteSet(1..n) /\ Cardinality(1..n) = n
    <3> HIDE DEF n
    <3> QED BY <1>1, FS_Interval
  <2>5. IsFiniteSet(Has(t)) /\ c <= n
    BY <2>3, <2>4, FS_Subset
  <2>6. c \in Nat /\ c # 0
    BY <2>3, <2>5, FS_CardinalityType, FS_EmptySet
  <2> HIDE DEF c, b
  <2>7. Idf(b, t) = IdfTable[n][c]
    BY <1>2, <2>2 DEF Idf
  <2>8. /\ n \in {1, 2, 3} /\ c \in {1, 2, 3} /\ c <= n
    BY <1>1, <2>5, <2>6
  <2> HIDE DEF n
  <2>9. CASE n = 1
    <3>1. IdfTable[n][c] = 288
      BY <2>8, <2>9 DEF IdfTable
    <3> QED BY <2>7, <3>1
  <2>10. CASE n = 2
    <3>1. IdfTable[n][c] \in {693, 182}
      BY <2>8, <2>10 DEF IdfTable
    <3> QED BY <2>7, <3>1
  <2>11. CASE n = 3
    <3>1. IdfTable[n][c] \in {981, 470, 134}
      BY <2>8, <2>11 DEF IdfTable
    <3> QED BY <2>7, <3>1
  <2> QED BY <2>8, <2>9, <2>10, <2>11
<1> QED BY <1>2, <1>3, WordsCounted DEF Weighs

\* What a word adds to a document's score: something if the document says it, more the oftener.
LEMMA TermCounts ==
  ASSUME NEW L, NEW docs, Documents(docs, L), NEW b, Weighs(b, docs), NEW i \in 1..Len(docs), NEW t
  PROVE  /\ TermScore(b, docs[i], t, Freq(docs[i], t)) \in Nat
         /\ TermScore(b, docs[i], t, Freq(docs[i], t)) > 0 <=> t \in ToSet(docs[i])
         /\ \A j \in 1..Len(docs) :
              Len(docs[j]) = Len(docs[i]) /\ Freq(docs[i], t) >= Freq(docs[j], t) =>
                TermScore(b, docs[i], t, Freq(docs[i], t)) >= TermScore(b, docs[j], t, Freq(docs[j], t))
<1> DEFINE n == Len(docs)
           w == Idf(b, t)
           k == (900 * Len(docs[i]) * b.n) \div b.total
           f == Freq(docs[i], t)
           x(j) == TermScore(b, docs[j], t, Freq(docs[j], t))
<1>1. n \in Nat /\ n <= 3 /\ b.n = n /\ b.total \in Nat /\ \A j \in 1..n : docs[j] \in Seq(L) /\ Len(docs[j]) \in Nat /\ Len(docs[j]) <= b.total
  BY DEF Documents, IdfTable, Weighs
<1>2. \A j \in 1..n : Freq(docs[j], t) \in Nat /\ (Freq(docs[j], t) > 0 <=> t \in ToSet(docs[j])) /\ (t \in ToSet(docs[j]) => Len(docs[j]) > 0)
  BY <1>1, FreqIs
<1>3. \A j \in 1..n : Freq(docs[j], t) = 0 => x(j) = 0
  BY DEF TermScore
<1>4. \A j \in 1..n : Freq(docs[j], t) # 0 /\ Len(docs[j]) = Len(docs[i]) =>
        x(j) = (w * Freq(docs[j], t) * 2200) \div (Freq(docs[j], t) * 1000 + 300 + k)
  BY <1>1 DEF TermScore
<1> HIDE DEF x
<1>5. CASE f = 0
  <2>1. x(i) = 0
    BY <1>3, <1>5
  <2>2. \A j \in 1..n : f >= Freq(docs[j], t) => x(j) = 0
    BY <1>2, <1>3, <1>5
  <2> QED BY <1>2, <1>5, <2>1, <2>2 DEF x
<1>6. CASE f # 0
  <2>1. f \in Nat /\ f > 0 /\ t \in ToSet(docs[i]) /\ Len(docs[i]) > 0
    BY <1>2, <1>6
  <2>2. w \in Nat /\ w >= 100
    BY <2>1 DEF Weighs
  <2>3. k \in Nat /\ k <= 2700
    <3> DEFINE l == Len(docs[i])
    <3>1. l \in Nat /\ l > 0 /\ l <= b.total /\ b.total \in Nat /\ n \in Nat /\ n <= 3
      BY <1>1, <2>1
    <3>2. k = (900 * l * n) \div b.total
      BY <1>1
    <3> HIDE DEF l, n, k
    <3>3. 900 * l * n \in Nat /\ 900 * l * n <= b.total * 2700
      <4>1. l * n \in Nat /\ l * n <= l * 3
        BY <3>1
      <4>2. 900 * l * n = 900 * (l * n)
        BY <3>1
      <4> QED BY <3>1, <4>1, <4>2
    <3> DEFINE a == 900 * l * n
               d == a \div b.total
    <3>4. d \in Nat /\ b.total * d <= a
      <4>1. a \in Nat /\ b.total \in Nat /\ b.total > 0
        BY <3>1, <3>3
      <4> HIDE DEF a
      <4> QED BY <4>1, Quotient
    <3> HIDE DEF a, d
    <3>5. b.total * d <= b.total * 2700
      BY <3>1, <3>3, <3>4 DEF a
    <3>6. d <= 2700
      <4> SUFFICES ASSUME d >= 2701 PROVE FALSE
        BY <3>4
      <4>1. b.total * d >= b.total * 2701
        BY <3>1, <3>4
      <4> QED BY <3>1, <3>4, <3>5, <4>1
    <3> QED BY <3>2, <3>4, <3>6 DEF a, d
  <2> DEFINE y(g) == (w * g * 2200) \div (g * 1000 + 300 + k)
  <2>4. x(i) = y(f)
    BY <1>4, <2>1
  <2>5. \A j \in 1..n : Freq(docs[j], t) # 0 /\ Len(docs[j]) = Len(docs[i]) => x(j) = y(Freq(docs[j], t))
    BY <1>4
  <2> HIDE DEF w, k, f
  <2>6. \A g \in Nat : g > 0 /\ f >= g => y(f) >= y(g)
    BY <2>1, <2>2, <2>3, Saturates
  <2>7. y(f) \in Nat /\ y(f) >= 1
    <3>1. f >= f
      BY <2>1
    <3> QED BY <2>1, <2>2, <2>3, <3>1, Saturates
  <2> HIDE DEF y
  <2>8. \A j \in 1..n : Len(docs[j]) = Len(docs[i]) /\ f >= Freq(docs[j], t) => x(i) >= x(j)
    <3> TAKE j \in 1..n
    <3> HAVE Len(docs[j]) = Len(docs[i]) /\ f >= Freq(docs[j], t)
    <3>1. CASE Freq(docs[j], t) = 0
      BY <1>3, <2>4, <2>7, <3>1
    <3>2. CASE Freq(docs[j], t) # 0
      <4>1. Freq(docs[j], t) \in Nat /\ Freq(docs[j], t) > 0
        BY <1>2, <3>2
      <4> QED BY <2>4, <2>5, <2>6, <3>2, <4>1
    <3> QED BY <3>1, <3>2
  <2> QED BY <2>1, <2>4, <2>7, <2>8 DEF x, f
<1> QED BY <1>5, <1>6

\* What each word of the query adds to a document's score, and the sum of that.
Terms(b, doc, query) == [k \in 1..Len(query) |-> TermScore(b, doc, query[k], Freq(doc, query[k]))]
Scores(b, doc, query) ==
  \E f \in [0..Len(query) -> Nat] : Adds(f, Terms(b, doc, query)) /\ ScoreDoc(b, doc, query) = f[Len(query)]

\* A document's score is the sum of what the words of the query add.
LEMMA ScoreAdds ==
  ASSUME NEW b, NEW doc, NEW L, NEW query \in Seq(L), Terms(b, doc, query) \in Seq(Nat)
  PROVE  Scores(b, doc, query)
<1> DEFINE n == Len(query)
           vals == Terms(b, doc, query)
           Run(g) == g = [s \in SUBSET (1..n) |->
                            IF s = {} THEN 0
                            ELSE TermScore(b, doc, query[Max(s)], Freq(doc, query[Max(s)])) + g[s \ {Max(s)}]]
           h == CHOOSE g : Run(g)
<1>1. n \in Nat /\ DOMAIN query = 1..n
  OBVIOUS
<1>2. vals \in Seq(Nat) /\ Len(vals) = n /\ \A i \in 1..n : vals[i] = TermScore(b, doc, query[i], Freq(doc, query[i]))
  <2>1. vals \in Seq(Nat)
    OBVIOUS
  <2>2. vals = [k \in 1..n |-> TermScore(b, doc, query[k], Freq(doc, query[k]))]
    BY DEF Terms
  <2> QED BY <1>1, <2>1, <2>2
<1>3. ScoreDoc(b, doc, query) = h[1..n]
  BY <1>1 DEF ScoreDoc, FoldLeft, MapThenFoldSet
<1> HIDE DEF n, vals
<1>4. PICK g : SumsParts(g, vals)
  BY <1>2, SumsPartsExists
<1>5. Run(g)
  <2>1. ASSUME NEW s \in SUBSET (1..n), s # {}
        PROVE  g[s] = TermScore(b, doc, query[Max(s)], Freq(doc, query[Max(s)])) + g[s \ {Max(s)}]
    <3>1. Max(s) \in 1..n /\ g[s] = g[s \ {Max(s)}] + vals[Max(s)]
      BY <1>2, <1>4, <2>1 DEF SumsParts
    <3>2. vals[Max(s)] \in Nat
      BY <1>2, <3>1
    <3>3. g[s \ {Max(s)}] \in Nat
      BY <1>2, <1>4 DEF SumsParts
    <3>4. g[s] = vals[Max(s)] + g[s \ {Max(s)}]
      BY <3>1, <3>2, <3>3
    <3> QED BY <1>2, <3>1, <3>4
  <2>2. g \in [SUBSET (1..n) -> Nat] /\ g[{}] = 0
    BY <1>2, <1>4 DEF SumsParts
  <2> QED BY <2>1, <2>2
<1>6. Run(h)
  <2> HIDE DEF Run
  <2> QED BY <1>5
<1> HIDE DEF h
<1>7. SumsUp(h, vals)
  <2>1. h[{}] = 0
    <3>1. {} \in SUBSET (1..n)
      OBVIOUS
    <3> QED BY <1>6, <3>1
  <2>2. ASSUME NEW i \in 1..n, h[1..(i - 1)] \in Nat PROVE h[1..i] = h[1..(i - 1)] + vals[i]
    <3>1. 1..i \in SUBSET (1..n) /\ 1..i # {} /\ Max(1..i) = i /\ (1..i) \ {i} = 1..(i - 1)
      BY <1>2, <1>4 DEF SumsParts
    <3>2. h[1..i] = TermScore(b, doc, query[Max(1..i)], Freq(doc, query[Max(1..i)])) + h[(1..i) \ {Max(1..i)}]
      BY <1>6, <3>1
    <3>3. h[1..i] = vals[i] + h[1..(i - 1)]
      BY <1>2, <3>1, <3>2
    <3>4. vals[i] \in Nat
      BY <1>2
    <3> QED BY <2>2, <3>3, <3>4
  <2> QED BY <1>2, <2>1, <2>2 DEF SumsUp
<1>8. PICK f \in [0..n -> Nat] : Adds(f, vals) /\ h[1..n] = f[n]
  BY <1>2, <1>7, SumsReached
<1> QED BY <1>3, <1>8 DEF Scores, n, vals

\* A document scores if it says a word of the query, and no less than one as long that says none oftener.
LEMMA DocScores ==
  ASSUME NEW L, NEW docs, Documents(docs, L), NEW query \in Seq(L), NEW b, Weighs(b, docs), NEW i \in 1..Len(docs)
  PROVE  /\ ScoreDoc(b, docs[i], query) \in Nat
         /\ ScoreDoc(b, docs[i], query) > 0 <=> ToSet(docs[i]) \cap ToSet(query) # {}
         /\ \A j \in 1..Len(docs) :
              Len(docs[i]) = Len(docs[j]) /\ (\A t \in ToSet(query) : Freq(docs[i], t) >= Freq(docs[j], t)) =>
                ScoreDoc(b, docs[i], query) >= ScoreDoc(b, docs[j], query)
<1> DEFINE n == Len(query)
           T(j) == Terms(b, docs[j], query)
<1>1. n \in Nat /\ \A k \in 1..n : query[k] \in ToSet(query)
  BY DEF ToSet
<1>2. ToSet(query) = {query[k] : k \in 1..n}
  BY DEF ToSet
<1>3. \A j \in 1..Len(docs) : /\ T(j) \in Seq(Nat) /\ Len(T(j)) = n
                              /\ \A k \in 1..n : T(j)[k] = TermScore(b, docs[j], query[k], Freq(docs[j], query[k]))
  <2> TAKE j \in 1..Len(docs)
  <2>1. \A k \in 1..n : TermScore(b, docs[j], query[k], Freq(docs[j], query[k])) \in Nat
    BY TermCounts
  <2>2. T(j) = [k \in 1..n |-> TermScore(b, docs[j], query[k], Freq(docs[j], query[k]))]
    BY DEF Terms
  <2> QED BY <1>1, <2>1, <2>2
<1> HIDE DEF T
<1>4. \A j \in 1..Len(docs) : \E f \in [0..n -> Nat] : Adds(f, T(j)) /\ ScoreDoc(b, docs[j], query) = f[n]
  <2> TAKE j \in 1..Len(docs)
  <2>1. Terms(b, docs[j], query) \in Seq(Nat)
    BY <1>3 DEF T
  <2>2. Scores(b, docs[j], query)
    BY <2>1, ScoreAdds
  <2> QED BY <2>2 DEF Scores, T
<1> HIDE DEF n
<1>5. PICK f \in [0..n -> Nat] : Adds(f, T(i)) /\ ScoreDoc(b, docs[i], query) = f[n]
  BY <1>4
<1>6. ScoreDoc(b, docs[i], query) \in Nat
  BY <1>1, <1>5
<1>7. ScoreDoc(b, docs[i], query) > 0 <=> \E k \in 1..n : T(i)[k] > 0
  <2>1. T(i) \in Seq(Nat) /\ Len(T(i)) = n
    BY <1>3
  <2>2. f[n] > 0 <=> \E k \in 1..n : T(i)[k] > 0
    BY <1>1, <1>5, <2>1, SumsSome
  <2> QED BY <1>5, <2>2
<1>8. \A k \in 1..n : T(i)[k] > 0 <=> query[k] \in ToSet(docs[i])
  <2> TAKE k \in 1..n
  <2>1. TermScore(b, docs[i], query[k], Freq(docs[i], query[k])) > 0 <=> query[k] \in ToSet(docs[i])
    BY TermCounts
  <2>2. T(i)[k] = TermScore(b, docs[i], query[k], Freq(docs[i], query[k]))
    BY <1>3
  <2> QED BY <2>1, <2>2
<1>9. ASSUME NEW j \in 1..Len(docs), Len(docs[i]) = Len(docs[j]), \A t \in ToSet(query) : Freq(docs[i], t) >= Freq(docs[j], t)
      PROVE  ScoreDoc(b, docs[i], query) >= ScoreDoc(b, docs[j], query)
  <2>1. PICK g \in [0..n -> Nat] : Adds(g, T(j)) /\ ScoreDoc(b, docs[j], query) = g[n]
    BY <1>4
  <2>2. \A k \in 1..n : T(i)[k] >= T(j)[k]
    <3> TAKE k \in 1..n
    <3>1. Freq(docs[i], query[k]) >= Freq(docs[j], query[k])
      BY <1>1, <1>9
    <3>2. TermScore(b, docs[i], query[k], Freq(docs[i], query[k])) >= TermScore(b, docs[j], query[k], Freq(docs[j], query[k]))
      BY <1>9, <3>1, TermCounts
    <3>3. T(i)[k] = TermScore(b, docs[i], query[k], Freq(docs[i], query[k]))
          /\ T(j)[k] = TermScore(b, docs[j], query[k], Freq(docs[j], query[k]))
      BY <1>3
    <3> QED BY <3>2, <3>3
  <2>3. T(i) \in Seq(Nat) /\ Len(T(i)) = n /\ T(j) \in Seq(Nat) /\ Len(T(j)) = n
    BY <1>3
  <2>4. f[n] >= g[n]
    BY <1>1, <1>5, <2>1, <2>2, <2>3, SumsCompare
  <2> QED BY <1>5, <2>1, <2>4
<1>10. (\E k \in 1..n : T(i)[k] > 0) <=> ToSet(docs[i]) \cap ToSet(query) # {}
  BY <1>1, <1>2, <1>8
<1> QED BY <1>6, <1>7, <1>9, <1>10

\* Documents in the order of their scores.
LEMMA HitsInOrder ==
  ASSUME NEW n \in Nat, NEW scores, DOMAIN scores = 1..n, \A i \in 1..n : scores[i] \in Nat
  PROVE  /\ \E m \in Nat : Bm25Ranked(scores) \in [1..m -> 1..n]
         /\ ToSet(Bm25Ranked(scores)) = {i \in 1..n : scores[i] > 0}
         /\ \A x, y \in DOMAIN Bm25Ranked(scores) :
              /\ Bm25Ranked(scores)[x] < Bm25Ranked(scores)[y]
              /\ scores[Bm25Ranked(scores)[x]] >= scores[Bm25Ranked(scores)[y]]
              => x < y
<1> DEFINE S == {i \in DOMAIN scores : scores[i] > 0}
           id == Positions(scores)
           m == Cardinality(S)
           idx == Ascending(S)
           t == SortBy(idx, scores, id)
<1>1. S = {i \in 1..n : scores[i] > 0} /\ S \in SUBSET (1..n) /\ S \in SUBSET Int
      /\ \A x \in S : scores[x] \in Int /\ id[x] \in Int /\ id[x] = x
  BY DEF Positions
<1>2. Bm25Ranked(scores) = t
  BY DEF Bm25Ranked
<1> HIDE DEF S, id
<1>3. IsFiniteSet(S) /\ m \in Nat
  <2>1. IsFiniteSet(1..n)
    BY FS_Interval
  <2>2. IsFiniteSet(S)
    BY <1>1, <2>1, FS_Subset
  <2> QED BY <2>2, FS_CardinalityType
<1>4. /\ idx \in [1..m -> S] /\ (\A x \in S : \E k \in 1..m : idx[k] = x)
      /\ \A i, j \in 1..m : idx[i] = idx[j] => i = j
  BY <1>1, <1>3, AscendingIs
<1> HIDE DEF m, idx
<1>5. SortsWell(t, m, S, scores)
  BY <1>1, <1>3, <1>4, SortByWell
<1>6. Scored(idx, m, scores, id)
  BY <1>1, <1>4 DEF Scored
<1>7. PICK p : InOrder(p, 1..m, Nearer(idx, m, scores, id)) /\ t = [k \in 1..m |-> idx[p[k]]]
  BY <1>3, <1>6, SortByIs
<1> HIDE DEF t
<1>8. Cardinality(1..m) = m
  BY <1>3, FS_Interval
<1>9. p \in [1..m -> 1..m] /\ \A i, j \in 1..m : i < j => <<p[i], p[j]>> \in Nearer(idx, m, scores, id)
  BY <1>7, <1>8 DEF InOrder
<1>10. t \in [1..m -> S] /\ \A x \in S : \E k \in 1..m : t[k] = x
  BY <1>5 DEF SortsWell
<1>11. ToSet(t) = S
  <2>1. ToSet(t) = {t[k] : k \in 1..m}
    BY <1>10 DEF ToSet
  <2> QED BY <1>10, <2>1
<1>12. ASSUME NEW x \in 1..m, NEW y \in 1..m, t[x] < t[y], scores[t[x]] >= scores[t[y]] PROVE x < y
  <2>1. t[x] \in S /\ t[y] \in S /\ t[x] \in Int /\ t[y] \in Int /\ scores[t[x]] \in Int /\ scores[t[y]] \in Int
        /\ id[t[x]] = t[x] /\ id[t[y]] = t[y]
    BY <1>1, <1>10
  <2>2. x # y
    BY <1>12, <2>1
  <2>3. SUFFICES ASSUME y < x PROVE FALSE
    BY <2>2
  <2>4. Above(scores, id, idx[p[y]], idx[p[x]]) \/ ~ Above(scores, id, idx[p[x]], idx[p[y]])
    BY <1>9, <2>3 DEF Nearer
  <2>5. Above(scores, id, t[y], t[x]) \/ ~ Above(scores, id, t[x], t[y])
    BY <1>7, <2>4
  <2> QED BY <1>12, <2>1, <2>5 DEF Above
<1>13. DOMAIN t = 1..m /\ t \in [1..m -> 1..n]
  BY <1>1, <1>10
<1> QED BY <1>1, <1>2, <1>3, <1>11, <1>12, <1>13

WordInputOK == For("bm25") => \E L : Documents(input.docs, L) /\ input.query \in Seq(L)

\* Every document that says a word of the query is found, in the order that the words are said: of any few documents.
LEMMA HitsHold == WordInputOK => KeywordHitsRanked
<1> SUFFICES ASSUME WordInputOK, For("bm25") PROVE KeywordHitsRanked
  BY DEF KeywordHitsRanked
<1> DEFINE docs == input.docs
           query == input.query
           n == Len(docs)
           b == Bm25Build(docs)
           scores == [i \in DOMAIN docs |-> ScoreDoc(b, docs[i], query)]
           ranked == Bm25Ranked(scores)
<1>1. PICK L : Documents(docs, L) /\ query \in Seq(L)
  BY DEF WordInputOK
<1>2. KeywordHitsRanked <=>
        /\ ToSet(ranked) = {i \in DOMAIN docs : ToSet(docs[i]) \cap ToSet(query) # {}}
        /\ \A x, y \in DOMAIN ranked :
           /\ Len(docs[ranked[x]]) = Len(docs[ranked[y]]) /\ ranked[x] < ranked[y]
           /\ \A t \in ToSet(query) : Freq(docs[ranked[x]], t) >= Freq(docs[ranked[y]], t)
           => x < y
  <2>1. ranked = Bm25Score(docs, query)
    BY DEF Bm25Score
  <2> HIDE DEF ranked
  <2> QED BY <2>1 DEF KeywordHitsRanked
<1> HIDE DEF docs, query
<1>3. n \in Nat /\ DOMAIN docs = 1..n
  BY <1>1 DEF Documents
<1>4. Weighs(b, docs)
  BY <1>1, WordsWeigh
<1> HIDE DEF b
<1>5. DOMAIN scores = 1..n /\ \A i \in 1..n : scores[i] = ScoreDoc(b, docs[i], query)
  BY <1>3
<1> HIDE DEF scores
<1>6. \A i \in 1..n : scores[i] \in Nat /\ (scores[i] > 0 <=> ToSet(docs[i]) \cap ToSet(query) # {})
  BY <1>1, <1>4, <1>5, DocScores
<1>7. /\ \E m \in Nat : ranked \in [1..m -> 1..n]
      /\ ToSet(ranked) = {i \in 1..n : scores[i] > 0}
      /\ \A x, y \in DOMAIN ranked : ranked[x] < ranked[y] /\ scores[ranked[x]] >= scores[ranked[y]] => x < y
  <2> HIDE DEF n
  <2> QED BY <1>3, <1>5, <1>6, HitsInOrder
<1> HIDE DEF ranked
<1>8. ASSUME NEW x \in DOMAIN ranked, NEW y \in DOMAIN ranked, Len(docs[ranked[x]]) = Len(docs[ranked[y]]), ranked[x] < ranked[y],
             \A t \in ToSet(query) : Freq(docs[ranked[x]], t) >= Freq(docs[ranked[y]], t)
      PROVE  x < y
  <2>1. ranked[x] \in 1..n /\ ranked[y] \in 1..n
    BY <1>7
  <2>2. ScoreDoc(b, docs[ranked[x]], query) >= ScoreDoc(b, docs[ranked[y]], query)
    BY <1>1, <1>4, <1>8, <2>1, DocScores
  <2> QED BY <1>5, <1>7, <1>8, <2>1, <2>2
<1>9. ToSet(ranked) = {i \in DOMAIN docs : ToSet(docs[i]) \cap ToSet(query) # {}}
  BY <1>3, <1>6, <1>7
<1> QED BY <1>2, <1>8, <1>9

RankingInputOK == RankInputOK /\ OrderInputOK /\ WordInputOK

\* Every word hit is found and in the order the words are said, for any words of up to three documents
\* (as many as IdfTable has); the cap per file wastes no place, for any chunks and query; and no order
\* of the hash maps shows, for those in which no two copies of one chunk come to the very same score.
THEOREM RankingIsSound == RankingInputOK => RankingSound
  BY HitsHold, OrderHidden, CapHolds DEF RankingInputOK, RankingSound

=============================================================================
