----------------------------- MODULE SelfUpdate -----------------------------
(***************************************************************************)
(* `cce update` (src/update.rs): discover a release through its            *)
(* SHA256SUMS, download, compare the checksum, extract, and replace the    *)
(* running binary by a copy and a rename in its own directory.  The        *)
(* network may serve anything, every call may fail and the process may be  *)
(* killed between any two; two updates may run at once.                    *)
(***************************************************************************)
EXTENDS Integers, FiniteSets, SequencesExt, Collections, Inputs

CONSTANTS Updater,         \* processes, numbered by their pid
          Release,         \* released versions, a set of numbers
          NoAsset,         \* releases that publish nothing for this platform
          MaxDeltaSections \* changelog sections shown

ASSUME SelfUpdateAssumption ==
  /\ Release \subseteq Nat /\ NoAsset \subseteq Release /\ MaxDeltaSections \in Nat
  /\ \E newest \in Release : \A v \in Release : v <= newest

\* A file is a whole binary of a version, a part of one, or not there.
Binary(v, got) == [version |-> v, whole |-> TRUE, from |-> got]
Part(v)        == [version |-> v, whole |-> FALSE, from |-> "intact"]
NoFile         == Part(0)

VARIABLES exe,     \* the installed binary
          copies,  \* copies[u]: the file .cce-update-<pid> beside it
          update   \* update[u]: the process

updateVars == <<exe, copies, update>>

Unstarted == [pc |-> "none", version |-> 0, target |-> 0, check |-> FALSE, got |-> "none",
              stage |-> FALSE, exit |-> -1, before |-> NoFile]

\* A process that ends leaves its exit code (-1 if it was killed), and its staging directory if it
\* could not remove it.
EndWith(u, code, stage) ==
  update' = [update EXCEPT ![u] = [Unstarted EXCEPT !.pc = "done", !.exit = code, !.stage = stage, !.before = update[u].before]]
ExitWith(u, code) == EndWith(u, code, FALSE)
AtUpdate(u, pc) == update[u].pc = pc
ToPc(u, pc) == update' = [update EXCEPT ![u].pc = pc]

\* changelog_delta: the sections in (from, to], newest first, the first few of
\* them and the number of the others.
ChangelogDelta(sections, from, to) ==
  LET inRange == {i \in DOMAIN sections : sections[i] > from /\ sections[i] <= to}
      newer(i, j) == sections[i] > sections[j] \/ (sections[i] = sections[j] /\ i < j)
      sorted == [k \in 1..Cardinality(inRange) |-> sections[Ranked(inRange, newer)[k]]]
  IN [shown |-> SubSeq(sorted, 1, IF Len(sorted) < MaxDeltaSections THEN Len(sorted) ELSE MaxDeltaSections),
      more |-> IF Len(sorted) > MaxDeltaSections THEN Len(sorted) - MaxDeltaSections ELSE 0]

-----------------------------------------------------------------------------
\* `cce update [--check] [--version v]`: without a pin the newest release.
StartUpdate(u, check, pin) ==
  /\ update[u].pc \in {"none", "done"}
  /\ update' = [update EXCEPT ![u] =
       [Unstarted EXCEPT !.pc = "resolve", !.version = exe.version, !.check = check, !.before = exe,
          !.target = IF pin = 0 THEN CHOOSE v \in Release : \A w \in Release : w <= v ELSE pin]]
  /\ UNCHANGED <<exe, copies>>

\* The sums name the release; a release that does not exist, or no network: exit 1.
ResolveRelease(u) ==
  /\ AtUpdate(u, "resolve") /\ UNCHANGED <<exe, copies>>
  /\ LET v == update[u].target
     IN \/ ExitWith(u, 1)
        \/ /\ v \in Release
           /\ IF update[u].check THEN ExitWith(u, IF v > update[u].version THEN 10 ELSE 0)
              ELSE IF v = update[u].version THEN ExitWith(u, 0)
              ELSE IF v \in NoAsset THEN ExitWith(u, 1)
              ELSE update' = [update EXCEPT ![u].pc = "download", ![u].stage = TRUE]

\* The asset as served: intact, or different bytes.
Download(u) ==
  /\ AtUpdate(u, "download") /\ UNCHANGED <<exe, copies>>
  /\ \/ ExitWith(u, 1)
     \/ \E got \in {"intact", "altered"} :
          update' = [update EXCEPT ![u].pc = "checksum", ![u].got = got]

\* The checksum is compared before anything is unpacked.
CompareChecksum(u) ==
  /\ AtUpdate(u, "checksum") /\ UNCHANGED <<exe, copies>>
  /\ IF update[u].got = "intact" THEN ToPc(u, "extract") ELSE ExitWith(u, 1)

\* Writing, unpacking and finding the binary in the archive may fail.
ExtractTarball(u) ==
  /\ AtUpdate(u, "extract") /\ UNCHANGED <<exe, copies>>
  /\ ToPc(u, "copy") \/ ExitWith(u, 1)

CopyOntoExe(u) ==
  /\ AtUpdate(u, "copy") /\ UNCHANGED copies
  /\ \/ exe' = Binary(update[u].target, update[u].got) /\ ToPc(u, "chmod")
     \/ exe' = Part(update[u].target) /\ ExitWith(u, 1)
\* replace_binary: a copy beside the executable; a copy that fails stays behind.
CopyBeside(u) ==
  /\ AtUpdate(u, "copy") /\ UNCHANGED exe
  /\ \/ copies' = [copies EXCEPT ![u] = Binary(update[u].target, update[u].got)] /\ ToPc(u, "chmod")
     \/ \E left \in {copies[u], Part(update[u].target)} :
          copies' = [copies EXCEPT ![u] = left] /\ ExitWith(u, 1)

RemoveCopy(u) == copies' = [copies EXCEPT ![u] = NoFile]
Chmod(u) ==
  /\ AtUpdate(u, "chmod") /\ UNCHANGED exe
  /\ \/ ToPc(u, "rename") /\ UNCHANGED copies
     \/ RemoveCopy(u) /\ ExitWith(u, 1)
RenameOverExe(u) ==
  /\ AtUpdate(u, "rename") /\ RemoveCopy(u)
  /\ \/ exe' = copies[u] /\ ExitWith(u, 0)
     \/ UNCHANGED exe /\ ExitWith(u, 1)

\* Killed: the staging directory and the copy stay; a part of the copy is written.
KillUpdate(u) ==
  /\ update[u].pc \notin {"none", "done"} /\ UNCHANGED exe
  /\ EndWith(u, -1, update[u].stage)
  /\ \/ UNCHANGED copies
     \/ AtUpdate(u, "copy") /\ copies' = [copies EXCEPT ![u] = Part(update[u].target)]

UpdateInit ==
  /\ exe \in {Binary(v, "intact") : v \in Release}
  /\ copies = [u \in Updater |-> NoFile]
  /\ update = [u \in Updater |-> Unstarted]

UpdateNext == \E u \in Updater :
  \/ \E check \in BOOLEAN, pin \in Release \cup {0, 99} : StartUpdate(u, check, pin)
  \/ ResolveRelease(u) \/ Download(u) \/ CompareChecksum(u) \/ ExtractTarball(u)
  \/ CopyBeside(u) \/ Chmod(u) \/ RenameOverExe(u) \/ KillUpdate(u)

UpdateSpec == UpdateInit /\ [][UpdateNext]_updateVars

-----------------------------------------------------------------------------
(* Properties.                                                             *)

\* However an update fails, dies or meets another one, the installed binary is a
\* whole one: replace_binary publishes with a rename and never writes it in place.
ExeAlwaysWhole == exe.whole

\* What is installed was downloaded intact, whoever installed it and whatever the
\* network served; and an update that reports a failure has changed nothing (unless
\* another one did meanwhile).
OnlyVerifiedInstalled ==
  /\ exe.from = "intact"
  /\ \A u \in Updater : update[u].exit = 1 /\ (\A w \in Updater \ {u} : AtUpdate(w, "none"))
                        => exe = update[u].before

\* The notes shown after an update are those of the newest releases that are new
\* to the user, newest first, and no release in between goes uncounted.
DeltaCountsEveryRelease ==
  For("delta") =>
    LET d == ChangelogDelta(input.sections, input.from, input.to)
        new == {v \in ToSet(input.sections) : v > input.from /\ v <= input.to}
    IN /\ Len(d.shown) + d.more = Cardinality(new)
       /\ \A v \in new : v \in ToSet(d.shown) \/ \A i \in DOMAIN d.shown : d.shown[i] > v
       /\ \A i \in 1..(Len(d.shown) - 1) : d.shown[i] > d.shown[i + 1]
DeltaInputs ==
  [of : {"delta"}, sections : UNION {SetToSeqs(S) : S \in SUBSET (1..4)}, from : 0..3, to : 1..4]

\* At every moment of a self-update there is a whole binary to start, one whose checksum was
\* compared, and its notes leave out no release.
UpdateSafe == ExeAlwaysWhole /\ OnlyVerifiedInstalled /\ DeltaCountsEveryRelease
=============================================================================
