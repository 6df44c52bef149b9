---------------------------- MODULE AtomicWrite ----------------------------
(***************************************************************************)
(* atomic_write (src/atomic.rs): the bytes go to a temporary file beside   *)
(* the target, are synced, take the target's permissions, and are renamed  *)
(* over it.  Threads of several processes write one target; any call may   *)
(* fail, a process may be killed, the machine may lose power.  A process   *)
(* that is started again may have the number of a killed one, so a         *)
(* temporary name may be that of a file left behind.                       *)
(***************************************************************************)
EXTENDS Naturals

CONSTANTS Thread, Proc, ProcOf,  \* threads and the process each belongs to
          Content, NoContent,
          MaxSeq                 \* bound: writes of one process

ASSUME FileAssumption ==
  ProcOf \in [Thread -> Proc] /\ NoContent \notin Content /\ MaxSeq \in Nat

VARIABLES dest,    \* the target: what it holds, whether all of it, its permissions
          temps,   \* temps[n]: the temporary file named n, "none" if there is none
          seq,     \* seq[p]: TEMP_SEQ of the process
          thread,  \* thread[t]: the write it runs
          past     \* history: contents the target had

fileVars == <<dest, temps, seq, thread, past>>

Name == Proc \X (0..MaxSeq)
Missing == [v |-> NoContent, state |-> "none", mode |-> "none"]
NoWrite == [pc |-> "idle", v |-> NoContent, tmp |-> <<>>]
\* A file that was there from the start has the mode its user gave it.
FullFile(v) == [v |-> v, state |-> "synced", mode |-> IF NoContent \in past THEN "new" ELSE "old"]

FileAt(t, pc) == thread[t].pc = pc
FileGo(t, pc) == thread' = [thread EXCEPT ![t].pc = pc]
Temp(t) == temps[thread[t].tmp]
SetTemp(t, file) == temps' = [temps EXCEPT ![thread[t].tmp] = file]

FileInit ==
  /\ \E c \in Content \cup {NoContent} : past = {c}
  /\ dest \in {IF c = NoContent THEN Missing ELSE FullFile(c) : c \in past}
  /\ temps = [n \in Name |-> Missing]
  /\ seq = [p \in Proc |-> 0]
  /\ thread = [t \in Thread |-> NoWrite]

-----------------------------------------------------------------------------
\* The number makes the name unique among the threads of a process.
SharedName(t, v) ==
  /\ FileAt(t, "idle") /\ seq[ProcOf[t]] < MaxSeq
  /\ seq' = [seq EXCEPT ![ProcOf[t]] = @ + 1]
  /\ thread' = [thread EXCEPT ![t] = [pc |-> "create", v |-> v, tmp |-> <<ProcOf[t], 0>>]]
  /\ UNCHANGED <<dest, temps, past>>
PickName(t, v) ==
  /\ FileAt(t, "idle") /\ seq[ProcOf[t]] < MaxSeq
  /\ seq' = [seq EXCEPT ![ProcOf[t]] = @ + 1]
  /\ thread' = [thread EXCEPT ![t] = [pc |-> "create", v |-> v, tmp |-> <<ProcOf[t], seq[ProcOf[t]]>>]]
  /\ UNCHANGED <<dest, temps, past>>
\* File::create empties a file that is already there and leaves it its mode.
CreateTemp(t) ==
  /\ FileAt(t, "create")
  /\ SetTemp(t, [v |-> thread[t].v, state |-> "part", mode |-> IF Temp(t) = Missing THEN "new" ELSE Temp(t).mode])
  /\ FileGo(t, "write") /\ UNCHANGED <<dest, seq, past>>
WriteAll(t) ==
  /\ FileAt(t, "write") /\ Temp(t).state # "none"
  /\ SetTemp(t, [v |-> thread[t].v, state |-> "written", mode |-> Temp(t).mode])
  /\ FileGo(t, "sync") /\ UNCHANGED <<dest, seq, past>>
SyncAll(t) ==
  /\ FileAt(t, "sync") /\ Temp(t).state # "none"
  /\ SetTemp(t, [Temp(t) EXCEPT !.state = "synced"])
  /\ FileGo(t, "mode") /\ UNCHANGED <<dest, seq, past>>
\* A target that is there passes its permissions on.
CarryMode(t) ==
  /\ FileAt(t, "mode") /\ FileGo(t, "rename") /\ UNCHANGED <<dest, seq, past>>
  /\ IF dest.state = "none" THEN UNCHANGED temps
     ELSE Temp(t).state # "none" /\ SetTemp(t, [Temp(t) EXCEPT !.mode = dest.mode])
RenameOver(t) ==
  /\ FileAt(t, "rename") /\ Temp(t).state # "none"
  /\ dest' = Temp(t) /\ past' = past \cup {Temp(t).v}
  /\ SetTemp(t, Missing) /\ FileGo(t, "ok") /\ UNCHANGED seq
\* Any of these calls may fail; the temporary file is then removed, if that succeeds.
FailWrite(t) ==
  /\ thread[t].pc \in {"create", "write", "sync", "mode", "rename"}
  /\ SetTemp(t, Missing) \/ UNCHANGED temps
  /\ FileGo(t, "err") /\ UNCHANGED <<dest, seq, past>>
ReturnWrite(t) ==
  /\ thread[t].pc \in {"ok", "err"}
  /\ thread' = [thread EXCEPT ![t] = NoWrite] /\ UNCHANGED <<dest, temps, seq, past>>

\* The process dies and is started again under the same number.
KillProcess(p) ==
  /\ seq' = [seq EXCEPT ![p] = 0]
  /\ thread' = [t \in Thread |-> IF ProcOf[t] = p THEN NoWrite ELSE thread[t]]
  /\ UNCHANGED <<dest, temps, past>>
\* Bytes that were not synced may be lost, and the directory entry of the target may be an
\* earlier one: a file that was synced before it got its name is whole.
LosePower ==
  /\ seq' = [p \in Proc |-> 0] /\ thread' = [t \in Thread |-> NoWrite] /\ past' = past
  /\ temps' = [n \in Name |-> IF temps[n].state = "written" THEN [temps[n] EXCEPT !.state = "part"] ELSE temps[n]]
  /\ \/ dest' = [dest EXCEPT !.state = IF @ = "written" THEN "part" ELSE @]
     \/ \E c \in past : dest' = IF c = NoContent THEN Missing ELSE FullFile(c)

ThreadStep(t) ==
  \/ \E v \in Content : PickName(t, v)
  \/ CreateTemp(t) \/ WriteAll(t) \/ SyncAll(t) \/ CarryMode(t) \/ RenameOver(t)
  \/ FailWrite(t) \/ ReturnWrite(t)
FileNext == (\E t \in Thread : ThreadStep(t)) \/ (\E p \in Proc : KillProcess(p)) \/ LosePower
FileSpec == FileInit /\ [][FileNext]_fileVars

-----------------------------------------------------------------------------
\* A reader of a file with a part of its bytes missing sees none of the contents.
Torn == [torn |-> TRUE]
Register == INSTANCE AtomicRegister WITH
  value <- IF dest.state = "part" THEN Torn ELSE dest.v,
  call <- [t \in Thread |-> [v |-> thread[t].v, done |-> thread[t].pc = "ok"]]
\* The writes of all threads and processes take effect one at a time, each whole, between the call
\* and the return of atomic_write, and one that reports a failure never does: whatever fails, dies or
\* loses power, a reader sees a content that some write (or the first state) gave the file.
WritesAtomically == Register!Spec

\* A file whose user restricted its mode before the first write never has another mode, not even
\* after a temporary file left by a killed process is taken up again.
ModeKept == NoContent \notin past => dest.mode = "old"
=============================================================================
