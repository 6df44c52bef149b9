------------------------ MODULE KnowledgeStoreProofs ------------------------
(***************************************************************************)
(* Theorems about KnowledgeStore, for any number of snapshots, contents,    *)
(* commands and server calls.  What the files hold needs that only one      *)
(* process writes the store (OneWriter; SharedRoot shows what two do), what *)
(* the server answers with does not.                                        *)
(***************************************************************************)
EXTENDS KnowledgeStore, TLAPS

\* No two processes of the root run commands on the store.
OneWriter == \A p, q \in Proc : JobsOf[p] # {} /\ JobsOf[q] # {} => p = q

\* Who is inside a command runs one of its own, and the steps of a pull are a pull's.
WriterOK ==
  \A p \in Proc : /\ pc[p] # "idle" => job[p] \in JobsOf[p]
                  /\ pc[p] \in {"guard", "hash", "mark"} => job[p].kind = "pull"

\* Once the server has seen a pointer there is one, and it has read it.
ServerOK ==
  /\ rpc \in {"read_pointer", "stat_snapshot", "load_pointer", "load_snapshot"}
       => current # None
  /\ rpc \in {"stat_snapshot", "load_snapshot"} => rsnap # None

TypeInv == TypeOK /\ WriterOK /\ ServerOK

\* From writing a snapshot to pointing at it the snapshot is there, and a prune
\* spares what the pointer names.
WrittenOK ==
  \A p \in Proc : /\ pc[p] \in {"hash", "mark", "advance"} => snap[Target(p)] # None
                  /\ pc[p] \in {"list", "prune"} => current = Target(p)
                  /\ pc[p] = "prune" => Target(p) \notin listing[p]

StoreInv == TypeInv /\ WrittenOK /\ CurrentLoadable

------------------------------------------------------------------------------

LEMMA JobFields ==
  ASSUME NEW j \in Job
  PROVE  /\ j.content \in Content /\ SnapOf[j.content] \in Snapshot
         /\ j.kind = "pull" => j.corpus \in Corpus /\ j.force \in BOOLEAN
BY KnowledgeAssumption DEF Job

LEMMA TargetType ==
  ASSUME TypeInv, NEW p \in Proc, pc[p] # "idle"
  PROVE  /\ job[p] \in Job /\ job[p].content \in Content
         /\ Target(p) \in Snapshot
<1>1. job[p] \in Job
  BY KnowledgeAssumption DEF TypeInv, WriterOK
<1> QED BY <1>1, JobFields DEF Target

LEMMA WatchType ==
  ASSUME TypeOK, snap' \in [Snapshot -> Content \cup {None}],
         current' \in Snapshot \cup {None}, Watch
  PROVE  named' \subseteq Snapshot \cup {None} /\ seen' \subseteq Content \cup {None}
BY DEF TypeOK, Watch, Held, watch

LEMMA InitType == Init => TypeInv
BY KnowledgeAssumption
   DEF Init, TypeInv, TypeOK, WriterOK, ServerOK, Marker, Fp, Label, Outcome

LEMMA StepType ==
  ASSUME TypeInv, [Next]_vars
  PROVE  TypeInv'
<1> USE KnowledgeAssumption DEF TypeInv
<1>1. ASSUME NEW p \in Proc, NEW j \in JobsOf[p], Start(p, j) PROVE TypeInv'
  <2>1. j \in Job OBVIOUS
  <2>2. Active \in Content \cup {None} BY DEF Active, TypeOK
  <2>3. TypeOK' BY <1>1, <2>1, <2>2 DEF Start, TypeOK, Label, Outcome, files, server, watch
  <2>4. WriterOK' BY <1>1, <2>1 DEF Start, TypeOK, WriterOK
  <2>5. ServerOK' BY <1>1 DEF Start, ServerOK, files, server
  <2> QED BY <2>3, <2>4, <2>5
<1>2. ASSUME NEW p \in Proc, Guard(p) PROVE TypeInv'
  <2>1. /\ job[p].content \in Content /\ Target(p) \in Snapshot
        /\ job[p] \in Job
    BY <1>2, TargetType DEF Guard
  <2>2. TypeOK' BY <1>2, <2>1, ZenonT(60) DEF Guard, TypeOK, Label, Outcome, Goto, Finish, files, server, watch
  <2>3. WriterOK' BY <1>2 DEF Guard, TypeOK, WriterOK, Goto, Finish
  <2>4. ServerOK' BY <1>2 DEF Guard, TypeOK, ServerOK, Goto, Finish, files, server, watch
  <2> QED BY <2>2, <2>3, <2>4
<1>3. ASSUME NEW p \in Proc, WriteSnapshot(p) PROVE TypeInv'
  <2>1. /\ job[p].content \in Content /\ Target(p) \in Snapshot
        /\ job[p] \in Job
    BY <1>3, TargetType DEF WriteSnapshot
  <2>2. /\ snap' \in [Snapshot -> Content \cup {None}]
        /\ current' \in Snapshot \cup {None}
    BY <1>3, <2>1 DEF WriteSnapshot, TypeOK
  <2>3. named' \subseteq Snapshot \cup {None} /\ seen' \subseteq Content \cup {None}
    BY <1>3, <2>2, WatchType DEF WriteSnapshot
  <2>4. /\ stamp' \in [Snapshot \cup {"current"} -> Nat] /\ tick' \in Nat
    BY <1>3, <2>1 DEF WriteSnapshot, TypeOK, Touch
  <2>5. /\ pc' \in [Proc -> Label] /\ result' \in [Proc -> Outcome]
    BY <1>3 DEF WriteSnapshot, TypeOK, Label, Outcome, Goto, Finish
  <2>6. listing' \in [Proc -> SUBSET Snapshot]
    BY <1>3 DEF WriteSnapshot, TypeOK
  <2>7. UNCHANGED <<marker, job, hash, prior, alone, jobs, rpc, rsnap, rfp, cache, served,
                    calls, damages>>
    BY <1>3 DEF WriteSnapshot, server
  <2>8. TypeOK' BY <2>2, <2>3, <2>4, <2>5, <2>6, <2>7 DEF TypeOK
  <2>9. WriterOK' BY <1>3 DEF WriteSnapshot, TypeOK, WriterOK, Goto, Finish
  <2>10. ServerOK'
    BY <1>3 DEF WriteSnapshot, TypeOK, ServerOK, Goto, Finish, Touch, server
  <2> QED BY <2>8, <2>9, <2>10
<1>4. ASSUME NEW p \in Proc, HashSnapshot(p) PROVE TypeInv'
  <2>1. /\ job[p].content \in Content /\ Target(p) \in Snapshot
        /\ job[p] \in Job
    BY <1>4, TargetType DEF HashSnapshot
  <2>2. TypeOK' BY <1>4, <2>1 DEF HashSnapshot, TypeOK, Label, Outcome, Goto, files, server, watch
  <2>3. WriterOK' BY <1>4 DEF HashSnapshot, TypeOK, WriterOK, Goto, Finish
  <2>4. ServerOK' BY <1>4 DEF HashSnapshot, TypeOK, ServerOK, Goto, files, server, watch
  <2> QED BY <2>2, <2>3, <2>4
<1>5. ASSUME NEW p \in Proc, SaveMarker(p) PROVE TypeInv'
  <2>1. /\ job[p].content \in Content /\ Target(p) \in Snapshot
        /\ job[p] \in Job
    BY <1>5, TargetType DEF SaveMarker
  <2>2. job[p].corpus \in Corpus
    BY <1>5, <2>1, JobFields DEF SaveMarker, WriterOK
  <2>3. marker' \in Marker
    BY <1>5, <2>1, <2>2 DEF SaveMarker, TypeOK, Marker, MarkerOf
  <2>4. TypeOK' BY <1>5, <2>1, <2>3 DEF SaveMarker, TypeOK, Label, Outcome, Goto, Finish, server, watch
  <2>5. WriterOK' BY <1>5 DEF SaveMarker, TypeOK, WriterOK, Goto, Finish
  <2>6. ServerOK' BY <1>5 DEF SaveMarker, TypeOK, ServerOK, Goto, Finish, server, watch
  <2> QED BY <2>4, <2>5, <2>6
<1>6. ASSUME NEW p \in Proc, AdvanceCurrent(p) PROVE TypeInv'
  <2>1. /\ job[p].content \in Content /\ Target(p) \in Snapshot
        /\ job[p] \in Job
    BY <1>6, TargetType DEF AdvanceCurrent
  <2>2. /\ snap' \in [Snapshot -> Content \cup {None}]
        /\ current' \in Snapshot \cup {None}
    BY <1>6, <2>1 DEF AdvanceCurrent, TypeOK
  <2>3. named' \subseteq Snapshot \cup {None} /\ seen' \subseteq Content \cup {None}
    BY <1>6, <2>2, WatchType DEF AdvanceCurrent
  <2>4. /\ stamp' \in [Snapshot \cup {"current"} -> Nat] /\ tick' \in Nat
    BY <1>6, <2>1 DEF AdvanceCurrent, TypeOK, Touch
  <2>5. /\ pc' \in [Proc -> Label] /\ result' \in [Proc -> Outcome]
    BY <1>6 DEF AdvanceCurrent, TypeOK, Label, Outcome, Goto, Finish
  <2>6. listing' \in [Proc -> SUBSET Snapshot]
    BY <1>6 DEF AdvanceCurrent, TypeOK
  <2>7. UNCHANGED <<marker, job, hash, prior, alone, jobs, rpc, rsnap, rfp, cache, served,
                    calls, damages>>
    BY <1>6 DEF AdvanceCurrent, server
  <2>8. TypeOK' BY <2>2, <2>3, <2>4, <2>5, <2>6, <2>7 DEF TypeOK
  <2>9. WriterOK' BY <1>6 DEF AdvanceCurrent, TypeOK, WriterOK, Goto, Finish
  <2>10. ServerOK'
    BY <1>6, <2>1 DEF AdvanceCurrent, TypeOK, ServerOK, Goto, Finish, Touch, server
  <2> QED BY <2>8, <2>9, <2>10
<1>7. ASSUME NEW p \in Proc, ListSnapshots(p) PROVE TypeInv'
  <2>1. /\ job[p].content \in Content /\ Target(p) \in Snapshot
        /\ job[p] \in Job
    BY <1>7, TargetType DEF ListSnapshots
  <2>2. TypeOK' BY <1>7, <2>1 DEF ListSnapshots, TypeOK, Label, Outcome, Goto, files, server, watch
  <2>3. WriterOK' BY <1>7 DEF ListSnapshots, TypeOK, WriterOK, Goto, Finish
  <2>4. ServerOK' BY <1>7 DEF ListSnapshots, TypeOK, ServerOK, Goto, files, server, watch
  <2> QED BY <2>2, <2>3, <2>4
<1>8. ASSUME NEW p \in Proc, PruneSnapshots(p) PROVE TypeInv'
  <2>1. /\ job[p].content \in Content /\ Target(p) \in Snapshot
        /\ job[p] \in Job
    BY <1>8, TargetType DEF PruneSnapshots
  <2>2. /\ snap' \in [Snapshot -> Content \cup {None}]
        /\ current' \in Snapshot \cup {None}
    BY <1>8, <2>1 DEF PruneSnapshots, TypeOK
  <2>3. named' \subseteq Snapshot \cup {None} /\ seen' \subseteq Content \cup {None}
    BY <1>8, <2>2, WatchType DEF PruneSnapshots
  <2>4. /\ stamp' \in [Snapshot \cup {"current"} -> Nat] /\ tick' \in Nat
    BY <1>8, <2>1 DEF PruneSnapshots, TypeOK, Touch
  <2>5. /\ pc' \in [Proc -> Label] /\ result' \in [Proc -> Outcome]
    BY <1>8 DEF PruneSnapshots, TypeOK, Label, Outcome, Goto, Finish
  <2>6. listing' \in [Proc -> SUBSET Snapshot]
    BY <1>8 DEF PruneSnapshots, TypeOK
  <2>7. UNCHANGED <<marker, job, hash, prior, alone, jobs, rpc, rsnap, rfp, cache, served,
                    calls, damages>>
    BY <1>8 DEF PruneSnapshots, server
  <2>8. TypeOK' BY <2>2, <2>3, <2>4, <2>5, <2>6, <2>7 DEF TypeOK
  <2>9. WriterOK' BY <1>8 DEF PruneSnapshots, TypeOK, WriterOK, Goto, Finish
  <2>10. ServerOK' BY <1>8 DEF PruneSnapshots, TypeOK, ServerOK, Finish, server
  <2> QED BY <2>8, <2>9, <2>10
<1>9. ASSUME NEW p \in Proc, Crash(p) PROVE TypeInv'
  <2>1. TypeOK' BY <1>9 DEF Crash, TypeOK, Label, Outcome, Finish, files, server, watch
  <2>2. WriterOK' BY <1>9 DEF Crash, TypeOK, WriterOK, Goto, Finish
  <2>3. ServerOK' BY <1>9 DEF Crash, TypeOK, ServerOK, Finish, files, server, watch
  <2> QED BY <2>1, <2>2, <2>3
<1>10. ASSUME CallKnowledge PROVE TypeInv'
  <2>1. TypeOK' BY <1>10 DEF CallKnowledge, TypeOK, files, procs, Held
  <2>2. WriterOK' BY <1>10 DEF CallKnowledge, WriterOK, files, procs
  <2>3. ServerOK' BY <1>10 DEF CallKnowledge, TypeOK, ServerOK, files, procs
  <2> QED BY <2>1, <2>2, <2>3
<1>11. ASSUME StatPointer PROVE TypeInv'
  <2>1. TypeOK' BY <1>11 DEF StatPointer, TypeOK, files, procs, watch, Answer, Fp
  <2>2. WriterOK' BY <1>11 DEF StatPointer, WriterOK, files, procs, watch, Answer, Fp
  <2>3. ServerOK'
    BY <1>11 DEF StatPointer, TypeOK, ServerOK, files, procs, watch, Answer, Fp
  <2> QED BY <2>1, <2>2, <2>3
<1>12. ASSUME ReadPointer PROVE TypeInv'
  <2>1. TypeOK' BY <1>12 DEF ReadPointer, TypeOK, files, procs, watch
  <2>2. WriterOK' BY <1>12 DEF ReadPointer, WriterOK, files, procs, watch
  <2>3. ServerOK' BY <1>12 DEF ReadPointer, TypeOK, ServerOK, files, procs, watch
  <2> QED BY <2>1, <2>2, <2>3
<1>13. ASSUME StatSnapshot PROVE TypeInv'
  <2>1. rsnap \in Snapshot BY <1>13 DEF StatSnapshot, TypeOK, ServerOK
  <2>2. TypeOK'
    BY <1>13, <2>1 DEF StatSnapshot, TypeOK, files, procs, watch, Answer, Fp, CacheHit
  <2>3. WriterOK'
    BY <1>13 DEF StatSnapshot, WriterOK, files, procs, watch, Answer, Fp, CacheHit
  <2>4. ServerOK'
    BY <1>13, <2>1 DEF StatSnapshot, TypeOK, ServerOK, files, procs, watch, Answer, Fp, CacheHit
  <2> QED BY <2>2, <2>3, <2>4
<1>14. ASSUME LoadPointer PROVE TypeInv'
  <2>1. TypeOK' BY <1>14 DEF LoadPointer, TypeOK, files, procs, watch
  <2>2. WriterOK' BY <1>14 DEF LoadPointer, WriterOK, files, procs, watch
  <2>3. ServerOK' BY <1>14 DEF LoadPointer, TypeOK, ServerOK, files, procs, watch
  <2> QED BY <2>1, <2>2, <2>3
<1>15. ASSUME LoadSnapshot PROVE TypeInv'
  <2>1. rsnap \in Snapshot BY <1>15 DEF LoadSnapshot, TypeOK, ServerOK
  <2>2. TypeOK' BY <1>15, <2>1 DEF LoadSnapshot, TypeOK, files, procs, watch, Answer, Fp
  <2>3. WriterOK' BY <1>15 DEF LoadSnapshot, WriterOK, files, procs, watch, Answer
  <2>4. ServerOK'
    BY <1>15, <2>1 DEF LoadSnapshot, TypeOK, ServerOK, files, procs, watch, Answer
  <2> QED BY <2>2, <2>3, <2>4
<1>16. ASSUME DamageMarker PROVE TypeInv'
  <2>1. TypeOK' BY <1>16 DEF DamageMarker, TypeOK, Marker, procs, server, watch
  <2>2. WriterOK' /\ ServerOK'
    BY <1>16 DEF DamageMarker, WriterOK, ServerOK, procs, server
  <2> QED BY <2>1, <2>2
<1>17. CASE UNCHANGED vars
  BY <1>17 DEF vars, TypeOK, WriterOK, ServerOK, Marker
<1> QED
  BY <1>1, <1>2, <1>3, <1>4, <1>5, <1>6, <1>7, <1>8, <1>9,
     <1>10, <1>11, <1>12, <1>13, <1>14, <1>15, <1>16, <1>17 DEF Next, Step, LoadKnowledge

\* The files, the commands and the server's call stay well formed.
THEOREM TypeCorrect == Spec => []TypeOK
<1>1. TypeInv /\ [Next]_vars => TypeInv'
  BY StepType
<1>2. Spec => []TypeInv
  BY InitType, <1>1, PTL DEF Spec
<1> QED BY <1>2, PTL DEF TypeInv

------------------------------------------------------------------------------

LEMMA OnlyOneInside ==
  ASSUME OneWriter, TypeInv, NEW p \in Proc, NEW q \in Proc, pc[p] # "idle", pc[q] # "idle"
  PROVE  p = q
BY DEF OneWriter, TypeInv, WriterOK

LEMMA StepStore ==
  ASSUME OneWriter, StoreInv, [Next]_vars
  PROVE  StoreInv'
<1> USE KnowledgeAssumption DEF StoreInv
<1>0. TypeInv'
  BY StepType
<1>1. ASSUME NEW p \in Proc, NEW j \in JobsOf[p], Start(p, j) PROVE StoreInv'
  BY <1>0, <1>1 DEF Start, WrittenOK, CurrentLoadable, files, TypeInv, TypeOK, Target
<1>2. ASSUME NEW p \in Proc, Guard(p) PROVE StoreInv'
  <2>1. \A q \in Proc : pc[q] # "idle" => q = p
    BY <1>2, OnlyOneInside DEF Guard
  <2>2. Target(p) \in Snapshot /\ job[p].content \in Content
    BY <1>2, TargetType DEF Guard
  <2>3. WrittenOK'
    BY <1>2, <2>1, <2>2 DEF Guard, WrittenOK, TypeInv, TypeOK, Target, Goto, Finish, files
  <2>4. CurrentLoadable'
    BY <1>2, <2>1, <2>2 DEF Guard, WrittenOK, CurrentLoadable, TypeInv,
       TypeOK, Goto, Finish, files
  <2> QED BY <1>0, <2>3, <2>4
<1>3. ASSUME NEW p \in Proc, WriteSnapshot(p) PROVE StoreInv'
  <2>1. \A q \in Proc : pc[q] # "idle" => q = p
    BY <1>3, OnlyOneInside DEF WriteSnapshot
  <2>2. Target(p) \in Snapshot /\ job[p].content \in Content
    BY <1>3, TargetType DEF WriteSnapshot
  <2>3. WrittenOK'
    BY <1>3, <2>1, <2>2 DEF WriteSnapshot, WrittenOK, TypeInv, TypeOK, Target, Goto, Finish, Touch
  <2>4. CurrentLoadable'
    BY <1>3, <2>1, <2>2 DEF WriteSnapshot, WrittenOK, CurrentLoadable, TypeInv,
       TypeOK, Goto, Finish, Touch
  <2> QED BY <1>0, <2>3, <2>4
<1>4. ASSUME NEW p \in Proc, HashSnapshot(p) PROVE StoreInv'
  <2>1. \A q \in Proc : pc[q] # "idle" => q = p
    BY <1>4, OnlyOneInside DEF HashSnapshot
  <2>2. Target(p) \in Snapshot /\ job[p].content \in Content
    BY <1>4, TargetType DEF HashSnapshot
  <2>3. WrittenOK'
    BY <1>4, <2>1, <2>2 DEF HashSnapshot, WrittenOK, TypeInv, TypeOK, Target, Goto, files
  <2>4. CurrentLoadable'
    BY <1>4, <2>1, <2>2 DEF HashSnapshot, WrittenOK, CurrentLoadable, TypeInv,
       TypeOK, Goto, files
  <2> QED BY <1>0, <2>3, <2>4
<1>5. ASSUME NEW p \in Proc, SaveMarker(p) PROVE StoreInv'
  <2>1. \A q \in Proc : pc[q] # "idle" => q = p
    BY <1>5, OnlyOneInside DEF SaveMarker
  <2>2. Target(p) \in Snapshot /\ job[p].content \in Content
    BY <1>5, TargetType DEF SaveMarker
  <2>3. WrittenOK'
    BY <1>5, <2>1, <2>2 DEF SaveMarker, WrittenOK, TypeInv, TypeOK, Target, Goto, Finish
  <2>4. CurrentLoadable'
    BY <1>5, <2>1, <2>2 DEF SaveMarker, WrittenOK, CurrentLoadable, TypeInv,
       TypeOK, Goto, Finish
  <2> QED BY <1>0, <2>3, <2>4
<1>6. ASSUME NEW p \in Proc, AdvanceCurrent(p) PROVE StoreInv'
  <2>1. \A q \in Proc : pc[q] # "idle" => q = p
    BY <1>6, OnlyOneInside DEF AdvanceCurrent
  <2>2. Target(p) \in Snapshot /\ job[p].content \in Content
    BY <1>6, TargetType DEF AdvanceCurrent
  <2>3. WrittenOK'
    BY <1>6, <2>1, <2>2 DEF AdvanceCurrent, WrittenOK, TypeInv, TypeOK, Target, Goto, Finish, Touch
  <2>4. CurrentLoadable'
    BY <1>6, <2>1, <2>2 DEF AdvanceCurrent, WrittenOK, CurrentLoadable, TypeInv,
       TypeOK, Goto, Finish, Touch
  <2> QED BY <1>0, <2>3, <2>4
<1>7. ASSUME NEW p \in Proc, ListSnapshots(p) PROVE StoreInv'
  <2>1. \A q \in Proc : pc[q] # "idle" => q = p
    BY <1>7, OnlyOneInside DEF ListSnapshots
  <2>2. Target(p) \in Snapshot /\ job[p].content \in Content
    BY <1>7, TargetType DEF ListSnapshots
  <2>3. WrittenOK'
    BY <1>7, <2>1, <2>2 DEF ListSnapshots, WrittenOK, TypeInv, TypeOK, Target, Goto, files
  <2>4. CurrentLoadable'
    BY <1>7, <2>1, <2>2 DEF ListSnapshots, WrittenOK, CurrentLoadable, TypeInv,
       TypeOK, Goto, files
  <2> QED BY <1>0, <2>3, <2>4
<1>8. ASSUME NEW p \in Proc, PruneSnapshots(p) PROVE StoreInv'
  <2>1. \A q \in Proc : pc[q] # "idle" => q = p
    BY <1>8, OnlyOneInside DEF PruneSnapshots
  <2>2. Target(p) \in Snapshot /\ job[p].content \in Content
    BY <1>8, TargetType DEF PruneSnapshots
  <2>3. WrittenOK'
    BY <1>8, <2>1, <2>2 DEF PruneSnapshots, WrittenOK, TypeInv, TypeOK, Target, Finish
  <2>4. CurrentLoadable'
    BY <1>8, <2>1, <2>2 DEF PruneSnapshots, WrittenOK, CurrentLoadable, TypeInv,
       TypeOK, Finish
  <2> QED BY <1>0, <2>3, <2>4
<1>9. ASSUME NEW p \in Proc, Crash(p) PROVE StoreInv'
  <2>1. \A q \in Proc : pc[q] # "idle" => q = p
    BY <1>9, OnlyOneInside DEF Crash
  <2>2. Target(p) \in Snapshot /\ job[p].content \in Content
    BY <1>9, TargetType DEF Crash
  <2>3. WrittenOK'
    BY <1>9, <2>1, <2>2 DEF Crash, WrittenOK, TypeInv, TypeOK, Target, Finish, files
  <2>4. CurrentLoadable'
    BY <1>9, <2>1, <2>2 DEF Crash, WrittenOK, CurrentLoadable, TypeInv,
       TypeOK, Finish, files
  <2> QED BY <1>0, <2>3, <2>4
<1>10. ASSUME UNCHANGED <<snap, current>>, UNCHANGED <<pc, job, listing>> PROVE StoreInv'
  BY <1>0, <1>10 DEF WrittenOK, CurrentLoadable, Target
<1>11. CASE LoadKnowledge
  BY <1>10, <1>11 DEF LoadKnowledge, CallKnowledge, StatPointer, ReadPointer, StatSnapshot,
     LoadPointer, LoadSnapshot, files, procs
<1>12. CASE DamageMarker
  BY <1>10, <1>12 DEF DamageMarker, procs
<1>13. CASE UNCHANGED vars
  BY <1>10, <1>13 DEF vars
<1> QED
  BY <1>1, <1>2, <1>3, <1>4, <1>5, <1>6, <1>7, <1>8, <1>9, <1>11, <1>12,
     <1>13 DEF Next, Step

\* advance_current, with a single writer: through every failure, kill, restart and prune
\* the `current` pointer names a snapshot that can be loaded.
THEOREM CurrentIsLoadable ==
  ASSUME OneWriter
  PROVE  Spec => []CurrentLoadable
<1>1. Init => StoreInv
  BY InitType DEF Init, StoreInv, WrittenOK, CurrentLoadable
<1>2. StoreInv /\ [Next]_vars => StoreInv'
  BY StepStore
<1>3. Spec => []StoreInv
  BY <1>1, <1>2, PTL DEF Spec
<1> QED BY <1>3, PTL DEF StoreInv

------------------------------------------------------------------------------
(* The server's answers. *)

\* Every write gives its file a stamp no file had before, and what was stamped when a
\* fingerprint was taken bounds it.
StampOK ==
  /\ \A f \in Snapshot \cup {"current"} : stamp[f] <= tick
  /\ \A f, g \in Snapshot \cup {"current"} : stamp[f] = stamp[g] => f = g \/ stamp[f] = 0
  /\ \A s \in Snapshot : snap[s] # None => stamp[s] > 0
  /\ rfp.ptr <= tick /\ rfp.snap <= tick
  /\ cache # None => cache.fp.ptr <= tick /\ cache.fp.snap <= tick

\* During a call what is current, and what it holds, has been seen; a snapshot the
\* server read the pointer for was current.
WatchOK ==
  /\ rpc # "idle" => current \in named /\ \A i \in named \ {None} : snap[i] \in seen
  /\ rpc \in {"stat_snapshot", "load_snapshot"} => rsnap \in named

\* While the pointer has not moved since its stat was taken, the snapshot read is the
\* current one, and only that one carries the stamp of the fingerprint.
ReadOK ==
  rfp.ptr = stamp["current"] =>
    /\ rpc \in {"stat_snapshot", "load_pointer", "load_snapshot"} => rsnap = current
    /\ rpc \in {"load_pointer", "load_snapshot"}
         => \A s \in Snapshot : stamp[s] = rfp.snap => s = current

\* The data of an entry is what the snapshot of its fingerprint holds, as long as the
\* pointer is still, or was when the call in progress looked, where it was.
EntryOK ==
  /\ cache # None
  /\ \/ cache.fp.ptr = stamp["current"]
     \/ rpc \in {"read_pointer", "stat_snapshot"} /\ cache.fp.ptr = rfp.ptr
  => \A s \in Snapshot : stamp[s] = cache.fp.snap /\ snap[s] # None => cache.data = snap[s]

ServeInv == TypeInv /\ StampOK /\ WatchOK /\ ReadOK /\ EntryOK /\ ServedWasCurrent

LEMMA InitServe == Init => ServeInv
BY InitType, KnowledgeAssumption
   DEF Init, ServeInv, StampOK, WatchOK, ReadOK, EntryOK, ServedWasCurrent

\* A stamp above all others keeps stamps distinct.
LEMMA NewStamp ==
  ASSUME NEW F, NEW st \in [F -> Nat], NEW t \in Nat, NEW f \in F,
         \A g \in F : st[g] <= t,
         \A g, h \in F : st[g] = st[h] => g = h \/ st[g] = 0
  PROVE  LET new == [st EXCEPT ![f] = t + 1]
         IN  /\ \A g \in F : new[g] <= t + 1
             /\ \A g, h \in F : new[g] = new[h] => g = h \/ new[g] = 0
<1>1. \A g \in F : st[g] \in Nat /\ st[g] # t + 1 /\ st[g] <= t + 1
  OBVIOUS
<1> QED BY <1>1

\* A write, a move of the pointer or a removal, as the server sees it.
LEMMA FilesMove ==
  ASSUME ServeInv, TypeInv', Watch, UNCHANGED server,
         \/ UNCHANGED <<snap, current, stamp, tick>>
         \/ \E s \in Snapshot, c \in Content :
              snap' = [snap EXCEPT ![s] = c] /\ Touch(s) /\ UNCHANGED current
         \/ \E s \in Snapshot :
              current' = s /\ Touch("current") /\ UNCHANGED snap
         \/ \E s \in Snapshot :
              snap' = [snap EXCEPT ![s] = None] /\ UNCHANGED <<current, stamp, tick>>
  PROVE  ServeInv'
<1> USE DEF ServeInv, TypeInv, TypeOK, server, Fp
<1>1. StampOK'
  <2>1. CASE UNCHANGED <<snap, current, stamp, tick>>
    BY <2>1 DEF StampOK
  <2>2. ASSUME NEW f \in Snapshot \cup {"current"}, Touch(f),
               \A s \in Snapshot : snap'[s] # None => snap[s] # None \/ s = f
        PROVE  StampOK'
    <3>1. /\ \A g \in Snapshot \cup {"current"} : stamp'[g] <= tick'
          /\ \A g, h \in Snapshot \cup {"current"} :
               stamp'[g] = stamp'[h] => g = h \/ stamp'[g] = 0
      BY <2>2, NewStamp DEF Touch, StampOK
    <3>2. tick \in Nat /\ tick' = tick + 1 /\ stamp'[f] = tick + 1
          /\ \A g \in Snapshot \cup {"current"} : g # f => stamp'[g] = stamp[g]
      BY <2>2 DEF Touch
    <3>3. \A s \in Snapshot : snap'[s] # None => stamp'[s] > 0
      BY <2>2, <3>2 DEF StampOK
    <3>4. /\ rfp'.ptr <= tick' /\ rfp'.snap <= tick'
          /\ cache' # None => cache'.fp.ptr <= tick' /\ cache'.fp.snap <= tick'
      BY <3>2 DEF StampOK
    <3> QED BY <3>1, <3>3, <3>4 DEF StampOK
  <2>3. ASSUME NEW s \in Snapshot, snap' = [snap EXCEPT ![s] = None],
               UNCHANGED <<current, stamp, tick>>
        PROVE  StampOK'
    BY <2>3 DEF StampOK
  <2> QED BY <2>1, <2>2, <2>3
<1>2. WatchOK' BY DEF WatchOK, Watch, watch, Held
<1>3. ReadOK' BY DEF ReadOK, StampOK, Touch
<1>4. EntryOK' BY DEF EntryOK, StampOK, Touch
<1>5. ServedWasCurrent' BY DEF ServedWasCurrent, Watch, watch
<1> QED BY <1>1, <1>2, <1>3, <1>4, <1>5

LEMMA StepServe ==
  ASSUME ServeInv, [Next]_vars
  PROVE  ServeInv'
<1> USE DEF ServeInv
<1>0. TypeInv'
  BY StepType
<1>1. ASSUME UNCHANGED <<snap, current, stamp, tick>>, UNCHANGED server, UNCHANGED watch
      PROVE  ServeInv'
  BY <1>0, <1>1 DEF server, watch, StampOK, WatchOK, ReadOK, EntryOK, ServedWasCurrent
<1>2. ASSUME NEW p \in Proc, NEW j \in JobsOf[p], Start(p, j) PROVE ServeInv'
  BY <1>1, <1>2 DEF Start, files
<1>3. ASSUME NEW p \in Proc,
             Guard(p) \/ HashSnapshot(p) \/ SaveMarker(p) \/ ListSnapshots(p) \/ Crash(p)
      PROVE  ServeInv'
  BY <1>1, <1>3 DEF Guard, HashSnapshot, SaveMarker, ListSnapshots, Crash, files
<1>4. ASSUME NEW p \in Proc, WriteSnapshot(p) PROVE ServeInv'
  <2>1. Target(p) \in Snapshot /\ job[p].content \in Content
    BY <1>4, TargetType DEF WriteSnapshot
  <2> QED BY <1>0, <1>4, <2>1, FilesMove DEF WriteSnapshot
<1>5. ASSUME NEW p \in Proc, AdvanceCurrent(p) PROVE ServeInv'
  <2>1. Target(p) \in Snapshot
    BY <1>5, TargetType DEF AdvanceCurrent
  <2> QED BY <1>0, <1>5, <2>1, FilesMove DEF AdvanceCurrent
<1>6. ASSUME NEW p \in Proc, PruneSnapshots(p) PROVE ServeInv'
  <2>1. listing[p] \subseteq Snapshot
    BY DEF TypeInv, TypeOK
  <2> QED BY <1>0, <1>6, <2>1, FilesMove DEF PruneSnapshots
<1>7. CASE DamageMarker
  BY <1>1, <1>7 DEF DamageMarker
<1>8. CASE CallKnowledge
  <2> USE <1>8 DEF CallKnowledge, files
  <2>1. StampOK' BY DEF StampOK
  <2>2. WatchOK' BY DEF WatchOK, Held
  <2>3. ReadOK' /\ EntryOK' BY DEF ReadOK, EntryOK
  <2>4. ServedWasCurrent' BY DEF ServedWasCurrent
  <2> QED BY <1>0, <2>1, <2>2, <2>3, <2>4
<1>9. CASE StatPointer
  <2> USE <1>9 DEF StatPointer, files, watch, Answer, TypeInv, TypeOK, Fp
  <2>1. StampOK' BY DEF StampOK
  <2>2. WatchOK' BY DEF WatchOK
  <2>3. ReadOK' BY DEF ReadOK
  <2>4. EntryOK' BY DEF EntryOK
  <2>5. ServedWasCurrent' BY NamesAssumption DEF ServedWasCurrent
  <2> QED BY <1>0, <2>1, <2>2, <2>3, <2>4, <2>5
<1>10. CASE ReadPointer
  <2> USE <1>10 DEF ReadPointer, files, watch
  <2>1. StampOK' BY DEF StampOK
  <2>2. WatchOK' BY DEF WatchOK
  <2>3. ReadOK' BY DEF ReadOK
  <2>4. EntryOK' BY DEF EntryOK
  <2>5. ServedWasCurrent' BY DEF ServedWasCurrent
  <2> QED BY <1>0, <2>1, <2>2, <2>3, <2>4, <2>5
<1>11. CASE StatSnapshot
  <2> USE <1>11 DEF StatSnapshot, files, watch, Answer, TypeInv, TypeOK, Fp, CacheHit
  <2>0. rsnap \in Snapshot /\ rsnap # None
    BY KnowledgeAssumption DEF ServerOK
  <2>1. StampOK' BY <2>0 DEF StampOK
  <2>2. WatchOK' BY DEF WatchOK
  <2>3. ReadOK' BY <2>0 DEF ReadOK, StampOK
  <2>4. EntryOK' BY DEF EntryOK
  <2>5. ServedWasCurrent'
    <3>1. CASE snap[rsnap] = None
      BY <3>1, NamesAssumption DEF ServedWasCurrent
    <3>2. CASE snap[rsnap] # None /\ CacheHit
      <4>1. cache.data = snap[rsnap]
        BY <2>0, <3>2 DEF EntryOK
      <4>2. snap[rsnap] \in seen
        BY <2>0 DEF WatchOK
      <4> QED BY <3>2, <4>1, <4>2 DEF ServedWasCurrent
    <3>3. CASE snap[rsnap] # None /\ ~CacheHit
      BY <3>3 DEF ServedWasCurrent
    <3> QED BY <3>1, <3>2, <3>3
  <2> QED BY <1>0, <2>1, <2>2, <2>3, <2>4, <2>5
<1>12. CASE LoadPointer
  <2> USE <1>12 DEF LoadPointer, files, watch
  <2>1. StampOK' BY DEF StampOK
  <2>2. WatchOK' BY DEF WatchOK
  <2>3. ReadOK' BY DEF ReadOK
  <2>4. EntryOK' BY DEF EntryOK
  <2>5. ServedWasCurrent' BY DEF ServedWasCurrent
  <2> QED BY <1>0, <2>1, <2>2, <2>3, <2>4, <2>5
<1>13. CASE LoadSnapshot
  <2> USE <1>13 DEF LoadSnapshot, files, watch, Answer, TypeInv, TypeOK, Fp
  <2>0. rsnap \in Snapshot /\ rsnap # None
    BY KnowledgeAssumption DEF ServerOK
  <2>1. StampOK' BY DEF StampOK
  <2>2. WatchOK' BY DEF WatchOK
  <2>3. ReadOK' BY DEF ReadOK
  <2>4. EntryOK' BY <2>0 DEF EntryOK, ReadOK
  <2>5. ServedWasCurrent' BY <2>0, NamesAssumption DEF ServedWasCurrent, WatchOK
  <2> QED BY <1>0, <2>1, <2>2, <2>3, <2>4, <2>5
<1>14. CASE UNCHANGED vars
  BY <1>1, <1>14 DEF vars, server, watch
<1> QED
  BY <1>2, <1>3, <1>4, <1>5, <1>6, <1>7, <1>8, <1>9, <1>10, <1>11, <1>12, <1>13, <1>14
     DEF Next, Step, LoadKnowledge

\* load_knowledge, "never a stale answer": whatever commands write, move the pointer or
\* prune between any two reads of a call, and however many of them there are, an answer
\* was at some moment of that call in the file of a snapshot that was current in it.
THEOREM AnswersWereCurrent == Spec => []ServedWasCurrent
<1>1. ServeInv /\ [Next]_vars => ServeInv'
  BY StepServe
<1> QED BY InitServe, <1>1, PTL DEF Spec, ServeInv

------------------------------------------------------------------------------
(* How commands end. *)

\* A snapshot file is of its own snapshot.
SnapOK == \A s \in Snapshot : snap[s] # None => SnapOf[snap[s]] = s

\* Who works alone works with every other process idle.
AloneOK == \A p \in Proc : alone[p] => \A q \in Proc : q # p => pc[q] = "idle"

\* Up to its first write a command has changed nothing.
UntouchedOK ==
  \A p \in Proc : alone[p] /\ pc[p] \in {"guard", "write"}
                  => marker \in {prior[p].marker, Corrupt} /\ Active = prior[p].active

\* The marker is as it was, and so is the active store, but for an artifact with its
\* snapshot id.
Kept(p) ==
  /\ marker \in {prior[p].marker, Corrupt}
  /\ \/ Active = prior[p].active
     \/ /\ prior[p].active # None /\ SnapOf[prior[p].active] = Target(p)
        /\ Active = job[p].content

KeptOK ==
  \A p \in Proc :
    /\ alone[p]
    /\ \/ pc[p] \in {"hash", "mark"}
       \/ pc[p] = "advance" /\ job[p].kind = "ingest"
       \/ pc[p] = "idle" /\ result[p] \in {"failed", "refused"}
    => Kept(p)

Late(p) == pc[p] \in {"list", "prune"} \/ (pc[p] = "idle" /\ result[p] = "ok")

\* What a command has installed so far.
InstalledOK ==
  \A p \in Proc : alone[p] =>
    /\ pc[p] \in {"hash", "mark", "advance"} \/ Late(p) => snap[Target(p)] = job[p].content
    /\ job[p].kind = "pull" /\ (pc[p] \in {"mark", "advance"} \/ Late(p))
         => hash[p] \in {None, job[p].content}
    /\ job[p].kind = "pull" /\ (pc[p] = "advance" \/ Late(p))
         => marker = Corrupt \/ marker = MarkerOf(p)
    /\ Late(p) => current = Target(p) /\ current # None
    /\ pc[p] = "prune" => \A s \in Snapshot \ {Target(p)} : snap[s] # None => s \in listing[p]
    /\ pc[p] = "idle" /\ result[p] = "ok" => \A s \in Snapshot \ {Target(p)} : snap[s] = None

OutcomeInv == StoreInv /\ SnapOK /\ AloneOK /\ UntouchedOK /\ KeptOK /\ InstalledOK

LEMMA InitOutcome == Init => OutcomeInv
BY InitType DEF Init, StoreInv, WrittenOK, CurrentLoadable, OutcomeInv, SnapOK, AloneOK,
   UntouchedOK, KeptOK, InstalledOK

\* A step of a command that works alone is a step of the only one.
LEMMA LoneStep ==
  ASSUME AloneOK, NEW p \in Proc, NEW q \in Proc, alone[p], pc[q] # "idle"
  PROVE  p = q
BY DEF AloneOK

\* What a step that is no command's writes or starts does not disturb.
LEMMA OutcomeFrame ==
  ASSUME OutcomeInv, StoreInv', UNCHANGED <<snap, current, pc, job, hash, listing, result, prior, alone>>,
         marker' \in {marker, Corrupt}
  PROVE  OutcomeInv'
<1> USE DEF OutcomeInv
<1>1. SnapOK' /\ AloneOK' BY DEF SnapOK, AloneOK
<1>2. Active' = Active BY DEF Active
<1>3. UntouchedOK' BY <1>2 DEF UntouchedOK
<1>4. KeptOK' BY <1>2 DEF KeptOK, Kept, Target
<1>5. InstalledOK' BY DEF InstalledOK, Late, MarkerOf, Target
<1> QED BY <1>1, <1>3, <1>4, <1>5

LEMMA StepOutcome ==
  ASSUME OneWriter, OutcomeInv, [Next]_vars
  PROVE  OutcomeInv'
<1> USE DEF OutcomeInv
<1>0. StoreInv' /\ TypeInv
  BY StepStore DEF StoreInv
<1>1. ASSUME NEW p \in Proc, NEW j \in JobsOf[p], Start(p, j) PROVE OutcomeInv'
  <2>0. \A q \in Proc : alone'[q] => q = p /\ \A r \in Proc : pc[r] = "idle"
    BY <1>1 DEF Start
  <2> USE <1>0, <1>1, <2>0 DEF Start, files, TypeInv, TypeOK
  <2>1. SnapOK' BY DEF SnapOK
  <2>2. AloneOK' BY DEF AloneOK
  <2>3. UntouchedOK' BY DEF UntouchedOK, Active
  <2>4. KeptOK' BY DEF KeptOK
  <2>5. InstalledOK' BY DEF InstalledOK, Late
  <2> QED BY <2>1, <2>2, <2>3, <2>4, <2>5
<1>2. ASSUME NEW p \in Proc, Guard(p) PROVE OutcomeInv'
  <2>0. \A q \in Proc : alone[q] => q = p
    BY <1>2, LoneStep DEF Guard
  <2>1. Target(p) \in Snapshot /\ job[p].content \in Content /\ job[p] \in Job
    BY <1>0, <1>2, TargetType DEF Guard
  <2> USE <1>0, <1>2, <2>0, <2>1 DEF Guard, Goto, Finish, files, TypeInv, TypeOK
  <2>2. SnapOK' BY DEF SnapOK, Target
  <2>3. AloneOK' BY DEF AloneOK
  <2>4. UntouchedOK' BY DEF UntouchedOK, Active
  <2>5. KeptOK' BY DEF KeptOK, Kept, UntouchedOK, Active, Target
  <2>6. InstalledOK' BY DEF InstalledOK, Late, MarkerOf, Target
  <2> QED BY <2>2, <2>3, <2>4, <2>5, <2>6
<1>3. ASSUME NEW p \in Proc, WriteSnapshot(p) PROVE OutcomeInv'
  <2>0. \A q \in Proc : alone[q] => q = p
    BY <1>3, LoneStep DEF WriteSnapshot
  <2>1. Target(p) \in Snapshot /\ job[p].content \in Content /\ job[p] \in Job
    BY <1>0, <1>3, TargetType DEF WriteSnapshot
  <2> USE <1>0, <1>3, <2>0, <2>1 DEF WriteSnapshot, Goto, Finish, TypeInv, TypeOK
  <2>2. SnapOK' BY DEF SnapOK, Target
  <2>3. AloneOK' BY DEF AloneOK
  <2>4. UntouchedOK' BY DEF UntouchedOK, Active
  <2>5. KeptOK'
    <3>1. CASE snap' = snap
      BY <3>1 DEF KeptOK, Kept, UntouchedOK, Active, Target
    <3>2. ASSUME snap' = [snap EXCEPT ![Target(p)] = job[p].content], alone[p] PROVE Kept(p)'
      <4>1. CASE current = Target(p)
        <5>1. Active # None /\ SnapOf[Active] = Target(p)
          BY <4>1, KnowledgeAssumption DEF Active, SnapOK, StoreInv, CurrentLoadable
        <5>2. Active' = job[p].content
          BY <3>2, <4>1, KnowledgeAssumption DEF Active
        <5> QED BY <3>2, <5>1, <5>2 DEF Kept, UntouchedOK, Target
      <4>2. CASE current # Target(p)
        <5>1. Active' = Active
          BY <3>2, <4>2 DEF Active
        <5> QED BY <3>2, <5>1 DEF Kept, UntouchedOK, Target
      <4> QED BY <4>1, <4>2
    <3> QED BY <3>1, <3>2 DEF KeptOK
  <2>6. InstalledOK' BY DEF InstalledOK, Late, MarkerOf, Target
  <2> QED BY <2>2, <2>3, <2>4, <2>5, <2>6
<1>4. ASSUME NEW p \in Proc, HashSnapshot(p) PROVE OutcomeInv'
  <2>0. \A q \in Proc : alone[q] => q = p
    BY <1>4, LoneStep DEF HashSnapshot
  <2>1. Target(p) \in Snapshot /\ job[p].content \in Content /\ job[p] \in Job
    BY <1>0, <1>4, TargetType DEF HashSnapshot
  <2> USE <1>0, <1>4, <2>0, <2>1 DEF HashSnapshot, Goto, files, TypeInv, TypeOK
  <2>2. SnapOK' BY DEF SnapOK, Target
  <2>3. AloneOK' BY DEF AloneOK
  <2>4. UntouchedOK' BY DEF UntouchedOK, Active
  <2>5. KeptOK' BY DEF KeptOK, Kept, UntouchedOK, Active, Target
  <2>6. InstalledOK' BY DEF InstalledOK, Late, MarkerOf, Target
  <2> QED BY <2>2, <2>3, <2>4, <2>5, <2>6
<1>5. ASSUME NEW p \in Proc, SaveMarker(p) PROVE OutcomeInv'
  <2>0. \A q \in Proc : alone[q] => q = p
    BY <1>5, LoneStep DEF SaveMarker
  <2>1. Target(p) \in Snapshot /\ job[p].content \in Content /\ job[p] \in Job
    BY <1>0, <1>5, TargetType DEF SaveMarker
  <2> USE <1>0, <1>5, <2>0, <2>1 DEF SaveMarker, Goto, Finish, TypeInv, TypeOK
  <2>2. SnapOK' BY DEF SnapOK, Target
  <2>3. AloneOK' BY DEF AloneOK
  <2>4. UntouchedOK' BY DEF UntouchedOK, Active
  <2>5. KeptOK' BY DEF KeptOK, Kept, Active, Target, WriterOK
  <2>6. InstalledOK' BY DEF InstalledOK, Late, MarkerOf, Target
  <2> QED BY <2>2, <2>3, <2>4, <2>5, <2>6
<1>6. ASSUME NEW p \in Proc, AdvanceCurrent(p) PROVE OutcomeInv'
  <2>0. \A q \in Proc : alone[q] => q = p
    BY <1>6, LoneStep DEF AdvanceCurrent
  <2>1. Target(p) \in Snapshot /\ job[p].content \in Content /\ job[p] \in Job
    BY <1>0, <1>6, TargetType DEF AdvanceCurrent
  <2> USE <1>0, <1>6, <2>0, <2>1 DEF AdvanceCurrent, Goto, Finish, TypeInv, TypeOK
  <2>2. SnapOK' BY DEF SnapOK, Target
  <2>3. AloneOK' BY DEF AloneOK
  <2>4. UntouchedOK' BY DEF UntouchedOK, Active
  <2>5. KeptOK'
    <3>1. job[p].kind \in {"ingest", "pull"}
      BY DEF Job
    <3> QED BY <3>1 DEF KeptOK, Kept, Active, Target
  <2>6. InstalledOK' BY KnowledgeAssumption DEF InstalledOK, Late, MarkerOf, Target
  <2> QED BY <2>2, <2>3, <2>4, <2>5, <2>6
<1>7. ASSUME NEW p \in Proc, ListSnapshots(p) PROVE OutcomeInv'
  <2>0. \A q \in Proc : alone[q] => q = p
    BY <1>7, LoneStep DEF ListSnapshots
  <2>1. Target(p) \in Snapshot /\ job[p].content \in Content /\ job[p] \in Job
    BY <1>0, <1>7, TargetType DEF ListSnapshots
  <2> USE <1>0, <1>7, <2>0, <2>1 DEF ListSnapshots, Goto, files, TypeInv, TypeOK
  <2>2. SnapOK' BY DEF SnapOK, Target
  <2>3. AloneOK' BY DEF AloneOK
  <2>4. UntouchedOK' BY DEF UntouchedOK, Active
  <2>5. KeptOK' BY DEF KeptOK, Kept, UntouchedOK, Active, Target
  <2>6. InstalledOK' BY DEF InstalledOK, Late, MarkerOf, Target
  <2> QED BY <2>2, <2>3, <2>4, <2>5, <2>6
<1>8. ASSUME NEW p \in Proc, PruneSnapshots(p) PROVE OutcomeInv'
  <2>0. \A q \in Proc : alone[q] => q = p
    BY <1>8, LoneStep DEF PruneSnapshots
  <2>1. Target(p) \in Snapshot /\ job[p].content \in Content /\ job[p] \in Job
    BY <1>0, <1>8, TargetType DEF PruneSnapshots
  <2> USE <1>0, <1>8, <2>0, <2>1 DEF PruneSnapshots, Finish, TypeInv, TypeOK
  <2>2. SnapOK' BY DEF SnapOK, Target
  <2>3. AloneOK' BY DEF AloneOK
  <2>4. UntouchedOK' BY DEF UntouchedOK, Active
  <2>5. KeptOK' BY DEF KeptOK, Kept, UntouchedOK, Active, Target
  <2>6. InstalledOK'
    <3>1. pc[p] = "prune" /\ current = Target(p) /\ Target(p) \notin listing[p]
      BY DEF StoreInv, WrittenOK
    <3> QED BY <3>1 DEF InstalledOK, Late, MarkerOf, Target
  <2> QED BY <2>2, <2>3, <2>4, <2>5, <2>6
<1>9. ASSUME NEW p \in Proc, Crash(p) PROVE OutcomeInv'
  <2>0. \A q \in Proc : alone[q] => q = p
    BY <1>9, LoneStep DEF Crash
  <2>1. Target(p) \in Snapshot /\ job[p].content \in Content /\ job[p] \in Job
    BY <1>0, <1>9, TargetType DEF Crash
  <2> USE <1>0, <1>9, <2>0, <2>1 DEF Crash, Finish, files, TypeInv, TypeOK
  <2>2. SnapOK' BY DEF SnapOK, Target
  <2>3. AloneOK' BY DEF AloneOK
  <2>4. UntouchedOK' BY DEF UntouchedOK, Active
  <2>5. KeptOK' BY DEF KeptOK, Kept, UntouchedOK, Active, Target
  <2>6. InstalledOK' BY DEF InstalledOK, Late, MarkerOf, Target
  <2> QED BY <2>2, <2>3, <2>4, <2>5, <2>6
<1>10. CASE LoadKnowledge
  BY <1>0, <1>10, OutcomeFrame DEF LoadKnowledge, CallKnowledge, StatPointer, ReadPointer,
     StatSnapshot, LoadPointer, LoadSnapshot, files, procs
<1>11. CASE DamageMarker
  BY <1>0, <1>11, OutcomeFrame DEF DamageMarker, procs
<1>12. CASE UNCHANGED vars
  BY <1>0, <1>12, OutcomeFrame DEF vars
<1> QED
  BY <1>1, <1>2, <1>3, <1>4, <1>5, <1>6, <1>7, <1>8, <1>9, <1>10, <1>11, <1>12
     DEF Next, Step

\* cmd_knowledge_pull and cmd_knowledge_index, with a single writer: a command that
\* fails or refuses has left the marker and the active store as they were, one that
\* succeeds has its own snapshot active, its marker true and no other snapshot on disk.
THEOREM OutcomeIsTrue ==
  ASSUME OneWriter
  PROVE  Spec => []OutcomeTrue
<1>1. OutcomeInv /\ [Next]_vars => OutcomeInv'
  BY StepOutcome
<1>2. OutcomeInv => OutcomeTrue
  <2> SUFFICES ASSUME OutcomeInv PROVE OutcomeTrue
    OBVIOUS
  <2> USE DEF OutcomeInv, EndedAlone, InstalledOK, Late
  <2>1. FailureKeepsActive BY DEF FailureKeepsActive, KeptOK, Kept
  <2>2. NothingLeaks BY DEF NothingLeaks
  <2>3. ASSUME NEW p \in Proc, EndedAlone(p, "ok"), job[p].kind = "pull"
        PROVE  Active = job[p].content /\ VerifyKnowledgeChecksum # "failed"
    <3>1. current = Target(p) /\ snap[Target(p)] = job[p].content
          /\ hash[p] \in {None, job[p].content} /\ (marker = Corrupt \/ marker = MarkerOf(p))
          /\ current # None
      BY <2>3
    <3> QED BY <3>1 DEF Active, VerifyKnowledgeChecksum, MarkerOf
  <2> QED BY <2>1, <2>2, <2>3 DEF OutcomeTrue, PullInstalls
<1> QED BY InitOutcome, <1>1, <1>2, PTL DEF Spec

------------------------------------------------------------------------------
(* Whose marker a pull may replace. *)

MayClaim(p) ==
  \/ job[p].force \/ prior[p].marker = None
  \/ prior[p].marker # Corrupt /\ prior[p].marker.corpus = job[p].corpus

\* Before the guard the marker is the one the pull found, unless it was damaged; after
\* the guard the pull may replace it.
ClaimOK ==
  \A p \in Proc :
    /\ pc[p] = "guard" => marker \in {prior[p].marker, Corrupt}
    /\ pc[p] \in {"write", "hash", "mark"} /\ job[p].kind = "pull" => MayClaim(p)

ClaimInv == TypeInv /\ ClaimOK

LEMMA StepClaim ==
  ASSUME OneWriter, ClaimInv, [Next]_vars
  PROVE  ClaimInv'
<1> USE DEF ClaimInv
<1>0. TypeInv'
  BY StepType
<1>1. ASSUME NEW p \in Proc, NEW j \in JobsOf[p], Start(p, j) PROVE ClaimOK'
  BY <1>1 DEF Start, ClaimOK, MayClaim, TypeInv, TypeOK, files
<1>2. ASSUME NEW p \in Proc, Guard(p) PROVE ClaimOK'
  <2>1. ASSUME pc'[p] = "write" PROVE MayClaim(p)
    BY <1>2, <2>1, NamesAssumption
       DEF Guard, Unclaimed, ClaimOK, MayClaim, TypeInv, TypeOK, Goto, Finish
  <2> QED BY <1>2, <2>1 DEF Guard, ClaimOK, MayClaim, TypeInv, TypeOK, Goto, Finish, files
<1>3. ASSUME NEW p \in Proc, SaveMarker(p) PROVE ClaimOK'
  <2>1. \A q \in Proc : pc[q] # "idle" => q = p
    BY <1>3, OnlyOneInside DEF SaveMarker
  <2> QED BY <1>3, <2>1 DEF SaveMarker, ClaimOK, MayClaim, TypeInv, TypeOK, Goto, Finish
<1>4. ASSUME NEW p \in Proc, WriteSnapshot(p) PROVE ClaimOK'
  BY <1>4 DEF WriteSnapshot, ClaimOK, MayClaim, TypeInv, TypeOK, Goto, Finish
<1>5. ASSUME NEW p \in Proc, HashSnapshot(p) PROVE ClaimOK'
  BY <1>5 DEF HashSnapshot, ClaimOK, MayClaim, TypeInv, TypeOK, Goto, files
<1>6. ASSUME NEW p \in Proc, AdvanceCurrent(p) PROVE ClaimOK'
  BY <1>6 DEF AdvanceCurrent, ClaimOK, MayClaim, TypeInv, TypeOK, Goto, Finish
<1>7. ASSUME NEW p \in Proc, ListSnapshots(p) PROVE ClaimOK'
  BY <1>7 DEF ListSnapshots, ClaimOK, MayClaim, TypeInv, TypeOK, Goto, files
<1>8. ASSUME NEW p \in Proc, PruneSnapshots(p) PROVE ClaimOK'
  BY <1>8 DEF PruneSnapshots, ClaimOK, MayClaim, TypeInv, TypeOK, Finish
<1>9. ASSUME NEW p \in Proc, Crash(p) PROVE ClaimOK'
  BY <1>9 DEF Crash, ClaimOK, MayClaim, TypeInv, TypeOK, Finish, files
<1>10. ASSUME UNCHANGED <<pc, job, prior>>, marker' = marker \/ marker' = Corrupt PROVE ClaimOK'
  BY <1>10 DEF ClaimOK, MayClaim
<1>11. CASE LoadKnowledge
  BY <1>0, <1>10, <1>11 DEF LoadKnowledge, CallKnowledge, StatPointer, ReadPointer, StatSnapshot,
     LoadPointer, LoadSnapshot, files, procs
<1>12. CASE DamageMarker
  BY <1>0, <1>10, <1>12 DEF DamageMarker, procs
<1>13. CASE UNCHANGED vars
  BY <1>0, <1>10, <1>13 DEF vars
<1> QED
  BY <1>0, <1>1, <1>2, <1>3, <1>4, <1>5, <1>6, <1>7, <1>8, <1>9, <1>11, <1>12, <1>13
     DEF Next, Step

\* cmd_knowledge_pull, with a single writer: without --force no pull takes over a root
\* that another corpus, or a marker it cannot read, claims.
THEOREM CorpusIsKept ==
  ASSUME OneWriter
  PROVE  Spec => CorpusStays
<1>1. Init => ClaimInv
  BY InitType DEF Init, ClaimInv, ClaimOK
<1>2. ClaimInv /\ [Next]_vars => ClaimInv'
  BY StepClaim
<1>3. ClaimInv /\ [Next]_vars
      => [\A p \in Proc : pc[p] = "mark" /\ marker' # marker =>
            \/ job[p].force \/ prior[p].marker = None
            \/ prior[p].marker # Corrupt /\ prior[p].marker.corpus = job[p].corpus]_vars
  BY DEF ClaimInv, ClaimOK, MayClaim, TypeInv, WriterOK
<1> QED BY <1>1, <1>2, <1>3, PTL DEF Spec, CorpusStays
=============================================================================
