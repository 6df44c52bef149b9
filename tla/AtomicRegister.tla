--------------------------- MODULE AtomicRegister ---------------------------
(***************************************************************************)
(* What every store of cce expects of a file it writes with atomic_write:  *)
(* a write takes effect in one step between its call and its return, or    *)
(* not at all; one that fails had none.  A power loss may bring back an    *)
(* earlier value, never a mixture.                                         *)
(***************************************************************************)
CONSTANTS Thread, Content, NoContent

VARIABLES value,  \* the file's content
          past,   \* contents it has had
          call    \* call[t]: what t is writing and whether that took effect

regVars == <<value, past, call>>
NoCall == [v |-> NoContent, done |-> FALSE]

Init == value \in Content \cup {NoContent} /\ past = {value} /\ call = [t \in Thread |-> NoCall]

Call(t, v) ==
  call[t] = NoCall /\ call' = [call EXCEPT ![t] = [v |-> v, done |-> FALSE]] /\ UNCHANGED <<value, past>>
Commit(t) ==
  /\ call[t] # NoCall /\ ~call[t].done
  /\ value' = call[t].v /\ past' = past \cup {call[t].v}
  /\ call' = [call EXCEPT ![t].done = TRUE]
\* Ok after the effect; an error or a kill before or after it.
Return(t) ==
  call[t] # NoCall /\ call' = [call EXCEPT ![t] = NoCall] /\ UNCHANGED <<value, past>>
\* A killed process takes all its threads with it.
Kill(ts) ==
  call' = [t \in Thread |-> IF t \in ts THEN NoCall ELSE call[t]] /\ UNCHANGED <<value, past>>
PowerLoss == value' \in past /\ past' = past /\ call' = [t \in Thread |-> NoCall]

Next == \/ \E t \in Thread : (\E v \in Content : Call(t, v)) \/ Commit(t) \/ Return(t)
        \/ \E ts \in SUBSET Thread : Kill(ts)
        \/ PowerLoss
Spec == Init /\ [][Next]_regVars
=============================================================================
