------------------------------ MODULE GitCache ------------------------------
(***************************************************************************)
(* What the sync cache promises its callers, independently of git: a map   *)
(* from keys to whole files that writers update by publishing batches.     *)
(* Every key is whole-file last-writer-wins; a batch changes only what its *)
(* own machine was asked to write; `.gitattributes` lines only accumulate. *)
(* Module GitRemote (src/sync/remote.rs) is shown to implement it.         *)
(***************************************************************************)
CONSTANTS Clone,     \* the machines (working clones) that publish
          Key,       \* the paths of the cache
          AttrsKey,  \* the path of .gitattributes, whose value is a set of lines
          Val,       \* the contents a writer may ask for
          Absent     \* "no file at this key"

VARIABLES tree,      \* what the cache branch holds: [Key -> value or Absent]
          asked      \* asked[c]: the <<key, value>> pairs machine c was asked to write

vars == <<tree, asked>>

\* The lines of a .gitattributes file; an absent file has none.
Lines(content) == IF content = Absent THEN {} ELSE content

\* One key of a batch published by machine c may go from `old` to `new`.
MayBecome(c, k, old, new) ==
  IF k = AttrsKey
  THEN \E added \in SUBSET {r[2] : r \in {q \in asked[c] : q[1] = AttrsKey}} :
          new = Lines(old) \cup added
  ELSE <<k, new>> \in asked[c]

Init == /\ tree = [k \in Key |-> Absent]
        /\ asked = [c \in Clone |-> {}]

\* A caller on machine c asks for some keys to be written (or removed).
Ask(c) == /\ asked' = [asked EXCEPT ![c] = asked'[c]]
          /\ asked[c] \subseteq asked'[c]
          /\ asked'[c] \subseteq Key \X (Val \cup {Absent})
          /\ UNCHANGED tree

\* The cache branch moves in one step, on behalf of machine c.
Publish(c) == /\ tree' \in [Key -> {Absent} \cup Val \cup SUBSET Val]
              /\ \A k \in Key : \/ tree'[k] = tree[k]
                                \/ MayBecome(c, k, tree[k], tree'[k])
              /\ UNCHANGED asked

Next == \E c \in Clone : Ask(c) \/ Publish(c)

Spec == Init /\ [][Next]_vars
=============================================================================
