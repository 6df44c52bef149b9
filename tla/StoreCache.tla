----------------------------- MODULE StoreCache -----------------------------
(***************************************************************************)
(* The index caches of the MCP server: load_index for a single repository   *)
(* and workspace_bundle for a federated one.  A call stats the store files  *)
(* it depends on, one by one, serves the cached index when the stats are the*)
(* ones it was cached under, and otherwise loads the files, one by one,     *)
(* while `cce index`, `cce sync pull` and the user replace, damage and      *)
(* delete them.                                                             *)
(*                                                                         *)
(* The server handles one call at a time.  It walks the members in manifest *)
(* order; here the order is left open.  A stat is a (mtime, length) pair,   *)
(* and no two versions of one file are assumed to share it.                 *)
(***************************************************************************)
EXTENDS Naturals

CONSTANTS Member,      \* store files; one for a single-repository server
          Scope,       \* cache keys: the index, the workspace, a --package list
          MembersOf,   \* MembersOf[s]: the members of scope s
          Content,     \* what a readable store holds
          Bad,         \* a store that does not parse
          None,        \* no file, no stat, no cache entry
          Stamp,       \* the (mtime, length) pairs a stat can return
          Federated    \* the scopes of workspace_bundle; the others are load_index

ASSUME StoreCacheAssumption ==
  /\ MembersOf \in [Scope -> SUBSET Member \ {{}}]
  /\ Bad \notin Content /\ None \notin Content \cup {Bad}
  /\ None \notin Stamp /\ None \notin Scope
  /\ Federated \subseteq Scope

VARIABLES file,     \* file[m]: content of member m's store
          stamp,    \* stamp[m]: its stat
          used,     \* used[m]: every stat member m's store ever had
          cache,    \* cache[s]: [fp, data] or None
          pc,       \* "idle", "stat", "compare", "load"
          scope,    \* the scope of the call
          todo,     \* members the current loop has still to visit
          fp,       \* fp[m]: the stat this call took of member m
          probed,   \* every store had a stat
          data,     \* data[m]: what this call loaded from member m
          answer,   \* what the last call returned: [Member -> Content], or None
          seen      \* history: seen[m], what member m held since the call began

disk == <<file, stamp, used>>
vars == <<file, stamp, used, cache, pc, scope, todo, fp, probed, data, answer, seen>>

Nothing == [m \in Member |-> None]

------------------------------------------------------------------------------
(* One call of the server. *)

Call(s) ==
  /\ pc = "idle"
  /\ pc' = "stat" /\ scope' = s /\ todo' = MembersOf[s]
  /\ fp' = Nothing /\ probed' = TRUE /\ data' = Nothing /\ answer' = None
  /\ seen' = [m \in Member |-> {file[m]}]
  /\ UNCHANGED <<disk, cache>>

\* file_fingerprint: a missing store means no fingerprint, and drops the entry.
FileFingerprint(m) ==
  /\ pc = "stat" /\ m \in todo
  /\ \/ /\ file[m] # None
        /\ fp' = [fp EXCEPT ![m] = stamp[m]]
        /\ todo' = todo \ {m}
        /\ pc' = IF todo = {m} THEN "compare" ELSE "stat"
        /\ UNCHANGED <<cache, probed>>
     \/ /\ file[m] = None
        /\ probed' = FALSE
        /\ cache' = [cache EXCEPT ![scope] = None]
        /\ todo' = MembersOf[scope] /\ pc' = "load"
        /\ UNCHANGED fp
  /\ UNCHANGED <<disk, scope, data, answer, seen>>

\* Mutant: whatever is cached is served.
HitAnyEntry == cache[scope] # None
\* The stats are the ones the entry was cached under.
Hit == cache[scope] # None /\ cache[scope].fp = fp

\* An unchanged fingerprint reuses the cached index.
Compare ==
  /\ pc = "compare"
  /\ \/ Hit /\ answer' = cache[scope].data /\ pc' = "idle" /\ UNCHANGED todo
     \/ ~Hit /\ pc' = "load" /\ todo' = MembersOf[scope] /\ UNCHANGED answer
  /\ UNCHANGED <<disk, cache, scope, fp, probed, data, seen>>

\* Mutant: the entry is stamped with the stats at the end of the load.
RestatEntry(d) == [cache EXCEPT ![scope] =
   [fp |-> [m \in Member |-> IF m \in MembersOf[scope] THEN stamp[m] ELSE None], data |-> d]]

\* The entry is stored under the stats taken before the load, if there were any.
StoreEntry(d) == IF probed THEN [cache EXCEPT ![scope] = [fp |-> fp, data |-> d]] ELSE cache


\* Index::load of one member; an error ends the call, and drops the entry of
\* load_index but not that of workspace_bundle.
LoadMember(m) ==
  /\ pc = "load" /\ m \in todo
  /\ LET d == [data EXCEPT ![m] = file[m]] IN
     \/ /\ file[m] \in Content
        /\ data' = d /\ todo' = todo \ {m}
        /\ IF todo = {m} THEN pc' = "idle" /\ answer' = d /\ cache' = StoreEntry(d)
                         ELSE UNCHANGED <<pc, answer, cache>>
     \/ /\ file[m] \notin Content
        /\ pc' = "idle"
        /\ cache' = IF scope \in Federated THEN cache ELSE [cache EXCEPT ![scope] = None]
        /\ UNCHANGED <<data, todo, answer>>
  /\ UNCHANGED <<disk, scope, fp, probed, seen>>

------------------------------------------------------------------------------
(* The writers of the stores: each replaces a file by a rename. *)

Seen(m, c) == seen' = [seen EXCEPT ![m] = @ \cup {c}]

Replace(m, c) == \E t \in Stamp \ used[m] :
  /\ file' = [file EXCEPT ![m] = c]
  /\ stamp' = [stamp EXCEPT ![m] = t]
  /\ used' = [used EXCEPT ![m] = @ \cup {t}]
  /\ Seen(m, c)
  /\ UNCHANGED <<cache, pc, scope, todo, fp, probed, data, answer>>

Delete(m) ==
  /\ file[m] # None
  /\ file' = [file EXCEPT ![m] = None]
  /\ Seen(m, None)
  /\ UNCHANGED <<stamp, used, cache, pc, scope, todo, fp, probed, data, answer>>

Init ==
  /\ file = Nothing /\ stamp = Nothing
  /\ used = [m \in Member |-> {}]
  /\ cache = [s \in Scope |-> None]
  /\ pc = "idle" /\ scope = None /\ todo = {}
  /\ fp = Nothing /\ probed = FALSE /\ data = Nothing /\ answer = None
  /\ seen = [m \in Member |-> {}]

Next == \/ \E s \in Scope : Call(s)
        \/ Compare
        \/ \E m \in Member : \/ FileFingerprint(m) \/ LoadMember(m) \/ Delete(m)
                             \/ \E c \in Content \cup {Bad} : Replace(m, c)

Spec == Init /\ [][Next]_vars

------------------------------------------------------------------------------
(* Properties. *)

Entry == [fp : [Member -> Stamp \cup {None}], data : [Member -> Content \cup {None}]]

\* The disk, the cache and the call are well formed.
TypeOK ==
  /\ file \in [Member -> Content \cup {Bad, None}]
  /\ stamp \in [Member -> Stamp \cup {None}]
  /\ used \in [Member -> SUBSET Stamp]
  /\ cache \in [Scope -> Entry \cup {None}]
  /\ pc \in {"idle", "stat", "compare", "load"}
  /\ scope \in Scope \cup {None} /\ (pc # "idle" => scope \in Scope)
  /\ todo \in SUBSET Member
  /\ fp \in [Member -> Stamp \cup {None}]
  /\ probed \in BOOLEAN
  /\ data \in [Member -> Content \cup {None}]
  /\ answer \in [Member -> Content \cup {None}] \cup {None}
  /\ seen \in [Member -> SUBSET (Content \cup {Bad, None})]

\* "Never a stale cached answer" (docs/mcp.md, load_index, workspace_bundle): what
\* a call returns of each member is what its store held at some moment of that very
\* call, even when stores are replaced or deleted between any two of its steps.
NeverStale ==
  pc = "idle" /\ answer # None =>
     \A m \in MembersOf[scope] : answer[m] \in Content /\ answer[m] \in seen[m]

\* "Picked up on the very next call": an entry that the next call would still hit
\* is exactly what is on disk now.
EntryMatchesDisk ==
  \A s \in Scope : cache[s] # None =>
     \A m \in MembersOf[s] : file[m] # None /\ cache[s].fp[m] = stamp[m]
                             => cache[s].data[m] = file[m]
=============================================================================
