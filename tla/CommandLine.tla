---------------------------- MODULE CommandLine ----------------------------
(***************************************************************************)
(* The command line (src/main.rs): which flags of the commands that push,  *)
(* pull, verify and measure go together and which are read, and the choice *)
(* of the embedding backend by the commands that index and search.         *)
(***************************************************************************)
EXTENDS Integers, Sequences, FiniteSets, Inputs

CONSTANT Fleet         \* the members of the workspace, in the manifest's order
FleetSet == {Fleet[i] : i \in 1..Len(Fleet)}
ASSUME FleetAssumption == Fleet \in Seq(FleetSet)

(***************************************************************************)
(* Flags of the commands in which a flag left unread would change what is  *)
(* pushed, pulled, verified or measured.  A command has its flags, pairs   *)
(* that exclude each other and pairs <<a, b>> where a needs b.             *)
(***************************************************************************)
Takes(flags, conflicts, requires) == [flags |-> flags, conflicts |-> conflicts, requires |-> requires]

RelevanceFlags ==
  Takes({"dir", "store", "backend", "compare", "json"}, {<<"store", "dir">>, <<"compare", "backend">>}, {})
AllNeeds == {<<"all", "into">>, <<"into", "all">>, <<"remote", "all">>, <<"corpus", "all">>}
PullFlags ==
  Takes({"commit", "latest", "ref", "force", "workspace", "all", "into", "remote", "corpus", "dir"},
        {<<"latest", "commit">>} \cup {<<"all", f>> : f \in {"commit", "latest", "force", "workspace", "dir", "ref"}},
        AllNeeds \cup {<<"ref", "latest">>})
FlagTable ==
  [push      |-> Takes({"commit", "workspace", "dir"}, {<<"commit", "workspace">>}, {}),
   pull      |-> PullFlags,
   verify    |-> Takes({"commit", "checksum_only", "dir"}, {<<"checksum_only", "commit">>}, {}),
   relevance |-> RelevanceFlags]

\* What clap lets through.
Accepted(cmd, given) ==
  /\ \A c \in FlagTable[cmd].conflicts : ~({c[1], c[2]} \subseteq given)
  /\ \A r \in FlagTable[cmd].requires : r[1] \in given => r[2] \in given

\* The first of two flags that is given; the other has no say.
FirstOf(a, b, given) == IF a \in given THEN {a} ELSE given \cap {b}
\* The flags that reach the work: resolve_pull_sha looks at a ref only for --latest,
\* pull --all at nothing but its own flags.
CmdSync(cmd, given) ==
  CASE cmd = "push" -> IF "workspace" \in given THEN given \ {"commit"} ELSE given
    [] cmd = "pull" -> IF "all" \in given THEN given \cap {"all", "into", "remote", "corpus"}
                       ELSE FirstOf("latest", "commit", given) \cup (given \cap {"force", "workspace", "dir"})
                            \cup (IF "latest" \in given THEN given \cap {"ref"} ELSE {})
    [] OTHER -> IF "checksum_only" \in given THEN given \ {"commit"} ELSE given
CmdRelevance(given) ==
  FirstOf("store", "dir", given) \cup FirstOf("compare", "backend", given) \cup (given \cap {"json"})
Used(cmd, given) == IF cmd = "relevance" THEN CmdRelevance(given) ELSE CmdSync(cmd, given)

-----------------------------------------------------------------------------
(***************************************************************************)
(* Embedding backends.  A store is as good as the backend its vectors are  *)
(* from.  `steps` is how often Ollama answers during a command: the health *)
(* check, then each member that is embedded, or the query.                 *)
(***************************************************************************)
NotIndexed == "none"
Refuse == "refused"

BuildEmbedder(kind, steps) == IF kind = "ollama" /\ steps = 0 THEN Refuse ELSE kind
\* try_embed fails the build of the i-th member; nothing is saved for it.
Built(kind, steps, i) == kind = "hash" \/ steps > i

\* A state: the backend of each store, whether the graph is there, and the last exit.
CmdIndex(st, m, kind, steps) ==
  IF BuildEmbedder(kind, steps) = Refuse \/ ~Built(kind, steps, 1) THEN [st EXCEPT !.exit = 1]
  ELSE [st EXCEPT !.stores[m] = kind, !.exit = 0]
\* Members are saved one by one: a failure leaves the earlier ones rebuilt. The graph comes last.
CmdIndexWorkspace(st, kind, steps) ==
  IF ~st.manifest \/ BuildEmbedder(kind, steps) = Refuse THEN [st EXCEPT !.exit = 1]
  ELSE LET done == {i \in 1..Len(Fleet) : Built(kind, steps, i)}
           all == done = 1..Len(Fleet)
       IN [st EXCEPT !.stores = [m \in FleetSet |-> IF \E i \in done : Fleet[i] = m THEN kind ELSE st.stores[m]],
                     !.graph = @ \/ all, !.exit = IF all THEN 0 ELSE 1]
\* An existing manifest needs --force; a root without members has nothing to write.
CmdWorkspaceInit(st, force, members) ==
  IF (st.manifest /\ ~force) \/ members = 0 THEN [st EXCEPT !.exit = 1]
  ELSE [st EXCEPT !.manifest = TRUE, !.exit = 0]

Act(st, c) ==
  CASE c.cmd = "index" -> CmdIndex(st, c.member, c.kind, c.steps)
    [] c.cmd = "index_workspace" -> CmdIndexWorkspace(st, c.kind, c.steps)
    [] OTHER -> CmdWorkspaceInit(st, c.force, c.members)
NothingIndexed == [stores |-> [m \in FleetSet |-> NotIndexed], graph |-> FALSE, manifest |-> FALSE, exit |-> 0]
\* The state after the first n commands.
After(cmds) == LET at[n \in 0..Len(cmds)] == IF n = 0 THEN NothingIndexed ELSE Act(at[n - 1], cmds[n]) IN at[Len(cmds)]

FallBackToHash(backends, steps) == IF "ollama" \in backends /\ steps > 0 THEN "ollama" ELSE "hash"
\* The backend of the query: Ollama if a store to be searched was built with it.
QueryEmbedder(backends, steps) ==
  IF "ollama" \notin backends THEN "hash" ELSE IF steps = 0 THEN Refuse ELSE "ollama"
\* What the query is compared with: a query that Ollama fails to embed is an empty vector.
Compared(query, backends, steps) ==
  IF query = "ollama" /\ steps < 2 THEN {} ELSE {<<query, b>> : b \in backends}

Searched(exit, pairs) == [exit |-> exit, pairs |-> pairs]
SearchOver(loaded, steps, down) ==
  LET query == QueryEmbedder(loaded, steps)
  IN IF NotIndexed \in loaded THEN Searched(1, {})
     ELSE IF query = Refuse THEN Searched(down, {}) ELSE Searched(0, Compared(query, loaded, steps))
CmdSearch(st, m, steps) == SearchOver({st.stores[m]}, steps, 1)
CmdSearchWorkspace(st, scope, steps) ==
  IF ~st.manifest THEN Searched(1, {}) ELSE SearchOver({st.stores[m] : m \in scope}, steps, 1)
\* The MCP tool answers by keywords alone, with a notice, where the commands refuse.
PickEmbedder(st, scope, steps) == SearchOver({st.stores[m] : m \in scope}, steps, 0)

-----------------------------------------------------------------------------
FlagInputs == UNION {{[of |-> "flags", cmd |-> c, given |-> g] : g \in SUBSET FlagTable[c].flags} : c \in DOMAIN FlagTable}

IndexCommands ==
  [cmd : {"index"}, member : FleetSet, kind : {"ollama"}, steps : 0..2] \cup
  [cmd : {"index"}, member : FleetSet, kind : {"hash"}, steps : {0}] \cup
  [cmd : {"index_workspace"}, kind : {"ollama"}, steps : 0..3] \cup
  [cmd : {"index_workspace"}, kind : {"hash"}, steps : {0}]
Inits == [cmd : {"init"}, force : BOOLEAN, members : {0, 2}]
BackendInputs ==
  [of : {"backend"}, cmds : {<<i, a, b>> : i \in Inits, a \in IndexCommands \cup Inits, b \in IndexCommands}, steps : 0..2]

-----------------------------------------------------------------------------
(* Properties.                                                             *)

\* What clap turns away of `sync push`, `pull`, `verify` and `relevance` is just what the
\* dispatch would half ignore: every flag let through is read, and a combination is refused
\* because one of its flags would not be, or because --all has no directory to fill.
FlagsExact ==
  For("flags") =>
    (Accepted(input.cmd, input.given) <=>
       Used(input.cmd, input.given) = input.given /\ ("all" \in input.given => "into" \in input.given))

Crossed(pairs) == \E p \in pairs : p[1] # p[2]
\* Whatever index runs came before, whole or cut short by Ollama going away, a search of one
\* store, from the command line, as a workspace of one or by the MCP tool, compares the query
\* with vectors of its own backend or with none, with Ollama up, down, or gone after the check.
OneStoreOneSpace ==
  For("backend") => LET st == After(input.cmds) IN
    \A m \in FleetSet : /\ ~ Crossed(CmdSearch(st, m, input.steps).pairs)
                        /\ ~ Crossed(PickEmbedder(st, {m}, input.steps).pairs)
                        /\ ~ Crossed(CmdSearchWorkspace(st, {m}, input.steps).pairs)
\* A search of several members never compares a hash query with Ollama's vectors. It does
\* compare an Ollama query with hash vectors, namely whenever Ollama answers and the members
\* searched were built by both backends: the check asks only whether any of them is Ollama's.
MixedIsCrossed ==
  For("backend") => LET st == After(input.cmds) IN
    \A scope \in SUBSET FleetSet :
      LET mixed == {st.stores[m] : m \in scope} = {"hash", "ollama"} /\ input.steps >= 2
          listed == CmdSearchWorkspace(st, scope, input.steps).pairs
          told == PickEmbedder(st, scope, input.steps).pairs
      IN /\ <<"hash", "ollama">> \notin listed \cup told
         /\ Crossed(listed) <=> st.manifest /\ mixed
         /\ Crossed(told) <=> mixed
\* An index run of the whole workspace that succeeds leaves every member of one backend.
FullIndexUnmixes ==
  For("backend") => LET st == After(input.cmds) IN
    input.cmds[Len(input.cmds)].cmd = "index_workspace" /\ st.exit = 0 =>
      st.graph /\ \A m, n \in FleetSet : st.stores[m] = st.stores[n]

\* The flags of push, pull, verify and relevance are read or refused, and two backends meet
\* in a comparison in mixed workspaces only.
CommandLineSound == FlagsExact /\ OneStoreOneSpace /\ MixedIsCrossed /\ FullIndexUnmixes
============================================================================
