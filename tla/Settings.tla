------------------------------ MODULE Settings ------------------------------
(***************************************************************************)
(* The settings of a project (src/config.rs, src/sync/config.rs) and the   *)
(* two commands that write into the user's files: `cce sync init`          *)
(* (src/sync/commands.rs) and `cce init` (src/mcp/init.rs).                *)
(*                                                                         *)
(* .cce/config is one YAML file: here the values it gives to the keys      *)
(* named by section and key.  Every loader reads that file by itself and   *)
(* takes its own section only, so a value of the wrong type costs the      *)
(* section it stands in, and a file that is no YAML costs all.             *)
(***************************************************************************)
EXTENDS Integers, SequencesExt, FiniteSetsExt, Collections, Inputs

\* A value with its YAML type; a list or a map is of no use to any key.
Str(s) == [t |-> "str", v |-> s]
Bool(b) == [t |-> "bool", v |-> b]
Num(n) == [t |-> "int", v |-> n]
ListValue == [t |-> "list", v |-> "list"]
Unset == ""                    \* a text that says nothing
\* Each key: its section, the types its field takes (a plain scalar is also a string),
\* what its loader makes of a value it can read, and its default.
Texts == {"str", "bool", "int"}
Keys == [detail |-> [section |-> "retrieval", types |-> Texts], level |-> [section |-> "output", types |-> Texts],
         memory |-> [section |-> "memory", types |-> {"bool"}], auto_tokens |-> [section |-> "summarization", types |-> {"int"}],
         footer |-> [section |-> "mcp", types |-> Texts \cup {"list"}], section_tokens |-> [section |-> "markdown", types |-> {"int"}],
         knowledge |-> [section |-> "knowledge", types |-> {"bool"}], source |-> [section |-> "knowledge", types |-> Texts],
         remote |-> [section |-> "sync", types |-> Texts], lfs |-> [section |-> "sync", types |-> {"bool"}],
         repo_id |-> [section |-> "sync", types |-> Texts], ref |-> [section |-> "sync", types |-> Texts],
         retention |-> [section |-> "sync", types |-> Texts], corpus_id |-> [section |-> "knowledge.sync", types |-> Texts]]
OfSection(sec) == {k \in DOMAIN Keys : Keys[k].section = sec}
\* The keys of a section, if the file is YAML and every field of the section has its type.
Typed(file, sec) == \A k \in DOMAIN file.at \cap OfSection(sec) : file.at[k].t \in Keys[k].types
Raw(file, sec) ==
  IF ~ file.yaml \/ ~ Typed(file, sec) THEN [ok |-> FALSE, at |-> <<>>]
  ELSE [ok |-> TRUE, at |-> [k \in DOMAIN file.at \cap OfSection(sec) |-> file.at[k].v]]
\* A key's value where the file has one that `good` accepts, else the default.
Setting(file, sec, key, default, good(_)) ==
  LET raw == Raw(file, sec).at IN IF key \in DOMAIN raw /\ good(raw[key]) THEN raw[key] ELSE default

RetrievalConfig(file) == Setting(file, "retrieval", "detail", "compact", LAMBDA v : v \in {"full", "compact", "signature"})
OutputConfig(file) == Setting(file, "output", "level", "standard", LAMBDA v : v \in {"off", "lite", "standard", "max"})
MemoryConfig(file) == Setting(file, "memory", "memory", TRUE, LAMBDA v : TRUE)
SummarizationConfig(file) == Setting(file, "summarization", "auto_tokens", -1, LAMBDA v : TRUE)
\* YAML's own true and false mean on and off; a list means nothing.
McpConfig(file) ==
  LET raw == Raw(file, "mcp").at
      mode == IF "footer" \notin DOMAIN raw THEN "none"
              ELSE CASE file.at["footer"].t = "bool" -> IF raw["footer"] THEN "on" ELSE "off"
                     [] file.at["footer"].t = "str" -> raw["footer"]
                     [] OTHER -> "none"
  IN IF mode \in {"on", "true"} THEN "on" ELSE IF mode = "session" THEN "session" ELSE "off"
MarkdownConfig(file) == Setting(file, "markdown", "section_tokens", 400, LAMBDA v : v > 0)
KnowledgeConfig(file) == [enabled |-> Setting(file, "knowledge", "knowledge", TRUE, LAMBDA v : TRUE),
                          source |-> Setting(file, "knowledge", "source", "both", LAMBDA v : v \in {"code", "knowledge", "both"})]
\* knowledge.sync is read by itself: what the section above holds beside it does not matter.
KnowledgeSyncConfig(file) == Setting(file, "knowledge.sync", "corpus_id", Unset, LAMBDA v : v # Unset)

-----------------------------------------------------------------------------
(* The sync section: the project's file, then the user's global one.       *)

ParseRetention(s) == IF s \in {"keep-last-0", "keep-last-2"} THEN s ELSE "all"
SyncDefault == [remote |-> Unset, lfs |-> TRUE, repo_id |-> Unset, ref |-> Unset, retention |-> "all"]
\* An error when the file or its sync section does not parse; an empty text is no value.
SyncOf(raw) ==
  [ok |-> raw.ok,
   cfg |-> [k \in DOMAIN SyncDefault |->
              CASE k \notin DOMAIN raw.at -> SyncDefault[k]
                [] k \in DOMAIN raw.at /\ k = "retention" -> ParseRetention(raw.at[k])
                [] OTHER -> raw.at[k]]]
SyncFromYaml(file) == SyncOf(Raw(file, "sync"))
\* remote and repo_id are written even when absent (as null), ref only when set.
SyncToYaml(cfg) == [k \in {"remote", "repo_id", "lfs", "retention"} \cup (IF cfg.ref = Unset THEN {} ELSE {"ref"}) |->
                      IF k = "lfs" THEN Bool(cfg[k]) ELSE Str(cfg[k])]
\* A malformed project file means no sync at all, whatever the global one says; a project
\* file without a remote borrows the global remote and nothing else.
Merged(project, global) == IF global.ok /\ project.cfg.remote = Unset THEN [project.cfg EXCEPT !.remote = global.cfg.remote] ELSE project.cfg
NotThere(file) == ~ file.there
LoadFrom(p, g, none) ==
  IF none THEN (IF g.ok THEN g.cfg ELSE SyncDefault)
  ELSE IF ~ p.ok THEN SyncDefault
  ELSE Merged(p, g)
SyncLoad(project, global) ==
  LoadFrom(SyncFromYaml(project), IF NotThere(global) THEN [ok |-> FALSE] ELSE SyncFromYaml(global), NotThere(project))
\* The save writes the sync section and nothing else: the file is written whole.
SyncSave(cfg) == [there |-> TRUE, yaml |-> TRUE, at |-> SyncToYaml(cfg)]
\* cce sync init: the new settings are saved before the remote is opened.
Settled(old, url, lfs, id, origin) ==
  [old EXCEPT !.remote = url, !.lfs = lfs,
              !.repo_id = IF id # Unset THEN id ELSE IF old.repo_id # Unset THEN old.repo_id ELSE origin]
SyncInit(project, global, url, lfs, id, origin) == SyncSave(Settled(SyncLoad(project, global), url, lfs, id, origin))

\* What `sync init` settles is what every later command reads, whatever the project's and
\* the user's files said or failed to say before: the remote and the LFS choice asked for,
\* and the ref, retention and repo id that held until then.
SyncInitSettles ==
  For("config") =>
    \A before \in {SyncLoad(input.file, input.global)},
       saved \in {SyncInit(input.file, input.global, "url2", FALSE, input.id, "origin")} :
      \A after \in {SyncLoad(saved, input.global)} :
        /\ after.remote = "url2" /\ ~ after.lfs
        /\ after.ref = before.ref /\ after.retention = before.retention
        /\ after.repo_id = IF input.id # Unset THEN input.id ELSE IF before.repo_id # Unset THEN before.repo_id ELSE "origin"
        /\ SyncLoad(saved, [there |-> FALSE]) = after
\* And what it costs: the file is written whole, so whatever it said outside its sync
\* section is lost, and every other loader is back at its defaults.
SyncInitDropsTheRest ==
  For("config") =>
    \A saved \in {SyncInit(input.file, input.global, "url2", FALSE, input.id, "origin")},
       empty \in {[there |-> TRUE, yaml |-> TRUE, at |-> <<>>]} :
      /\ RetrievalConfig(saved) = RetrievalConfig(empty) /\ OutputConfig(saved) = OutputConfig(empty)
      /\ MemoryConfig(saved) = MemoryConfig(empty) /\ SummarizationConfig(saved) = SummarizationConfig(empty)
      /\ McpConfig(saved) = McpConfig(empty) /\ MarkdownConfig(saved) = MarkdownConfig(empty)
      /\ KnowledgeConfig(saved) = KnowledgeConfig(empty) /\ KnowledgeSyncConfig(saved) = KnowledgeSyncConfig(empty)

-----------------------------------------------------------------------------
(* cce init.  A text file is its lines and whether the last one ends; a    *)
(* line of CLAUDE.md is one of the two markers, a mention of one inside    *)
(* other text, a line of the block for a level, a blank or the user's.     *)

TextFile(lines, nl) == [state |-> "text", lines |-> lines, nl |-> nl]
Blank == ""
NoTextFile == [state |-> "absent", lines |-> <<>>, nl |-> FALSE]
ClaudeBlock(level) == <<"begin", level, "end">>
MentionsMarker(line, word) == line \in {word, IF word = "begin" THEN "see-begin" ELSE "see-end"}
IsMarker(line, word) == line = word
MarkerLineOffsets(lines, word) == {i \in DOMAIN lines : IsMarker(lines[i], word)}
\* The guidance file: without markers the block goes to the end, one pair in order is
\* replaced in place, anything else is refused and left as it is.
Refuses(f) == [ok |-> FALSE, file |-> f]
ReplaceBlock(f, begins, ends, level) ==
  CASE begins = {} /\ ends = {} -> [ok |-> TRUE, file |-> TextFile(f.lines \o <<Blank>> \o ClaudeBlock(level), TRUE)]
    [] Cardinality(begins) = 1 /\ Cardinality(ends) = 1 /\ Max(begins) < Max(ends) ->
         [ok |-> TRUE, file |-> TextFile(SubSeq(f.lines, 1, Max(begins) - 1) \o ClaudeBlock(level)
                                           \o SubSeq(f.lines, Max(ends) + 1, Len(f.lines)), f.nl)]
    [] OTHER -> Refuses(f)
WriteClaudeMd(f, level) ==
  CASE f.state = "absent" -> [ok |-> TRUE, file |-> TextFile(<<"title", Blank>> \o ClaudeBlock(level), TRUE)]
    [] f.state = "unreadable" -> Refuses(f)
    [] OTHER -> ReplaceBlock(f, MarkerLineOffsets(f.lines, "begin"), MarkerLineOffsets(f.lines, "end"), level)
\* .mcp.json: an object whose mcpServers is an object (or absent) gets the entry `cce`;
\* the rest of the file stays.
McpEntry(workspace) == IF workspace THEN "mcp --workspace" ELSE "mcp --dir ."
WriteMcpJson(f, workspace) ==
  IF f.state \in {"unreadable", "invalid", "not-object", "servers-not-object"} THEN [ok |-> FALSE, file |-> f]
  ELSE [ok |-> TRUE, file |-> [state |-> "object",
                               servers |-> [s \in DOMAIN f.servers \cup {"cce"} |-> IF s = "cce" THEN McpEntry(workspace) ELSE f.servers[s]]]]
\* .gitignore, in a git checkout only; written unless one of the usual spellings is there.
GitignoreBlock == <<"comment", ".cce/*", "!.cce/workspace.yml">>
EnsureCceGitignored(git, f) ==
  IF ~ git THEN [ok |-> TRUE, file |-> f]
  ELSE IF f.state = "unreadable" THEN [ok |-> FALSE, file |-> f]
  ELSE IF \E i \in DOMAIN f.lines : f.lines[i] \in {".cce/*", ".cce", ".cce/", "/.cce", "/.cce/"} THEN [ok |-> TRUE, file |-> f]
  ELSE [ok |-> TRUE, file |-> TextFile((IF f.lines = <<>> THEN <<>> ELSE f.lines \o <<Blank>>) \o GitignoreBlock, TRUE)]

\* The index: pulled from the configured remote, else built here; a pull that fails is an
\* error only when --remote asked for it.  A workspace is built member by member, the
\* graph last; a member that cannot be built ends the command.
BuildWorkspaceIndex(env) == [ok |-> env.builds, index |-> IF env.builds THEN "built" ELSE "partly"]
BuildIndex(st, env) ==
  IF env.workspace THEN BuildWorkspaceIndex(env) ELSE [ok |-> env.builds, index |-> IF env.builds THEN "built" ELSE st.index]
BuiltHere(st, built) == [ok |-> built.ok, st |-> [st EXCEPT !.index = built.index]]
EnsureFrom(st, config, wants, opts, env) ==
  CASE opts.remote /\ ~ env.opens -> [ok |-> FALSE, st |-> [st EXCEPT !.config = config]]
    [] (~ opts.remote \/ env.opens) /\ wants /\ env.pulls -> [ok |-> TRUE, st |-> [st EXCEPT !.config = config, !.index = "pulled"]]
    [] opts.remote /\ env.opens /\ ~ env.pulls -> [ok |-> FALSE, st |-> [st EXCEPT !.config = config]]
    [] OTHER -> BuiltHere(st, BuildIndex(st, env))
EnsureIndex(st, opts, env) ==
  EnsureFrom(st, IF opts.remote THEN SyncInit(st.config, env.global, "url2", TRUE, Unset, "origin") ELSE st.config,
             opts.remote \/ SyncLoad(st.config, env.global).remote # Unset, opts, env)
\* The whole command: each step that fails ends it, what the earlier ones wrote stays.
WithFile(st, name, w) == [ok |-> w.ok, st |-> [st EXCEPT ![name] = w.file]]
ThenMcpJson(r, env) == IF r.ok THEN WithFile(r.st, "mcp", WriteMcpJson(r.st.mcp, env.workspace)) ELSE r
ThenClaudeMd(r) == IF r.ok THEN WithFile(r.st, "claude", WriteClaudeMd(r.st.claude, OutputConfig(r.st.config))) ELSE r
ThenGitignore(r, env) == IF r.ok THEN WithFile(r.st, "gitignore", EnsureCceGitignored(env.git, r.st.gitignore)) ELSE r
InitRun(st, opts, env) ==
  IF opts.agent # "claude" \/ ~ env.dir THEN [ok |-> FALSE, st |-> st]
  ELSE ThenGitignore(ThenClaudeMd(ThenMcpJson(EnsureIndex(st, opts, env), env)), env)

\* The lines of CLAUDE.md outside the block.
UsersOwn(f) ==
  LET b == {i \in DOMAIN f.lines : f.lines[i] = "begin"}
      e == {i \in DOMAIN f.lines : f.lines[i] = "end"}
      inside(i) == \E x \in b, y \in e : x <= i /\ i <= y
  IN Picked(f.lines, {i \in DOMAIN f.lines : ~ inside(i) /\ f.lines[i] \notin {Blank, "title"}})
\* Whatever the user's files hold, `cce init` keeps every line of CLAUDE.md outside the one
\* block, every line of .gitignore and every other MCP server; where it refuses a file it
\* leaves that file alone.
KeptFrom(old, new, ok) ==
  /\ UsersOwn(new.claude) = UsersOwn(old.claude) \/ (~ ok /\ new.claude = old.claude)
  /\ ok => Cardinality({i \in DOMAIN new.claude.lines : new.claude.lines[i] = "begin"}) = 1
  /\ IsPrefix(old.gitignore.lines, new.gitignore.lines)
  /\ old.mcp.state \in {"object", "absent"} =>
       \A s \in DOMAIN old.mcp.servers \ {"cce"} : new.mcp.servers[s] = old.mcp.servers[s]
  /\ old.mcp.state \notin {"object", "absent"} => new.mcp = old.mcp /\ ~ ok
\* .cce/config is not kept so: --remote writes it again as its sync section only.  The ref,
\* the retention and the repo id that a command would have read before are read after; all
\* other settings of the file are lost.
ConfigKept(old, new, opts, global) ==
  \/ new = old
  \/ /\ opts.remote /\ DOMAIN new.at \subseteq OfSection("sync")
     /\ \A before \in {SyncLoad(old, global)}, after \in {SyncLoad(new, global)} :
          /\ after.ref = before.ref /\ after.retention = before.retention
          /\ before.repo_id # Unset => after.repo_id = before.repo_id
InitKeepsTheUsers ==
  For("init") => \A r \in {InitRun(input.st, input.opts, input.env)} :
                   /\ KeptFrom(input.st, r.st, r.ok)
                   /\ ConfigKept(input.st.config, r.st.config, input.opts, input.env.global)
\* `cce init` may be run again at any time: a run that succeeded changes nothing when it is
\* repeated, and one that stopped half way leads, once the file it stopped at is mended, to
\* the same project as if that file had been good from the start.
Mended(st) ==
  [st EXCEPT !.mcp = IF @.state \in {"object", "absent"} THEN @ ELSE [state |-> "object", servers |-> <<>>],
             !.claude = IF WriteClaudeMd(@, "max").ok THEN @ ELSE TextFile(<<"user1">>, TRUE),
             !.gitignore = IF @.state = "unreadable" THEN TextFile(<<"target">>, FALSE) ELSE @]
AbleRun(st) ==
  InitRun(Mended(st), [input.opts EXCEPT !.agent = "claude"],
          [input.env EXCEPT !.dir = TRUE, !.opens = TRUE, !.pulls = TRUE, !.builds = TRUE])
InitFinishesWhenMended ==
  For("init") =>
    \A r \in {InitRun(input.st, input.opts, input.env)} :
      /\ r.ok => InitRun(r.st, input.opts, input.env) = r
      /\ \A again \in {AbleRun(r.st)} : again.ok /\ again = AbleRun(input.st)

-----------------------------------------------------------------------------
ConfigInputs ==
  LET file(at) == [there |-> TRUE, yaml |-> TRUE, at |-> at]
      garbage == [there |-> TRUE, yaml |-> FALSE, at |-> <<>>]
      none == [there |-> FALSE, yaml |-> TRUE, at |-> <<>>]
      vals == [detail |-> {Str("signature"), ListValue}, level |-> {Str("max"), Str("odd")}, memory |-> {Bool(FALSE), Str("no")},
               auto_tokens |-> {Num(7), Str("7k")}, footer |-> {Bool(TRUE), ListValue}, section_tokens |-> {Num(0), Num(9)},
               knowledge |-> {Bool(FALSE), Str("no")}, source |-> {Str("code"), ListValue}, corpus_id |-> {Str("c"), ListValue},
               remote |-> {Str("url"), Str("")}, lfs |-> {Bool(FALSE), Str("maybe")}, repo_id |-> {Str("me")}, ref |-> {Str("dev")},
               retention |-> {Str("keep-last-2"), Str("keep")}]
      some(D) == UNION {{file(f) : f \in {g \in [K -> UNION {vals[k] : k \in K}] : \A k \in K : g[k] \in vals[k]}} : K \in D}
      pairs == {K \in SUBSET DOMAIN Keys : Cardinality(K) <= 2}
      syncs == SUBSET OfSection("sync")
  IN {[of |-> "config", file |-> f, global |-> g, id |-> i] :
        f \in some(pairs \cup syncs) \cup {garbage, none},
        g \in {none, garbage, file([k \in {"remote", "ref"} |-> Str("global")])}, i \in {"", "mine"}}
InitInputs ==
  LET none == [there |-> FALSE, yaml |-> TRUE, at |-> <<>>]
      cfg == [there |-> TRUE, yaml |-> TRUE, at |-> [k \in {"remote", "level"} |-> IF k = "level" THEN Str("lite") ELSE Str("url")]]
      lines == {"user1", "begin", "end", "see-begin"}
      claudes == {NoTextFile, [state |-> "unreadable", lines |-> <<>>, nl |-> FALSE]}
                 \cup {TextFile(l, TRUE) : l \in {x \in BoundedSeq(lines, 3) : Len(x) < 3 \/ x[2] = "user1"}}
                 \cup {TextFile(l, FALSE) : l \in BoundedSeq(lines, 1)}
                 \cup {TextFile(<<"user1", "begin", "max", "user1", "end", "user2">>, TRUE)}
      ignores == {NoTextFile, TextFile(<<"target">>, FALSE), TextFile(<<"/.cce/">>, TRUE),
                  [state |-> "unreadable", lines |-> <<>>, nl |-> FALSE]}
      mcps == {[state |-> "absent", servers |-> <<>>], [state |-> "object", servers |-> [s \in {"other", "cce"} |-> s]],
               [state |-> "invalid", servers |-> <<>>]}
  IN {[of |-> "init", st |-> [config |-> c, index |-> "none", mcp |-> mc, claude |-> cl, gitignore |-> gi],
       opts |-> o, env |-> e] :
        c \in {none, cfg}, mc \in mcps, cl \in claudes, gi \in ignores,
        o \in [remote : BOOLEAN, agent : {"claude"}] \cup {[remote |-> FALSE, agent |-> "other"]},
        e \in {[dir |-> TRUE, global |-> none, workspace |-> w, git |-> TRUE, opens |-> TRUE, pulls |-> p, builds |-> b] :
                 w \in BOOLEAN, p \in BOOLEAN, b \in BOOLEAN}
              \cup {[dir |-> b, global |-> cfg, workspace |-> FALSE, git |-> FALSE, opens |-> FALSE, pulls |-> TRUE, builds |-> TRUE] : b \in BOOLEAN}}

\* Set-up settles what later commands read, keeps the user's lines and servers in the files it
\* shares, and may be run again; of .cce/config it keeps the sync settings only.
SettingsKept == SyncInitSettles /\ SyncInitDropsTheRest /\ InitKeepsTheUsers /\ InitFinishesWhenMended
=============================================================================
