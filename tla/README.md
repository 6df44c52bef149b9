# Formal models of cce

`cce` indexes source trees and knowledge feeds into local stores, serves them to
editors through an MCP server, and shares them through a git repository used as
a cache. Two things are hard in it. Files and a git branch are written, read and
pruned by several processes without a lock, and must stay consistent when a
process dies, a call fails, or an answer is lost: these are state machines. And
many of its functions make a promise about every input (a ranking that does not
depend on a hash map's order, a redaction that leaves no tail, a count that adds
up): these are operators, judged on bounded sets of inputs.

Paths below are relative to the repository (`src/src/...` is its `src/`
directory as it appears in `PROJECT.json`).

## 1. Inventory

| part | state | operations | talks to |
|---|---|---|---|
| sync remote (`sync/remote.rs`, `sync/git.rs`) | one working clone per machine and remote: HEAD, `origin/<branch>`, index, files; the bare repository's branch | `put_many`, `remove_many`, `ensure_lfs_pattern`, `get`, listings | the git remote; called by every sync command |
| code sync (`sync/commands.rs`) | `.cce/synced.json` marker, `index.json.incoming` | `cmd_push`, `cmd_pull`, `cmd_pull_all`, `cmd_verify`, `install_artifact` | the remote; the code store |
| code store (`store.rs`, `fingerprint.rs`, `doctor.rs`) | `.cce/index.json`, `fingerprint.json` | `cmd_index`, `Index::save/load`, `write_for_store`, `check_fingerprint` | read by search and the MCP server |
| knowledge store (`knowledge/store.rs`) | `.cce/knowledge/<snapshot>.json`, `current`, `synced.json` | `write_snapshot`, `advance_current`, prune, `load_current` | ingest, knowledge pull, MCP server, corpus server |
| knowledge sync (`sync/knowledge_commands.rs`) | corpus pointer and snapshots on the cache branch | `cmd_knowledge_push`, `push_guard`, `apply_retention`, `cmd_knowledge_pull` | the remote; the knowledge store |
| MCP server (`mcp/server.rs`, `mcp/tools.rs`) | three caches keyed by file fingerprints, session ledger, output level | `load_index`, `workspace_bundle`, `load_knowledge`, `warm_via_sync`, tool handlers | all local stores; a pull at start |
| workspace, federation | `.cce/workspace.yml`, member stores | member detection, union index, scope resolution | the stores |
| atomic write (`atomic.rs`) | a temp file beside its target | `atomic_write` | every store |
| metrics, memory, session | append-only logs, in-memory ledger | append, tolerant read, recall, digest | MCP tools, dashboard |
| self-update (`update.rs`) | staged download, the installed binary | `cmd_update`, `replace_binary` | the release server |
| retrieval, chunking, redaction, tokens | none (pure functions) | rank, fuse, split, redact | search, ingest, index |
| reports and harnesses | none | aggregate, render | the metrics log |

What is hard here:

* **Interleavings.** Two machines push to one branch; two processes of one
  machine use one working clone; a pull races `cce index`; the server reads
  while a command replaces files.
* **Crashes and partial failure.** An install writes a snapshot, a marker and a
  pointer (or a staged file, a marker and a rename) and may stop between any two.
* **Unreliable delivery and retries.** A push can fail, or land with its answer
  lost; `push_with_retry` rebuilds and pushes again.
* **Stale state.** A failed fetch is ignored; caches are keyed by
  (mtime, length); a marker describes a store it does not contain.

What makes each part correct: nothing is reported published that is not; no
push undoes another; a pointer never names what is not there; a failed command
leaves the previous store in force; a successful one repairs what failed ones
left; verify and doctor never vouch for something false; the server never
answers from a store older than the call. Section 3 states these as properties.
`PROJECT.json` lists the hazards at their lines.

## 2. Modules

One action is one git command or one file-system call, since that is where
another process, a crash or the network comes in between. Contents are model
values; a hash is the identity of the bytes it is of; `atomic_write` and
`rename` are one step (`AtomicWrite` shows that the first may be).

### GitRemote and GitCache

`GitRemote` models `sync/remote.rs`: `commits` is the object store, `remote` the
cache branch, `head`/`origin`/`index`/`work` the clone of each machine. A process
runs `put_many`, `remove_many`, `ensure_lfs_pattern` or `get` as the sequence of
commands of the code: `Fetch`, `CheckoutBranchAtOrigin`, `WriteFile`/`GitAdd` per
entry (or `GitRm`), `CommitStaged`, `PushAccepted` or `PushFailed`, then
`RefetchAfterFailure` back to the checkout, or `HeadSha`, `VerifyFetch`,
`VerifyPublished`. A failed push may have landed. `Abort` stands for a kill and
for every `?` after a failing command. Git itself (fetch, plain and forced
checkout, push) is modelled as the code uses it.

`GitCache` is the abstract specification: a map from keys to whole files that
changes in one step per publication, each change being one the publishing
machine was asked for. `ImplementsCache` states that `GitRemote` implements it,
with the tree of the remote branch for the map.

### CodeStore

`index.json`, `index.json.incoming`, `synced.json` and `fingerprint.json` of one
root, written by `cmd_index`, `cmd_pull`, one member of `cmd_pull_all`, and the
pull of a starting MCP server. `Guard` is the refusal of a cache at another sha
(and the up-to-date shortcut of `pull --all`); `StageIndex`, `HashStaged`,
`SaveMarker`, `Activate` are `install_artifact`; `SaveStore`, `ReadStoreBack`,
`WriteFingerprint` are the index command. `Publish` moves the remote's pointer,
`DamageMarker` is an edit from outside. `VerifyStoreChecksum` and
`FingerprintBound` are what `cce sync verify --checksum-only` and `cce doctor`
conclude. History variables (`prior`, `alone`) remember how a command began.

### StoreCache

`load_index` and `workspace_bundle`: a call stats the stores of its scope one by
one, compares, and loads them one by one, while writers replace, damage and
delete them. A missing store drops the entry; an error drops the entry of
`load_index` and keeps that of `workspace_bundle`. Two versions of one file are
assumed not to share an (mtime, length) pair; that assumption is the code's.

### KnowledgeStore

Snapshot files, `current` and the marker; `cce knowledge index` and `cce
knowledge pull` as `Guard`, `WriteSnapshot`, `HashSnapshot`, `SaveMarker`,
`AdvanceCurrent`, `ListSnapshots`, `PruneSnapshots`; and `load_knowledge` as its
five file operations. A snapshot id is a hash of the feed only, so two contents
may share one: the model has such a pair.

### SharedRoot

Two commands on one root at once, which the documentation puts out of scope and
nothing prevents: a pull with and without `--force` and a member's turn in `pull --all`
(`GuardPull`: the refusal of `cmd_pull` and the up-to-date shortcut), the file steps of
`install_artifact` (with the one name `index.json.incoming`) and of
`KnowledgeStore::save`, interleaved and killed anywhere. `doubt` remembers which side of
the root commands met on, or where a pull was killed between marker and rename. The model
shows how far the damage goes and that the next install that runs alone mends it. The next
command need not be one: over a wrong marker an unforced pull of the right sha is
refused, and `pull --all` counts the wrong store up to date.

### KnowledgePublish

`cmd_knowledge_push` by several producers: the guard's look at the pointer and its
comparison of records and checksums (`GuardPointer`, `GuardCompare`), the LFS
attribute, the put of artifact, pointer and corpus description in one commit, and
`apply_retention` as listing, ordering by history and removal. Each producer acts
on its own clone (`view`), which a failed fetch leaves stale. A put or removal is
one step on the cache, as `GitCache` promises.

### WorkspaceSync

CI pushes of a workspace, member by member and then its manifest and graph, and a
consumer's `pull --all` (listing, short names, one member at a time, knowledge,
manifest last) and `pull --workspace`. A member is installed in two steps, its marker
(`WriteMarker`) and then its store (`RenameStore`, in `ActivateStore` and
`ActivateMember`); a run may fail or die between them and between any two members, and
the shortcut of `pull --all` (`UpToDate`) compares the sha in the marker and nothing else.
Two repositories share a short name and a commit, as forks do. A member may lose its
config alone or its whole `.cce`, a ref may be `main` or not. That an artifact and
its pointer are published together is not claimed here: a put is one step of the cache
because `put_many` publishes one commit, which is what `ImplementsCache` proves.

### Session

`cce mcp`: servers over one root handle lines in order (`HandleLine`), run tools
in steps, keep a ledger, and append to `memory.jsonl` and `metrics.jsonl`. A file
is a sequence of tokens (a record, the beginning of one, a newline), so that torn
and merged lines, the healing newline and the tolerant reader are all there.

### SelfUpdate

`cce update` from `SHA256SUMS` to `replace_binary`, by two processes, with a
network that serves anything, failing calls and kills; and the changelog delta.

### AtomicWrite and AtomicRegister

`AtomicWrite` takes `atomic_write` apart: `dest` is the target, `temps` the temporary
files beside it by name (process, number), `thread` the writes that run. Every call
may fail, the removal after a failure too; a process may be killed and its number
used again, so that a name may be that of a leftover file; a power loss takes bytes that were
not synced and may bring back an earlier directory entry. `AtomicRegister` is what
the stores rely on: a write takes effect in one step between call and return.
`WritesAtomically` says that the first implements the second.

### The operators

`Inputs` has the one variable `input`; each module below defines operators, the
set of inputs they are judged on, and properties of the form `For("rank") => ...`.
`Collections` holds what they sort, filter and sum with, as definitions that can be reasoned
about: an element's place is the number of those before it.

| module | code | abstraction |
|---|---|---|
| `Retrieval` | keyword_store, vector_store, retriever, graph_store, federation | integer scores; a file is a number whose tens are its member; a hash map is any order |
| `McpAnswers` | mcp/tools, memory | a text is the byte lengths of its characters |
| `Artifacts` | sync/artifact, sync/knowledge_artifact, sync/mod | lines and a last newline; a digest is what it digests; an origin is its parts |
| `KnowledgeSearch` | knowledge/contract, manifest, store, retrieval, ask, markdown | a document is a sequence of headings and lines |
| `Indexing` | walker, sensitive, redactor, chunker, compress, embedder, store | a text is a sequence of character classes |
| `Metrics` | metrics, retriever, grammar, savings | calendar arithmetic is exact, a year has four characters; u64 has a small maximum |
| `Reports` | aggregator, usage, dashboard, federation, main | a mean is its sum and count |
| `Workspaces` | workspace | names are sequences of dashed parts, paths of names |
| `Settings` | config, sync/config, mcp/init, sync/commands | a config file is its typed values; CLAUDE.md is its lines |
| `Health` | doctor, fingerprint, sync/commands | bytes are named, a digest is the name |
| `CommandLine` | main, embedder, mcp/tools | flags are sets; a store is the backend of its vectors; `Fleet` is the workspace's members in order |

## 3. Runs

Every run finishes within five minutes on two workers. "Deadlock off" means that the bound on
the number of operations ends the run; no operation waits for another. A property that is made of
named parts is shown with them; each part has its statement above its definition. Section 4 says
which of them are theorems; type invariants that the table does not name are proved only.

| run | shows | instance |
|---|---|---|
| `remote_faults` | `PointerHasArtifact`, `ResultsExact` (`PutOkExact`, `GetFromCleanClone`), `ImplementsCache` | two machines with a clone each, two pushes and one, or reads; lost answers, failing fetches, kills anywhere; 2 attempts |
| `remote_shared` | `PutOkLanded`, `EveryOpReturns` | two processes in one clone, all five operations, lossy network, fairness |
| `remote_shared_push` | violates `PointerHasArtifact` | two processes in one clone, no faults |
| `store_single` | `PullHeals`, `StoreTruthful` (`PriorIntact`, `FingerprintTruthful`) | one process, every command, faults and kills anywhere, a damaged marker |
| `store_pull_index` | `VerifyTruthful`, `PinnedStays` | a puller and an indexer interleaved, same faults |
| `store_pull_all_heal` | violates `PullHeals` | `pull --all` after a killed pull |
| `store_warm_local` | violates `WarmKeepsLocalBuild` | index, then a server start |
| `store_cache` | `NeverStale`, `EntryMatchesDisk` | two members, a workspace scope and a single-repository one that overlap, two versions per file, all interleavings |
| `knowledge_local` | `CurrentLoadable`, `OutcomeTrue` (`FailureKeepsActive`, `PullInstalls`, `NothingLeaks`), `ServedWasCurrent`, `CorpusStays` | one writer, three commands, two server calls, faults and kills anywhere, a damaged marker |
| `publish` | `RetentionCareful` (`TypeOK`, `YoungestKept`), `PushesCareful` (`UnforcedKeepsRecords`, `CurrentBytesStay`, `DanglesOnlyAfterRace`), `EveryPushReturns` | two producers, three snapshots of two records, two contents each, keep-last-1, three pushes, deaths and stale clones |
| `workspace` | `MembersSound` (`TypeOK`, `OneMemberPerRepo`, `CountedIsInstalled`, `VisitedIsInstalled`, `TornByFault`), `MembersStay` (`MemberKeepsRepo`, `PinnedMemberStays`), `EveryPullEnds` | three repositories, two of one short name with a commit in common, two refs, two pushes, two pulls, one death, failed rename or lost config |
| `engine` | 16 invariants and a refinement of the parts that need no state of each other, listed below | `part` picks one server over every tool and store, or two servers whose calls append to the shared files (both: two decisions, three messages, two torn appends or kills), two writers on one root (four commands), two self-updates, two threads writing one file (two numbers, two contents, kills, power loss), or an input of one operator module |

What `engine` shows, by module:

| module | property | its parts |
|---|---|---|
| `Session` | `AnswersHonest` | `AnswersInOrder`, `CorruptNeverSilent` |
| `Session` | `AppendsSurvive` | `SessionTypeOK`, `AckedDecisionRecalled`, `LoggedEventRead`, `DigestTellsDecisions` |
| `SharedRoot` | `HarmBounded` | `WrongOnlyInDoubt`, `NextInstallRepairs`, `TurnedAwayByMarker` |
| `SelfUpdate` | `UpdateSafe` | `ExeAlwaysWhole`, `OnlyVerifiedInstalled`, `DeltaCountsEveryRelease` |
| `Retrieval` | `RankingSound` | `KeywordHitsRanked`, `RankIgnoresHashOrder`, `CapWastesNoPlace` |
| `Retrieval` | `FederationSound` | `FederationOfOne`, `BonusOnlyAdds`, `ScopeReachesMember` |
| `McpAnswers` | `AnswersFaithful` | `BudgetHonest`, `BlendShowsBest`, `HitsExpand`, `RecallFillsPlaces`, `NormalFormStable` |
| `Artifacts` | `ArtifactsFaithful` | `ArtifactExactOrRefused`, `SameIndexSameBytes`, `PulledGraphFaithful`, `KnowledgeExactOrRefused`, `SameOriginSameId`, `AddressStaysHome` |
| `KnowledgeSearch` | `KnowledgeFaithful` | `FeedWholeOrRefused`, `SectionsCover`, `DroppedLeaveNoTrace`, `MoreKeepsTheFirst`, `SuiteProvesItsCases` |
| `Indexing` | `IndexSound` | `WholeValueRedacted`, `RedactionSettles`, `SecretsNeverIndexed`, `VectorsBelongToChunks`, `ElisionHonest` |
| `Metrics` | `LedgerExact` | `CalendarExact`, `OneInstant`, `LedgerWithinBaseline` |
| `Reports` | `ReportsAgree` | `PartsMakeTheWhole`, `ClampedNeverWraps`, `WeekIsCurrentWindow`, `UsageHonest`, `NewestVerdictShown`, `WorkspaceCountsOnce` |
| `Workspaces` | `WorkspaceSound` | `MembersToldApart`, `GraphJoinsMembers`, `ManifestReadsBack` |
| `Settings` | `SettingsKept` | `SyncInitSettles`, `SyncInitDropsTheRest`, `InitKeepsTheUsers` (with `ConfigKept`), `InitFinishesWhenMended` |
| `Health` | `HealthTold` | `DriftNeverSilent`, `TamperingFound`, `ListHidesNothing`, `VerifyNamesItsSha` |
| `CommandLine` | `CommandLineSound` | `FlagsExact`, `OneStoreOneSpace`, `MixedIsCrossed`, `FullIndexUnmixes` |
| `AtomicWrite` | `WritesAtomically` | the refinement of `AtomicRegister` |

Why the bounds are enough for the cases meant: a lost race needs two pushers and
one retry, and with two attempts the loop is also exhausted; healing needs one
broken command and one more, and three commands allow a second breakage; a stale
entry needs two calls and a replacement between them; two stamps per file suffice
because a file that changed keeps none of its earlier stamps. Contents are
interchangeable in `StoreCache`, and servers and decisions in `Session`: these are
where symmetry is used. A retention race needs two producers and a third push to
see its result; a reused short name needs two repositories and a second pull, and with
one lost config four numbered names (`MaxSuffix`) are more than can be taken. A decision
that was acknowledged is lost only by two torn appends: one leaves the tail that a second
writer looks at, the other is that writer's own. Retention leaves a dangling pointer after
two removals in a row only with a fourth push; that case is left to the proof. The
limits of the code (chunks per file, bonus files, embedding batch, shown items,
section tokens) are constants, set to 1 to 3 so that inputs of three elements are
at, below and above each of them; a 64-bit maximum is set to 3 for the same reason.

In the session only `record_decision`, `record_feedback` and `context_search` write files that a second
server reads, so two servers are sent these alone (`appends`), and every other tool is checked with one
server and stores in any state (`session`).

Fairness (`FairSpec` of `GitRemote`, `Spec` of `KnowledgePublish` and
`WorkspaceSync`) is weak fairness of each process's steps: a running process is
scheduled, and no step waits for another process. Kills and the start of
operations are not fair.

### Disagreements with what the repository says

* `remote_shared_push`: a forced checkout by a second process in the same clone
  discards an artifact that the first has written; the first then publishes its
  pointer alone, against "in one commit/push" (`push_one`) and "concurrent
  pushes safe" (docs/sync.md).
* `store_pull_all_heal`: after a pull killed between marker and rename, `pull
  --all` reports up to date and never repairs, against "the next same-sha pull
  self-heals" (`install_artifact`).
* `store_warm_local`: the pull at server start replaces a locally built store,
  against "never clobber a WIP local cache" (`warm_via_sync`).

### Observations that are not kept as runs

Each was seen on a model; the docs (architecture.md, "Concurrency and
freshness") put several concurrent writers of one store out of scope.

* After an aborted put, a `get` in the same clone can return a pointer that was
  never published: its plain checkout keeps local changes.
* A put whose last push landed with its answer lost reports failure although it
  published; docs/sync.md says of that error that nothing was published.
* Two pulls of one root share `index.json.incoming`; one may activate what the
  other staged. Two index runs of one root can leave a fingerprint that
  describes the other's store.
* The pull at server start refuses once the remote's pointer has moved past the
  installed sha, so it does not bring an older pull up to date.
* Two writers of one knowledge store: the prune of one can remove the snapshot
  that the other is about to make current.
* While a re-ingest prunes, a server call can report the knowledge store absent.
* A pull of the active snapshot id with another content replaces the active file
  before its marker is written (`FailureKeepsActive` states the exception).
* `workspace_bundle` is keyed by store stats only; a member renamed in the
  manifest keeps its old name until a store changes.

Publishing:

* Retention can remove the snapshot that `current` names when another push moves
  the pointer between a producer's put and its removal; the comment of
  `apply_retention` says never (`DanglesOnlyAfterRace` states the exact case: the
  removal is one of a push of another snapshot).
* The push guard looks before it publishes: a pointer moved in between, or a
  clone that is offline, is not seen. An unforced push can replace the bytes of a
  published snapshot that is not current.
* `pull --all` takes the sha in a marker for the identity of a store. A member whose
  install was cut off between marker and rename is counted up to date over its old store,
  or none, on every later run until its pointer moves; and when two repositories of one
  short name share a commit (a fork), a member of the one can be counted up to date while
  its directory holds the store of the other. `CountedIsInstalled` states both as its
  only exceptions. `pull --workspace` takes no shortcut: it installs
  such a member again, or refuses it when another sha is asked for without `--force`.
* `pull --workspace` installs the published graph even with edges to members that
  the local manifest does not have. `status` and the freshness line look at
  `refs/main` only. `sync list` prints that the cache is empty when it holds only
  workspace manifests.

Local files:

* `cce sync init` (and `cce init --remote`) rewrites `.cce/config` with the `sync:`
  block alone; hand-written `knowledge`, `output`, `memory` and `mcp` settings in the
  same file are dropped, so that a disabled memory or knowledge is on again.
  `SyncInitDropsTheRest` and `ConfigKept` say exactly what goes and what stays. `cce init
  --remote` reads the output level after that, so the block it writes into CLAUDE.md is of the
  default level, not of the one the user had set.
* A metrics line and its newline are two writes, and no later append heals a torn
  line; the memory file's append does, but looks at the tail before it writes. A decision
  that was cut just before its newline is read and acknowledged as recorded; a second
  server that looked at the tail before, and whose own append is cut, makes it unreadable.
* A failed or killed copy of the self-update leaves `.cce-update-<pid>` behind.
* doctor takes a corrupt sync marker for a local build, and calls a directory
  healthy whose pulled store was deleted while knowledge is there; `verify
  --checksum-only` fails on it. `verify --checksum-only` takes a corrupt workspace
  manifest for a single directory; doctor fails on it.

Searching:

* After an `index --workspace` cut short, or an index of one member with another
  backend, `search --workspace` and the server compare hash vectors with an Ollama
  query, without a word: they ask only whether any member is Ollama's. The comment in
  `cmd_search_workspace` (main.rs:1644-1646) says "never a silent hash-vs-ollama cosine",
  that of `QueryEmbedder` (mcp/tools.rs:1044-1045) "never cosine across two different
  embedding spaces"; both mean an Ollama that is down, for which it is so.
  `MixedIsCrossed` states exactly when it happens.
* Two chunks that share an id (same path, lines and first 100 bytes in two
  members) but differ later may tie exactly, and then their order depends on a
  hash map's.
* A pulled import graph need not be the published one. `imports_from_graph` keeps of an
  edge only the stem of its target, and the rebuild resolves it anew: the edge moves to a
  same-named file, or, where no file with a chunk has the name, to one whose path ends in
  it, or is lost, for want of a target or as an edge of a file to itself. The comments
  "yields the identical file→file edges" (artifact.rs:193-195) and "lossless inverse" (:395)
  hold when each target is the only file of its name; the comment at artifact.rs:227-234
  says itself that the rebuild is lossy. `PulledGraphFaithful` states each case. A store
  without `file_tokens` publishes an empty graph.
* `--package app,app` loads a member twice; `expand_chunk` in a workspace needs every
  member's store, and of equal ids shows the first; a code-only search answers
  "not indexed" for a corrupt store; the per-record cap of the knowledge search
  applies before the score filter.
* Without a manifest, a feed cut between two lines is ingested. A record's id is not
  redacted; a value that begins with a placeholder word, or a key glued to a
  preceding word, is not recognised as a secret.
* `normalize_repo_id` gives different ids to a URL with a port or with a slash after
  `.git`, and one id to `a/b` and `a__b`.

Command line:

* Some flags are taken and passed over in silence: a directory where `--store` or
  `--metrics` is given too; `--store`, `--metrics` and `--no-metrics` with `--workspace`, and the
  positional directory and `--package` without it; `--no-open`, which nothing reads; `--force` in a
  dry run of a knowledge push; `--lfs` of `sync init` and `--latest` of a knowledge pull, which
  spell out the default. clap is told of no conflict there. For push, pull, verify and
  relevance it is told of all of them (`FlagsExact`).
* `search --workspace --json` prints a query id that is never logged; `usage --source`
  filters after the limit of recent searches.

## 4. Proofs

TLC checks instances; the theorems below hold for every value of the constants
that satisfies the modules' ASSUMEs: any number of processes, machines, members,
snapshots and operations, and any retry bound. Where a theorem needs a hypothesis
on who runs what, it is a named definition; a run or an observation of section 3
shows what happens without it. Each invariant named below was first checked by TLC.

| theorem | states | for |
|---|---|---|
| `GitRemoteProofs` `TypeCorrect`, `PutOkIsPublished` | `TypeOK`, `PutOkLanded` | everything |
| `RemoteImplementsCache` | the refinement `ImplementsCache` | everything |
| `GetReadsPublished` | `GetFromCleanClone` | everything |
| `ResultsAreExact` | `ResultsExact` | `Unshared`, `DistinctKeys` |
| `PointersAreSound` | `PointerHasArtifact` | `Unshared`, `PointersLast` |
| `CodeStoreProofs` `TypeCorrect`, `FailureLeavesPrior` | `TypeOK`, `PriorIntact` | everything |
| `VerifyIsTruthful`, `PinnedMarkerStays` | `VerifyTruthful`, `PinnedStays` | `OnePuller` |
| `NextPullHeals` | `PullHeals` | `NoPullAll` |
| `FilesDescribeEachOther` | `StoreTruthful` | `IndexerAlone` |
| `StoreCacheProofs` `TypeCorrect`, `AnswersAreNeverStale`, `EntriesMatchDisk` | `TypeOK`, `NeverStale`, `EntryMatchesDisk` | everything |
| `KnowledgeStoreProofs` `TypeCorrect`, `AnswersWereCurrent` | `TypeOK`, `ServedWasCurrent` | everything |
| `CurrentIsLoadable`, `OutcomeIsTrue`, `CorpusIsKept` | `CurrentLoadable`, `OutcomeTrue`, `CorpusStays` | `OneWriter` |
| `KnowledgePublishProofs` `RetentionIsCareful`, `PushesAreCareful` | `RetentionCareful`, `PushesCareful` | everything |
| `WorkspaceSyncProofs` `MembersAreSound`, `MembersAreKept` | `MembersSound`, `MembersStay` | everything |
| `EngineProofs` `FileImplementsRegister`, `ModeIsKept` | `WritesAtomically`; permissions outlive a write | everything |
| `OverlapHarmIsBounded` | `HarmBounded` | everything |
| `UpdateInstallsVerified` | `ExeAlwaysWhole`, `OnlyVerifiedInstalled` | everything |
| `UpdatesAreSafe` | `UpdateSafe` | `DeltaInputOK` |
| `AnswersAreHonest`, `AppendsAreKept` | `AnswersHonest`, `AppendsSurvive` | everything |
| `AnswersAreFaithful` | `AnswersFaithful` | `AnswersInputOK` |
| `RankingIsSound` | `RankingSound` | `RankingInputOK` |
| `OperatorProofs` `CommandLineIsSound` | `CommandLineSound` | `FlagInputOK`, `BackendInputOK` |
| `HealthIsTold` | `HealthTold` | `HealthInputOK` |
| `LedgerIsExact` | `LedgerExact` | `MetricsInputOK` |
| `SettingsAreKept` | `SettingsKept` | `InitInputOK` |
| `ArtifactsAreFaithful` | `ArtifactsFaithful` | `ArtifactsInputOK` |

The hypotheses of the operators' theorems say what an input is, and no more: a list of rows of any
text, any set of files, any three numbers for a date, any index. They hold of every input of the
`engine` run, which TLC has checked. Some say what the code sees to: `RecallInputOK` that the
remembered decisions are a file each to the cap per file and that a query without words shares none,
`ExpandInputOK` that no file imports itself (`graph_store.rs` drops such an edge) and that the
id 99, which stands for one nobody has, is no chunk's, `BlendInputOK` that within a pool an id occurs
once, and `InstantInputOK` that a year has four characters. Two narrow what is proved, in
`RankingInputOK`: `WordInputOK` asks for at most three documents, as many as the model's table of
logarithms has, and `OrderInputOK` that no two copies of one chunk (one id, one cosine, one keyword
score) come to the very same final score. Copies stand at different places of each list, so that
their fused scores differ; rounding could still make them one, which no input of the run does.

How each argument goes:

* **GitRemote.** `PutOkLanded` is not inductive: that `verify_published` looked at
  `origin/<branch>` says something of the branch only if every tracking ref is in
  the branch's history. `IInv` adds the shape of the commit graph (`GraphOK`:
  ancestors are closed, a commit is its own ancestor and the newest of them),
  `OriginOK` (each tracking ref is an ancestor of the branch) and `ControlOK` (which
  kind of operation is at which command). `LandedStays` then follows from the branch
  only fast-forwarding (`HistoryGrows`).
  The refinement needs that a push publishes nothing that its machine was not asked for.
  `CacheInv` says so of each layer in turn: a clone's files differ from its index, the
  index from HEAD, and HEAD from the branch it would fast-forward, only by entries of
  operations begun in that clone (`WorkOK`, `IndexOK`, `HeadOK`, with `AskedOK` and
  `WritingOK` for the operation in progress), and a commit that two clones share was
  published (`LocalOK`). A push is then one step of `GitCache`, every other command a
  stutter.
  `ResultsExact` and `PointerHasArtifact` are about one clone's own put. With `Unshared`
  (a clone per process) `PutInv` follows a put from checkout to commit: what it has
  written is staged. `DistinctKeys` is needed because the last of two writes of one key
  wins. `PointersLast` (a put writes an artifact before its pointer, and only puts and
  gets run) is what `push_one` does; `PointerInv` then carries "pointers have their
  artifacts" through every commit and through a half-staged index, also one that a killed
  put left for the next. Without `Unshared` the run `remote_shared_push` is the
  counterexample.
* **CodeStore.** For `OnePuller` (any number of indexers) `PullInv` adds that a marker's
  hash is of its own sha's build (`MarkerOK`), that what a puller has staged and hashed
  is its target's build (`StagingOK`), and that one past the guard was allowed to pass
  (`GuardOK`). The history properties rest on `LoneInv`: a command that nothing ran
  beside still finds `prior` where its own steps did not touch it. `HealInv` adds
  what a lone pull has put in place at each of its steps; `NoPullAll` is needed, see
  `store_pull_all_heal`. `FpInv` says that a process about to write a fingerprint
  holds the build it made or installed; `IndexerAlone` is needed, since two index runs
  of one root can leave a fingerprint of the other's store.
* **StoreCache.** An entry can be newer than its stamps, when a store is replaced
  between stat and load. It cannot be served later, because those stamps never come
  back (`StampsUsed`). `IInv` carries this through the call: a stamp taken that is
  still the file's vouches for the content (`StatVouches`, `LoadedOK`).
* **KnowledgeStore.** `StoreInv` adds to `CurrentLoadable` that between write and prune
  the writer's own snapshot is on disk (`WrittenOK`). `ServeInv` follows the five file
  operations of `load_knowledge`, with any number of writers. No two writes share a
  stamp (`StampOK`); so as long as the pointer's stamp is the one the call took, the
  snapshot it looks at is the current one (`ReadOK`), and an entry whose stamps match
  holds it (`EntryOK`). `OutcomeInv` says of a lone command which files it has changed
  before its first write, until its marker and until its pointer (`UntouchedOK`,
  `KeptOK`, `InstalledOK`), and `ClaimInv` that one past its guard may move the corpus. `OneWriter`
  is needed: the prune of a second writer can remove what the first makes current.
* **KnowledgePublish.** `IInv` says that an artifact on the cache has its key in the
  history (`Recorded`), that no artifact precedes the LFS attribute (`LfsFirst`), that a
  clone has seen a beginning of that history (`Behind`), and of a running push what its
  guard accepted (`Accepted`). That no removal takes the youngest snapshot, although its
  listing is of a stale view, follows from `Overtaken`: whatever it removes has another
  one after it in the history, and the history only grows.
* **WorkspaceSync.** `IInv` says that a ref names a commit of its repository
  (`CacheOK`), that a CI push carries a commit of each repository it has yet to publish
  (`CiOK`), that a member directory belongs to repositories of its own short name and
  its marker tells its store unless its last install was cut off (`DirOK`, with the history
  `torn`), and of a running pull which repository each name is given to so far, whose
  install is half done, and what has been installed (`RunOK`).
* **AtomicWrite.** `FileInv` says that no two threads have one temporary name
  (`NamesDiffer`), so that none disturbs what another has staged, and that what is
  about to be renamed is the thread's own content, synced (`SyncedBeforeRename`); then
  a rename is the register's commit and a power loss finds the target whole.
* **SharedRoot.** `RootInv` says, besides shapes, that a command marked as alone is, and
  that each is while one side of the root is not in doubt (`AloneIsAlone`), and what such a
  command has put in place at each of its steps, or by what marker it was turned away
  (`ProgressAlone`); so an install that ends alone leaves a true marker or a pointer to a
  snapshot that is there, and whatever is not in doubt stays so (`RootClean`).
* **SelfUpdate.** `UpdateInv`: past the comparison of digests the download is intact and
  what is renamed is a whole copy of it (`CheckedFirst`); while no other update ever
  started, one that has not succeeded left the binary as it was (`NothingChanged`).
  The changelog delta is a statement about one input: the releases after the installed one,
  in order, are each shown or counted as left out.
* **Session.** `SessionInv` ties the ids answered, the call in progress and the ids
  expected together, and says that a search that read a corrupt store has a note of it.
  `DurableInv` adds the two files (`MemOK`, `LogOK`): an event whose newline is written is
  out of reach of later appends, and one whose newline is not is a line of its own or
  counted as merged. An append breaks no line but the last, and that one only if it has
  no newline and the append does not begin with one (`AppendKeeps`).
  `LedgerInv` is for the digest: the ledger holds the decisions told and no other
  (`LedgerOK`), and a server has answered no more calls than it got lines (`Counted`). A
  decision's place in the digest is the number of decisions first seen up to it
  (`FirstSeen`), and appending an event keeps those places or adds the next one, so that
  what the digest counts and shows follows step by step, with no induction over the ledger.

* **The operators.** Their proofs stand on a few facts of `OperatorProofs`. A set of natural
  numbers has a least one (`LeastNumber`), hence induction up to a
  number (`UpTo`); hence a fold over a list is the last of as many steps (`FoldSteps`), a sum
  grows with its list, a finite set has exactly one way to be put in order (`OneOrder`,
  `PositionsInOrder`), and what is picked from two joined lists is what is picked from each.
  * *Health, CommandLine.* Finite tables and case splits; that the sum of members' failures is
    0 only if each is, and that a list of repositories loses none, is a sum and a ranking.
  * *Metrics.* An era of 400 years is taken apart into centuries, cycles of four years, years
    and days; on these parts the source's divisions are linear, so the round trip and the
    next day hold of every date, and an instant's two readings agree.
  * *Settings.* A loader reads one section of the file; `cce init` is a run of steps that each
    keep the user's lines, so its files are followed to the first step that fails, and a
    second run finds what the first left.
  * *Artifacts.* Any damage keeps, loses, respaces, recounts or unsigns the manifest line
    (`DamageHurts`). If it keeps it, the digest decides, which is of all the rest; if not, the
    reader refuses. Sorting makes the bytes those of the index, in whatever order it was built.
  * *McpAnswers.* The budget and the normal form are folds with an invariant each
    (`HonestSoFar`, `Neat`); a normal form is read back as itself since nothing in it is
    dropped (`NeatStays`), and letters are counted one character at a time. The blend and the
    recall are sorts: a ranking has every candidate once, so nothing that qualifies is pushed
    out by what does not.
  * *Retrieval.* Scores with ids are a total order of the candidates (`ScoresOrder`), and a set
    has one list in a total order, so every order of the hash maps is sorted to that list
    (`OneRanking`). A place in it is under the cap or its file has its share, counted along the
    list (`CapHolds`). A word's weight is positive and grows with how often it is said, so a
    document scores if and only if it says a word, and no less than one that says less (`DocScores`).

The components of `engine` share no variable; `RootSpec`, `UpdateSpec`, `SessionSpec` and
`FileSpec` are each component's own specification, of which a run of `engine` takes one.

The ASSUMEs are of two kinds. That a stand-in such as `None`, `Absent` or `Nil` is none of
the values it stands beside (`NoRecordAssumption`, `NamesAssumption`, `AbsentAssumption`,
`NoneAssumption`, `RootAssumption`, `NilAssumption`): the code has an `Option` or a missing
file there. Of this kind too is `DecisionAssumption`: the text of a decision is none of the
other bodies an answer can have. And facts of the code: removals carry no bytes (`RemovesAssumption`), a newest
release exists (`SelfUpdateAssumption`), the members of a
published workspace share their commits and differ in short name (`WorkspaceAssumption`), a workspace lists members of a known
set (`FleetAssumption`), and limits are positive numbers (`RetrievalAssumption`).

What the proofs found that the runs had not: a pointer can dangle after two removals in
a row, with one push more than `publish` has, so `DanglesOnlyAfterRace` is stated on
the removal that causes it; an acknowledged decision can be lost by two torn appends,
so that the history counts it and `engine` allows two; and a fork can pass for the
repository it was forked from, which is now an exception of `CountedIsInstalled` and a case of
`workspace`. Each was confirmed by TLC.

Only model-checked:

* Liveness (`EveryOpReturns`, `EveryPushReturns`, `EveryPullEnds`): fairness and ENABLED are
  out of the prover's reach.
* `FederationSound` (`Retrieval`), `ReportsAgree` (`Reports`): not attempted yet.
* `IndexSound`, `KnowledgeFaithful`, `WorkspaceSound`: `Indexing`, `KnowledgeSearch` and
  `Workspaces` declare RECURSIVE operators, in whose presence the prover has no SMT backend.


## 5. Plan

Every part of section 1 has a module. What is left, in this order:

1. Proofs about `Reports` (sums over days and sources) and the federation, and about `Workspaces`, `Indexing` and
   `KnowledgeSearch` once their recursions are functions.
2. The corpus server over a knowledge store that is replaced while it serves.

## 6. Not modelled

tree-sitter grammars and the language packs' tables; the regular expressions of
provider tokens; floating-point rounding of scores, the statistics of `relevance`,
`eval` and `bench`; rendering of reports, the dashboard's and the corpus server's
HTTP surface; parsing of Gemfiles, package.json, YAML and JSON below what is
distinguished in section 2; printing. Reading a file is one step, and a torn read
of a file replaced by rename cannot happen. `PROJECT.json` gives the reason per
component.
