----------------------------- MODULE Artifacts -----------------------------
(***************************************************************************)
(* What travels over a sync remote: the artifact of a code index           *)
(* (src/sync/artifact.rs), the artifact of a knowledge store               *)
(* (src/sync/knowledge_artifact.rs), and the addresses they are kept under *)
(* (src/sync/mod.rs).                                                      *)
(*                                                                         *)
(* A file on the wire is [lines, nl]: its lines, and whether the last one  *)
(* ends in a newline.  `sp` marks a line written with other blanks than    *)
(* cce's own encoder uses; a digest is the thing digested.                 *)
(***************************************************************************)
EXTENDS Integers, FiniteSets, SequencesExt, Collections, Inputs

-----------------------------------------------------------------------------
(* The import graph.  A source file is [at, stem, ends]: its place in path  *)
(* order, its name without extension, and the modules m for which its path  *)
(* ends in m.py or m.js.                                                    *)

First(files) == CHOOSE f \in files : \A g \in files : f.at <= g.at
NoTarget == [at |-> 0, stem |-> "none", ends |-> {}]
\* The first file with the module's name; failing that, the first that ends in it.
ResolveModule(module, files) ==
  LET same == {f \in files : f.stem = module}
      suffix == {f \in files : module \in f.ends}
  IN IF same # {} THEN First(same) ELSE IF suffix # {} THEN First(suffix) ELSE NoTarget
GraphBuild(imports, files) ==
  {e \in {<<i[1], ResolveModule(i[2], files)>> : i \in imports} : e[2] # NoTarget /\ e[1] # e[2]}

\* Index::assemble: the graph is over the files that have a chunk.
Assemble(chunks, imports, tokens) ==
  [chunks |-> chunks, imports |-> imports, tokens |-> tokens,
   graph |-> GraphBuild(imports, {c.file : c \in ToSet(chunks)})]

-----------------------------------------------------------------------------
(* The artifact of a code index.                                           *)

ChunkBefore(a, b) ==
  \/ a.file.at < b.file.at
  \/ a.file.at = b.file.at /\ (a.start < b.start \/ (a.start = b.start /\ a.id < b.id))
\* The sort is stable: of two that are alike, the one that was before.
SortChunks(chunks) ==
  LET place == Ranked(DOMAIN chunks, LAMBDA i, j : \/ ChunkBefore(chunks[i], chunks[j])
                                                   \/ ~ ChunkBefore(chunks[j], chunks[i]) /\ i < j)
  IN [k \in DOMAIN chunks |-> chunks[place[k]]]

ChunkLine(c) == [t |-> "chunk", sp |-> FALSE, chunk |-> c]
\* The edges are resolved over every indexed file, those without a chunk too.
GraphLine(imports, tokens) ==
  [t |-> "graph", sp |-> FALSE, nodes |-> tokens, edges |-> GraphBuild(imports, tokens)]
ImportsFromGraph(graph) == {<<e[1], e[2].stem>> : e \in graph.edges}

ManifestLine(m) == [t |-> "manifest", sp |-> FALSE, manifest |-> m]
Stream(a) == <<ManifestLine(a.manifest)>> \o [i \in DOMAIN a.chunks |-> ChunkLine(a.chunks[i])]
             \o <<GraphLine(a.imports, a.manifest.tokens)>>
ToBytes(a) == [lines |-> Stream(a), nl |-> TRUE]
Blanked(bytes) == [bytes EXCEPT !.lines[1].manifest.checksum = <<>>]
FromIndex(index, sha) ==
  LET chunks == SortChunks(index.chunks)
      a == [chunks |-> chunks, imports |-> index.imports,
            manifest |-> [sha |-> sha, count |-> Len(chunks), tokens |-> index.tokens, checksum |-> <<>>]]
  IN [a EXCEPT !.manifest.checksum = <<Blanked(ToBytes(a))>>]

\* The digest of what arrived, with the stored checksum blanked where the encoder
\* puts it; a re-encoding of what was parsed would re-resolve the graph.
ChecksumReencoded(bytes, a) == <<Blanked(ToBytes(a))>>
ChecksumOverReceived(bytes, a) == IF bytes.lines[1].sp THEN <<bytes>> ELSE <<Blanked(bytes)>>

Err == [ok |-> FALSE]
Shape(lines, kinds) == Len(lines) = Len(kinds) /\ \A i \in DOMAIN kinds : lines[i].t = kinds[i]
FromBytes(bytes) ==
  LET lines == bytes.lines
      n == lines[1].manifest.count
      a == [manifest |-> lines[1].manifest, chunks |-> [i \in 1..n |-> lines[i + 1].chunk],
            imports |-> ImportsFromGraph(lines[n + 2])]
  IN IF Len(lines) < 2 \/ lines[1].t # "manifest" THEN Err
     ELSE IF ~Shape(lines, <<"manifest">> \o [i \in 1..n |-> "chunk"] \o <<"graph">>) THEN Err
     ELSE IF ChecksumOverReceived(bytes, a) # a.manifest.checksum THEN Err
     ELSE [ok |-> TRUE, of |-> a]
IntoIndex(a) == Assemble(a.chunks, a.imports, a.manifest.tokens)

-----------------------------------------------------------------------------
(* The artifact of a knowledge store.                                      *)

DataAsOf(chunks) == Max({0} \cup {c.updated : c \in ToSet(chunks)})
KStream(a) == <<ManifestLine(a.manifest)>> \o [i \in DOMAIN a.chunks |-> ChunkLine(a.chunks[i])]
KToBytes(a) == [lines |-> KStream(a), nl |-> TRUE]
\* Over the re-encoding of what was parsed.
KComputedChecksum(a) == <<Blanked(KToBytes(a))>>
\* A store from before embeddings were kept is not published.
KFromStore(store, corpus) ==
  LET a == [chunks |-> store.chunks,
            manifest |-> [corpus |-> corpus, snapshot |-> store.snapshot, records |-> store.records,
                          count |-> Len(store.chunks), asof |-> DataAsOf(store.chunks), checksum |-> <<>>]]
  IN IF \E c \in ToSet(store.chunks) : ~c.embedded THEN Err
     ELSE [ok |-> TRUE, of |-> [a EXCEPT !.manifest.checksum = KComputedChecksum(a)]]
KFromBytes(bytes) ==
  LET lines == bytes.lines
      n == lines[1].manifest.count
      a == [manifest |-> lines[1].manifest, chunks |-> [i \in 1..n |-> lines[i + 1].chunk]]
  IN IF Len(lines) < 1 \/ lines[1].t # "manifest" THEN Err
     ELSE IF ~Shape(lines, <<"manifest">> \o [i \in 1..n |-> "chunk"]) THEN Err
     ELSE IF KComputedChecksum(a) # a.manifest.checksum THEN Err
     ELSE [ok |-> TRUE, of |-> a]
IntoStore(a) == [snapshot |-> a.manifest.snapshot, records |-> a.manifest.records, chunks |-> a.chunks]

-----------------------------------------------------------------------------
(* What may arrive in place of what was published: cut, joined, reordered,  *)
(* edited or written again by another program.                             *)

Damaged(bytes) ==
  LET ls == bytes.lines
      n == Len(ls)
  IN {[bytes EXCEPT !.nl = FALSE]}
     \cup {[bytes EXCEPT !.lines = SubSeq(ls, 1, k)] : k \in 1..(n - 1)}
     \cup {[bytes EXCEPT !.lines = RemoveAt(ls, k)] : k \in 1..n}
     \cup {[bytes EXCEPT !.lines = SubSeq(ls, 1, k) \o SubSeq(ls, k, n)] : k \in 1..n}
     \cup {[bytes EXCEPT !.lines[k] = ls[k + 1], !.lines[k + 1] = ls[k]] : k \in 1..(n - 1)}
     \cup {[bytes EXCEPT !.lines[k].sp = TRUE] : k \in 1..n}
     \cup {[bytes EXCEPT !.lines[k].t = "torn"] : k \in 1..n}
     \cup {[bytes EXCEPT !.lines[k].chunk.id = 99] : k \in {j \in 1..n : ls[j].t = "chunk"}}
     \cup {[bytes EXCEPT !.lines[1].manifest.count = c] : c \in (0..n) \ {bytes.lines[1].manifest.count}}
     \cup {[bytes EXCEPT !.lines[1].manifest.checksum = <<>>]}

\* A code artifact is taken exactly as it was published: its own bytes are always
\* accepted, whatever its import graph, and anything else is refused.
ArtifactExactOrRefused ==
  For("artifact") =>
    LET bytes == ToBytes(FromIndex(input.index, "sha"))
    IN /\ FromBytes(bytes).ok
       /\ \A b \in Damaged(bytes) : FromBytes(b).ok => b = bytes
\* Two builds of one tree publish the same bytes, in whatever order their chunks
\* were found.
SameIndexSameBytes ==
  For("artifact") =>
    ToBytes(FromIndex(input.index, "sha"))
    = ToBytes(FromIndex([input.index EXCEPT !.chunks = Reverse(@)], "sha"))
\* The only file of its name, and a file a module's name may resolve to: one of that
\* name or, where there is none, one whose path ends in it.
OwnName(f, files) == f \in files /\ \A g \in files : g.stem = f.stem => g = f
Answers(f, module, files) ==
  f \in files /\ (f.stem = module \/ (module \in f.ends /\ \A g \in files : g.stem # module))
\* A published edge whose target has a chunk and a name of its own is pulled as it was
\* sent.  Any other is resolved again from its target's name: it may lead to another file
\* of that name, to one whose path ends in it when no file with a chunk has it, or be lost,
\* because that file is the edge's source or there is none; no other edge comes up.  So with
\* a chunk in every file and no two of one name the pulled graph is the index's.
PulledGraphFaithful ==
  For("artifact") =>
    LET a == FromIndex(input.index, "sha")
        sent == GraphLine(a.imports, a.manifest.tokens).edges
        files == {c.file : c \in ToSet(input.index.chunks)}
        pulled == IntoIndex(FromBytes(ToBytes(a)).of).graph
    IN /\ \A s \in sent : OwnName(s[2], files) => s \in pulled
       /\ \A e \in pulled : e \in sent \/ \E s \in sent : /\ e[1] = s[1] /\ ~OwnName(s[2], files)
                                                           /\ Answers(e[2], s[2].stem, files)
       /\ \A s \in sent : \/ \E e \in pulled : e[1] = s[1] /\ Answers(e[2], s[2].stem, files)
                          \/ Answers(s[1], s[2].stem, files)
                          \/ \A f \in files : ~Answers(f, s[2].stem, files)
       /\ (\A f \in input.index.tokens : OwnName(f, files)) /\ files \subseteq input.index.tokens
          => pulled = input.index.graph
\* A knowledge artifact that is accepted installs the store that was published,
\* and a store without embeddings is never published.
KnowledgeExactOrRefused ==
  For("kartifact") =>
    LET a == KFromStore(input.store, "corpus")
        bytes == KToBytes(a.of)
    IN IF ~a.ok THEN \E c \in ToSet(input.store.chunks) : ~c.embedded
       ELSE /\ KFromBytes(bytes).ok
            /\ \A b \in Damaged(bytes) : KFromBytes(b).ok => IntoStore(KFromBytes(b).of) = input.store

ArtFile == <<[at |-> 1, stem |-> "ba", ends |-> {}], [at |-> 2, stem |-> "ba", ends |-> {"ba", "a"}],
             [at |-> 3, stem |-> "c", ends |-> {"c"}], [at |-> 4, stem |-> "a", ends |-> {"a"}]>>
ArtChunk(c, k) == [id |-> k, file |-> ArtFile[c.f], start |-> c.start]
\* A store from before file_tokens was kept has none; any other has its files', and
\* those of the files too small for a chunk.
ArtInputs ==
  {[of |-> "artifact", index |-> LET chunks == [k \in DOMAIN cs |-> ArtChunk(cs[k], k)]
                                 IN Assemble(chunks, imps, IF counted THEN more \cup {c.file : c \in ToSet(chunks)} ELSE {})]
   : cs \in UNION {[1..n -> [f : 1..3, start : {1, 5}]] : n \in 1..3}, counted \in BOOLEAN, more \in {{}, {ArtFile[4]}},
     imps \in SUBSET {<<ArtFile[3], "a">>, <<ArtFile[3], "ba">>, <<ArtFile[1], "a">>, <<ArtFile[1], "c">>}}
KArtInputs ==
  {[of |-> "kartifact", store |-> [snapshot |-> "s", records |-> 1, chunks |-> cs]]
   : cs \in UNION {[1..n -> [id : {1, 2}, updated : {0, 7}, embedded : BOOLEAN]] : n \in 0..2}}

-----------------------------------------------------------------------------
(* Identities and addresses.                                               *)

\* An origin is [form, user, port, abs, host, segs, git, slash]: a URL, an scp-style
\* or a plain path; with a user, a port, an absolute path, ".git", a final slash.
NormalizeRepoId(o) ==
  LET host == CASE o.form = "url" -> IF o.port THEN <<o.host, "_port">> ELSE <<o.host>>
                [] o.form = "scp" /\ (o.user \/ ~o.abs) -> <<o.host>>
                [] o.form = "scp" /\ ~o.user /\ o.abs -> <<o.host, "_">>    \* taken for a path
                [] OTHER -> <<>>
  IN host \o o.segs \o (IF o.git /\ o.slash THEN <<".git">> ELSE <<>>)
\* Every usual spelling of a repository's origin names one repository, and the
\* origins of two repositories name two.
SameOriginSameId ==
  For("origin") =>
    LET usual(o) == ~o.port /\ ~(o.git /\ o.slash) /\ o.form # "path" /\ (o.form = "scp" => (o.user \/ ~o.abs))
    IN usual(input.a) /\ usual(input.b) =>
         (NormalizeRepoId(input.a) = NormalizeRepoId(input.b)
          <=> input.a.host = input.b.host /\ input.a.segs = input.b.segs)
Origin == [form : {"url", "scp", "path"}, user : BOOLEAN, port : BOOLEAN, abs : BOOLEAN, host : {"h"},
           segs : {<<"o", "r">>, <<"o">>}, git : BOOLEAN, slash : BOOLEAN]
OriginInputs == {[of |-> "origin", a |-> a, b |-> b] : a \in Origin, b \in {o \in Origin : ~o.port /\ ~o.slash /\ ~o.git}}

\* An id is the sequence of path components its characters make.
Sanitized(id) == \A k \in DOMAIN id : id[k] # "a b"
IsValidIdSegment(id) == id # <<>> /\ Sanitized(id) /\ Len(id) = 1 /\ id[1] \notin {".", ".."}
ContentAddress(id, sha) == <<"hash", "version">> \o id \o <<sha>>
PointerAddress(id, ref) == <<"hash", "version">> \o id \o <<"refs", ref>>
WorkspaceAddress(id, file) == <<"hash", "version">> \o id \o <<file>>
KnowledgeAddress(id, file) == <<"knowledge", "contract">> \o id \o <<file>>
\* Where the file system takes a path.
Walked(path) ==
  FoldLeft(LAMBDA at, s : CASE s = "." -> at
                            [] s = ".." -> IF at = <<>> THEN at ELSE Front(at)
                            [] OTHER -> Append(at, s), <<>>, path)
Addresses(id) == {ContentAddress(id, "sha"), PointerAddress(id, "main"), WorkspaceAddress(id, "workspace.yml"),
                  WorkspaceAddress(id, "workspace-graph.json"), KnowledgeAddress(id, "snap"),
                  KnowledgeAddress(id, "current"), KnowledgeAddress(id, "corpus.json")}
\* Nothing published under one accepted id can be read, replaced or pruned under
\* another, or from outside its own directory.
AddressStaysHome ==
  For("address") /\ IsValidIdSegment(input.id) =>
      /\ \A p \in Addresses(input.id) : IsPrefix(SubSeq(p, 1, 2) \o input.id, Walked(p))
      /\ \A other \in input.others \ {input.id} : IsValidIdSegment(other) =>
           {Walked(p) : p \in Addresses(input.id)} \cap {Walked(p) : p \in Addresses(other)} = {}
AddressId == {<<>>, <<".">>, <<"..">>, <<"a">>, <<"b">>, <<"a", "b">>, <<"..", "b">>, <<"a b">>, <<"refs">>}
AddressInputs == [of : {"address"}, id : AddressId, others : {AddressId}]

\* An artifact arrives as it was sent or is refused, is the same bytes from every machine, and has
\* one address inside the cache.
ArtifactsFaithful ==
  /\ ArtifactExactOrRefused
  /\ SameIndexSameBytes
  /\ PulledGraphFaithful
  /\ KnowledgeExactOrRefused
  /\ SameOriginSameId
  /\ AddressStaysHome
=============================================================================
