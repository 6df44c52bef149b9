------------------------------- MODULE Health -------------------------------
(***************************************************************************)
(* What cce says about what it has: `cce doctor` (src/doctor.rs,           *)
(* src/fingerprint.rs), `cce sync verify` with and without a rebuild,      *)
(* `cce sync status` and `cce sync list` (src/sync/commands.rs).  Bytes    *)
(* are named, a digest of bytes is the name.                               *)
(***************************************************************************)
EXTENDS Integers, SequencesExt, FiniteSetsExt, Collections, Inputs

-----------------------------------------------------------------------------
(* A store, its fingerprint and its sync marker.                           *)

\* This binary's rules and another's: the dimension it embeds at, its packs, tokenizer and
\* nesting limit.
HashDim(binary) == binary.dim
NoStore == [there |-> FALSE, bytes |-> "none", parses |-> FALSE, embedder |-> "hash", dims |-> <<>>]
FirstDim(dims) == LET full == {i \in DOMAIN dims : dims[i] > 0} IN IF full = {} THEN 0 ELSE dims[Min(full)]
FingerprintFor(store, redaction, binary) ==
  [state |-> "read", seal |-> "sealed", store |-> store.bytes, embedder |-> store.embedder,
   dim |-> IF store.embedder = "hash" THEN HashDim(binary) ELSE FirstDim(store.dims),
   packs |-> binary.packs, tokenizer |-> binary.tokenizer, nesting |-> binary.nesting,
   sections |-> binary.sections, redaction |-> redaction]
\* An edit without a new seal breaks it.
Edited(fp, packs) == [fp EXCEPT !.packs = packs, !.seal = "broken"]

Nothing == [failures |-> 0, advisories |-> 0]
Noted(r, failing, advising) == [failures |-> r.failures + Cardinality({i \in DOMAIN failing : failing[i]}),
                                 advisories |-> r.advisories + Cardinality({i \in DOMAIN advising : advising[i]})]
CompareFields(r, fp, store, binary) ==
  Noted(r, <<fp.store # store.bytes, store.parses /\ fp.embedder # store.embedder,
             fp.embedder = "hash" /\ fp.dim # HashDim(binary), fp.packs # binary.packs,
             fp.tokenizer # binary.tokenizer, fp.nesting # binary.nesting>>,
           <<fp.sections # binary.sections, ~ fp.redaction, fp.embedder = "ollama">>)
\* The fingerprint against the store and against this binary.
CheckFingerprint(r, fp, store, binary) ==
  IF fp.seal # "sealed" THEN Noted(r, <<TRUE>>, <<>>) ELSE CompareFields(r, fp, store, binary)
\* The store itself: it reads, it parses, and its vectors are of one space.
CheckStore(r, d, binary) ==
  LET s == d.store
      dims == ToSet(s.dims) \ {0}
      own == Noted(r, <<s.parses /\ 0 \in ToSet(s.dims),
                         s.parses /\ Cardinality(dims) > 1,
                         s.parses /\ s.embedder = "hash" /\ Cardinality(dims) = 1 /\ HashDim(binary) \notin dims,
                         ~ s.parses>>, <<>>)
  IN IF ~ s.there THEN Noted(r, <<TRUE>>, <<>>)
     ELSE CASE d.fp.state = "corrupt" -> Noted(own, <<TRUE>>, <<>>)
            [] d.fp.state = "none" -> Noted(own, <<>>, <<TRUE>>)
            [] OTHER -> CheckFingerprint(own, d.fp, s, binary)

\* The marker, read tolerantly: a corrupt one is no marker.
LoadMarker(mk) == mk.state = "read"
NotThereIsFine(d) ==
  IF ~ LoadMarker(d.marker) THEN "nothing" ELSE IF d.marker.installed = "none" \/ ~ d.store.there THEN "no record"
  ELSE IF d.store.bytes = d.marker.installed THEN "ok" ELSE "failed"
VerifyStoreChecksum(d) ==
  IF ~ LoadMarker(d.marker) THEN "nothing"
  ELSE IF d.marker.installed = "none" THEN "no record"
  ELSE IF d.store.there /\ d.store.bytes = d.marker.installed THEN "ok" ELSE "failed"
VerifyKnowledgeChecksum(k) ==
  IF ~ LoadMarker(k.marker) THEN "nothing"
  ELSE IF k.marker.installed = "none" THEN "no record"
  ELSE IF k.there /\ k.bytes = k.marker.installed THEN "ok" ELSE "failed"
Verdict(r, v) == Noted(r, <<v = "failed">>, <<v = "no record">>)
\* A store without a marker was built here.
CheckSyncMarker(r, d) == IF ~ LoadMarker(d.marker) THEN r ELSE Verdict(r, VerifyStoreChecksum(d))
\* The knowledge store, when a snapshot is active: it loads, it speaks this contract, what
\* it holds is scrubbed (one advisory for all facets, one for each id), its bytes are the pulled ones.
CheckKnowledgeScrub(r, k) == [r EXCEPT !.advisories = @ + (IF k.facets = {} THEN 0 ELSE 1) + Cardinality(k.ids)]
CheckKnowledge(r, k) ==
  IF ~ k.pointer THEN r
  ELSE LET loaded == IF ~ k.loads THEN Noted(r, <<TRUE>>, <<>>) ELSE CheckKnowledgeScrub(Noted(r, <<k.schema # "v1">>, <<>>), k)
       IN Verdict(loaded, VerifyKnowledgeChecksum(k))
\* A workspace member by member, a corrupt manifest is the one failure; a directory without
\* store and without knowledge is an error of its own.
Doctor(root, binary) ==
  LET members == FoldLeft(LAMBDA r, n : CheckSyncMarker(CheckStore(r, root.members[n], binary), root.members[n]), Nothing,
                          SetToSeq(DOMAIN root.members))
      own == IF root.dir.store.there THEN CheckSyncMarker(CheckStore(Nothing, root.dir, binary), root.dir) ELSE Nothing
      report(r) == [ok |-> TRUE, failures |-> r.failures, advisories |-> r.advisories]
  IN CASE root.manifest = "ok" -> report(CheckKnowledge(members, root.knowledge))
       [] root.manifest = "corrupt" -> report(Noted(Nothing, <<TRUE>>, <<>>))
       [] OTHER -> IF ~ root.dir.store.there /\ ~ root.knowledge.pointer THEN [ok |-> FALSE, failures |-> 0, advisories |-> 0]
                   ELSE report(CheckKnowledge(own, root.knowledge))
Healthy(out) == out.ok /\ out.failures = 0

\* sync verify --checksum-only: knowledge first, then every member (or this directory; a
\* manifest that does not load counts as none); the first failure is the answer, and which
\* member comes first in the manifest is left open.
CmdVerifyChecksumOnly(root) ==
  LET k == VerifyKnowledgeChecksum(root.knowledge)
      bad == {VerifyStoreChecksum(root.members[m]) : m \in DOMAIN root.members} \cap {"failed", "nothing"}
      own == VerifyStoreChecksum(root.dir)
      n(v) == Cardinality({m \in DOMAIN root.members : VerifyStoreChecksum(root.members[m]) = v})
      all(out) == [out |-> out, verified |-> n("ok"), unrecorded |-> n("no record") + (IF k = "no record" THEN 1 ELSE 0)]
      one(out) == [out |-> out, verified |-> IF out = "ok" THEN 1 ELSE 0, unrecorded |-> IF out = "no record" THEN 1 ELSE 0]
  IN IF k = "failed" THEN one("failed")
     ELSE IF root.manifest = "ok" THEN all(IF bad = {} THEN "ok" ELSE CHOOSE v \in bad : TRUE)
     ELSE IF own = "nothing" /\ k # "nothing" THEN one(k)
     ELSE one(own)
\* sync verify: the checksum pulled (or published) for the sha against a rebuild of the
\* working tree.
CmdVerify(v) ==
  LET sha == IF v.commit # "none" THEN v.commit ELSE IF v.marker.state = "read" THEN v.marker.sha ELSE v.head
      expected == IF v.marker.state = "read" /\ v.marker.sha = sha THEN v.marker.checksum
                  ELSE IF v.remote /\ v.reachable /\ sha \in DOMAIN v.published THEN v.published[sha] ELSE "unknown"
  IN IF ~ v.id_valid \/ sha = "none" \/ expected = "unknown" THEN "error"
     ELSE IF v.rebuilt = expected THEN "ok" ELSE "failed"
\* The marker against the remote's main pointer, where both are known.
Freshness(v) ==
  LET latest == IF v.remote /\ v.id_valid /\ v.reachable THEN v.latest ELSE "unknown"
  IN [source |-> IF v.marker.state = "read" THEN "pulled" ELSE "local", latest |-> latest,
      behind |-> v.marker.state = "read" /\ latest # "unknown" /\ v.marker.sha # latest]
\* The lines of sync status, down to the first thing it cannot tell.
CmdStatus(v) ==
  IF ~ v.remote THEN <<"no remote">>
  ELSE IF ~ v.id_valid THEN <<"remote", "unresolved id">>
  ELSE <<"remote", "id", IF v.marker.state = "read" THEN v.marker.sha ELSE "none pulled",
         IF ~ v.reachable THEN "unreachable" ELSE IF v.latest = "unknown" THEN "no pointer" ELSE v.latest,
         IF v.head = "none" THEN "no checkout" ELSE v.head>>

-----------------------------------------------------------------------------
(* sync list.                                                              *)

\* Why a repository has no row: it is only a workspace's manifest.
OnlyManifest(p) == p.manifest /\ p.shas = {} /\ p.latest = "none"
\* The ref whose sha is shown: main, else the only one.
ChosenRef(refs) == IF "main" \in DOMAIN refs THEN {"main"} ELSE IF Cardinality(DOMAIN refs) = 1 THEN DOMAIN refs ELSE {}
RepoRow(p) ==
  LET chosen == ChosenRef(p.refs)
      latest == IF chosen = {} THEN "none" ELSE p.refs[CHOOSE r \in chosen : TRUE]
  IN [latest |-> latest, ref |-> IF latest # "none" THEN chosen \ {"main"} ELSE {}, refs |-> DOMAIN p.refs,
      artifacts |-> Cardinality(p.shas), bytes |-> 10 * Cardinality(p.shas), manifest |-> p.manifest, shas |-> p.shas]
ListKnowledge(corpora) == [c \in DOMAIN corpora |-> [current |-> corpora[c].current, snapshots |-> Cardinality(corpora[c].snapshots),
                                                   as_of |-> IF corpora[c].meta THEN "as-of" ELSE "none"]]
CmdList(cache) ==
  LET row == [r \in DOMAIN cache.repos |-> RepoRow(cache.repos[r])]
  IN [repos |-> [r \in {x \in DOMAIN row : ~ OnlyManifest(row[x])} |-> row[r]],
      workspaces |-> {r \in DOMAIN row : row[r].manifest}, knowledge |-> ListKnowledge(cache.corpora)]
\* For a person a table with totals, or a sentence when there is no row; for a program the rows.
RenderListHuman(l) ==
  LET shown == [r \in DOMAIN l.repos |-> l.repos[r].artifacts]
  IN IF DOMAIN l.repos = {} THEN [empty |-> DOMAIN l.knowledge = {}, rows |-> {}, artifacts |-> 0, corpora |-> DOMAIN l.knowledge]
     ELSE [empty |-> FALSE, rows |-> DOMAIN l.repos, artifacts |-> Total(shown, DOMAIN l.repos), corpora |-> DOMAIN l.knowledge]
RenderListJson(l) == [repos |-> [r \in DOMAIN l.repos |-> [latest |-> l.repos[r].latest, ref |-> l.repos[r].ref, artifacts |-> l.repos[r].artifacts]],
                      knowledge |-> l.knowledge]

-----------------------------------------------------------------------------
(* Properties.                                                             *)

\* A store built here and left alone is healthy to the binary that built it, and any later
\* difference is a failure: other rules in the binary, other bytes in the store, an edited
\* or unreadable fingerprint; a missing one and a change of the split budget are told too.
DriftNeverSilent ==
  For("drift") =>
    LET s == input.store
        fp == FingerprintFor(s, TRUE, input.built)
        look(store, f, binary) == CheckStore(Nothing, [store |-> store, fp |-> f], binary)
        rules(b) == <<b.packs, b.tokenizer, b.nesting, IF s.embedder = "hash" THEN b.dim ELSE 0>>
        now == look(s, fp, input.now)
    IN /\ (now.failures = 0) <=> (rules(input.now) = rules(input.built))
       /\ (input.now.sections # input.built.sections) => now.advisories > 0
       /\ look([s EXCEPT !.bytes = "other"], fp, input.now).failures > 0
       /\ look([s EXCEPT !.parses = FALSE, !.bytes = "other"], fp, input.now).failures > 1
       /\ look(s, Edited(fp, input.now.packs), input.now).failures > 0
       /\ look(s, [state |-> "corrupt"], input.now).failures > 0
       /\ look(s, [state |-> "none"], input.now).advisories > 0
\* Bytes that are not the ones pulled are found by both commands, and what doctor calls
\* healthy verify does not call failed, for every store that is there and every active
\* knowledge snapshot; and verify says OK only where every recorded store is there.
TamperingFound ==
  For("root") =>
    LET root == input.root
        out == Doctor(root, input.now)
        v == CmdVerifyChecksumOnly(root)
        dirs == IF root.manifest = "ok" THEN {root.members[n] : n \in DOMAIN root.members} ELSE {root.dir}
        changed(d) == d.marker.state = "read" /\ d.marker.installed # "none" /\ d.marker.installed # d.store.bytes
        kchanged == root.knowledge.marker.state = "read" /\ root.knowledge.marker.installed \notin {"none", root.knowledge.bytes}
    IN root.manifest # "corrupt" =>
         /\ (\E d \in dirs : changed(d) /\ d.store.there) \/ (kchanged /\ root.knowledge.pointer) => ~ Healthy(out) /\ v.out \in {"failed", "nothing"}
         /\ (Healthy(out) /\ (\A d \in dirs : d.store.there) /\ root.knowledge.pointer) => v.out # "failed"
         /\ v.out = "ok" => \A d \in dirs : d.marker.state = "read" /\ d.marker.installed # "none" => d.store.there /\ ~ changed(d)
\* Nothing published is hidden: every repository with an artifact or a pointer has a row,
\* the rows' artifacts are all of them, the sha shown is one that a pull of the ref named
\* beside it (or of main) gets, and the table and the JSON tell of the same rows.
ListHidesNothing ==
  For("cache") =>
    LET l == CmdList(input.cache)
        repos == input.cache.repos
        human == RenderListHuman(l)
    IN /\ \A r \in DOMAIN repos : repos[r].shas # {} \/ RepoRow(repos[r]).latest # "none" => r \in DOMAIN l.repos
       /\ human.rows = DOMAIN RenderListJson(l).repos
       /\ human.rows # {} => human.artifacts = Total([r \in DOMAIN repos |-> Cardinality(repos[r].shas)], DOMAIN repos)
       /\ \A r \in DOMAIN l.repos : l.repos[r].latest # "none" =>
            l.repos[r].latest = repos[r].refs[IF l.repos[r].ref = {} THEN "main" ELSE CHOOSE x \in l.repos[r].ref : TRUE]
       /\ human.corpora = DOMAIN input.cache.corpora
\* A rebuild is trusted only against the sha it is for: verify says OK when the working
\* tree builds what was pulled or published for that very sha, and freshness, status and
\* verify never disagree on what was pulled.
VerifyNamesItsSha ==
  For("verify") =>
    LET v == input.v
        asked == IF v.commit # "none" THEN v.commit ELSE IF v.marker.state = "read" THEN v.marker.sha ELSE v.head
        f == Freshness(v)
    IN /\ CmdVerify(v) = "ok" =>
            v.rebuilt \in {v.published[s] : s \in DOMAIN v.published \cap {asked}} \cup (IF v.marker.state = "read" /\ v.marker.sha = asked THEN {v.marker.checksum} ELSE {})
       /\ f.behind => /\ f.source = "pulled" /\ v.marker.sha \in ToSet(CmdStatus(v)) /\ f.latest \in ToSet(CmdStatus(v))
       /\ (v.remote /\ v.id_valid /\ v.reachable /\ v.marker.state = "read" /\ ~ f.behind) => v.latest \in {"unknown", v.marker.sha}

-----------------------------------------------------------------------------
Partial(D, S) == UNION {[K -> S] : K \in SUBSET D}
Binaries == [dim : {4, 5}, packs : {1, 2}, tokenizer : {1, 2}, nesting : {1, 2}, sections : {1, 2}]
DriftInputs ==
  {[of |-> "drift", built |-> b, now |-> n, store |-> [there |-> TRUE, bytes |-> "b1", parses |-> TRUE, embedder |-> e[1],
     dims |-> IF e[1] = "hash" THEN [i \in 1..e[2] |-> b.dim] ELSE <<3, 3>>]] :
     b \in Binaries, n \in Binaries, e \in {<<"hash", 0>>, <<"hash", 2>>, <<"ollama", 2>>}}
RootInputs ==
  LET now == [dim |-> 4, packs |-> 1, tokenizer |-> 1, nesting |-> 1, sections |-> 1]
      store(b) == [there |-> TRUE, bytes |-> b, parses |-> b # "junk", embedder |-> "hash", dims |-> <<4>>]
      marks == {[state |-> "none"], [state |-> "corrupt"], [state |-> "read", installed |-> "none"], [state |-> "read", installed |-> "b1"]}
      dirs == {[store |-> NoStore, fp |-> [state |-> "none"], marker |-> k] : k \in marks}
              \cup UNION {{[store |-> store(b), fp |-> f, marker |-> k] : f \in {[state |-> "none"], FingerprintFor(store(b), TRUE, now)}, k \in marks} :
                           b \in {"b1", "b2", "junk"}}
      known == {[pointer |-> p, there |-> b # "none", bytes |-> b, loads |-> b \in {"b1", "b2"}, schema |-> "v1",
                 facets |-> IF b = "b2" THEN {"title"} ELSE {}, ids |-> {}, marker |-> k] :
                  p \in BOOLEAN, b \in {"none", "b1", "b2"}, k \in marks \ {[state |-> "corrupt"]}}
      clean == [store |-> store("b1"), fp |-> FingerprintFor(store("b1"), TRUE, now), marker |-> [state |-> "none"]]
  IN {[of |-> "root", now |-> now, root |-> [manifest |-> "ok", members |-> [n \in {"m1", "m2"} |-> IF n = "m1" THEN a ELSE b],
                                            dir |-> clean, knowledge |-> k]] : a \in dirs, b \in dirs, k \in known}
     \cup {[of |-> "root", now |-> now, root |-> [manifest |-> m, members |-> <<>>, dir |-> d, knowledge |-> k]] :
             m \in {"none", "corrupt"}, d \in dirs, k \in known}
CacheInputs ==
  LET repo == {[shas |-> S, refs |-> f, manifest |-> m] : S \in SUBSET {"s1", "s2"}, f \in Partial({"main", "dev"}, {"s1", "none"}), m \in BOOLEAN}
      corpus == [current |-> "k1", snapshots |-> {"k1"}, meta |-> TRUE]
  IN {[of |-> "cache", cache |-> [repos |-> [x \in {"r1", "r2"} |-> IF x = "r1" THEN a ELSE b], corpora |-> [c \in C |-> corpus]]] :
        a \in repo, b \in repo, C \in SUBSET {"c1"}}
VerifyInputs ==
  {[of |-> "verify", v |-> v] :
     v \in [commit : {"none", "s1", "s2"}, head : {"none", "s1"}, published : Partial({"s1", "s2"}, {"c1", "c2"}), rebuilt : {"c1", "c2"},
            id_valid : BOOLEAN, remote : BOOLEAN, reachable : BOOLEAN, latest : {"unknown", "s1", "s2"},
            marker : {[state |-> "none"]} \cup [state : {"read"}, sha : {"s1", "s2"}, checksum : {"c1", "c2"}]]}

\* A store that its binary, its marker or its bytes no longer match is never called healthy, and
\* nothing on the cache is hidden.
HealthTold == DriftNeverSilent /\ TamperingFound /\ ListHidesNothing /\ VerifyNamesItsSha
=============================================================================
