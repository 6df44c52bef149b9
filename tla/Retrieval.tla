----------------------------- MODULE Retrieval -----------------------------
(***************************************************************************)
(* Search over an index: BM25 (src/keyword_store.rs), cosine ranking       *)
(* (src/vector_store.rs), their fusion, the per-file cap and the import    *)
(* graph bonus (src/retriever.rs, src/graph_store.rs), and the federated   *)
(* search of a workspace (src/federation.rs).                              *)
(*                                                                         *)
(* Scores are integers in ten-thousandths, each term rounded down.  A file *)
(* is a number whose tens are its member, so that namespacing keeps the    *)
(* order of paths; a chunk carries its cosine with the query.              *)
(***************************************************************************)
EXTENDS Collections, SequencesExt, Inputs

CONSTANTS MaxChunksPerFile, CandidateMultiplier, GraphMaxBonusFiles,
          GraphMaxBonusMembers, GraphBonusMemberChunks

ASSUME RetrievalAssumption ==
  {MaxChunksPerFile, CandidateMultiplier, GraphMaxBonusFiles, GraphMaxBonusMembers,
   GraphBonusMemberChunks} \subseteq Nat \ {0}

One == 10000
Take(s, n) == SubSeq(s, 1, IF n < Len(s) THEN n ELSE Len(s))
\* The positions in `idx`, best score first, then smallest id, then (the sorts are
\* stable) the order they were in.
SortBy(idx, score, id) ==
  LET Higher(i, j) == score[i] > score[j] \/ (score[i] = score[j] /\ id[i] < id[j]) IN Sorted(idx, Higher)
\* The numbers of a set, the smallest first.
Ascending(S) == Ranked(S, <)
FieldOf(s, f) == [i \in DOMAIN s |-> s[i][f]]
Positions(s) == [i \in DOMAIN s |-> i]

-----------------------------------------------------------------------------
(* BM25 over documents that are sequences of tokens.                       *)

\* ln(1 + (n - df + 0.5) / (df + 0.5)) in thousandths, for n = 1, 2, 3.
IdfTable == <<<<288>>, <<693, 182>>, <<981, 470, 134>>>>
Bm25Build(docs) ==
  [n |-> Len(docs), total |-> FoldLeft(LAMBDA sum, d : sum + Len(d), 0, docs),
   df |-> [t \in UNION {ToSet(docs[i]) : i \in DOMAIN docs} |->
             Cardinality({i \in DOMAIN docs : t \in ToSet(docs[i])})]]
Idf(b, t) == IdfTable[b.n][b.df[t]]
\* Terms no document or not this one contains add nothing (and never divide by a
\* zero average length).
Freq(doc, t) == Cardinality({i \in DOMAIN doc : doc[i] = t})
TermScore(b, doc, t, freq) ==
  IF freq = 0 THEN 0 ELSE (Idf(b, t) * freq * 2200) \div (freq * 1000 + 300 + (900 * Len(doc) * b.n) \div b.total)
ScoreDoc(b, doc, query) == FoldLeft(LAMBDA sum, t : TermScore(b, doc, t, Freq(doc, t)) + sum, 0, query)
Bm25Ranked(scores) == SortBy(Ascending({i \in DOMAIN scores : scores[i] > 0}), scores, Positions(scores))
Bm25Score(docs, query) == LET b == Bm25Build(docs) IN Bm25Ranked([i \in DOMAIN docs |-> ScoreDoc(b, docs[i], query)])

\* A document is found exactly when it holds a word of the query, however common
\* the word is; and one that says every query word at least as often in as many
\* words is never ranked below.
KeywordHitsRanked ==
  For("bm25") =>
    \A ranked \in {Bm25Score(input.docs, input.query)} :
      /\ ToSet(ranked) = {i \in DOMAIN input.docs : ToSet(input.docs[i]) \cap ToSet(input.query) # {}}
      /\ \A x, y \in DOMAIN ranked :
           /\ Len(input.docs[ranked[x]]) = Len(input.docs[ranked[y]]) /\ ranked[x] < ranked[y]
           /\ \A t \in ToSet(input.query) : Freq(input.docs[ranked[x]], t) >= Freq(input.docs[ranked[y]], t)
           => x < y
Bm25Inputs ==
  [of : {"bm25"}, docs : [1..3 -> UNION {[1..n -> {"a", "b"}] : n \in 0..2}],
   query : {<<"a">>, <<"b", "a">>, <<"c", "a">>}]

-----------------------------------------------------------------------------
(* Fusion.  q = [words, vector, code, topk]: whether the query has words,   *)
(* embeds and looks for code, and how many results are wanted.             *)

Rank(s, i) == IF i \in ToSet(s) THEN CHOOSE k \in DOMAIN s : s[k] = i ELSE 0
RankByCosine(chunks) ==
  SortBy(Positions(chunks), FieldOf(chunks, "cos"), FieldOf(chunks, "id"))
VectorCandidates(chunks, q) ==
  IF ~q.vector THEN <<>>
  ELSE Take(RankByCosine(chunks), IF q.topk = 0 THEN 1 ELSE q.topk * CandidateMultiplier)
KeywordCandidates(chunks, q) ==
  Take(SortBy(Ascending({i \in DOMAIN chunks : chunks[i].kw > 0}), FieldOf(chunks, "kw"), FieldOf(chunks, "id")),
       q.topk * CandidateMultiplier)
Rrf(v, f, i, code) ==
  (IF i \in ToSet(v) THEN 1000000 \div (59 + Rank(v, i)) ELSE 0)
  + (IF i \in ToSet(f) THEN (IF code THEN 1500000 ELSE 1000000) \div (59 + Rank(f, i)) ELSE 0)

Hinted(c) == c.file % 10 = 3      \* the query names the file, or part of a word
Confidence(c) ==
  ((One + c.cos) \div 2) \div 2                                 \* W_VECTOR * vector_score
  + ((IF c.kw > 0 \/ Hinted(c) THEN One ELSE (3 * One) \div 5) * 2) \div 5   \* W_KEYWORD * keyword_score
Penalised(c) == c.file % 10 = 2   \* a path under tests/, docs/, ...
FinalScore(c, rrf, max) ==
  LET s == (Confidence(c) + (IF max = 0 THEN 0 ELSE (rrf * One) \div max)) \div 2
  IN IF Penalised(c) THEN (s * 4) \div 5 ELSE s

\* The per-file cap, walking down the ranking until top_k are kept.
UnderCap(scored, chunks) ==
  {k \in DOMAIN scored : Cardinality({j \in 1..k : chunks[scored[j]].file = chunks[scored[k]].file}) <= MaxChunksPerFile}
KeepCountsSkipped(scored, chunks, topk) == Picked(scored, UnderCap(scored, chunks) \cap 1..topk)
Keep(scored, chunks, topk) == Take(Picked(scored, UnderCap(scored, chunks)), topk)
\* rank_core; `order` is the order in which the hash maps hand out the candidates.
Candidates(chunks, q) == ToSet(VectorCandidates(chunks, q)) \cup ToSet(KeywordCandidates(chunks, q))
RrfScores(v, f, among, code) == [i \in among |-> Rrf(v, f, i, code)]
FinalScores(chunks, rrf) ==
  LET max == Max({0} \cup {rrf[i] : i \in DOMAIN rrf}) IN [i \in DOMAIN rrf |-> FinalScore(chunks[i], rrf[i], max)]
RankScores(chunks, q, among) ==
  FinalScores(chunks, RrfScores(VectorCandidates(chunks, q), KeywordCandidates(chunks, q), among, q.code))
RankCore(chunks, q, order) ==
  IF ~q.words THEN <<>>
  ELSE Keep(SortBy(order, RankScores(chunks, q, ToSet(order)), FieldOf(chunks, "id")), chunks, q.topk)
AnyOrder(chunks, q) == SetToSeq(Candidates(chunks, q))

\* Two processes answer a query alike: no result depends on the order of a hash
\* map, not even for the copies of one chunk in two members, which share an id. (An
\* id covers a path, lines and the first 100 bytes: chunks that share one and
\* differ further on may tie, and then the order does show.)
RankIgnoresHashOrder ==
  For("rank") /\ (\A i, j \in DOMAIN input.chunks : input.chunks[i].id = input.chunks[j].id =>
                    input.chunks[i].cos = input.chunks[j].cos /\ input.chunks[i].kw = input.chunks[j].kw) =>
    Cardinality({RankCore(input.chunks, input.q, order) : order \in SetToSeqs(Candidates(input.chunks, input.q))}) = 1

\* The cap leaves no place empty that another file could fill, and skips only
\* chunks of a file that has its share.
CapWastesNoPlace ==
  For("rank") =>
    \A kept \in {RankCore(input.chunks, input.q, AnyOrder(input.chunks, input.q))} :
      LET fileOf(i) == input.chunks[i].file
          share(f) == Cardinality({i \in ToSet(kept) : fileOf(i) = f})
      IN /\ \A i \in ToSet(kept) : share(fileOf(i)) <= MaxChunksPerFile
         /\ Len(kept) < input.q.topk /\ input.q.words =>
              \A i \in Candidates(input.chunks, input.q) \ ToSet(kept) : share(fileOf(i)) = MaxChunksPerFile
RankChunk == [file : {12, 13, 21}, cos : {0, 5000}, kw : 0..2]
Third == [file : {21}, cos : {0, 5000}, kw : {1}] \cup [file : {12}, cos : {5000}, kw : {0}]
\* Whether the query has words, a vector, and the look of code.
QueryKind == {<<TRUE, TRUE, TRUE>>, <<TRUE, TRUE, FALSE>>, <<TRUE, FALSE, FALSE>>, <<FALSE, TRUE, FALSE>>}
RankInputs ==
  {[of |-> "rank", q |-> [words |-> kind[1], vector |-> kind[2], code |-> kind[3], topk |-> k],
    chunks |-> [i \in 1..3 |-> [id |-> ids[i], file |-> cs[i].file, start |-> i, cos |-> cs[i].cos, kw |-> cs[i].kw]]]
   : kind \in QueryKind, k \in 1..2, ids \in {<<2, 3, 1>>, <<1, 1, 2>>}, cs \in RankChunk \X RankChunk \X Third}

-----------------------------------------------------------------------------
(* The import graph.                                                       *)

Neighbors(graph, f) == {g \in UNION {{e[1], e[2]} : e \in graph} : <<f, g>> \in graph \/ <<g, f>> \in graph}

Key(c) == <<c.file, c.start>>
MemberOf(file) == file \div 10
\* The distinct files (members) of the first three results, in order.
TopOf(names) == FoldLeft(LAMBDA seen, n : IF n \in ToSet(seen) THEN seen ELSE Append(seen, n), <<>>, Take(names, 3))
TopMembers(results) == TopOf([k \in DOMAIN results |-> MemberOf(results[k].file)])
\* Chunks of a file (member) to add: the best few by cosine that are not there yet.
Bonus(chunks, at, n, results) ==
  FoldLeft(LAMBDA rs, i : IF Key(chunks[i]) \in {Key(rs[k]) : k \in DOMAIN rs} THEN rs ELSE Append(rs, chunks[i]),
           results, Take(SortBy(at, FieldOf(chunks, "cos"), FieldOf(chunks, "id")), n))
InFile(chunks, f) == Ascending({i \in DOMAIN chunks : chunks[i].file = f})
InMember(chunks, m) == Ascending({i \in DOMAIN chunks : MemberOf(chunks[i].file) = m})
ExpandGraph(chunks, graph, results) ==
  LET there == {results[k].file : k \in DOMAIN results}
      near == FoldLeft(LAMBDA acc, f : acc \o Ascending(Neighbors(graph, f) \ (there \cup ToSet(acc))),
                      <<>>, TopOf(FieldOf(results, "file")))
  IN FoldLeft(LAMBDA rs, f : Bonus(chunks, InFile(chunks, f), 2, rs),
             results, Take(near, GraphMaxBonusFiles))

-----------------------------------------------------------------------------
(* Federation.  A member is [name, package, chunks, graph]; `deps` are the  *)
(* edges of workspace-graph.json.                                          *)

SharedFileNames(members) ==
  [chunks |-> FlattenSeq([k \in DOMAIN members |-> members[k].chunks]),
   graph |-> UNION {members[k].graph : k \in DOMAIN members}]
CombinedIndex(members) ==
  [chunks |-> FlattenSeq([k \in DOMAIN members |->
      [i \in DOMAIN members[k].chunks |->
         [members[k].chunks[i] EXCEPT !.file = members[k].name * 10 + @]]]),
   graph |-> UNION {{<<members[k].name * 10 + e[1], members[k].name * 10 + e[2]>> : e \in members[k].graph}
                    : k \in DOMAIN members}]
\* Members the top results depend on and that have no result yet.
CrossTargets(deps, sources, results) ==
  LET there == {MemberOf(results[k].file) : k \in DOMAIN results}
      targets(m) == {e[2] : e \in {d \in deps : d[1] = m}}
  IN Take(FoldLeft(LAMBDA acc, m : acc \o Ascending(targets(m) \ (there \cup ToSet(acc))), <<>>, sources),
          GraphMaxBonusMembers)
CrossMemberExpand(chunks, deps, sources, results) ==
  FoldLeft(LAMBDA rs, t : Bonus(chunks, InMember(chunks, t), GraphBonusMemberChunks, rs),
          results, CrossTargets(deps, sources, results))
Chosen(chunks, idx) == [k \in DOMAIN idx |-> chunks[idx[k]]]
\* search: the core ranking, then the bonus chunks, numbered in that order.
CoreResults(chunks, q) == Chosen(chunks, RankCore(chunks, q, AnyOrder(chunks, q)))
Expanded(chunks, graph, core) == IF core = <<>> THEN core ELSE ExpandGraph(chunks, graph, core)
Search(chunks, graph, q) == Expanded(chunks, graph, CoreResults(chunks, q))
Federated(all, deps, core) ==
  IF core = <<>> THEN core
  ELSE CrossMemberExpand(all.chunks, deps, TopMembers(core), ExpandGraph(all.chunks, all.graph, core))
FederatedSearchOver(all, deps, q) == Federated(all, deps, CoreResults(all.chunks, q))
FederatedSearch(members, deps, q) == FederatedSearchOver(CombinedIndex(members), deps, q)

\* A workspace of one member answers like the member by itself.
Namespaced(results, name) == [i \in DOMAIN results |-> [results[i] EXCEPT !.file = name * 10 + @]]
FederationOfOne ==
  For("fed") => \A m \in ToSet(input.members) :
    FederatedSearch(<<m>>, input.deps, input.q) = Namespaced(Search(m.chunks, m.graph, input.q), m.name)

\* Bonus chunks follow the ranked ones and never displace, repeat or outnumber
\* them beyond the two limits; those of another member come only from a member
\* that a top result's member depends on and that had no result.
OnlyAdds(core, out) ==
  LET extra == (Len(core) + 1)..Len(out)
      members == {MemberOf(core[k].file) : k \in DOMAIN core}
  IN /\ IsPrefix(core, out)
     /\ Cardinality(extra) <= 2 * GraphMaxBonusFiles + GraphBonusMemberChunks * GraphMaxBonusMembers
     /\ \A i \in extra :
          /\ \A j \in DOMAIN out \ {i} : Key(out[j]) # Key(out[i])
          /\ \E s \in members : MemberOf(out[i].file) \in {s} \cup {d[2] : d \in {e \in input.deps : e[1] = s}}
BonusOnlyAdds ==
  For("fed") =>
    \A all \in {CombinedIndex(input.members)} :
      OnlyAdds(CoreResults(all.chunks, input.q), FederatedSearchOver(all, input.deps, input.q))
FedMember(name, cs, g) ==
  [name |-> name, package |-> name, graph |-> g,
   chunks |-> [i \in DOMAIN cs |-> [id |-> i, file |-> cs[i].file, start |-> i, cos |-> cs[i].cos, kw |-> cs[i].kw]]]
FedChunk == [file : {1, 3}, cos : {0, 5000}, kw : {0, 2}]
FedInputs ==
  {[of |-> "fed", q |-> [words |-> TRUE, vector |-> TRUE, code |-> FALSE, topk |-> 1], deps |-> d,
    members |-> <<FedMember(1, a, g), FedMember(2, <<b>>, {<<3, 1>>})>>]
   : d \in SUBSET {<<1, 2>>, <<2, 1>>}, g \in {{}, {<<1, 3>>}},
     a \in [1..3 -> FedChunk], b \in [file : {1}, cos : {0, 5000}, kw : {2}]}

-----------------------------------------------------------------------------
(* Scopes: `--package a,b`.                                                 *)

Unknown == 0
\* A token is a member's name, else a package; anything else is an error.
ResolveScopeToken(manifest, token) ==
  LET first(field) == SelectInSeq(manifest, LAMBDA m : m[field] = token)
  IN IF first("name") > 0 THEN first("name") ELSE first("package")
\* All members in manifest order, or the tokens' members in the order asked.
SelectMembers(manifest, scope) ==
  IF scope = <<>> THEN Positions(manifest)
  ELSE LET at == [k \in DOMAIN scope |-> ResolveScopeToken(manifest, scope[k])]
       IN IF Unknown \in ToSet(at) THEN <<Unknown>> ELSE at

\* A member's own name always reaches that member, even when another member's
\* package is called the same; a token nobody has fails the whole search instead
\* of searching the rest.
ScopeReachesMember ==
  For("scope") =>
    LET sel == SelectMembers(input.manifest, input.scope)
        known == UNION {{m.name, m.package} : m \in ToSet(input.manifest)}
    IN /\ sel = <<Unknown>> <=> ~(ToSet(input.scope) \subseteq known)
       /\ sel # <<Unknown>> => \A k \in DOMAIN input.scope : \A i \in DOMAIN input.manifest :
            input.manifest[i].name = input.scope[k] => sel[k] = i
ScopeInputs ==
  {[of |-> "scope", scope |-> s,
    manifest |-> <<[name |-> "a", package |-> p], [name |-> "b", package |-> r]>>]
   : p, r \in {"a", "b", "c"}, s \in UNION {[1..n -> {"a", "b", "c", "d"}] : n \in 0..2}}

\* The ranking of a search: every word hit counts, no hash order shows, and the cap per file leaves
\* no place empty that a file could fill.
RankingSound == KeywordHitsRanked /\ RankIgnoresHashOrder /\ CapWastesNoPlace

\* A search of a workspace is a search: of one member it is that member's, related members only add,
\* and a scope reaches the member it names.
FederationSound == FederationOfOne /\ BonusOnlyAdds /\ ScopeReachesMember
=============================================================================
