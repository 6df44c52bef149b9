--------------------------- MODULE KnowledgeSearch ---------------------------
(***************************************************************************)
(* From a feed to an answer: the records of a feed and its manifest        *)
(* (src/knowledge/contract.rs, manifest.rs, store.rs), the sections of a   *)
(* document (src/markdown.rs), the search over them                        *)
(* (src/knowledge/retrieval.rs) and the suites that test its answers       *)
(* (src/knowledge/ask.rs).                                                 *)
(***************************************************************************)
EXTENDS Retrieval

-----------------------------------------------------------------------------
(* Feeds.  A line is a record's name, "blank" or "bad"; a digest is the     *)
(* lines themselves.                                                       *)

Failed == [ok |-> FALSE, records |-> <<>>]
ParseNdjson(feed) ==
  IF "bad" \in ToSet(feed) THEN Failed
  ELSE [ok |-> TRUE, records |-> SelectSeq(feed, LAMBDA l : l # "blank")]
VerifyFeed(manifest, feed, records) ==
  manifest.hex /\ records = manifest.records /\ manifest.sha = feed
\* The feed is parsed before its manifest is read; a manifest is optional.
IngestFile(feed, manifest) ==
  LET p == ParseNdjson(feed)
  IN IF ~p.ok \/ (manifest.given /\ ~(manifest.parses /\ VerifyFeed(manifest, feed, Len(p.records)))) THEN Failed
     ELSE p
\* With the manifest its producer wrote, a feed is ingested whole or not at all,
\* and without one only a cut between two lines goes unseen.
FeedWholeOrRefused ==
  For("feed") =>
    LET in == IngestFile(input.got, input.manifest)
        whole == ParseNdjson(input.sent)
    IN /\ in.ok /\ input.manifest.given => input.got = input.sent /\ in = whole
       /\ in.ok /\ IsPrefix(input.got, input.sent) => IsPrefix(in.records, SelectSeq(input.sent, LAMBDA l : l # "blank"))
FeedText == UNION {[1..n -> {"r1", "r2", "blank", "bad"}] : n \in 0..3}
FeedInputs ==
  {[of |-> "feed", sent |-> s, got |-> g,
    manifest |-> [given |-> v, parses |-> p, hex |-> TRUE, sha |-> s, records |-> Len(ParseNdjson(s).records)]]
   : s \in {f \in FeedText : ParseNdjson(f).ok}, g \in FeedText, v \in BOOLEAN, p \in {TRUE}}
  \cup {[of |-> "feed", sent |-> <<"r1">>, got |-> <<"r1">>,
         manifest |-> [given |-> TRUE, parses |-> p, hex |-> ~p, sha |-> <<"r1">>, records |-> 1]] : p \in BOOLEAN}

-----------------------------------------------------------------------------
(* Sections.  A line is [level, tokens]: a heading's level, or 0 for text;  *)
(* no tokens for a blank line.                                             *)

CONSTANT MaxSectionTokens

CollectHeadings(doc) == SelectSeq([i \in DOMAIN doc |-> i], LAMBDA i : doc[i].level > 0)
Tokens(doc, from, to) == FoldLeft(LAMBDA sum, l : sum + l.tokens, 0, SubSeq(doc, from, to - 1))
\* The lines from..to-1 without the blank ones at the end; nothing if none is left.
MakeChunk(doc, from, to, name) ==
  LET full == {i \in from..(to - 1) : doc[i].tokens > 0}
  IN IF full = {} THEN <<>> ELSE <<[from |-> from, to |-> Max(full), name |-> name]>>
\* The first heading after i of the same or a higher rank.
SectionEnd(doc, hs, i) == Min({j \in (i + 1)..Len(hs) : doc[hs[j]].level <= doc[hs[i]].level} \cup {Len(hs) + 1})
LineOf(doc, hs, i) == IF i <= Len(hs) THEN hs[i] ELSE Len(doc) + 1

\* emit, for the headings i..to-1: a section that fits or has no subsection is one
\* chunk, any other is its own text and then its subsections.
RECURSIVE Emit(_, _, _, _, _)
Emit(doc, hs, i, to, crumb) ==
  IF i >= to THEN <<>>
  ELSE LET end == SectionEnd(doc, hs, i)
           name == Append(crumb, hs[i])
           fits == Tokens(doc, hs[i], LineOf(doc, hs, end)) <= MaxSectionTokens
       IN (IF fits \/ end = i + 1 THEN MakeChunk(doc, hs[i], LineOf(doc, hs, end), name)
           ELSE MakeChunk(doc, hs[i], hs[i + 1], name) \o Emit(doc, hs, i + 1, end, name))
          \o Emit(doc, hs, end, to, crumb)
\* A document that nests too deeply for the parser is one chunk.
ChunkMarkdown(doc, deep) ==
  LET hs == CollectHeadings(doc)
  IN IF deep THEN MakeChunk(doc, 1, Len(doc) + 1, <<>>)
     ELSE MakeChunk(doc, 1, LineOf(doc, hs, 1), <<>>) \o Emit(doc, hs, 1, Len(hs) + 1, <<>>)

\* The sections cover the document: every line with text is in exactly one, in
\* order; only a section without subsections is over the limit; and a section's
\* name is its heading under the headings that enclose it.
SectionsCover ==
  For("markdown") =>
    LET cs == ChunkMarkdown(input.doc, input.deep)
        text == {i \in DOMAIN input.doc : input.doc[i].tokens > 0}
        level(l) == input.doc[l].level
    IN /\ \A i \in text : Cardinality({k \in DOMAIN cs : i \in cs[k].from..cs[k].to}) = 1
       /\ \A k \in 1..(Len(cs) - 1) : cs[k].to < cs[k + 1].from
       /\ ~input.deep => \A k \in DOMAIN cs :
            LET c == cs[k]
            IN /\ Tokens(input.doc, c.from, c.to + 1) > MaxSectionTokens => \A i \in (c.from + 1)..c.to : level(i) = 0
               /\ c.name # <<>> => Last(c.name) = c.from
               /\ \A n \in 1..(Len(c.name) - 1) :
                    /\ level(c.name[n]) < level(c.name[n + 1])
                    /\ \A l \in c.name[n]..c.from : level(l) > 0 /\ l # c.name[n] => level(l) > level(c.name[n])
MarkdownInputs ==
  [of : {"markdown"}, deep : {FALSE}, doc : UNION {[1..n -> [level : 0..3, tokens : {1, 2}] \cup [level : {0}, tokens : {0}]] : n \in 0..4}]
  \cup [of : {"markdown"}, deep : {TRUE}, doc : [1..2 -> [level : 0..1, tokens : {1}] \cup [level : {0}, tokens : {0}]]]

-----------------------------------------------------------------------------
(* Search.  A section also has `shares` (a word of the query is in its     *)
(* title, text or labels), `dropped` (closed as not planned), `pr` (a link  *)
(* to a merge) and `updated`.                                              *)

LiveChunks(store) == SelectSeq(store, LAMBDA c : ~c.dropped)
EveryChunk(store) == store
KnowledgeRankingIndex(store) == LiveChunks(store)
\* Every live section is ranked, so that the filters below leave no place empty.
Generous(live, topk) == IF Len(live) > topk THEN Len(live) ELSE topk
Passing(index, ranked, score, min) ==
  SelectSeq(ranked, LAMBDA i : score[i] >= min /\ ~index[i].dropped /\ index[i].shares)
Boosted(index, kept, score) ==
  [k \in DOMAIN kept |-> [c |-> index[kept[k]],
                          score |-> IF index[kept[k]].pr THEN (score[kept[k]] * 11) \div 10 ELSE score[kept[k]]]]
Better(a, b) == \/ a.score > b.score
                \/ a.score = b.score /\ a.c.updated > b.c.updated
                \/ a.score = b.score /\ a.c.updated = b.c.updated /\ a.c.id < b.c.id
HitsBy(index, ranked, score, min) == Boosted(index, Passing(index, ranked, score, min), score)
HitsOver(index, wide, min) ==
  HitsBy(index, RankCore(index, wide, AnyOrder(index, wide)), RankScores(index, wide, Candidates(index, wide)), min)
KnowledgeHits(store, q, topk, min) ==
  IF topk = 0 \/ LiveChunks(store) = <<>> THEN <<>>
  ELSE Take(SortSeq(HitsOver(KnowledgeRankingIndex(store), [q EXCEPT !.topk = Generous(LiveChunks(store), topk)], min), Better), topk)

\* What was decided against is as if it had never been ingested: it is not found,
\* and it costs nothing else its place.
DroppedLeaveNoTrace ==
  For("know") =>
    KnowledgeHits(input.store, input.q, input.topk, input.min)
    = KnowledgeHits(LiveChunks(input.store), input.q, input.topk, input.min)
\* Asking for more answers never changes the ones there were.
MoreKeepsTheFirst ==
  For("know") =>
    KnowledgeHits(input.store, input.q, input.topk, input.min)
    = Take(KnowledgeHits(input.store, input.q, input.topk + 1, input.min), input.topk)
KnowInputs ==
  {[of |-> "know", topk |-> k, min |-> mn, q |-> [words |-> TRUE, vector |-> TRUE, code |-> FALSE, topk |-> 1],
    store |-> [i \in 1..3 |-> [id |-> i, file |-> 10 * cs[i].rec + 1, start |-> i, cos |-> cs[i].cos, kw |-> cs[i].kw,
                               shares |-> cs[i].kw > 0 \/ i = 2, dropped |-> cs[i].dropped,
                               pr |-> i = 3, updated |-> (i * 2) % 3]]]
   : k \in 0..2, mn \in {0, 6500}, cs \in [1..3 -> [rec : {1, 2}, cos : {0, 8000}, kw : {0, 2}, dropped : BOOLEAN]]}

-----------------------------------------------------------------------------
(* Suites of questions.                                                    *)

\* The header, if there is one, comes first; a case has a query, a non-empty list of
\* records it expects and a positive k; a suite has a case.
ParseSuite(lines) ==
  LET full == SelectSeq(lines, LAMBDA l : l.t # "blank")
      bad(i) == CASE full[i].t = "header" -> i # 1 \/ ~full[i].known
                  [] full[i].t = "case" -> full[i].expect = <<>> \/ full[i].k = 0
                  [] OTHER -> TRUE
      cases == SelectSeq(full, LAMBDA l : l.t = "case")
  IN IF \E i \in DOMAIN full : bad(i) THEN <<>> ELSE cases     \* <<>>: refused
\* Precision counts hits, recall counts expected records.
ScoreCase(case, hits) ==
  LET seen == [i \in DOMAIN Take(hits, case.k) |-> hits[i].c.file]
      relevant == SelectSeq(seen, LAMBDA r : r \in ToSet(case.expect))
      matched == SelectSeq(case.expect, LAMBDA e : e \in ToSet(seen))
  IN [precision |-> <<Len(relevant), case.k>>, recall |-> <<Len(matched), Len(case.expect)>>,
      rank |-> SelectInSeq(seen, LAMBDA r : r \in ToSet(case.expect)), proven |-> Len(matched) = Len(case.expect)]
EvaluateSuite(store, cases, q, min) ==
  LET scores == [i \in DOMAIN cases |-> ScoreCase(cases[i], KnowledgeHits(store, q, cases[i].k, min))]
      proven == SelectSeq(scores, LAMBDA s : s.proven)
  IN [queries |-> Len(cases), proven |-> Len(proven), cases |-> scores,
      pass |-> Len(cases) > 0 /\ Len(proven) = Len(cases)]

\* A suite passes exactly when it is well formed and each record its cases expect is
\* among the k answers to the case, and no score leaves its range.
Proves(full, cases, r) ==
  LET answered == {c \in ToSet(full) :
                     /\ c.t = "case"
                     /\ \A hits \in {KnowledgeHits(input.store, input.q, c.k, 0)} :
                          ToSet(c.expect) \subseteq {hits[i].c.file : i \in DOMAIN hits}}
  IN \A done \in {answered} :
       /\ r.pass => \A i \in DOMAIN full : CASE full[i].t = "case" -> full[i] \in done
                                              [] full[i].t = "header" -> i = 1
                                              [] OTHER -> FALSE
       /\ cases # <<>> /\ ToSet(cases) \subseteq done => r.pass
       /\ \A s \in ToSet(r.cases) : s.precision[1] <= s.precision[2] /\ s.recall[1] <= s.recall[2]
SuiteProvesItsCases ==
  For("ask") =>
    \A cases \in {ParseSuite(input.lines)} :
      Proves(SelectSeq(input.lines, LAMBDA l : l.t # "blank"), cases, EvaluateSuite(input.store, cases, input.q, 0))
AskLine == [t : {"case"}, expect : {<<>>, <<11>>, <<11, 21>>, <<31>>}, k : {0, 1, 3}] \cup [t : {"header"}, known : BOOLEAN] \cup [t : {"blank", "bad"}]
AskStore(d, kw) ==
  [i \in 1..3 |-> [id |-> i, file |-> <<11, 11, 21>>[i], start |-> i, cos |-> i * 1000, kw |-> kw[i], shares |-> kw[i] > 0,
                   dropped |-> d = i, pr |-> FALSE, updated |-> 0]]
AskInputs ==
  {[of |-> "ask", lines |-> ls, q |-> [words |-> TRUE, vector |-> TRUE, code |-> FALSE, topk |-> 1], store |-> AskStore(d, kw)]
   : ls \in UNION {[1..n -> AskLine] : n \in 0..2}, d \in {0, 3}, kw \in {<<1, 1, 1>>, <<1, 0, 1>>}}

\* From the feed to the answer no record is lost, doubled or half read, and what a filter drops does
\* not change what remains.
KnowledgeFaithful ==
  /\ FeedWholeOrRefused
  /\ SectionsCover
  /\ DroppedLeaveNoTrace
  /\ MoreKeepsTheFirst
  /\ SuiteProvesItsCases
=============================================================================
