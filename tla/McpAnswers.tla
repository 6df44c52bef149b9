----------------------------- MODULE McpAnswers -----------------------------
(***************************************************************************)
(* What the MCP tools put in an answer (src/mcp/tools.rs): the blend of    *)
(* code and knowledge hits, the token budget, the expansion of a chunk,    *)
(* and the recall of remembered decisions (src/memory.rs).                 *)
(*                                                                         *)
(* A text is the sequence of the byte lengths of its characters.           *)
(***************************************************************************)
EXTENDS Retrieval

SumOf(numbers) == FoldLeft(LAMBDA sum, n : sum + n, 0, numbers)
Bytes(text) == SumOf(text)
\* estimate_tokens: four bytes to the token, and never less than one.
TokenCount(text) == LET n == Bytes(text) \div 4 IN IF n = 0 THEN 1 ELSE n

\* The whole text, or the characters that fit in 4 * max bytes.
TrimToTokens(text, max) ==
  IF max = 0 THEN [text |-> <<>>, cut |-> TRUE]
  ELSE IF TokenCount(text) <= max THEN [text |-> text, cut |-> FALSE]
  ELSE LET n == CHOOSE k \in 0..Len(text) : /\ Bytes(Take(text, k)) <= 4 * max
                                            /\ k = Len(text) \/ Bytes(Take(text, k + 1)) > 4 * max
       IN [text |-> Take(text, n), cut |-> TRUE]

NoLimit == -1
\* The rows one by one until the budget is spent; the answer says when it is short.
AddBody(a, t) ==
  [bodies |-> Append(a.bodies, t.text), used |-> a.used + TokenCount(t.text), cut |-> a.cut \/ t.cut]
ShowRow(a, row, max) ==
  AddBody(a, IF max = NoLimit THEN [text |-> row.text, cut |-> FALSE]
           ELSE TrimToTokens(row.text, IF max > a.used THEN max - a.used ELSE 0))
Spent(a, max) == max # NoLimit /\ a.used >= max
NoRows == [bodies |-> <<>>, used |-> 0, cut |-> FALSE]
FormatRowsQuietly(rows, max) ==
  FoldLeft(LAMBDA a, row : IF Spent(a, max) /\ a # NoRows THEN a ELSE ShowRow(a, row, max), NoRows, rows)
FormatRows(rows, max) ==
  FoldLeft(LAMBDA a, row : IF Spent(a, max) /\ a # NoRows THEN [a EXCEPT !.cut = TRUE] ELSE ShowRow(a, row, max), NoRows, rows)

\* The budget holds (max_tokens = 0 still shows one header with an empty body), no
\* character is cut in two, the bodies are a beginning of what was found, and
\* the reader is told exactly when something is missing.
BudgetHonest ==
  For("budget") =>
    \A out \in {FormatRows(input.rows, input.max)} :
      /\ input.max > 0 => SumOf([k \in DOMAIN out.bodies |-> TokenCount(out.bodies[k])]) <= input.max
      /\ \A k \in DOMAIN out.bodies : IsPrefix(out.bodies[k], input.rows[k].text)
      /\ out.cut <=> out.bodies # [k \in DOMAIN input.rows |-> input.rows[k].text]
BudgetText == {<<1>>, <<1, 3>>, <<2, 2>>, <<3, 3, 3>>, <<1, 1, 1, 1, 1, 1, 1, 1>>}
BudgetInputs ==
  [of : {"budget"}, max : {NoLimit} \cup 0..5,
   rows : UNION {[1..n -> [text : BudgetText]] : n \in 1..3}]

-----------------------------------------------------------------------------
(* The blend of the two pools.                                             *)

\* render_blend: by score, code before knowledge, then by id; then top_k of them.
Before(a, b) == \/ a.score > b.score
                \/ a.score = b.score /\ a.code /\ ~b.code
                \/ a.score = b.score /\ a.code = b.code /\ a.id < b.id
RenderBlend(code, know, topk) == Take(Sorted(code \o know, Before), topk)
\* The answer to the best-scored question does not depend on which pool was read
\* first, and a hit left out is never better than one shown.
BlendShowsBest ==
  For("blend") =>
    \A out \in {RenderBlend(input.code, input.know, input.topk)}, all \in {ToSet(input.code \o input.know)} :
      /\ out = RenderBlend(input.know, input.code, input.topk)
      /\ \A x \in all \ ToSet(out), y \in ToSet(out) : ~Before(x, y)
      /\ Len(out) = (IF Cardinality(all) < input.topk THEN Cardinality(all) ELSE input.topk)
BlendInputs ==
  {[of |-> "blend", topk |-> k, code |-> [i \in 1..2 |-> [score |-> c[i], code |-> TRUE, id |-> i]],
    know |-> [i \in 1..2 |-> [score |-> n[i], code |-> FALSE, id |-> i]]]
   : k \in 1..3, c, n \in [1..2 -> 1..3]}

-----------------------------------------------------------------------------
(* expand_chunk and related_context.  ix = [code, members, graph, know]:    *)
(* the chunks of the (combined) index, the members whose store loads, and   *)
(* the sections of the knowledge store.                                    *)

Found(chunks, id) == SelectInSeq(chunks, LAMBDA c : c.id = id)
ChunksInFile(chunks, file) ==
  SortBy(Ascending({i \in DOMAIN chunks : chunks[i].file = file}),
         [i \in DOMAIN chunks |-> -chunks[i].start], FieldOf(chunks, "id"))
NeighborChunks(chunks, graph, file) ==
  SortBy(Ascending({i \in DOMAIN chunks : chunks[i].file \in Neighbors(graph, file)}),
         [i \in DOMAIN chunks |-> -(chunks[i].file * 100 + chunks[i].start)], FieldOf(chunks, "id"))
\* The sections of one document, with or without the one asked about.
SameDocumentSections(know, k, own) ==
  SortBy(Ascending({i \in DOMAIN know : know[i].file = know[k].file /\ (own \/ know[i].id # know[k].id)}),
         [i \in DOMAIN know |-> -know[i].start], FieldOf(know, "id"))
\* A workspace index is there when every member's store is.
WorkingIndex(ix) == IF ix.loads THEN ix.code ELSE <<>>
\* A code chunk first, then a section of a document; `loads` is whether the whole
\* working index does.
ExpandCode(ix, c, scope) ==
  CASE scope = "body" -> <<c>>
    [] scope = "file" -> ChunksInFile(ix.code, ix.code[c].file)
    [] OTHER -> NeighborChunks(ix.code, ix.graph, ix.code[c].file)
ExpandKnowledgeChunk(know, k, scope) == IF scope = "body" THEN <<k>> ELSE SameDocumentSections(know, k, scope = "file")
Expansion(ix, c, k, scope) ==
  CASE c > 0 -> [pool |-> "code", ids |-> ExpandCode(ix, c, scope)]
    [] c = 0 /\ k > 0 -> [pool |-> "know", ids |-> ExpandKnowledgeChunk(ix.know, k, scope)]
    [] OTHER -> [pool |-> IF ix.loads THEN "stale" ELSE "missing", ids |-> <<>>]
ExpandOf(ix, id, scope) == Expansion(ix, Found(WorkingIndex(ix), id), Found(ix.know, id), scope)
RelatedOf(ix, id, topk) == LET e == ExpandOf(ix, id, "neighbors") IN [e EXCEPT !.ids = Take(@, topk)]

\* The id of any hit of either pool expands to that hit (a code chunk hides a
\* section of the same id), a whole file shows it among its own chunks in reading
\* order, and its neighbours never include it.
ExpandsTo(pool, id, at, file, related) ==
  /\ pool[at].id = id /\ at \in ToSet(file) /\ at \notin ToSet(related)
  /\ \A i \in ToSet(file) : pool[i].file = pool[at].file
  /\ \A n \in 1..(Len(file) - 1) : pool[file[n]].start <= pool[file[n + 1]].start
HitsExpand ==
  For("expand") => \A ix \in {input.ix} :
    /\ \A id \in {c.id : c \in ToSet(ix.know)} \cup (IF ix.loads THEN {c.id : c \in ToSet(ix.code)} ELSE {}) :
         \A body \in {ExpandOf(ix, id, "body")} :
           /\ body.pool \in {"code", "know"}
           /\ ExpandsTo(ix[body.pool], id, body.ids[1], ExpandOf(ix, id, "file").ids, RelatedOf(ix, id, 9).ids)
    /\ ExpandOf(ix, 99, "body").pool = IF ix.loads THEN "stale" ELSE "missing"
ExpandInputs ==
  {[of |-> "expand", ix |-> [loads |-> l, graph |-> g,
      code |-> [i \in 1..3 |-> [id |-> 4 - i, file |-> f[i], start |-> st[i]]],
      know |-> <<[id |-> 3, file |-> 7, start |-> 1], [id |-> 4, file |-> 7, start |-> 2]>>]]
   : l \in BOOLEAN, g \in {{}, {<<1, 2>>}, {<<2, 1>>, <<1, 2>>}}, f \in [1..3 -> {1, 2}], st \in [1..3 -> {1, 5}]}

-----------------------------------------------------------------------------
(* Remembered decisions.                                                   *)

\* Whitespace ("sp" a space, "nl" a line's end) at the ends goes, inside it is one space.
Normalize(text) ==
  FoldLeft(LAMBDA a, c :
      IF c \in {"sp", "nl"} THEN [a EXCEPT !.space = a.out # <<>>]
      ELSE [out |-> (IF a.space THEN Append(a.out, "sp") ELSE a.out) \o <<c>>, space |-> FALSE],
    [out |-> <<>>, space |-> FALSE], text).out
\* Every entry is ranked, the confident ones (`sure`: the score reaches the minimum) that share a word are kept, and only
\* then are there top_k of them.
RecallOver(entries, wide, topk) ==
  LET ranked == RankCore(entries, wide, AnyOrder(entries, wide))
  IN Take(Picked(ranked, {k \in DOMAIN ranked : entries[ranked[k]].sure /\ entries[ranked[k]].kw > 0}), topk)
Recall(entries, q, topk) == RecallOver(entries, [q EXCEPT !.topk = IF topk > Len(entries) THEN topk ELSE Len(entries)], topk)

\* An entry that shares no word with the question is never recalled and never
\* takes the place of one that does.
RecallFillsPlaces ==
  For("recall") =>
    LET sharing == {i \in DOMAIN input.entries : input.entries[i].sure /\ input.entries[i].kw > 0}
    IN \A hits \in {Recall(input.entries, input.q, input.topk)} :
         /\ ToSet(hits) \subseteq sharing
         /\ Len(hits) = (IF Cardinality(sharing) < input.topk THEN Cardinality(sharing) ELSE input.topk)
\* Two decisions that differ only in blanks are one: the normal form has the same
\* words, and normalising it again changes nothing.
NormalFormStable ==
  For("normalize") =>
    LET n == Normalize(input.text)
        letters(s) == Picked(s, {i \in DOMAIN s : s[i] \notin {"sp", "nl"}})
    IN /\ Normalize(n) = n /\ letters(n) = letters(input.text)
       /\ Normalize(<<"nl">> \o input.text \o <<"sp">>) = n
RecallInputs ==
  {[of |-> "recall", topk |-> k, q |-> [words |-> TRUE, vector |-> TRUE, code |-> FALSE, topk |-> 1],
    entries |-> [i \in 1..3 |-> [id |-> i, file |-> 10 + 4 * i, start |-> 0, cos |-> c[i], kw |-> w[i],
                                sure |-> c[i] > 0 \/ w[i] # 1]]]
   : k \in 1..2, c \in [1..3 -> {0, 3000, 9000}], w \in [1..3 -> {0, 1, 2}]}
NormalizeInputs == [of : {"normalize"}, text : UNION {[1..n -> {"x", "y", "sp", "nl"}] : n \in 0..4}]

\* What the tools answer is what was found: within the budget or said to be cut, the best of both
\* pools, every hit expandable, no place of a recall lost to what shares no word.
AnswersFaithful ==
  /\ BudgetHonest
  /\ BlendShowsBest
  /\ HitsExpand
  /\ RecallFillsPlaces
  /\ NormalFormStable
=============================================================================
