------------------------------ MODULE Indexing ------------------------------
(***************************************************************************)
(* Building an index: which files are read (src/walker.rs,                 *)
(* src/sensitive.rs), what is scrubbed from them (src/redactor.rs), how    *)
(* they are cut (src/chunker.rs), shown in short (src/compress.rs) and     *)
(* embedded (src/embedder.rs), and the build that does it all              *)
(* (Index::build_protected in src/store.rs).                               *)
(***************************************************************************)
EXTENDS Integers, FiniteSets, SequencesExt, Inputs

CONSTANT EmbedBatchSize
ASSUME EmbedBatchAssumption == EmbedBatchSize \in Nat \ {0}

-----------------------------------------------------------------------------
(* Redaction.  A text is a sequence of                                     *)
(*   "K" a secret's name and its operator (token=),  "x" a long word,      *)
(*   "P" a placeholder (changeme),  "A" a token of a known provider,       *)
(*   "R" a redaction,  "q" a quote,  "," punctuation,  "\\" a backslash,   *)
(*   " " a blank and "nl" a line's end.                                    *)

White == {" ", "nl"}
Glue == {"x", "P", "K", "A"}              \* begins with a letter
At(text, i) == IF i <= Len(text) THEN text[i] ELSE "end"
SpecificOnly(text) == [i \in DOMAIN text |-> IF text[i] = "A" THEN "R" ELSE text[i]]
\* A name is one only at the beginning of a word.
IsPrefixAt(text, i) == At(text, i) = "K" /\ (i = 1 \/ text[i - 1] \notin {"x", "P"})
HasNestedKey(span) == \E i \in DOMAIN span : IsPrefixAt(span, i)
IsPlaceholder(span) == span = <<"R">> \/ (span # <<>> /\ span[1] = "P")
IsLong(span) == \E i \in DOMAIN span : span[i] \in {"x", "P", "R"}

\* Whether a quote at i that punctuation follows ends the value: not if the same
\* quote comes again before any blank.
AlwaysCloses(text, i) == TRUE
PunctuationCloses(text, i) ==
  LET stops == {j \in (i + 1)..Len(text) : text[j] \in White \cup {"q"}}
  IN stops = {} \/ text[Min(stops)] # "q"
\* The place after the value that starts at i with a quote, and whether it closes.
RECURSIVE ScanQuoted(_, _), AtQuote(_, _, _)
ScanQuoted(text, i) ==
  CASE At(text, i) \in {"end", "nl"} -> [end |-> i, closed |-> FALSE]
    [] At(text, i) = "\\" -> ScanQuoted(text, IF At(text, i + 1) \in {"end", "nl"} THEN i + 1 ELSE i + 2)
    [] At(text, i) = "q" -> AtQuote(text, i, At(text, i + 1))
    [] OTHER -> ScanQuoted(text, i + 1)
AtQuote(text, i, next) ==
  CASE next = "q" -> ScanQuoted(text, i + 2)
    [] next \in Glue \/ (next \notin White \cup Glue \cup {"q", "end"} /\ ~PunctuationCloses(text, i)) -> ScanQuoted(text, i + 1)
    [] OTHER -> [end |-> i + 1, closed |-> TRUE]
Quoted(text, i, s) ==
  [end |-> s.end, closed |-> s.closed, quoted |-> TRUE, inner |-> SubSeq(text, i + 1, IF s.closed THEN s.end - 2 ELSE s.end - 1)]
Unquoted(text, i, e) == [end |-> e, closed |-> FALSE, quoted |-> FALSE, inner |-> SubSeq(text, i, e - 1)]
ScanValue(text, i) ==
  IF text[i] = "q" THEN Quoted(text, i, ScanQuoted(text, i + 1))
  ELSE Unquoted(text, i, Min({j \in i..Len(text) : text[j] \in White} \cup {Len(text) + 1}))
Skips(inner) == (~IsLong(inner) \/ IsPlaceholder(inner)) /\ ~HasNestedKey(inner)
Mark(s) == IF s.quoted THEN <<"q", "R">> \o (IF s.closed THEN <<"q">> ELSE <<>>) ELSE <<"R">>
RECURSIVE RedactGeneric(_, _), RedactValue(_, _, _)
RedactGeneric(text, i) ==
  IF i > Len(text) THEN <<>>
  ELSE IF ~IsPrefixAt(text, i) THEN <<text[i]>> \o RedactGeneric(text, i + 1)
  ELSE RedactValue(text, i, Min({j \in (i + 1)..Len(text) : text[j] \notin White} \cup {Len(text) + 1}))
\* The name is at i and its value at v.
RedactValue(text, i, v) ==
  IF v > Len(text) THEN SubSeq(text, i, Len(text))
  ELSE LET s == ScanValue(text, v)
       IN SubSeq(text, i, v - 1) \o (IF Skips(s.inner) THEN SubSeq(text, v, s.end - 1) ELSE Mark(s)) \o RedactGeneric(text, s.end)
Redact(text) == RedactGeneric(SpecificOnly(text), 1)

Words(n, letters) == UNION {[1..k -> letters] : k \in 0..n}
\* No part of a quoted secret survives, whatever quotes, punctuation and escapes it
\* holds, and the next line is left alone.
WholeValueRedacted ==
  For("redact") /\ input.body # <<>> /\ input.body[1] # "P" /\ ToSet(input.body) \cap White = {} =>
    \A out \in {Redact(<<"K", "q">> \o input.body \o <<"q", "nl", "x">>)} :
      /\ \A i \in 1..(Len(out) - 2) : out[i] # "x"
      /\ IsSuffix(<<"nl", "x">>, out)
\* A provider's token never survives, and redacting again changes nothing: what was
\* redacted before it was stored may be redacted again when it is shown.
RedactionSettles == For("redact") => \A out \in {Redact(input.body)} : "A" \notin ToSet(out) /\ Redact(out) = out
RedactInputs == {[of |-> "redact", body |-> b] : b \in Words(5, {"K", "x", "q", ",", "\\", " "}) \cup Words(4, {"K", "x", "q", "P", "A", "nl", "R"})}

-----------------------------------------------------------------------------
(* Files.  An entry is what the directory walk yields: [path, kind, under,  *)
(* name, ext, meta, size, read, utf8, text].                               *)

IsSensitive(e) == e.name \in {"id_rsa", ".env", "server.pem"}
\* Directories that are hidden, or always ignored, are not entered.
KeepEntry(e) == e.under = "source"
\* What becomes of an entry; the order decides under which heading it is counted.
Outcome(e, protect) ==
  IF e.kind = "error" THEN "walk_error"
  ELSE IF e.kind # "file" THEN "none"
  ELSE IF protect /\ IsSensitive(e) THEN "sensitive"
  ELSE IF e.jsonl \/ e.fault # "none" THEN "skipped"  \* no metadata, too large, unreadable, not UTF-8
  ELSE "file"
Walk(entries, protect) ==
  LET kept == SelectSeq(entries, KeepEntry)
      are(o) == SelectSeq(kept, LAMBDA e : Outcome(e, protect) = o)
  IN [files |-> SortSeq(are("file"), LAMBDA a, b : a.path < b.path), skipped |-> Len(are("skipped")),
      sensitive |-> Len(are("sensitive")), errors |-> Len(are("walk_error"))]

-----------------------------------------------------------------------------
(* Chunks.  A file of a known language has the syntax nodes of its text in  *)
(* pre-order, each [def, from, to]; anything else is one chunk.            *)

WholeFile(f, text) == <<[path |-> f.path, from |-> 1, to |-> Len(text), text |-> text]>>
CollectChunks(f, text) ==
  LET defs == SelectSeq(f.nodes, LAMBDA n : n.def)
  IN [k \in DOMAIN defs |-> [path |-> f.path, from |-> defs[k].from, to |-> defs[k].to,
                             text |-> SubSeq(text, defs[k].from, defs[k].to)]]
ChunkFile(f, text) ==
  IF f.language /\ CollectChunks(f, text) # <<>> THEN CollectChunks(f, text) ELSE WholeFile(f, text)

-----------------------------------------------------------------------------
(* Embeddings.  A backend answers a batch with `reply`, [up, vectors]; a   *)
(* vector is the text it was made from, or <<>>.                           *)

Bad == [ok |-> FALSE, vectors |-> <<>>]
\* OllamaEmbedder::try_embed_batch
TryEmbedBatch(texts, reply) ==
  IF ~reply.up \/ Len(reply.vectors) # Len(texts)
     \/ \E i \in DOMAIN texts : reply.vectors[i] = <<>> /\ texts[i] # <<>> THEN Bad
  ELSE [ok |-> TRUE, vectors |-> reply.vectors]
Batches(chunks) ==
  [b \in 1..((Len(chunks) + EmbedBatchSize - 1) \div EmbedBatchSize) |->
     SubSeq(chunks, (b - 1) * EmbedBatchSize + 1,
            IF b * EmbedBatchSize < Len(chunks) THEN b * EmbedBatchSize ELSE Len(chunks))]
\* A backend is honest but for one batch, to which it does not answer, or answers
\* short, long or empty.
Honest(texts) == [i \in DOMAIN texts |-> IF texts[i] = <<>> THEN <<>> ELSE <<texts[i]>>]
BackendReply(backend, n, texts) ==
  [up |-> n # backend.batch \/ backend.does # "down",
   vectors |-> IF n # backend.batch \/ backend.does \in {"honest", "down"} THEN Honest(texts)
               ELSE CASE backend.does = "fewer" -> Tail(Honest(texts))
                      [] backend.does = "more" -> Append(Honest(texts), <<>>)
                      [] OTHER -> [i \in DOMAIN texts |-> <<>>]]
\* The vectors of one batch, put on its chunks; any failure ends the build.
AddBatch(acc, batch, r) ==
  IF ~acc.ok \/ ~r.ok \/ Len(r.vectors) # Len(batch) THEN [acc EXCEPT !.ok = FALSE]
  ELSE [ok |-> TRUE, n |-> acc.n + 1,
        chunks |-> acc.chunks \o [i \in DOMAIN batch |-> [chunk |-> batch[i], vector |-> r.vectors[i]]]]
AskFor(texts, n, backend) == TryEmbedBatch(texts, BackendReply(backend, n, texts))
EmbedAll(chunks, backend) ==
  FoldLeft(LAMBDA acc, batch : AddBatch(acc, batch, AskFor([i \in DOMAIN batch |-> batch[i].text], acc.n, backend)),
           [ok |-> TRUE, n |-> 1, chunks |-> <<>>], Batches(chunks))

\* Index::build_protected: walk, redact, count, cut, embed.
ReadProtected(f, protect) == IF protect THEN Redact(f.text) ELSE f.text
BuiltFrom(walk, texts, backend) ==
  LET e == EmbedAll(FlattenSeq([k \in DOMAIN texts |-> ChunkFile(walk.files[k], texts[k])]), backend)
  IN [ok |-> e.ok, chunks |-> e.chunks, walk |-> walk,
      tokens |-> {[path |-> walk.files[k].path, text |-> texts[k]] : k \in DOMAIN texts}]
BuildWalked(walk, protect, backend) ==
  BuiltFrom(walk, [k \in DOMAIN walk.files |-> ReadProtected(walk.files[k], protect)], backend)
BuildProtected(entries, protect, backend) == BuildWalked(Walk(entries, protect), protect, backend)

\* A knowledge record: its document and every field shown with a hit are redacted,
\* its id is not.
Ingest(rec) == [rec EXCEPT !.body = Redact(@), !.title = Redact(@), !.labels = [i \in DOMAIN @ |-> Redact(@[i])]]

\* With protection on, no file of secrets is read and no secret reaches a chunk, an
\* embedding or the token count; every file met is counted under one heading, and
\* every file read has a chunk.  No field of a knowledge record keeps one either.
NoSecretIn(b, met) ==
  /\ \A c \in ToSet(b.chunks) : "A" \notin ToSet(c.chunk.text) /\ \A v \in ToSet(c.vector) : "A" \notin ToSet(v)
  /\ \A t \in b.tokens : "A" \notin ToSet(t.text)
  /\ \A e \in ToSet(b.walk.files) : ~IsSensitive(e)
  /\ Len(b.walk.files) + b.walk.skipped + b.walk.sensitive = Len(met)
  /\ b.ok => {c.chunk.path : c \in ToSet(b.chunks)} = {f.path : f \in ToSet(b.walk.files)}
SecretsNeverIndexed ==
  /\ For("redact") =>
       \A r \in {Ingest([id |-> 1, body |-> input.body, title |-> input.body, labels |-> <<input.body>>])} :
         \A t \in {r.body, r.title, r.labels[1]} : "A" \notin ToSet(t)
  /\ For("build") => NoSecretIn(BuildProtected(input.entries, TRUE, input.backend),
                                SelectSeq(input.entries, LAMBDA e : KeepEntry(e) /\ e.kind = "file"))
\* An index is written only with, on every chunk, the vector of its own text; a
\* backend that fails, or answers short, long or empty, in any batch ends the build.
VectorsBelongToChunks ==
  For("build") => \A b \in {BuildProtected(input.entries, input.protect, input.backend)} :
    b.ok => \A c \in ToSet(b.chunks) : c.vector = IF c.chunk.text = <<>> THEN <<>> ELSE <<c.chunk.text>>

SrcEntry(path, name, text, nodes) ==
  [path |-> path, kind |-> "file", under |-> "source", name |-> name, jsonl |-> FALSE, fault |-> "none",
   text |-> text, nodes |-> nodes, language |-> nodes # <<>>]
SrcFile ==
  {SrcEntry(1, "main.rs", <<"A", "x", "x">>, <<[def |-> TRUE, from |-> 1, to |-> 3], [def |-> TRUE, from |-> 2, to |-> 2]>>),
   SrcEntry(2, "lib.rs", <<"x">>, <<[def |-> FALSE, from |-> 1, to |-> 1]>>), SrcEntry(3, "notes", <<>>, <<>>),
   SrcEntry(4, "id_rsa", <<"x", "A">>, <<>>), [SrcEntry(5, "log", <<"A">>, <<>>) EXCEPT !.jsonl = TRUE],
   [SrcEntry(6, "big", <<"A">>, <<>>) EXCEPT !.fault = "too large"], [SrcEntry(7, "dep", <<"A">>, <<>>) EXCEPT !.under = "node_modules"],
   [SrcEntry(8, "gone", <<>>, <<>>) EXCEPT !.kind = "error"], [SrcEntry(9, "dir", <<>>, <<>>) EXCEPT !.kind = "dir"]}
BuildInputs ==
  {[of |-> "build", entries |-> <<a, b, c>>, protect |-> p, backend |-> [does |-> k, batch |-> n]]
   : a, b, c \in SrcFile, p \in BOOLEAN, k \in {"honest", "down", "fewer", "more", "empty"}, n \in 1..2}

-----------------------------------------------------------------------------
(* Showing a chunk in short.  A definition is [sig, doc, stmt, total]: the  *)
(* lines of its signature, the line of a doc comment and of the first      *)
(* statement (0: none), and the number of lines.                           *)

Shown(d) == d.sig + (IF d.doc > 0 THEN 1 ELSE 0) + (IF d.stmt > 0 THEN 1 ELSE 0)
WithElision(total, shown) == IF total > shown THEN total - shown ELSE 0
CompactLeaf(d) ==
  [lines |-> [i \in 1..d.sig |-> i] \o SelectSeq(<<d.doc, d.stmt>>, LAMBDA l : l > 0),
   elided |-> WithElision(d.total, Shown(d))]
\* A text without a definition: its first line that is not blank.
Generic(lines) ==
  LET full == {i \in DOMAIN lines : lines[i] # "blank"}
  IN IF full = {} THEN [lines |-> <<>>, elided |-> 0]
     ELSE [lines |-> <<Min(full)>>, elided |-> Len(lines) - Min(full)]
\* A short form says how many lines it leaves out: never more than it hides, and
\* exactly those when no two parts it shows share a line.
ElisionHonest ==
  For("compress") =>
    LET d == input.def
        c == CompactLeaf(d)
        hidden == Cardinality((1..d.total) \ ToSet(c.lines))
        g == Generic(input.lines)
    IN /\ c.elided <= hidden /\ (IsInjective(c.lines) => c.elided = hidden)
       /\ g.lines # <<>> => g.elided = Cardinality({i \in DOMAIN input.lines : i > g.lines[1]})
CompressInputs ==
  {[of |-> "compress", lines |-> ls, def |-> def]
   : def \in {d \in [sig : 1..2, doc : 0..3, stmt : 0..4, total : 1..4] :
               d.sig <= d.total /\ d.doc \in {0} \cup d.sig..d.total /\ d.stmt \in {0} \cup Max({d.sig, d.doc})..d.total},
     ls \in {<<>>, <<"blank", "x">>, <<"x", "blank">>, <<"blank">>}}

\* What is indexed: no part of a secret, each chunk with its own vector, and nothing left out of a
\* rendering that does not say so.
IndexSound ==
  /\ WholeValueRedacted
  /\ RedactionSettles
  /\ SecretsNeverIndexed
  /\ VectorsBelongToChunks
  /\ ElisionHonest
=============================================================================
