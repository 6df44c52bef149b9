------------------------------ MODULE Metrics -------------------------------
(***************************************************************************)
(* One event of the metrics log, from the search that causes it to the     *)
(* reader: the record of a search (src/retriever.rs, src/grammar.rs), the  *)
(* line written and the line read back (src/metrics.rs), its times, and    *)
(* the ledger of savings by layer (src/savings.rs).  How lines tear when   *)
(* processes append is Session's.                                          *)
(***************************************************************************)
EXTENDS Integers, FiniteSets, SequencesExt, Collections, Inputs

CONSTANT MaxU64                \* u64::MAX: sums clamp there
ASSUME MaxU64Assumption == MaxU64 \in Nat

SatSub(a, b) == IF a > b THEN a - b ELSE 0
SatAdd(a, b) == IF a + b > MaxU64 THEN MaxU64 ELSE a + b
SaturatingSum(vals) == FoldLeft(SatAdd, 0, vals)
Plain(vals) == Total(vals, DOMAIN vals)
Field(seq, f) == [i \in DOMAIN seq |-> seq[i][f]]

-----------------------------------------------------------------------------
(* Times.  A date is y, m, d; an instant is in seconds.                    *)

DaySecs == 86400
\* \div is the floored division the source spells out for negative years.
DaysFromCivil(y0, m, d) ==
  LET y == IF m <= 2 THEN y0 - 1 ELSE y0
      era == y \div 400
      yoe == y - era * 400
      doy == (153 * (IF m > 2 THEN m - 3 ELSE m + 9) + 2) \div 5 + d - 1
      doe == yoe * 365 + yoe \div 4 - yoe \div 100 + doy
  IN era * 146097 + doe - 719468
YearOfEra(doe) == (doe - doe \div 1460 + doe \div 36524 - doe \div 146096) \div 365
CivilOfMonth(y, doy, mp) ==
  LET m == IF mp < 10 THEN mp + 3 ELSE mp - 9 IN <<IF m <= 2 THEN y + 1 ELSE y, m, doy - (153 * mp + 2) \div 5 + 1>>
CivilOfYear(y, doy) == CivilOfMonth(y, doy, (5 * doy + 2) \div 153)
CivilOfEra(era, doe, yoe) == CivilOfYear(yoe + era * 400, doe - (365 * yoe + yoe \div 4 - yoe \div 100))
CivilFromDays(days) ==
  LET z == days + 719468 IN CivilOfEra(z \div 146097, z % 146097, YearOfEra(z % 146097))
\* The day of a month is valid when converting it there and back gives it again.
ValidDate(y, m, d) == m \in 1..12 /\ CivilFromDays(DaysFromCivil(y, m, d)) = <<y, m, d>>

Second(n) == [ok |-> TRUE, secs |-> n]
Unreadable == [ok |-> FALSE, secs |-> 0]
\* A zone is "Z" (or nothing), + or - hours and minutes, or neither.
ParseTzOffset(tz) ==
  CASE tz.sign = "Z" -> Second(0)
    [] tz.sign \in {"+", "-"} /\ tz.hh <= 23 /\ tz.mm <= 59 ->
         Second((IF tz.sign = "+" THEN 1 ELSE -1) * (tz.hh * 3600 + tz.mm * 60))
    [] OTHER -> Unreadable
\* A year is written in four characters; a longer one shifts every field after it.
FourCharacters(y) == -999 <= y /\ y <= 9999
Possible(t) == FourCharacters(t.y) /\ ValidDate(t.y, t.m, t.d) /\ t.hh <= 23 /\ t.mi <= 59 /\ t.ss <= 60
Local(t) == DaysFromCivil(t.y, t.m, t.d) * DaySecs + t.hh * 3600 + t.mi * 60 + t.ss
ParseIso(t) ==
  LET tz == ParseTzOffset(t.tz) IN IF Possible(t) /\ tz.ok THEN Second(Local(t) - tz.secs) ELSE Unreadable
UTC == [sign |-> "Z", hh |-> 0, mm |-> 0]
FormatIso(secs) ==
  LET c == CivilFromDays(secs \div DaySecs)
      r == secs % DaySecs
  IN [y |-> c[1], m |-> c[2], d |-> c[3], hh |-> r \div 3600, mi |-> (r % 3600) \div 60, ss |-> r % 60, tz |-> UTC]
DateStr(secs) == CivilFromDays(secs \div DaySecs)

\* The Gregorian calendar: which days exist, and that each is the day after the last.
LeapYear(y) == y % 4 = 0 /\ (y % 100 # 0 \/ y % 400 = 0)
MonthLength(y, m) == IF m = 2 THEN (IF LeapYear(y) THEN 29 ELSE 28) ELSE IF m \in {4, 6, 9, 11} THEN 30 ELSE 31
NextDate(y, m, d) ==
  IF d < MonthLength(y, m) THEN <<y, m, d + 1>> ELSE IF m < 12 THEN <<y, m + 1, 1>> ELSE <<y + 1, 1, 1>>
\* Events are never put on a day that does not exist, and no day is refused: leap years,
\* centuries and year 0 included, and days are numbered without a gap.
CalendarExact ==
  For("date") =>
    LET y == input.y  m == input.m  d == input.d
    IN /\ ValidDate(y, m, d) <=> (m \in 1..12 /\ d \in 1..MonthLength(y, m))
       /\ ValidDate(y, m, d) => CivilFromDays(DaysFromCivil(y, m, d) + 1) = NextDate(y, m, d)
\* One instant is one number, in whatever zone it was written; writing it and reading
\* it again gives it back.
OneInstant ==
  For("instant") =>
    LET t == input.t
        p == ParseIso(t)
    IN p.ok => /\ ParseIso(FormatIso(p.secs)) = p
               /\ t.tz.sign # "Z" =>
                    LET away == t.tz.hh * 3600 + t.tz.mm * 60
                        there == ParseIso([t EXCEPT !.tz = UTC]).secs
                    IN p.secs = IF t.tz.sign = "+" THEN there - away ELSE there + away
DateInputs == [of : {"date"}, y : {0, 1, 4, 100, 399, 400, 1899, 1900, 1970, 2000, 2024, 2100, 9999}, m : 0..13, d : 0..32]
InstantInputs ==
  {[of |-> "instant", t |-> [y |-> y, m |-> m, d |-> d, hh |-> hh, mi |-> mi, ss |-> ss, tz |-> [sign |-> s, hh |-> zh, mm |-> zm]]] :
     y \in {1969, 1970, 2024}, m \in {1, 2, 12}, d \in {1, 29, 31}, hh \in {0, 23, 24}, mi \in {0, 59}, ss \in {0, 60},
     s \in {"Z", "+", "-", "?"}, zh \in {0, 5, 24}, zm \in {0, 30}}

-----------------------------------------------------------------------------
(* The record of a search.  A result is [file, full, compact] (tokens of    *)
(* its text, and of its text at the asked detail), `tokens` the tokens of   *)
(* each file.                                                              *)

Bucket(saved, baseline) == [saved |-> saved, baseline |-> baseline]
NoBucket == Bucket(0, 0)
BaselineTokens(results, tokens) ==
  LET files == ToSet(Field(results, "file")) IN Total([f \in files |-> IF f \in DOMAIN tokens THEN tokens[f] ELSE 0], files)
\* The rows' short form is compared with a spelled-out one; nothing is saved on no rows.
GrammarSavings(rows, compact, verbose) ==
  IF rows = <<>> THEN NoBucket ELSE Bucket(SatSub(verbose, compact), verbose)
ChunkSavings(results, detail) ==
  IF detail = "full" THEN NoBucket
  ELSE Bucket(SaturatingSum([i \in DOMAIN results |-> SatSub(results[i].full, results[i].compact)]),
              SaturatingSum(Field(results, "full")))
NegativeSavings(results, tokens, detail, compact, verbose) ==
  LET baseline == BaselineTokens(results, tokens)
      served == Plain(Field(results, "full"))
  IN [saved |-> baseline - served, baseline |-> baseline, served |-> served, results |-> Len(results),
      empty |-> results = <<>>, chunk |-> ChunkSavings(results, detail), grammar |-> GrammarSavings(results, compact, verbose)]
BuildSearchRecord(results, tokens, detail, compact, verbose) ==
  LET baseline == BaselineTokens(results, tokens)
      served == Plain(Field(results, "full"))
  IN [saved |-> SatSub(baseline, served), baseline |-> baseline, served |-> served, results |-> Len(results),
      empty |-> results = <<>>, chunk |-> ChunkSavings(results, detail), grammar |-> GrammarSavings(results, compact, verbose)]

-----------------------------------------------------------------------------
(* The log.  A line is blank, torn, or an object; an object of an older      *)
(* release has neither a source nor the savings by layer.  Its time is what  *)
(* ParseIso makes of it.                                                     *)

Layers == {"retrieval", "chunk_compression", "grammar", "output", "memory", "turn_summarization", "progressive_disclosure"}
NoLayers == [l \in Layers |-> NoBucket]
RetrievalOnly(saved, baseline) == [l \in Layers |-> IF l = "retrieval" THEN Bucket(saved, baseline) ELSE NoBucket]
LayersOf(r) == [RetrievalOnly(r.saved, r.baseline) EXCEPT !["chunk_compression"] = r.chunk, !["grammar"] = r.grammar]
Object(event, ts) == [form |-> "object", event |-> event, ts |-> ts, id |-> "", source |-> "", saved |-> 0, baseline |-> 0,
                      results |-> 0, ratio |-> 0, score |-> 0, empty |-> FALSE, low |-> FALSE, layers |-> NoLayers, old |-> TRUE,
                      sha |-> "absent", skipped |-> 0, helpful |-> FALSE]
LogSearch(r, ts, id, source) ==
  [Object("search", ts) EXCEPT !.id = id, !.source = source, !.saved = r.saved, !.baseline = r.baseline,
                               !.results = r.results, !.empty = r.empty, !.layers = LayersOf(r), !.old = FALSE]
LogIndex(sha, source, skipped, ts) ==
  [Object("index", ts) EXCEPT !.sha = sha, !.source = source, !.skipped = skipped]
LogFeedback(target, helpful, ts) == [Object("feedback", ts) EXCEPT !.id = target, !.helpful = helpful]

NormalizeSource(raw, default) == IF raw = "" THEN default ELSE raw
FromEvent(o) == IF o.old THEN RetrievalOnly(o.saved, o.baseline) ELSE o.layers
\* What one object means; an event nobody knows is kept as such.
EventOf(o) ==
  LET secs == o.ts.secs
  IN CASE o.event = "search" -> [kind |-> "search", secs |-> secs, id |-> o.id, results |-> o.results, saved |-> o.saved,
                                 ratio |-> o.ratio, score |-> o.score, empty |-> o.empty, low |-> o.low,
                                 source |-> NormalizeSource(o.source, "cli"), savings |-> FromEvent(o)]
       [] o.event = "index" -> [kind |-> "index", secs |-> secs, sha |-> o.sha,
                                source |-> NormalizeSource(o.source, "local"), skipped |-> o.skipped]
       [] o.event = "feedback" -> [kind |-> "feedback", secs |-> secs, target |-> o.id, helpful |-> o.helpful]
       [] OTHER -> [kind |-> "unknown"]
Readable(line) == line.form = "object" /\ (line.event \in {"search", "index", "feedback"} => line.ts.ok)
ParseLog(lines) ==
  LET good == Picked(lines, {i \in DOMAIN lines : Readable(lines[i])})
  IN [events |-> [i \in DOMAIN good |-> EventOf(good[i])], skipped |-> Len(lines) - Len(good)]
\* No file, or one that is not text, is an empty log.
ReadLog(logs, path) == IF path \in DOMAIN logs THEN ParseLog(logs[path]) ELSE [events |-> <<>>, skipped |-> 0]

-----------------------------------------------------------------------------
(* The ledger.                                                             *)

AddBucket(a, b) == Bucket(SatAdd(a.saved, b.saved), SatAdd(a.baseline, b.baseline))
SumByLayer(all) ==
  LET acc == FoldLeft(LAMBDA a, b : [l \in Layers |-> AddBucket(a[l], b[l])], NoLayers, all)
  IN [layers |-> acc, total |-> FoldSet(LAMBDA l, t : AddBucket(t, acc[l]), NoBucket, Layers)]
Searches(events) == Picked(events, {i \in DOMAIN events : events[i].kind = "search"})

\* No layer claims to save more than it was measured against: results may overlap and be
\* larger than their file, and still nothing is saved but what was there.  What is read
\* back from the log is what was recorded.
LedgerWithinBaseline ==
  For("ledger") =>
    LET r == BuildSearchRecord(input.results, input.tokens, input.detail, input.compact, input.verbose)
        log == ParseLog(<<LogSearch(r, Second(1), "q", "cli"), LogSearch(r, Second(2), "q", "mcp")>>)
        ledger == SumByLayer(Field(Searches(log.events), "savings"))
    IN /\ \A l \in Layers : ledger.layers[l].saved \in 0..ledger.layers[l].baseline
       /\ ledger.layers["retrieval"] = AddBucket(Bucket(r.saved, r.baseline), Bucket(r.saved, r.baseline))
LedgerInputs ==
  {[of |-> "ledger", results |-> rs, tokens |-> t, detail |-> d, compact |-> c, verbose |-> 3] :
     rs \in SeqOf([file : {"f", "g"}, full : {1, 4}, compact : {2}], 2), t \in {<<>>, [f |-> 3, g |-> 2], [f |-> 6]},
     d \in {"full", "signature"}, c \in {2, 5}}

\* An event keeps its instant and its savings on the way through the log, at every edge of the
\* calendar, the zones and the numbers.
LedgerExact == CalendarExact /\ OneInstant /\ LedgerWithinBaseline
=============================================================================
