------------------------------ MODULE Reports -------------------------------
(***************************************************************************)
(* What is told of the metrics log: the aggregate (src/aggregator.rs), the *)
(* usage report (src/usage.rs), the dashboard (src/dashboard.rs), the      *)
(* workspace's roll-up (src/federation.rs) and the commands of src/main.rs *)
(* that write and read the log.  A mean is kept as its sum and its count.  *)
(***************************************************************************)
EXTENDS Metrics

CONSTANTS RecentSearchesLimit, UsageRecentHumanLimit, MaxI64
ASSUME ReportBounds == RecentSearchesLimit \in Nat /\ UsageRecentHumanLimit \in Nat /\ MaxI64 \in Nat

-----------------------------------------------------------------------------
(* The aggregate.                                                          *)

Count(seq, P(_)) == Len(SelectSeq(seq, P))
Mean(vals) == [sum |-> Plain(vals), n |-> Len(vals)]
Of(events, kind) == SelectSeq(events, LAMBDA e : e.kind = kind)
\* Scores count only where there was a result.
MeanTopScore(s) == Mean(Field(SelectSeq(s, LAMBDA e : e.results > 0), "score"))
HelpfulRate(yes, no) == IF yes + no = 0 THEN [known |-> FALSE, of |-> 0] ELSE [known |-> TRUE, of |-> (100 * yes) \div (yes + no)]
Direction(cur, prior) ==
  LET at(x) == IF x.n = 0 THEN [sum |-> 0, n |-> 1] ELSE x
      a == at(cur).sum * at(prior).n
      b == at(prior).sum * at(cur).n
  IN IF a > b THEN "up" ELSE IF a < b THEN "down" ELSE "flat"

ComputeTotals(s, f, indexes) ==
  LET yes == Count(f, LAMBDA e : e.helpful)
  IN [searches |-> Len(s), indexes |-> indexes, feedback |-> Len(f), saved |-> SaturatingSum(Field(s, "saved")),
      ratio |-> Mean(Field(s, "ratio")), score |-> MeanTopScore(s), helpful |-> yes, not_helpful |-> Len(f) - yes,
      rate |-> HelpfulRate(yes, Len(f) - yes)]
SourceUsage(s) == [searches |-> Len(s), saved |-> SaturatingSum(Field(s, "saved")), ratio |-> Mean(Field(s, "ratio")),
                   score |-> MeanTopScore(s)]
\* Whatever is not the agent's is the human's.
ComputeUsageBySource(s) == [cli |-> SourceUsage(SelectSeq(s, LAMBDA e : e.source # "mcp")),
                            mcp |-> SourceUsage(SelectSeq(s, LAMBDA e : e.source = "mcp"))]
ComputeSecretSafety(x) == [skipped |-> SaturatingSum(Field(x, "skipped")), runs |-> Len(x)]
\* The newest index event; of two at one second, the later line.
ComputeIndexFreshness(x) ==
  LET newest == CHOOSE i \in DOMAIN x : \A j \in DOMAIN x : x[j].secs < x[i].secs \/ (x[j].secs = x[i].secs /\ j <= i)
  IN IF x = <<>> THEN [indexes |-> 0, source |-> "none", sha |-> "none", secs |-> 0]
     ELSE [indexes |-> Len(x), source |-> x[newest].source, sha |-> x[newest].sha, secs |-> x[newest].secs]

TrendWindow == 7 * DaySecs
InWindow(start, end, secs) == secs >= start /\ secs < end
Windows(now) == [current |-> <<now - TrendWindow, now>>, prior |-> <<now - 2 * TrendWindow, now - TrendWindow>>]
Within(seq, w) == SelectSeq(seq, LAMBDA e : InWindow(w[1], w[2], e.secs))
SavingsWindow(s, w) ==
  LET in == Within(s, w)
  IN [searches |-> Len(in), saved |-> SaturatingSum(Field(in, "saved")), ratio |-> Mean(Field(in, "ratio"))]
ComputeSavings(s, now) ==
  LET w == Windows(now)
      cur == SavingsWindow(s, w.current)
      prior == SavingsWindow(s, w.prior)
  IN [current |-> cur, prior |-> prior, direction |-> Direction(cur.ratio, prior.ratio)]
QualityWindow(s, f, w) ==
  LET in == Within(s, w)
      fb == Within(f, w)
      yes == Count(fb, LAMBDA e : e.helpful)
  IN [score |-> MeanTopScore(in), empty |-> Count(in, LAMBDA e : e.empty), low |-> Count(in, LAMBDA e : e.low),
      n |-> Len(in), rate |-> HelpfulRate(yes, Len(fb) - yes)]
ComputeQuality(s, f, now) ==
  LET w == Windows(now)
      cur == QualityWindow(s, f, w.current)
      prior == QualityWindow(s, f, w.prior)
  IN [current |-> cur, prior |-> prior, direction |-> Direction(cur.score, prior.score)]
\* A point for every date that has a search or a verdict.
OnDay(seq, day) == SelectSeq(seq, LAMBDA e : DateStr(e.secs) = day)
DayPoint(in, fb, yes) ==
  [searches |-> Len(in), saved |-> SaturatingSum(Field(in, "saved")), ratio |-> Mean(Field(in, "ratio")),
   score |-> MeanTopScore(in), empty |-> Count(in, LAMBDA e : e.empty), low |-> Count(in, LAMBDA e : e.low),
   helpful |-> yes, not_helpful |-> Len(fb) - yes]
ComputeDaily(s, f) ==
  [day \in {DateStr(e.secs) : e \in ToSet(s) \cup ToSet(f)} |->
     DayPoint(OnDay(s, day), OnDay(f, day), Count(OnDay(f, day), LAMBDA e : e.helpful))]
\* The verdict on each search, kept up line by line: an older one does not replace a newer.
LastLineWins(f) ==
  FoldLeft(LAMBDA best, e : [id \in DOMAIN best \cup {e.target} |-> IF id = e.target THEN e ELSE best[id]], <<>>, f)
LatestFeedback(f) ==
  FoldLeft(LAMBDA best, e :
             IF e.target \in DOMAIN best /\ best[e.target].secs > e.secs THEN best
             ELSE [id \in DOMAIN best \cup {e.target} |-> IF id = e.target THEN e ELSE best[id]], <<>>, f)
VerdictOn(latest, id) == IF id \notin DOMAIN latest THEN "none" ELSE IF latest[id].helpful THEN "helpful" ELSE "not_helpful"
RecentOf(newest, latest) ==
  [k \in 1..(IF Len(newest) < RecentSearchesLimit THEN Len(newest) ELSE RecentSearchesLimit) |->
     [id |-> newest[k].id, secs |-> newest[k].secs, source |-> newest[k].source, saved |-> newest[k].saved,
      feedback |-> VerdictOn(latest, newest[k].id)]]
NewestFirst(s) ==
  LET order == SortSeq([i \in DOMAIN s |-> i], LAMBDA i, j : s[i].secs > s[j].secs \/ (s[i].secs = s[j].secs /\ i > j))
  IN [k \in DOMAIN order |-> s[order[k]]]
ComputeRecent(s, f) == RecentOf(NewestFirst(s), LatestFeedback(f))
AggregateOf(s, f, x, now) ==
  [totals |-> ComputeTotals(s, f, Len(x)), savings |-> ComputeSavings(s, now), quality |-> ComputeQuality(s, f, now),
   by_source |-> ComputeUsageBySource(s), secrets |-> ComputeSecretSafety(x), freshness |-> ComputeIndexFreshness(x),
   by_layer |-> SumByLayer(Field(s, "savings")), daily |-> ComputeDaily(s, f), recent |-> ComputeRecent(s, f)]
Aggregate(events, now) == AggregateOf(Of(events, "search"), Of(events, "feedback"), Of(events, "index"), now)

-----------------------------------------------------------------------------
(* cce usage.                                                              *)

UnitSecs == [m |-> 60, h |-> 3600, d |-> DaySecs, w |-> 7 * DaySecs]
\* A window of n units back from now, or an instant; no window of nothing, none that
\* does not fit an i64.
ParseSince(spec, now) ==
  CASE spec.form = "relative" ->
         IF spec.n = 0 \/ spec.n * UnitSecs[spec.unit] > MaxI64 THEN Unreadable
         ELSE [ok |-> TRUE, secs |-> now - spec.n * UnitSecs[spec.unit]]
    [] spec.form = "iso" -> ParseIso(spec.t)
    [] OTHER -> Unreadable
FilterSince(events, cutoff) == SelectSeq(events, LAMBDA e : e.kind = "unknown" \/ e.secs >= cutoff)
Shows(filter, source) ==
  CASE filter = "all" -> TRUE
    [] filter = "mcp" -> source = "mcp"
    [] OTHER -> source # "mcp"
\* The report read by a person: the sources asked for, the newest searches of theirs
\* among the recent ones, and how many of those are not shown.
RenderHuman(agg, filter) ==
  IF agg.totals.searches = 0 THEN [rows |-> {}, shown |-> <<>>, more |-> 0]
  ELSE LET recent == SelectSeq(agg.recent, LAMBDA r : Shows(filter, r.source))
           shown == SubSeq(recent, 1, IF Len(recent) < UsageRecentHumanLimit THEN Len(recent) ELSE UsageRecentHumanLimit)
       IN [rows |-> {t \in {"mcp", "cli"} : filter \in {"all", t}}, shown |-> shown, more |-> Len(recent) - Len(shown)]
\* The one read by a program names the filter and shows every recent search.
RenderJson(agg, filter) == [source_filter |-> filter, totals |-> agg.totals, by_source |-> agg.by_source, recent |-> agg.recent]

\* For each source and each day, the report's parts make up its whole, whatever the lines'
\* sources are and however far the sums are clamped.
SumOfParts(part) ==
  FoldSet(LAMBDA p, t : [searches |-> t.searches + part[p].searches, saved |-> SatAdd(t.saved, part[p].saved)],
          [searches |-> 0, saved |-> 0], DOMAIN part)
PartsMakeTheWhole ==
  For("report") =>
    \A a \in {Aggregate(ParseLog(input.lines).events, input.now)} :
      /\ SumOfParts(a.by_source) = [searches |-> a.totals.searches, saved |-> a.totals.saved]
      /\ SumOfParts(a.daily) = SumOfParts(a.by_source)
\* A total is exact until it reaches the largest number and stays there; searches logged
\* before there were layers count as retrieval, so the ledger and the totals agree.
ClampedNeverWraps ==
  For("report") =>
    \A p \in {ParseLog(input.lines)} :
      \A a \in {Aggregate(p.events, input.now)}, sum \in {Plain(Field(Searches(p.events), "saved"))} :
        /\ a.totals.saved = IF sum > MaxU64 THEN MaxU64 ELSE sum
        /\ a.by_layer.layers["retrieval"].saved = a.totals.saved
        /\ Len(p.events) + p.skipped = Len(input.lines)
\* `cce usage --since 7d` counts the searches the trend's current week counts, unless the
\* clock was ahead.
WeekIsCurrentWindow ==
  For("report") =>
    \A events \in {ParseLog(input.lines).events}, cut \in {ParseSince([form |-> "relative", n |-> 7, unit |-> "d"], input.now)} :
      cut.ok /\ (\A e \in ToSet(events) : e.kind # "unknown" => e.secs < input.now) =>
        \A week \in {Aggregate(FilterSince(events, cut.secs), input.now)}, all \in {Aggregate(events, input.now)} :
          week.totals.searches = all.savings.current.searches /\ week.savings.current = all.savings.current
\* What is shown and what is said to be left out are together the source's searches in
\* the machine's report, newest first.
UsageHonest ==
  For("report") =>
    \A a \in {Aggregate(ParseLog(input.lines).events, input.now)}, filter \in {"all", "mcp", "cli"} :
      \A h \in {RenderHuman(a, filter)}, j \in {SelectSeq(RenderJson(a, filter).recent, LAMBDA r : Shows(filter, r.source))} :
        IsPrefix(h.shown, j) /\ h.more = Len(j) - Len(h.shown)
\* The verdict shown on a search is the newest given, wherever its line is: logs are
\* merged, and clocks and lines need not agree.
VerdictsNewest(f, recent) ==
  \A k \in DOMAIN recent :
    LET on == {i \in DOMAIN f : f[i].target = recent[k].id}
    IN /\ (recent[k].feedback = "none") <=> (on = {})
       /\ \A i \in on :
            (\A j \in on : f[j].secs < f[i].secs \/ (f[j].secs = f[i].secs /\ j <= i))
              => recent[k].feedback = IF f[i].helpful THEN "helpful" ELSE "not_helpful"
       /\ k > 1 => recent[k - 1].secs >= recent[k].secs
NewestVerdictShown ==
  For("verdict") =>
    \A events \in {ParseLog(input.lines).events} : VerdictsNewest(Of(events, "feedback"), Aggregate(events, input.now).recent)

Now == 30 * DaySecs
SearchLine(t, source, saved) ==
  [Object("search", Second(t)) EXCEPT !.id = "q", !.source = source, !.saved = saved, !.baseline = saved, !.results = 1,
     !.old = (source = ""), !.layers = IF source = "" THEN NoLayers ELSE RetrievalOnly(saved, saved)]
ReportLines ==
  {SearchLine(t, s, n) : t \in {Now - TrendWindow - 1, Now - TrendWindow, Now - 1}, s \in {"", "mcp", "hook"}, n \in {1, MaxU64 - 1}}
  \cup {[form |-> "torn"], LogIndex("absent", "", 1, Unreadable), LogIndex("s", "sync", 1, Second(Now - 1)), Object("other", Unreadable)}
ReportInputs ==
  {[of |-> "report", lines |-> l, now |-> Now] :
     l \in SeqOf(ReportLines, 2) \cup {<<a, b, c>> : a, b \in ReportLines, c \in {SearchLine(Now - TrendWindow, "mcp", MaxU64 - 1), SearchLine(Now - 1, "", 1)}}}
VerdictLines ==
  {[SearchLine(t, "mcp", 1) EXCEPT !.id = i] : t \in {Now - 9, Now}, i \in {"p", "q"}}
  \cup {LogFeedback(i, h, Second(t)) : i \in {"p", "q"}, h \in BOOLEAN, t \in {Now - 5, Now}}
VerdictInputs == {[of |-> "verdict", lines |-> l, now |-> Now] : l \in SeqOf(VerdictLines, 4)}

-----------------------------------------------------------------------------
(* Who writes to which log, and who reads it.  A root is "." or a member's   *)
(* directory; a root's log is named after it.  A command has --dir, --store  *)
(* and --metrics, each "none" if not given.                                  *)

DefaultMetricsPath(root) == root
\* --store names a root's store here.
ResolveReadStore(store, dir) == IF store # "none" THEN store ELSE IF dir # "none" THEN dir ELSE "."
MetricsBesideStore(store) == store
ResolveMetricsPath(metrics, store, dir) == IF metrics # "none" THEN metrics ELSE MetricsBesideStore(ResolveReadStore(store, dir))
\* The logs `index --workspace`, `search --dir`, `feedback` and the servers write.
LogOf(w) ==
  CASE w.by = "index --workspace" -> MetricsBesideStore(DefaultMetricsPath(w.member))
    [] w.by = "search" -> MetricsBesideStore(ResolveReadStore("none", w.member))
    [] w.by = "feedback" -> ResolveMetricsPath("none", "none", w.member)
    [] w.by = "mcp --workspace" -> DefaultMetricsPath(".")
MemberMetrics(members) == [i \in DOMAIN members |-> DefaultMetricsPath(members[i])]
\* The members' logs, and the root's unless a member lives there.
WorkspaceLogs(members) ==
  IF \E i \in DOMAIN members : MemberMetrics(members)[i] = DefaultMetricsPath(".") THEN MemberMetrics(members)
  ELSE MemberMetrics(members) \o <<DefaultMetricsPath(".")>>
Since(events, cut) == IF cut.ok THEN FilterSince(events, cut.secs) ELSE events
FederatedMetrics(members, logs, now, cut) ==
  [rollup |-> Aggregate(Since(FlattenSeq([i \in DOMAIN WorkspaceLogs(members) |-> ReadLog(logs, WorkspaceLogs(members)[i]).events]), cut), now),
   by_package |-> [m \in ToSet(members) |-> Aggregate(Since(ReadLog(logs, DefaultMetricsPath(m)).events, cut), now).totals]]
\* The dashboard: its page, the aggregate and the health of the log, and nothing else.
Route(path, logs, log, now) ==
  CASE path = "/" -> [status |-> 200, body |-> "page"]
    [] path = "/api/metrics" -> [status |-> 200, body |-> Aggregate(ReadLog(logs, log).events, now)]
    [] path = "/api/health" -> [status |-> 200, events |-> Len(ReadLog(logs, log).events), skipped |-> ReadLog(logs, log).skipped]
    [] OTHER -> [status |-> 404, body |-> "error"]
RouteWorkspace(path, logs, members, now) ==
  CASE path = "/" -> [status |-> 200, body |-> "page"]
    [] path = "/api/metrics" -> [status |-> 200, body |-> FederatedMetrics(members, logs, now, Unreadable)]
    [] path = "/api/health" -> [status |-> 200, members |-> Len(members),
                                events |-> Plain([i \in DOMAIN WorkspaceLogs(members) |-> Len(ReadLog(logs, WorkspaceLogs(members)[i]).events)])]
    [] OTHER -> [status |-> 404, body |-> "error"]
UsageSince(workspace, members, logs, flags, cut, now) ==
  IF workspace THEN FederatedMetrics(members, logs, now, cut).rollup
  ELSE Aggregate(Since(ReadLog(logs, ResolveMetricsPath(flags.metrics, flags.store, flags.dir)).events, cut), now)
CmdUsage(workspace, members, logs, flags, since, now) ==
  IF since.form # "none" /\ ~ParseSince(since, now).ok THEN [error |-> TRUE]
  ELSE [error |-> FALSE,
        of |-> UsageSince(workspace, members, logs, flags, IF since.form = "none" THEN Unreadable ELSE ParseSince(since, now), now)]
\* The ledger command and the feedback's look for the search it is about.
CmdSavings(logs, flags) ==
  SumByLayer(Field(Searches(ReadLog(logs, ResolveMetricsPath(flags.metrics, flags.store, flags.dir)).events), "savings"))
CmdFeedback(logs, flags, id, helpful, not_helpful) ==
  LET log == ResolveMetricsPath(flags.metrics, flags.store, flags.dir)
  IN IF helpful = not_helpful THEN [error |-> TRUE, log |-> log, warned |-> FALSE]
     ELSE [error |-> FALSE, log |-> log,
           warned |-> ~\E i \in DOMAIN Searches(ReadLog(logs, log).events) : Searches(ReadLog(logs, log).events)[i].id = id]

\* Whoever logged an event in a workspace, the workspace's report counts it once: a
\* member at the root is not counted as the root as well.  The dashboard's health counts
\* what its metrics are made of, and a member's dashboard and ledger tell of it what
\* the workspace's report tells.
LineOfWrite(w, i) ==
  CASE w.by = "index --workspace" -> LogIndex("s", "local", 0, Second(Now - i))
    [] w.by = "feedback" -> LogFeedback("q", TRUE, Second(Now - i))
    [] OTHER -> SearchLine(Now - i, IF w.by = "search" THEN "cli" ELSE "mcp", 1)
LogsOf(writes) ==
  [p \in {LogOf(writes[i]) : i \in DOMAIN writes} |->
     FlattenSeq([i \in DOMAIN writes |-> IF LogOf(writes[i]) = p THEN <<LineOfWrite(writes[i], i)>> ELSE <<>>])]
Events(t) == t.searches + t.indexes + t.feedback
NoFlags == [metrics |-> "none", store |-> "none", dir |-> "none"]
MemberAgrees(logs, m, own, package) ==
  /\ own.totals = package
  /\ Route("/api/health", logs, DefaultMetricsPath(m), Now).events = Events(own.totals)
  /\ CmdSavings(logs, [NoFlags EXCEPT !.dir = m]).layers["retrieval"].saved = own.totals.saved
WorkspaceCountsOnce ==
  For("workspace") =>
    \A logs \in {LogsOf(input.writes)} :
      \A fed \in {RouteWorkspace("/api/metrics", logs, input.members, Now).body} :
        /\ Events(CmdUsage(TRUE, input.members, logs, NoFlags, [form |-> "none"], Now).of.totals) = Len(input.writes)
        /\ RouteWorkspace("/api/health", logs, input.members, Now).events = Events(fed.rollup.totals)
        /\ \A m \in ToSet(input.members) :
             MemberAgrees(logs, m, Route("/api/metrics", logs, DefaultMetricsPath(m), Now).body, fed.by_package[m])
        /\ \A w \in ToSet(input.writes) :
             w.by = "search" => /\ fed.by_package[w.member].searches > 0
                                /\ ~CmdFeedback(logs, [NoFlags EXCEPT !.dir = w.member], "q", TRUE, FALSE).warned
WorkspaceReportInputs ==
  {[of |-> "workspace", members |-> ms, writes |-> ws] :
     ms \in {<<"a">>, <<".", "a">>, <<"a", "b">>},
     ws \in SeqOf([by : {"index --workspace", "search", "feedback"}, member : {"a"}] \cup {[by |-> "mcp --workspace", member |-> "."]}, 3)}

\* All reports of one log agree: parts with totals, windows with filters, people's with machines',
\* members' with the workspace's.
ReportsAgree ==
  /\ PartsMakeTheWhole
  /\ ClampedNeverWraps
  /\ WeekIsCurrentWindow
  /\ UsageHonest
  /\ NewestVerdictShown
  /\ WorkspaceCountsOnce
=============================================================================
