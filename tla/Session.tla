------------------------------- MODULE Session -------------------------------
(***************************************************************************)
(* `cce mcp`: the stdio loop and the tools of several servers over one     *)
(* root (src/mcp/server.rs, protocol.rs, tools.rs), their session ledgers  *)
(* (src/session.rs), and the two files they append to without a lock:      *)
(* .cce/memory.jsonl (src/memory.rs) and .cce/metrics.jsonl                *)
(* (src/metrics.rs).  Servers interleave at every file access; a kill or a *)
(* full disk cuts an append short.  The stores behind the searches are     *)
(* reduced to whether they load (StoreCache has their caches).             *)
(*                                                                         *)
(* A file is a sequence of tokens: a whole record, the beginning of one,   *)
(* or a newline.                                                           *)
(***************************************************************************)
EXTENDS Naturals, Sequences, FiniteSets, SequencesExt

CONSTANTS Server,          \* running `cce mcp` processes
          Decision,        \* decision texts, up to the normalisation of their id
          Level,           \* output-compression levels
          SummaryMaxItems, \* items shown per digest section
          DefaultSource,   \* knowledge.default_source of the config
          MaxMsg, MaxTear, \* bounds: messages, torn appends and kills
          Nil

ASSUME SessionAssumption ==
  /\ SummaryMaxItems \in Nat \ {0} /\ {MaxMsg, MaxTear} \subseteq Nat
  /\ DefaultSource \in {"code", "knowledge", "both"}

VARIABLES mem, log,   \* the two files
          server,     \* [Server -> its process]
          stores,     \* [code, know: "absent", "corrupt" or "ok"]
          budget,     \* bounds
          acked       \* history: appends that returned, and those that met a broken line

sessionVars == <<mem, log, server, stores, budget, acked>>

Fresh == [out |-> <<>>, expect |-> <<>>, ledger |-> <<>>,
          level |-> Nil, served |-> 0, searches |-> 0, call |-> Nil]

-----------------------------------------------------------------------------
(* Files of lines.                                                         *)

Rec(x) == [token |-> "rec", of |-> x]
Frag   == [token |-> "frag", of |-> Nil]
Nl     == [token |-> "nl", of |-> Nil]
Whole(f, i) == /\ f[i].token = "rec"
               /\ i = 1 \/ f[i - 1] = Nl
               /\ i = Len(f) \/ f[i + 1] = Nl
\* A line parses when it is one whole record; blank and broken lines are skipped.
LinesRead(f) == {f[i].of : i \in {j \in DOMAIN f : Whole(f, j)}}
\* load_entries keeps the first line of each id.
LoadEntries(f) == LinesRead(f)
NeverHeals(f) == FALSE
NeedsLeadingNl(f) == f # <<>> /\ Last(f) # Nl

\* What a failed or killed write of `run` may leave: a proper prefix, its last
\* token possibly cut.
Cut(run) == {SubSeq(run, 1, n) : n \in 0..(Len(run) - 1)}
            \cup {Append(SubSeq(run, 1, n - 1), Frag) : n \in {m \in DOMAIN run : run[m] # Nl}}

-----------------------------------------------------------------------------
(* Protocol: what one line of input is.                                    *)

\* `bad_args` stands for any tool whose required argument is missing, blank or
\* unknown: every tool checks that before anything else.
Call == [tool : {"context_search"}, arg : {"code", "knowledge", "both", "default"}]
        \cup [tool : {"record_decision"}, arg : Decision]
        \cup [tool : {"set_output_compression"}, arg : Level]
        \cup [tool : {"record_feedback", "expand_chunk", "related_context", "session_recall",
                      "summarize_context", "index_status", "bad_args", "no_such_tool",
                      "ping", "no_such_method", "no_name"}, arg : {Nil}]
Form == {"bytes", "blank", "invalid", "notification", "request"}

Reply(id, code, body) == [id |-> id, code |-> code, body |-> body]
Idle(s) == server[s].call = Nil
Answer(s, srv, reply) == server' = [server EXCEPT ![s] = [srv EXCEPT !.out = Append(@, reply), !.call = Nil]]
\* tools_call counts the text of every known tool against served_tokens.
ToolAnswer(s, srv, code, body) ==
  Answer(s, [srv EXCEPT !.served = @ + 1], Reply(srv.call.id, code, body))

NewCall(id, call) ==
  [id |-> id, tool |-> call.tool, arg |-> call.arg, phase |-> "start",
   source |-> Nil, notices |-> {}, pools |-> {}, nl |-> FALSE]
\* What a server is busy with; Nil is none of it.
Pending ==
  [id : Nat, tool : {c.tool : c \in Call}, arg : {c.arg : c \in Call},
   phase : {"start", "tail", "write", "line", "newline", "logged", "code", "know"},
   source : {Nil, "code", "knowledge", "both"}, notices : SUBSET {"code"}, pools : SUBSET {"code"}, nl : BOOLEAN]
ASSUME NilAssumption == Nil \notin Pending

\* What an answer carries that is not the text of a decision: nothing, the recalled
\* decisions, a digest, or what a search looked at.
Bodies ==
  {Nil} \cup [recalled : SUBSET Decision] \cup [count : Nat, shown : Seq(Decision), more : Nat]
  \cup [pools : SUBSET {"code", "know"}, notices : SUBSET {"code", "know", "guidance"},
        asked : {"code", "knowledge", "both", "default"}]
ASSUME DecisionAssumption == \A d \in Decision : d \notin Bodies

HandleRunningNotes(s, form, id, call, srv) ==
  CASE form = "bytes" -> Answer(s, srv, Reply(Nil, "parse_error", Nil))
    [] form = "invalid" -> Answer(s, srv, Reply(Nil, "invalid_request", Nil))
    [] form = "blank" -> server' = [server EXCEPT ![s] = srv]
    [] OTHER -> server' = [server EXCEPT ![s] = [srv EXCEPT !.call = NewCall(id, call)]]

\* run and handle_line: bytes that are no JSON, a value that is no request and a
\* notification never reach a tool, and the loop goes on after each.
HandleLine(s, form, id, call, srv) ==
  CASE form = "bytes" -> Answer(s, srv, Reply(Nil, "parse_error", Nil))
    [] form = "invalid" -> Answer(s, srv, Reply(id, "invalid_request", Nil))
    [] form \in {"blank", "notification"} -> server' = [server EXCEPT ![s] = srv]
    [] OTHER -> server' = [server EXCEPT ![s] = [srv EXCEPT !.call = NewCall(id, call)]]

\* The client's next line; `expect` keeps the ids whose answers it waits for.
Receive(s, form, call) ==
  /\ Idle(s) /\ budget.msg < MaxMsg
  /\ form \in {"bytes", "blank", "invalid"} => call.tool = "ping"
  /\ form = "notification" => call.tool = "record_decision"
  /\ LET id == budget.msg + 1
         awaits == CASE form \in {"blank", "notification"} -> <<>>
                     [] form = "bytes" -> <<Nil>>
                     [] OTHER -> <<id>>
     IN /\ HandleLine(s, form, id, call, [server[s] EXCEPT !.expect = @ \o awaits])
        /\ budget' = [budget EXCEPT !.msg = id]
  /\ UNCHANGED <<mem, log, stores, acked>>

Doing(s, tool, ph) == ~Idle(s) /\ server[s].call.tool = tool /\ server[s].call.phase = ph
Phase(s, ph) == server' = [server EXCEPT ![s].call.phase = ph]

-----------------------------------------------------------------------------
(* The ledger and its digest.                                              *)

Log(srv, event) == [srv EXCEPT !.ledger = Append(@, event)]
\* First-seen order, duplicates dropped.
FirstSeen(ledger) ==
  {i \in DOMAIN ledger : ledger[i].event = "decision" /\ \A j \in 1..(i - 1) : ledger[j] # ledger[i]}
DecisionsOf(ledger) ==
  LET first == FirstSeen(ledger)
  IN [k \in 1..Cardinality(first) |->
        ledger[CHOOSE i \in first : Cardinality({j \in first : j <= i}) = k].id]
\* push_section: the true count, the first items, and how many are elided.
Section(items) ==
  [count |-> Len(items), shown |-> SubSeq(items, 1, IF Len(items) < SummaryMaxItems THEN Len(items) ELSE SummaryMaxItems),
   more |-> IF Len(items) > SummaryMaxItems THEN Len(items) - SummaryMaxItems ELSE 0]
SessionDigest(ledger) == Section(DecisionsOf(ledger))

-----------------------------------------------------------------------------
(* Tools that answer in one step.                                          *)

OneStep(s, tool) == Doing(s, tool, "start") /\ UNCHANGED <<mem, log, stores, budget, acked>>
Srv(s) == server[s]
Id(s) == server[s].call.id

\* Requests that reach no tool: answered, and not counted as served text.
Dispatch(s) ==
  \/ OneStep(s, "ping") /\ Answer(s, Srv(s), Reply(Id(s), "ok", Nil))
  \/ OneStep(s, "no_such_method") /\ Answer(s, Srv(s), Reply(Id(s), "method_not_found", Nil))
  \/ OneStep(s, "no_name") /\ Answer(s, Srv(s), Reply(Id(s), "invalid_params", Nil))
  \/ OneStep(s, "no_such_tool") /\ Answer(s, Srv(s), Reply(Id(s), "tool_error", Nil))
BadArgs(s) == OneStep(s, "bad_args") /\ ToolAnswer(s, Srv(s), "tool_error", Nil)
IndexStatus(s) == OneStep(s, "index_status") /\ ToolAnswer(s, Srv(s), "ok", Nil)
SetOutputCompression(s) ==
  /\ OneStep(s, "set_output_compression")
  /\ ToolAnswer(s, [Srv(s) EXCEPT !.level = Srv(s).call.arg], "ok", Nil)
\* A well-formed call is logged before the id is looked up, stale or not.
ExpandChunk(s) ==
  OneStep(s, "expand_chunk") /\ ToolAnswer(s, Log(Srv(s), [event |-> "expand", id |-> Nil]), "ok", Nil)
RelatedContext(s) ==
  OneStep(s, "related_context") /\ ToolAnswer(s, Log(Srv(s), [event |-> "related", id |-> Nil]), "ok", Nil)
SessionRecall(s) ==
  OneStep(s, "session_recall") /\ ToolAnswer(s, Srv(s), "ok", [recalled |-> LoadEntries(mem)])
SummarizeContext(s) ==
  OneStep(s, "summarize_context") /\ ToolAnswer(s, Srv(s), "ok", SessionDigest(Srv(s).ledger))

-----------------------------------------------------------------------------
(* record_decision: look for the id, look at the last byte, write.          *)

Acked(d) == acked' = [acked EXCEPT !.mem = @ \cup {d}]
RecordDecision(s) ==
  /\ Doing(s, "record_decision", "start")
  /\ LET srv == server[s]
         d == srv.call.arg
     IN IF d \in LoadEntries(mem)
        THEN ToolAnswer(s, Log(srv, [event |-> "decision", id |-> d]), "ok", d) /\ Acked(d)
        ELSE Phase(s, "tail") /\ UNCHANGED acked
  /\ UNCHANGED <<mem, log, stores, budget>>

LookAtTail(s) ==
  /\ Doing(s, "record_decision", "tail")
  /\ server' = [server EXCEPT ![s].call.phase = "write", ![s].call.nl = NeedsLeadingNl(mem)]
  /\ UNCHANGED <<mem, log, stores, budget, acked>>

\* One buffer, one write: newline to heal a torn tail, the line, its newline.
Buffer(c) == (IF c.nl THEN <<Nl>> ELSE <<>>) \o <<Rec(c.arg), Nl>>
\* What the tail loses to a writer that looked at it before it was cut.
GluedTail(c) == IF NeedsLeadingNl(mem) /\ ~c.nl THEN {Last(mem).of} ELSE {}

WriteDecision(s) ==
  /\ Doing(s, "record_decision", "write")
  /\ LET srv == server[s]
         d == srv.call.arg
     IN /\ mem' = mem \o Buffer(srv.call)
        /\ ToolAnswer(s, Log(srv, [event |-> "decision", id |-> d]), "ok", d)
        /\ acked' = [acked EXCEPT !.mem = @ \cup {d},
                       !.blind = IF GluedTail(srv.call) = {} THEN @ ELSE @ \cup GluedTail(srv.call) \cup {d}]
  /\ UNCHANGED <<log, stores, budget>>

\* A part of the buffer; nothing of it loses nothing.
AppendCut(c) ==
  \E cut \in Cut(Buffer(c)) :
    /\ mem' = mem \o cut
    /\ acked' = IF cut = <<>> THEN acked ELSE [acked EXCEPT !.blind = @ \cup GluedTail(c)]

\* The disk is full: an error answer, and a cut record in the file.
WriteDecisionFails(s) ==
  /\ Doing(s, "record_decision", "write") /\ budget.tear < MaxTear
  /\ AppendCut(server[s].call)
  /\ ToolAnswer(s, server[s], "tool_error", Nil)
  /\ budget' = [budget EXCEPT !.tear = @ + 1]
  /\ UNCHANGED <<log, stores>>

-----------------------------------------------------------------------------
(* The metrics log: the line and its newline are two writes.               *)

\* log_search or log_feedback; the event's id is the message's.
StartAppend(s, srv) == server' = [server EXCEPT ![s] = [srv EXCEPT !.call.phase = "line"]]

RecordFeedback(s) ==
  /\ Doing(s, "record_feedback", "start")
  /\ StartAppend(s, server[s])
  /\ UNCHANGED <<mem, log, stores, budget, acked>>

InNewline == {t \in Server : ~Idle(t) /\ server[t].call.phase = "newline"}

\* An append that starts on an unfinished line breaks that one and itself.
AppendLine(s) ==
  /\ ~Idle(s) /\ server[s].call.phase = "line"
  /\ log' = Append(log, Rec(server[s].call.id))
  /\ acked' = IF log # <<>> /\ Last(log) # Nl
              THEN [acked EXCEPT !.merged = @ \cup {server[s].call.id} \cup {server[t].call.id : t \in InNewline}]
              ELSE acked
  /\ Phase(s, "newline")
  /\ UNCHANGED <<mem, stores, budget>>


AppendNewline(s) ==
  /\ ~Idle(s) /\ server[s].call.phase = "newline"
  /\ log' = Append(log, Nl)
  /\ acked' = [acked EXCEPT !.log = @ \cup {server[s].call.id}]
  /\ IF server[s].call.tool = "record_feedback"
     THEN ToolAnswer(s, server[s], "ok", Nil)
     ELSE Phase(s, "logged")
  /\ UNCHANGED <<mem, stores, budget>>

\* Fail-open: a search goes on without a query_id, feedback reports the failure.
AppendFails(s) ==
  /\ ~Idle(s) /\ server[s].call.phase \in {"line", "newline"} /\ budget.tear < MaxTear
  /\ budget' = [budget EXCEPT !.tear = @ + 1]
  /\ IF server[s].call.phase = "line"
     THEN \E cut \in Cut(<<Rec(server[s].call.id), Nl>>) :
            /\ Len(cut) <= 1 /\ log' = log \o cut
            /\ acked' = IF cut = <<>> THEN acked
                        ELSE [acked EXCEPT !.merged = @ \cup {server[t].call.id : t \in InNewline}]
     ELSE UNCHANGED <<log, acked>>
  /\ IF server[s].call.tool = "record_feedback"
     THEN ToolAnswer(s, server[s], "tool_error", Nil)
     ELSE Phase(s, "logged")
  /\ UNCHANGED <<mem, stores>>

-----------------------------------------------------------------------------
(* context_search.                                                         *)

\* A knowledge store that is there but broken is present.
IsPresent(status) == status # "absent"

\* resolve_source: an explicit source, else the configured one when there is a
\* knowledge store, else code.
ResolveSource(s) ==
  /\ Doing(s, "context_search", "start")
  /\ LET arg == server[s].call.arg
         src == IF arg # "default" THEN arg
                ELSE IF IsPresent(stores.know) THEN DefaultSource ELSE "code"
     IN server' = [server EXCEPT ![s].call.source = src,
                          ![s].call.phase = IF src = "knowledge" THEN "know" ELSE "code"]
  /\ UNCHANGED <<mem, log, stores, budget, acked>>

\* Code alone: an index that does not load (for a workspace: a manifest or a member
\* store that does not) is answered with guidance, and nothing is logged.
SearchCode(s) ==
  /\ Doing(s, "context_search", "code") /\ server[s].call.source = "code"
  /\ LET srv == server[s]
     IN IF stores.code = "ok"
        THEN StartAppend(s, [srv EXCEPT !.call.pools = @ \cup {"code"}])
        ELSE ToolAnswer(s, srv, "ok", [pools |-> {}, notices |-> {"guidance"}, asked |-> srv.call.arg])
  /\ UNCHANGED <<mem, log, stores, budget, acked>>

\* Blended: an index nobody built is silent; one that is there (for a workspace, any
\* member's) and does not load is a notice.
GatherCodeHits(s) ==
  /\ Doing(s, "context_search", "code") /\ server[s].call.source = "both"
  /\ LET srv == server[s]
     IN IF stores.code = "ok"
        THEN StartAppend(s, [srv EXCEPT !.call.pools = @ \cup {"code"}])
        ELSE server' = [server EXCEPT ![s].call.phase = "know",
                          ![s].call.notices = IF stores.code = "corrupt" THEN {"code"} ELSE {}]
  /\ UNCHANGED <<mem, log, stores, budget, acked>>

\* After the event: the usage counter and the ledger, then the rendering or the
\* knowledge half.
WriteSearchEvent(s) ==
  /\ Doing(s, "context_search", "logged")
  /\ LET srv == [Log(server[s], [event |-> "search", id |-> Nil]) EXCEPT !.searches = @ + 1]
     IN IF srv.call.source = "code"
        THEN ToolAnswer(s, srv, "ok", [pools |-> srv.call.pools, notices |-> {}, asked |-> srv.call.arg])
        ELSE server' = [server EXCEPT ![s] = [srv EXCEPT !.call.phase = "know"]]
  /\ UNCHANGED <<mem, log, stores, budget, acked>>

LoadKnowledgeHits(status) ==
  [pools |-> IF status = "ok" THEN {"know"} ELSE {},
   notices |-> IF IsPresent(status) /\ status # "ok" THEN {"know"} ELSE {}]

\* The knowledge path alone writes the ledger itself, and no event.
SearchKnowledge(s) ==
  /\ Doing(s, "context_search", "know") /\ server[s].call.source = "knowledge"
  /\ LET k == LoadKnowledgeHits(stores.know)
     IN ToolAnswer(s, Log(server[s], [event |-> "search", id |-> Nil]), "ok",
                   [pools |-> k.pools, notices |-> k.notices, asked |-> server[s].call.arg])
  /\ UNCHANGED <<mem, log, stores, budget, acked>>

SearchBoth(s) ==
  /\ Doing(s, "context_search", "know") /\ server[s].call.source = "both"
  /\ LET k == LoadKnowledgeHits(stores.know)
         c == server[s].call
     IN ToolAnswer(s, server[s], "ok",
                   [pools |-> c.pools \cup k.pools, notices |-> c.notices \cup k.notices, asked |-> c.arg])
  /\ UNCHANGED <<mem, log, stores, budget, acked>>

-----------------------------------------------------------------------------
(* A server dies.                                                          *)

\* A kill in the middle of an append; the new server starts with an empty ledger.
Kill(s) ==
  /\ budget.tear < MaxTear /\ ~Idle(s)
  /\ IF Doing(s, "record_decision", "write") THEN AppendCut(server[s].call) ELSE UNCHANGED <<mem, acked>>
  /\ server' = [server EXCEPT ![s] = Fresh]
  /\ budget' = [budget EXCEPT !.tear = @ + 1]
  /\ UNCHANGED <<log, stores>>

SessionInit ==
  /\ mem = <<>> /\ log = <<>>
  /\ server = [s \in Server |-> Fresh]
  /\ stores \in {[code |-> "ok", know |-> "absent"], [code |-> "corrupt", know |-> "corrupt"],
                 [code |-> "absent", know |-> "ok"]}
  /\ budget = [msg |-> 0, tear |-> 0]
  /\ acked = [mem |-> {}, log |-> {}, blind |-> {}, merged |-> {}]

SessionStep(s) ==
  \/ Dispatch(s) \/ BadArgs(s) \/ IndexStatus(s) \/ SetOutputCompression(s)
  \/ ExpandChunk(s) \/ RelatedContext(s) \/ SessionRecall(s) \/ SummarizeContext(s)
  \/ RecordDecision(s) \/ LookAtTail(s) \/ WriteDecision(s) \/ WriteDecisionFails(s)
  \/ RecordFeedback(s) \/ AppendLine(s) \/ AppendNewline(s) \/ AppendFails(s)
  \/ ResolveSource(s) \/ SearchCode(s) \/ GatherCodeHits(s) \/ WriteSearchEvent(s)
  \/ SearchKnowledge(s) \/ SearchBoth(s)

SessionNext ==
  \E s \in Server : \/ SessionStep(s) \/ Kill(s)
                    \/ \E form \in Form, call \in Call : Receive(s, form, call)

SessionSpec == SessionInit /\ [][SessionNext]_sessionVars

-----------------------------------------------------------------------------
(* Properties.                                                             *)

\* The shape of the state; no server serves more answers than it was sent lines.
SessionTypeOK ==
  /\ \A s \in Server : server[s].level \in Level \cup {Nil} /\ server[s].served \in 0..MaxMsg
  /\ LinesRead(mem) \subseteq Decision /\ LinesRead(log) \subseteq 1..MaxMsg
  /\ stores \in [{"code", "know"} -> {"absent", "corrupt", "ok"}]

\* Answers come in the order of the lines, each request is answered under its own
\* id and once, a bad line costs one error and never the session, and a
\* notification is neither answered nor executed.
AnswersInOrder ==
  \A s \in Server : IsPrefix([i \in DOMAIN server[s].out |-> server[s].out[i].id], server[s].expect)

\* A decision whose record_decision said so is recalled ever after, whatever other
\* servers append and wherever their appends are cut, unless a writer had looked at
\* the file's tail before it was cut and wrote after: that one write does not heal
\* the line, and loses itself and what the tail held.
AckedDecisionRecalled == acked.mem \ acked.blind \subseteq LoadEntries(mem)

\* A metrics event that was written without an error is read back unless its line
\* ran into another append's, or followed one that was cut.
LoggedEventRead == acked.log \ acked.merged \subseteq LinesRead(log)

\* The digest names the decisions this session was told are recorded, each once,
\* and its counts add up.
DigestTellsDecisions ==
  \A s \in Server :
    LET d == SessionDigest(server[s].ledger)
        told == {server[s].out[i].body : i \in {j \in DOMAIN server[s].out :
                   server[s].out[j].code = "ok" /\ server[s].out[j].body \in Decision}}
    IN /\ d.count = Cardinality(told) /\ ToSet(d.shown) \subseteq told
       /\ Len(d.shown) + d.more = d.count

\* A search that asked a pool whose store is there but does not load never looks
\* like one that found nothing: the answer carries a notice or the guidance.
CorruptNeverSilent ==
  \A s \in Server : \A i \in DOMAIN server[s].out :
    LET b == server[s].out[i].body
    IN /\ b # Nil /\ server[s].out[i].code = "ok"
       /\ b \notin Decision /\ "asked" \in DOMAIN b
       => LET asks(pool) == (IF b.asked = "default" THEN DefaultSource ELSE b.asked) \in {pool, "both"}
          IN /\ stores.know = "corrupt" /\ asks("knowledge") => "know" \in b.notices
             /\ stores.code = "corrupt" /\ asks("code") => b.notices \cap {"code", "guidance"} # {}

\* A client reads the answers to its own requests in their order, whatever else it sent, and none made
\* of a part of the stores that does not say so.
AnswersHonest == AnswersInOrder /\ CorruptNeverSilent

\* What a server acknowledged is there for the next one, but for the appends that met a torn line in
\* the ways the parts name; the digest tells the decisions once.
AppendsSurvive == SessionTypeOK /\ AckedDecisionRecalled /\ LoggedEventRead /\ DigestTellsDecisions
=============================================================================
