------------------------------ MODULE MCEngine ------------------------------
(***************************************************************************)
(* One instance of the parts of cce that do not need each other's state.   *)
(* A behaviour picks a part: the MCP session, two commands on one root,    *)
(* the self-update, writers of one file, or an input for one of the pure   *)
(* operators.  The other parts stay as they start.                         *)
(***************************************************************************)
EXTENDS Session, SharedRoot, SelfUpdate, McpAnswers, KnowledgeSearch, Artifacts, Indexing,
        Reports, Workspaces, Settings, Health, CommandLine, AtomicWrite

VARIABLE part

vars == <<sessionVars, rootVars, updateVars, fileVars, input, part>>

\* Both threads write from one process.
OneProcess == [t \in Thread |-> CHOOSE p \in Proc : TRUE]

TwoMembers == <<"api", "web">>

\* The inputs of each part that is an operator.
InputsOf(p) ==
  CASE p = "delta" -> DeltaInputs
    [] p = "rank" -> Bm25Inputs \cup RankInputs
    [] p = "federation" -> FedInputs \cup ScopeInputs
    [] p = "answers" -> BudgetInputs \cup BlendInputs \cup ExpandInputs \cup RecallInputs \cup NormalizeInputs
    [] p = "artifacts" -> ArtInputs \cup KArtInputs \cup OriginInputs \cup AddressInputs
    [] p = "knowledge" -> FeedInputs \cup MarkdownInputs \cup KnowInputs \cup AskInputs
    [] p = "indexing" -> RedactInputs \cup BuildInputs \cup CompressInputs
    [] p = "metrics" -> DateInputs \cup InstantInputs \cup LedgerInputs
    [] p = "report" -> ReportInputs
    [] p = "verdict" -> VerdictInputs \cup WorkspaceReportInputs
    [] p = "tree" -> TreeInputs
    [] p = "config" -> ConfigInputs
    [] p = "init" -> InitInputs
    [] p = "health" -> DriftInputs \cup CacheInputs \cup VerifyInputs
    [] p = "command" -> FlagInputs \cup BackendInputs
    [] OTHER -> RootInputs
Pure == {"delta", "rank", "federation", "answers", "artifacts", "knowledge", "indexing", "metrics", "report",
         "verdict", "tree", "config", "init", "health", "command", "root"}

Init == /\ SessionInit /\ RootInit /\ UpdateInit /\ FileInit /\ input = NoInput
        /\ part \in Pure \cup {"session", "appends", "writers", "update", "file"}
        /\ part = "session" \/ stores = [code |-> "ok", know |-> "absent"]
        /\ exe = Binary(1, "intact")
        /\ part = "file" \/ dest = Missing

\* One server at a time that is sent anything, over stores in any state; or two servers at once
\* that are sent what writes the files they share.
Appends(call) == call.tool \in {"record_decision", "record_feedback"} \/ (call.tool = "context_search" /\ call.arg = "code")
SessionPart ==
  /\ part \in {"session", "appends"} /\ SessionNext
  /\ IF part = "session" THEN \E s \in Server : \A t \in Server \ {s} : server'[t] = Fresh
     ELSE /\ \A s \in Server : server'[s].call # Nil => Appends(server'[s].call)
          /\ budget'.msg > budget.msg => \E s \in Server : server'[s].call # server[s].call
  /\ UNCHANGED <<rootVars, updateVars, fileVars, input, part>>
WritersPart == part = "writers" /\ RootNext /\ UNCHANGED <<sessionVars, updateVars, fileVars, input, part>>
UpdatePart == part = "update" /\ UpdateNext /\ UNCHANGED <<sessionVars, rootVars, fileVars, input, part>>
FilePart == part = "file" /\ FileNext /\ UNCHANGED <<sessionVars, rootVars, updateVars, input, part>>
\* The invariants judge the operators on the chosen input.
ChooseInput ==
  /\ part \in Pure /\ input = NoInput /\ input' \in InputsOf(part)
  /\ UNCHANGED <<sessionVars, rootVars, updateVars, fileVars, part>>

Next == SessionPart \/ WritersPart \/ UpdatePart \/ FilePart \/ ChooseInput
Spec == Init /\ [][Next]_vars

Symmetric == {p @@ q : p \in Permutations(Server), q \in Permutations(Decision)}
=============================================================================
