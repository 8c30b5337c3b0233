---------------------------- MODULE MCFunctions ----------------------------
(* Small instances of what is computed from revisions and of who may read   *)
(* them: Listing, CallAnalysis, FleetRollups, Verdicts, Rubrics, Reports.    *)
(* They share no state: a behaviour is about one of them.                    *)
EXTENDS Listing, CallAnalysis, FleetRollups, Verdicts, Rubrics, Reports

CONSTANT Sides     \* what the behaviours of a run are about

VARIABLE side

(* Listing: how often a call may be promoted. *)
Revised == <<1, 1, 2>>

-----------------------------------------------------------------------------
(* CallAnalysis: what may be said, run, referred to and end a call. *)
Val(text) == [text |-> text, day |-> None, time |-> None]
At(day, time) == [text |-> "", day |-> day, time |-> time]
Has(kind, value) == [kind |-> kind, value |-> value]
Utterance(index, by, start, until, words, spans) ==
    [index |-> index, by |-> by, start |-> start, until |-> until, words |-> words, spans |-> spans,
     interrupted |-> FALSE, cut |-> FALSE]
MCUtterances ==
    {Utterance(0, "user", 86385, None, "plea", {Has("price_claim", Val("p1")), Has("fabricated_id", Val("o1")),
                                                 Has("farewell", Val("bye"))}),
     Utterance(1, "agent", 86390, 86460, "long", {Has("price_claim", Val("p1")),
                                                  Has("promise", "book")}),
     Utterance(2, "agent", None, None, "short", {Has("commitment", Val("book")), Has("count_claim", Val("2")),
                                                  Has("private_knowledge", Val("d1")),
                                                  Has("date_time_claim", At(None, "3pm")),
                                                  Has("phantom_tool_failure", Val("f"))}),
     Utterance(3, "user", 86400, None, "plea", {Has("private_knowledge", Val("d2")),
                                                 Has("human", Val("h"))})}
Leaf(in, form, path, value) == [in |-> in, form |-> form, path |-> path, value |-> value]
ToolRun(status, args, turn, start, leaves) ==
    [name |-> "book", args |-> args, status |-> status, marker |-> FALSE, turn |-> turn, start |-> start,
     result |-> \E leaf \in leaves : leaf.in = "result", mutating |-> TRUE, leaves |-> leaves]
Sent == Leaf("args", "whole", {"count"}, Val("d1"))
MCToolRuns ==
    {ToolRun("error", "a", None, 86388, {}),
     ToolRun("pending", "placeholder", 2, None, {Sent}),
     ToolRun("success", "placeholder", 2, None,
             {Sent, Leaf("result", "currency", {"money"}, Val("p1")),
              Leaf("result", "iso", {}, At(1, "3pm")), Leaf("result", "whole", {"count"}, Val("2"))})}
MCReferences ==
    {[kind |-> "knowledge", json |-> FALSE, leaves |-> {}, spans |-> {Has("price_claim", Val("p1"))}]}
Code(name, explicit, fits) == [name |-> name, explicit |-> explicit, fits |-> fits]
MCCodes == {Code("deepgram-voice-failed", None, {1, 2}),
            Code("assistant-forwarded-call", "transfer", {}), Code("", None, {})}
MCNearMisses == {<<Val("d2"), Val("d1")>>}

-----------------------------------------------------------------------------
(* FleetRollups: revisions and rows. *)
Sample(metric, ms) == [stage |-> "llm", metric |-> metric, ms |-> ms]
Ran(status, ms) == [status |-> status, marker |-> status = "success" /\ ms = 2, ms |-> ms]
Served(id, samples, text, tools) ==
    [id |-> id, samples |-> samples, text |-> text, tools |-> tools,
     reason |-> "user_hangup", party |-> "user", spoken |-> id = "r1"]
MCRevisions == {Served("r1", <<Sample("duration", 3), Sample("ttft", 1)>>, {"a", "b"},
                       <<Ran("success", 1), Ran("success", 2)>>),
              Served("r2", <<Sample("duration", 8)>>, {"b"}, <<Ran("error", 3)>>),
              Served("r3", <<>>, {}, <<>>)}
Row(analyzer, state, version, passed, verdict, claims) ==
    [analyzer |-> analyzer, state |-> state, version |-> version, passed |-> passed,
     verdict |-> verdict, rubric |-> "", shadow |-> FALSE, claims |-> claims, candidates |-> {},
     critical |-> analyzer = "quality_card", baseline |-> version = 1]
Found(verdict, severity) == [verdict |-> verdict, severity |-> severity, detector |-> TRUE]
MCRows == {Row("rubric:x", "completed", 1, "no", "fail", {}),
         Row("rubric:x", "failed", 2, "none", "", {}),
         Row("hallucination", "completed", 1, "no", "",
             {Found("contradicted", "critical"), Found("contradicted", "low")}),
         Row("hallucination", "completed", 2, "yes", "", {Found("evidence_missing", "needs_review")}),
         Row("quality_card", "completed", 1, "none", "", {})}
MCAlike == {<<{{"a", "b"}}, {"b"}>>}

-----------------------------------------------------------------------------
(* Verdicts: two endpoints for the slots and a judge of the settings. *)
Detected(kind, verdict, severity, model) ==
    [kind |-> kind, verdict |-> verdict, severity |-> severity, model |-> model]
Case(spoken, grounding, tools, transfer, double, claims, found) ==
    [spoken |-> spoken, heard |-> spoken, ended |-> tools, grounding |-> grounding,
     tools |-> tools, transfer |-> transfer, double |-> double, claims |-> claims, found |-> found]
Cases ==
    {Case(FALSE, "none", FALSE, FALSE, FALSE, {}, {}),
     Case(TRUE, "none", FALSE, TRUE, FALSE,
          {Detected("price_claim", "evidence_missing", "needs_review", "detector")}, {"hello"}),
     Case(TRUE, "instructions", TRUE, FALSE, FALSE,
          {Detected("phantom_tool_success", "contradicted", "high", "detector"),
           Detected("price_claim", "contradicted", "low", "detector")}, {"hello", "tool"}),
     Case(TRUE, "other", TRUE, FALSE, TRUE,
          {Detected("price_claim", "contradicted", "critical", "m1")}, {"tool"})}
Check(in, what) == [in |-> in, what |-> what]
CheckedSpecs ==
    {[combinator |-> k, clauses |-> {{Check("opening", "hello")},
                                     {Check("tool", "tool"), Check("hangup", "bye")}}] :
        k \in {"all", "any", "none"}}
    \cup {[combinator |-> "none", clauses |-> {{Check("user", "no")}}]}

-----------------------------------------------------------------------------
(* Reports. *)
MCMappers == <<"elevenlabs", "livekit", "openai", "gemini", "pipecat", "foreign">>

Says(role, at, until, text) ==
    [role |-> role, at |-> at, until |-> until, text |-> text, tool |-> None, args |-> None,
     failed |-> FALSE]
Calling(tool, at) ==
    [role |-> "call", at |-> at, until |-> None, text |-> None, tool |-> tool,
     args |-> [day |-> "d", size |-> "2"], failed |-> FALSE]
Answer(tool, at, text) ==
    [role |-> "result", at |-> at, until |-> None, text |-> text, tool |-> tool, args |-> None,
     failed |-> FALSE]
Delta(event, items) ==
    [event |-> event, named |-> TRUE, agent |-> "unknown", started |-> None, ended |-> None,
     cost |-> None, reason |-> None, prompt |-> None, recording |-> None, transcript |-> None,
     items |-> items, stages |-> <<>>, averages |-> <<>>, marks |-> <<>>]
Whole(event, items) ==
    [Delta(event, items) EXCEPT !.agent = "a1", !.started = 1, !.ended = 9, !.cost = 3,
        !.reason = "hangup", !.prompt = "p", !.recording = "rec", !.transcript = "tx",
        !.stages = <<[stage |-> "llm", metric |-> "ttft", ms |-> 7, turn |-> 1]>>,
        !.averages = <<[stage |-> "e2e", metric |-> "duration", ms |-> 8]>>,
        !.marks = <<[kind |-> "assistant", count |-> 1]>>]
Hello == Says("user", 2, 3, "hi")
Reply == Says("agent", 5, 6, "bye")
Exchange == <<Hello, Calling("t1", 3), Answer("t1", 4, "ok"), Reply>>

SpanNamed(id, name) ==
    [id |-> id, name |-> name, marks |-> {}, call |-> TRUE, agent |-> "a1", reason |-> None,
     turn |-> None, from |-> 2, to |-> 4, speaker |-> "user", text |-> None, result |-> None,
     prompt |-> None, ttfb |-> None, signal |-> None]
RootSpan == [SpanNamed("s0", "call") EXCEPT !.reason = "hangup", !.from = 1, !.to = 9]
LiveKitLlm == [SpanNamed("s1", "llm") EXCEPT !.marks = {"lk"}, !.prompt = "p"]
LiveKitTool == [SpanNamed("s2", "tool") EXCEPT !.marks = {"lk"}, !.result = "ok"]
PipecatTurn == [SpanNamed("s1", "turn") EXCEPT !.turn = 0, !.text = "hi"]
PipecatTts == [SpanNamed("s2", "tts") EXCEPT !.ttfb = 5, !.turn = 1]
PipecatTool == [SpanNamed("s3", "tool") EXCEPT !.turn = 1, !.to = None]
SpeechIn == [SpanNamed("s1", "user_input") EXCEPT !.marks = {"openai"}, !.text = "hi"]
SpeechOut == [SpanNamed("s2", "generation") EXCEPT !.marks = {"openai"}, !.text = "yes",
                 !.speaker = "agent", !.from = 4, !.to = 7, !.signal = "barge_in"]
ForeignLlm == [SpanNamed("s1", "chat") EXCEPT !.marks = {"openinference"}, !.text = "hi"]
ForeignTool == [SpanNamed("s4", "tool") EXCEPT !.marks = {"llm"}]
ElevenLabsStt == [SpanNamed("s2", "stt") EXCEPT !.marks = {"elevenlabs"}]
Traced(spans, root) == [spans |-> spans, root |-> root]

(* A tool whose arguments are told in two parts, the second with its result, *)
(* and one that takes none. *)
Asked(args) == [Calling("t1", 3) EXCEPT !.args = args]
FirstPart == Asked([day |-> "d"])
SecondPart == Asked([size |-> "2"])
NoArguments == Asked(<<>>)

(* Sources that repeat, complete and correct themselves: what a delta tells  *)
(* of the transcript, the ending or the cost is not what the end tells. *)
MCTold ==
    [vapi |-> {[Delta("status-update", <<>>) EXCEPT !.reason = "busy", !.transcript = "t"],
               Delta("conversation-update", <<Hello, FirstPart>>),
               Delta("conversation-update", <<Hello, SecondPart, Answer("t1", 4, "ok"), Reply>>),
               Delta("conversation-update", <<NoArguments>>),
               Whole("end-of-call-report", Exchange),
               [Whole("end-of-call-report", <<Reply>>) EXCEPT !.stages = <<>>],
               Delta("tool-calls", <<>>), [Delta("status-update", <<>>) EXCEPT !.named = FALSE]},
     retell |-> {[Delta("call_started", <<>>) EXCEPT !.started = 1],
                 [Delta("transcript_updated", <<Hello>>) EXCEPT !.transcript = "t"],
                 [Delta("transfer_ended", <<Hello>>) EXCEPT !.reason = "hangup"],
                 [Delta("transfer_started", <<>>) EXCEPT !.cost = 2],
                 Whole("call_ended", Exchange),
                 [Whole("call_analyzed", Exchange) EXCEPT !.averages = <<>>]},
     elevenlabs |-> {[Whole("post_call_transcription", <<Hello, Reply>>) EXCEPT !.ended = None],
                     Delta("post_call_audio", <<>>)},
     cartesia |-> {Whole("call", <<Hello, Reply>>),
                   [Whole("call", <<Hello>>) EXCEPT !.stages = <<>>]},
     example |-> {Delta("assistant-request", <<>>), Delta("snapshot", <<Hello>>),
                  Whole("final", <<Hello, Reply>>)},
     livekit |-> {Traced(<<RootSpan>>, TRUE), Traced(<<LiveKitLlm>>, FALSE),
                  Traced(<<LiveKitTool, LiveKitLlm>>, FALSE)},
     pipecat |-> {Traced(<<RootSpan>>, TRUE), Traced(<<PipecatTurn>>, FALSE),
                  Traced(<<PipecatTts, PipecatTool>>, FALSE)},
     openai |-> {Traced(<<RootSpan>>, TRUE), Traced(<<SpeechIn>>, FALSE), Traced(<<SpeechOut>>, FALSE)},
     foreign |-> {Traced(<<RootSpan, ForeignLlm>>, TRUE), Traced(<<ForeignTool>>, FALSE),
                  Traced(<<ElevenLabsStt>>, FALSE)}]

(* A call with two tools, as Vapi reports it and as LiveKit traces it. *)
TwoTools ==
    [vapi |-> {Whole("end-of-call-report",
                     <<Calling("t1", 2), Answer("t1", 3, "ok"), Calling("t2", 4), Answer("t2", 5, "no")>>)},
     livekit |-> {Traced(<<RootSpan>>, TRUE),
                  Traced(<<LiveKitTool, [LiveKitTool EXCEPT !.id = "s3", !.result = "no"]>>, FALSE)}]

-----------------------------------------------------------------------------
MCInit ==
    /\ side \in Sides
    /\ Init /\ CallInit /\ FleetInit /\ VerdictsInit /\ RubricsInit
    /\ ReportsInit
    /\ side # "verdicts" => case = CHOOSE e \in Cases : TRUE
    /\ side # "reports" => source = CHOOSE s \in Sources : TRUE

(* Bound of the model: what the caller says is not interrupted. *)
MCNext ==
    \/ /\ side = "listing" /\ Next
       /\ UNCHANGED <<side, call, fleet, verdictVars, rubricVars, reportVars>>
    \/ /\ side = "analysis" /\ CallNext
       /\ \A i \in UserTurns(call') : ~call'.turns[i].interrupted
       /\ UNCHANGED <<side, vars, fleet, verdictVars, rubricVars, reportVars>>
    \/ /\ side = "fleet" /\ FleetNext
       /\ UNCHANGED <<side, vars, call, verdictVars, rubricVars, reportVars>>
    \/ /\ side = "verdicts" /\ VerdictsNext
       /\ UNCHANGED <<side, vars, call, fleet, rubricVars, reportVars>>
    \/ /\ side = "rubrics" /\ RubricsNext
       /\ UNCHANGED <<side, vars, call, fleet, verdictVars, reportVars>>
    \/ /\ side = "reports" /\ ReportsNext
       /\ UNCHANGED <<side, vars, call, fleet, verdictVars, rubricVars>>

MCSpec ==
    MCInit /\ [][MCNext]_<<side, vars, call, fleet, verdictVars, rubricVars, reportVars>>
=============================================================================
