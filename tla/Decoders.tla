------------------------------ MODULE Decoders ------------------------------
(***************************************************************************)
(* What the decoders of the hosted providers make of a webhook             *)
(* (obsalt_vapi, obsalt_retell, obsalt_elevenlabs, obsalt_cartesia,        *)
(* obsalt_example: decode), down to which facts share an identity, carry   *)
(* which clocks, and are retracted by which report.                        *)
(*                                                                         *)
(* A report is [event, named, agent, started, ended, cost, reason, prompt, *)
(* recording, transcript, items, stages, averages, marks]; "named" says that*)
(* it carries the id of its call.  An item is [role, at, until, text, tool,*)
(* args, failed]: what is said, a call of a tool or its result.  Arguments *)
(* are an object, a function from its keys.                                *)
(***************************************************************************)
EXTENDS FactFold

Speakers == {"user", "agent"}

(* turn_index counts what was said so far. *)
TurnsBefore(items, i) == Cardinality({j \in 1 .. i - 1 : items[j].role \in Speakers})

(* pending: a result is named after the call of it seen so far. *)
NameOf(items, i) ==
    IF \E j \in 1 .. i - 1 : items[j].role = "call" /\ items[j].tool = items[i].tool
    THEN items[i].tool ELSE "unknown"

PerItem(items, Decoded(_)) == FlattenSeq([i \in DOMAIN items |-> Decoded(i)])

(* What the caller said, as one piece of grounding. *)
UserGrounding(items, path) ==
    LET said == SelectSeq(items, LAMBDA it : it.role = "user" /\ it.text # "")
    IN IF said = <<>> THEN <<>>
       ELSE <<GroundingEvent("user_text", [i \in DOMAIN said |-> said[i].text], path)>>

When(condition, event) == IF condition THEN <<event>> ELSE <<>>
Optional(value, event) == When(value # Absent, event)

Prompt(m, path) == Optional(m.prompt, GroundingEvent("prompt", <<m.prompt>>, path))
Recording(m) == Optional(m.recording, EvidenceEvent("recording", m.recording, Absent))
Transcript(m) == Optional(m.transcript, EvidenceEvent("transcript", "inline", m.transcript))
Outcome(m, ended, cost) == Optional(m.reason, OutcomeEvent(m.reason, ended, cost))
Finalized(over) == When(over, FinalizedEvent)

(* A measurement of a turn has no place on the clock. *)
Unplaced(m) ==
    [i \in DOMAIN m.stages |->
        LET s == m.stages[i]
        IN StageEvent(s.stage, s.metric, s.ms, s.turn, "unplaced", Absent, Absent, <<s.stage, i>>)]
Averages(m, statistic) ==
    [i \in DOMAIN m.averages |->
        LET a == m.averages[i] IN AggregateEvent(a.stage, a.metric, statistic, a.ms, a.stage)]

-----------------------------------------------------------------------------
(* Vapi.                                                                   *)

VapiDomains == {"turn", "stage", "tool", "outcome", "aggregate", "grounding", "evidence",
                "interruption"}
Synchronous == {"assistant-request", "assistant.started", "tool-calls", "function-call",
                "transfer-destination-request", "knowledge-base-request", "knowledge-base"}

(* _turns_and_tools: a call brings the start of a tool, its result the end.*)
VapiItem(items, i) ==
    LET it == items[i] IN
    CASE it.role = "call" ->
            <<ToolEvent(it.tool, it.tool, TurnsBefore(items, i), it.at, Absent, "pending", it.args, Absent)>>
      [] it.role = "result" ->
            <<ToolEvent(it.tool, NameOf(items, i), Absent, Absent, it.at,
                        IF it.failed THEN "error" ELSE "success", Absent, it.text)>>
            \o Optional(it.text, GroundingEvent("tool_result", <<it.text>>, "tool_call_result"))
      [] it.role \in Speakers ->
            <<TurnEvent(TurnsBefore(items, i), it.role, it.text, it.at, it.until)>>
      [] OTHER -> <<>>

VapiEvents(m) ==
    LET whole == m.event = "end-of-call-report" IN
    IF m.event \in Synchronous THEN <<>>
    ELSE <<CallEvent(m.agent, m.started, m.ended, "cascade", m.cost, Absent)>>
         \o When(whole, SnapshotEvent(VapiDomains))
         \o Prompt(m, "model.messages") \o Recording(m) \o Transcript(m)
         \o PerItem(m.items, LAMBDA i : VapiItem(m.items, i))
         \o (IF whole THEN UserGrounding(m.items, "messages") ELSE <<>>)
         \o Unplaced(m) \o Averages(m, "mean")
         \o [i \in DOMAIN m.marks |-> InterruptionEvent(m.marks[i].kind, Absent, m.marks[i].count)]
         \o Outcome(m, m.ended, m.cost)
         \o Finalized(whole \/ m.reason # Absent)

-----------------------------------------------------------------------------
(* Retell.                                                                 *)

RetellDomains == {"turn", "stage", "aggregate", "tool", "grounding"}

(* last_anchor: the end, or else the start, of what was last said. *)
Anchor(items, i) ==
    LET said == {j \in 1 .. i - 1 : items[j].role \in Speakers
                                     /\ Else(items[j].until, items[j].at) # Absent}
    IN IF said = {} THEN Absent ELSE Else(items[Max(said)].until, items[Max(said)].at)

(* A call and its result both start at the anchor they find. *)
RetellItem(items, i) ==
    LET it == items[i] IN
    CASE it.role = "call" ->
            <<ToolEvent(it.tool, it.tool, TurnsBefore(items, i), Anchor(items, i), Absent,
                        "pending", it.args, Absent)>>
      [] it.role = "result" ->
            <<ToolEvent(it.tool, NameOf(items, i), Absent, Anchor(items, i), Absent,
                        IF it.failed THEN "error" ELSE "success", Absent, it.text)>>
            \o Optional(it.text, GroundingEvent("tool_result", <<it.text>>, "tool_call_result"))
      [] OTHER -> <<TurnEvent(TurnsBefore(items, i), it.role, it.text, it.at, it.until)>>

RetellEvents(m) ==
    LET whole == m.event \in {"call_ended", "call_analyzed"} IN
    <<CallEvent(m.agent, m.started, m.ended, "cascade", m.cost, Absent)>>
    \o When(whole, SnapshotEvent(RetellDomains))
    \o Recording(m) \o Transcript(m) \o Prompt(m, "dynamic_variables")
    \o PerItem(m.items, LAMBDA i : RetellItem(m.items, i))
    \o (IF whole THEN UserGrounding(m.items, "transcript") ELSE <<>>)
    \o Unplaced(m) \o Averages(m, "p50")
    \o Outcome(m, m.ended, Absent) \o Finalized(whole)

-----------------------------------------------------------------------------
(* ElevenLabs, Cartesia and the example: every report is a snapshot.       *)

ElevenLabsDomains == {"turn", "outcome", "grounding"}
ElevenLabsEvents(m) ==
    <<CallEvent(m.agent, m.started, Absent, "cascade", m.cost, Absent),
      SnapshotEvent(ElevenLabsDomains)>>
    \o PerItem(m.items, LAMBDA i :
            <<TurnEvent(i - 1, m.items[i].role, m.items[i].text, m.items[i].at, Absent)>>)
    \o UserGrounding(m.items, "transcript")
    \o Outcome(m, Absent, Absent) \o Finalized(m.reason # Absent)

CartesiaDomains == {"turn", "stage", "grounding"}
CartesiaEvents(m) ==
    <<CallEvent(m.agent, m.started, m.ended, "cascade", Absent, Absent),
      SnapshotEvent(CartesiaDomains)>>
    \o PerItem(m.items, LAMBDA i :
            <<TurnEvent(i - 1, m.items[i].role, m.items[i].text, m.items[i].at, m.items[i].until)>>)
    \o Unplaced(m) \o UserGrounding(m.items, "turns") \o Finalized(TRUE)

ExampleDomains == {"turn", "stage", "outcome", "grounding"}
ExampleEvents(m) ==
    <<CallEvent(m.agent, Absent, Absent, "cascade", Absent, Absent)>>
    \o When(m.event # "assistant-request", SnapshotEvent(ExampleDomains))
    \o Prompt(m, "system_prompt")
    \o PerItem(m.items, LAMBDA i :
            <<TurnEvent(i - 1, m.items[i].role, m.items[i].text, m.items[i].at, m.items[i].until)>>)
    \o Unplaced(m) \o UserGrounding(m.items, "turns")
    \o Outcome(m, Absent, Absent) \o Finalized(m.event = "final")

-----------------------------------------------------------------------------
Hosted == {"vapi", "retell", "elevenlabs", "cartesia", "example"}

(* A report that does not name its call tells nothing of it. *)
HostedEvents(provider, m) ==
    IF ~m.named THEN <<>>
    ELSE CASE provider = "vapi" -> VapiEvents(m)
           [] provider = "retell" -> RetellEvents(m)
           [] provider = "elevenlabs" -> ElevenLabsEvents(m)
           [] provider = "cartesia" -> CartesiaEvents(m)
           [] provider = "example" -> ExampleEvents(m)

=============================================================================
