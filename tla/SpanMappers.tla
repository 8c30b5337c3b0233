----------------------------- MODULE SpanMappers -----------------------------
(***************************************************************************)
(* What the OTLP mappers make of the spans of a trace: which mapper claims   *)
(* a span (otel/mappers.py and the claims of the plugins), and the facts of  *)
(* LiveKit, Pipecat, speech-to-speech, ElevenLabs and foreign spans.         *)
(*                                                                         *)
(* A span is [id, name, marks, call, agent, reason, turn, from, to, speaker, *)
(* text, result, prompt, ttfb, signal]; "marks" are the attribute families   *)
(* and the provider it carries, "call" whether it names the conversation,    *)
(* "from" and "to" its clocks, Absent where they are missing.                  *)
(***************************************************************************)
EXTENDS FactFold

CONSTANT Mappers        \* the loaded mappers, in the order of the registry

CascadeNames == {"turn", "stt", "llm", "tts", "tool"}
SpeechNames == {"user_input", "generation", "playout"}

(* Each mapper's claims. *)
LiveKitClaims(s) == IF "lk" \in s.marks THEN 70 ELSE IF s.name = "call" THEN 40 ELSE 0
PipecatClaims(s) ==
    IF s.ttfb # Absent \/ s.turn # Absent THEN 70
    ELSE IF s.name \in CascadeNames THEN 30
    ELSE IF s.name = "call" THEN 40
    ELSE IF s.marks \cap {"openai", "gemini"} # {} THEN 25 ELSE 0
SpeechClaims(s, provider) ==
    IF provider \in s.marks THEN 90
    ELSE IF s.name \in SpeechNames THEN 80 ELSE IF s.name = "call" THEN 40 ELSE 0
ForeignClaims(s) == IF "openinference" \in s.marks THEN 20 ELSE IF "llm" \in s.marks THEN 15 ELSE 0

ClaimOf(mapper, s) ==
    CASE mapper = "livekit" -> LiveKitClaims(s)
      [] mapper = "pipecat" -> PipecatClaims(s)
      [] mapper \in {"openai", "gemini"} -> SpeechClaims(s, mapper)
      [] mapper = "elevenlabs" -> IF "elevenlabs" \in s.marks THEN 90 ELSE 0
      [] OTHER -> ForeignClaims(s)

(* pick: the highest claim, the first of equals. *)
Pick(s) ==
    LET claim(i) == ClaimOf(Mappers[i], s)
        best == {i \in DOMAIN Mappers : claim(i) > 0 /\ \A j \in DOMAIN Mappers : claim(j) <= claim(i)}
    IN IF best = {} THEN Absent ELSE Mappers[Min(best)]

-----------------------------------------------------------------------------
(* What the decoders share.                                                 *)

(* valid_span_interval *)
IntervalOk(s) == s.from # Absent /\ s.to # Absent /\ s.to > s.from

(* stage_from_span_semantics *)
SemanticStage(s) ==
    CASE s.name \in {"stt", "tts", "llm", "tool"} \cup SpeechNames -> s.name
      [] s.name = "vad" -> "endpointing"
      [] s.name = "call" -> "e2e"
      [] OTHER -> Absent

(* The agent is the first one named, the outcome the last one told. *)
AgentOf(spans) ==
    LET named == SelectSeq(spans, LAMBDA s : s.agent # Absent)
    IN IF named = <<>> THEN Absent ELSE Head(named).agent
OutcomeOf(spans) ==
    LET told == SelectSeq(spans, LAMBDA s : s.reason # Absent)
    IN IF told = <<>> THEN <<>> ELSE <<OutcomeEvent(Last(told).reason, Absent, Absent)>>
CallOf(spans, agent, architecture) ==
    IF \E i \in DOMAIN spans : spans[i].call
    THEN <<CallEvent(agent, Absent, Absent, architecture, Absent, Absent)>> ELSE <<>>

PerSpan(spans, Mapped(_)) == FlattenSeq([i \in DOMAIN spans |-> Mapped(spans[i])])
If(condition, events) == IF condition THEN events ELSE <<>>

StageOf(s, stage, turn) ==
    StageEvent(stage, "duration", s.to - s.from, turn, "interval", s.from, s.to, s.name)
ResultGrounding(s) ==
    If(s.result # Absent, <<GroundingEvent("tool_result", <<s.result>>, "output.value")>>)
UserGroundingOf(speaker, s) ==
    If(speaker = "user" /\ s.text # Absent, <<GroundingEvent("user_text", <<s.text>>, "user_transcript")>>)

-----------------------------------------------------------------------------
LiveKitSpan(s) ==
    LET stage == SemanticStage(s) IN
    If(IntervalOk(s),
       If(stage # Absent, <<StageOf(s, stage, Absent)>>)
       \o If(stage = "tool" \/ s.result # Absent,
             <<ToolEvent(s.id, s.name, Absent, s.from, s.to, "success", Absent, s.result)>>
             \o ResultGrounding(s))
       \o If(s.prompt # Absent, <<GroundingEvent("prompt", <<s.prompt>>, "system_instructions")>>))

LiveKitEvents(spans) ==
    CallOf(spans, AgentOf(spans), "cascade") \o OutcomeOf(spans) \o PerSpan(spans, LiveKitSpan)

(* A time to the first byte is anchored at the start of its span. *)
PipecatSpan(s) ==
    LET ended == IF IntervalOk(s) THEN s.to ELSE Absent
        stage == IF s.name \in {"stt", "llm", "tts"} THEN s.name
                 ELSE IF s.ttfb # Absent THEN "tts" ELSE Absent
    IN CASE s.name = "turn" ->
               <<TurnEvent(Else(s.turn, 0), s.speaker, Else(s.text, ""), s.from, ended)>>
               \o UserGroundingOf(s.speaker, s)
         [] s.name = "tool" ->
               <<ToolEvent(s.id, s.name, s.turn, s.from, ended, "pending", Absent, s.result)>>
               \o ResultGrounding(s) \o If(IntervalOk(s), <<StageOf(s, "tool", s.turn)>>)
         [] s.name \notin {"turn", "tool"} /\ stage # Absent ->
               If(s.ttfb # Absent,
                  <<StageEvent(stage, "ttfb", s.ttfb, s.turn, "anchored", s.from, Absent, "ttfb")>>)
               \o If(IntervalOk(s), <<StageOf(s, stage, s.turn)>>)
         [] OTHER -> <<>>

PipecatEvents(spans) ==
    CallOf(spans, AgentOf(spans), "cascade") \o OutcomeOf(spans) \o PerSpan(spans, PipecatSpan)

(* is_real_barge_in: a response cancelled for another reason is none. *)
BargeIn(s) == s.signal \in {"barge_in", "interrupted", "cancelled_by_speech"}

Speaks(s) ==
    /\ s.name \notin CascadeNames \ {"turn", "tool"}
    /\ s.text # Absent /\ (s.speaker = "agent" \/ s.name # "generation")

SpeechSpan(s, next) ==
    LET marks == If(BargeIn(s), <<InterruptionEvent("barge_in", s.turn, 1)>>)
        said == If(Speaks(s), <<TurnEvent(Else(s.turn, next), s.speaker, s.text, s.from,
                                          IF IntervalOk(s) THEN s.to ELSE Absent)>>
                              \o UserGroundingOf(s.speaker, s))
        stage == If(s.name \in SpeechNames /\ IntervalOk(s), <<StageOf(s, s.name, s.turn)>>)
    IN If(s.name \notin CascadeNames \ {"turn", "tool"}, marks \o said \o stage)

(* A turn without an index takes the next free one. *)
SpeechEvents(spans) ==
    LET next[i \in 0 .. Len(spans)] ==
            IF i = 0 THEN 0
            ELSE IF ~Speaks(spans[i]) THEN next[i - 1]
            ELSE Max({next[i - 1], Else(spans[i].turn, next[i - 1]) + 1})
    IN CallOf(spans, AgentOf(spans), "speech_to_speech") \o OutcomeOf(spans)
       \o FlattenSeq([i \in DOMAIN spans |-> SpeechSpan(spans[i], next[i - 1])])

(* Foreign spans name no agent and tell no outcome; what is said is counted. *)
SaidAbroad(s) == IntervalOk(s) /\ s.text # Absent /\ "openinference" \in s.marks /\ s.name # "tool"

ForeignSpan(s, next) ==
    LET stage == IF s.name \in {"tool", "stt", "tts"} THEN s.name ELSE "llm"
        tool == If(stage = "tool",
                   <<ToolEvent(s.id, s.name, Absent, s.from, s.to, "success", Absent, Absent)>>)
        said == If(SaidAbroad(s), <<TurnEvent(next, "user", s.text, s.from, s.to)>>)
    IN If(IntervalOk(s), tool \o said \o <<StageOf(s, stage, Absent)>>)

ForeignEvents(spans) ==
    CallOf(spans, Absent, "cascade")
    \o FlattenSeq([i \in DOMAIN spans |->
            ForeignSpan(spans[i], Cardinality({j \in 1 .. i - 1 : SaidAbroad(spans[j])}))])

(* decode_spans: ElevenLabs' spans bring stages alone. *)
ElevenLabsSpans(spans) ==
    PerSpan(spans, LAMBDA s : If(IntervalOk(s) /\ SemanticStage(s) # Absent,
                                 <<StageOf(s, SemanticStage(s), Absent)>>))

MapperEvents(mapper, spans) ==
    CASE mapper = "livekit" -> LiveKitEvents(spans)
      [] mapper = "pipecat" -> PipecatEvents(spans)
      [] mapper \in {"openai", "gemini"} -> SpeechEvents(spans)
      [] mapper = "elevenlabs" -> ElevenLabsSpans(spans)
      [] OTHER -> ForeignEvents(spans)

(* decode: each mapper takes the spans it won, in the order of first wins. *)
SpanEvents(spans) ==
    LET won(m) == FlattenSeq([i \in DOMAIN spans |-> If(Pick(spans[i]) = m, <<spans[i]>>)])
        first(i) == Pick(spans[i]) # Absent /\ \A j \in 1 .. i - 1 : Pick(spans[j]) # Pick(spans[i])
    IN FlattenSeq([i \in DOMAIN spans |->
                      If(first(i), MapperEvents(Pick(spans[i]), won(Pick(spans[i]))))])

(* unrooted_events: without its root a trace tells no outcome and no agent. *)
WithoutRoot(f) ==
    [f EXCEPT !.ended_at = Absent, !.agent_id = Absent, !.cost = Absent, !.status = Absent]
Unrooted(events) ==
    FlattenSeq([i \in DOMAIN events |->
        If(events[i].type # "outcome",
           <<IF events[i].type = "call" THEN Having(events[i], WithoutRoot(events[i].fields))
             ELSE events[i]>>)])

=============================================================================
