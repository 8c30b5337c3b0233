------------------------------- MODULE FactFold -------------------------------
(***************************************************************************)
(* How events become a revision: fold and assembly (assemble/assembler.py),  *)
(* the way back from a revision to events (assemble/rehydrate.py), coverage  *)
(* and fidelity (domain/coverage.py).  Promotion takes "drops", "adds" and   *)
(* "clash" of an envelope as given; here they are what the fold makes of the *)
(* fields.                                                                  *)
(*                                                                         *)
(* An event is [type, fields]; the fields that tell nothing apart are left   *)
(* out (provenance, words, versions, confidence).  Lists of a revision that  *)
(* are sorted for reading are a set here.                                    *)
(***************************************************************************)
EXTENDS Naturals, FiniteSets, Sequences, SequencesExt, FiniteSetsExt, Functions, TLC

CONSTANTS
    ErrorCodes,     \* provider codes whose reason is error_*
    Absent          \* what is not told (None)

-----------------------------------------------------------------------------
(* Facts and their fold.                                                    *)

Event(type, fields) == [type |-> type, fields |-> fields @@ [source_revision |-> Absent]]

CallEvent(agent, started, ended, architecture, cost, status) ==
    Event("call", [source_call_id |-> "c", agent_id |-> agent, started_at |-> started,
                   ended_at |-> ended, architecture |-> architecture, cost |-> cost,
                   status |-> status])
TurnEvent(turn, speaker, text, from, to) ==
    Event("turn", [turn_index |-> turn, speaker |-> speaker, text |-> text,
                   started_at |-> from, ended_at |-> to, interrupted |-> FALSE])
StageEvent(stage, metric, ms, turn, placement, from, to, path) ==
    Event("stage", [stage |-> stage, metric |-> metric, value_ms |-> ms, turn_index |-> turn,
                    placement |-> placement, started_at |-> from, ended_at |-> to,
                    source_path |-> path])
AggregateEvent(stage, metric, statistic, ms, path) ==
    Event("aggregate", [stage |-> stage, metric |-> metric, statistic |-> statistic,
                        value_ms |-> ms, source_path |-> path])
ToolEvent(id, name, turn, from, to, status, args, result) ==
    Event("tool", [tool_id |-> id, name |-> name, turn_index |-> turn, started_at |-> from,
                   ended_at |-> to, status |-> status, args |-> args, result |-> result])
OutcomeEvent(code, ended, cost) ==
    Event("outcome", [provider_code |-> code, ended_at |-> ended, cost |-> cost])
GroundingEvent(kind, content, path) ==
    Event("grounding", [kind |-> kind, content |-> content, source_path |-> path])
EvidenceEvent(kind, uri, content) ==
    Event("evidence", [kind |-> kind, uri |-> uri, content |-> content])
InterruptionEvent(kind, turn, count) ==
    Event("interruption", [kind |-> kind, turn_index |-> turn, count |-> count])
FinalizedEvent == Event("finalized", [reason |-> "provider"])
SnapshotEvent(domains) == Event("snapshot", [domains |-> domains])

Identity ==
    [call |-> {"source_call_id"}, turn |-> {"turn_index", "speaker", "started_at"},
     stage |-> {"stage", "metric", "turn_index", "source_path"},
     aggregate |-> {"stage", "metric", "statistic", "source_path"},
     tool |-> {"tool_id"}, outcome |-> {}, grounding |-> {"kind", "source_path"},
     evidence |-> {"kind", "uri"}, interruption |-> {"kind", "turn_index"}, finalized |-> {}]

FactId(e) == [type |-> e.type, parts |-> Restrict(e.fields, Identity[e.type])]

(* Fields that hold a dict, and those that hold no word of the program. *)
Dicts == {"args", "source_revision"}
Plain == {"turn_index", "started_at", "ended_at", "value_ms", "cost", "count", "interrupted",
          "content"}
Unset(f, v) ==
    \/ v = Absent
    \/ f \in Dicts /\ DOMAIN v = {}
    \/ f \notin Plain \cup Dicts /\ v \in {"", "unknown", "pending"}

(* _revision_cmp: 1, 0, -1 as "after", "same", "before", or Absent. *)
Compared(a, b) ==
    IF a = Absent \/ b = Absent THEN Absent
    ELSE IF a.kind # b.kind \/ a.scope # b.scope THEN Absent
    ELSE IF a.value > b.value THEN "after" ELSE IF a.value = b.value THEN "same" ELSE "before"

Additive == {"call", "tool", "turn", "outcome", "grounding"}

(* Two dicts are merged key by key.  Of other differing values one must be   *)
(* unset and the other set: no arguments ({}) and none told conflict. *)
BothDicts(f, a, b) == f \in Dicts /\ a # Absent /\ b # Absent
Fills(f, a, b) == a = b \/ BothDicts(f, a, b) \/ Unset(f, a) # Unset(f, b)

(* The event e with other fields. *)
Having(e, fields) == [type |-> e.type, fields |-> fields]

Merged(a, b) ==
    Having(a, [f \in DOMAIN a.fields |->
                  IF BothDicts(f, a.fields[f], b.fields[f]) THEN b.fields[f] @@ a.fields[f]
                  ELSE IF Unset(f, a.fields[f]) THEN b.fields[f] ELSE a.fields[f]])

(* Mutant: facts that complete each other conflict. *)
ChosenStrictly(old, new) ==
    LET order == Compared(new.fields.source_revision, old.fields.source_revision) IN
    IF old.fields = new.fields THEN old
    ELSE IF order = Absent THEN Absent ELSE IF order = "after" THEN new ELSE old

(* _merge_or_choose; Absent is a conflict. *)
Chosen(old, new) ==
    LET order == Compared(new.fields.source_revision, old.fields.source_revision) IN
    IF old.fields = new.fields THEN old
    ELSE IF order # Absent THEN IF order = "after" THEN new ELSE old
    ELSE IF old.type \in Additive
            /\ \A f \in DOMAIN old.fields : Fills(f, old.fields[f], new.fields[f])
    THEN Merged(old, new) ELSE Absent

(* Mutant: a snapshot replaces the transcript alone. *)
CoversTurns(snapshot, e) == e.type = "turn"

Covers(snapshot, e) == e.type \in snapshot.fields.domains

(* What the fold knows: the fact accepted of each id, conflicts, retractions. *)
Known(accepted, conflicts, retracted) ==
    [accepted |-> accepted, conflicts |-> conflicts, retracted |-> retracted]

Accepting(known, id, e) ==
    Known([i \in DOMAIN known.accepted \cup {id} |-> IF i = id THEN e ELSE known.accepted[i]],
          known.conflicts, known.retracted)
Keeping(known, ids, retracted) ==
    Known([i \in ids |-> known.accepted[i]], known.conflicts, retracted)

(* Of two facts in conflict one stays, whichever came first: it is chosen by   *)
(* the hash of its content. *)
Winner(a, b) == CHOOSE e \in {a, b} : TRUE

FoldFact(known, id, e) ==
    LET pick == Chosen(known.accepted[id], e) IN
    IF id \notin DOMAIN known.accepted THEN Accepting(known, id, e)
    ELSE IF pick # Absent THEN Accepting(known, id, pick)
    ELSE Accepting(Known(known.accepted, known.conflicts \cup {id}, known.retracted),
                   id, Winner(known.accepted[id], e))

FoldEvent(known, e) ==
    LET ids == DOMAIN known.accepted IN
    CASE e.type = "snapshot" ->
            Keeping(known, {i \in ids : ~Covers(e, known.accepted[i])}, known.retracted)
      [] e.type = "retracted" ->
            Keeping(known, ids \ {e.fields.fact_id}, known.retracted \cup {e.fields.fact_id})
      [] OTHER -> FoldFact(known, FactId(e), e)

FoldFacts(events) ==
    LET after[n \in 0 .. Len(events)] ==
            IF n = 0 THEN Known(<<>>, {}, {}) ELSE FoldEvent(after[n - 1], events[n])
    IN after[Len(events)]

-----------------------------------------------------------------------------
(* Signals, fidelity and the timeline of a call.                            *)

StageSignal(stage, metric) ==
    CASE stage = "stt" -> "stt_duration"
      [] stage = "llm" -> IF metric = "ttft" THEN "llm_ttft" ELSE "llm_duration"
      [] stage = "tts" -> IF metric = "ttfb" THEN "tts_ttfb" ELSE "tts_duration"
      [] stage \in {"user_input", "generation", "playout"} -> "stage_interval"
      [] stage = "tool" -> "tool_timing"
      [] stage \in {"ttfa", "endpointing", "vad", "transport"} -> stage
      [] OTHER -> "e2e_duration"

Clocked(f) == f.started_at # Absent /\ f.ended_at # Absent

Signals(e) ==
    LET f == e.fields IN
    CASE e.type \in {"stage", "aggregate"} -> {StageSignal(f.stage, f.metric)}
      [] e.type = "turn" -> {"transcript"} \cup
            IF f.started_at # Absent \/ f.ended_at # Absent THEN {"turn_interval"} ELSE {}
      [] e.type = "tool" -> {"tool_result"} \cup IF Clocked(f) THEN {"tool_timing"} ELSE {}
      [] e.type = "grounding" -> {f.kind}
      [] e.type = "evidence" -> IF f.kind = "recording" THEN {"recording"} ELSE {}
      [] e.type = "outcome" -> {"hangup"}
      [] e.type = "interruption" -> {"interruption_count", "barge_in"}
      [] e.type = "call" -> IF f.cost # Absent THEN {"cost"} ELSE {}
      [] OTHER -> {}

Of(events, types) == {e \in events : e.type \in types}
FieldsOf(events, type) == {e.fields : e \in Of(events, {type})}

Fidelity(events) ==
    LET stages == FieldsOf(events, "stage")
        interval(s) == s.placement = "interval" /\ Clocked(s)
        turns == FieldsOf(events, "turn")
    IN CASE \E s \in stages : interval(s) -> "stage_level"
         [] \/ \E s \in stages : s.placement # "coarse_anchor" /\ s.turn_index # Absent
            \/ \E t \in turns : Clocked(t) -> "turn_level"
         [] \/ \E s \in stages : s.placement = "coarse_anchor"
            \/ \E t \in turns : t.started_at # Absent \/ t.ended_at # Absent -> "message_level"
         [] stages # {} \/ FieldsOf(events, "aggregate") # {} -> "call_level"
         [] OTHER -> "none"

-----------------------------------------------------------------------------
(* Assembly.                                                                *)

(* There is one: a call has one id, and so has an outcome. *)
LastOf(events, type) ==
    IF FieldsOf(events, type) = {} THEN Absent ELSE CHOOSE f \in FieldsOf(events, type) : TRUE

Least(ts) == IF ts = {} THEN Absent ELSE Min(ts)
Most(ts) == IF ts = {} THEN Absent ELSE Max(ts)
Else(a, b) == IF a # Absent THEN a ELSE b
Starts(fs) == {f.started_at : f \in fs} \ {Absent}
Ends(fs) == {Else(f.ended_at, f.started_at) : f \in fs} \ {Absent}

(* _lifecycle_bounds: what was reported, then turns, then stages; an end is   *)
(* inferred of a call reported to be over alone. *)
Started(call, turns, stages) ==
    Else(IF call = Absent THEN Absent ELSE call.started_at,
         Else(Least(Starts(turns)), Least(Starts(stages))))
Ended(call, outcome, over, turns, stages) ==
    Else(IF call = Absent THEN Absent ELSE call.ended_at,
    Else(IF outcome = Absent THEN Absent ELSE outcome.ended_at,
         IF over THEN Else(Most(Ends(turns)), Most(Ends(stages))) ELSE Absent))

(* An interruption marks its turn; an interval without clocks is unplaced. *)
Placed(e, interruptions) ==
    CASE e.type = "turn" ->
            Having(e, [e.fields EXCEPT !.interrupted =
                @ \/ \E i \in interruptions : i.turn_index # Absent
                                              /\ i.turn_index = e.fields.turn_index])
      [] e.type = "stage" ->
            Having(e, [e.fields EXCEPT !.placement =
                IF @ = "interval" /\ ~Clocked(e.fields) THEN "unplaced" ELSE @])
      [] OTHER -> e

(* The facts a revision holds as such. *)
FactTypes == {"turn", "stage", "aggregate", "tool", "grounding", "evidence"}

Assembled(events, rooted) ==
    LET fold == FoldFacts(events)
        remaining == {fold.accepted[i] : i \in DOMAIN fold.accepted \ fold.retracted}
        call == LastOf(remaining, "call")
        outcome == LastOf(remaining, "outcome")
        over == outcome # Absent \/ LastOf(remaining, "finalized") # Absent
        turns == FieldsOf(remaining, "turn")
        stages == FieldsOf(remaining, "stage")
        marks == FieldsOf(remaining, "interruption")
    IN [agent_id |-> IF rooted /\ call # Absent THEN Else(call.agent_id, "unknown") ELSE "unknown",
        architecture |-> IF call = Absent THEN "cascade" ELSE call.architecture,
        started_at |-> Started(call, turns, stages),
        ended_at |-> IF rooted THEN Ended(call, outcome, over, turns, stages) ELSE Absent,
        cost |-> IF ~rooted THEN Absent
                 ELSE IF call # Absent THEN call.cost
                 ELSE IF outcome # Absent THEN outcome.cost ELSE Absent,
        hangup |-> IF rooted /\ outcome # Absent THEN outcome.provider_code ELSE Absent,
        status |-> IF ~rooted THEN "unrooted"
                   ELSE IF outcome # Absent /\ outcome.provider_code \in ErrorCodes THEN "error"
                   ELSE IF over THEN "ended" ELSE "ongoing",
        facts |-> {Placed(e, marks) : e \in Of(remaining, FactTypes)},
        present |-> UNION {Signals(e) : e \in remaining},
        fidelity |-> Fidelity(remaining),
        conflicts |-> fold.conflicts]

(* A finite set of events as a list, in some order. *)
InSomeOrder(events) ==
    LET left[n \in 0 .. Cardinality(events)] ==
            IF n = 0 THEN events ELSE left[n - 1] \ {CHOOSE e \in left[n - 1] : TRUE}
    IN [n \in 1 .. Cardinality(events) |-> CHOOSE e \in left[n - 1] : TRUE]

(* The facts of a revision, which keeps no source revisions. *)
FactsAgain(r) ==
    InSomeOrder({Having(e, [e.fields EXCEPT !.source_revision = Absent]) : e \in r.facts})

(* Mutant: the derived clocks go back into the call. *)
RehydratedClocks(r) ==
    IF r = Absent THEN <<>>
    ELSE <<CallEvent(r.agent_id, r.started_at, r.ended_at, r.architecture, r.cost, r.status)>>
         \o FactsAgain(r)
         \o (IF r.hangup = Absent THEN <<>> ELSE <<OutcomeEvent(r.hangup, r.ended_at, r.cost)>>)
         \o IF r.status \in {"ended", "error"} \/ r.hangup # Absent THEN <<FinalizedEvent>> ELSE <<>>

(* events_from_revision: the clocks of the call are left out, since they may  *)
(* be derived; its end goes to the outcome nevertheless.  Interruptions and   *)
(* source revisions are gone, marks and fills stay. *)
Rehydrated(r) ==
    IF r = Absent THEN <<>>
    ELSE <<CallEvent(r.agent_id, Absent, Absent, r.architecture, r.cost, r.status)>>
         \o FactsAgain(r)
         \o (IF r.hangup = Absent THEN <<>> ELSE <<OutcomeEvent(r.hangup, r.ended_at, r.cost)>>)
         \o IF r.status \in {"ended", "error"} \/ r.hangup # Absent THEN <<FinalizedEvent>> ELSE <<>>

=============================================================================
