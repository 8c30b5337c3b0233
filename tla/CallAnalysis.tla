---------------------------- MODULE CallAnalysis ----------------------------
(***************************************************************************)
(* What is said of a call without asking a judge: the detector's claims     *)
(* (analysis/hallucination.py), the flags (analysis/tier1.py, behavior.py,  *)
(* tool_integrity.py, compliance.py) and the ending (analysis/hangup.py).   *)
(* Every revision of a call is analysed anew, and a later one is folded     *)
(* from more facts (assemble/assembler.py): turns that come late, turns and *)
(* tools that are told in parts, the clocks of the call.  A behaviour of    *)
(* this module is a call whose facts are only added to, in any order.       *)
(*                                                                         *)
(* A turn is known by its index, its speaker and its start; it holds the    *)
(* spans that the regular expressions find in its text: of a kind, with a   *)
(* value.  A tool's leaves are the scalars of its arguments, its result and *)
(* its error: a value and what its path and its form say of it.  A value    *)
(* has a text, or for a date a day and a time that may be missing.  A code  *)
(* is its name, what the name decides and the rules its words fit.  Time is *)
(* in seconds.                                                             *)
(***************************************************************************)
EXTENDS Integers, FiniteSets, Sequences, FiniteSetsExt, Functions, SequencesExt

CONSTANTS
    Utterances,     \* what may be said: [index, by, start, words, spans, until, interrupted, cut]
    ToolRuns,       \* tools as they may run, pending or not
    References,     \* grounding: [kind, json, spans, leaves]
    Codes,          \* codes a provider may end the call with: [name, explicit, fits]
    Openings,       \* when the call may be reported to begin
    Closings,       \* when it may be reported to end
    NearMisses,     \* pairs of private values that nearly agree
    Missing,        \* what a record may lack: a turn index, a clock, an ending
    MaxFacts        \* bound of the model: turns, tools and references of a call

VARIABLE call

Kinds == {"price_claim", "fabricated_id", "date_time_claim", "count_claim"}
LiveReferences == {"knowledge", "tool_result", "user_text"}

UserTurns(c) == {i \in DOMAIN c.turns : i.by = "user"}
AgentTurns(c) == {i \in DOMAIN c.turns : i.by = "agent"}
Spans(c, I) == UNION {c.turns[i].spans : i \in I}
Tools(c) == DOMAIN c.tools

-----------------------------------------------------------------------------
(* Turns and clocks.                                                       *)

(* assemble: the turns are listed by start, those without one first, by     *)
(* index and by speaker. *)
Place(i) == IF i.start = Missing THEN -1 ELSE i.start
Before(i, j) ==
    \/ Place(i) < Place(j)
    \/ Place(i) = Place(j) /\ i.index < j.index
    \/ Place(i) = Place(j) /\ i.index = j.index /\ i.by = "agent" /\ j.by = "user"

FirstOf(I) == CHOOSE i \in I : \A j \in I : j = i \/ Before(i, j)
FinalOf(I) == CHOOSE i \in I : \A j \in I : j = i \/ Before(j, i)

(* Those that follow one another in an order of the turns. *)
Successive(order) ==
    {p \in order : ~\E q \in order : q[1] = p[1] /\ <<q[2], p[2]>> \in order}

Or(a, b) == IF a = Missing THEN b ELSE a
Moment(c, i) == Or(i.start, c.turns[i].end)
Stop(c, i) == Or(c.turns[i].end, i.start)
TurnEnds(c) == {Stop(c, i) : i \in DOMAIN c.turns} \ {Missing}

(* _lifecycle_bounds: a start that nobody reported is that of the first     *)
(* turn, an end that of the last one once an ending was reported. *)
StartOf(c) ==
    LET starts == {i.start : i \in DOMAIN c.turns} \ {Missing}
    IN IF c.began # Missing \/ starts = {} THEN c.began ELSE Min(starts)
EndOf(c) ==
    IF c.ending = Missing \/ c.ended # Missing \/ TurnEnds(c) = {} THEN c.ended ELSE Max(TurnEnds(c))

DaySeconds == 86400
Day(at) == IF at = Missing THEN Missing ELSE at \div DaySeconds
StartDay(c) == Day(StartOf(c))

-----------------------------------------------------------------------------
(* Tools.                                                                  *)

(* The body counts as well as the status. *)
Failed(t) == t.status \in {"error", "timeout"} \/ t.marker
Succeeded(t) == ~Failed(t) /\ t.status = "success"

(* tool_values: what a scalar may be read as.  A whole number is an amount  *)
(* only under such a name, and never under the name of a count or a limit. *)
MoneyLike(leaf) ==
    /\ leaf.form \in {"whole", "decimal", "currency"}
    /\ ~("not_money" \in leaf.path /\ leaf.form = "whole")
    /\ leaf.form # "whole" \/ "money" \in leaf.path

Readings(leaf) ==
    LET kinds == (IF MoneyLike(leaf) THEN {"price_claim"} ELSE {})
             \cup (IF leaf.form # "decimal" THEN {"fabricated_id"} ELSE {})
             \cup (IF leaf.form = "whole" /\ ~MoneyLike(leaf) /\ "count" \in leaf.path
                   THEN {"count_claim"} ELSE {})
             \cup (IF leaf.form = "iso" \/ (leaf.form = "month_day" /\ "datetime" \in leaf.path)
                   THEN {"date_time_claim"} ELSE {})
    IN {[kind |-> k, value |-> leaf.value] : k \in kinds}
PrivateValues(leaves) == {[kind |-> "private_knowledge", value |-> leaf.value] : leaf \in leaves}

(* _tool_body: the error if there is one, the result otherwise; private     *)
(* values are looked for there, and never in what the agent passed.         *)
Body(t) ==
    LET errors == {leaf \in t.leaves : leaf.in = "error"}
    IN IF errors # {} THEN errors ELSE {leaf \in t.leaves : leaf.in = "result"}

Values(t) == PrivateValues(Body(t)) \cup UNION {Readings(leaf) : leaf \in t.leaves}

(* bind_success_claim: the tool a statement of turn i is about, or none.    *)
Bind(c, i, unique) ==
    LET indexed == {t \in Tools(c) : c.tools[t].turn # Missing}
        equal == {t \in indexed : c.tools[t].turn = i.index}
        before == {t \in indexed : c.tools[t].turn < i.index}
        latest == {t \in before : \A u \in before : c.tools[u].turn <= c.tools[t].turn}
        said == FirstOf({j \in DOMAIN c.turns : j.index = i.index}).start
        clocked == {t \in Tools(c) : said # Missing /\ c.tools[t].start # Missing
                                      /\ c.tools[t].start <= said}
        last == {t \in clocked : \A u \in clocked : c.tools[u].start <= c.tools[t].start}
    IN IF Cardinality(equal \cup latest) = 1 THEN equal \cup latest
       ELSE IF Cardinality(last) = 1 THEN last
       ELSE IF unique /\ Cardinality(Tools(c)) = 1 THEN Tools(c) ELSE {}

-----------------------------------------------------------------------------
(* The claims.  What may ground one: what tools, references and the caller  *)
(* say, never the agent. *)

Live(c) ==
    \/ c.tools # <<>>
    \/ \E r \in c.references : r.kind \in LiveReferences
    \/ \E i \in UserTurns(c) : c.turns[i].words # ""

(* A date of a turn is read by the day of the turn, else of the call, and   *)
(* not at all without one. *)
TurnDay(c, i) == IF i.start = Missing THEN StartDay(c) ELSE Day(i.start)
DayGiven(value, day) == IF value.day = Missing THEN [value EXCEPT !.day = day] ELSE value
Readable(c, i) ==
    {s \in c.turns[i].spans : s.kind = "date_time_claim" => TurnDay(c, i) # Missing}
Grounds(c, i) ==
    {[kind |-> s.kind,
      value |-> IF s.kind = "date_time_claim" THEN DayGiven(s.value, TurnDay(c, i)) ELSE s.value] :
        s \in Readable(c, i)}

(* Mutant: every turn grounds. *)
SpokenByAll(c) == UNION {Grounds(c, i) : i \in DOMAIN c.turns}

Spoken(c) == UNION {Grounds(c, i) : i \in UserTurns(c)}

(* _evidence_pack and _private_sources: a reference that is no JSON is read *)
(* for prices, ids and private values only. *)
Quoted(r) ==
    IF r.json THEN PrivateValues(r.leaves) \cup UNION {Readings(leaf) : leaf \in r.leaves}
    ELSE {s \in r.spans : s.kind \in {"price_claim", "fabricated_id", "private_knowledge"}}

Evidence(c, kind) ==
    LET found == Spoken(c) \cup (UNION {Values(c.tools[t]) : t \in Tools(c)})
                   \cup UNION {Quoted(r) : r \in {q \in c.references : q.kind \in LiveReferences}}
    IN {s.value : s \in {u \in found : u.kind = kind}}

(* _datetime_match: a date without a time agrees with any time of its day.  *)
SameTime(source, claimed) ==
    /\ source.day = claimed.day
    /\ source.time = Missing \/ claimed.time = Missing \/ source.time = claimed.time

(* A time whose sentence names no day is said of the day the call started.  *)
Agrees(c, kind, source, claimed) ==
    IF kind = "date_time_claim" THEN SameTime(source, DayGiven(claimed, StartDay(c)))
    ELSE source = claimed

(* Absence refutes prices and ids once a tool ran; counts are only refuted  *)
(* by another count, and a day by another day: a time without one is about  *)
(* opening hours. *)
Refutable(c, s) ==
    CASE s.kind \in {"price_claim", "fabricated_id"} -> c.tools # <<>>
      [] s.kind = "count_claim" -> Evidence(c, s.kind) # {}
      [] s.kind = "date_time_claim" -> Evidence(c, s.kind) # {} /\ s.value.day # Missing

Judgeable(c, s) == Live(c) /\ (s.kind = "date_time_claim" => StartDay(c) # Missing)

OfRecord(c, s) ==
    IF ~Judgeable(c, s) THEN "evidence_missing"
    ELSE IF \E v \in Evidence(c, s.kind) : Agrees(c, s.kind, v, s.value) THEN "grounded"
    ELSE IF Refutable(c, s) THEN "contradicted" ELSE "evidence_missing"

OfPrivate(c, s) ==
    LET known == Evidence(c, "private_knowledge")
    IN IF s.value \in known THEN "grounded"
       ELSE IF \E v \in known : <<v, s.value>> \in NearMisses THEN "contradicted"
       ELSE "needs_review"

Unbound(c) == IF c.tools = <<>> THEN "evidence_missing" ELSE "needs_review"

(* "I have booked": dropped when the tool it is about did not fail. *)
OfAction(c, i) ==
    LET b == Bind(c, i, TRUE)
    IN IF b = {} THEN Unbound(c)
       ELSE IF \E t \in b : Failed(c.tools[t]) THEN "contradicted" ELSE "dropped"

(* "I cannot find": never bound because the call has one tool only. *)
OfFailure(c, i) ==
    LET b == Bind(c, i, FALSE)
    IN IF b = {} THEN Unbound(c)
       ELSE IF \E t \in b : Succeeded(c.tools[t]) /\ c.tools[t].result
            THEN "contradicted" ELSE "dropped"

(* A placeholder sent for the one id the caller had named before. *)
ArgsMismatch(c, t) ==
    /\ c.tools[t].turn # Missing
    /\ Cardinality({s \in Spans(c, {i \in UserTurns(c) : i.index < c.tools[t].turn}) :
                      s.kind = "fabricated_id"}) = 1
    /\ c.tools[t].args = "placeholder"

Verdict(c, i, s) ==
    CASE s.kind \in Kinds -> OfRecord(c, s)
      [] s.kind = "private_knowledge" -> OfPrivate(c, s)
      [] s.kind = "commitment" -> OfAction(c, i)
      [] s.kind = "phantom_tool_failure" -> OfFailure(c, i)

Claimed == Kinds \cup {"private_knowledge", "commitment", "phantom_tool_failure"}
Said(c) == {p \in AgentTurns(c) \X Spans(c, AgentTurns(c)) :
              p[2] \in c.turns[p[1]].spans /\ p[2].kind \in Claimed}

Severity(kind, verdict) ==
    CASE verdict \in {"evidence_missing", "needs_review"} -> "needs_review"
      [] verdict = "grounded" -> "low"
      [] verdict = "contradicted" /\ kind \in {"price_claim", "fabricated_id",
                                     "date_time_claim", "private_knowledge"} -> "critical"
      [] OTHER -> "high"

(* detect_claims, and detector_payload over it. *)
Claim(c, i, s) ==
    LET v == Verdict(c, i, s)
        kind == IF s.kind = "commitment" /\ v = "contradicted" THEN "phantom_tool_success" ELSE s.kind
    IN [kind |-> kind, turn |-> i.index, verdict |-> v, severity |-> Severity(kind, v)]
Claims(c) ==
    {d \in {Claim(c, p[1], p[2]) : p \in Said(c)} : d.verdict # "dropped"}
    \cup {[kind |-> "args_mismatch", turn |-> c.tools[t].turn, verdict |-> "contradicted",
           severity |-> "high"] : t \in {u \in Tools(c) : ArgsMismatch(c, u)}}
Passed(c) == \A d \in Claims(c) : d.verdict # "contradicted"

-----------------------------------------------------------------------------
(* The flags.                                                              *)

MonologueSeconds == 60
TalkRatio == 3
MinUserSpeech == 5
DeadAirSeconds == 8
StormAttempts == 3
TooShort == {"", "short"}

Flag(kind, holds) == IF holds THEN {kind} ELSE {}

SameRun(c, t) == {u \in Tools(c) : c.tools[u].name = c.tools[t].name /\ c.tools[u].args = c.tools[t].args}

DoubleInvocation(c) ==
    \E t \in Tools(c) : c.tools[t].mutating /\ Succeeded(c.tools[t])
        /\ Cardinality({u \in SameRun(c, t) : Succeeded(c.tools[u])}) >= 2

RetryStorm(c) ==
    \E t \in Tools(c) :
        LET group == SameRun(c, t)
            failures == {u \in group : Failed(c.tools[u])}
        IN /\ Cardinality(group) >= StormAttempts
           /\ 2 * Cardinality(failures) >= Cardinality(group)
           /\ Cardinality(failures) >= 2

(* Somebody promised what no tool of the kind did later; never on a call    *)
(* without tools. *)
UnfulfilledPromise(c) ==
    /\ c.tools # <<>>
    /\ \E i \in AgentTurns(c) : \E s \in c.turns[i].spans :
          /\ s.kind = "promise"
          /\ ~\E t \in Tools(c) : /\ c.tools[t].turn # Missing /\ c.tools[t].turn > i.index
                                  /\ c.tools[t].name = s.value

Heard(c, I, kind) == \E s \in Spans(c, I) : s.kind = kind
NoTransfer(c) == c.ending = Missing \/ c.ending.reason # "transfer"

Loop(c) ==
    \E i \in AgentTurns(c) : c.turns[i].words \notin TooShort
        /\ Cardinality({j \in AgentTurns(c) : c.turns[j].words = c.turns[i].words}) >= 3

(* The first time a caller said it, and a later one, with the agent between. *)
UserRepeated(c) ==
    \E i, j \in UserTurns(c) :
        LET same == {k \in UserTurns(c) : c.turns[k].words = c.turns[j].words}
        IN /\ c.turns[j].words \notin TooShort
           /\ i = FirstOf(same) /\ i # j
           /\ \E k \in AgentTurns(c) : i.index < k.index /\ k.index < j.index

FarewellMissed(c) ==
    LET farewells == {i \in UserTurns(c) : Heard(c, {i}, "farewell")}
    IN /\ farewells # {}
       /\ Cardinality({i \in AgentTurns(c) : i.index > FinalOf(farewells).index}) >= 2

Length(c, i) ==
    IF Missing \in {i.start, c.turns[i].end} THEN 0 ELSE Max({0, c.turns[i].end - i.start})
Speech(c, I) == FoldFunctionOnSet(+, 0, [i \in DOMAIN c.turns |-> Length(c, i)], I)

Monologue(c) ==
    \/ \E i \in AgentTurns(c) : Length(c, i) > MonologueSeconds
    \/ /\ Speech(c, UserTurns(c)) >= MinUserSpeech
       /\ Speech(c, AgentTurns(c)) > TalkRatio * Speech(c, UserTurns(c))

NoRecovery(c) ==
    LET listed == DOMAIN c.turns
    IN \E p \in Successive({q \in listed \X listed : Before(q[1], q[2])}) :
        p[1].by = "agent" /\ c.turns[p[1]].interrupted /\ p[2].by = "agent"

(* The turns that have a clock, by start or else by end. *)
ByClock(c) ==
    LET timed == {i \in DOMAIN c.turns : Moment(c, i) # Missing}
    IN {p \in timed \X timed :
          \/ Moment(c, p[1]) < Moment(c, p[2])
          \/ Moment(c, p[1]) = Moment(c, p[2]) /\ Before(p[1], p[2])}
DeadAir(c) ==
    \E p \in Successive(ByClock(c)) : Moment(c, p[2]) - Stop(c, p[1]) > DeadAirSeconds

Silences == {"silence_timeout", "inactivity"}

DeadAirHangup(c) ==
    LET told == {c.turns[i].end : i \in DOMAIN c.turns} \ {Missing}
    IN /\ c.ending # Missing /\ c.ending.party = "user" /\ c.ending.reason \notin Silences
       /\ told # {} /\ EndOf(c) # Missing
       /\ EndOf(c) - Max(told) > DeadAirSeconds

(* The reason the model stopped is that of the last batch of spans. *)
Truncated(c) ==
    \/ c.cut
    \/ /\ AgentTurns(c) # {}
       /\ LET last == FinalOf(AgentTurns(c))
          IN c.turns[last].words = "" \/ Heard(c, {last}, "ellipsis")

(* Flags that no later fact takes back. *)
Lasting(c) ==
    Flag("tool_failure", \E t \in Tools(c) : c.tools[t].status \in {"error", "timeout"})
    \cup Flag("silence", c.ending # Missing /\ c.ending.reason \in Silences)
    \cup Flag("double_invocation", DoubleInvocation(c))
    \cup Flag("loop_detected", Loop(c))
    \cup Flag("pan_spoken", Heard(c, AgentTurns(c), "pan"))
    \cup Flag("ssn_spoken", Heard(c, AgentTurns(c), "ssn"))
    \cup Flag("low_stt_confidence", Heard(c, DOMAIN c.turns, "unsure"))
    \cup Flag("verbal_secret_request", Heard(c, AgentTurns(c), "secret"))

(* Flags that only a tool or a transfer takes back. *)
Awaiting(c) ==
    Flag("unfulfilled_promise", UnfulfilledPromise(c))
    \cup Flag("broken_transfer_promise", NoTransfer(c) /\ Heard(c, AgentTurns(c), "transfer"))
    \cup Flag("escalation_unmet", NoTransfer(c) /\ Heard(c, UserTurns(c), "human"))

(* Flags that a turn which comes late, or a clock, may take back: they are   *)
(* about who spoke next and for how long. *)
Passing(c) ==
    Flag("truncated_llm", Truncated(c))
    \cup Flag("dead_air", DeadAir(c))
    \cup Flag("retry_storm", RetryStorm(c))
    \cup Flag("user_repeated", UserRepeated(c))
    \cup Flag("farewell_missed", FarewellMissed(c))
    \cup Flag("monologue", Monologue(c))
    \cup Flag("barge_in_no_recovery", NoRecovery(c))
    \cup Flag("dead_air_hangup", DeadAirHangup(c))
Flags(c) == Lasting(c) \cup Awaiting(c) \cup Passing(c)

-----------------------------------------------------------------------------
(* The ending.  A name decides or, for Vapi, the first rule that its words   *)
(* fit; the order of the rules tells a voice that failed, the first, from    *)
(* the transcriber of the same provider, the second. *)
VapiRules ==
    <<"error_tts", "error_stt", "error_llm", "error_tool", "error_telephony", "busy",
      "dial_failed", "transfer", "completed", "transfer", "no_answer", "busy", "no_answer",
      "error_unknown", "cancelled", "error_unknown", "silence_timeout", "voicemail",
      "user_hangup", "agent_hangup">>
VoiceFailed == 1

FirstFit(fits) == Min(fits)

Unnamed(code) == code.name = ""

(* classify_provider_reason, for Vapi's codes. *)
VapiReason(code) ==
    IF Unnamed(code) THEN "unknown"
    ELSE IF code.explicit # Missing THEN code.explicit
    ELSE IF code.fits # {} THEN VapiRules[FirstFit(code.fits)]
    ELSE "unknown"

(* A turn has one account, a tool that is pending no body yet, and no name   *)
(* that decides by itself is one of a voice that failed. *)
ASSUME CallAssumption ==
    /\ \A u, v \in Utterances : u.index = v.index /\ u.by = v.by /\ u.start = v.start => u = v
    /\ \A t \in ToolRuns : t.status = "pending" => ~t.marker /\ Body(t) = {}
    /\ \A code \in Codes :
          /\ code.fits \subseteq DOMAIN VapiRules
          /\ VoiceFailed \in code.fits => ~Unnamed(code) /\ code.explicit = Missing

Users == {"user_hangup", "busy", "no_answer"}
Agents == {"agent_hangup", "transfer"}
Reported(code) ==
    LET reason == VapiReason(code)
    IN [code |-> code, reason |-> reason,
        party |-> CASE reason \in Users -> "user" [] reason \in Agents -> "agent"
                    [] reason = "unknown" -> "unknown" [] OTHER -> "system"]

(* hangup_bucket: unknown is kept for a code that was received. *)
Bucket(c) ==
    IF ~c.rooted THEN "unrooted"
    ELSE IF c.ending = Missing THEN "not_reported"
    ELSE IF c.ending.reason = "unknown" /\ Unnamed(c.ending.code) THEN "not_reported"
    ELSE c.ending.reason

-----------------------------------------------------------------------------
(* A call that grows.                                                      *)

CallInit ==
    call = [turns |-> <<>>, tools |-> <<>>, references |-> {}, began |-> Missing,
            ending |-> Missing, ended |-> Missing, rooted |-> FALSE, cut |-> FALSE]

Room == Cardinality(DOMAIN call.turns) + Len(call.tools) + Cardinality(call.references) < MaxFacts

(* What the next fold starts from: every fact so far, when the spans of a    *)
(* trace are decoded once more, or the revision before it, which keeps no    *)
(* start of the call and a derived end as if it had been reported            *)
(* (events_from_revision).  A finish reason is that of its batch only. *)
Refolds(c) ==
    {[c EXCEPT !.cut = FALSE],
     [c EXCEPT !.cut = FALSE, !.began = Missing, !.ended = EndOf(c)]}

Id(u) == [index |-> u.index, by |-> u.by, start |-> u.start]

(* What may be told of a turn at a time: its text, its end, or both. *)
Parts(u) ==
    {[words |-> told[1], spans |-> IF told[1] = "" THEN {} ELSE u.spans, end |-> told[2],
      interrupted |-> u.interrupted] :
        told \in ({"", u.words} \X {Missing, u.until}) \ {<<"", Missing>>}}
Heed(turns, i, part) == [j \in DOMAIN turns \cup {i} |-> IF j = i THEN part ELSE turns[j]]

(* A turn is reported, before or after those that were said before it. *)
Speak ==
    /\ Room
    /\ \E c \in Refolds(call), u \in Utterances :
          /\ Id(u) \notin DOMAIN c.turns
          /\ \E part \in Parts(u) :
                call' = [c EXCEPT !.turns = Heed(@, Id(u), part), !.cut = u.cut]

(* More is told of it: what was unset is filled (_merge_or_choose). *)
Amend ==
    \E c \in Refolds(call), u \in Utterances :
        /\ Id(u) \in DOMAIN c.turns
        /\ \E part \in Parts(u) :
              LET old == c.turns[Id(u)]
              IN /\ old.words \in {"", part.words} /\ old.end \in {Missing, part.end}
                 /\ call' = [c EXCEPT !.turns =
                                Heed(@, Id(u), [part EXCEPT !.interrupted = old.interrupted]),
                              !.cut = u.cut]

(* An interruption marks every turn of its index (_apply_interruptions).    *)
Marked(turns, n) == [j \in DOMAIN turns |-> [turns[j] EXCEPT !.interrupted = @ \/ j.index = n]]
Interrupt ==
    \E c \in Refolds(call), i \in DOMAIN call.turns :
        call' = [c EXCEPT !.turns = Marked(@, i.index)]

(* A tool is invoked, or reported with its result. *)
Invoke ==
    /\ Room
    /\ \E c \in Refolds(call), t \in ToolRuns : call' = [c EXCEPT !.tools = Append(@, t)]

(* What a pending tool came to; its result is told once. *)
Fulfils(t, p) ==
    /\ t.name = p.name /\ t.mutating = p.mutating
    /\ p.turn \in {Missing, t.turn} /\ p.start \in {Missing, t.start}
    /\ p.args \in {Missing, t.args} /\ p.leaves \subseteq t.leaves
Return ==
    \E c \in Refolds(call), k \in DOMAIN call.tools, t \in ToolRuns :
        /\ c.tools[k].status = "pending" /\ t.status # "pending" /\ Fulfils(t, c.tools[k])
        /\ call' = [c EXCEPT !.tools[k] = t]

Refer ==
    /\ Room
    /\ \E c \in Refolds(call), r \in References \ call.references :
          call' = [c EXCEPT !.references = @ \cup {r}]

Open ==
    \E c \in Refolds(call), at \in Openings :
        /\ c.began = Missing
        /\ call' = [c EXCEPT !.began = at, !.rooted = TRUE]

(* An ending is reported; one that named no code may be told again. *)
End ==
    \E c \in Refolds(call), code \in Codes, at \in Closings \cup {Missing} :
        /\ c.ending # Missing => Unnamed(c.ending.code)
        /\ c.ended # Missing => at \in {Missing, c.ended}
        /\ call' = [c EXCEPT !.ending = Reported(code), !.ended = Or(@, at), !.rooted = TRUE]

CallNext == Speak \/ Amend \/ Interrupt \/ Invoke \/ Return \/ Refer \/ Open \/ End
CallSpec == CallInit /\ [][CallNext]_call

-----------------------------------------------------------------------------
(* What a growing call keeps.                                              *)

Matters == Kinds \cup {"private_knowledge"}
Muted(c) ==
    [c EXCEPT !.turns = [i \in DOMAIN @ |-> IF i.by = "agent"
                                            THEN [@[i] EXCEPT !.words = "", !.spans = {}] ELSE @[i]]]
Statements(c) == {p \in Said(c) : p[2].kind \in Matters}
Datable(c, d, s) == s.kind = "date_time_claim" => StartDay(c) = StartDay(d)

(* A statement that something grounds stays grounded whatever else is       *)
(* reported, a date as long as the call is taken to start on the same day   *)
(* (_detect_datetime); what the agent says settles nothing, neither of what *)
(* it said before nor of what it says later: the verdicts are those of the  *)
(* same call with the agent's words blotted out (_evidence_pack); no turn   *)
(* that comes late, no clock and no ending takes back a flag about what was *)
(* said or done, and only a tool or a transfer one about what was promised; *)
(* and a voice that failed is not blamed on the transcriber of its provider *)
(* (_prefix_vapi). *)
FindingsStable ==
    [][/\ \A p \in Statements(call) :
            Verdict(call, p[1], p[2]) = "grounded" /\ Datable(call, call', p[2]) =>
              Verdict(call', p[1], p[2]) = "grounded"
       /\ LET muted == Muted(call')
          IN \A p \in Statements(call') : Verdict(muted, p[1], p[2]) = Verdict(call', p[1], p[2])
       /\ Lasting(call) \subseteq Lasting(call')
       /\ call.tools = call'.tools /\ NoTransfer(call') => Awaiting(call) \subseteq Awaiting(call')
       /\ (call'.ending # Missing /\ VoiceFailed \in call'.ending.code.fits) =>
            Bucket(call') = "error_tts"]_call
=============================================================================
