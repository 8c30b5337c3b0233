---------------------------- MODULE FleetRollups ----------------------------
(***************************************************************************)
(* What the fleet pages say of the calls in a window: percentiles, tools,   *)
(* quality and its review queue (analysis/rollups.py), and the clusters of  *)
(* endings (analysis/cluster.py).  All of it is computed when it is read,   *)
(* from the active revisions and from an append-only log of analysis rows,  *)
(* in which every retry and every later analyzer version is a row of its    *)
(* own.  What a promotion contributes to the store of contributions.py is   *)
(* no part of it: no page reads that store.                                 *)
(***************************************************************************)
EXTENDS Integers, FiniteSets, Sequences, FiniteSetsExt, Functions, SequencesExt

CONSTANTS
    FleetSize,      \* calls are numbers, in the order of their ids
    Revisions,      \* what a revision may hold: [id, samples, text, tools, reason, party, spoken]
    Rows,           \* analysis rows as they may be written, without their call
    Alike,          \* texts and a text near their centroid, by the local embedding
    Unserved,       \* no revision
    MaxRows         \* bound of the model: the last place of the log

FleetCalls == 1 .. FleetSize
States == {"sampled_out", "pending", "budget_blocked", "running", "failed", "completed"}

(* Samples and tools are lists, times and versions numbers. *)
ASSUME FleetAssumption ==
    /\ FleetSize \in Nat /\ Unserved \notin Revisions
    /\ \A r \in Revisions :
          /\ r.samples \in Seq(ToSet(r.samples)) /\ r.tools \in Seq(ToSet(r.tools))
          /\ \A k \in DOMAIN r.samples : r.samples[k].ms \in Nat
    /\ \A row \in Rows :
          {"state", "version"} \subseteq DOMAIN row /\ row.state \in States /\ row.version \in Nat

(* [serving, log]: log[i] is the row that was appended at i, an erased row   *)
(* leaves a gap. *)
VARIABLE fleet

Serving == {c \in FleetCalls : fleet.serving[c] # Unserved}
Revision(c) == fleet.serving[c]

-----------------------------------------------------------------------------
(* Percentiles, in hundredths: linear between the two closest ranks.  Times *)
(* are records with ms, a set: what tells two of them apart is where they   *)
(* were measured.                                                          *)

Within(times, ms) == {s \in times : s.ms <= ms}

(* The k-th of the sorted values: the least that k of them do not exceed. *)
Ranked(times, k) ==
    CHOOSE v \in {s.ms : s \in times} :
        /\ Cardinality(Within(times, v)) >= k
        /\ \A s \in times : Cardinality(Within(times, s.ms)) >= k => v <= s.ms

Percentile(times, p) ==
    LET n == Cardinality(times)
        h == p * (n - 1)
        lo == (h \div 100) + 1
        hi == IF lo < n THEN lo + 1 ELSE n
    IN IF times = {} THEN 0
       ELSE Ranked(times, lo) * (100 - (h % 100)) + Ranked(times, hi) * (h % 100)

Stats(times) ==
    [n |-> Cardinality(times), p50 |-> Percentile(times, 50), p95 |-> Percentile(times, 95)]

(* Provider aggregates never enter. *)
SamplesOf(c, r) ==
    {[call |-> c, at |-> k, stage |-> r.samples[k].stage, metric |-> r.samples[k].metric,
      ms |-> r.samples[k].ms] : k \in DOMAIN r.samples}

(* latency_rollup: of the active revisions. *)
ActiveSamples == UNION {SamplesOf(c, Revision(c)) : c \in Serving}

Times(samples, stage, metric) == {s \in samples : s.stage = stage /\ s.metric = metric}

(* build_latency_rollup: the headline of a stage is its duration, or else   *)
(* its first metric. *)
Metrics(samples, stage) == {s.metric : s \in {u \in samples : u.stage = stage}}
Headline(samples, stage) ==
    IF "duration" \in Metrics(samples, stage) THEN "duration"
    ELSE CHOOSE m \in Metrics(samples, stage) : TRUE
Latency(samples) ==
    [stage \in {s.stage : s \in samples} |->
        Stats(Times(samples, stage, Headline(samples, stage)))]

Fails(t) == t.status \in {"error", "timeout"} \/ t.marker
ToolStats(tools) ==
    LET timed == {k \in DOMAIN tools : tools[k].ms > 0}
    IN [count |-> Len(tools),
        failures |-> Cardinality({k \in DOMAIN tools : Fails(tools[k])}),
        successes |-> Cardinality({k \in DOMAIN tools :
                                     ~Fails(tools[k]) /\ tools[k].status = "success"}),
        duration |-> Percentile({[at |-> k, ms |-> tools[k].ms] : k \in timed}, 50)]

-----------------------------------------------------------------------------
(* latest_analysis_results: one row speaks for a call, revision, analyzer   *)
(* and rubric version. *)

StateRank(state) ==
    CASE state = "sampled_out" -> 1 [] state = "pending" -> 2 [] state = "budget_blocked" -> 3
      [] state = "running" -> 4 [] state = "failed" -> 5 [] state = "completed" -> 6 [] OTHER -> 0
RowKey(row) == <<row.call, row.revision, row.analyzer, row.rubric>>

(* Mutant: a newer row wins whatever its state. *)
PrecedesByAge(log, i, j) == i < j

Precedes(log, i, j) ==
    LET a == StateRank(log[i].state) b == StateRank(log[j].state) IN
    \/ a < b
    \/ a = b /\ log[i].version < log[j].version
    \/ a = b /\ log[i].version = log[j].version /\ i < j

Rivals(log, i) == {j \in DOMAIN log \ {i} : RowKey(log[j]) = RowKey(log[i])}
LatestResults(log) ==
    {log[i] : i \in {k \in DOMAIN log : \A j \in Rivals(log, k) : Precedes(log, j, k)}}

-----------------------------------------------------------------------------
(* build_quality_rollup.                                                   *)

NonEval == {"hallucination", "flags", "quality_card", "groundedness"}
OpenVerdicts == {"maybe", "not_applicable", "not_judged", "evidence_missing"}

(* What is not listed is a rubric or a pack. *)
IsEval(row) == row.analyzer \notin NonEval /\ ~row.shadow

(* _binary_eval_verdict: an open verdict, or none and no result, is no eval.*)
Binary(row) ==
    /\ row.verdict \notin OpenVerdicts
    /\ row.passed # "none" \/ row.verdict \in {"pass", "fail"}

Judged(rows) == {r \in rows : IsEval(r) /\ r.state = "completed" /\ Binary(r)}
PassedEvals(rows) == {r \in Judged(rows) : r.passed = "yes"}
FailedEvals(rows) == Judged(rows) \ PassedEvals(rows)

(* Only what a detector contradicts is confirmed. *)
IsConfirmed(claim) == claim.verdict = "contradicted" /\ claim.detector

ConfirmedClaims(row) ==
    IF row.analyzer = "hallucination" /\ row.state = "completed"
    THEN {d \in row.claims : IsConfirmed(d)} ELSE {}
CandidateClaims(row) ==
    IF row.analyzer # "hallucination" THEN {}
    ELSE {d \in IF row.state # "completed" /\ row.candidates # {} THEN row.candidates
                ELSE row.claims \cup row.candidates :
            ~IsConfirmed(d) /\ d.verdict # "grounded" /\ ~(d.verdict = "evidence_missing" /\ d.detector)}

SeverityRank(severity) ==
    CASE severity = "critical" -> 0 [] severity = "high" -> 1 [] severity = "medium" -> 2
      [] severity = "needs_review" -> 3 [] severity = "low" -> 4 [] OTHER -> 9

(* _claim_severity: the worst of the confirmed. *)
Worst(claims) ==
    CHOOSE s \in {d.severity : d \in claims} :
        \A d \in claims : SeverityRank(s) <= SeverityRank(d.severity)

Item(row, kind, severity) == [call |-> row.call, kind |-> kind, severity |-> severity]
QueueItems(row) ==
    (IF row \in FailedEvals({row}) THEN {Item(row, "eval_fail", "high")} ELSE {})
    \cup (IF IsEval(row) /\ row.state \notin {"completed", "sampled_out"}
          THEN {Item(row, "eval_incomplete", "medium")} ELSE {})
    \cup (IF ConfirmedClaims(row) # {}
          THEN {Item(row, "hallucination", Worst(ConfirmedClaims(row)))} ELSE {})
    \cup (IF row.analyzer = "quality_card" /\ row.critical
          THEN {Item(row, "hallucination", "critical")} ELSE {})

(* _dedupe_queue: the gravest of a call's items, and none that is low. *)
MoreGrave(a, b) == SeverityRank(a.severity) < SeverityRank(b.severity)
Gravest(items) == CHOOSE a \in items : \A b \in items : ~MoreGrave(b, a)

ReviewQueue(rows) ==
    LET items == {item \in UNION {QueueItems(r) : r \in rows} : item.severity # "low"}
    IN {Gravest({b \in items : b.call = a.call}) : a \in items}

Quality ==
    LET rows == {r \in LatestResults(fleet.log) :
                    r.call \in Serving /\ r.revision = Revision(r.call).id}
        scanned == {c \in Serving : Revision(c).spoken}
        calls(R) == {r.call : r \in R}
        confirmed == calls({r \in rows : ConfirmedClaims(r) # {}})
        candidate == calls({r \in rows : CandidateClaims(r) # {}})
        missing == calls({r \in rows : r.analyzer = "hallucination"
                           /\ \E d \in r.claims \cup r.candidates : d.verdict = "evidence_missing" /\ d.detector})
    IN [eligible |-> Serving, completed |-> Judged(rows),
        passed |-> PassedEvals(rows), failed |-> FailedEvals(rows),
        baseline |-> {r \in Judged(rows) : r.baseline},
        confirmed |-> confirmed, candidate |-> candidate, missing |-> missing,
        unscannable |-> Serving \ scanned,
        not_settled |-> scanned \ (confirmed \cup missing \cup candidate),
        queue |-> ReviewQueue(rows)]

-----------------------------------------------------------------------------
(* cluster_hangups: calls that ended alike, by what was said last.          *)

(* _similar: near the centroid of the bucket, or a quarter of the tokens of  *)
(* its first text shared. *)
Close(bucket, text) ==
    LET first == Revision(Min(bucket)).text IN
    \/ <<{Revision(c).text : c \in bucket}, text>> \in Alike
    \/ /\ first \cap text # {}
       /\ 4 * Cardinality(first \cap text) >= Cardinality(first \cup text)

(* A call joins the first bucket it fits, or opens one. *)
Bucketed(buckets, c) ==
    LET fits == {k \in DOMAIN buckets : Close(buckets[k], Revision(c).text)}
    IN IF fits = {} THEN Append(buckets, {c})
       ELSE [buckets EXCEPT ![Min(fits)] = @ \cup {c}]

Silent(members) == {c \in members : Revision(c).text = {}}

(* _embed_subclusters: the calls in the order of their ids. *)
Buckets(members) ==
    LET after[n \in 0 .. FleetSize] ==
            IF n = 0 THEN <<>>
            ELSE IF n \in members \ Silent(members) THEN Bucketed(after[n - 1], n) ELSE after[n - 1]
    IN after[FleetSize]
Subclusters(members) ==
    IF Silent(members) = {} THEN Buckets(members) ELSE Append(Buckets(members), Silent(members))

EndingOf(c) == <<Revision(c).reason, Revision(c).party>>
EndedAs(e) == {c \in Serving : EndingOf(c) = e}
Clusters ==
    UNION {{[ending |-> e, index |-> k, calls |-> Subclusters(EndedAs(e))[k]] :
               k \in DOMAIN Subclusters(EndedAs(e))} : e \in {EndingOf(c) : c \in Serving}}

-----------------------------------------------------------------------------
(* The fleet as it changes.                                                *)

FleetInit ==
    fleet = [serving |-> [c \in FleetCalls |-> Unserved], log |-> <<>>]

(* A revision is promoted: the pointer names it. *)
Serve ==
    \E c \in FleetCalls, r \in Revisions : fleet' = [fleet EXCEPT !.serving[c] = r]

(* A row of some revision is appended to the log. *)
RowOf(row, key) ==
    [x \in DOMAIN row \cup DOMAIN key |-> IF x \in DOMAIN row THEN row[x] ELSE key[x]]
LastPlace(log) == IF DOMAIN log = {} THEN 0 ELSE Max(DOMAIN log)
Appended(log, row) ==
    [i \in DOMAIN log \cup {LastPlace(log) + 1} |-> IF i = LastPlace(log) + 1 THEN row ELSE log[i]]
Record ==
    /\ LastPlace(fleet.log) < MaxRows
    /\ \E c \in Serving, row \in Rows, r \in Revisions :
          fleet' = [fleet EXCEPT !.log = Appended(@, RowOf(row, [call |-> c, revision |-> r.id]))]

(* The call is deleted: its rows, those of its revisions among them, so that *)
(* no page shows it; what the pointer names then is read as nothing. *)
Erase ==
    \E c \in Serving :
        fleet' = [serving |-> [fleet.serving EXCEPT ![c] = Unserved],
                  log |-> [i \in {k \in DOMAIN fleet.log : fleet.log[k].call # c} |-> fleet.log[i]]]

FleetNext == Serve \/ Record \/ Erase
FleetSpec == FleetInit /\ [][FleetNext]_fleet

-----------------------------------------------------------------------------
(* The pages count nothing twice and hide nothing grave.  A verdict once    *)
(* reached is never hidden by a retry that did not finish nor by the order  *)
(* of the log, and of the attempts at one question exactly one is counted,  *)
(* whatever was written after it (latest_analysis_results).  Every failed   *)
(* verdict and confirmed claim about what is served puts its call in the    *)
(* review queue, once and no less gravely than it is (_dedupe_queue).  Each *)
(* call is in one cluster of endings, however near it is to several.  p50   *)
(* is never above p95, and a tool never succeeds and fails at once.         *)
FleetHonest ==
    /\ LET l == Latency(ActiveSamples) IN
       \A stage \in DOMAIN l : l[stage].n > 0 /\ l[stage].p50 <= l[stage].p95
    /\ \A i \in DOMAIN fleet.log : fleet.log[i].state = "completed" =>
            \E r \in LatestResults(fleet.log) : RowKey(r) = RowKey(fleet.log[i]) /\ r.state = "completed"
    /\ \A a, b \in LatestResults(fleet.log) : RowKey(a) = RowKey(b) => a = b
    /\ \A c \in Serving : LET t == ToolStats(Revision(c).tools) IN
            t.failures + t.successes <= t.count
    /\ LET q == Quality
           current == {r \in LatestResults(fleet.log) :
                          r.call \in Serving /\ r.revision = Revision(r.call).id}
       IN /\ \A r \in current : \A item \in QueueItems(r) : item.severity # "low" =>
                \E b \in q.queue : b.call = r.call /\ ~MoreGrave(item, b)
          /\ \A a, b \in q.queue : a.call = b.call => a = b
          /\ {a.call : a \in q.queue} \subseteq Serving
    /\ \A c \in Serving : Cardinality({k \in Clusters : c \in k.calls}) = 1
=============================================================================
