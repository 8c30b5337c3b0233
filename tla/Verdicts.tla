------------------------------ MODULE Verdicts ------------------------------
(***************************************************************************)
(* What the verdicts of a call are and who gave them: the tenant's runners  *)
(* and policy (analysis/runners.py and their endpoints), the pack           *)
(* (pack.py), rubrics put to a judge (tier2.py, judge.py, entailment.py),   *)
(* predicates (predicates.py), the quality card and the exported case       *)
(* (quality_card.py, eval_case.py).                                         *)
(*                                                                         *)
(* A call is its evidence: what a check can find there.  A judge's answer   *)
(* is any verdict.  What is spent is the matter of Evaluation, how claims    *)
(* are found that of CallAnalysis.  The entailment of claims is left out:   *)
(* tier 1 completes its row, and no claim of the detector asks for it.      *)
(***************************************************************************)
EXTENDS Naturals, FiniteSets, Sequences

CONSTANTS
    RunnerSlots,    \* "cheap", "expensive"
    Endpoints,      \* what a runner may be: where, which model, which key
    Environment,    \* the judge of the settings, or None
    CallEvidence,   \* calls: [spoken, grounding, tools, transfer, double, claims, found]
    Specs,          \* predicates: [combinator, clauses], clauses sets of checks
    PackNames,      \* judges a policy may name
    Answers,        \* what a judge may answer: pass, fail, maybe, ...
    None

(* A row is known as a detector's by the name of its model: no runner and no *)
(* judge of the settings goes by that name. *)
ASSUME VerdictsAssumption ==
    /\ {"cheap", "expensive"} \subseteq RunnerSlots
    /\ "detector" \notin Endpoints \cup {Environment}

VARIABLES
    runners,        \* runners[s]: the endpoint in slot s, or None
    policy,         \* [enabled, budget, pack]
    case,           \* the call
    judging,        \* the evaluation under way: the judge it resolved, or None
    rows,           \* what the last step wrote: [analyzer, verdict, model, asked, shadow]
    consented       \* history: judges that could be asked since it began

verdictVars == <<runners, policy, case, judging, rows, consented>>

-----------------------------------------------------------------------------
(* Runners and policy.                                                     *)

Catalog == {"accuracy", "tool_use", "conciseness", "safety", "task_completion", "handoff",
            "relevancy", "coherence"}
DefaultPack == {"accuracy", "tool_use", "conciseness", "safety"}

(* normalize_pack: none of them known to the catalog is an error. *)
Normalized(names) == IF names = {} THEN DefaultPack ELSE names

Present == {s \in RunnerSlots : runners[s] # None}

(* validate_policy: no evals without a cap and a runner. *)
ValidPolicy(p) ==
    /\ p.pack \subseteq Catalog
    /\ p.enabled => p.budget > 0 /\ Present # {}

EvalsOn == policy.enabled /\ policy.budget > 0 /\ Present # {}

(* resolve_judge: the slot, else the other, else that of the settings. *)
Resolved(slot) ==
    IF ~EvalsOn THEN Environment
    ELSE IF runners[slot] # None THEN runners[slot]
    ELSE runners[CHOOSE s \in Present : TRUE]

(* expensive_judge_if_distinct. *)
Second ==
    IF EvalsOn /\ runners["expensive"] # None /\ runners["expensive"] # runners["cheap"]
    THEN Resolved("expensive") ELSE None

-----------------------------------------------------------------------------
(* The pack.                                                               *)

ToolKinds == {"phantom_tool_success", "phantom_tool_failure", "args_mismatch"}

(* Of a detector, and contradicted. *)
Confirmed(d) == d.verdict = "contradicted" /\ d.model = "detector"
ConfirmedKinds(e) == {d.kind : d \in {f \in e.claims : Confirmed(f)}}

(* _precheck: what needs no judge. *)
Precheck(name, e) ==
    CASE name = "handoff" -> IF e.transfer THEN None ELSE "not_applicable"
      [] name = "task_completion" ->
            IF e.grounding = "instructions" THEN None ELSE "evidence_missing"
      [] name = "accuracy" ->
            IF ~e.spoken THEN "evidence_missing"
            ELSE IF ConfirmedKinds(e) # {} THEN "fail"
            ELSE IF e.grounding = "none" /\ ~e.tools THEN "evidence_missing" ELSE None
      [] name = "tool_use" ->
            IF ConfirmedKinds(e) \cap ToolKinds # {} \/ e.double THEN "fail" ELSE None
      [] OTHER -> IF e.spoken THEN None ELSE "evidence_missing"

Put(name, e, judge, answer) ==
    LET pre == Precheck(name, e) IN
    IF pre # None THEN [verdict |-> pre, model |-> "detector", asked |-> <<>>]
    ELSE IF judge = None THEN [verdict |-> "not_judged", model |-> None, asked |-> <<>>]
    ELSE [verdict |-> answer, model |-> judge, asked |-> <<judge>>]

(* A fail or a maybe of some judges is put to the second judge as well. *)
Cascades(name, first) ==
    /\ name \in {"accuracy", "safety", "task_completion"}
    /\ first.verdict \in {"maybe", "fail"}

(* _pack_shadow: detectors are live; neither drain nor endpoint passes a    *)
(* calibration of the pack, so every model's answer is a shadow. *)
PackShadow(row) == row.model # "detector"

(* The second judge is resolved when the pack is run.  It is not compared    *)
(* with the first: of a tenant with the expensive slot alone both are one   *)
(* endpoint, which is asked twice. *)
PackRow(name, e, answer, second) ==
    LET first == Put(name, e, judging.judge, answer)
        again == Put(name, e, Second, second)
        row == IF judging.judge # None /\ Second # None /\ Cascades(name, first)
               THEN [again EXCEPT !.asked = first.asked \o @] ELSE first
    IN [analyzer |-> name, verdict |-> row.verdict, model |-> row.model,
        asked |-> row.asked, shadow |-> PackShadow(row)]

-----------------------------------------------------------------------------
(* A rubric put to the judge.                                              *)

(* _judge_payload: without a judge it is not judged; without a calibration   *)
(* of this version it is a shadow. *)
RubricRow(answer, calibrated) ==
    [analyzer |-> "rubric", model |-> judging.judge,
     verdict |-> IF judging.judge = None THEN "not_judged" ELSE answer,
     asked |-> IF judging.judge = None THEN <<>> ELSE <<judging.judge>>,
     shadow |-> ~calibrated \/ judging.judge = None]

-----------------------------------------------------------------------------
(* Predicates.  A check finds what it looks for, or not, or the call has     *)
(* nothing to look in. *)

Searchable(check, e) ==
    CASE check.in \in {"agent", "opening"} -> e.spoken
      [] check.in = "user" -> e.heard
      [] check.in = "tool" -> TRUE
      [] check.in = "hangup" -> e.ended
Finds(check, e) == check.what \in e.found

Evident(clause, e) == \A check \in clause : Searchable(check, e)
Holds(clause, e) == \A check \in clause : Finds(check, e)

(* Mutant: a clause that cannot be decided is one that does not hold. *)
PredicateUndecided(spec, e) ==
    LET holds == {c \in spec.clauses : Evident(c, e) /\ Holds(c, e)} IN
    IF CASE spec.combinator = "all" -> holds = spec.clauses
         [] spec.combinator = "any" -> holds # {}
         [] spec.combinator = "none" -> holds = {}
    THEN "pass" ELSE "fail"

(* evaluate_spec: one clause that cannot be decided leaves all open. *)
PredicateOf(spec, e) ==
    LET holds == {c \in spec.clauses : Holds(c, e)} IN
    IF \E c \in spec.clauses : ~Evident(c, e) THEN "evidence_missing"
    ELSE IF CASE spec.combinator = "all" -> holds = spec.clauses
              [] spec.combinator = "any" -> holds # {}
              [] spec.combinator = "none" -> holds = {}
    THEN "pass" ELSE "fail"

PredicateRow(spec, e) ==
    [analyzer |-> "predicate", verdict |-> PredicateOf(spec, e), model |-> "predicate",
     asked |-> <<>>, shadow |-> FALSE]

-----------------------------------------------------------------------------
(* The quality card and the exported case.                                  *)

Pageable == {"critical", "high"}

Card(e) ==
    [critical |-> \E d \in e.claims : Confirmed(d) /\ d.severity \in Pageable,
     review |-> \E d \in e.claims : Confirmed(d) \/ d.verdict \in {"needs_review", "evidence_missing"}]

(* build_eval_case: what must not be said again, the pageable first. *)
Forbidden(e) ==
    LET confirmed == {d \in e.claims : Confirmed(d)}
        pageable == {d \in confirmed : d.severity \in Pageable}
    IN IF pageable = {} THEN confirmed ELSE pageable

-----------------------------------------------------------------------------
(* What the tenant and the settings allow to be asked. *)
Allowed ==
    {Environment} \cup IF policy.enabled /\ policy.budget > 0
                       THEN {runners[s] : s \in RunnerSlots} ELSE {}

VerdictsInit ==
    /\ runners = [s \in RunnerSlots |-> None]
    /\ policy = [enabled |-> FALSE, budget |-> 0, pack |-> DefaultPack]
    /\ case \in CallEvidence
    /\ judging = None /\ rows = {} /\ consented = {}

Settle == consented' = IF judging = None THEN consented ELSE consented \cup Allowed'

(* POST: a runner takes the place of the one in its slot. *)
PutRunner(s, r) ==
    /\ runners' = [runners EXCEPT ![s] = r]
    /\ rows' = {}
    /\ UNCHANGED <<policy, case, judging>>
    /\ Settle

(* DELETE: the policy stays, and evals are off when no runner is left. *)
DeleteRunner(s) ==
    /\ runners[s] # None
    /\ runners' = [runners EXCEPT ![s] = None]
    /\ rows' = {}
    /\ UNCHANGED <<policy, case, judging>>
    /\ Settle

(* PUT: what the body does not name is kept. *)
SetPolicy ==
    \E p \in [enabled : BOOLEAN, budget : {0, 1}, pack : SUBSET PackNames] :
        /\ ValidPolicy(p)
        /\ policy' = [p EXCEPT !.pack = Normalized(@)]
        /\ rows' = {}
        /\ UNCHANGED <<runners, case, judging>>
        /\ Settle

(* The worker's queued evaluation, or POST analyze, resolves its judge... *)
BeginEvaluation ==
    /\ judging = None
    /\ judging' = [judge |-> Resolved("cheap")]
    /\ consented' = Allowed
    /\ rows' = {}
    /\ UNCHANGED <<runners, policy, case>>

(* ... and writes a row of each judge of the pack, of a rubric and of a      *)
(* predicate, by whatever the policy is then. *)
Evaluate ==
    /\ judging # None
    /\ \E answer, second \in Answers, calibrated \in BOOLEAN, spec \in Specs :
          rows' = {PackRow(name, case, answer, second) : name \in policy.pack}
                  \cup {RubricRow(answer, calibrated), PredicateRow(spec, case)}
    /\ judging' = None
    /\ UNCHANGED <<runners, policy, case, consented>>

VerdictsNext ==
    \/ \E s \in RunnerSlots : DeleteRunner(s) \/ \E r \in Endpoints : PutRunner(s, r)
    \/ SetPolicy \/ BeginEvaluation \/ Evaluate

VerdictsSpec == VerdictsInit /\ [][VerdictsNext]_verdictVars

-----------------------------------------------------------------------------
Counts(row) == ~row.shadow /\ row.verdict \in {"pass", "fail"}
Refuted(e) == ConfirmedKinds(e) # {} \/ e.double

(* "Missing Tier-2 output is not a pass" (docs/architecture.md), and more:   *)
(* a row counts as passed only for what a predicate found in a call that has *)
(* all its evidence, or a calibrated judge said of a rubric, and as failed   *)
(* moreover for what a detector refuted.  Nobody is asked but the judge of   *)
(* the settings and runners the tenant had, with a cap, since the evaluation *)
(* began; a question the evidence settles is put to nobody.  The exported    *)
(* case of a critical card forbids something, and only what was confirmed.   *)
VerdictsEarned ==
    /\ \A row \in rows : Counts(row) =>
        \/ row.analyzer = "rubric" /\ row.asked # <<>>
        \/ /\ row.analyzer = "predicate"
           /\ \E spec \in Specs : /\ \A c \in spec.clauses : Evident(c, case)
                                  /\ row.verdict = PredicateOf(spec, case)
        \/ row.verdict = "fail" /\ row.asked = <<>> /\ Refuted(case)
    /\ \A row \in rows :
        /\ \A i \in DOMAIN row.asked : row.asked[i] \in consented
        /\ row.model = "detector" => row.asked = <<>>
    /\ Card(case).critical => Forbidden(case) # {} /\ Card(case).review
    /\ \A d \in Forbidden(case) : Confirmed(d)
=============================================================================
