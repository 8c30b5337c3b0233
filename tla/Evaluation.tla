----------------------------- MODULE Evaluation -----------------------------
(***************************************************************************)
(* Paid evaluation of the revisions of one tenant: the queue a drainer      *)
(* fills when it promotes (drain.py, _enqueue_tier2) and empties at its next *)
(* drain (_run_queued_tier2), and POST /v1/calls/{id}/analyze               *)
(* (_run_manual_analysis).  Both ask the same judge and share the ledger    *)
(* org_spend, which each reads before it asks and adds to after the answer. *)
(*                                                                         *)
(* A judge is configured; without one nothing is asked and nothing spent.   *)
(* One question costs one unit, which the judge reports.  The hallucination *)
(* entailment is left out: tier 1 completes its row with the promotion, so   *)
(* that neither path schedules it.  Predicates, quality card and the local  *)
(* encoder ask nobody.                                                     *)
(***************************************************************************)
EXTENDS Naturals, FiniteSets, Sequences

CONSTANTS
    Drainers,       \* processes that drain
    Requests,       \* analyses asked for by hand that can be under way at once
    Revisions,
    Rubrics,        \* how many English rubrics the tenant has, in their order
    Triggered,      \* revisions with a trigger, or in the baseline sample
    PackCalls,      \* questions of the pack that no precheck answers
    Budget,         \* monthly_budget_usd
    MaxJobs,        \* bound of the model: jobs queued, requests made
    MaxFaults       \* bound of the model: failed questions, crashes

ASSUME EvaluationAssumption ==
    /\ IsFiniteSet(Drainers) /\ IsFiniteSet(Requests) /\ Drainers \cap Requests = {}
    /\ Rubrics \in Nat
    /\ Triggered \subseteq Revisions
    /\ PackCalls \in Nat /\ Budget \in Nat
    /\ MaxJobs \in Nat /\ MaxFaults \in Nat

VARIABLES
    ledger,         \* org_spend of the month
    served,         \* served[r][i]: what the console shows of rubric i on r
    queue,          \* queue[d]: state.tier2_queue of process d
    run,            \* run[a]: what drainer or request a is at
    \* history
    paid,           \* questions asked of the judge
    dropped,        \* revisions whose queued job was lost
    jobs, faults

vars == <<ledger, served, queue, run, paid, dropped, jobs, faults>>

Actors == Drainers \cup Requests
Slots == 1..Rubrics
States == {"none", "sampled_out", "budget_blocked", "failed", "completed"}
Idle == [at |-> "idle"]
Job == [at : {"pack", "rubrics", "asking"}, rev : Revisions, next : 1..Rubrics + 1,
        spend : Nat, judged : BOOLEAN, out : [Slots -> States \cup {"pending"}]]

TypeOK ==
    /\ ledger \in Nat /\ paid \in Nat
    /\ served \in [Revisions -> [Slots -> States]]
    /\ queue \in [Drainers -> Seq(Revisions)]
    /\ run \in [Actors -> Job \cup {Idle}]
    /\ dropped \subseteq Revisions
    /\ jobs \in 0..MaxJobs /\ faults \in 0..MaxFaults

Init ==
    /\ ledger = 0 /\ paid = 0
    /\ served = [r \in Revisions |-> [i \in Slots |-> "none"]]
    /\ queue = [d \in Drainers |-> <<>>]
    /\ run = [a \in Actors |-> Idle]
    /\ dropped = {} /\ jobs = 0 /\ faults = 0

Fault == faults < MaxFaults /\ faults' = faults + 1

-----------------------------------------------------------------------------
(* Decisions.                                                              *)

(* decide_tier2: the budget first, then a trigger or the sample. *)
Decide(r, spend, manual) ==
    IF spend >= Budget THEN "budget_blocked"
    ELSE IF manual \/ r \in Triggered THEN "pending" ELSE "sampled_out"

(* _STATE_RANK of analysis/rollups.py. *)
Rank(state) ==
    CASE state = "none" -> 0 [] state = "sampled_out" -> 1
      [] state = "pending" -> 2 [] state = "budget_blocked" -> 3
      [] state = "failed" -> 5 [] state = "completed" -> 6

(* Mutant: the row inserted last is served. *)
LatestInserted(old, new) == new

(* latest_analysis_results: the highest state, of equals the later row. *)
Latest(old, new) == IF Rank(new) >= Rank(old) THEN new ELSE old

-----------------------------------------------------------------------------
(* The queue of a process.                                                 *)

(* Its promotion of r succeeded. *)
Promoted(d, r) ==
    /\ jobs < MaxJobs /\ jobs' = jobs + 1
    /\ queue' = [queue EXCEPT ![d] = Append(@, r)]
    /\ UNCHANGED <<ledger, served, run, paid, dropped, faults>>

(* _run_queued_tier2 reads the ledger once and decides on every rubric.     *)
Take(d) ==
    /\ run[d] = Idle /\ queue[d] # <<>>
    /\ LET r == Head(queue[d]) IN
       run' = [run EXCEPT ![d] =
         [at |-> "rubrics", rev |-> r, next |-> 1, spend |-> ledger, judged |-> TRUE,
          out |-> [i \in Slots |-> Decide(r, ledger, FALSE)]]]
    /\ queue' = [queue EXCEPT ![d] = Tail(@)]
    /\ UNCHANGED <<ledger, served, paid, dropped, jobs, faults>>

(* POST analyze: the pack is judged if the budget is not spent yet. *)
Analyze(q, r) ==
    /\ run[q] = Idle /\ jobs < MaxJobs /\ jobs' = jobs + 1
    /\ run' = [run EXCEPT ![q] =
         [at |-> "pack", rev |-> r, next |-> 1, spend |-> ledger, judged |-> ledger < Budget,
          out |-> [i \in Slots |-> "pending"]]]
    /\ UNCHANGED <<ledger, served, queue, paid, dropped, faults>>

-----------------------------------------------------------------------------
(* Rubrics, one after another.                                             *)

(* Rubric j.next of run j is settled as v, after which j goes by total t. *)
Settled(j, v, t) ==
    [at |-> "rubrics", rev |-> j.rev, next |-> j.next + 1, spend |-> t, judged |-> j.judged,
     out |-> [j.out EXCEPT ![j.next] = v]]

(* Mutant: every rubric is decided on what the drain read at its start. *)
SpendOnce(a) == run[a].spend

(* The worker goes by the total its own last answer returned; a request     *)
(* reads the ledger again for each rubric. *)
SpendSeen(a) == IF a \in Drainers THEN run[a].spend ELSE ledger

(* run_tier2 decides anew.  A rubric not to be judged keeps its decision. *)
Ask(a) ==
    /\ run[a].at = "rubrics" /\ run[a].next <= Rubrics
    /\ LET i == run[a].next
           r == run[a].rev
           verdict == IF run[a].out[i] = "pending"
                      THEN Decide(r, SpendSeen(a), a \in Requests) ELSE run[a].out[i] IN
       IF verdict = "pending"
       THEN /\ paid' = paid + 1
            /\ run' = [run EXCEPT ![a].at = "asking"]
       ELSE /\ paid' = paid
            /\ run' = [run EXCEPT ![a] = Settled(@, verdict, @.spend)]
    /\ UNCHANGED <<ledger, served, queue, dropped, jobs, faults>>

(* The judge answers; the worker's local spend is the total after its own   *)
(* addition.                                                               *)
Answer(a) ==
    /\ run[a].at = "asking"
    /\ ledger' = ledger + 1
    /\ run' = [run EXCEPT ![a] = Settled(@, "completed", ledger + 1)]
    /\ UNCHANGED <<served, queue, paid, dropped, jobs, faults>>

(* run_tier2 turns an exception into a failed row; nothing is metered. *)
AnswerFails(a) ==
    /\ run[a].at = "asking" /\ Fault
    /\ run' = [run EXCEPT ![a] = Settled(@, "failed", @.spend)]
    /\ UNCHANGED <<ledger, served, queue, paid, dropped, jobs>>

-----------------------------------------------------------------------------
(* The pack, and the write.                                                *)

(* Mutant: only what was judged is written. *)
WriteJudged(a) == served' = [served EXCEPT ![run[a].rev] =
                    [i \in Slots |-> IF run[a].out[i] = "completed" THEN "completed" ELSE @[i]]]

Write(a) == served' = [served EXCEPT ![run[a].rev] =
                         [i \in Slots |-> Latest(@[i], run[a].out[i])]]

(* The worker ends with the pack.  It asks the judge whatever was spent     *)
(* (drain.py:610) and meters nothing; all rows are written after it. *)
PackAndWrite(d) ==
    /\ d \in Drainers /\ run[d].at = "rubrics" /\ run[d].next > Rubrics
    /\ paid' = paid + PackCalls
    /\ Write(d)
    /\ run' = [run EXCEPT ![d] = Idle]
    /\ UNCHANGED <<ledger, queue, dropped, jobs, faults>>

(* A request begins with the pack, and meters it when all of it is answered. *)
MeterPack(q) ==
    /\ q \in Requests /\ run[q].at = "pack"
    /\ LET n == IF run[q].judged THEN PackCalls ELSE 0 IN
       paid' = paid + n /\ ledger' = ledger + n
    /\ run' = [run EXCEPT ![q].at = "rubrics"]
    /\ UNCHANGED <<served, queue, dropped, jobs, faults>>

(* The rows of a request. *)
WriteManual(q) ==
    /\ q \in Requests /\ run[q].at = "rubrics" /\ run[q].next > Rubrics
    /\ Write(q)
    /\ run' = [run EXCEPT ![q] = Idle]
    /\ UNCHANGED <<ledger, queue, paid, dropped, jobs, faults>>

(* No judge of the pack is in a try: one that fails drops the whole job, and *)
(* the rubrics judged before it with it (drain_tier2 goes on, the request   *)
(* answers 500). *)
PackFails(a) ==
    /\ \/ a \in Drainers /\ run[a].at = "rubrics" /\ run[a].next > Rubrics /\ PackCalls > 0
       \/ a \in Requests /\ run[a].at = "pack" /\ run[a].judged /\ PackCalls > 0
    /\ Fault
    /\ paid' = paid + 1
    /\ dropped' = IF a \in Drainers THEN dropped \cup {run[a].rev} ELSE dropped
    /\ run' = [run EXCEPT ![a] = Idle]
    /\ UNCHANGED <<ledger, served, queue, jobs>>

(* The process dies, with its queue. *)
Crash(d) ==
    /\ (run[d] # Idle \/ queue[d] # <<>>) /\ Fault
    /\ dropped' = dropped \cup {queue[d][k] : k \in DOMAIN queue[d]}
                          \cup IF run[d] = Idle THEN {} ELSE {run[d].rev}
    /\ queue' = [queue EXCEPT ![d] = <<>>]
    /\ run' = [run EXCEPT ![d] = Idle]
    /\ UNCHANGED <<ledger, served, paid, jobs>>

-----------------------------------------------------------------------------

Judging(a) == Ask(a) \/ Answer(a) \/ AnswerFails(a) \/ PackFails(a)

Next ==
    \/ \E d \in Drainers : Take(d) \/ Judging(d) \/ PackAndWrite(d) \/ Crash(d)
    \/ \E q \in Requests : Judging(q) \/ MeterPack(q) \/ WriteManual(q)
    \/ \E r \in Revisions :
         (\E d \in Drainers : Promoted(d, r)) \/ (\E q \in Requests : Analyze(q, r))

Spec == Init /\ [][Next]_vars

(* drain_once comes to drain_tier2 again and again; a judge answers or its  *)
(* client times out. *)
Fairness == \A d \in Drainers :
    WF_vars(Take(d) \/ Ask(d) \/ Answer(d) \/ AnswerFails(d) \/ PackAndWrite(d) \/ PackFails(d))
FairSpec == Spec /\ Fairness

-----------------------------------------------------------------------------
(* Properties.                                                             *)

Most(m, n) == IF m > n THEN m ELSE n

(* The ledger is read before it is spent, by every process for itself: it   *)
(* passes the budget by no more than the one question of each drainer under *)
(* way and the pack, or one question, of each request.                     *)
OvershootBounded ==
    IF Budget = 0 THEN ledger = 0
    ELSE ledger <= Budget - 1 + Cardinality(Drainers)
                     + Cardinality(Requests) * Most(PackCalls, 1)

(* A verdict that was served is not hidden by a later run that the budget,  *)
(* the sample or a failure kept from judging ("Missing Tier-2 output is not *)
(* a pass", docs/architecture.md): evaluating again only adds.              *)
VerdictsStay ==
    [][\A r \in Revisions, i \in Slots :
         served[r][i] = "completed" => served'[r][i] = "completed"]_vars

(* A revision put in a queue is evaluated, whichever process promoted it,   *)
(* unless its process died or a judge of the pack failed. *)
Evaluated ==
    \A r \in Revisions :
        (\E d \in Drainers : \E k \in DOMAIN queue[d] : queue[d][k] = r)
            ~> (r \in dropped \/ \A i \in Slots : served[r][i] # "none")

(* "Hard cap. 0 means no paid spend." (docs/reference/configuration.md:81). *)
HardCap == Budget = 0 => paid = 0
=============================================================================
