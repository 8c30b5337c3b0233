-------------------------- MODULE EvaluationProofs --------------------------
(***************************************************************************)
(* Proofs about Evaluation, Verdicts and CallAnalysis: for any processes,    *)
(* requests, rubrics and budget, a served verdict stays served and the       *)
(* ledger passes the budget by no more than what was under way when it was   *)
(* reached; for any runners, calls, predicates and answers, every row is     *)
(* earned; for any call, however it grows, what the detector found stays.    *)
(*                                                                         *)
(* The ledger alone is not inductive: a drainer goes by a total it read     *)
(* long ago, so that it may ask although the budget is spent.  What counts  *)
(* is who still may: a drainer that asks or goes by a total below the       *)
(* budget, a request that asks or is at a pack it was granted.  Each of     *)
(* them adds to the ledger once and is then refused.                        *)
(***************************************************************************)
EXTENDS Evaluation, Verdicts, CallAnalysis, FiniteSetTheorems, TLAPS

(* What a run has decided before its next rubric is no longer pending. *)
InOrder(j) ==
    j # Idle => /\ j.at = "asking" => j.next <= Rubrics
                /\ \A i \in Slots : i < j.next => j.out[i] \in States
Decided == \A a \in Actors : InOrder(run[a])

(* Those whose addition is still to come. *)
Below(j) == j.at = "asking" \/ (j.at = "rubrics" /\ j.spend < Budget)
Granted(j) == j.at = "asking" \/ (j.at = "pack" /\ j.judged)
DrainersBelow == {d \in Drainers : Below(run[d])}
RequestsGranted == {q \in Requests : Granted(run[q])}

Pack == Most(PackCalls, 1)

(* With total m and these additions to come, the bound is kept. *)
Fits(m, D, Q) ==
    m >= Budget =>
        m + Cardinality(D) + Cardinality(Q) * Pack
            <= Budget - 1 + Cardinality(Drainers) + Cardinality(Requests) * Pack

Accounted ==
    IF Budget = 0 THEN ledger = 0 /\ DrainersBelow = {} /\ RequestsGranted = {}
    ELSE Fits(ledger, DrainersBelow, RequestsGranted)

EvaluationInv == TypeOK /\ Decided /\ Accounted

-----------------------------------------------------------------------------
(* Counting.                                                               *)

LEMMA PackTyped == ASSUME EvaluationAssumption PROVE Pack \in Nat /\ Pack >= 1 /\ Pack >= PackCalls
  BY DEF Pack, Most, EvaluationAssumption

LEMMA Times == ASSUME NEW x \in Nat, NEW y \in Nat, NEW k \in Nat, x <= y PROVE x * k <= y * k
<1>1. PICK z \in Nat : y = x + z
  <2>1. y - x \in Nat /\ y = x + (y - x)
    OBVIOUS
  <2> QED BY <2>1
<1>2. y * k = x * k + z * k /\ z * k \in Nat
  BY <1>1
<1> QED BY <1>2

LEMMA FewerFit ==
    ASSUME EvaluationAssumption, NEW m \in Nat, NEW D \in SUBSET Drainers, NEW Q \in SUBSET Requests,
           NEW D2 \in SUBSET D, NEW Q2 \in SUBSET Q, Fits(m, D, Q)
    PROVE  Fits(m, D2, Q2)
<1>1. IsFiniteSet(Drainers) /\ IsFiniteSet(Requests)
  BY DEF EvaluationAssumption
<1>2. IsFiniteSet(D) /\ IsFiniteSet(Q)
  BY <1>1, FS_Subset
<1>3. /\ Cardinality(D2) \in Nat /\ Cardinality(D) \in Nat /\ Cardinality(D2) <= Cardinality(D)
      /\ Cardinality(Q2) \in Nat /\ Cardinality(Q) \in Nat /\ Cardinality(Q2) <= Cardinality(Q)
      /\ Cardinality(Drainers) \in Nat /\ Cardinality(Requests) \in Nat
  BY <1>1, <1>2, FS_Subset, FS_CardinalityType
<1>4. /\ Cardinality(Q2) * Pack <= Cardinality(Q) * Pack
      /\ Cardinality(Q2) * Pack \in Nat /\ Cardinality(Q) * Pack \in Nat
      /\ Cardinality(Requests) * Pack \in Nat
  BY <1>3, Times, PackTyped
<1> DEFINE u == Cardinality(Q2) * Pack  v == Cardinality(Q) * Pack  w == Cardinality(Requests) * Pack
<1> HIDE DEF u, v, w
<1>5. u \in Nat /\ v \in Nat /\ w \in Nat /\ u <= v
  BY <1>4 DEF u, v, w
<1>6. m >= Budget => m + Cardinality(D) + v <= Budget - 1 + Cardinality(Drainers) + w
  BY DEF Fits, v, w
<1>7. m >= Budget => m + Cardinality(D2) + u <= Budget - 1 + Cardinality(Drainers) + w
  BY <1>3, <1>5, <1>6 DEF EvaluationAssumption
<1> QED BY <1>7 DEF Fits, u, w

LEMMA DrainerSpends ==
    ASSUME EvaluationAssumption, Budget # 0, NEW m \in Nat,
           NEW D \in SUBSET Drainers, NEW Q \in SUBSET Requests, NEW d \in D, Fits(m, D, Q)
    PROVE  Fits(m + 1, D \ {d}, Q)
<1>1. IsFiniteSet(Drainers) /\ IsFiniteSet(Requests)
  BY DEF EvaluationAssumption
<1>2. IsFiniteSet(D) /\ IsFiniteSet(Q)
  BY <1>1, FS_Subset
<1>3. /\ Cardinality(D \ {d}) = Cardinality(D) - 1
      /\ Cardinality(D \ {d}) \in Nat /\ Cardinality(D) \in Nat
      /\ Cardinality(D) <= Cardinality(Drainers) /\ Cardinality(Drainers) \in Nat
      /\ Cardinality(Q) \in Nat /\ Cardinality(Q) <= Cardinality(Requests)
      /\ Cardinality(Requests) \in Nat
  BY <1>1, <1>2, FS_Subset, FS_CardinalityType, FS_RemoveElement
<1> DEFINE v == Cardinality(Q) * Pack  w == Cardinality(Requests) * Pack
<1>4. v \in Nat /\ w \in Nat /\ v <= w
  BY <1>3, Times, PackTyped
<1> HIDE DEF v, w
<1>5. m >= Budget => m + Cardinality(D) + v <= Budget - 1 + Cardinality(Drainers) + w
  BY DEF Fits, v, w
<1>6. m + 1 >= Budget =>
          m + 1 + Cardinality(D \ {d}) + v <= Budget - 1 + Cardinality(Drainers) + w
  BY <1>3, <1>4, <1>5 DEF EvaluationAssumption
<1> QED BY <1>6 DEF Fits, v, w

LEMMA RequestSpends ==
    ASSUME EvaluationAssumption, Budget # 0, NEW m \in Nat, NEW n \in Nat, n <= Pack,
           NEW D \in SUBSET Drainers, NEW Q \in SUBSET Requests, NEW q \in Q, Fits(m, D, Q)
    PROVE  Fits(m + n, D, Q \ {q})
<1>1. IsFiniteSet(Drainers) /\ IsFiniteSet(Requests)
  BY DEF EvaluationAssumption
<1>2. IsFiniteSet(D) /\ IsFiniteSet(Q)
  BY <1>1, FS_Subset
<1>3. /\ Cardinality(Q \ {q}) = Cardinality(Q) - 1
      /\ Cardinality(Q \ {q}) \in Nat /\ Cardinality(Q) \in Nat
      /\ Cardinality(D) <= Cardinality(Drainers) /\ Cardinality(Drainers) \in Nat
      /\ Cardinality(D) \in Nat /\ Cardinality(Q) <= Cardinality(Requests)
      /\ Cardinality(Requests) \in Nat
  BY <1>1, <1>2, FS_Subset, FS_CardinalityType, FS_RemoveElement
<1> DEFINE u == Cardinality(Q \ {q}) * Pack
           v == Cardinality(Q) * Pack
           w == Cardinality(Requests) * Pack
<1>4. u \in Nat /\ v \in Nat /\ w \in Nat /\ v <= w /\ v = u + Pack
  <2>1. u \in Nat /\ v \in Nat /\ w \in Nat /\ v <= w
    BY <1>3, Times, PackTyped
  <2>2. (Cardinality(Q) - 1) * Pack = Cardinality(Q) * Pack - Pack
    BY <1>3, PackTyped
  <2> QED BY <1>3, <2>1, <2>2, PackTyped
<1> HIDE DEF u, v, w
<1>5. m >= Budget => m + Cardinality(D) + v <= Budget - 1 + Cardinality(Drainers) + w
  BY DEF Fits, v, w
<1>6. m + n >= Budget =>
          m + n + Cardinality(D) + u <= Budget - 1 + Cardinality(Drainers) + w
  BY <1>3, <1>4, <1>5, PackTyped DEF EvaluationAssumption
<1> QED BY <1>6 DEF Fits, u, w

-----------------------------------------------------------------------------
(* One run changes.                                                        *)

LEMMA JobFields ==
    ASSUME NEW j \in Job
    PROVE  /\ j.at \in {"pack", "rubrics", "asking"} /\ j.rev \in Revisions
           /\ j.next \in 1..Rubrics + 1 /\ j.spend \in Nat /\ j.judged \in BOOLEAN
           /\ j.out \in [Slots -> States \cup {"pending"}]
           /\ j # Idle
<1>1. Idle.at = "idle"
  BY DEF Idle
<1> QED BY <1>1 DEF Job

LEMMA Working ==
    ASSUME TypeOK, NEW a \in Actors, run[a].at \in {"pack", "rubrics", "asking"}
    PROVE  run[a] \in Job /\ run[a] # Idle
<1>1. run[a] \in Job \cup {Idle}
  BY DEF TypeOK
<1>2. Idle.at = "idle"
  BY DEF Idle
<1> QED BY <1>1, <1>2

LEMMA Moved ==
    ASSUME TypeOK, Decided, NEW a \in Actors, NEW j \in Job \cup {Idle},
           InOrder(j),
           run' = [run EXCEPT ![a] = j]
    PROVE  /\ run' \in [Actors -> Job \cup {Idle}]
           /\ Decided'
           /\ DrainersBelow' \subseteq DrainersBelow \cup {a}
           /\ (Below(j) /\ a \in Drainers => Below(run[a])) => DrainersBelow' \subseteq DrainersBelow
           /\ ~Below(j) => DrainersBelow' \subseteq DrainersBelow \ {a}
           /\ RequestsGranted' \subseteq RequestsGranted \cup {a}
           /\ (Granted(j) /\ a \in Requests => Granted(run[a])) => RequestsGranted' \subseteq RequestsGranted
           /\ ~Granted(j) => RequestsGranted' \subseteq RequestsGranted \ {a}
<1>1. run \in [Actors -> Job \cup {Idle}]
  BY DEF TypeOK
<1>2. run'[a] = j /\ \A b \in Actors \ {a} : run'[b] = run[b]
  BY <1>1
<1>3. Drainers \subseteq Actors /\ Requests \subseteq Actors
  BY DEF Actors
<1>4. run' \in [Actors -> Job \cup {Idle}]
  BY <1>1
<1>5. Decided'
  BY <1>2 DEF Decided, EvaluationInv, InOrder
<1>6. DrainersBelow' = {d \in Drainers : Below(run'[d])}
  BY DEF DrainersBelow, Below
<1>7. RequestsGranted' = {q \in Requests : Granted(run'[q])}
  BY DEF RequestsGranted, Granted
<1>8. \A d \in Drainers : d # a => Below(run'[d]) = Below(run[d])
  BY <1>2, <1>3
<1>9. \A q \in Requests : q # a => Granted(run'[q]) = Granted(run[q])
  BY <1>2, <1>3
<1>10. Below(run'[a]) = Below(j) /\ Granted(run'[a]) = Granted(j)
  BY <1>2
<1> QED BY <1>4, <1>5, <1>6, <1>7, <1>8, <1>9, <1>10 DEF DrainersBelow, RequestsGranted

LEMMA AccountsKept ==
    ASSUME EvaluationAssumption, TypeOK, Accounted, ledger' = ledger,
           \/ ledger < Budget
           \/ DrainersBelow' \subseteq DrainersBelow /\ RequestsGranted' \subseteq RequestsGranted
    PROVE  Accounted'
<1>1. ledger \in Nat /\ Budget \in Nat
  BY DEF TypeOK, EvaluationAssumption
<1>2. CASE ledger < Budget
  BY <1>1, <1>2 DEF Accounted, Fits
<1>3. CASE DrainersBelow' \subseteq DrainersBelow /\ RequestsGranted' \subseteq RequestsGranted
  <2>1. CASE Budget = 0
    BY <1>3, <2>1 DEF Accounted
  <2>2. CASE Budget # 0
    <3>1. Fits(ledger, DrainersBelow, RequestsGranted)
      BY <2>2 DEF Accounted
    <3>2. DrainersBelow \in SUBSET Drainers /\ RequestsGranted \in SUBSET Requests
      BY DEF DrainersBelow, RequestsGranted
    <3>3. Fits(ledger, DrainersBelow', RequestsGranted')
      BY <1>1, <1>3, <3>1, <3>2, FewerFit
    <3> QED BY <2>2, <3>3 DEF Accounted, Fits
  <2> QED BY <2>1, <2>2
<1> QED BY <1>2, <1>3

(* The addition of a drainer, and of a request. *)
LEMMA DrainerAccounts ==
    ASSUME EvaluationAssumption, TypeOK, Accounted, NEW d \in DrainersBelow, ledger' = ledger + 1,
           RequestsGranted' \subseteq RequestsGranted,
           ledger + 1 >= Budget => DrainersBelow' \subseteq DrainersBelow \ {d}
    PROVE  Accounted'
<1>1. ledger \in Nat /\ Budget \in Nat /\ Budget # 0
  BY DEF TypeOK, EvaluationAssumption, Accounted
<1>2. CASE ledger + 1 < Budget
  BY <1>1, <1>2 DEF Accounted, Fits
<1>3. CASE ledger + 1 >= Budget
  <2>1. DrainersBelow \in SUBSET Drainers /\ RequestsGranted \in SUBSET Requests
    BY DEF DrainersBelow, RequestsGranted
  <2>2. Fits(ledger, DrainersBelow, RequestsGranted)
    BY <1>1 DEF Accounted
  <2>3. Fits(ledger + 1, DrainersBelow \ {d}, RequestsGranted)
    BY <1>1, <2>1, <2>2, DrainerSpends
  <2>4. DrainersBelow' \in SUBSET (DrainersBelow \ {d}) /\ DrainersBelow \ {d} \in SUBSET Drainers
        /\ RequestsGranted' \in SUBSET RequestsGranted /\ ledger + 1 \in Nat
    BY <1>1, <1>3, <2>1
  <2>5. Fits(ledger + 1, DrainersBelow', RequestsGranted')
    BY <2>1, <2>3, <2>4, FewerFit
  <2> QED BY <1>1, <2>5 DEF Accounted, Fits
<1> QED BY <1>1, <1>2, <1>3

LEMMA RequestAccounts ==
    ASSUME EvaluationAssumption, TypeOK, Accounted, NEW q \in RequestsGranted, NEW n \in Nat,
           n <= Pack, ledger' = ledger + n,
           DrainersBelow' \subseteq DrainersBelow, RequestsGranted' \subseteq RequestsGranted \ {q}
    PROVE  Accounted'
<1>1. ledger \in Nat /\ Budget \in Nat /\ Budget # 0
  BY DEF TypeOK, EvaluationAssumption, Accounted
<1>2. DrainersBelow \in SUBSET Drainers /\ RequestsGranted \in SUBSET Requests
  BY DEF DrainersBelow, RequestsGranted
<1>3. Fits(ledger, DrainersBelow, RequestsGranted)
  BY <1>1 DEF Accounted
<1>4. Fits(ledger + n, DrainersBelow, RequestsGranted \ {q})
  BY <1>1, <1>2, <1>3, RequestSpends
<1>5. RequestsGranted' \in SUBSET (RequestsGranted \ {q}) /\ RequestsGranted \ {q} \in SUBSET Requests
      /\ DrainersBelow' \in SUBSET DrainersBelow /\ ledger + n \in Nat
  BY <1>1, <1>2
<1>6. Fits(ledger + n, DrainersBelow', RequestsGranted')
  BY <1>2, <1>4, <1>5, FewerFit
<1> QED BY <1>1, <1>6 DEF Accounted, Fits

-----------------------------------------------------------------------------
(* One lemma per action.                                                   *)

LEMMA DecideTyped ==
    ASSUME NEW r, NEW spend, NEW manual
    PROVE  /\ Decide(r, spend, manual) \in States \cup {"pending"}
           /\ Decide(r, spend, manual) = "pending" => ~(spend >= Budget)
  BY DEF Decide, States

(* What is served is a state that was there or was written. *)
LEMMA LatestTyped ==
    ASSUME NEW old \in States, NEW new \in States
    PROVE  /\ Latest(old, new) \in States
           /\ old = "completed" => Latest(old, new) = "completed"
  BY DEF Latest, Rank, States

LEMMA PromotedKeeps ==
    ASSUME EvaluationAssumption, EvaluationInv, NEW d \in Drainers, NEW r \in Revisions, Promoted(d, r)
    PROVE  EvaluationInv'
<1>1. TypeOK'
  <2>1. Append(queue[d], r) \in Seq(Revisions)
    BY DEF EvaluationInv, TypeOK
  <2>2. queue' \in [Drainers -> Seq(Revisions)]
    BY <2>1 DEF Promoted, EvaluationInv, TypeOK
  <2>3. jobs' \in 0..MaxJobs
    BY DEF Promoted, EvaluationInv, TypeOK, EvaluationAssumption
  <2> QED BY <2>2, <2>3 DEF Promoted, EvaluationInv, TypeOK
<1>2. Decided' /\ DrainersBelow' = DrainersBelow /\ RequestsGranted' = RequestsGranted
  BY DEF Promoted, EvaluationInv, Decided, DrainersBelow, RequestsGranted
<1>3. Accounted'
  BY <1>2, AccountsKept DEF Promoted, EvaluationInv
<1> QED BY <1>1, <1>2, <1>3 DEF EvaluationInv

LEMMA TakeKeeps ==
    ASSUME EvaluationAssumption, EvaluationInv, NEW d \in Drainers, Take(d)
    PROVE  EvaluationInv'
<1> DEFINE r == Head(queue[d])
           j == [at |-> "rubrics", rev |-> r, next |-> 1, spend |-> ledger, judged |-> TRUE,
                 out |-> [i \in Slots |-> Decide(r, ledger, FALSE)]]
<1>1. r \in Revisions /\ Tail(queue[d]) \in Seq(Revisions)
  BY DEF Take, EvaluationInv, TypeOK
<1>2. j \in Job
  <2>1. [i \in Slots |-> Decide(r, ledger, FALSE)] \in [Slots -> States \cup {"pending"}]
    BY DecideTyped
  <2>2. ledger \in Nat /\ 1 \in 1..Rubrics + 1
    BY DEF EvaluationInv, TypeOK, EvaluationAssumption
  <2> QED BY <1>1, <2>1, <2>2 DEF Job
<1>3. d \in Actors /\ d \notin Requests
  BY DEF Actors, EvaluationAssumption
<1>4. run' = [run EXCEPT ![d] = j]
  BY DEF Take
<1>5. InOrder(j)
  <2>1. j.at # "asking" /\ j.next = 1
    OBVIOUS
  <2> HIDE DEF j
  <2> QED BY <2>1 DEF Slots, InOrder
<1>6. ~(ledger < Budget) => ~Below(j)
  BY DEF Below, EvaluationInv, TypeOK, EvaluationAssumption
<1>7. /\ run' \in [Actors -> Job \cup {Idle}] /\ Decided'
      /\ RequestsGranted' \subseteq RequestsGranted
      /\ ~(ledger < Budget) => DrainersBelow' \subseteq DrainersBelow
  <2> HIDE DEF j
  <2> QED BY <1>2, <1>3, <1>4, <1>5, <1>6, Moved DEF EvaluationInv
<1>8. Accounted'
  BY <1>7, AccountsKept DEF Take, EvaluationInv
<1>9. TypeOK'
  <2>1. queue' \in [Drainers -> Seq(Revisions)]
    BY <1>1 DEF Take, EvaluationInv, TypeOK
  <2> QED BY <1>7, <2>1 DEF Take, EvaluationInv, TypeOK
<1> QED BY <1>7, <1>8, <1>9 DEF EvaluationInv

LEMMA AnalyzeKeeps ==
    ASSUME EvaluationAssumption, EvaluationInv, NEW q \in Requests, NEW r \in Revisions, Analyze(q, r)
    PROVE  EvaluationInv'
<1> DEFINE j == [at |-> "pack", rev |-> r, next |-> 1, spend |-> ledger,
                 judged |-> ledger < Budget, out |-> [i \in Slots |-> "pending"]]
<1>1. j \in Job
  <2>1. ledger \in Nat /\ 1 \in 1..Rubrics + 1
    BY DEF EvaluationInv, TypeOK, EvaluationAssumption
  <2> QED BY <2>1 DEF Job
<1>2. q \in Actors /\ q \notin Drainers
  BY DEF Actors, EvaluationAssumption
<1>3. run' = [run EXCEPT ![q] = j]
  BY DEF Analyze
<1>4. InOrder(j)
  <2>1. j.at # "asking" /\ j.next = 1
    OBVIOUS
  <2> HIDE DEF j
  <2> QED BY <2>1 DEF Slots, InOrder
<1>5. ~(ledger < Budget) => ~Granted(j)
  BY DEF Granted
<1>6. /\ run' \in [Actors -> Job \cup {Idle}] /\ Decided'
      /\ DrainersBelow' \subseteq DrainersBelow
      /\ ~(ledger < Budget) => RequestsGranted' \subseteq RequestsGranted
  <2> HIDE DEF j
  <2> QED BY <1>1, <1>2, <1>3, <1>4, <1>5, Moved DEF EvaluationInv
<1>7. Accounted'
  BY <1>6, AccountsKept DEF Analyze, EvaluationInv
<1>8. jobs' \in 0..MaxJobs
  BY DEF Analyze, EvaluationInv, TypeOK, EvaluationAssumption
<1>9. TypeOK'
  BY <1>6, <1>8 DEF Analyze, EvaluationInv, TypeOK
<1> QED BY <1>6, <1>7, <1>9 DEF EvaluationInv

LEMMA SettledTyped ==
    ASSUME Rubrics \in Nat, NEW j \in Job, j.next <= Rubrics, NEW v \in States, NEW t \in Nat,
           InOrder(j)
    PROVE  /\ Settled(j, v, t) \in Job
           /\ InOrder(Settled(j, v, t))
           /\ Below(Settled(j, v, t)) = (t < Budget)
           /\ ~Granted(Settled(j, v, t))
<1>1. /\ j.rev \in Revisions /\ j.next \in 1..Rubrics + 1 /\ j.judged \in BOOLEAN
      /\ j.out \in [Slots -> States \cup {"pending"}]
  BY JobFields
<1>2. j.next \in Slots /\ j.next + 1 \in 1..Rubrics + 1
  BY <1>1 DEF Slots
<1>3. [j.out EXCEPT ![j.next] = v] \in [Slots -> States \cup {"pending"}]
  BY <1>1, <1>2
<1>4. Settled(j, v, t) \in Job
  BY <1>1, <1>2, <1>3 DEF Settled, Job
<1>5. \A i \in Slots : i < j.next + 1 => [j.out EXCEPT ![j.next] = v][i] \in States
  BY <1>1, <1>2, JobFields DEF Slots, InOrder
<1> QED BY <1>4, <1>5 DEF Settled, Below, Granted, InOrder

LEMMA AskKeeps ==
    ASSUME EvaluationAssumption, EvaluationInv, NEW a \in Actors, Ask(a)
    PROVE  EvaluationInv'
<1> DEFINE j == run[a]
           i == j.next
           verdict == IF j.out[i] = "pending"
                      THEN Decide(j.rev, SpendSeen(a), a \in Requests) ELSE j.out[i]
<1>1. j \in Job /\ j # Idle /\ j.at = "rubrics" /\ i <= Rubrics
  BY Working DEF Ask, EvaluationInv
<1>2. /\ j.next \in 1..Rubrics + 1 /\ j.spend \in Nat /\ Rubrics \in Nat
      /\ j.out \in [Slots -> States \cup {"pending"}]
  BY <1>1, JobFields DEF EvaluationAssumption
<1>3. i \in Slots
  BY <1>1, <1>2 DEF Slots
<1>4. InOrder(j)
  BY DEF EvaluationInv, Decided
<1>5. verdict \in States \cup {"pending"}
  BY <1>2, <1>3, DecideTyped
<1>6. /\ ledger' = ledger /\ served' = served /\ queue' = queue /\ dropped' = dropped
      /\ jobs' = jobs /\ faults' = faults
  BY DEF Ask
<1>7. CASE verdict = "pending"
  <2> DEFINE k == [j EXCEPT !.at = "asking"]
  <2>1. run' = [run EXCEPT ![a] = k] /\ paid' = paid + 1
    BY <1>7 DEF Ask, EvaluationInv, TypeOK
  <2>2. k \in Job /\ InOrder(k)
    <3>1. k \in Job /\ k.next = j.next /\ k.out = j.out
      BY <1>1 DEF Job
    <3> QED BY <1>1, <1>4, <3>1 DEF InOrder
  <2>3. ~(SpendSeen(a) >= Budget)
    BY <1>7, DecideTyped
  <2>4. a \in Drainers => j.spend < Budget
    BY <1>2, <2>3 DEF SpendSeen, EvaluationAssumption
  <2>5. a \in Requests => a \notin Drainers /\ ledger < Budget
    BY <2>3 DEF SpendSeen, EvaluationAssumption, EvaluationInv, TypeOK
  <2>6. a \in Drainers => a \notin Requests /\ Below(j)
    BY <1>1, <2>4 DEF Below, EvaluationAssumption
  <2>7. a \in Drainers \/ a \in Requests
    BY DEF Actors
  <2>8. /\ run' \in [Actors -> Job \cup {Idle}] /\ Decided'
        /\ a \in Drainers => DrainersBelow' \subseteq DrainersBelow /\ RequestsGranted' \subseteq RequestsGranted
    <3> HIDE DEF k
    <3> QED BY <1>4, <2>1, <2>2, <2>6, Moved DEF EvaluationInv
  <2>9. Accounted'
    BY <1>6, <2>5, <2>7, <2>8, AccountsKept DEF EvaluationInv
  <2>10. TypeOK'
    BY <1>6, <2>1, <2>8 DEF EvaluationInv, TypeOK
  <2> QED BY <2>8, <2>9, <2>10 DEF EvaluationInv
<1>8. CASE verdict # "pending"
  <2> DEFINE k == Settled(j, verdict, j.spend)
  <2>1. verdict \in States
    BY <1>5, <1>8
  <2>3. /\ k \in Job /\ InOrder(k)
        /\ Below(k) = (j.spend < Budget) /\ ~Granted(k)
    BY <1>1, <1>2, <1>4, <2>1, SettledTyped
  <2>5. run' = [run EXCEPT ![a] = k] /\ paid' = paid
    BY <1>8 DEF Ask, EvaluationInv, TypeOK
  <2>6. Below(k) => Below(j)
    BY <1>1, <2>3 DEF Below
  <2>7. /\ run' \in [Actors -> Job \cup {Idle}] /\ Decided'
        /\ DrainersBelow' \subseteq DrainersBelow /\ RequestsGranted' \subseteq RequestsGranted
    <3> HIDE DEF k
    <3> QED BY <2>3, <2>5, <2>6, Moved DEF EvaluationInv
  <2>8. Accounted'
    BY <1>6, <2>7, AccountsKept DEF EvaluationInv
  <2>9. TypeOK'
    BY <1>6, <2>5, <2>7 DEF EvaluationInv, TypeOK
  <2> QED BY <2>7, <2>8, <2>9 DEF EvaluationInv
<1> QED BY <1>7, <1>8

LEMMA AnswerKeeps ==
    ASSUME EvaluationAssumption, EvaluationInv, NEW a \in Actors, Answer(a)
    PROVE  EvaluationInv'
<1> DEFINE j == run[a]
           k == Settled(j, "completed", ledger + 1)
<1>1. j \in Job /\ j # Idle /\ j.at = "asking" /\ InOrder(j)
  BY Working DEF Answer, EvaluationInv, Decided
<1>2. /\ j.next <= Rubrics /\ ledger \in Nat /\ Rubrics \in Nat /\ Budget \in Nat
  BY <1>1 DEF EvaluationInv, TypeOK, EvaluationAssumption, InOrder
<1>3. /\ k \in Job /\ InOrder(k) /\ Below(k) = (ledger + 1 < Budget) /\ ~Granted(k)
  BY <1>1, <1>2, SettledTyped DEF States
<1>4. run' = [run EXCEPT ![a] = k] /\ ledger' = ledger + 1
  BY DEF Answer, EvaluationInv, TypeOK
<1>5. /\ run' \in [Actors -> Job \cup {Idle}] /\ Decided'
      /\ RequestsGranted' \subseteq RequestsGranted \ {a}
      /\ DrainersBelow' \subseteq DrainersBelow \cup {a}
      /\ ledger + 1 >= Budget => DrainersBelow' \subseteq DrainersBelow \ {a}
      /\ a \notin Drainers => DrainersBelow' \subseteq DrainersBelow
  <2>1. ledger + 1 >= Budget => ~(ledger + 1 < Budget)
    BY <1>2
  <2> HIDE DEF k
  <2> QED BY <1>3, <1>4, <2>1, Moved DEF EvaluationInv
<1>6. Accounted'
  <2>1. CASE a \in Drainers
    <3>1. a \in DrainersBelow
      BY <1>1, <2>1 DEF DrainersBelow, Below
    <3> QED BY <1>4, <1>5, <3>1, DrainerAccounts DEF EvaluationInv
  <2>2. CASE a \in Requests
    <3>1. a \in RequestsGranted /\ a \notin Drainers
      BY <1>1, <2>2 DEF RequestsGranted, Granted, EvaluationAssumption
    <3>2. 1 \in Nat /\ 1 <= Pack
      BY PackTyped
    <3> QED BY <1>4, <1>5, <3>1, <3>2, RequestAccounts DEF EvaluationInv
  <2> QED BY <2>1, <2>2 DEF Actors
<1>7. TypeOK'
  BY <1>2, <1>4, <1>5 DEF Answer, EvaluationInv, TypeOK
<1> QED BY <1>5, <1>6, <1>7 DEF EvaluationInv

LEMMA AnswerFailsKeeps ==
    ASSUME EvaluationAssumption, EvaluationInv, NEW a \in Actors, AnswerFails(a)
    PROVE  EvaluationInv'
<1> DEFINE j == run[a]
           k == Settled(j, "failed", j.spend)
<1>1. j \in Job /\ j # Idle /\ j.at = "asking" /\ InOrder(j)
  BY Working DEF AnswerFails, EvaluationInv, Decided
<1>2. j.next <= Rubrics /\ Rubrics \in Nat /\ j.spend \in Nat
  BY <1>1, JobFields DEF EvaluationAssumption, InOrder
<1>3. k \in Job /\ InOrder(k) /\ ~Granted(k)
  BY <1>1, <1>2, SettledTyped DEF States
<1>4. run' = [run EXCEPT ![a] = k] /\ ledger' = ledger
  BY DEF AnswerFails, EvaluationInv, TypeOK
<1>5. /\ run' \in [Actors -> Job \cup {Idle}] /\ Decided'
      /\ DrainersBelow' \subseteq DrainersBelow /\ RequestsGranted' \subseteq RequestsGranted
  <2>1. Below(run[a])
    BY <1>1 DEF Below
  <2> HIDE DEF k
  <2> QED BY <1>3, <1>4, <2>1, Moved DEF EvaluationInv
<1>6. Accounted'
  BY <1>4, <1>5, AccountsKept DEF EvaluationInv
<1>7. TypeOK'
  <2>1. faults' \in 0..MaxFaults
    BY DEF AnswerFails, Fault, EvaluationInv, TypeOK, EvaluationAssumption
  <2> QED BY <1>5, <2>1 DEF AnswerFails, EvaluationInv, TypeOK
<1> QED BY <1>5, <1>6, <1>7 DEF EvaluationInv

(* What a finished run writes is typed, and takes no verdict away. *)
LEMMA WriteKeeps ==
    ASSUME EvaluationAssumption, TypeOK, Decided, NEW a \in Actors,
           run[a].at = "rubrics", run[a].next > Rubrics, Write(a)
    PROVE  /\ served' \in [Revisions -> [Slots -> States]]
           /\ \A r \in Revisions, i \in Slots :
                served[r][i] = "completed" => served'[r][i] = "completed"
<1> DEFINE j == run[a]
           row == [i \in Slots |-> Latest(served[j.rev][i], j.out[i])]
<1>1. j \in Job /\ j # Idle /\ InOrder(j)
  BY Working DEF Decided
<1>2. j.rev \in Revisions /\ j.next \in 1..Rubrics + 1 /\ Rubrics \in Nat
  BY <1>1, JobFields DEF EvaluationAssumption
<1>3. \A i \in Slots : j.out[i] \in States
  BY <1>1, <1>2 DEF InOrder, Slots
<1>4. /\ served \in [Revisions -> [Slots -> States]]
      /\ \A r \in Revisions, i \in Slots : served[r][i] \in States
  BY DEF TypeOK
<1>5. /\ row \in [Slots -> States]
      /\ \A i \in Slots : served[j.rev][i] = "completed" => row[i] = "completed"
  BY <1>2, <1>3, <1>4, LatestTyped
<1>6. served' = [served EXCEPT ![j.rev] = row]
  BY DEF Write
<1> HIDE DEF row
<1> QED BY <1>2, <1>4, <1>5, <1>6

(* A run that ends. *)
LEMMA EndKeeps ==
    ASSUME EvaluationAssumption, TypeOK, Decided, NEW a \in Actors, run' = [run EXCEPT ![a] = Idle]
    PROVE  /\ run' \in [Actors -> Job \cup {Idle}] /\ Decided'
           /\ DrainersBelow' \subseteq DrainersBelow \ {a}
           /\ RequestsGranted' \subseteq RequestsGranted \ {a}
<1>1. InOrder(Idle) /\ ~Below(Idle) /\ ~Granted(Idle)
  BY DEF InOrder, Below, Granted, Idle
<1> QED BY <1>1, Moved

LEMMA PackAndWriteKeeps ==
    ASSUME EvaluationAssumption, EvaluationInv, NEW d \in Drainers, PackAndWrite(d)
    PROVE  EvaluationInv'
<1>1. d \in Actors
  BY DEF Actors
<1>2. served' \in [Revisions -> [Slots -> States]]
  BY <1>1, WriteKeeps DEF PackAndWrite, EvaluationInv
<1>3. /\ run' \in [Actors -> Job \cup {Idle}] /\ Decided'
      /\ DrainersBelow' \subseteq DrainersBelow /\ RequestsGranted' \subseteq RequestsGranted
  BY <1>1, EndKeeps DEF PackAndWrite, EvaluationInv
<1>4. Accounted'
  BY <1>3, AccountsKept DEF PackAndWrite, EvaluationInv
<1>5. TypeOK'
  BY <1>2, <1>3 DEF PackAndWrite, EvaluationInv, TypeOK, EvaluationAssumption
<1> QED BY <1>3, <1>4, <1>5 DEF EvaluationInv

LEMMA WriteManualKeeps ==
    ASSUME EvaluationAssumption, EvaluationInv, NEW q \in Requests, WriteManual(q)
    PROVE  EvaluationInv'
<1>1. q \in Actors
  BY DEF Actors
<1>2. served' \in [Revisions -> [Slots -> States]]
  BY <1>1, WriteKeeps DEF WriteManual, EvaluationInv
<1>3. /\ run' \in [Actors -> Job \cup {Idle}] /\ Decided'
      /\ DrainersBelow' \subseteq DrainersBelow /\ RequestsGranted' \subseteq RequestsGranted
  BY <1>1, EndKeeps DEF WriteManual, EvaluationInv
<1>4. Accounted'
  BY <1>3, AccountsKept DEF WriteManual, EvaluationInv
<1>5. TypeOK'
  BY <1>2, <1>3 DEF WriteManual, EvaluationInv, TypeOK
<1> QED BY <1>3, <1>4, <1>5 DEF EvaluationInv

LEMMA MeterPackKeeps ==
    ASSUME EvaluationAssumption, EvaluationInv, NEW q \in Requests, MeterPack(q)
    PROVE  EvaluationInv'
<1> DEFINE j == run[q]
           k == [j EXCEPT !.at = "rubrics"]
           n == IF j.judged THEN PackCalls ELSE 0
<1>1. q \in Actors /\ q \notin Drainers
  BY DEF Actors, EvaluationAssumption
<1>2. j \in Job /\ j # Idle /\ j.at = "pack" /\ InOrder(j)
  BY <1>1, Working DEF MeterPack, EvaluationInv, Decided
<1>3. run' = [run EXCEPT ![q] = k] /\ ledger' = ledger + n /\ paid' = paid + n
  BY <1>1 DEF MeterPack, EvaluationInv, TypeOK
<1>4. k \in Job /\ InOrder(k) /\ ~Granted(k)
  <2>1. k \in Job /\ k.at = "rubrics" /\ k.next = j.next /\ k.out = j.out
    BY <1>2 DEF Job
  <2> QED BY <1>2, <2>1 DEF InOrder, Granted
<1>5. /\ run' \in [Actors -> Job \cup {Idle}] /\ Decided'
      /\ DrainersBelow' \subseteq DrainersBelow /\ RequestsGranted' \subseteq RequestsGranted \ {q}
  <2> HIDE DEF k
  <2> QED BY <1>1, <1>3, <1>4, Moved DEF EvaluationInv
<1>6. n \in Nat /\ n <= Pack /\ (~j.judged => n = 0)
  BY PackTyped DEF EvaluationAssumption
<1>7. ledger \in Nat /\ paid \in Nat /\ ledger + 0 = ledger
  BY DEF EvaluationInv, TypeOK
<1>8. Accounted'
  <2>1. CASE j.judged
    <3>1. q \in RequestsGranted
      BY <1>2, <2>1 DEF RequestsGranted, Granted
    <3> QED BY <1>3, <1>5, <1>6, <3>1, RequestAccounts DEF EvaluationInv
  <2>2. CASE ~j.judged
    <3>1. ledger' = ledger
      BY <1>3, <1>6, <1>7, <2>2
    <3> QED BY <1>5, <3>1, AccountsKept DEF EvaluationInv
  <2> QED BY <2>1, <2>2
<1>9. TypeOK'
  BY <1>3, <1>5, <1>6, <1>7 DEF MeterPack, EvaluationInv, TypeOK
<1> QED BY <1>5, <1>8, <1>9 DEF EvaluationInv

LEMMA PackFailsKeeps ==
    ASSUME EvaluationAssumption, EvaluationInv, NEW a \in Actors, PackFails(a)
    PROVE  EvaluationInv'
<1>1. run[a] \in Job
  BY Working DEF PackFails, EvaluationInv
<1>2. dropped' \subseteq Revisions
  BY <1>1, JobFields DEF PackFails, EvaluationInv, TypeOK
<1>3. /\ run' \in [Actors -> Job \cup {Idle}] /\ Decided'
      /\ DrainersBelow' \subseteq DrainersBelow /\ RequestsGranted' \subseteq RequestsGranted
  BY EndKeeps DEF PackFails, EvaluationInv
<1>4. Accounted'
  BY <1>3, AccountsKept DEF PackFails, EvaluationInv
<1>5. faults' \in 0..MaxFaults
  BY DEF PackFails, Fault, EvaluationInv, TypeOK, EvaluationAssumption
<1>6. TypeOK'
  BY <1>2, <1>3, <1>5 DEF PackFails, EvaluationInv, TypeOK
<1> QED BY <1>3, <1>4, <1>6 DEF EvaluationInv

LEMMA CrashKeeps ==
    ASSUME EvaluationAssumption, EvaluationInv, NEW d \in Drainers, Crash(d)
    PROVE  EvaluationInv'
<1>1. d \in Actors
  BY DEF Actors
<1>2. dropped' \subseteq Revisions
  <2>1. run[d] # Idle => run[d].rev \in Revisions
    BY <1>1, JobFields DEF EvaluationInv, TypeOK
  <2>2. \A k \in DOMAIN queue[d] : queue[d][k] \in Revisions
    BY DEF EvaluationInv, TypeOK
  <2> QED BY <2>1, <2>2 DEF Crash, EvaluationInv, TypeOK
<1>3. /\ run' \in [Actors -> Job \cup {Idle}] /\ Decided'
      /\ DrainersBelow' \subseteq DrainersBelow /\ RequestsGranted' \subseteq RequestsGranted
  BY <1>1, EndKeeps DEF Crash, EvaluationInv
<1>4. Accounted'
  BY <1>3, AccountsKept DEF Crash, EvaluationInv
<1>5. faults' \in 0..MaxFaults /\ queue' \in [Drainers -> Seq(Revisions)]
  BY DEF Crash, Fault, EvaluationInv, TypeOK, EvaluationAssumption
<1>6. TypeOK'
  BY <1>2, <1>3, <1>5 DEF Crash, EvaluationInv, TypeOK
<1> QED BY <1>3, <1>4, <1>6 DEF EvaluationInv

-----------------------------------------------------------------------------

LEMMA InitInv == ASSUME EvaluationAssumption, Init PROVE EvaluationInv
<1>1. TypeOK
  <2>1. ledger \in Nat /\ paid \in Nat /\ jobs \in 0..MaxJobs /\ faults \in 0..MaxFaults
    BY DEF Init, EvaluationAssumption
  <2>2. queue \in [Drainers -> Seq(Revisions)]
    BY DEF Init
  <2> QED BY <2>1, <2>2 DEF Init, TypeOK, States
<1>2. Decided
  BY DEF Init, Decided, InOrder
<1>3. DrainersBelow = {} /\ RequestsGranted = {}
  BY DEF Init, DrainersBelow, RequestsGranted, Below, Granted, Idle, Actors
<1>4. Accounted
  BY <1>3 DEF Init, Accounted, Fits, EvaluationAssumption
<1> QED BY <1>1, <1>2, <1>4 DEF EvaluationInv

LEMMA NextKeeps ==
    ASSUME EvaluationAssumption, EvaluationInv, [Next]_vars
    PROVE  EvaluationInv'
<1>1. CASE UNCHANGED vars
  BY <1>1 DEF vars, EvaluationInv, TypeOK, Decided, Accounted, DrainersBelow, RequestsGranted
<1>2. CASE Next
  <2>1. Drainers \subseteq Actors /\ Requests \subseteq Actors
    BY DEF Actors
  <2>2. ASSUME NEW a \in Actors, Judging(a) PROVE EvaluationInv'
    BY <2>2, AskKeeps, AnswerKeeps, AnswerFailsKeeps, PackFailsKeeps DEF Judging
  <2>3. CASE \E d \in Drainers : Take(d) \/ Judging(d) \/ PackAndWrite(d) \/ Crash(d)
    BY <2>1, <2>2, <2>3, TakeKeeps, PackAndWriteKeeps, CrashKeeps
  <2>4. CASE \E q \in Requests : Judging(q) \/ MeterPack(q) \/ WriteManual(q)
    BY <2>1, <2>2, <2>4, MeterPackKeeps, WriteManualKeeps
  <2>5. CASE \E r \in Revisions :
               (\E d \in Drainers : Promoted(d, r)) \/ (\E q \in Requests : Analyze(q, r))
    BY <2>5, PromotedKeeps, AnalyzeKeeps
  <2> QED BY <1>2, <2>3, <2>4, <2>5 DEF Next
<1> QED BY <1>1, <1>2

LEMMA InvBounds == ASSUME EvaluationAssumption, EvaluationInv PROVE OvershootBounded
<1>1. CASE Budget = 0
  BY <1>1 DEF EvaluationInv, Accounted, OvershootBounded
<1>2. CASE Budget # 0
  <2> DEFINE d == Cardinality(DrainersBelow)
             u == Cardinality(RequestsGranted) * Pack
             w == Cardinality(Requests) * Pack
  <2>1. IsFiniteSet(DrainersBelow) /\ IsFiniteSet(RequestsGranted)
    <3>1. DrainersBelow \subseteq Drainers /\ RequestsGranted \subseteq Requests
      BY DEF DrainersBelow, RequestsGranted
    <3> QED BY <3>1, FS_Subset DEF EvaluationAssumption
  <2>2. d \in Nat /\ u \in Nat /\ w \in Nat /\ Cardinality(Drainers) \in Nat
    BY <2>1, FS_CardinalityType, PackTyped DEF EvaluationAssumption
  <2>3. ledger >= Budget => ledger + d + u <= Budget - 1 + Cardinality(Drainers) + w
    BY <1>2 DEF EvaluationInv, Accounted, Fits
  <2>4. ledger \in Nat /\ Budget \in Nat
    BY DEF EvaluationInv, TypeOK, EvaluationAssumption
  <2> HIDE DEF d, u, w
  <2>5. ledger <= Budget - 1 + Cardinality(Drainers) + w
    BY <1>2, <2>2, <2>3, <2>4
  <2> QED BY <1>2, <2>5 DEF OvershootBounded, Pack, w
<1> QED BY <1>1, <1>2

-----------------------------------------------------------------------------

(* Decisions, totals and totals to come are consistent in every reachable   *)
(* state, for any processes and requests. *)
THEOREM EvaluationInductive == Spec => []EvaluationInv
<1>1. Init => EvaluationInv
  BY InitInv, EvaluationAssumption
<1>2. EvaluationInv /\ [Next]_vars => EvaluationInv'
  BY NextKeeps, EvaluationAssumption
<1> QED BY <1>1, <1>2, PTL DEF Spec

(* The ledger passes the budget by no more than one question of each        *)
(* drainer and a pack, or one question, of each request: decide_tier2       *)
(* against totals read long ago. *)
THEOREM BudgetHolds == Spec => []OvershootBounded
<1>1. EvaluationInv => OvershootBounded
  BY InvBounds, EvaluationAssumption
<1> QED BY <1>1, EvaluationInductive, PTL

(* No step takes a served verdict away, whichever process evaluates a       *)
(* revision again and whatever becomes of it (latest_analysis_results). *)
THEOREM VerdictsServed == Spec => VerdictsStay
<1> DEFINE Stays == \A r \in Revisions, i \in Slots :
                       served[r][i] = "completed" => served'[r][i] = "completed"
<1>1. EvaluationInv /\ [Next]_vars => [Stays]_vars
  <2> SUFFICES ASSUME EvaluationInv, Next PROVE Stays \/ UNCHANGED vars
    BY DEF vars
  <2>1. ASSUME NEW a \in Actors, run[a].at = "rubrics", run[a].next > Rubrics, Write(a) PROVE Stays
    BY <2>1, WriteKeeps, EvaluationAssumption DEF EvaluationInv
  <2>2. CASE \E d \in Drainers : PackAndWrite(d)
    BY <2>1, <2>2 DEF PackAndWrite, Actors
  <2>3. CASE \E q \in Requests : WriteManual(q)
    BY <2>1, <2>3 DEF WriteManual, Actors
  <2>4. ASSUME served' = served PROVE Stays
    BY <2>4
  <2>5. \/ served' = served
        \/ \E d \in Drainers : PackAndWrite(d)
        \/ \E q \in Requests : WriteManual(q)
    BY DEF Next, Take, Judging, Ask, Answer, AnswerFails, PackFails, Crash, MeterPack, Promoted, Analyze
  <2> QED BY <2>2, <2>3, <2>4, <2>5
<1> QED BY <1>1, EvaluationInductive, PTL DEF Spec, VerdictsStay

-----------------------------------------------------------------------------
(* Verdicts.  What may be asked grows while an evaluation is under way, so   *)
(* that the judge it resolved when it began, and the second one it resolves  *)
(* by the policy of its end, are both among those that could be asked. *)

Judges == Endpoints \cup {Environment, None}

Consent ==
    /\ runners \in [RunnerSlots -> Endpoints \cup {None}]
    /\ consented \subseteq Judges
    /\ judging # None => /\ Allowed \subseteq consented
                         /\ judging.judge \in consented \cup {None}

(* What a row counts for, and who was asked for it. *)
RowCounts(row) == Counts(row) =>
    \/ row.analyzer = "rubric" /\ row.asked # <<>>
    \/ /\ row.analyzer = "predicate"
       /\ \E spec \in Specs : /\ \A c \in spec.clauses : Evident(c, case)
                              /\ row.verdict = PredicateOf(spec, case)
    \/ row.verdict = "fail" /\ row.asked = <<>> /\ Refuted(case)
RowAsked(row) ==
    /\ \A i \in DOMAIN row.asked : row.asked[i] \in consented
    /\ row.model = "detector" => row.asked = <<>>
RowsEarned == \A row \in rows : RowCounts(row) /\ RowAsked(row)

VerdictsInv == Consent /\ RowsEarned

(* What the tenant and the settings allow are runners and their judge. *)
LEMMA AllowedTyped == ASSUME Consent PROVE Allowed \subseteq Judges
  BY DEF Consent, Allowed, Judges

(* resolve_judge answers with a judge that may be asked. *)
LEMMA ResolvedAllowed ==
    ASSUME Consent, NEW s \in RunnerSlots PROVE Resolved(s) \in Allowed
<1>1. CASE ~EvalsOn
  BY <1>1 DEF Resolved, Allowed
<1>2. CASE EvalsOn
  <2>1. PICK t \in RunnerSlots : t = CHOOSE u \in Present : TRUE
    BY <1>2 DEF EvalsOn, Present
  <2> QED BY <1>2, <2>1 DEF Resolved, Allowed, EvalsOn
<1> QED BY <1>1, <1>2

LEMMA SecondAllowed == ASSUME VerdictsAssumption, Consent PROVE Second \in Allowed \cup {None}
  BY ResolvedAllowed DEF Second, VerdictsAssumption

(* Without a judge a question fails only for what was refuted, and never     *)
(* passes. *)
LEMMA PrecheckSettles ==
    ASSUME NEW name, NEW e, Precheck(name, e) # None
    PROVE  /\ Precheck(name, e) # "pass"
           /\ Precheck(name, e) = "fail" => Refuted(e)
<1>1. CASE name = "handoff"
  BY <1>1 DEF Precheck
<1>2. CASE name = "task_completion"
  BY <1>2 DEF Precheck
<1>3. CASE name = "accuracy"
  BY <1>3 DEF Precheck, Refuted
<1>4. CASE name = "tool_use"
  BY <1>4 DEF Precheck, Refuted
<1>5. CASE name \notin {"handoff", "task_completion", "accuracy", "tool_use"}
  BY <1>5 DEF Precheck
<1> QED BY <1>1, <1>2, <1>3, <1>4, <1>5

(* Who is in the sequences of those asked. *)
LEMMA AskedOf ==
    /\ DOMAIN <<>> = {}
    /\ \A a : <<a>> # <<>> /\ \A i \in DOMAIN <<a>> : <<a>>[i] = a
    /\ \A a, b : \A i \in DOMAIN <<a, b>> : <<a, b>>[i] \in {a, b}
  OBVIOUS

(* Put asks the judge it is given, or nobody and goes by the evidence. *)
LEMMA PutAsks ==
    ASSUME NEW name, NEW e, NEW judge, NEW answer
    PROVE  LET p == Put(name, e, judge, answer) IN
           \/ /\ Precheck(name, e) # None
              /\ p = [verdict |-> Precheck(name, e), model |-> "detector", asked |-> <<>>]
           \/ /\ Precheck(name, e) = None /\ judge = None
              /\ p = [verdict |-> "not_judged", model |-> None, asked |-> <<>>]
           \/ /\ Precheck(name, e) = None /\ judge # None
              /\ p = [verdict |-> answer, model |-> judge, asked |-> <<judge>>]
  BY DEF Put

(* A row of the pack: the detector's, or that of judges who were asked. *)
LEMMA PackRowEarned ==
    ASSUME VerdictsAssumption, Consent, judging # None, NEW name, NEW answer, NEW second
    PROVE  LET row == PackRow(name, case, answer, second) IN RowCounts(row) /\ RowAsked(row)
<1> DEFINE judge == judging.judge
           first == Put(name, case, judge, answer)
           again == Put(name, case, Second, second)
           both == judge # None /\ Second # None /\ Cascades(name, first)
           taken == IF both THEN [again EXCEPT !.asked = first.asked \o @] ELSE first
           row == PackRow(name, case, answer, second)
<1> SUFFICES RowCounts(row) /\ RowAsked(row)
  OBVIOUS
<1>1. /\ row.verdict = taken.verdict /\ row.model = taken.model /\ row.asked = taken.asked
      /\ row.shadow = (taken.model # "detector")
  BY DEF PackRow, PackShadow
<1>2. /\ judge # None => judge \in consented /\ judge # "detector"
      /\ Second # None => Second \in consented /\ Second # "detector"
  BY SecondAllowed DEF Consent, Judges, VerdictsAssumption
<1>3. CASE Precheck(name, case) # None
  <2>1. taken = [verdict |-> Precheck(name, case), model |-> "detector", asked |-> <<>>]
    <3>1. first = [verdict |-> Precheck(name, case), model |-> "detector", asked |-> <<>>]
      BY <1>3, PutAsks
    <3>2. again = first
      BY <1>3, <3>1, PutAsks
    <3> HIDE DEF first, again
    <3>3. first.asked \o again.asked = <<>>
      BY <3>1, <3>2
    <3> QED BY <3>1, <3>2, <3>3
  <2> HIDE DEF taken, row
  <2>2. row.verdict = Precheck(name, case) /\ row.asked = <<>>
    BY <1>1, <2>1
  <2>3. RowCounts(row)
    BY <1>3, <2>2, PrecheckSettles DEF RowCounts, Counts
  <2> QED BY <2>2, <2>3, AskedOf DEF RowAsked
<1>4. CASE Precheck(name, case) = None /\ ~both
  <2>1. \/ judge = None /\ taken = [verdict |-> "not_judged", model |-> None, asked |-> <<>>]
        \/ judge # None /\ taken = [verdict |-> answer, model |-> judge, asked |-> <<judge>>]
    BY <1>4, PutAsks
  <2> HIDE DEF taken, row, judge
  <2>2. row.shadow \/ row.verdict = "not_judged"
    <3>1. taken.model # "detector" \/ taken.verdict = "not_judged"
      BY <1>2, <2>1
    <3> QED BY <1>1, <3>1
  <2>3. RowCounts(row)
    BY <2>2 DEF RowCounts, Counts
  <2>4. \/ row.asked = <<>>
        \/ judge # None /\ row.asked = <<judge>> /\ row.model = judge
    BY <1>1, <2>1
  <2> QED BY <1>2, <2>3, <2>4, AskedOf DEF RowAsked
<1>5. CASE Precheck(name, case) = None /\ both
  <2>1. /\ first = [verdict |-> answer, model |-> judge, asked |-> <<judge>>]
        /\ again = [verdict |-> second, model |-> Second, asked |-> <<Second>>]
    BY <1>5, PutAsks
  <2> HIDE DEF first, again, judge
  <2>2. taken = [verdict |-> second, model |-> Second, asked |-> <<judge, Second>>]
    BY <1>5, <2>1
  <2> HIDE DEF taken, row
  <2>3. row.shadow /\ row.asked = <<judge, Second>> /\ row.model # "detector"
    BY <1>1, <1>2, <1>5, <2>2
  <2> QED BY <1>2, <1>5, <2>3, AskedOf DEF RowCounts, RowAsked, Counts
<1> QED BY <1>3, <1>4, <1>5

LEMMA RubricRowEarned ==
    ASSUME VerdictsAssumption, Consent, judging # None, NEW answer, NEW calibrated \in BOOLEAN
    PROVE  LET row == RubricRow(answer, calibrated) IN RowCounts(row) /\ RowAsked(row)
<1> DEFINE judge == judging.judge
           row == RubricRow(answer, calibrated)
<1> SUFFICES RowCounts(row) /\ RowAsked(row)
  OBVIOUS
<1>1. judge # None => judge \in consented /\ judge # "detector"
  BY DEF Consent, Judges, VerdictsAssumption
<1>2. CASE judge = None
  <2>1. row.verdict = "not_judged" /\ row.asked = <<>>
    BY <1>2 DEF RubricRow
  <2> QED BY <2>1 DEF RowCounts, RowAsked, Counts
<1>3. CASE judge # None
  <2>1. row.analyzer = "rubric" /\ row.asked = <<judge>> /\ row.model = judge
    BY <1>3 DEF RubricRow
  <2> HIDE DEF row, judge
  <2> QED BY <1>1, <1>3, <2>1, AskedOf DEF RowCounts, RowAsked
<1> QED BY <1>2, <1>3

LEMMA PredicateRowEarned ==
    ASSUME NEW spec \in Specs
    PROVE  LET row == PredicateRow(spec, case) IN RowCounts(row) /\ RowAsked(row)
<1> DEFINE row == PredicateRow(spec, case)
<1> SUFFICES RowCounts(row) /\ RowAsked(row)
  OBVIOUS
<1>1. /\ row.analyzer = "predicate" /\ row.model = "predicate" /\ row.asked = <<>>
      /\ row.verdict = PredicateOf(spec, case)
  BY DEF PredicateRow
<1>2. CASE \A c \in spec.clauses : Evident(c, case)
  BY <1>1, <1>2 DEF RowCounts, RowAsked
<1>3. CASE \E c \in spec.clauses : ~Evident(c, case)
  <2>1. row.verdict = "evidence_missing"
    BY <1>1, <1>3 DEF PredicateOf
  <2> HIDE DEF row
  <2> QED BY <1>1, <2>1 DEF RowCounts, RowAsked, Counts
<1> QED BY <1>2, <1>3

(* The settings change: whoever may be asked then is added, and no row is. *)
LEMMA SettingsKeep ==
    ASSUME VerdictsInv, UNCHANGED <<case, judging>>, rows' = {}, Settle,
           runners' \in [RunnerSlots -> Endpoints \cup {None}]
    PROVE  VerdictsInv'
<1>1. Allowed' \subseteq Judges
  BY DEF Allowed, Judges
<1>2. consented \subseteq consented' /\ consented' \subseteq Judges
  BY <1>1 DEF Settle, VerdictsInv, Consent
<1>3. Consent'
  BY <1>1, <1>2 DEF VerdictsInv, Consent, Settle, Judges
<1>4. RowsEarned'
  BY DEF RowsEarned
<1> QED BY <1>3, <1>4 DEF VerdictsInv

LEMMA VerdictsNextKeeps ==
    ASSUME VerdictsAssumption, VerdictsInv, [VerdictsNext]_verdictVars PROVE VerdictsInv'
<1> USE DEF VerdictsInv
<1>1. ASSUME NEW s \in RunnerSlots, DeleteRunner(s) PROVE VerdictsInv'
  BY <1>1, SettingsKeep DEF DeleteRunner, Consent
<1>2. ASSUME NEW s \in RunnerSlots, NEW r \in Endpoints, PutRunner(s, r) PROVE VerdictsInv'
  BY <1>2, SettingsKeep DEF PutRunner, Consent
<1>3. CASE SetPolicy
  BY <1>3, SettingsKeep DEF SetPolicy, Consent
<1>4. CASE BeginEvaluation
  <2>1. Resolved("cheap") \in Allowed /\ Allowed \subseteq Judges
    BY ResolvedAllowed, AllowedTyped DEF VerdictsAssumption
  <2>2. Allowed' = Allowed
    BY <1>4 DEF BeginEvaluation, Allowed
  <2>3. Consent'
    BY <1>4, <2>1, <2>2 DEF BeginEvaluation, Consent, Judges
  <2>4. RowsEarned'
    BY <1>4 DEF BeginEvaluation, RowsEarned
  <2> QED BY <2>3, <2>4
<1>5. CASE Evaluate
  <2>1. Consent'
    BY <1>5 DEF Evaluate, Consent, Judges
  <2>2. ASSUME NEW row \in rows' PROVE RowCounts(row) /\ RowAsked(row)
    <3>1. PICK answer \in Answers, second \in Answers, calibrated \in BOOLEAN, spec \in Specs :
             rows' = {PackRow(name, case, answer, second) : name \in policy.pack}
                     \cup {RubricRow(answer, calibrated), PredicateRow(spec, case)}
      BY <1>5 DEF Evaluate
    <3>2. CASE \E name \in policy.pack : row = PackRow(name, case, answer, second)
      BY <1>5, <3>2, PackRowEarned DEF Evaluate
    <3>3. CASE row = RubricRow(answer, calibrated)
      BY <1>5, <3>3, RubricRowEarned DEF Evaluate
    <3>4. CASE row = PredicateRow(spec, case)
      BY <3>4, PredicateRowEarned
    <3> QED BY <2>2, <3>1, <3>2, <3>3, <3>4
  <2>3. case' = case /\ consented' = consented
    BY <1>5 DEF Evaluate
  <2>4. RowsEarned'
    BY <2>2, <2>3 DEF RowsEarned, RowCounts, RowAsked
  <2> QED BY <2>1, <2>4
<1>6. CASE UNCHANGED verdictVars
  <2>1. Consent'
    BY <1>6 DEF verdictVars, Consent, Allowed, Judges
  <2>2. RowsEarned'
    BY <1>6 DEF verdictVars, RowsEarned, RowCounts, RowAsked
  <2> QED BY <2>1, <2>2
<1> QED BY <1>1, <1>2, <1>3, <1>4, <1>5, <1>6 DEF VerdictsNext

(* The exported case of a critical card forbids something, and only what     *)
(* was confirmed. *)
LEMMA CaseForbids ==
    /\ Card(case).critical => Forbidden(case) # {} /\ Card(case).review
    /\ \A d \in Forbidden(case) : Confirmed(d)
<1> DEFINE confirmed == {d \in case.claims : Confirmed(d)}
           pageable == {d \in confirmed : d.severity \in Pageable}
<1>1. Forbidden(case) = IF pageable = {} THEN confirmed ELSE pageable
  BY DEF Forbidden
<1>2. ASSUME Card(case).critical PROVE Forbidden(case) # {} /\ Card(case).review
  <2>1. PICK d \in case.claims : Confirmed(d) /\ d.severity \in Pageable
    BY <1>2 DEF Card
  <2>2. d \in pageable
    BY <2>1
  <2>3. Card(case).review
    BY <2>1 DEF Card
  <2> QED BY <1>1, <2>2, <2>3
<1>3. \A d \in Forbidden(case) : Confirmed(d)
  BY <1>1
<1> QED BY <1>2, <1>3

(* Whatever the tenant makes of the runners and the policy while an          *)
(* evaluation is under way, every row of it is earned: nobody is asked who   *)
(* could not be since it began, nothing counts that neither evidence nor a   *)
(* calibrated judge decided (resolve_judge, run_pack, evaluate_spec). *)
THEOREM VerdictsAreEarned == VerdictsSpec => []VerdictsEarned
<1>1. VerdictsInit => VerdictsInv
  BY DEF VerdictsInit, VerdictsInv, Consent, RowsEarned
<1>2. VerdictsInv /\ [VerdictsNext]_verdictVars => VerdictsInv'
  BY VerdictsNextKeeps, VerdictsAssumption
<1>3. VerdictsInv => VerdictsEarned
  BY CaseForbids DEF VerdictsInv, RowsEarned, RowCounts, RowAsked, VerdictsEarned
<1> QED BY <1>1, <1>2, <1>3, PTL DEF VerdictsSpec

-----------------------------------------------------------------------------
(* CallAnalysis.  A later revision holds more than an earlier one did; what  *)
(* is shown of two such calls holds of every step. *)

Fields == {"turns", "tools", "references", "began", "ending", "ended", "rooted", "cut"}

(* Turns as they were told so far: the spans are those of the text. *)
TurnsLike(s) ==
    /\ IsFiniteSet(DOMAIN s)
    /\ \A i \in DOMAIN s : {"words", "spans"} \subseteq DOMAIN s[i]
    /\ \A u \in Utterances : Id(u) \in DOMAIN s =>
          /\ s[Id(u)].words \in {"", u.words}
          /\ s[Id(u)].spans = IF s[Id(u)].words = "" THEN {} ELSE u.spans

(* A call as it was reported so far. *)
CallLike(c) ==
    /\ DOMAIN c = Fields /\ c = [x \in Fields |-> c[x]]
    /\ TurnsLike(c.turns)
    /\ c.tools \in Seq(ToolRuns)
    /\ c.ending # Missing => c.rooted /\ \E code \in Codes : c.ending = Reported(code)
CallInv == CallLike(call)

(* A turn that is told once more keeps what it said, a tool what came of it, *)
(* an ending its reason. *)
TurnsKept(s, t) ==
    \A i \in DOMAIN s : /\ i \in DOMAIN t
                        /\ s[i].words \in {"", t[i].words}
                        /\ s[i].spans \subseteq t[i].spans
RunKept(p, t) ==
    /\ t.name = p.name /\ t.mutating = p.mutating
    /\ Values(p) \subseteq Values(t)
    /\ p.status \in {"error", "timeout"} => t.status = p.status
    /\ Succeeded(p) => Succeeded(t) /\ t.args = p.args
RunsKept(s, t) ==
    /\ s # <<>> => t # <<>>
    /\ \A k \in DOMAIN s : k \in DOMAIN t /\ RunKept(s[k], t[k])
EndingKept(e, f) == e = Missing \/ e.reason = "unknown" \/ f = e

(* d is c with more said, run and referred to. *)
Grown(c, d) ==
    /\ TurnsKept(c.turns, d.turns) /\ RunsKept(c.tools, d.tools)
    /\ c.references \subseteq d.references /\ EndingKept(c.ending, d.ending)

LEMMA SameKept ==
    ASSUME NEW s, NEW e
    PROVE  TurnsKept(s, s) /\ RunsKept(s, s) /\ EndingKept(e, e)
  BY DEF TurnsKept, RunsKept, RunKept, EndingKept

(* What the next fold starts from is the call, but for its clocks. *)
LEMMA RefoldKeeps ==
    ASSUME NEW c, CallLike(c), NEW d \in Refolds(c)
    PROVE  /\ d.turns = c.turns /\ d.tools = c.tools /\ d.references = c.references
           /\ d.ending = c.ending /\ CallLike(d)
<1>1. /\ d.turns = c.turns /\ d.tools = c.tools /\ d.references = c.references
      /\ d.ending = c.ending /\ d.rooted = c.rooted
      /\ DOMAIN d = Fields /\ d = [x \in Fields |-> d[x]]
  <2>1. DOMAIN c = Fields
    BY DEF CallLike
  <2>2. CASE d = [c EXCEPT !.cut = FALSE]
    BY <2>1, <2>2 DEF Fields
  <2>3. CASE d = [c EXCEPT !.cut = FALSE, !.began = Missing, !.ended = EndOf(c)]
    BY <2>1, <2>3 DEF Fields
  <2> QED BY <2>2, <2>3 DEF Refolds
<1> QED BY <1>1 DEF CallLike

LEMMA PartTold ==
    ASSUME NEW u \in Utterances, NEW part \in Parts(u)
    PROVE  /\ DOMAIN part = {"words", "spans", "end", "interrupted"}
           /\ part.words \in {"", u.words}
           /\ part.spans = IF part.words = "" THEN {} ELSE u.spans
<1>1. PICK told \in ({"", u.words} \X {Missing, u.until}) \ {<<"", Missing>>} :
         part = [words |-> told[1], spans |-> IF told[1] = "" THEN {} ELSE u.spans, end |-> told[2],
                 interrupted |-> u.interrupted]
  BY DEF Parts
<1> QED BY <1>1

(* A turn that is told, for the first time or once more. *)
LEMMA HeedKeeps ==
    ASSUME CallAssumption, NEW s, TurnsLike(s), NEW u \in Utterances, NEW part,
           {"words", "spans"} \subseteq DOMAIN part, part.words \in {"", u.words},
           part.spans = IF part.words = "" THEN {} ELSE u.spans,
           Id(u) \in DOMAIN s => s[Id(u)].words \in {"", part.words}
    PROVE  TurnsLike(Heed(s, Id(u), part)) /\ TurnsKept(s, Heed(s, Id(u), part))
<1> DEFINE i == Id(u)
           t == Heed(s, i, part)
<1>1. /\ DOMAIN t = DOMAIN s \cup {i}
      /\ t[i] = part
      /\ \A j \in DOMAIN s \ {i} : t[j] = s[j]
  BY DEF Heed
<1>2. IsFiniteSet(DOMAIN t)
  BY <1>1, FS_AddElement DEF TurnsLike
<1>3. \A j \in DOMAIN t : {"words", "spans"} \subseteq DOMAIN t[j]
  BY <1>1 DEF TurnsLike
<1>4. ASSUME NEW v \in Utterances, Id(v) \in DOMAIN t
      PROVE  /\ t[Id(v)].words \in {"", v.words}
             /\ t[Id(v)].spans = IF t[Id(v)].words = "" THEN {} ELSE v.spans
  <2>1. CASE Id(v) = i
    <3>1. v.index = u.index /\ v.by = u.by /\ v.start = u.start
      BY <2>1 DEF Id
    <3>2. v = u
      BY <3>1 DEF CallAssumption
    <3> QED BY <1>1, <3>2
  <2>2. CASE Id(v) # i
    BY <1>1, <1>4, <2>2 DEF TurnsLike
  <2> QED BY <2>1, <2>2
<1>5. TurnsKept(s, t)
  <2>1. ASSUME NEW j \in DOMAIN s
        PROVE  j \in DOMAIN t /\ s[j].words \in {"", t[j].words} /\ s[j].spans \subseteq t[j].spans
    <3>1. CASE j = i
      <4>1. s[i].spans = IF s[i].words = "" THEN {} ELSE u.spans
        BY <3>1 DEF TurnsLike
      <4>2. s[i].words \in {"", part.words}
        BY <3>1
      <4> QED BY <1>1, <3>1, <4>1, <4>2
    <3>2. CASE j # i
      BY <1>1, <3>2
    <3> QED BY <3>1, <3>2
  <2> QED BY <2>1 DEF TurnsKept
<1> HIDE DEF t
<1>6. TurnsLike(t)
  BY <1>2, <1>3, <1>4 DEF TurnsLike
<1> QED BY <1>5, <1>6 DEF t

(* A pending tool holds nothing that its result does not.                   *)
LEMMA FulfilledKept ==
    ASSUME CallAssumption, NEW p \in ToolRuns, NEW t \in ToolRuns, p.status = "pending", Fulfils(t, p)
    PROVE  RunKept(p, t)
<1>1. Body(p) = {}
  BY DEF CallAssumption
<1>2. p.leaves \subseteq t.leaves
  BY DEF Fulfils
<1>3. Values(p) \subseteq Values(t)
  BY <1>1, <1>2 DEF Values, PrivateValues
<1> QED BY <1>3 DEF RunKept, Fulfils, Succeeded

LEMMA CallNextGrows ==
    ASSUME CallAssumption, CallInv, CallNext
    PROVE  CallInv' /\ Grown(call, call')
<1>1. CallLike(call)
  BY DEF CallInv
<1>2. \A c \in Refolds(call) : CallLike(c) /\ (Grown(c, call') => Grown(call, call'))
  BY <1>1, RefoldKeeps DEF Grown
<1>3. SUFFICES \E c \in Refolds(call) : CallLike(call') /\ Grown(c, call')
  BY <1>2 DEF CallInv
<1>4. ASSUME NEW c \in Refolds(call), NEW u \in Utterances, NEW part,
             {"words", "spans"} \subseteq DOMAIN part, part.words \in {"", u.words},
             part.spans = IF part.words = "" THEN {} ELSE u.spans,
             Id(u) \in DOMAIN c.turns => c.turns[Id(u)].words \in {"", part.words},
             call' = [c EXCEPT !.turns = Heed(@, Id(u), part), !.cut = u.cut]
      PROVE  CallLike(call') /\ Grown(c, call')
  <2>1. CallLike(c)
    BY <1>2
  <2>2. TurnsLike(Heed(c.turns, Id(u), part)) /\ TurnsKept(c.turns, Heed(c.turns, Id(u), part))
    BY <1>4, <2>1, HeedKeeps DEF CallLike
  <2>3. /\ DOMAIN call' = Fields /\ call' = [x \in Fields |-> call'[x]]
        /\ call'.turns = Heed(c.turns, Id(u), part) /\ call'.tools = c.tools
        /\ call'.references = c.references /\ call'.ending = c.ending /\ call'.rooted = c.rooted
    BY <1>4, <2>1 DEF CallLike, Fields
  <2> QED BY <2>1, <2>2, <2>3, SameKept DEF CallLike, Grown
<1>5. CASE Speak
  <2>1. PICK c \in Refolds(call), u \in Utterances :
           /\ Id(u) \notin DOMAIN c.turns
           /\ \E part \in Parts(u) : call' = [c EXCEPT !.turns = Heed(@, Id(u), part), !.cut = u.cut]
    BY <1>5 DEF Speak
  <2>2. PICK part \in Parts(u) : call' = [c EXCEPT !.turns = Heed(@, Id(u), part), !.cut = u.cut]
    BY <2>1
  <2>3. /\ {"words", "spans"} \subseteq DOMAIN part /\ part.words \in {"", u.words}
        /\ part.spans = IF part.words = "" THEN {} ELSE u.spans
    BY PartTold
  <2>4. CallLike(call') /\ Grown(c, call')
    BY <1>4, <2>1, <2>2, <2>3
  <2> QED BY <2>4
<1>6. CASE Amend
  <2>0. PICK c \in Refolds(call), u \in Utterances : \E part \in Parts(u) :
           /\ c.turns[Id(u)].words \in {"", part.words}
           /\ call' = [c EXCEPT !.turns =
                         Heed(@, Id(u), [part EXCEPT !.interrupted = c.turns[Id(u)].interrupted]),
                       !.cut = u.cut]
    BY <1>6 DEF Amend
  <2>1. PICK part \in Parts(u) :
           /\ c.turns[Id(u)].words \in {"", part.words}
           /\ call' = [c EXCEPT !.turns =
                         Heed(@, Id(u), [part EXCEPT !.interrupted = c.turns[Id(u)].interrupted]),
                       !.cut = u.cut]
    BY <2>0
  <2> DEFINE told == [part EXCEPT !.interrupted = c.turns[Id(u)].interrupted]
  <2>2. /\ {"words", "spans"} \subseteq DOMAIN told /\ told.words \in {"", u.words}
        /\ told.spans = IF told.words = "" THEN {} ELSE u.spans
        /\ told.words = part.words
    BY PartTold
  <2>3. call' = [c EXCEPT !.turns = Heed(@, Id(u), told), !.cut = u.cut]
    BY <2>1
  <2> HIDE DEF told
  <2>4. CallLike(call') /\ Grown(c, call')
    BY <1>4, <2>1, <2>2, <2>3
  <2> QED BY <2>4
<1>7. CASE Interrupt
  <2>1. PICK c \in Refolds(call), i \in DOMAIN call.turns :
           call' = [c EXCEPT !.turns = Marked(@, i.index)]
    BY <1>7 DEF Interrupt
  <2> DEFINE marked == Marked(c.turns, i.index)
  <2>2. CallLike(c)
    BY <1>2
  <2>3. call' = [c EXCEPT !.turns = marked]
    BY <2>1
  <2>4. /\ DOMAIN marked = DOMAIN c.turns
        /\ \A j \in DOMAIN marked : /\ DOMAIN marked[j] = DOMAIN c.turns[j]
                                    /\ marked[j].words = c.turns[j].words
                                    /\ marked[j].spans = c.turns[j].spans
    BY <2>2 DEF CallLike, TurnsLike, Marked
  <2> HIDE DEF marked
  <2>5. TurnsLike(marked) /\ TurnsKept(c.turns, marked)
    BY <2>2, <2>4 DEF CallLike, TurnsLike, TurnsKept
  <2>6. /\ DOMAIN call' = Fields /\ call' = [x \in Fields |-> call'[x]]
        /\ call'.turns = marked /\ call'.tools = c.tools
        /\ call'.references = c.references /\ call'.ending = c.ending /\ call'.rooted = c.rooted
    BY <2>2, <2>3 DEF CallLike, Fields
  <2>7. CallLike(call') /\ Grown(c, call')
    BY <2>2, <2>5, <2>6, SameKept DEF CallLike, Grown
  <2> QED BY <2>7
<1>8. CASE Invoke
  <2>1. PICK c \in Refolds(call), t \in ToolRuns : call' = [c EXCEPT !.tools = Append(@, t)]
    BY <1>8 DEF Invoke
  <2>2. CallLike(c)
    BY <1>2
  <2>3. c.tools \in Seq(ToolRuns)
    BY <2>2 DEF CallLike
  <2>4. /\ Append(c.tools, t) \in Seq(ToolRuns) /\ Append(c.tools, t) # <<>>
        /\ \A k \in DOMAIN c.tools : k \in DOMAIN Append(c.tools, t) /\ Append(c.tools, t)[k] = c.tools[k]
    BY <2>3
  <2>5. RunsKept(c.tools, Append(c.tools, t))
    BY <2>4 DEF RunsKept, RunKept
  <2>6. /\ DOMAIN call' = Fields /\ call' = [x \in Fields |-> call'[x]]
        /\ call'.tools = Append(c.tools, t) /\ call'.turns = c.turns
        /\ call'.references = c.references /\ call'.ending = c.ending /\ call'.rooted = c.rooted
    BY <2>1, <2>2 DEF CallLike, Fields
  <2>7. CallLike(call') /\ Grown(c, call')
    BY <2>2, <2>4, <2>5, <2>6, SameKept DEF CallLike, Grown
  <2> QED BY <2>7
<1>9. CASE Return
  <2>1. PICK c \in Refolds(call), k \in DOMAIN call.tools, t \in ToolRuns :
           /\ c.tools[k].status = "pending" /\ Fulfils(t, c.tools[k])
           /\ call' = [c EXCEPT !.tools[k] = t]
    BY <1>9 DEF Return
  <2>2. CallLike(c) /\ c.tools = call.tools
    BY <1>1, <1>2, RefoldKeeps
  <2> DEFINE after == [c.tools EXCEPT ![k] = t]
  <2>3. c.tools \in Seq(ToolRuns) /\ k \in DOMAIN c.tools
    BY <2>2 DEF CallLike
  <2>4. /\ after \in Seq(ToolRuns) /\ after # <<>>
        /\ DOMAIN after = DOMAIN c.tools
        /\ after[k] = t /\ \A j \in DOMAIN c.tools \ {k} : after[j] = c.tools[j]
    BY <2>3
  <2>5. RunKept(c.tools[k], t)
    BY <2>1, <2>3, FulfilledKept
  <2>6. call' = [c EXCEPT !.tools = after]
    BY <2>1
  <2> HIDE DEF after
  <2>7. RunsKept(c.tools, after)
    <3>1. \A j \in DOMAIN c.tools \ {k} : RunKept(c.tools[j], after[j])
      BY <2>4 DEF RunKept
    <3> QED BY <2>4, <2>5, <3>1 DEF RunsKept
  <2>8. /\ DOMAIN call' = Fields /\ call' = [x \in Fields |-> call'[x]]
        /\ call'.tools = after /\ call'.turns = c.turns
        /\ call'.references = c.references /\ call'.ending = c.ending /\ call'.rooted = c.rooted
    BY <2>2, <2>6 DEF CallLike, Fields
  <2>9. CallLike(call') /\ Grown(c, call')
    BY <2>2, <2>4, <2>7, <2>8, SameKept DEF CallLike, Grown
  <2> QED BY <2>9
<1>10. CASE Refer
  <2>1. PICK c \in Refolds(call), r \in References : call' = [c EXCEPT !.references = @ \cup {r}]
    BY <1>10 DEF Refer
  <2>2. CallLike(c)
    BY <1>2
  <2>3. /\ DOMAIN call' = Fields /\ call' = [x \in Fields |-> call'[x]]
        /\ call'.references = c.references \cup {r} /\ call'.turns = c.turns
        /\ call'.tools = c.tools /\ call'.ending = c.ending /\ call'.rooted = c.rooted
    BY <2>1, <2>2 DEF CallLike, Fields
  <2>4. CallLike(call') /\ Grown(c, call')
    BY <2>2, <2>3, SameKept DEF CallLike, Grown
  <2> QED BY <2>4
<1>11. CASE Open
  <2>1. PICK c \in Refolds(call), at \in Openings : call' = [c EXCEPT !.began = at, !.rooted = TRUE]
    BY <1>11 DEF Open
  <2>2. CallLike(c)
    BY <1>2
  <2>3. /\ DOMAIN call' = Fields /\ call' = [x \in Fields |-> call'[x]]
        /\ call'.references = c.references /\ call'.turns = c.turns
        /\ call'.tools = c.tools /\ call'.ending = c.ending /\ call'.rooted
    BY <2>1, <2>2 DEF CallLike, Fields
  <2>4. CallLike(call') /\ Grown(c, call')
    BY <2>2, <2>3, SameKept DEF CallLike, Grown
  <2> QED BY <2>4
<1>12. CASE End
  <2>1. PICK c \in Refolds(call), code \in Codes, at \in Closings \cup {Missing} :
           /\ c.ending # Missing => Unnamed(c.ending.code)
           /\ call' = [c EXCEPT !.ending = Reported(code), !.ended = Or(@, at), !.rooted = TRUE]
    BY <1>12 DEF End
  <2>2. CallLike(c)
    BY <1>2
  <2>3. /\ DOMAIN call' = Fields /\ call' = [x \in Fields |-> call'[x]]
        /\ call'.references = c.references /\ call'.turns = c.turns
        /\ call'.tools = c.tools /\ call'.ending = Reported(code) /\ call'.rooted
    BY <2>1, <2>2 DEF CallLike, Fields
  <2>4. EndingKept(c.ending, Reported(code))
    <3>1. CASE c.ending = Missing
      BY <3>1 DEF EndingKept
    <3>2. CASE c.ending # Missing
      <4>1. PICK earlier \in Codes : c.ending = Reported(earlier)
        BY <2>2, <3>2 DEF CallLike
      <4>2. c.ending.code = earlier /\ c.ending.reason = VapiReason(earlier)
        BY <4>1 DEF Reported
      <4> QED BY <2>1, <3>2, <4>2 DEF EndingKept, VapiReason
    <3> QED BY <3>1, <3>2
  <2>5. CallLike(call') /\ Grown(c, call')
    BY <2>2, <2>3, <2>4, SameKept DEF CallLike, Grown
  <2> QED BY <2>5
<1> QED BY <1>5, <1>6, <1>7, <1>8, <1>9, <1>10, <1>11, <1>12 DEF CallNext

-----------------------------------------------------------------------------
(* What grows with a call. *)

LEMMA TurnGrows ==
    ASSUME NEW c, NEW d, Grown(c, d), NEW i \in DOMAIN c.turns
    PROVE  /\ i \in DOMAIN d.turns
           /\ c.turns[i].words # "" => d.turns[i].words = c.turns[i].words
           /\ c.turns[i].spans \subseteq d.turns[i].spans
  BY DEF Grown, TurnsKept

LEMMA TurnsGrow ==
    ASSUME NEW c, NEW d, Grown(c, d)
    PROVE  /\ DOMAIN c.turns \subseteq DOMAIN d.turns
           /\ UserTurns(c) \subseteq UserTurns(d)
           /\ AgentTurns(c) \subseteq AgentTurns(d)
<1>1. DOMAIN c.turns \subseteq DOMAIN d.turns
  BY TurnGrows
<1> QED BY <1>1 DEF UserTurns, AgentTurns

LEMMA SpansGrow ==
    ASSUME NEW c, NEW d, Grown(c, d), NEW I \in SUBSET DOMAIN c.turns, NEW J, I \subseteq J
    PROVE  Spans(c, I) \subseteq Spans(d, J)
<1>1. ASSUME NEW i \in I PROVE c.turns[i].spans \subseteq d.turns[i].spans
  BY TurnGrows
<1> QED BY <1>1 DEF Spans

LEMMA RunsGrow ==
    ASSUME NEW c, NEW d, Grown(c, d), NEW t \in Tools(c)
    PROVE  t \in Tools(d) /\ RunKept(c.tools[t], d.tools[t])
  BY DEF Grown, RunsKept, Tools

(* Evidence is never withdrawn, a caller's date as long as the call starts   *)
(* on the same day. *)
LEMMA EvidenceGrows ==
    ASSUME NEW c, NEW d, Grown(c, d), NEW kind,
           kind = "date_time_claim" => StartDay(c) = StartDay(d)
    PROVE  Evidence(c, kind) \subseteq Evidence(d, kind)
<1>1. ASSUME NEW g \in Spoken(c), g.kind = kind PROVE g \in Spoken(d)
  <2>1. PICK i \in UserTurns(c) : g \in Grounds(c, i)
    BY <1>1 DEF Spoken
  <2>2. PICK s \in Readable(c, i) :
           g = [kind |-> s.kind,
                value |-> IF s.kind = "date_time_claim" THEN DayGiven(s.value, TurnDay(c, i)) ELSE s.value]
    BY <2>1 DEF Grounds
  <2>3. s.kind = kind
    BY <1>1, <2>2
  <2>4. i \in UserTurns(d) /\ s \in d.turns[i].spans
    <3>1. i \in DOMAIN c.turns /\ s \in c.turns[i].spans
      BY <2>2 DEF Readable, UserTurns
    <3>2. c.turns[i].spans \subseteq d.turns[i].spans
      BY <3>1, TurnGrows
    <3>3. i \in UserTurns(d)
      BY TurnsGrow
    <3> QED BY <3>1, <3>2, <3>3
  <2>5. s.kind = "date_time_claim" => TurnDay(c, i) = TurnDay(d, i)
    BY <2>3 DEF TurnDay
  <2>6. s \in Readable(d, i)
    BY <2>2, <2>4, <2>5 DEF Readable
  <2>7. g \in Grounds(d, i)
    <3>1. CASE s.kind = "date_time_claim"
      BY <2>2, <2>5, <2>6, <3>1 DEF Grounds
    <3>2. CASE s.kind # "date_time_claim"
      BY <2>2, <2>6, <3>2 DEF Grounds
    <3> QED BY <3>1, <3>2
  <2> QED BY <2>4, <2>7 DEF Spoken
<1>2. UNION {Values(c.tools[t]) : t \in Tools(c)} \subseteq UNION {Values(d.tools[t]) : t \in Tools(d)}
  <2>1. \A t \in Tools(c) : t \in Tools(d) /\ Values(c.tools[t]) \subseteq Values(d.tools[t])
    BY RunsGrow DEF RunKept
  <2> QED BY <2>1
<1>3. UNION {Quoted(r) : r \in {q \in c.references : q.kind \in LiveReferences}}
      \subseteq UNION {Quoted(r) : r \in {q \in d.references : q.kind \in LiveReferences}}
  BY DEF Grown
<1>4. ASSUME NEW v \in Evidence(c, kind) PROVE v \in Evidence(d, kind)
  <2>1. PICK s \in Spoken(c) \cup (UNION {Values(c.tools[t]) : t \in Tools(c)})
                   \cup UNION {Quoted(r) : r \in {q \in c.references : q.kind \in LiveReferences}} :
           s.kind = kind /\ v = s.value
    BY DEF Evidence
  <2>2. s \in Spoken(d) \cup (UNION {Values(d.tools[t]) : t \in Tools(d)})
             \cup UNION {Quoted(r) : r \in {q \in d.references : q.kind \in LiveReferences}}
    <3>1. CASE s \in UNION {Values(c.tools[t]) : t \in Tools(c)}
      BY <1>2, <3>1
    <3>2. CASE s \in UNION {Quoted(r) : r \in {q \in c.references : q.kind \in LiveReferences}}
      BY <1>3, <3>2
    <3>3. CASE s \in Spoken(c)
      BY <1>1, <2>1, <3>3
    <3> QED BY <2>1, <3>1, <3>2, <3>3
  <2> QED BY <2>1, <2>2 DEF Evidence
<1> QED BY <1>4

LEMMA LiveGrows == ASSUME NEW c, NEW d, Grown(c, d), Live(c) PROVE Live(d)
<1>1. c.tools # <<>> => d.tools # <<>>
  BY DEF Grown, RunsKept
<1>2. c.references \subseteq d.references
  BY DEF Grown
<1>3. ASSUME NEW i \in UserTurns(c), c.turns[i].words # "" PROVE i \in UserTurns(d) /\ d.turns[i].words # ""
  <2>1. i \in DOMAIN c.turns /\ i \in UserTurns(d)
    BY TurnsGrow DEF UserTurns
  <2>2. d.turns[i].words = c.turns[i].words
    BY <1>3, <2>1, TurnGrows
  <2> QED BY <1>3, <2>1, <2>2
<1> QED BY <1>1, <1>2, <1>3 DEF Live

(* Something that grounds a statement grounds it still. *)
LEMMA GroundedStays ==
    ASSUME NEW c, NEW d, Grown(c, d), NEW i, NEW s, s.kind \in Matters, Datable(c, d, s),
           Verdict(c, i, s) = "grounded"
    PROVE  Verdict(d, i, s) = "grounded"
<1>1. s.kind = "date_time_claim" => StartDay(c) = StartDay(d)
  BY DEF Datable
<1>2. CASE s.kind \in Kinds
  <2>1. Verdict(c, i, s) = OfRecord(c, s) /\ Verdict(d, i, s) = OfRecord(d, s)
    BY <1>2 DEF Verdict, Kinds
  <2>2. Judgeable(c, s) /\ \E v \in Evidence(c, s.kind) : Agrees(c, s.kind, v, s.value)
    BY <2>1 DEF OfRecord
  <2>3. \A v : Agrees(c, s.kind, v, s.value) => Agrees(d, s.kind, v, s.value)
    BY <1>1 DEF Agrees
  <2>4. Judgeable(d, s)
    BY <1>1, <2>2, LiveGrows DEF Judgeable
  <2>5. Evidence(c, s.kind) \subseteq Evidence(d, s.kind)
    BY <1>1, EvidenceGrows
  <2> QED BY <2>1, <2>2, <2>3, <2>4, <2>5 DEF OfRecord
<1>3. CASE s.kind = "private_knowledge"
  <2>1. Verdict(c, i, s) = OfPrivate(c, s) /\ Verdict(d, i, s) = OfPrivate(d, s)
    BY <1>3 DEF Verdict, Kinds
  <2>2. s.value \in Evidence(c, "private_knowledge")
    BY <2>1 DEF OfPrivate
  <2>3. Evidence(c, "private_knowledge") \subseteq Evidence(d, "private_knowledge")
    BY EvidenceGrows
  <2> QED BY <2>1, <2>2, <2>3 DEF OfPrivate
<1> QED BY <1>2, <1>3 DEF Matters

-----------------------------------------------------------------------------
(* The agent's words blotted out. *)

LEMMA MutedFields ==
    ASSUME NEW c, CallLike(c)
    PROVE  /\ Muted(c).tools = c.tools /\ Muted(c).references = c.references
           /\ Muted(c).began = c.began
           /\ DOMAIN Muted(c).turns = DOMAIN c.turns
           /\ \A i \in DOMAIN c.turns : i.by # "agent" => Muted(c).turns[i] = c.turns[i]
<1> DEFINE blotted == [i \in DOMAIN c.turns |-> IF i.by = "agent"
                         THEN [c.turns[i] EXCEPT !.words = "", !.spans = {}] ELSE c.turns[i]]
<1>1. Muted(c) = [c EXCEPT !.turns = blotted]
  BY DEF Muted
<1>2. DOMAIN blotted = DOMAIN c.turns /\ \A i \in DOMAIN c.turns : i.by # "agent" => blotted[i] = c.turns[i]
  OBVIOUS
<1> HIDE DEF blotted
<1>3. /\ Muted(c).tools = c.tools /\ Muted(c).references = c.references
      /\ Muted(c).began = c.began /\ Muted(c).turns = blotted
  BY <1>1 DEF CallLike, Fields
<1> QED BY <1>2, <1>3

LEMMA MutedEvidence ==
    ASSUME NEW c, CallLike(c)
    PROVE  /\ \A kind : Evidence(Muted(c), kind) = Evidence(c, kind)
           /\ Live(Muted(c)) = Live(c)
           /\ StartDay(Muted(c)) = StartDay(c)
<1>1. UserTurns(Muted(c)) = UserTurns(c) /\ \A i \in UserTurns(c) : Muted(c).turns[i] = c.turns[i]
  BY MutedFields DEF UserTurns
<1>2. StartDay(Muted(c)) = StartDay(c)
  BY MutedFields DEF StartDay, StartOf
<1>3. Spoken(Muted(c)) = Spoken(c)
  <2>1. \A i \in UserTurns(c) : TurnDay(Muted(c), i) = TurnDay(c, i)
    BY <1>2 DEF TurnDay
  <2>2. \A i \in UserTurns(c) : Readable(Muted(c), i) = Readable(c, i)
    BY <1>1, <2>1 DEF Readable
  <2>3. \A i \in UserTurns(c) : Grounds(Muted(c), i) = Grounds(c, i)
    BY <2>1, <2>2 DEF Grounds
  <2> QED BY <1>1, <2>3 DEF Spoken
<1>4. \A kind : Evidence(Muted(c), kind) = Evidence(c, kind)
  BY <1>3, MutedFields DEF Evidence, Tools
<1>5. Live(Muted(c)) = Live(c)
  BY <1>1, MutedFields DEF Live
<1> QED BY <1>2, <1>4, <1>5

(* What the agent says settles nothing. *)
LEMMA MutedVerdict ==
    ASSUME NEW c, CallLike(c), NEW i, NEW s
    PROVE  Verdict(Muted(c), i, s) = Verdict(c, i, s)
<1> DEFINE m == Muted(c)
<1>1. m.tools = c.tools /\ DOMAIN m.turns = DOMAIN c.turns
  BY MutedFields
<1>2. (\A kind : Evidence(m, kind) = Evidence(c, kind)) /\ Live(m) = Live(c) /\ StartDay(m) = StartDay(c)
  BY MutedEvidence
<1> HIDE DEF m
<1>3. OfRecord(m, s) = OfRecord(c, s)
  <2>1. \A kind, v, w : Agrees(m, kind, v, w) = Agrees(c, kind, v, w)
    BY <1>2 DEF Agrees
  <2>2. Refutable(m, s) = Refutable(c, s)
    BY <1>1, <1>2 DEF Refutable
  <2>3. Judgeable(m, s) = Judgeable(c, s)
    BY <1>2 DEF Judgeable
  <2> QED BY <1>2, <2>1, <2>2, <2>3 DEF OfRecord
<1>4. OfPrivate(m, s) = OfPrivate(c, s)
  BY <1>2 DEF OfPrivate
<1>5. \A unique : Bind(m, i, unique) = Bind(c, i, unique)
  BY <1>1 DEF Bind, Tools
<1>6. OfAction(m, i) = OfAction(c, i) /\ OfFailure(m, i) = OfFailure(c, i)
  BY <1>1, <1>5 DEF OfAction, OfFailure, Unbound
<1>7. Verdict(m, i, s) = Verdict(c, i, s)
  BY <1>3, <1>4, <1>6 DEF Verdict
<1> QED BY <1>7 DEF m

-----------------------------------------------------------------------------
(* The flags.                                                              *)

LEMMA CallSetsFinite ==
    ASSUME NEW c, CallLike(c)
    PROVE  /\ \A S \in SUBSET Tools(c) : IsFiniteSet(S)
           /\ \A S \in SUBSET DOMAIN c.turns : IsFiniteSet(S)
<1>1. Len(c.tools) \in Nat /\ Tools(c) = 1..Len(c.tools)
  BY DEF CallLike, Tools
<1>2. IsFiniteSet(Tools(c))
  BY <1>1, FS_Interval
<1>3. IsFiniteSet(DOMAIN c.turns)
  BY DEF CallLike, TurnsLike
<1> QED BY <1>2, <1>3, FS_Subset

(* More of them are at least as many. *)
LEMMA AtLeast ==
    ASSUME NEW S, NEW T, S \subseteq T, IsFiniteSet(T), NEW n \in Nat, Cardinality(S) >= n
    PROVE  Cardinality(T) >= n
<1>1. Cardinality(S) <= Cardinality(T) /\ Cardinality(S) \in Nat /\ Cardinality(T) \in Nat
  BY FS_Subset, FS_CardinalityType
<1> QED BY <1>1

LEMMA DoubleInvocationStays ==
    ASSUME NEW c, NEW d, CallLike(d), Grown(c, d), DoubleInvocation(c) PROVE DoubleInvocation(d)
<1>1. PICK t \in Tools(c) : /\ c.tools[t].mutating /\ Succeeded(c.tools[t])
                            /\ Cardinality({u \in SameRun(c, t) : Succeeded(c.tools[u])}) >= 2
  BY DEF DoubleInvocation
<1> DEFINE before == {u \in SameRun(c, t) : Succeeded(c.tools[u])}
           after == {u \in SameRun(d, t) : Succeeded(d.tools[u])}
<1>2. t \in Tools(d) /\ d.tools[t].mutating /\ Succeeded(d.tools[t])
  BY <1>1, RunsGrow DEF RunKept
<1>3. before \subseteq after
  <2>1. ASSUME NEW u \in before PROVE u \in after
    <3>1. /\ u \in Tools(c) /\ Succeeded(c.tools[u])
          /\ c.tools[u].name = c.tools[t].name /\ c.tools[u].args = c.tools[t].args
      BY DEF SameRun
    <3>2. u \in Tools(d) /\ RunKept(c.tools[u], d.tools[u]) /\ RunKept(c.tools[t], d.tools[t])
      BY <3>1, RunsGrow
    <3>3. /\ Succeeded(d.tools[u])
          /\ d.tools[u].name = d.tools[t].name /\ d.tools[u].args = d.tools[t].args
      BY <1>1, <3>1, <3>2 DEF RunKept
    <3> QED BY <3>2, <3>3 DEF SameRun
  <2> QED BY <2>1
<1>4. IsFiniteSet(after)
  BY CallSetsFinite DEF SameRun
<1>5. Cardinality(before) >= 2
  BY <1>1
<1> HIDE DEF before, after
<1>6. Cardinality(after) >= 2
  BY <1>3, <1>4, <1>5, AtLeast
<1> QED BY <1>2, <1>6 DEF DoubleInvocation, after

LEMMA LoopStays == ASSUME NEW c, NEW d, CallLike(d), Grown(c, d), Loop(c) PROVE Loop(d)
<1>1. PICK i \in AgentTurns(c) :
         /\ c.turns[i].words \notin TooShort
         /\ Cardinality({j \in AgentTurns(c) : c.turns[j].words = c.turns[i].words}) >= 3
  BY DEF Loop
<1> DEFINE before == {j \in AgentTurns(c) : c.turns[j].words = c.turns[i].words}
           after == {j \in AgentTurns(d) : d.turns[j].words = d.turns[i].words}
<1>2. ASSUME NEW j \in before PROVE j \in AgentTurns(d) /\ d.turns[j].words = c.turns[i].words
  <2>1. c.turns[i].words # ""
    BY <1>1 DEF TooShort
  <2>2. j \in DOMAIN c.turns /\ j \in AgentTurns(c) /\ c.turns[j].words = c.turns[i].words
    BY DEF AgentTurns
  <2>3. d.turns[j].words = c.turns[j].words
    BY <2>1, <2>2, TurnGrows
  <2>4. j \in AgentTurns(d)
    BY <2>2, TurnsGrow
  <2> QED BY <2>2, <2>3, <2>4
<1>3. i \in AgentTurns(d) /\ d.turns[i].words = c.turns[i].words
  <2>1. i \in before
    OBVIOUS
  <2> QED BY <1>2, <2>1
<1>4. before \subseteq after
  BY <1>2, <1>3
<1>5. IsFiniteSet(after)
  BY CallSetsFinite DEF AgentTurns
<1>6. Cardinality(before) >= 3
  BY <1>1
<1> HIDE DEF before, after
<1>7. Cardinality(after) >= 3
  BY <1>4, <1>5, <1>6, AtLeast
<1> QED BY <1>1, <1>3, <1>7 DEF Loop, after

LEMMA HeardStays ==
    ASSUME NEW c, NEW d, Grown(c, d), NEW kind
    PROVE  /\ Heard(c, AgentTurns(c), kind) => Heard(d, AgentTurns(d), kind)
           /\ Heard(c, UserTurns(c), kind) => Heard(d, UserTurns(d), kind)
           /\ Heard(c, DOMAIN c.turns, kind) => Heard(d, DOMAIN d.turns, kind)
<1>1. \A I \in SUBSET DOMAIN c.turns : \A J : I \subseteq J => Spans(c, I) \subseteq Spans(d, J)
  BY SpansGrow
<1>2. AgentTurns(c) \in SUBSET DOMAIN c.turns /\ UserTurns(c) \in SUBSET DOMAIN c.turns
  BY DEF AgentTurns, UserTurns
<1>3. DOMAIN c.turns \in SUBSET DOMAIN c.turns /\ DOMAIN c.turns \subseteq DOMAIN d.turns
  BY TurnsGrow
<1> QED BY <1>1, <1>2, <1>3, TurnsGrow DEF Heard

(* What was said and done is not taken back. *)
LEMMA LastingStays ==
    ASSUME NEW c, NEW d, CallLike(c), CallLike(d), Grown(c, d) PROVE Lasting(c) \subseteq Lasting(d)
<1> DEFINE Broken(e) == \E t \in Tools(e) : e.tools[t].status \in {"error", "timeout"}
           Silent(e) == e.ending # Missing /\ e.ending.reason \in Silences
<1>1. Broken(c) => Broken(d)
  BY RunsGrow DEF RunKept
<1>2. Silent(c) => Silent(d)
  BY DEF Grown, EndingKept, Silences
<1>3. /\ Flag("tool_failure", Broken(c)) \subseteq Flag("tool_failure", Broken(d))
      /\ Flag("silence", Silent(c)) \subseteq Flag("silence", Silent(d))
  BY <1>1, <1>2 DEF Flag
<1>4. Flag("double_invocation", DoubleInvocation(c)) \subseteq Flag("double_invocation", DoubleInvocation(d))
  BY DoubleInvocationStays DEF Flag
<1>5. Flag("loop_detected", Loop(c)) \subseteq Flag("loop_detected", Loop(d))
  BY LoopStays DEF Flag
<1>6. /\ Flag("pan_spoken", Heard(c, AgentTurns(c), "pan")) \subseteq
         Flag("pan_spoken", Heard(d, AgentTurns(d), "pan"))
      /\ Flag("ssn_spoken", Heard(c, AgentTurns(c), "ssn")) \subseteq
         Flag("ssn_spoken", Heard(d, AgentTurns(d), "ssn"))
      /\ Flag("low_stt_confidence", Heard(c, DOMAIN c.turns, "unsure")) \subseteq
         Flag("low_stt_confidence", Heard(d, DOMAIN d.turns, "unsure"))
      /\ Flag("verbal_secret_request", Heard(c, AgentTurns(c), "secret")) \subseteq
         Flag("verbal_secret_request", Heard(d, AgentTurns(d), "secret"))
  BY HeardStays DEF Flag
<1> QED BY <1>3, <1>4, <1>5, <1>6 DEF Lasting

(* What was promised stays open until a tool runs or the call is passed on.  *)
LEMMA AwaitingStays ==
    ASSUME NEW c, NEW d, Grown(c, d), c.tools = d.tools, NoTransfer(d)
    PROVE  Awaiting(c) \subseteq Awaiting(d)
<1>1. ASSUME UnfulfilledPromise(c) PROVE UnfulfilledPromise(d)
  <2>0. PICK i \in AgentTurns(c) : \E s \in c.turns[i].spans :
           /\ s.kind = "promise"
           /\ ~\E t \in Tools(c) : /\ c.tools[t].turn # Missing /\ c.tools[t].turn > i.index
                                    /\ c.tools[t].name = s.value
    BY <1>1 DEF UnfulfilledPromise
  <2>1. PICK s \in c.turns[i].spans :
           /\ s.kind = "promise"
           /\ ~\E t \in Tools(c) : /\ c.tools[t].turn # Missing /\ c.tools[t].turn > i.index
                                    /\ c.tools[t].name = s.value
    BY <2>0
  <2>2. i \in AgentTurns(d)
    BY TurnsGrow
  <2>3. s \in d.turns[i].spans
    <3>1. i \in DOMAIN c.turns
      BY DEF AgentTurns
    <3>2. c.turns[i].spans \subseteq d.turns[i].spans
      BY <3>1, TurnGrows
    <3> QED BY <3>2
  <2> QED BY <1>1, <2>1, <2>2, <2>3 DEF UnfulfilledPromise, Tools
<1>2. Flag("unfulfilled_promise", UnfulfilledPromise(c)) \subseteq
      Flag("unfulfilled_promise", UnfulfilledPromise(d))
  BY <1>1 DEF Flag
<1>3. /\ Flag("broken_transfer_promise", NoTransfer(c) /\ Heard(c, AgentTurns(c), "transfer")) \subseteq
         Flag("broken_transfer_promise", NoTransfer(d) /\ Heard(d, AgentTurns(d), "transfer"))
      /\ Flag("escalation_unmet", NoTransfer(c) /\ Heard(c, UserTurns(c), "human")) \subseteq
         Flag("escalation_unmet", NoTransfer(d) /\ Heard(d, UserTurns(d), "human"))
  BY HeardStays DEF Flag
<1> QED BY <1>2, <1>3 DEF Awaiting

-----------------------------------------------------------------------------
(* The ending. *)

(* The first rule is about a voice that failed, and it comes before those    *)
(* about the transcriber. *)
LEMMA VoiceFirst ==
    ASSUME CallAssumption, NEW code \in Codes, VoiceFailed \in code.fits
    PROVE  VapiReason(code) = "error_tts"
<1>1. ~Unnamed(code) /\ code.explicit = Missing /\ code.fits \subseteq DOMAIN VapiRules
  BY DEF CallAssumption
<1>2. DOMAIN VapiRules = 1..20 /\ VapiRules[1] = "error_tts"
  BY DEF VapiRules
<1>3. 1 \in code.fits /\ \A k \in code.fits : k \in Nat /\ 1 <= k
  BY <1>1, <1>2 DEF VoiceFailed
<1>4. FirstFit(code.fits) = 1
  BY <1>3 DEF FirstFit, Min
<1>5. VapiReason(code) = VapiRules[FirstFit(code.fits)]
  BY <1>1, <1>3 DEF VapiReason
<1> QED BY <1>2, <1>4, <1>5

LEMMA VoiceBlamed ==
    ASSUME CallAssumption, NEW c, CallLike(c), c.ending # Missing, VoiceFailed \in c.ending.code.fits
    PROVE  Bucket(c) = "error_tts"
<1>1. PICK code \in Codes : c.ending = Reported(code)
  BY DEF CallLike
<1>2. c.ending.code = code /\ c.ending.reason = VapiReason(code)
  BY <1>1 DEF Reported
<1>3. c.ending.reason = "error_tts"
  BY <1>2, VoiceFirst
<1>4. c.rooted
  BY DEF CallLike
<1> QED BY <1>3, <1>4 DEF Bucket

-----------------------------------------------------------------------------
LEMMA CallInvInit == CallInit => CallInv
<1>1. IsFiniteSet({})
  BY FS_EmptySet
<1>2. <<>> \in Seq(ToolRuns) /\ DOMAIN <<>> = {}
  OBVIOUS
<1> SUFFICES ASSUME CallInit PROVE CallInv
  OBVIOUS
<1>3. /\ DOMAIN call = Fields /\ call = [x \in Fields |-> call[x]]
      /\ call.turns = <<>> /\ call.tools = <<>> /\ call.ending = Missing
  BY DEF CallInit, Fields
<1>4. TurnsLike(call.turns)
  BY <1>1, <1>2, <1>3 DEF TurnsLike
<1> QED BY <1>2, <1>3, <1>4 DEF CallInv, CallLike

LEMMA CallInvInductive == ASSUME CallAssumption PROVE CallSpec => []CallInv
<1>1. CallInv /\ [CallNext]_call => CallInv'
  <2>1. CASE CallNext
    BY <2>1, CallNextGrows
  <2>2. CASE UNCHANGED call
    BY <2>2 DEF CallInv
  <2> QED BY <2>1, <2>2
<1> QED BY <1>1, CallInvInit, PTL DEF CallSpec

(* Whatever is said, run, referred to and reported, late, in parts and in    *)
(* any order: a later analysis takes back no grounded statement but a date   *)
(* whose day has changed, no flag about what was said or done and none about *)
(* what was promised before a tool or a transfer; it listens to the agent    *)
(* for nothing, and blames a voice that failed on the voice (detect_claims,  *)
(* analyze_tier1, _prefix_vapi). *)
THEOREM CallAnalysisFindingsStable == CallSpec => FindingsStable
<1> USE CallAssumption
<1> DEFINE Kept ==
      /\ \A p \in Statements(call) :
            Verdict(call, p[1], p[2]) = "grounded" /\ Datable(call, call', p[2]) =>
              Verdict(call', p[1], p[2]) = "grounded"
      /\ LET muted == Muted(call')
         IN \A p \in Statements(call') : Verdict(muted, p[1], p[2]) = Verdict(call', p[1], p[2])
      /\ Lasting(call) \subseteq Lasting(call')
      /\ call.tools = call'.tools /\ NoTransfer(call') => Awaiting(call) \subseteq Awaiting(call')
      /\ (call'.ending # Missing /\ VoiceFailed \in call'.ending.code.fits) =>
           Bucket(call') = "error_tts"
<1>1. CallInv /\ [CallNext]_call => [Kept]_call
  <2> SUFFICES ASSUME CallInv, CallNext PROVE Kept
    OBVIOUS
  <2>1. CallLike(call) /\ CallLike(call') /\ Grown(call, call')
    BY CallNextGrows DEF CallInv
  <2>2. \A p \in Statements(call) :
           Verdict(call, p[1], p[2]) = "grounded" /\ Datable(call, call', p[2]) =>
             Verdict(call', p[1], p[2]) = "grounded"
    BY <2>1, GroundedStays DEF Statements
  <2>3. \A p \in Statements(call') : Verdict(Muted(call'), p[1], p[2]) = Verdict(call', p[1], p[2])
    BY <2>1, MutedVerdict DEF Statements
  <2>4. Lasting(call) \subseteq Lasting(call')
    BY <2>1, LastingStays
  <2>5. call.tools = call'.tools /\ NoTransfer(call') => Awaiting(call) \subseteq Awaiting(call')
    BY <2>1, AwaitingStays
  <2>6. (call'.ending # Missing /\ VoiceFailed \in call'.ending.code.fits) =>
           Bucket(call') = "error_tts"
    BY <2>1, VoiceBlamed
  <2> QED BY <2>2, <2>3, <2>4, <2>5, <2>6
<1> QED BY <1>1, CallInvInductive, PTL DEF CallSpec, FindingsStable
=============================================================================
