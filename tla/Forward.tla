------------------------------ MODULE Forward -------------------------------
(***************************************************************************)
(* The OTLP forward queue (otel/forward_queue.py over PostgresForwardQueue, *)
(* store/forward.py): every decoded OTLP batch leaves a job, and every drain *)
(* posts the raw bytes of the jobs it claims to the tenant's destinations.  *)
(* FOR UPDATE SKIP LOCKED holds for the claim's own statement only, so two  *)
(* drains may hold a job.  The attempts of a job only lengthen its backoff, *)
(* nothing bounds them, and they are left out.                              *)
(*                                                                         *)
(* RuntimeState.destinations is filled by its owner; no endpoint and no     *)
(* setting of the repository does, so that a stock deployment is the        *)
(* instance with Targets = {}.                                              *)
(***************************************************************************)
EXTENDS Naturals

CONSTANTS
    Forwarders, Jobs,
    Targets,        \* the destinations of the jobs' tenant
    MaxRefusals,    \* bound of the model: retryable answers
    MaxTroubles     \* bound of the model: crashes, lost objects, purges

VARIABLES
    queue,      \* queue[j]: "absent", "ready", "waiting" (backoff), "delivered"
    object,     \* jobs whose raw object is in the object store
    claimed,    \* claimed[p]: jobs p holds and has not begun
    job,        \* job[p]: the job p sends, its raw bytes, and its retry flag
    left,       \* left[p]: the destinations job[p] has still to be sent to
    \* history
    got,        \* got[j]: destinations that took the original bytes of j
    declined,   \* declined[j]: destinations that refused j for good
    blank,      \* jobs that were sent without their bytes
    lost,       \* jobs whose object was deleted
    refusals, troubles

sendVars == <<claimed, job, left>>
takenVars == <<got, declined, blank, lost>>
forwardVars == <<queue, object, sendVars, takenVars, refusals, troubles>>

NoJob == [id |-> "none"]
JobState == {"absent", "ready", "waiting", "delivered"}
Copies == [id : Jobs, raw : BOOLEAN, retry : BOOLEAN]

ForwardTypeOK ==
    /\ queue \in [Jobs -> JobState] /\ object \subseteq Jobs
    /\ claimed \in [Forwarders -> SUBSET Copies]
    /\ job \in [Forwarders -> Copies \cup {NoJob}]
    /\ left \in [Forwarders -> SUBSET Targets]
    /\ got \in [Jobs -> SUBSET Targets] /\ declined \in [Jobs -> SUBSET Targets]
    /\ blank \subseteq Jobs /\ lost \subseteq Jobs
    /\ refusals \in 0..MaxRefusals /\ troubles \in 0..MaxTroubles

ForwardInit ==
    /\ queue = [j \in Jobs |-> "absent"] /\ object = {}
    /\ claimed = [p \in Forwarders |-> {}]
    /\ job = [p \in Forwarders |-> NoJob]
    /\ left = [p \in Forwarders |-> {}]
    /\ got = [j \in Jobs |-> {}] /\ declined = [j \in Jobs |-> {}]
    /\ blank = {} /\ lost = {}
    /\ refusals = 0 /\ troubles = 0

Trouble == troubles < MaxTroubles /\ troubles' = troubles + 1
Idle(p) == claimed[p] = {} /\ job[p] = NoJob

-----------------------------------------------------------------------------

(* enqueue_raw_batch: the object is put (again) before the row. *)
EnqueueBatch(j) ==
    /\ queue[j] = "absent" /\ j \notin lost
    /\ object' = object \cup {j}
    /\ queue' = [queue EXCEPT ![j] = "ready"]
    /\ UNCHANGED <<sendVars, takenVars, refusals, troubles>>

Claimable == {j \in Jobs : queue[j] = "ready"}

(* The bytes are read with the claim; an object that is gone reads as b"".  *)
ClaimJobs(p) ==
    /\ Idle(p) /\ Claimable # {}
    /\ claimed' = [claimed EXCEPT ![p] =
         {[id |-> j, raw |-> j \in object, retry |-> FALSE] : j \in Claimable}]
    /\ UNCHANGED <<queue, object, job, left, takenVars, refusals, troubles>>

Begin(p, c) ==
    /\ job[p] = NoJob /\ c \in claimed[p]
    /\ claimed' = [claimed EXCEPT ![p] = @ \ {c}]
    /\ job' = [job EXCEPT ![p] = c]
    /\ left' = [left EXCEPT ![p] = Targets]
    /\ UNCHANGED <<queue, object, takenVars, refusals, troubles>>

(* forward_to_destination, with an answer of the 2xx, of RETRYABLE_STATUS   *)
(* or a network error, or any other. *)
Send(p, t, answer) ==
    /\ job[p] # NoJob /\ t \in left[p]
    /\ LET j == job[p].id IN
         /\ left' = [left EXCEPT ![p] = @ \ {t}]
         /\ blank' = IF job[p].raw THEN blank ELSE blank \cup {j}
         /\ got' = IF answer = "ok" THEN [got EXCEPT ![j] = @ \cup {t}] ELSE got
         /\ declined' = IF answer = "permanent" THEN [declined EXCEPT ![j] = @ \cup {t}]
                        ELSE declined
         /\ job' = IF answer = "retryable" THEN [job EXCEPT ![p].retry = TRUE] ELSE job
         /\ IF answer = "retryable"
            THEN refusals < MaxRefusals /\ refusals' = refusals + 1
            ELSE refusals' = refusals
    /\ UNCHANGED <<queue, object, claimed, lost, troubles>>

(* Mutant: a partly delivered job counts as delivered. *)
OutcomeDelivered(c) == "delivered"

(* One destination to be retried sends the whole job again. *)
Outcome(c) == IF c.retry THEN "waiting" ELSE "delivered"

(* requeue or mark_delivered, UPDATE ... WHERE id.  delivered_at, once set,  *)
(* stays set: another drain's requeue only moves available_at.              *)
Settle(p) ==
    /\ job[p] # NoJob /\ left[p] = {}
    /\ LET j == job[p].id IN
       queue' = IF queue[j] \in {"absent", "delivered"} THEN queue
                ELSE [queue EXCEPT ![j] = Outcome(job[p])]
    /\ job' = [job EXCEPT ![p] = NoJob]
    /\ UNCHANGED <<object, claimed, left, takenVars, refusals, troubles>>

(* available_at passes. *)
Wake(j) ==
    /\ queue[j] = "waiting" /\ queue' = [queue EXCEPT ![j] = "ready"]
    /\ UNCHANGED <<object, sendVars, takenVars, refusals, troubles>>

Crash(p) ==
    /\ ~Idle(p) /\ Trouble
    /\ claimed' = [claimed EXCEPT ![p] = {}]
    /\ job' = [job EXCEPT ![p] = NoJob]
    /\ left' = [left EXCEPT ![p] = {}]
    /\ UNCHANGED <<queue, object, takenVars, refusals>>

(* sweep_raw, at the end of raw_retention_days. *)
LoseObject(j) ==
    /\ j \in object /\ Trouble
    /\ object' = object \ {j} /\ lost' = lost \cup {j}
    /\ UNCHANGED <<queue, sendVars, got, declined, blank, refusals>>

Forwarding(p) ==
    \/ ClaimJobs(p) \/ Settle(p) \/ \E c \in claimed[p] : Begin(p, c)
    \/ \E t \in left[p], answer \in {"ok", "retryable", "permanent"} : Send(p, t, answer)

ForwardNext ==
    \/ \E j \in Jobs : EnqueueBatch(j) \/ Wake(j) \/ LoseObject(j)
    \/ \E p \in Forwarders : Forwarding(p) \/ Crash(p)

ForwardSpec == ForwardInit /\ [][ForwardNext]_forwardVars

(* drain_once ends in drain_forward_queue; time passes. *)
ForwardFairness ==
    /\ \A p \in Forwarders : WF_forwardVars(Forwarding(p))
    /\ \A j \in Jobs : WF_forwardVars(Wake(j))
FairForwardSpec == ForwardSpec /\ ForwardFairness

-----------------------------------------------------------------------------
(* Properties.                                                             *)

(* "One destination failing does not block the others" and none is skipped:  *)
(* a delivered job was taken, or refused for good, by every destination.  And *)
(* "Raw forward = original bytes" (otel/forwarder.py:14): only a job whose    *)
(* object was deleted meanwhile is sent without its bytes. *)
ForwardedWhole ==
    /\ \A j \in Jobs : queue[j] = "delivered" => got[j] \cup declined[j] = Targets
    /\ blank \subseteq lost

(* A job of an acknowledged batch is delivered once the destinations stop   *)
(* answering that it should be retried.                                     *)
EventuallyForwarded ==
    \A j \in Jobs : queue[j] # "absent" ~> queue[j] = "delivered"
=============================================================================
