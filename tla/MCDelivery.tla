----------------------------- MODULE MCDelivery -----------------------------
(* Small instances of Forward and of Delivery.  The two queues share no      *)
(* state: a behaviour drains the one or the other.                          *)
EXTENDS Forward, Delivery, TLC

CONSTANTS p1, p2, r1, d1, d2, j1

VARIABLE side       \* the queue this behaviour is about

(* A finished call that also breaches the latency objective; one receiver    *)
(* for each kind of call event, one that wants neither of these. *)
OneCall == r1 :> <<"call.finalized", "slo.breached">>
Split == d1 :> {"flag.raised"} @@ d2 :> {"call.finalized"}

MCInit == Init /\ ForwardInit /\ side \in {"hooks", "otlp"}

MCNext ==
    \/ /\ side = "hooks" /\ Next
       /\ UNCHANGED <<forwardVars, side>>
    \/ /\ side = "otlp" /\ ForwardNext
       /\ UNCHANGED <<vars, side>>

MCSpec == MCInit /\ [][MCNext]_<<vars, forwardVars, side>> /\ Fairness /\ ForwardFairness

(* Both queues of a drain come to their end. *)
QueuesSettle == OutboxSettles /\ EventuallyForwarded
=============================================================================
