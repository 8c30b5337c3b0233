------------------------------ MODULE Delivery ------------------------------
(***************************************************************************)
(* Outbound Standard Webhooks (webhooks/outbound.py over                   *)
(* PostgresWebhookStore): a drainer that has marked an envelope assembled   *)
(* announces the revision's events to the tenant's destinations, and every  *)
(* drain posts what the outbox holds.  A claim is a plain SELECT: no lock   *)
(* and no lease, so the drains of the API and of the worker may hold the    *)
(* same row, and each writes what it made of its own copy.                  *)
(*                                                                         *)
(* A claim takes every row it may (32 at most in the code; instances are    *)
(* smaller), so available_at, which only orders the claim, is left out.     *)
(* Destinations are never removed or disabled by the code.                  *)
(***************************************************************************)
EXTENDS Naturals, FiniteSets, Sequences, SequencesExt, FiniteSetsExt

CONSTANTS
    Processes,
    Revisions,
    Raised,         \* Raised[r]: the types of the events of revision r, in order
    Types,
    Dests,          \* destinations of the tenant
    Wants,          \* Wants[d]: the types destination d subscribes to
    MaxAttempts,    \* attempts at which a row is dead (8)
    MaxFaults       \* bound of the model: failed drains, repeated announcements,
                    \* purges and rotations together

ASSUME DeliveryAssumption ==
    /\ IsFiniteSet(Processes)
    /\ Raised \in [Revisions -> Seq(Types)] /\ Wants \in [Dests -> SUBSET Types]
    /\ MaxAttempts \in Nat \ {0} /\ MaxFaults \in Nat

VARIABLES
    dests,          \* webhook_destinations, in order of creation
    secret,         \* secret[d]: how often d's secret was rotated
    overlap,        \* overlap[d]: the previous secret is still signed with
    trusts,         \* trusts[d]: the secret the receiver of d verifies with
    rows,           \* webhook_outbox, by event id
    pc, todo, hand, \* of each process: its step, what is left to announce of
    posted,         \* which revision, the rows it claimed, the answer to mark
    \* history
    finished, owed, abandoned, purged, accepted, crashes,
    faults          \* faults so far

destVars == <<dests, secret, overlap, trusts>>
procVars == <<pc, todo, hand, posted>>
pastVars == <<finished, owed, abandoned, purged, accepted, crashes, faults>>
vars == <<destVars, rows, procVars, pastVars>>

(* event_id: type, org, call and revision; nothing names the destination.   *)
Events == Revisions \X Types

(* A claimed row is a copy: its attempts, and the secrets it will be signed *)
(* with, are those of the time of the claim.                                *)
Item == [event : Events, dest : Dests, attempts : 0..MaxAttempts,
         version : 0..MaxFaults, signed : SUBSET (0..MaxFaults)]
RowState == [dest : Dests, attempts : 0..MaxAttempts, delivered : BOOLEAN]
Answers == {"ok", "retryable", "permanent"}
Nothing == [item |-> "none"]

TypeOK ==
    /\ dests \in Seq(Dests)
    /\ secret \in [Dests -> 0..MaxFaults]
    /\ overlap \in [Dests -> BOOLEAN]
    /\ trusts \in [Dests -> 0..MaxFaults]
    /\ DOMAIN rows \subseteq Events
    /\ \A e \in DOMAIN rows : rows[e] \in RowState
    /\ pc \in [Processes -> {"idle", "emit", "claim", "send"}]
    /\ todo \in [Processes -> Seq(Events)]
    /\ hand \in [Processes -> SUBSET Item]
    /\ posted \in [Processes -> [item : Item, answer : Answers] \cup {Nothing}]
    /\ finished \subseteq Revisions /\ abandoned \subseteq Events
    /\ owed \subseteq Events
    /\ purged \in [Events -> 0..MaxFaults]
    /\ accepted \in [Events -> Nat]
    /\ crashes \in 0..faults /\ faults \in 0..MaxFaults

Init ==
    /\ dests = <<>>
    /\ secret = [d \in Dests |-> 0] /\ trusts = [d \in Dests |-> 0]
    /\ overlap = [d \in Dests |-> FALSE]
    /\ rows = [e \in {} |-> 0]
    /\ pc = [p \in Processes |-> "idle"]
    /\ todo = [p \in Processes |-> <<>>]
    /\ hand = [p \in Processes |-> {}]
    /\ posted = [p \in Processes |-> Nothing]
    /\ finished = {} /\ abandoned = {} /\ owed = {}
    /\ purged = [e \in Events |-> 0] /\ accepted = [e \in Events |-> 0]
    /\ crashes = 0 /\ faults = 0

Fault == faults < MaxFaults /\ faults' = faults + 1

-----------------------------------------------------------------------------
(* Destinations.                                                           *)

Create(d) ==
    /\ d \notin ToSet(dests)
    /\ dests' = Append(dests, d)
    /\ UNCHANGED <<secret, overlap, trusts, rows, procVars, pastVars>>

(* rotate_secret keeps the one secret before.  The operator is taken to     *)
(* rotate again only when the overlap has passed.                           *)
Rotate(d) ==
    /\ d \in ToSet(dests) /\ ~overlap[d] /\ Fault
    /\ secret' = [secret EXCEPT ![d] = @ + 1]
    /\ overlap' = [overlap EXCEPT ![d] = TRUE]
    /\ UNCHANGED <<dests, trusts, rows, procVars, finished, owed, abandoned, purged,
                   accepted, crashes>>

(* The receiver is given the new secret within the overlap... *)
Adopt(d) ==
    /\ trusts[d] # secret[d]
    /\ trusts' = [trusts EXCEPT ![d] = secret[d]]
    /\ UNCHANGED <<dests, secret, overlap, rows, procVars, pastVars>>

(* ... which ends at previous_secret_expires_at. *)
Expire(d) ==
    /\ overlap[d] /\ trusts[d] = secret[d]
    /\ overlap' = [overlap EXCEPT ![d] = FALSE]
    /\ UNCHANGED <<dests, secret, trusts, rows, procVars, pastVars>>

(* Mutant: the previous secret is dropped at once. *)
SigningCurrent(d) == {secret[d]}

(* The secrets of sign(): the current one and, in the overlap, the previous. *)
Signing(d) == {secret[d]} \cup (IF overlap[d] THEN {secret[d] - 1} ELSE {})

-----------------------------------------------------------------------------
(* Announcing.                                                             *)

(* The places, in order of creation, of the destinations that want type t.  *)
Subscribed(t) == {i \in DOMAIN dests : t \in Wants[dests[i]]}

(* The drainer has marked the envelope assembled: what is to be announced   *)
(* is only in its memory.  An envelope decoded again announces again.       *)
Finish(p, r) ==
    /\ pc[p] = "idle"
    /\ \/ r \notin finished /\ faults' = faults
       \/ r \in finished /\ Fault
    /\ finished' = finished \cup {r}
    /\ LET news == [i \in 1..Len(Raised[r]) |-> <<r, Raised[r][i]>>] IN
         /\ todo' = [todo EXCEPT ![p] = news]
         /\ pc' = [pc EXCEPT ![p] = IF news = <<>> THEN "idle" ELSE "emit"]
         /\ owed' = owed \cup {e \in ToSet(news) : Subscribed(e[2]) # {}}
    /\ UNCHANGED <<destVars, rows, hand, posted, abandoned, purged, accepted, crashes>>

(* Mutant: the first destination that does not want the event ends the loop. *)
EnqueueToFirst(e) ==
    IF dests = <<>> \/ e \in DOMAIN rows \/ e[2] \notin Wants[Head(dests)] THEN rows
    ELSE [f \in DOMAIN rows \cup {e} |->
            IF f = e THEN [dest |-> Head(dests), attempts |-> 0, delivered |-> FALSE]
            ELSE rows[f]]

(* INSERT ... ON CONFLICT (id) DO NOTHING, once per subscribed destination: *)
(* the first one's row is the event's only row.                             *)
Enqueue(e) ==
    LET subscribed == Subscribed(e[2]) IN
    IF subscribed = {} \/ e \in DOMAIN rows THEN rows
    ELSE [f \in DOMAIN rows \cup {e} |->
            IF f = e
            THEN [dest |-> dests[Min(subscribed)], attempts |-> 0, delivered |-> FALSE]
            ELSE rows[f]]

(* emit_standard_event: without any destination it returns, otherwise it    *)
(* goes on to drain_outbound.                                               *)
AfterEmit(p) ==
    IF dests # <<>> THEN "claim" ELSE IF Len(todo[p]) = 1 THEN "idle" ELSE "emit"

Emit(p) ==
    /\ pc[p] = "emit"
    /\ rows' = Enqueue(Head(todo[p]))
    /\ todo' = [todo EXCEPT ![p] = Tail(@)]
    /\ pc' = [pc EXCEPT ![p] = AfterEmit(p)]
    /\ UNCHANGED <<destVars, hand, posted, pastVars>>

-----------------------------------------------------------------------------
(* Draining.                                                               *)

(* Mutant: delivered rows are claimed again. *)
OpenDelivered == {e \in DOMAIN rows : rows[e].attempts < MaxAttempts}

Open == {e \in DOMAIN rows : ~rows[e].delivered /\ rows[e].attempts < MaxAttempts}

Copy(e) == [event |-> e, dest |-> rows[e].dest, attempts |-> rows[e].attempts,
            version |-> secret[rows[e].dest], signed |-> Signing(rows[e].dest)]

AfterDrain(p) == IF todo[p] = <<>> THEN "idle" ELSE "emit"

(* drain_once ends in a drain_outbound too; one that finds nothing is not a *)
(* step.                                                                   *)
Claim(p) ==
    /\ pc[p] = "claim" \/ (pc[p] = "idle" /\ Open # {})
    /\ hand' = [hand EXCEPT ![p] = {Copy(e) : e \in Open}]
    /\ pc' = [pc EXCEPT ![p] = IF Open = {} THEN AfterDrain(p) ELSE "send"]
    /\ UNCHANGED <<destVars, rows, todo, posted, pastVars>>

(* deliver(): a receiver that cannot verify the signature answers 401, and  *)
(* only 408, 425, 429 and the 5xx of RETRYABLE_STATUS are retried.          *)
Post(p, i, answer) ==
    /\ pc[p] = "send" /\ posted[p] = Nothing /\ i \in hand[p]
    /\ trusts[i.dest] \notin i.signed => answer = "permanent"
    /\ hand' = [hand EXCEPT ![p] = @ \ {i}]
    /\ posted' = [posted EXCEPT ![p] = [item |-> i, answer |-> answer]]
    /\ accepted' = [accepted EXCEPT ![i.event] = @ + IF answer = "ok" THEN 1 ELSE 0]
    /\ UNCHANGED <<destVars, rows, pc, todo, finished, owed, abandoned, purged,
                   crashes, faults>>

(* Mutant: a retry is not counted. *)
MarkedUncounted(row, item, answer) ==
    CASE answer = "ok" -> [row EXCEPT !.delivered = TRUE]
      [] answer = "retryable" -> row
      [] answer = "permanent" -> [row EXCEPT !.attempts = MaxAttempts]

(* What the answer makes of a row: attempts is written from the copy. *)
Marked(row, item, answer) ==
    CASE answer = "ok" -> [row EXCEPT !.delivered = TRUE]
      [] answer = "retryable" -> [row EXCEPT !.attempts = item.attempts + 1]
      [] answer = "permanent" -> [row EXCEPT !.attempts = MaxAttempts]

(* mark_delivered, mark_failed: UPDATE ... WHERE id. *)
Mark(p) ==
    /\ posted[p] # Nothing
    /\ LET item == posted[p].item IN
       rows' = [e \in DOMAIN rows |->
                  IF e = item.event THEN Marked(rows[e], item, posted[p].answer) ELSE rows[e]]
    /\ posted' = [posted EXCEPT ![p] = Nothing]
    /\ pc' = [pc EXCEPT ![p] = IF hand[p] = {} THEN AfterDrain(p) ELSE "send"]
    /\ UNCHANGED <<destVars, todo, hand, pastVars>>

(* The process dies, or an exception leaves emit_standard_event and is      *)
(* swallowed (drain.py:402): what it held is forgotten either way, and the  *)
(* envelope is assembled already.                                           *)
Abandon(p) ==
    /\ pc[p] # "idle" /\ Fault /\ crashes' = crashes + 1
    /\ abandoned' = abandoned \cup ToSet(todo[p])
    /\ pc' = [pc EXCEPT ![p] = "idle"]
    /\ todo' = [todo EXCEPT ![p] = <<>>]
    /\ hand' = [hand EXCEPT ![p] = {}]
    /\ posted' = [posted EXCEPT ![p] = Nothing]
    /\ UNCHANGED <<destVars, rows, finished, owed, purged, accepted>>

(* purge_for_call, of a deletion of the call of revision r. *)
Purge(r) ==
    /\ \E e \in DOMAIN rows : e[1] = r
    /\ Fault
    /\ purged' = [e \in Events |-> purged[e] + IF e[1] = r /\ e \in DOMAIN rows THEN 1 ELSE 0]
    /\ rows' = [e \in {f \in DOMAIN rows : f[1] # r} |-> rows[e]]
    /\ UNCHANGED <<destVars, procVars, finished, owed, abandoned, accepted, crashes>>

Work(p) ==
    \/ Emit(p) \/ Claim(p) \/ Mark(p)
    \/ \E i \in hand[p], answer \in Answers : Post(p, i, answer)

Next ==
    \/ \E d \in Dests : Create(d) \/ Rotate(d) \/ Adopt(d) \/ Expire(d)
    \/ \E p \in Processes :
         Work(p) \/ Abandon(p) \/ \E r \in Revisions : Finish(p, r)
    \/ \E r \in Revisions : Purge(r)

Spec == Init /\ [][Next]_vars

(* The worker's loop drains again and again, and a drain goes on. *)
Fairness == \A p \in Processes : WF_vars(Work(p))
FairSpec == Spec /\ Fairness

-----------------------------------------------------------------------------
(* Properties.                                                             *)

(* "no second logical event on finalize retry" (docs/reference/security.md): *)
(* however often a revision is announced, a receiver accepts an event once, *)
(* plus once for every drain that held the row while another delivered it   *)
(* and once for every drain that died between the post and its mark.        *)
DuplicatesBounded ==
    \A e \in Events :
        accepted[e] <= crashes + Cardinality(Processes) * (1 + purged[e])

(* An event of an assembled revision that a destination was subscribed to   *)
(* has its row, unless a deletion took it, or is still to be announced by a *)
(* live drainer; only a drainer that failed between mark_assembled and the  *)
(* insert loses one.                                                        *)
AnnouncedUnlessAbandoned ==
    \A e \in owed :
        \/ e \in DOMAIN rows \/ purged[e] > 0 \/ e \in abandoned
        \/ \E p \in Processes : e \in ToSet(todo[p])

(* A rotation refuses nothing by itself: a row claimed since the last       *)
(* rotation of its destination is signed with a secret the receiver trusts, *)
(* before and after it takes up the new one.                                *)
RotationKeepsTrust ==
    \A p \in Processes : \A i \in hand[p] :
        i.version = secret[i.dest] => trusts[i.dest] \in i.signed

(* Retries end: however the drains overwrite each other's attempts, from    *)
(* some point on every row is delivered or dead.                            *)
OutboxSettles == <>[](Open = {})
=============================================================================
