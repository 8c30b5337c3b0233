------------------------------- MODULE Outbox -------------------------------
(***************************************************************************)
(* The inbox and its transactional outbox (PostgresInbox, store/postgres.py) *)
(* under the processes that use it: receivers that accept deliveries and    *)
(* redeliveries, workers that claim batches under a 30 second lease and mark *)
(* each envelope assembled or failed, replays, deletions, and the operator  *)
(* who clears the dead-letter queue.  What a worker does between its claim  *)
(* and its mark is module Promotion's subject; here it is three looks: at   *)
(* the state, at the tombstones, and at the tombstones again.              *)
(*                                                                         *)
(* Each action is one transaction.  Time is two bits of a row: whether its  *)
(* lease still runs and whether its backoff has passed.                    *)
(***************************************************************************)
EXTENDS Naturals, FiniteSets

CONSTANTS
    Envelopes, Workers,
    Orgs, Org,          \* Org[e]: the tenant of envelope e
    Calls, Call,        \* Call[e]: the call its events are of
    Otlp,               \* OTLP batches: their rows carry no source_call_id
    Conflicted,         \* OTLP batches refused for a span identity conflict
    Limit,              \* claim_outbox(limit)
    ClaimLimit,         \* rows with this many attempts are not claimed (16)
    DlqLimit,           \* attempts at which a failure dead-letters (8)
    MaxFaults           \* bound of the model: crashes, leases outlived, redeliveries,
                        \* replays, purges

NoEnvelope == "none"

ASSUME OutboxAssumption ==
    /\ IsFiniteSet(Envelopes) /\ NoEnvelope \notin Envelopes
    /\ Org \in [Envelopes -> Orgs]
    /\ Call \in [Envelopes -> Calls]
    /\ Conflicted \subseteq Otlp /\ Otlp \subseteq Envelopes
    /\ Limit \in Nat \ {0}
    /\ ClaimLimit \in Nat /\ DlqLimit \in 1..ClaimLimit
    /\ MaxFaults \in Nat

VARIABLES
    estate,         \* raw_envelopes.state, "absent" before the row exists
    outbox,         \* the outbox rows, by envelope
    dlq,            \* decode_dlq
    tombstones,     \* calls with a tombstone
    purging,        \* deletions that wrote their tombstone and not yet purged
    arriving,       \* deliveries past their look at the tombstones
    refused,        \* conflicting batches accepted and not yet dropped
    batch,          \* batch[w]: claimed by w, still to be processed
    current,        \* current[w]: the envelope w processes
    step,           \* step[w]: where in persist_envelope w is
    \* history
    faults, fails, reopened, dropped

rowVars == <<estate, outbox, dlq>>
eraseVars == <<tombstones, purging>>
receiveVars == <<arriving, refused>>
workVars == <<batch, current, step>>
history == <<faults, fails, reopened, dropped>>
vars == <<rowVars, eraseVars, receiveVars, workVars, history>>

EState == {"absent", "queued", "failed", "assembled", "tombstoned"}
Steps == {"idle", "gate", "decode", "check", "mark"}

(* A row: attempts, whether leased_until lies ahead, whether available_at   *)
(* has passed, and the rows with a smaller id.                              *)
Row == [attempts : 0..ClaimLimit, leased : BOOLEAN, ready : BOOLEAN,
        older : SUBSET Envelopes]

TypeOK ==
    /\ estate \in [Envelopes -> EState]
    /\ DOMAIN outbox \subseteq Envelopes
    /\ \A e \in DOMAIN outbox : outbox[e] \in Row
    /\ dlq \subseteq Envelopes
    /\ tombstones \subseteq Calls /\ purging \subseteq Calls
    /\ arriving \subseteq Envelopes /\ refused \subseteq Conflicted
    /\ batch \in [Workers -> SUBSET Envelopes]
    /\ current \in [Workers -> Envelopes \cup {NoEnvelope}]
    /\ step \in [Workers -> Steps]
    /\ faults \in 0..MaxFaults
    /\ fails \in [Envelopes -> 0..DlqLimit]
    /\ reopened \subseteq Envelopes /\ dropped \subseteq Envelopes

Init ==
    /\ estate = [e \in Envelopes |-> "absent"]
    /\ outbox = [e \in {} |-> 0]
    /\ dlq = {}
    /\ tombstones = {} /\ purging = {}
    /\ arriving = {} /\ refused = {}
    /\ batch = [w \in Workers |-> {}]
    /\ current = [w \in Workers |-> NoEnvelope]
    /\ step = [w \in Workers |-> "idle"]
    /\ faults = 0
    /\ fails = [e \in Envelopes |-> 0]
    /\ reopened = {} /\ dropped = {}

Rows == DOMAIN outbox
Holders(e) == {w \in Workers : e \in batch[w] \/ current[w] = e}
Fault == faults < MaxFaults /\ faults' = faults + 1

(* The envelopes a tombstone for call c can name in raw_envelopes. *)
Named(c) == {e \in Envelopes \ Otlp : Call[e] = c}

-----------------------------------------------------------------------------
(* The rows.                                                               *)

Put(e, row) == [f \in Rows \cup {e} |-> IF f = e THEN row ELSE outbox[f]]
Without(S) == [f \in Rows \ S |-> [outbox[f] EXCEPT !.older = @ \ S]]

(* INSERT INTO outbox ... ON CONFLICT: a row that exists is made available  *)
(* and loses its lease; its attempts stay.                                  *)
Enqueued(e) ==
    Put(e, IF e \in Rows THEN [outbox[e] EXCEPT !.leased = FALSE, !.ready = TRUE]
           ELSE [attempts |-> 0, leased |-> FALSE, ready |-> TRUE, older |-> Rows])

(* Mutant: rows under a lease are claimed as well. *)
ClaimableLeased ==
    {e \in Rows : /\ outbox[e].ready
                  /\ estate[e] \notin {"assembled", "tombstoned"}
                  /\ outbox[e].attempts < ClaimLimit}

(* Mutant: a row is claimed however often it was claimed before. *)
ClaimableForever ==
    {e \in Rows : /\ outbox[e].ready /\ ~outbox[e].leased
                  /\ estate[e] \notin {"assembled", "tombstoned"}}

Claimable ==
    {e \in Rows : /\ outbox[e].ready /\ ~outbox[e].leased
                  /\ estate[e] \notin {"assembled", "tombstoned"}
                  /\ outbox[e].attempts < ClaimLimit}

(* Round robin over the tenants, each in the order of its row ids. *)
PerOrg(e) == Cardinality({f \in Claimable \cap outbox[e].older : Org[f] = Org[e]})
Before(f, e) ==
    \/ PerOrg(f) < PerOrg(e)
    \/ PerOrg(f) = PerOrg(e) /\ f \in outbox[e].older

(* Mutant: by row id alone, as if there were one tenant. *)
RankedByAge ==
    {e \in Claimable : Cardinality(Claimable \cap outbox[e].older) < Limit}

Ranked == {e \in Claimable : Cardinality({f \in Claimable : Before(f, e)}) < Limit}

MarkAssembled(e) ==
    /\ estate' = [estate EXCEPT ![e] = "assembled"]
    /\ outbox' = Without({e})
    /\ dlq' = dlq

(* Mutant: a failure that gives up leaves nothing in the dead-letter queue. *)
MarkFailedSilently(e) ==
    LET tried == IF e \in Rows THEN outbox[e].attempts + 1 ELSE 0
    IN  /\ estate' = [estate EXCEPT ![e] = IF @ = "assembled" THEN @ ELSE "failed"]
        /\ outbox' = IF tried >= DlqLimit THEN Without({e})
                     ELSE IF e \in Rows
                     THEN Put(e, [outbox[e] EXCEPT !.attempts = tried, !.leased = FALSE, !.ready = FALSE])
                     ELSE Enqueued(e)
        /\ dlq' = dlq

(* Mutant: a failure is retried however often it failed. *)
MarkFailedForever(e) ==
    LET tried == IF e \in Rows THEN outbox[e].attempts + 1 ELSE 0
    IN  /\ estate' = [estate EXCEPT ![e] = IF @ = "assembled" THEN @ ELSE "failed"]
        /\ outbox' = IF e \in Rows
                     THEN Put(e, [outbox[e] EXCEPT !.attempts = tried, !.leased = FALSE, !.ready = FALSE])
                     ELSE Enqueued(e)
        /\ dlq' = dlq

(* mark_failed, whatever the state: an assembled envelope keeps it, and in  *)
(* the absence of a row one is inserted.                                    *)
MarkFailed(e) ==
    LET tried == IF e \in Rows THEN outbox[e].attempts + 1 ELSE 0
        exhausted == tried >= DlqLimit
        retried == [outbox[e] EXCEPT !.attempts = tried, !.leased = FALSE, !.ready = FALSE]
    IN  /\ estate' = [estate EXCEPT ![e] = IF @ = "assembled" THEN @ ELSE "failed"]
        /\ \/ exhausted /\ outbox' = Without({e}) /\ dlq' = dlq \cup {e}
           \/ ~exhausted /\ e \in Rows /\ outbox' = Put(e, retried) /\ dlq' = dlq
           \/ e \notin Rows /\ outbox' = Enqueued(e) /\ dlq' = dlq

(* inbox.tombstone for call c: the rows it names by their source_call_id. *)
TombstoneCall(c) ==
    /\ estate' = [e \in Envelopes |->
                    IF e \in Named(c) /\ estate[e] # "absent" THEN "tombstoned" ELSE estate[e]]
    /\ outbox' = Without(Named(c))
    /\ tombstones' = tombstones \cup {c}
    /\ dlq' = dlq

-----------------------------------------------------------------------------
(* Receivers.                                                              *)

(* receive_webhook and the accept it ends in look for a tombstone of the    *)
(* source call id, which an OTLP batch does not have; the lock they take on *)
(* the tombstones they find keeps none from being written after the look.   *)
Look(e) ==
    /\ e \in Otlp \/ Call[e] \notin tombstones
    /\ e \notin arriving \cup refused
    /\ estate[e] \in {"absent", "queued", "failed"}
    /\ IF estate[e] = "absent"
       THEN UNCHANGED <<faults, reopened>>
       ELSE Fault /\ reopened' = reopened \cup {e}
    /\ arriving' = arriving \cup {e}
    /\ UNCHANGED <<rowVars, eraseVars, refused, workVars, fails, dropped>>

(* accept, for a first delivery and for a redelivery.  A redelivery of what *)
(* is assembled or tombstoned changes nothing.                              *)
Accept(e) ==
    /\ e \in arriving
    /\ arriving' = arriving \ {e}
    /\ \/ /\ estate[e] \in {"assembled", "tombstoned"}
          /\ UNCHANGED <<estate, outbox, dropped, refused>>
       \/ /\ estate[e] \in {"absent", "queued", "failed"}
          /\ estate' = [estate EXCEPT ![e] = IF @ = "absent" THEN "queued" ELSE @]
          /\ outbox' = Enqueued(e)
          /\ dropped' = dropped \ {e}
          /\ refused' = refused \cup ({e} \cap Conflicted)
    /\ UNCHANGED <<dlq, eraseVars, workVars, faults, fails, reopened>>

(* receive_otlp_batch takes a conflicting batch out of the outbox again, in *)
(* a transaction of its own: a worker may have claimed it by then.          *)
DropConflicting(e) ==
    /\ e \in refused
    /\ refused' = refused \ {e}
    /\ outbox' = Without({e})
    /\ dropped' = dropped \cup {e}
    /\ UNCHANGED <<estate, dlq, eraseVars, arriving, workVars, faults, fails, reopened>>

(* The receiver dies before it gets there. *)
ReceiverDies(e) ==
    /\ e \in refused
    /\ refused' = refused \ {e}
    /\ Fault
    /\ UNCHANGED <<rowVars, eraseVars, arriving, workVars, fails, reopened, dropped>>

-----------------------------------------------------------------------------
(* Workers.                                                                *)

Claim(w) ==
    /\ step[w] = "idle" /\ batch[w] = {}
    /\ Ranked # {}
    /\ batch' = [batch EXCEPT ![w] = Ranked]
    /\ outbox' = [e \in Rows |-> IF e \in Ranked
                    THEN [outbox[e] EXCEPT !.leased = TRUE, !.attempts = @ + 1] ELSE outbox[e]]
    /\ UNCHANGED <<estate, dlq, eraseVars, receiveVars, current, step, history>>

(* The next of the batch, in the order the UPDATE returned; one that is     *)
(* assembled by now is skipped.                                             *)
Take(w, e) ==
    /\ step[w] = "idle" /\ e \in batch[w]
    /\ batch' = [batch EXCEPT ![w] = @ \ {e}]
    /\ IF estate[e] = "assembled"
       THEN UNCHANGED <<current, step>>
       ELSE current' = [current EXCEPT ![w] = e] /\ step' = [step EXCEPT ![w] = "gate"]
    /\ UNCHANGED <<rowVars, eraseVars, receiveVars, history>>

Goto(w, label) == step' = [step EXCEPT ![w] = label] /\ UNCHANGED <<batch, current>>

Finish(w) ==
    /\ step' = [step EXCEPT ![w] = "idle"]
    /\ current' = [current EXCEPT ![w] = NoEnvelope]
    /\ UNCHANGED batch

(* Mutant: the worker skips the envelope of a deleted call and does no more. *)
GateSkips(w) ==
    /\ step[w] = "gate"
    /\ IF Call[current[w]] \in tombstones /\ current[w] \notin Otlp
       THEN Finish(w)
       ELSE Goto(w, "decode")
    /\ UNCHANGED <<rowVars, eraseVars, receiveVars, history>>

(* The tombstones, by what the row says of the call. *)
Gate(w) ==
    LET e == current[w]
    IN  /\ step[w] = "gate"
        /\ \/ /\ Call[e] \in tombstones /\ e \notin Otlp
              /\ TombstoneCall(Call[e])
              /\ Finish(w)
           \/ /\ Call[e] \notin tombstones \/ e \in Otlp
              /\ Goto(w, "decode")
              /\ UNCHANGED <<rowVars, tombstones>>
        /\ UNCHANGED <<purging, receiveVars, history>>

(* Decoded, the events name the call.  A webhook is looked up once more     *)
(* before the fold; an OTLP batch whose trace is not complete is marked     *)
(* assembled at once, its spans now kept by the trace assembler.            *)
Decode(w) ==
    LET e == current[w]
    IN  /\ step[w] = "decode"
        /\ \/ /\ e \notin Otlp /\ Call[e] \in tombstones
              /\ TombstoneCall(Call[e])
              /\ Finish(w)
           \/ /\ e \in Otlp \/ Call[e] \notin tombstones
              /\ Goto(w, "check")
              /\ UNCHANGED <<rowVars, tombstones>>
           \/ /\ e \in Otlp
              /\ MarkAssembled(e)
              /\ Finish(w)
              /\ UNCHANGED tombstones
        /\ UNCHANGED <<purging, receiveVars, history>>

(* _after_promote. *)
Check(w) ==
    LET e == current[w]
    IN  /\ step[w] = "check"
        /\ \/ /\ Call[e] \in tombstones
              /\ TombstoneCall(Call[e])
              /\ Finish(w)
           \/ /\ Call[e] \notin tombstones
              /\ Goto(w, "mark")
              /\ UNCHANGED <<rowVars, tombstones>>
        /\ UNCHANGED <<purging, receiveVars, history>>

Mark(w) ==
    /\ step[w] = "mark"
    /\ MarkAssembled(current[w])
    /\ Finish(w)
    /\ UNCHANGED <<eraseVars, receiveVars, history>>

(* An exception, a missing body, a missing plugin or mapper, a conflict or  *)
(* an uncovered frontier.                                                   *)
Fail(w) ==
    LET e == current[w]
    IN  /\ step[w] # "idle"
        /\ MarkFailed(e)
        /\ fails' = [fails EXCEPT ![e] = IF @ < DlqLimit THEN @ + 1 ELSE @]
        /\ Finish(w)
        /\ UNCHANGED <<eraseVars, receiveVars, faults, reopened, dropped>>

(* mark_failed itself fails: the worker logs it and goes on. *)
Abandon(w) ==
    /\ step[w] # "idle"
    /\ Finish(w)
    /\ Fault
    /\ UNCHANGED <<rowVars, eraseVars, receiveVars, fails, reopened, dropped>>

(* The process dies with its batch and is started again. *)
Crash(w) ==
    /\ step[w] # "idle" \/ batch[w] # {}
    /\ batch' = [batch EXCEPT ![w] = {}]
    /\ current' = [current EXCEPT ![w] = NoEnvelope]
    /\ step' = [step EXCEPT ![w] = "idle"]
    /\ Fault
    /\ UNCHANGED <<rowVars, eraseVars, receiveVars, fails, reopened, dropped>>

(* A lease runs out when its worker is gone, or under the worker: a batch   *)
(* of 32 may take longer than 30 seconds.                                   *)
LeaseExpires(e) ==
    /\ e \in Rows /\ outbox[e].leased
    /\ outbox' = [outbox EXCEPT ![e].leased = FALSE]
    /\ \/ Holders(e) = {} /\ UNCHANGED <<faults, reopened>>
       \/ Holders(e) # {} /\ Fault /\ reopened' = reopened \cup {e}
    /\ UNCHANGED <<estate, dlq, eraseVars, receiveVars, workVars, fails, dropped>>

BackoffPasses(e) ==
    /\ e \in Rows /\ ~outbox[e].ready
    /\ outbox' = [outbox EXCEPT ![e].ready = TRUE]
    /\ UNCHANGED <<estate, dlq, eraseVars, receiveVars, workVars, history>>

-----------------------------------------------------------------------------
(* Operators.                                                              *)

(* Mutant: the state is reset and no work is queued. *)
RequeueStateOnly(e) ==
    /\ estate[e] \notin {"absent", "tombstoned"}
    /\ estate' = [estate EXCEPT ![e] = "queued"]
    /\ Fault
    /\ reopened' = reopened \cup {e}
    /\ UNCHANGED <<outbox, dlq, eraseVars, receiveVars, workVars, fails, dropped>>

(* requeue, of a replay. *)
Requeue(e) ==
    /\ estate[e] \notin {"absent", "tombstoned"}
    /\ estate' = [estate EXCEPT ![e] = "queued"]
    /\ outbox' = Enqueued(e)
    /\ Fault
    /\ reopened' = reopened \cup {e}
    /\ dropped' = dropped \ {e}
    /\ UNCHANGED <<dlq, eraseVars, receiveVars, workVars, fails>>

(* apply_deletion: the tombstone, then _purge_queues. *)
DeleteCall(c) ==
    /\ c \notin tombstones
    /\ TombstoneCall(c)
    /\ purging' = purging \cup {c}
    /\ UNCHANGED <<receiveVars, workVars, history>>

PurgeQueues(c) ==
    /\ c \in purging
    /\ purging' = purging \ {c}
    /\ outbox' = Without(Named(c))
    /\ dlq' = dlq \ Named(c)
    /\ UNCHANGED <<estate, tombstones, receiveVars, workVars, history>>

(* The operator clears the dead-letter queue of a tenant (POST /v1/ui/dlq/purge). *)
PurgeDlq(o) ==
    LET cleared == {e \in dlq : Org[e] = o}
    IN  /\ cleared # {}
        /\ dlq' = dlq \ cleared
        /\ dropped' = dropped \cup (cleared \ Rows)
        /\ Fault
        /\ UNCHANGED <<estate, outbox, eraseVars, receiveVars, workVars, fails, reopened>>

-----------------------------------------------------------------------------
Work(w) ==
    \/ Claim(w)
    \/ \E e \in Envelopes : Take(w, e)
    \/ Gate(w) \/ Decode(w) \/ Check(w) \/ Mark(w) \/ Fail(w)

Next ==
    \/ \E w \in Workers : Work(w) \/ Abandon(w) \/ Crash(w)
    \/ \E e \in Envelopes :
          \/ Look(e) \/ Accept(e) \/ DropConflicting(e) \/ ReceiverDies(e)
          \/ LeaseExpires(e) \/ BackoffPasses(e) \/ Requeue(e)
    \/ \E c \in Calls : DeleteCall(c) \/ PurgeQueues(c)
    \/ \E o \in Orgs : PurgeDlq(o)

Spec == Init /\ [][Next]_vars

(* Workers poll for as long as the service runs and a restarted one starts  *)
(* with nothing; each step of theirs has a deadline.  Leases and backoffs   *)
(* are spans of time.  A receiver or a deletion finishes unless it dies.    *)
Fairness ==
    /\ \A w \in Workers : WF_vars(Work(w))
    /\ \A e \in Envelopes :
          /\ WF_vars(LeaseExpires(e)) /\ WF_vars(BackoffPasses(e))
          /\ WF_vars(Accept(e)) /\ WF_vars(DropConflicting(e))
    /\ \A c \in Calls : WF_vars(PurgeQueues(c))

FairSpec == Spec /\ Fairness

-----------------------------------------------------------------------------
(* Properties.                                                             *)

(* Accepted work is never forgotten: an envelope that is neither assembled  *)
(* nor of a deleted call has a row that asks for it, or is dead-lettered,   *)
(* or was refused or cleared by hand.  Every transaction that ends a row,   *)
(* from mark_assembled to the purge, must keep this against the others.     *)
NothingLost ==
    \A e \in Envelopes :
        estate[e] \in {"queued", "failed"} /\ (e \in Otlp \/ Call[e] \notin tombstones)
            => e \in Rows \cup dlq \cup dropped

(* Two workers hold an envelope only if its lease ran out or a redelivery   *)
(* or replay took it away (claim_outbox with SKIP LOCKED).                  *)
OneHolder == \A e \in Envelopes \ reopened : Cardinality(Holders(e)) <= 1

(* A tenant with many envelopes does not push another back: a tenant that a *)
(* claim leaves with work got no fewer of its places, up to one.            *)
FairClaim(w) ==
    \A o, p \in Orgs :
        LET taken == batch'[w] \ batch[w]
            share(org) == Cardinality({e \in taken : Org[e] = org})
        IN  (\E e \in Claimable \ taken : Org[e] = o) => share(p) <= share(o) + 1

FairShare == [][\A w \in Workers : FairClaim(w)]_vars

Settled(e) ==
    \/ estate[e] \in {"assembled", "tombstoned"}
    \/ e \notin Rows /\ (e \in dlq \cup dropped \/ Call[e] \in tombstones)

(* Accepted work ends: assembled, of a deleted call, or where an operator   *)
(* sees it.  Retries must reach a mark before claims alone use up the       *)
(* attempts a row has.                                                      *)
Settles == \A e \in Envelopes : estate[e] \in {"queued", "failed"} ~> Settled(e)

(* A late failure of a worker may put work of a deleted call back in the    *)
(* queue after the tombstone took it out; it does not stay there.           *)
TombstonesPrevail ==
    \A e \in Envelopes \ Otlp : Call[e] \in tombstones ~> [](e \notin Rows \/ estate[e] = "assembled")

-----------------------------------------------------------------------------
(* What documents, comments and tests say and the code does not keep.      *)

(* tests/unit/test_inbox.py: the dead-letter queue takes an envelope after  *)
(* eight failures.  A claim counts as an attempt too.                       *)
DlqAfterEightFailures == \A e \in dlq : fails[e] >= DlqLimit

=============================================================================
