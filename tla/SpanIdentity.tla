---------------------------- MODULE SpanIdentity ----------------------------
(***************************************************************************)
(* Reception of OTLP batches (ingest/otlp.py over PostgresSpanIdentityIndex *)
(* and PostgresInbox).  A receiver reads the depth of the outbox, observes  *)
(* the fingerprint of each span -- first in its own cache, which keeps what *)
(* it saw first, then in the table all receivers share -- and accepts the   *)
(* batch whatever it found; on a conflict it then drops the outbox row and  *)
(* answers 409.  Every statement autocommits, so the others' fall between.  *)
(*                                                                         *)
(* A batch is identified by its spans and their fingerprints: that is its   *)
(* delivery key.  Limits on size, and the look at the tombstones (an OTLP   *)
(* batch carries no source_call_id), refuse before anything changes.        *)
(***************************************************************************)
EXTENDS Naturals, FiniteSets

CONSTANTS
    Servers,        \* receiving processes: API replicas, the gRPC server
    Spans,
    Fingerprints,
    Batches,        \* Batches: functions from spans to fingerprints
    DepthLimit,     \* OBSALT_OUTBOX_BACKPRESSURE_LIMIT
    MaxBegun,       \* bound of the model: receptions begun
    MaxFailures     \* bound of the model: restarts and failed statements

Unseen == "unseen"

ASSUME SpanIdentityAssumption ==
    /\ IsFiniteSet(Servers) /\ IsFiniteSet(Batches)
    /\ \A b \in Batches : DOMAIN b \subseteq Spans /\ \A s \in DOMAIN b : b[s] \in Fingerprints
    /\ Unseen \notin Fingerprints
    /\ DepthLimit \in Nat \ {0}
    /\ MaxBegun \in Nat /\ MaxFailures \in Nat

VARIABLES
    cache,          \* cache[r]: SpanIdentityIndex._fingerprints of the process
    table,          \* otlp_span_identities
    observing,      \* of each receiver: its step, its batch, the spans left, the
                    \* span to be recorded, whether a conflict was found
    envelopes,      \* batches with a row of raw_envelopes, by state
    backlog,        \* batches with an outbox row
    \* history
    answered,       \* answered[r]: batches r answered 200 since it started
    begun, failures

identityVars == <<cache, table, observing, envelopes, backlog, answered, begun, failures>>

NoBatch == [step |-> "idle"]
Identities == [Spans -> Fingerprints \cup {Unseen}]
Observation == [step : {"observe", "record", "accept", "drop"}, batch : Batches,
                left : SUBSET Spans, span : Spans \cup {Unseen}, conflict : BOOLEAN]

IdentityTypeOK ==
    /\ cache \in [Servers -> Identities]
    /\ table \in Identities
    /\ observing \in [Servers -> Observation \cup {NoBatch}]
    /\ envelopes \in [Batches -> {"none", "queued", "assembled"}]
    /\ backlog \subseteq {b \in Batches : envelopes[b] # "none"}
    /\ answered \in [Servers -> SUBSET Batches]
    /\ begun \in 0..MaxBegun /\ failures \in 0..MaxFailures

IdentityInit ==
    /\ cache = [r \in Servers |-> [s \in Spans |-> Unseen]]
    /\ table = [s \in Spans |-> Unseen]
    /\ observing = [r \in Servers |-> NoBatch]
    /\ envelopes = [b \in Batches |-> "none"]
    /\ backlog = {}
    /\ answered = [r \in Servers |-> {}]
    /\ begun = 0 /\ failures = 0

Failure == failures < MaxFailures /\ failures' = failures + 1

(* outbox_depth counts the rows whose envelope is not assembled. *)
Depth == Cardinality({b \in backlog : envelopes[b] # "assembled"})

(* Mutant: a batch more than the limit is let in. *)
BeginAtLimit(r, b) ==
    /\ observing[r] = NoBatch /\ begun < MaxBegun
    /\ Depth <= DepthLimit
    /\ observing' = [observing EXCEPT ![r] = [step |-> "observe", batch |-> b, left |-> DOMAIN b,
                                  span |-> Unseen, conflict |-> FALSE]]
    /\ begun' = begun + 1
    /\ UNCHANGED <<cache, table, envelopes, backlog, answered, failures>>

Begin(r, b) ==
    /\ observing[r] = NoBatch /\ begun < MaxBegun
    /\ Depth < DepthLimit
    /\ observing' = [observing EXCEPT ![r] = [step |-> "observe", batch |-> b, left |-> DOMAIN b,
                                  span |-> Unseen, conflict |-> FALSE]]
    /\ begun' = begun + 1
    /\ UNCHANGED <<cache, table, envelopes, backlog, answered, failures>>

-----------------------------------------------------------------------------
(* observe, of the next span.                                              *)

Observed(r, s, conflict) ==
    observing' = [observing EXCEPT ![r].left = @ \ {s}, ![r].step = "observe",
                       ![r].span = Unseen, ![r].conflict = @ \/ conflict]

(* The cache answers for a span it has seen, whatever it was told then. *)
ObserveCached(r, s) ==
    /\ observing[r].step = "observe" /\ s \in observing[r].left
    /\ cache[r][s] # Unseen
    /\ Observed(r, s, cache[r][s] # observing[r].batch[s])
    /\ UNCHANGED <<cache, table, envelopes, backlog, answered, begun, failures>>

(* Mutant: the process does not remember what it saw. *)
SelectUncached(r, s) ==
    /\ observing[r].step = "observe" /\ s \in observing[r].left
    /\ IF table[s] = Unseen
         THEN observing' = [observing EXCEPT ![r].step = "record", ![r].span = s]
         ELSE Observed(r, s, table[s] # observing[r].batch[s])
    /\ UNCHANGED <<cache, table, envelopes, backlog, answered, begun, failures>>

(* SELECT: a fingerprint that is there decides, else it is to be recorded.  *)
Select(r, s) ==
    /\ observing[r].step = "observe" /\ s \in observing[r].left
    /\ cache[r][s] = Unseen
    /\ cache' = [cache EXCEPT ![r][s] = observing[r].batch[s]]
    /\ IF table[s] = Unseen
         THEN observing' = [observing EXCEPT ![r].step = "record", ![r].span = s]
         ELSE Observed(r, s, table[s] # observing[r].batch[s])
    /\ UNCHANGED <<table, envelopes, backlog, answered, begun, failures>>

(* A SELECT that raises leaves the cache's answer: accepted. *)
SelectFails(r, s) ==
    /\ observing[r].step = "observe" /\ s \in observing[r].left
    /\ cache[r][s] = Unseen /\ Failure
    /\ cache' = [cache EXCEPT ![r][s] = observing[r].batch[s]]
    /\ Observed(r, s, FALSE)
    /\ UNCHANGED <<table, envelopes, backlog, answered, begun>>

(* INSERT ... ON CONFLICT DO NOTHING, and "accepted" whoever was first.     *)
Record(r) ==
    /\ observing[r].step = "record"
    /\ LET s == observing[r].span IN
       /\ table' = IF table[s] = Unseen THEN [table EXCEPT ![s] = observing[r].batch[s]] ELSE table
       /\ Observed(r, s, FALSE)
    /\ UNCHANGED <<cache, envelopes, backlog, answered, begun, failures>>

(* An INSERT that raises records nothing and is answered "accepted". *)
RecordFails(r) ==
    /\ observing[r].step = "record" /\ Failure
    /\ Observed(r, observing[r].span, FALSE)
    /\ UNCHANGED <<cache, table, envelopes, backlog, answered, begun>>

-----------------------------------------------------------------------------
(* The body is put and the envelope accepted, conflict or not: a row that   *)
(* is not assembled is made due again.                                     *)
AcceptBatch(r) ==
    /\ observing[r].step = "observe" /\ observing[r].left = {}
    /\ LET b == observing[r].batch IN
       /\ envelopes' = [envelopes EXCEPT ![b] = IF @ = "none" THEN "queued" ELSE @]
       /\ backlog' = IF envelopes[b] = "assembled" THEN backlog ELSE backlog \cup {b}
       /\ IF observing[r].conflict
            THEN observing' = [observing EXCEPT ![r].step = "drop"] /\ UNCHANGED answered
            ELSE /\ observing' = [observing EXCEPT ![r] = NoBatch]
                 /\ answered' = [answered EXCEPT ![r] = @ \cup {b}]
    /\ UNCHANGED <<cache, table, begun, failures>>

(* The FAILED written is on the caller's copy: the row stays queued. *)
Drop(r) ==
    /\ observing[r].step = "drop"
    /\ backlog' = backlog \ {observing[r].batch}
    /\ observing' = [observing EXCEPT ![r] = NoBatch]
    /\ UNCHANGED <<cache, table, envelopes, answered, begun, failures>>

(* The process ends anywhere and starts with an empty cache. *)
Restart(r) ==
    /\ Failure
    /\ observing' = [observing EXCEPT ![r] = NoBatch]
    /\ cache' = [cache EXCEPT ![r] = [s \in Spans |-> Unseen]]
    /\ answered' = [answered EXCEPT ![r] = {}]
    /\ UNCHANGED <<table, envelopes, backlog, begun>>

(* A worker decodes a batch and marks it assembled. *)
Drain(b) ==
    /\ b \in backlog /\ envelopes[b] = "queued"
    /\ envelopes' = [envelopes EXCEPT ![b] = "assembled"]
    /\ backlog' = backlog \ {b}
    /\ UNCHANGED <<cache, table, observing, answered, begun, failures>>

-----------------------------------------------------------------------------
IdentityNext ==
    \/ \E r \in Servers :
          \/ \E b \in Batches : Begin(r, b)
          \/ \E s \in Spans : ObserveCached(r, s) \/ Select(r, s) \/ SelectFails(r, s)
          \/ Record(r) \/ RecordFails(r)
          \/ AcceptBatch(r) \/ Drop(r) \/ Restart(r)
    \/ \E b \in Batches : Drain(b)

IdentitySpec == IdentityInit /\ [][IdentityNext]_identityVars

-----------------------------------------------------------------------------
Agree(b, c) == \A s \in DOMAIN b \cap DOMAIN c : b[s] = c[s]

(* What one process has answered 200 since it started agrees span by span,  *)
(* whatever the others do and whether or not the table answers: its cache   *)
(* keeps what it saw first, and a refusal.                                  *)
ProcessAgrees ==
    \A r \in Servers : \A b, c \in answered[r] : Agree(b, c)

(* docs/reference/otlp.md:82: "Different content for the same identity is a *)
(* conflict": no receiver answers 200 to content another was refused for.   *)
ConflictRefused ==
    \A r, q \in Servers : \A b \in answered[r], c \in answered[q] : Agree(b, c)

(* The depth is read before the batch is accepted (otlp.py:62): what passes *)
(* the limit is at most one batch per receiver but the last.                *)
DepthBounded == Depth < DepthLimit + Cardinality(Servers)
=============================================================================
