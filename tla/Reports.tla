------------------------------- MODULE Reports -------------------------------
(***************************************************************************)
(* One call as its source tells it: webhooks of a hosted provider, in any    *)
(* order and any number of times, or the batches of a trace; each is decoded *)
(* and folded into the revision served so far (worker/process.py), and a     *)
(* conflict keeps the candidate from promotion.  Nobody else promotes here:  *)
(* races are Promotion's.                                                   *)
(***************************************************************************)
EXTENDS Decoders, SpanMappers

CONSTANTS
    Sources,        \* hosted providers, and kinds of traces
    Told            \* Told[s]: its reports, or its batches [spans, root]

(* What JSON lists and batches are. *)
IsList(s) == s \in Seq(ToSet(s))

ASSUME ReportsAssumption ==
    \A s \in Sources : \A m \in Told[s] :
        IF s \in Hosted
        THEN IsList(m.items) /\ IsList(m.stages) /\ IsList(m.averages) /\ IsList(m.marks)
        ELSE IsList(m.spans)

VARIABLES
    source,
    heard,      \* the batches of the trace record, in order
    served,     \* the active revision
    folded,     \* what was folded into it last: [events, rooted], or Absent
    refused     \* the events of the candidate last refused, or Absent

reportVars == <<source, heard, served, folded, refused>>

ReportsInit ==
    /\ source \in Sources
    /\ heard = <<>> /\ served = Absent /\ folded = Absent /\ refused = Absent

(* process_normalized_events: what is served comes first, then what is new. *)
Candidate(told) == Assembled(Rehydrated(served) \o told.events, told.rooted)

Offer(told) ==
    LET c == Candidate(told) IN
    IF c.conflicts = {}
    THEN served' = c /\ folded' = told /\ refused' = Absent
    ELSE refused' = told.events /\ UNCHANGED <<served, folded>>

(* A webhook: a report that tells nothing is another call's, or nobody's. *)
Report(m) ==
    LET events == HostedEvents(source, m) IN
    /\ source \in Hosted /\ events # <<>>
    /\ Offer([events |-> events, rooted |-> TRUE])
    /\ UNCHANGED <<source, heard>>

(* The whole record is folded again for every late batch, without what only  *)
(* a root may tell as long as there is none. *)
Recorded(batches) ==
    LET events == FlattenSeq([i \in DOMAIN batches |-> SpanEvents(batches[i].spans)])
        rooted == \E i \in DOMAIN batches : batches[i].root
    IN [events |-> IF rooted THEN events ELSE Unrooted(events), rooted |-> rooted]

(* A batch: its trace may be ready at once or later. *)
Batch(b) ==
    /\ source \notin Hosted /\ b \notin ToSet(heard)
    /\ heard' = Append(heard, b)
    /\ \/ Offer(Recorded(heard'))
       \/ UNCHANGED <<served, folded, refused>>
    /\ UNCHANGED source

(* finalize_due_traces, once the grace is over. *)
Finalize ==
    /\ heard # <<>>
    /\ Offer(Recorded(heard))
    /\ UNCHANGED <<source, heard>>

ReportsNext == (\E m \in Told[source] : Report(m) \/ Batch(m)) \/ Finalize
ReportsSpec == ReportsInit /\ [][ReportsNext]_reportVars

-----------------------------------------------------------------------------
DomainsOf(events) == UNION {e.fields.domains : e \in Of(ToSet(events), {"snapshot"})}
FactsIn(r, domains) == {e \in r.facts : e.type \in domains}

(* Whatever was told before, a snapshot leaves exactly its own facts in the   *)
(* domains it is authoritative for: what it omits is retracted, what it       *)
(* repeats is not mixed with what was served (fold_facts, rehydrate). *)
SnapshotWhole ==
    folded # Absent =>
        LET domains == DomainsOf(folded.events)
            alone == Assembled(folded.events, folded.rooted)
        IN /\ FactsIn(served, domains) = FactsIn(alone, domains)
           /\ "outcome" \in domains => served.hangup = alone.hangup

(* Over which facts the refused candidate is in conflict. *)
InConflict == FoldFacts(Rehydrated(served) \o refused).conflicts

(* What both tell of the call itself, and differently. *)
CallDisputed ==
    \E e \in Of(ToSet(refused), {"call"}), f \in {"agent_id", "cost"} :
        ~Fills(f, served[f], e.fields[f])

(* A snapshot that does not contradict itself is never refused over what it   *)
(* is authoritative for, whatever was promoted before it, nor over the clocks *)
(* of the call, which an earlier revision may only have derived (the comment  *)
(* at rehydrate.py:36-42).  It may be refused over what its source leaves out *)
(* of its domains and tells differently later: Retell's transcript and        *)
(* outcome, an agent, a cost. *)
ReportAdmitted ==
    refused # Absent /\ DomainsOf(refused) # {} /\ FoldFacts(refused).conflicts = {} =>
        \A id \in InConflict :
            /\ id.type \notin DomainsOf(refused)
            /\ id.type = "call" => CallDisputed

(* Folding what was folded last once more - a replay, a second claim, a       *)
(* finalization repeated - gives the revision that is served: folding into    *)
(* its own result is idempotent through rehydration.  It is not for a turn    *)
(* that an interruption marked, nor for a trace that names no agent.          *)
RedeliveredAsIs ==
    \/ folded = Absent
    \/ ~folded.rooted
    \/ \E e \in ToSet(folded.events) :
          \/ e.type = "interruption" /\ e.fields.turn_index # Absent
          \/ e.type = "call" /\ e.fields.agent_id = Absent
    \/ Candidate(folded) = served

(* Sources that never disagree with themselves are never refused. *)
OnlyDisagreementRefused == refused = Absent

=============================================================================
