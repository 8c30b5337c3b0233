---------------------------- MODULE TraceAssembly ----------------------------
(***************************************************************************)
(* The assembly of one trace (otel/trace_assembly.py, store/trace.py) by   *)
(* the processes that drain: each keeps a copy of the record in memory, in *)
(* front of one row of trace_assemblies.  A batch of spans is folded into  *)
(* the copy, the copy is written over the row, and when the trace is ready *)
(* its events are promoted and the record is marked finalized.  A record   *)
(* may become ready by the arrival of a batch or by time alone.            *)
(*                                                                         *)
(* The promotion is one step here, what CallFacts promises of it: the      *)
(* events are folded onto the active revision, or nothing happens.         *)
(***************************************************************************)
EXTENDS Naturals, FiniteSets

CONSTANTS
    Processes,
    Batches,        \* OTLP batches of one trace
    Rooting,        \* those with the root span
    Timed,          \* those whose root span states its end
    Ending,         \* those with facts only a root may state: outcome, end, cost
    ClaimLimit,     \* claims of one envelope (16)
    SavesFail,      \* may the write of the row fail?
    MaxFaults       \* bound of the model: crashes, exceptions of due traces, failed writes

NoBatch == "none"

ASSUME TraceAssumption ==
    /\ NoBatch \notin Batches
    /\ Timed \subseteq Rooting /\ Rooting \subseteq Batches
    /\ Ending \subseteq Batches
    /\ ClaimLimit \in Nat /\ SavesFail \in BOOLEAN /\ MaxFaults \in Nat

VARIABLES
    row,            \* the row of trace_assemblies
    cache,          \* cache[p]: the record in the memory of p
    pc, env,        \* where p is, and the batch it drains
    estate,         \* the state of the envelope of each batch
    claims,         \* how often each was claimed
    call,           \* the active revision of the trace's call
    tombstoned,     \* the call was deleted
    clock,          \* how far time is
    lost,           \* history: batches of a promotion that did not win
    faults          \* history: of MaxFaults

procVars == <<cache, pc, env>>
queueVars == <<estate, claims>>
callVars == <<call, tombstoned>>
vars == <<row, procVars, queueVars, callVars, clock, lost, faults>>

Labels == {"idle", "fold", "judge", "promote", "won", "lost", "check", "uncovered"}
EState == {"queued", "assembled", "dead"}

Record == [events : SUBSET Batches, rooted : BOOLEAN, ended : BOOLEAN,
           finalized : BOOLEAN, late : BOOLEAN]
Revision == [facts : SUBSET Batches, rooted : BOOLEAN, ending : BOOLEAN,
             by : Processes \cup {NoBatch}]

(* A record of which nothing was seen: a missing row, a missing copy. *)
Blank == [events |-> {}, rooted |-> FALSE, ended |-> FALSE, finalized |-> FALSE, late |-> FALSE]
NoCall == [facts |-> {}, rooted |-> FALSE, ending |-> FALSE, by |-> NoBatch]

TypeOK ==
    /\ row \in Record
    /\ cache \in [Processes -> Record]
    /\ pc \in [Processes -> Labels]
    /\ env \in [Processes -> Batches \cup {NoBatch}]
    /\ estate \in [Batches -> EState]
    /\ claims \in [Batches -> 0..ClaimLimit]
    /\ call \in Revision
    /\ tombstoned \in BOOLEAN
    /\ clock \in {"early", "grace", "over"}
    /\ lost \subseteq Batches
    /\ faults \in 0..MaxFaults

Init ==
    /\ row = Blank
    /\ cache = [p \in Processes |-> Blank]
    /\ pc = [p \in Processes |-> "idle"]
    /\ env = [p \in Processes |-> NoBatch]
    /\ estate = [e \in Batches |-> "queued"]
    /\ claims = [e \in Batches |-> 0]
    /\ call = NoCall /\ tombstoned = FALSE
    /\ clock = "early"
    /\ lost = {} /\ faults = 0

-----------------------------------------------------------------------------
(* The record.                                                             *)

Seen(r) == r.events # {}

(* Mutant: a root counts for the batch it came with only. *)
IngestForgetsRoot(r, e) ==
    [r EXCEPT !.events = @ \cup {e}, !.rooted = e \in Rooting,
              !.ended = @ \/ e \in Timed,
              !.finalized = FALSE, !.late = @ \/ r.finalized]

(* Mutant: a batch that comes after the end changes the events only. *)
IngestQuietly(r, e) ==
    [r EXCEPT !.events = @ \cup {e}, !.rooted = @ \/ e \in Rooting,
              !.ended = @ \/ e \in Timed]

(* MemoryTraceAssembler.ingest: a batch that comes after the end reopens    *)
(* the record, which is then ready at once.                                 *)
Ingest(r, e) ==
    [r EXCEPT !.events = @ \cup {e},
              !.rooted = @ \/ e \in Rooting,
              !.ended = @ \/ e \in Timed,
              !.finalized = FALSE,
              !.late = @ \/ r.finalized]

(* MemoryTraceAssembler.mark_finalized. *)
Done(r) == [r EXCEPT !.finalized = TRUE, !.late = FALSE]

(* Mutant: a trace without a root waits for it. *)
ReadyRooted(r) ==
    /\ ~r.finalized
    /\ \/ r.late
       \/ r.rooted /\ r.ended /\ clock # "early"

(* The earlier of the root's end plus the grace and the first span plus the *)
(* longest call; late spans wait for neither.                               *)
Ready(r) ==
    /\ ~r.finalized
    /\ \/ r.late
       \/ r.rooted /\ r.ended /\ clock # "early"
       \/ clock = "over"

(* Mutant: an unrooted trace keeps the ending its spans state. *)
AssembledInventing(c, r, p) ==
    [facts |-> c.facts \cup r.events, rooted |-> r.rooted,
     ending |-> c.ending \/ r.events \cap Ending # {}, by |-> p]

(* What is promoted: the events, without those only a root may state and    *)
(* without what the active revision had of them, if the record has no root. *)
Assembled(c, r, p) ==
    [facts |-> c.facts \cup r.events,
     rooted |-> r.rooted,
     ending |-> r.rooted /\ (c.ending \/ r.events \cap Ending # {}),
     by |-> p]

-----------------------------------------------------------------------------
(* A process with a batch.                                                 *)

Goto(p, label) == pc' = [pc EXCEPT ![p] = label]
Leave(p) == Goto(p, "idle") /\ env' = [env EXCEPT ![p] = NoBatch]

(* Mutant: a batch is claimed however often it was claimed before. *)
ClaimForever(p, e) ==
    /\ pc[p] = "idle" /\ estate[e] = "queued"
    /\ claims' = [claims EXCEPT ![e] = @ + 1]
    /\ env' = [env EXCEPT ![p] = e]
    /\ Goto(p, "fold")

Claim(p, e) ==
    /\ pc[p] = "idle" /\ estate[e] = "queued" /\ claims[e] < ClaimLimit
    /\ claims' = [claims EXCEPT ![e] = @ + 1]
    /\ env' = [env EXCEPT ![p] = e]
    /\ Goto(p, "fold")

(* Mutant: only the memory of the process is asked for the record. *)
LoadCopyOnly(p, e) ==
    /\ Claim(p, e)
    /\ UNCHANGED <<row, cache, estate, callVars, clock, lost, faults>>

(* A claimed batch.  The row is read only if the process has no copy.  Two  *)
(* processes may hold one envelope, a lease being shorter than a batch of   *)
(* them may take.                                                           *)
Load(p, e) ==
    /\ Claim(p, e)
    /\ cache' = [cache EXCEPT ![p] = IF Seen(@) THEN @ ELSE row]
    /\ UNCHANGED <<row, estate, callVars, clock, lost, faults>>

(* The copy grows and is written over the row. *)
FoldAndSave(p) ==
    /\ pc[p] = "fold"
    /\ cache' = [cache EXCEPT ![p] = Ingest(@, env[p])]
    /\ row' = Ingest(cache[p], env[p])
    /\ Goto(p, "judge")
    /\ UNCHANGED <<env, queueVars, callVars, clock, lost, faults>>

MarkAssembled(e) == estate' = [estate EXCEPT ![e] = "assembled"]

(* A batch of a trace that is not ready is done: its events are kept. *)
Judge(p) ==
    /\ pc[p] = "judge"
    /\ \/ Ready(cache[p]) /\ Goto(p, "promote") /\ UNCHANGED <<env, estate>>
       \/ ~Ready(cache[p]) /\ MarkAssembled(env[p]) /\ Leave(p)
    /\ UNCHANGED <<row, cache, claims, callVars, clock, lost, faults>>

(* process_normalized_events. *)
Promote(p) ==
    /\ pc[p] = "promote"
    /\ call' = Assembled(call, cache[p], p)
    /\ Goto(p, "won")
    /\ UNCHANGED <<row, cache, env, queueVars, tombstoned, clock, lost, faults>>

(* The facts conflict, or all retries of the swap were lost: the candidate  *)
(* is returned all the same.                                                *)
LosePromotion(p) ==
    /\ pc[p] = "promote"
    /\ lost' = lost \cup cache[p].events
    /\ Goto(p, "lost")
    /\ UNCHANGED <<row, cache, env, queueVars, callVars, clock, faults>>

(* Mutant: the row is marked as it is. *)
MarkRowFinalized(p) ==
    /\ pc[p] \in {"won", "lost"}
    /\ cache' = [cache EXCEPT ![p] = Done(@)]
    /\ row' = Done(row)
    /\ IF env[p] = NoBatch THEN Goto(p, "idle")
       ELSE Goto(p, IF pc[p] = "won" THEN "check" ELSE "uncovered")
    /\ UNCHANGED <<env, queueVars, callVars, clock, lost, faults>>

(* mark_finalized, whatever became of the promotion.  A due trace is done   *)
(* with that; a batch goes on to _after_promote.                            *)
MarkFinalized(p) ==
    /\ pc[p] \in {"won", "lost"}
    /\ cache' = [cache EXCEPT ![p] = Done(@)]
    /\ row' = Done(cache[p])
    /\ IF env[p] = NoBatch THEN Goto(p, "idle")
       ELSE Goto(p, IF pc[p] = "won" THEN "check" ELSE "uncovered")
    /\ UNCHANGED <<env, queueVars, callVars, clock, lost, faults>>

(* mark_failed: an assembled envelope stays so; another is queued again or, *)
(* its attempts used up, dead-lettered (module Outbox has the count).       *)
MarkFailed(e) ==
    \/ estate[e] = "assembled" /\ UNCHANGED estate
    \/ estate[e] # "assembled" /\ \E s \in {"queued", "dead"} : estate' = [estate EXCEPT ![e] = s]

(* _after_promote: the rows of a deleted call go, and its envelope, which no *)
(* tombstone names, stays; the batch is assembled if its revision is active. *)
Check(p) ==
    /\ pc[p] \in {"check", "uncovered"}
    /\ \/ /\ tombstoned
          /\ call' = NoCall
          /\ UNCHANGED estate
       \/ /\ ~tombstoned /\ pc[p] = "check" /\ call.by = p
          /\ MarkAssembled(env[p])
          /\ UNCHANGED call
       \/ /\ ~tombstoned /\ (pc[p] = "uncovered" \/ call.by # p)
          /\ MarkFailed(env[p])
          /\ UNCHANGED call
    /\ Leave(p)
    /\ UNCHANGED <<row, cache, claims, tombstoned, clock, lost, faults>>

(* An exception on the way: of the decode, a store or the promotion. *)
Fail(p) ==
    /\ env[p] # NoBatch
    /\ MarkFailed(env[p])
    /\ Leave(p)
    /\ UNCHANGED <<row, cache, claims, callVars, clock, lost, faults>>

-----------------------------------------------------------------------------
(* A process without one.                                                  *)

(* finalize_due_traces: unfinalized rows are read over the copies, and what *)
(* of the copies is ready is promoted, those of finalized rows included.    *)
Due(p) ==
    LET copy == IF Seen(row) /\ (~row.finalized \/ row.late) THEN row ELSE cache[p]
    IN  /\ pc[p] = "idle"
        /\ cache' = [cache EXCEPT ![p] = copy]
        /\ Goto(p, IF Seen(copy) /\ Ready(copy) THEN "promote" ELSE "idle")
        /\ UNCHANGED <<row, env, queueVars, callVars, clock, lost, faults>>

Fault == faults < MaxFaults /\ faults' = faults + 1

(* The write of the row fails after the copy was changed: a batch is marked *)
(* failed, a due trace is left as it is.                                    *)
SaveFails(p) ==
    /\ SavesFail /\ Fault
    /\ \/ pc[p] = "fold" /\ cache' = [cache EXCEPT ![p] = Ingest(@, env[p])]
       \/ pc[p] \in {"won", "lost"} /\ cache' = [cache EXCEPT ![p] = Done(@)]
    /\ \/ env[p] = NoBatch /\ UNCHANGED estate
       \/ env[p] # NoBatch /\ MarkFailed(env[p])
    /\ Leave(p)
    /\ UNCHANGED <<row, claims, callVars, clock, lost>>

(* The process dies; its copies are gone.  An exception while it is at a due *)
(* trace, which drain_once does not catch, ends a worker; in the API, whose  *)
(* background task it ends, the copies stay.                                *)
Crash(p) ==
    /\ Fault
    /\ \/ cache' = [cache EXCEPT ![p] = Blank]
       \/ env[p] = NoBatch /\ pc[p] # "idle" /\ UNCHANGED cache
    /\ Leave(p)
    /\ UNCHANGED <<row, queueVars, callVars, clock, lost>>

(* apply_deletion leaves the row, the copies and the envelopes, none of     *)
(* which carries the call's id.                                             *)
Delete ==
    /\ ~tombstoned
    /\ tombstoned' = TRUE
    /\ call' = NoCall
    /\ UNCHANGED <<row, procVars, queueVars, clock, lost, faults>>

(* The grace of the root passes, then the length of the longest call. *)
Tick ==
    /\ \/ clock = "early" /\ clock' = "grace"
       \/ clock = "grace" /\ clock' = "over"
    /\ UNCHANGED <<row, procVars, queueVars, callVars, lost, faults>>

-----------------------------------------------------------------------------
Work(p) ==
    \/ \E e \in Batches : Load(p, e)
    \/ FoldAndSave(p) \/ Judge(p)
    \/ Promote(p) \/ LosePromotion(p) \/ MarkFinalized(p)
    \/ Check(p) \/ Fail(p) \/ Due(p)

Next == (\E p \in Processes : Work(p) \/ SaveFails(p) \/ Crash(p)) \/ Delete \/ Tick

Spec == Init /\ [][Next]_vars

(* Each process drains in a loop and time passes. *)
Fairness == WF_vars(Tick) /\ \A p \in Processes : WF_vars(Work(p))

FairSpec == Spec /\ Fairness

-----------------------------------------------------------------------------
(* Properties.                                                             *)

(* A record is marked finalized with the events that were promoted and no   *)
(* others: spans that another process added between the promotion and the   *)
(* mark are not taken for finalized.                                        *)
FinalizedOffered ==
    row.finalized /\ ~tombstoned => row.events \subseteq call.facts \cup lost

(* An ending is served only if both it and a root were received, whichever  *)
(* copy of the record was promoted in the end.                              *)
EndingEarned ==
    call.ending => call.facts \cap Rooting # {} /\ call.facts \cap Ending # {}

(* The copies of the processes settle: the trace is finalized and not       *)
(* reopened for ever by one process after another.                          *)
Quiesces == <>[](~Seen(row) \/ row.finalized)

(* The spans of an acknowledged batch are in the row, from which a process  *)
(* that was restarted goes on.                                              *)
SpansKept == \A e \in Batches : estate[e] = "assembled" => e \in row.events

(* What an ending said of a call is not withdrawn by spans of its trace.    *)
EndingKept == [][call.ending => call'.ending \/ tombstoned']_vars

(* Every batch that was taken over reaches the active revision, late ones   *)
(* and those of a trace without a root too, unless its promotion lost or    *)
(* the call was deleted.                                                    *)
Reaches ==
    \A e \in Batches :
        estate[e] = "assembled" ~> e \in call.facts \cup lost \/ tombstoned

-----------------------------------------------------------------------------
(* What documents say and the code does not keep.                          *)

(* docs/reference/security.md: durable tombstones are checked by indexing.  *)
(* Once all batches are assembled and no process is at the trace, nothing   *)
(* of a deleted call is served.                                             *)
ErasedTraceGone ==
    /\ tombstoned
    /\ \A e \in Batches : estate[e] = "assembled"
    /\ \A p \in Processes : pc[p] = "idle"
    => call.facts = {}

=============================================================================
