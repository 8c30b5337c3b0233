----------------------------- MODULE Promotion -----------------------------
(***************************************************************************)
(* The drain of one call (worker/drain.py, worker/process.py and           *)
(* assemble/promote.py over the Postgres pointer store and the ClickHouse  *)
(* sink).  Several processes drain concurrently: the worker loop and the   *)
(* background task the API starts after every acknowledgement.  Each folds *)
(* an envelope onto the active revision, writes the result as a new        *)
(* immutable revision, moves the active pointer to it by compare-and-swap, *)
(* rebasing when it lost, and only then indexes it and marks the envelope  *)
(* assembled.  A deletion request (ops/privacy.py) runs beside them.       *)
(*                                                                         *)
(* One step of the model is one call of a store.  Revision ids (new_id) are *)
(* the numbers 1..MaxRevisions in the order they are made.                 *)
(***************************************************************************)
EXTENDS Naturals

CONSTANTS
    Envelopes, Facts, Adds, Drops, Clash,   \* as in CallFacts
    Drainers,        \* the processes that drain: worker loops and API processes
    MaxAttempts,     \* promote(max_attempts=8)
    DeletionKinds,   \* deletion requests that may come: TRUE by source id, FALSE by call id
    MaxRevisions,    \* bound of the model: revisions ever built
    MaxUpsets        \* bound of the model: failures, crashes and replays

ASSUME PromotionAssumption ==
    /\ Adds \in [Envelopes -> SUBSET Facts]
    /\ Drops \in [Envelopes -> SUBSET Facts]
    /\ Clash \subseteq Facts \X Facts
    /\ MaxAttempts \in Nat \ {0}
    /\ DeletionKinds \subseteq BOOLEAN
    /\ MaxRevisions \in Nat
    /\ MaxUpsets \in Nat

VARIABLES
    \* stores
    content,         \* content[r]: the facts of revision r, immutable once built
    built,           \* number of revisions built so far
    sink,            \* revisions with a row in ClickHouse
    cache,           \* cache[d]: ClickHouseSink.revisions of process d
    active,          \* active_calls.revision, NoRev when there is no row
    frontier,        \* active_calls.fact_frontier
    search,          \* revision in the call's search document, NoRev when there is none
    estate,          \* raw_envelopes.state
    outbox,          \* envelopes with an outbox row
    tombstoned,      \* a tombstone matches the call
    \* the drainers: control, and the locals of the functions they are in
    pc,
    env,             \* the envelope being processed
    base,            \* promote: the revision the swap expects
    cand,            \* process_normalized_events: the first candidate
    attempt,         \* promote: the revision it tries to install
    bound,           \* fact_frontier given to promote
    tries,           \* promote: iterations of its loop that lost
    ret,             \* the revision process_normalized_events returns
    \* the deletion request
    dpc, found,
    \* history
    applied,         \* envelopes whose revision was installed
    upsets,          \* failures, crashes and replays so far
    torn             \* a drainer gave up or died after it wrote rows

revisions == <<content, built, sink, cache>>
pointer == <<active, frontier>>
inbox == <<estate, outbox, tombstoned>>
stores == <<revisions, pointer, search, inbox>>
locals == <<env, base, cand, attempt, bound, tries, ret>>
deleter == <<dpc, found>>
history == <<applied, upsets, torn>>
vars == <<stores, pc, locals, deleter, history>>

NoRev == 0
Revs == 1..MaxRevisions
Maybe(S) == S \cup {NoRev}
NoEnvelope == "none"

EState == {"queued", "failed", "assembled", "tombstoned"}
DrainPC == {"idle", "gate", "expected", "fold", "insert", "visible", "swap",
            "reload", "fetch", "check", "index", "upsert", "mark"}
DeletePC == {"none", "tombstone", "rows", "pointer", "search", "purge", "done"}

TypedStores ==
    /\ content \in [Revs -> SUBSET Facts]
    /\ built \in 0..MaxRevisions
    /\ sink \subseteq Revs
    /\ cache \in [Drainers -> SUBSET Revs]
    /\ active \in Maybe(Revs)
    /\ frontier \subseteq Facts
    /\ search \in Maybe(Revs)
    /\ estate \in [Envelopes -> EState]
    /\ outbox \subseteq Envelopes
    /\ tombstoned \in BOOLEAN

TypedLocals ==
    /\ pc \in [Drainers -> DrainPC]
    /\ env \in [Drainers -> Envelopes \cup {NoEnvelope}]
    /\ base \in [Drainers -> Maybe(Revs)]
    /\ cand \in [Drainers -> Maybe(Revs)]
    /\ attempt \in [Drainers -> Maybe(Revs)]
    /\ bound \in [Drainers -> SUBSET Facts]
    /\ tries \in [Drainers -> 0..MaxAttempts]
    /\ ret \in [Drainers -> Maybe(Revs)]

TypeOK ==
    /\ TypedStores
    /\ TypedLocals
    /\ dpc \in DeletePC
    /\ found \in BOOLEAN
    /\ applied \subseteq Envelopes
    /\ upsets \in 0..MaxUpsets
    /\ torn \in BOOLEAN

Init ==
    /\ content = [r \in Revs |-> {}]
    /\ built = 0
    /\ sink = {}
    /\ cache = [d \in Drainers |-> {}]
    /\ active = NoRev
    /\ frontier = {}
    /\ search = NoRev
    /\ estate = [e \in Envelopes |-> "queued"]
    /\ outbox = Envelopes
    /\ tombstoned = FALSE
    /\ pc = [d \in Drainers |-> "idle"]
    /\ env = [d \in Drainers |-> NoEnvelope]
    /\ base = [d \in Drainers |-> NoRev]
    /\ cand = [d \in Drainers |-> NoRev]
    /\ attempt = [d \in Drainers |-> NoRev]
    /\ bound = [d \in Drainers |-> {}]
    /\ tries = [d \in Drainers |-> 0]
    /\ ret = [d \in Drainers |-> NoRev]
    /\ dpc = "none"
    /\ found = FALSE
    /\ applied = {}
    /\ upsets = 0
    /\ torn = FALSE

Fold(prior, e) == (prior \ Drops[e]) \cup Adds[e]
Conflicting(fs) == \E f, g \in fs : <<f, g>> \in Clash

(* sink.get by process d: the row, or else what the process itself wrote.  *)
Finds(d, r) == r \in sink \cup cache[d]

Upset == upsets < MaxUpsets /\ upsets' = upsets + 1

Goto(d, label) == pc' = [pc EXCEPT ![d] = label]

(* A drainer is done with its envelope: its locals die with the call frame. *)
Return(d) ==
    /\ Goto(d, "idle")
    /\ env' = [env EXCEPT ![d] = NoEnvelope]
    /\ base' = [base EXCEPT ![d] = NoRev]
    /\ cand' = [cand EXCEPT ![d] = NoRev]
    /\ attempt' = [attempt EXCEPT ![d] = NoRev]
    /\ bound' = [bound EXCEPT ![d] = {}]
    /\ tries' = [tries EXCEPT ![d] = 0]
    /\ ret' = [ret EXCEPT ![d] = NoRev]

-----------------------------------------------------------------------------
(* The inbox operations the drain uses (store/postgres.py).                *)

(* Every envelope of the call, and its outbox row. *)
TombstoneEnvelopes ==
    /\ estate' = [e \in Envelopes |-> "tombstoned"]
    /\ outbox' = {}

MarkAssembled(e) ==
    /\ estate' = [estate EXCEPT ![e] = "assembled"]
    /\ outbox' = outbox \ {e}

(* Mutant: a state the inbox does not know. *)
MarkFailedUnknown(e) ==
    /\ estate' = [estate EXCEPT ![e] = "error"]
    /\ outbox' = outbox \cup {e}

(* The state of an assembled envelope is kept, one that was tombstoned is  *)
(* overwritten, and in both cases there is an outbox row afterwards. Rows  *)
(* that leave for the dead-letter queue are module Outbox's concern.       *)
MarkFailed(e) ==
    /\ estate' = [estate EXCEPT ![e] = IF @ = "assembled" THEN @ ELSE "failed"]
    /\ outbox' = outbox \cup {e}

(* claim_outbox.  A lease lasts 30 seconds and the decode of each envelope *)
(* of a batch may take 10, so a row may be claimed again while an earlier  *)
(* claimant still works on it; replay and redelivery clear leases as well. *)
Claim(d, e) ==
    /\ pc[d] = "idle"
    /\ e \in outbox
    /\ estate[e] \in {"queued", "failed"}
    /\ Goto(d, "gate")
    /\ env' = [env EXCEPT ![d] = e]
    /\ UNCHANGED <<stores, base, cand, attempt, bound, tries, ret, deleter, history>>

(* requeue, called by replay. *)
Requeue(e) ==
    /\ estate[e] # "tombstoned"
    /\ estate' = [estate EXCEPT ![e] = "queued"]
    /\ outbox' = outbox \cup {e}
    /\ Upset
    /\ UNCHANGED <<revisions, pointer, search, tombstoned, pc, locals, deleter, applied, torn>>

-----------------------------------------------------------------------------
(* persist_envelope up to the fold.                                        *)

(* The state of the envelope and the tombstones are read again; the body   *)
(* is fetched and decoded in between, which may fail (Fail).               *)
Gate(d) ==
    /\ pc[d] = "gate"
    /\ \/ /\ estate[env[d]] = "assembled"
          /\ Return(d)
          /\ UNCHANGED inbox
       \/ /\ estate[env[d]] # "assembled"
          /\ tombstoned
          /\ TombstoneEnvelopes
          /\ Return(d)
          /\ UNCHANGED tombstoned
       \/ /\ estate[env[d]] # "assembled"
          /\ ~tombstoned
          /\ Goto(d, "expected")
          /\ UNCHANGED <<inbox, locals>>
    /\ UNCHANGED <<revisions, pointer, search, deleter, history>>

-----------------------------------------------------------------------------
(* process_normalized_events and promote.                                  *)

(* expected = pointers.get(...) *)
ReadExpected(d) ==
    /\ pc[d] = "expected"
    /\ base' = [base EXCEPT ![d] = active]
    /\ Goto(d, "fold")
    /\ UNCHANGED <<stores, env, cand, attempt, bound, tries, ret, deleter, history>>

(* Mutant: the pointer moves to a revision that was never written. *)
FoldUnwritten(d) ==
    /\ pc[d] = "fold"
    /\ built < MaxRevisions
    /\ built' = built + 1
    /\ content' = [content EXCEPT ![built + 1] =
                      Fold(IF Finds(d, base[d]) THEN content[base[d]] ELSE {}, env[d])]
    /\ attempt' = [attempt EXCEPT ![d] = built + 1]
    /\ cand' = [cand EXCEPT ![d] = built + 1]
    /\ Goto(d, "swap")
    /\ UNCHANGED <<sink, cache, pointer, search, inbox, env, base, bound, tries, ret,
                   deleter, history>>

(* The revision the swap will be based on is read and the envelope folded  *)
(* onto its facts: the first candidate, or a rebase of it.  The frontier   *)
(* given to promote is always that of the first candidate.                 *)
FoldOnto(d) ==
    LET prior == IF Finds(d, base[d]) THEN content[base[d]] ELSE {}
        folded == Fold(prior, env[d])
        new == built + 1
    IN  /\ pc[d] = "fold"
        /\ built < MaxRevisions
        /\ built' = new
        /\ content' = [content EXCEPT ![new] = folded]
        /\ attempt' = [attempt EXCEPT ![d] = new]
        /\ cand' = [cand EXCEPT ![d] = IF tries[d] = 0 THEN new ELSE @]
        /\ bound' = [bound EXCEPT ![d] = IF tries[d] = 0 THEN folded ELSE @]
        /\ Goto(d, "insert")
        /\ UNCHANGED <<sink, cache, pointer, search, inbox, env, base, tries, ret,
                       deleter, history>>

(* sink.write: the rows of the revision are inserted ... *)
Insert(d) ==
    /\ pc[d] = "insert"
    /\ sink' = sink \cup {attempt[d]}
    /\ Goto(d, "visible")
    /\ UNCHANGED <<content, built, cache, pointer, search, inbox, locals, deleter, history>>

(* ... and read back; a revision that is not query-visible raises, and the *)
(* exception marks the envelope failed.  The eighth rebase is never tried. *)
VerifyVisible(d) ==
    /\ pc[d] = "visible"
    /\ \/ /\ attempt[d] \in sink
          /\ cache' = [cache EXCEPT ![d] = @ \cup {attempt[d]}]
          /\ IF tries[d] < MaxAttempts
             THEN Goto(d, "swap") /\ UNCHANGED ret
             ELSE Goto(d, "check") /\ ret' = [ret EXCEPT ![d] = cand[d]]
          /\ UNCHANGED <<inbox, env, base, cand, attempt, bound, tries>>
       \/ /\ attempt[d] \notin sink
          /\ MarkFailed(env[d])
          /\ Return(d)
          /\ UNCHANGED <<cache, tombstoned>>
    /\ UNCHANGED <<content, built, sink, pointer, search, deleter, history>>

(* An attempt with conflicts is not installed.  Otherwise compare_and_swap *)
(* installs it if the pointer is still the one it was folded onto.         *)
SwapRefused(d) ==
    /\ pc[d] = "swap"
    /\ Conflicting(content[attempt[d]])
    /\ ret' = [ret EXCEPT ![d] = cand[d]]
    /\ Goto(d, "check")
    /\ UNCHANGED <<stores, env, base, cand, attempt, bound, tries, deleter, history>>

(* Mutant: only the first candidate is examined for conflicts. *)
SwapWonUnexamined(d) ==
    /\ pc[d] = "swap"
    /\ ~Conflicting(content[cand[d]])
    /\ active = base[d]
    /\ active' = attempt[d]
    /\ frontier' = bound[d]
    /\ applied' = applied \cup {env[d]}
    /\ Goto(d, "fetch")
    /\ UNCHANGED <<revisions, search, inbox, locals, deleter, upsets, torn>>

SwapWon(d) ==
    /\ pc[d] = "swap"
    /\ ~Conflicting(content[attempt[d]])
    /\ active = base[d]
    /\ active' = attempt[d]
    /\ frontier' = bound[d]
    /\ applied' = applied \cup {env[d]}
    /\ Goto(d, "fetch")
    /\ UNCHANGED <<revisions, search, inbox, locals, deleter, upsets, torn>>

(* Mutant: the frontier is stored before the pointer is compared. *)
SwapLostStores(d) ==
    /\ pc[d] = "swap"
    /\ active # base[d]
    /\ frontier' = bound[d]
    /\ Goto(d, "reload")
    /\ UNCHANGED <<revisions, active, search, inbox, locals, deleter, history>>

SwapLost(d) ==
    /\ pc[d] = "swap"
    /\ ~Conflicting(content[attempt[d]])
    /\ active # base[d]
    /\ Goto(d, "reload")
    /\ UNCHANGED <<stores, locals, deleter, history>>

(* Mutant: the same attempt is tried against the new pointer. *)
ReloadWithoutRebase(d) ==
    /\ pc[d] = "reload"
    /\ base' = [base EXCEPT ![d] = active]
    /\ Goto(d, "swap")
    /\ UNCHANGED <<stores, env, cand, attempt, bound, tries, ret, deleter, history>>

(* The pointer has moved: fold again onto the revision it names now.  If   *)
(* it is gone, the same attempt is tried against its absence.              *)
Reload(d) ==
    /\ pc[d] = "reload"
    /\ base' = [base EXCEPT ![d] = active]
    /\ tries' = [tries EXCEPT ![d] = @ + 1]
    /\ \/ /\ active # NoRev
          /\ Goto(d, "fold")
          /\ UNCHANGED ret
       \/ /\ active = NoRev
          /\ tries[d] + 1 < MaxAttempts
          /\ Goto(d, "swap")
          /\ UNCHANGED ret
       \/ /\ active = NoRev
          /\ tries[d] + 1 = MaxAttempts
          /\ Goto(d, "check")
          /\ ret' = [ret EXCEPT ![d] = cand[d]]
    /\ UNCHANGED <<stores, env, cand, attempt, bound, deleter, history>>

(* The installed revision is read back; the first candidate stands in for  *)
(* it when it is gone.                                                     *)
Fetch(d) ==
    /\ pc[d] = "fetch"
    /\ ret' = [ret EXCEPT ![d] = IF Finds(d, attempt[d]) THEN attempt[d] ELSE cand[d]]
    /\ Goto(d, "check")
    /\ UNCHANGED <<stores, env, base, cand, attempt, bound, tries, deleter, history>>

-----------------------------------------------------------------------------
(* _after_promote and _index_and_rollup.                                   *)

(* Mutant: whether the candidate was installed is not asked. *)
CoveredUnlessConflict(d) == ~Conflicting(content[ret[d]])

(* The active revision must be the returned one and hold every fact of the *)
(* stored frontier.                                                        *)
Covered(d) ==
    /\ ~Conflicting(content[ret[d]])
    /\ active = ret[d]
    /\ frontier \subseteq content[ret[d]]

(* Mutant: the envelopes are tombstoned again but the rows stay. *)
CheckTombstonedKeepsRows(d) ==
    /\ pc[d] = "check"
    /\ tombstoned
    /\ TombstoneEnvelopes
    /\ Return(d)
    /\ UNCHANGED <<revisions, pointer, search, tombstoned, deleter, history>>

(* A call tombstoned meanwhile loses its rows again.  The row of           *)
(* active_calls is not touched.                                            *)
CheckTombstoned(d) ==
    /\ pc[d] = "check"
    /\ tombstoned
    /\ sink' = {}
    /\ cache' = [cache EXCEPT ![d] = {}]
    /\ TombstoneEnvelopes
    /\ Return(d)
    /\ UNCHANGED <<content, built, pointer, search, tombstoned, deleter, history>>

CheckUncovered(d) ==
    /\ pc[d] = "check"
    /\ ~tombstoned
    /\ ~Covered(d)
    /\ MarkFailed(env[d])
    /\ Return(d)
    /\ UNCHANGED <<revisions, pointer, search, tombstoned, deleter, history>>

CheckCovered(d) ==
    /\ pc[d] = "check"
    /\ ~tombstoned
    /\ Covered(d)
    /\ Goto(d, "index")
    /\ UNCHANGED <<stores, locals, deleter, history>>

(* A revision that is no longer the active one is not indexed. *)
ReadBeforeIndex(d) ==
    /\ pc[d] = "index"
    /\ Goto(d, IF active = ret[d] THEN "upsert" ELSE "mark")
    /\ UNCHANGED <<stores, locals, deleter, history>>

(* search.upsert_revision: one document per call, the last writer wins. *)
Upsert(d) ==
    /\ pc[d] = "upsert"
    /\ search' = ret[d]
    /\ Goto(d, "mark")
    /\ UNCHANGED <<revisions, pointer, inbox, locals, deleter, history>>

Mark(d) ==
    /\ pc[d] = "mark"
    /\ MarkAssembled(env[d])
    /\ Return(d)
    /\ UNCHANGED <<revisions, pointer, search, tombstoned, deleter, history>>

(* Rows written while the call is being deleted that nobody will look at. *)
Tear(d) == torn' = (torn \/ (tombstoned /\ attempt[d] # NoRev))

(* process_outbox: any exception of the above, a failed decode, an         *)
(* unreachable store or the unique violation of two first promotions,      *)
(* marks the envelope failed.                                              *)
Fail(d) ==
    /\ pc[d] # "idle"
    /\ MarkFailed(env[d])
    /\ Upset
    /\ Tear(d)
    /\ Return(d)
    /\ UNCHANGED <<revisions, pointer, search, tombstoned, deleter, applied>>

(* The process dies and is started again. *)
Crash(d) ==
    /\ pc[d] # "idle" \/ cache[d] # {}
    /\ cache' = [cache EXCEPT ![d] = {}]
    /\ Upset
    /\ Tear(d)
    /\ Return(d)
    /\ UNCHANGED <<content, built, sink, pointer, search, inbox, deleter, applied>>

-----------------------------------------------------------------------------
(* apply_deletion, in the API process.  The call is named by its call id   *)
(* or by the id its source gave it.  Only a call with revisions is known   *)
(* by its call id; what is found now is all that will be deleted.          *)
RequestDeletion(bySource) ==
    /\ dpc = "none"
    /\ LET owned == active # NoRev /\ sink # {}
       IN  /\ found' = owned
           /\ dpc' = IF owned \/ bySource THEN "tombstone" ELSE "done"
    /\ UNCHANGED <<stores, pc, locals, history>>

WriteTombstone ==
    /\ dpc = "tombstone"
    /\ tombstoned' = TRUE
    /\ TombstoneEnvelopes
    /\ dpc' = IF found THEN "rows" ELSE "purge"
    /\ UNCHANGED <<revisions, pointer, search, pc, locals, found, history>>

DeleteRows ==
    /\ dpc = "rows"
    /\ sink' = {}
    /\ dpc' = "pointer"
    /\ UNCHANGED <<content, built, cache, pointer, search, inbox, pc, locals, found, history>>

DeletePointer ==
    /\ dpc = "pointer"
    /\ active' = NoRev
    /\ frontier' = {}
    /\ dpc' = "search"
    /\ UNCHANGED <<revisions, search, inbox, pc, locals, found, history>>

DeleteSearch ==
    /\ dpc = "search"
    /\ search' = NoRev
    /\ dpc' = "purge"
    /\ UNCHANGED <<revisions, pointer, inbox, pc, locals, found, history>>

(* _purge_queues drops the outbox rows; completed_at is set. *)
PurgeQueues ==
    /\ dpc = "purge"
    /\ outbox' = {}
    /\ dpc' = "done"
    /\ UNCHANGED <<revisions, pointer, search, estate, tombstoned, pc, locals, found, history>>

Delete ==
    \/ \E bySource \in DeletionKinds : RequestDeletion(bySource)
    \/ WriteTombstone \/ DeleteRows \/ DeletePointer \/ DeleteSearch \/ PurgeQueues

-----------------------------------------------------------------------------
Process(d) ==
    \/ Gate(d) \/ ReadExpected(d) \/ FoldOnto(d) \/ Insert(d) \/ VerifyVisible(d)
    \/ SwapRefused(d) \/ SwapWon(d) \/ SwapLost(d) \/ Reload(d) \/ Fetch(d)
    \/ CheckTombstoned(d) \/ CheckUncovered(d) \/ CheckCovered(d)
    \/ ReadBeforeIndex(d) \/ Upsert(d) \/ Mark(d)

Drain(d) ==
    \/ \E e \in Envelopes : Claim(d, e)
    \/ Process(d) \/ Fail(d) \/ Crash(d)

Next ==
    \/ \E d \in Drainers : Drain(d)
    \/ \E e \in Envelopes : Requeue(e)
    \/ Delete

Spec == Init /\ [][Next]_vars

-----------------------------------------------------------------------------
(* Properties.  Those about what a reader sees speak of a call that was not *)
(* tombstoned; what deletion leaves behind is the subject of the last ones. *)

ActiveFacts == IF active = NoRev THEN {} ELSE content[active]

(* What the snapshots of the installed envelopes withdrew. *)
Withdrawn == UNION {Drops[e] : e \in applied}

(* A reader that follows the active pointer finds the revision: the pointer *)
(* never runs ahead of the rows, whatever fails between the two stores.     *)
ActiveVisible == ~tombstoned => active \in Maybe(sink)

(* An envelope is marked assembled only when what it carried is in the      *)
(* active revision, except what a snapshot withdrew; a concurrent winner    *)
(* does not strand the facts of a loser (docstring of promote).             *)
NoFactStranded ==
    ~tombstoned =>
        \A e \in Envelopes :
            estate[e] = "assembled" => Adds[e] \subseteq ActiveFacts \cup Withdrawn

(* The stored frontier claims nothing the active revision does not hold,    *)
(* except what a snapshot withdrew between the candidate and its rebase.    *)
FrontierHonest == ~tombstoned => frontier \subseteq ActiveFacts \cup Withdrawn

(* Conflicting facts are never served: a conflict that appears only after a *)
(* rebase blocks promotion as well as one in the first candidate.           *)
NoConflictServed == ~Conflicting(ActiveFacts)

Reg == INSTANCE CallFacts WITH
    facts <- IF tombstoned THEN {} ELSE ActiveFacts,
    applied <- IF tombstoned THEN {} ELSE applied,
    acked <- IF tombstoned THEN {} ELSE {e \in Envelopes : estate[e] = "assembled"},
    erased <- tombstoned

(* The concurrent drain is a single register to which envelopes are applied *)
(* one at a time, and an envelope is acknowledged only after it was.        *)
ImplementsCallFacts == Reg!CallSpec

Quiet == \A d \in Drainers : pc[d] = "idle"

(* Once a deletion that found the call is over and the drainers that were   *)
(* under way have returned, ClickHouse holds no revision of it, however the *)
(* inserts and the two deletes interleaved, unless a drainer died or gave   *)
(* up between its insert and its own look at the tombstones.                *)
RowsErased == dpc = "done" /\ found /\ Quiet /\ ~torn => sink = {}

-----------------------------------------------------------------------------
(* What the documents say and the code does not keep: TLC refutes each of   *)
(* these on the instance of MCPromotion.                                    *)

(* query.py serves from the active revision; the index follows it.         *)
SearchShowsActive ==
    Quiet /\ ~tombstoned /\ upsets = 0 /\ (\A e \in Envelopes : estate[e] = "assembled")
        => search = active

(* docs/reference/security.md: Postgres control rows and search documents   *)
(* delete synchronously.                                                    *)
ControlRowsErased ==
    dpc = "done" /\ found /\ Quiet /\ ~torn => active = NoRev /\ search = NoRev

=============================================================================
