# A TLA+ development of obsalt

obsalt receives webhooks and OTLP batches about voice calls, stores them,
decodes them in the background, and keeps for every call a series of immutable
revisions of which one is active. This directory holds its formal model: TLA+
modules, the configurations TLC checks them with, and theorems checked by TLAPS.
Paths below are relative to `src/packages/obsalt/src/obsalt/` unless they start
with `src/`.

## 1. Inventory

### Processes and stores

`obsalt serve` (the API) and `obsalt worker` are separate processes that share
Postgres, ClickHouse and an object store. Both drain: the worker in a loop
(`cli.py:277-295`), the API as a background task after each acknowledgement
(`api.py:194`, `api.py:264`). `obsalt retain` (`cli.py:297-308`) is a third
process. The lock around a drain (`_DRAIN_LOCK`) is per process. Postgres runs
READ COMMITTED with autocommit; there is no transaction across two stores. Redis
is a hint only (`store/leases.py`). One round of a drain (`worker/drain.py`
49-63) is `process_outbox`, `finalize_due_traces`, `drain_tier2`,
`drain_forward_queue`, `drain_outbound`.

| Component | State it keeps | Operations | Interacts with | Hard behaviour | What makes it correct |
| --- | --- | --- | --- | --- | --- |
| Receive (`ingest/receive.py`, `ingest/otlp.py`) | none of its own | authenticate, look at tombstones, put object, accept, refuse | object store, inbox, span index | object put before accept; tombstone between look and insert; accept and drop in two transactions | what was acknowledged is in the outbox or of a deleted call; every body is named by a row or about to be |
| Inbox and outbox (`store/postgres.py` 190-560) | `raw_envelopes.state`, `outbox` rows (attempts, lease, backoff), `decode_dlq`, `tombstones` | accept, claim, mark_assembled, mark_failed, drop, requeue, tombstone, purge | receivers, workers, replay, deletion | leases that run out, crashes, late marks, attempt limits | no envelope forgotten, one holder, each settles, tombstones prevail |
| Drain (`worker/drain.py`) | the envelope at hand | gate, decode, promote, index, mark, announce | all stores | several drainers of one call; a failure between two stores | an envelope is assembled only if the active revision covers it |
| Promotion (`assemble/promote.py`, `worker/process.py`) | `active_calls` (revision, frontier), ClickHouse rows, per-process cache | fold, write, verify, compare-and-swap, rebase | pointer store, sink | stale base, lost swap, conflict after a rebase, retries used up | the pointer names rows; no fact stranded; conflicts never served |
| Fact fold (`assemble/assembler.py`, `assemble/rehydrate.py`) | none | fold events, merge, retract, snapshot, rehydrate | decoders, mappers | what was derived goes back in as facts; reports in any order and again | only a disagreement refuses a report; a snapshot retracts its domains and nothing else |
| Providers and mappers (`src/packages/obsalt-*`, `otel/mappers.py`) | none | decode a report, map a batch of spans | fold | facts that share an identity | as for the fold |
| Trace assembly (`otel/trace_assembly.py`, `store/trace.py`) | `trace_assemblies` row and a per-process copy | ingest, ready, due, mark_finalized | drain | stale copy overwrites another process's spans; finalized although promotion failed; late spans | each span of a trace reaches a revision |
| Span identity (`otel/span_identity.py`, `store/postgres.py`) | fingerprint per span, in a table and in a cache of the process | observe | OTLP receive | persisted before the batch is accepted; a table that fails | a changed span is refused, a repeated one is not |
| Deletion (`ops/privacy.py`) | tombstones, `deletion_requests` | tombstone, delete rows, pointer, document, queues, bodies | all stores | races every drainer of the call | nothing of the call remains or comes back |
| Replay, backfill (`worker/replay.py`, `ops/backfill.py`) | none | requeue, receive | inbox | races the workers | as for the outbox |
| Retention (`ops/retention.py`) | none | sweep by age, sweep orphans | object store, inbox | orphan sweep against put-before-accept | removes nothing still needed |
| Outbound webhooks (`webhooks/outbound.py`) | `webhook_destinations`, `webhook_outbox` | subscribe, announce, claim, post, retry, rotate, purge | network | rows read by two processes without a lease; rotation under way | at least once, boundedly often; a rotation refuses nothing |
| OTLP forwarding (`otel/forward_queue.py`, `store/forward.py`) | `otlp_forward_outbox` | enqueue, claim, post, requeue | network, object store | as above; the body may be gone | each destination gets the original bytes |
| Tier-2 judging (`analysis/tier2.py`, `worker/drain.py`, `api.py` 2160-2246) | queue in memory, `org_spend`, analysis rows | schedule, ask, meter, write | judge | budget read before it is spent; queue lost with the process | spend bounded; verdicts stay; queued work done |
| Rubrics, runners, policy (`api.py`, `runtime.py`, `analysis/`) | tables, and a copy per process | put, patch, delete, resolve | tier-2 | edits overlap an await; the worker's copy is of its start | a version has one text; who judged is who was consented to |
| Tier-1 analysis (`analysis/hallucination.py`, `behavior.py`, ...) | none | detect, ground, contradict, flag | revisions | a call told late and in parts is analysed again | what was said and done is not taken back, the agent proves nothing |
| Fleet pages (`analysis/rollups.py`, `contributions.py`, `cluster.py`) | contributions that no page reads, serving generation | summarise, contribute | revisions, analysis rows | rows of retries and failures in any order | each call counts once, by its latest verdict that finished |
| Listing (`query.py`, `store/postgres.py` 740-860) | none | page | pointers | calls move between two pages | a client that follows the cursor misses none that stayed |
| Keys and sessions (`security/`, `session.py`), console, redaction, CLI, seed, test kit | keys, expiry; else none | hash, verify, render | - | - | - |

`PROJECT.json` lists every component with its status and the reason where it is
not modelled, and every hazard at its line with the properties that watch it.

## 2. How the project is built

Every module models one component, or one queue, at the grain of one store call
or one transaction per step. What several modules touch is promised by one and
used by the others:

- `CallFacts` is the abstract specification of a call: an atomic register of
  facts. `Promotion` implements it (the refinement is checked and proved), and
  `TraceAssembly` takes a promotion as the one step that `CallFacts` promises.
- `Promotion` takes what an envelope adds, withdraws and contradicts as given;
  `FactFold` says what these are, and `Decoders` and `SpanMappers` which events a
  source's reports lead to. `Reports` composes the three into the life of one
  call.
- `Outbox` is the queue with its attempts, backoffs and leases; `Ingest` looks at
  the same rows from the side of the bodies they name, `SpanIdentity` from the
  side of the batches that are refused.
- `Evaluation` is the money and the order of tier-2, `Verdicts` what a verdict
  counts for and who gave it, `Rubrics` which text it was of.
- `CallAnalysis` is tier 1 over one call that is told late, in parts and in any
  order; `FleetRollups` and `Listing` read the active revisions.

No module that is proved about uses a RECURSIVE operator.

## 3. The modules

### CallFacts

The promise, with nothing of the implementation: a call is a register of facts.
`Apply` folds one envelope into it atomically, unless the result would hold
facts that contradict one another. `Acknowledge` needs an earlier `Apply`.
`Reopen` is a replay. `Erase` is final.

### Promotion

The drain of one call by any number of `Drainers`, at the grain of one store
call per step.

| Model | Code |
| --- | --- |
| `sink`, `cache` | ClickHouse rows of `call_revisions`; `ClickHouseSink.revisions` of a process, which `get` falls back on |
| `active`, `frontier` | the row of `active_calls` |
| `search` | the revision named by the row of `search_documents` |
| `estate`, `outbox`, `tombstoned` | `raw_envelopes.state`, presence of outbox rows, a tombstone that matches |
| `pc`, `env`, `base`, `cand`, `attempt`, `bound`, `tries`, `ret` | where a drainer is and the locals of `process_normalized_events` and `promote` |
| `Claim`, `Gate` | `claim_outbox`; `persist_envelope` up to the fold |
| `ReadExpected`, `FoldOnto`, `Insert`, `VerifyVisible` | `worker/process.py` 214-243 and `rebase` 223-237 |
| `SwapRefused`, `SwapWon`, `SwapLost`, `Reload` | the loop of `promote`, over `compare_and_swap` |
| `Fetch` | `worker/process.py` 251-257 |
| `CheckTombstoned`, `CheckUncovered`, `CheckCovered` | `_after_promote` |
| `ReadBeforeIndex`, `Upsert`, `Mark` | `_index_and_rollup`, `mark_assembled` |
| `Fail`, `Crash`, `Requeue` | an exception in `process_outbox`; the process dies; a replay |
| `RequestDeletion` ... `PurgeQueues` | `apply_deletion`, in its order |

Facts are members of a small set. An envelope adds facts and, when it holds a
snapshot or retractions, withdraws some. `Clash` relates facts of one identity
that `_merge_or_choose` does not reconcile. Revision ids are numbers in the
order they are made; the code's are random, and nothing compares them but for
equality. `applied`, `upsets` and `torn` are history: they occur in no guard but
the bound on upsets.

Two processes may hold one envelope at the same time: a lease lasts 30 seconds,
the decode of each of the up to 32 envelopes of a batch may take 10, and replay
clears leases. `Claim` therefore does not ask for a lease; module Outbox does.

### Outbox

The rows behind `claim_outbox`, each action one transaction (accept is two
steps: what it sees of the tombstones, and its insert, because its `FOR SHARE`
locks only tombstones that exist already). Time is two bits of a row: does its
lease run, has its backoff passed. The order of row ids is the set of `older`
rows. What the worker does with an envelope is three looks (state, tombstones by
the row, tombstones by the decoded events) and one mark or failure.

| Model | Code |
| --- | --- |
| `Look`, `Accept` | `receive_webhook` 142, `accept` |
| `DropConflicting`, `ReceiverDies` | `receive_otlp_batch` 97-108 |
| `Claimable`, `Ranked`, `Claim` | the CTEs of `claim_outbox` |
| `Take`, `Gate`, `Decode`, `Check`, `Mark` | `process_outbox`, `persist_envelope`, `persist_otlp_envelope`, `_after_promote` |
| `Fail`, `Abandon`, `Crash` | `mark_failed`; the failure of `mark_failed`; the process dies |
| `LeaseExpires`, `BackoffPasses` | `leased_until`, `available_at` against `now()` |
| `Requeue`, `DeleteCall`, `PurgeQueues`, `PurgeDlq` | `requeue`, `apply_deletion`, `_purge_queues`, `POST /v1/ui/dlq/purge` |

An OTLP row carries no `source_call_id` (`api.py` passes none), so no tombstone
names it; a webhook row carries the one its payload states.

### TraceAssembly

One trace: the row of `trace_assemblies`, the copy of it each draining process
keeps, and the batches of spans that arrive in any order. An OTLP batch is
folded into the copy, the copy is written over the row, and if the record is
ready the call is promoted from it. `finalize_due_traces` promotes the records
that time made ready.

| Model | Code |
| --- | --- |
| `row`, `cache` | the row of `trace_assemblies`; `PostgresTraceAssembler._mem.records` of a process |
| a record: `events`, `rooted`, `ended`, `finalized`, `late` | `TraceRecord`: `events`, `rooted`, `root_ended_at`, `finalized`, `late_after_finalize` |
| `Load`, `FoldAndSave` | `_load`; `ingest` and `_save` |
| `Judge` | `ready` and the early return of `persist_otlp_envelope` |
| `Promote`, `LosePromotion` | `process_normalized_events`: the revision becomes active, or it conflicts or loses every swap |
| `MarkFinalized` | `mark_finalized`, after either |
| `Check` | `_after_promote` |
| `Due` | `_refresh` and `due`: unfinalized rows are read over the copies |
| `SaveFails` | `_save` raises after the copy was changed |
| `Fail`, `Crash` | an exception in `process_outbox`; the process dies, or an exception in `finalize_due_traces` |
| `Delete` | `apply_deletion`, which leaves row, copies and OTLP envelopes |
| `Tick` | `clock`: before the grace of the root, after it, after the longest call |

A batch is a model value, of which the model knows whether it has the root span
(`Rooting`), an end time with it (`Timed`) and facts that only a root may state
(`Ending`: outcome, end, cost). `call` is the active revision: the batches whose
facts it was offered, whether it is rooted, whether it serves an ending, and who
promoted it. The active revision is folded in again at every promotion, which is
how `unrooted` withdraws an ending (`Assembled`). `_load` is taken with the
claim: what comes between, the decode, changes nothing another process sees, and
what the claim of another process may do meanwhile is the same. How often a
batch fails before it is dead-lettered is Outbox's matter; here `MarkFailed`
chooses.

### Ingest

The raw bodies and the rows that name them: a reception puts the body, looks at
the tombstones and accepts; a worker claims a row and reads the object *the claim
named*; `obsalt retain` deletes by age and deletes what no row names; a deletion
tombstones. The object store and Postgres share no transaction, so each of these
is several steps.

| Model | Code |
| --- | --- |
| `objects`, `rows`, `queue`, `leased` | the object store; `raw_envelopes`; `outbox` with and without a lease |
| `Receive`, `PutBody`, `LookAgain`, `Insert`, `Refused`, `Purge` | `receive_webhook`, `run_backfill`, `PostgresInbox.accept` |
| `InsertRow`, `Redeliver`, `LateReplaces`, `LatePurges` | `accept`'s insert, its conflict branch, and an insert whose row came after the look |
| `ClaimRow`, `Read`, `DecodeBody`, `DecodeFails`, `MarkDecoded`, `DropTombstoned` | `claim_outbox`, `persist_envelope`, `mark_assembled`, `mark_failed` |
| `SweepRows`, `SweepKeys`, `SweepDelete`, `Expire` | `sweep_orphan_objects` in its three parts, `sweep_raw` |
| `Delete`, `Replay`, `LeaseLost`, `ReceptionDies` | `apply_deletion`, `requeue`, a lease that ran out, a request that dies |

### SpanIdentity

Receivers of OTLP batches: the depth of the outbox is read, each span's
fingerprint is compared first with the cache of the process and then with the
table (three steps: cache, select, insert), the batch is accepted whatever was
found, and on a conflict the row is dropped and 409 answered. A statement on the
table may fail; the code takes that for "not seen". `Restart` empties a cache.

### Delivery and Forward

The two outbound queues, both read by two processes without a lease. In
`Delivery`, `Finish` marks an envelope assembled and owes its events, `Emit`
inserts them one by one, `Claim` selects every open row, `Post` signs with the
secrets that hold at the claim, `Mark` writes the attempts of the *copy*; secrets
are rotated, overlap, and are taken up by the receiver at a time of its own. In
`Forward` a job is enqueued after its object is put, claimed with its bytes,
posted to every destination, and requeued as a whole if one answer was
retryable. In a stock deployment nothing fills `state.destinations`: it is the
instance with `Targets = {}`.

### Evaluation

Paid evaluation of one tenant: each drainer's own queue, requests by hand, the
ledger. `Decide` is `decide_tier2`; `Ask`, `Answer`, `AnswerFails` are
`run_tier2`; `PackAndWrite` and `WriteManual` the ends of
`_run_queued_tier2` and `_run_manual_analysis`, `MeterPack` the metering of a
request's pack before its rubrics, `PackFails` an exception outside `run_tier2`.
`Latest` is how `latest_analysis_results` ranks rows of one version.

### FactFold, Decoders, SpanMappers, Reports

`FactFold` is `fold_facts` and `assemble` of `assemble/assembler.py`,
`rehydrate.py` and `domain/coverage.py` on events as records: identities, unset
fields, merge or conflict, snapshots and retractions, what an unrooted trace may
not state. `Decoders` is what the five hosted providers make of a report,
`SpanMappers` what the OTLP mappers make of spans; field aliases, signatures and
the wording of a fact are left out, identities and clocks are not. `Reports`
is the life of one call told by one of nine sources, report by report or batch
by batch, in any order and again, with a promotion after each. `FoldFacts` is a
recursive function over the list of events; what the fold knows (`Known`) maps
the identity of a fact to the event accepted for it. Of two facts in conflict
the code keeps the one with the smaller content hash, the model either, the same
one whichever came first (`Winner`).

### CallAnalysis, Verdicts, Rubrics, FleetRollups, Listing

`CallAnalysis` is tier 1 (`hallucination.py`, `behavior.py`, `hangup.py`, tool
binding) on a call whose facts are only added to: a turn comes before or after
those that were said before it (`Speak`), its text and its end are told apart
(`Amend`), an interruption marks it (`Interrupt`), a tool is invoked and returns
(`Invoke`, `Return`), a reference, a start and an ending are reported (`Refer`,
`Open`, `End`), in any order. A turn is known by index, speaker and start, as in
`TurnObserved.identity_parts`; turns are listed and clocks derived as
`assembler.py` does (`Before`, `StartOf`, `EndOf`). Before each step the call is
what the next fold starts from (`Refolds`): all facts again, as when the spans of
a trace are decoded once more, or the revision, which forgets a reported start and
keeps a derived end. What the regular expressions find in a text is given with
the text. Retractions are Reports'. `Verdicts` is the
resolution of judges under runners and a policy that change while an evaluation
is under way, the pack with its prechecks, rubrics, predicates, the card and the
exported case. `Rubrics` is the table, the cache of the API and the worker's,
under overlapping edits; the caches are dicts, whose order decides which rubric
a question of the worker is judged by. `FleetRollups` is every number of the
fleet pages from an append-only log of rows, in which the deletion of a call
leaves gaps. What the code sorts and scans is stated by what it selects: a
percentile by how many times do not exceed it, the row that speaks by being
preceded by all its rivals, a queue item by none of the call's being graver; the
buckets of endings are built call by call, as `_embed_subclusters` does.
Percentiles are those of the pages, over the stage
measurements of the active revisions; the contribution stores are not modelled
(section 6). `Listing` is both ways to a page of calls, with a client that
follows the cursor while calls are promoted, dated and deleted.

### MC and proof modules

`MCPromotion`, `MCOutbox`, `MCTraceAssembly` and `MCEvaluation` hold values of
constants. `MCInbox` (Outbox, Ingest, SpanIdentity), `MCDelivery` (Delivery,
Forward) and `MCFunctions` hold several small specifications that share no state:
the variable `side` says which of them a behaviour is about, so that the state
space is the sum of theirs. They extend the components a theorem is about, so
that what TLC checks and what is proved is one definition; that is why these
components name what all have for themselves (`IngestSpec`, `ForwardNext`,
`IdentityInit`, `verdictVars`). `PromotionInvariant` states the inductive
invariant of Promotion. Eight modules hold the theorems: `PromotionProofs`,
`OutboxProofs`, `TraceAssemblyProofs`, `IngestProofs` (Ingest and SpanIdentity),
`DeliveryProofs` (Delivery and Forward), `EvaluationProofs` (Evaluation, Verdicts
and CallAnalysis), `ConsoleProofs` (Listing and Rubrics) and `ReportsProofs`
(Reports, with FactFold, Decoders and SpanMappers, and FleetRollups).

Each module also holds the mutants its properties are tested with: an operator
named for the bug, above the definition it would take the place of.

## 4. The runs

| Run | Asks | Bounds |
| --- | --- | --- |
| `MCPromotion` | is the drain an atomic register that strands nothing, never serves conflicts, never points at missing rows, and leaves no row of a deleted call? | 2 drainers, 2 swap attempts, 3 revisions, 1 upset; 3 envelopes (a fact; a snapshot that withdraws two and adds one; a contradiction) without a deletion, the first two with one, by either id |
| `MCOutbox` | is no accepted work forgotten, and has it one holder? | 2 workers, a webhook and a batch of one call that is refused for a conflict, claims of 2, 3 claims, 2 failures, 2 faults |
| `MCOutboxSettles` | does accepted work end, and does the work of a deleted call leave the queue for good? | 2 workers, webhooks of 2 tenants, claims of 1, 1 fault |
| `MCInbox` | are bodies kept as long as a row waits, does a row name what was decoded? is a process consistent about spans, and is the queue's limit kept? does a claim share its places? | bodies: 2 receivers, 2 workers, one delivery with two contents, 3 receptions, 2 faults; spans: 2 receivers, a span, the same with other content, a batch of two, limit 1, 4 receptions, 1 fault; tenants: 1 worker, 3 envelopes of 2 tenants, claims of 2 |
| `MCTracePair` | is nothing finalized that was not promoted, no ending invented, and do two processes' copies settle? | 2 processes, a batch with the outcome and one with the root, 1 claim each, 1 fault (crash, failed write or exception of a due trace) |
| `MCTraceAlone` | does one process lose no span, withdraw no ending, and promote every batch in the end? | 1 process, 3 batches (outcome, root, neither), 2 claims each, 1 fault |
| `MCDelivery` | are duplicates bounded, announcements lost only by what died, rotations harmless, forwards whole, and do both queues end? | 2 processes; a revision with two events, 2 destinations, dead after 3 attempts, 2 faults; one job for 2 destinations, 2 retryable answers, 2 faults |
| `MCEvaluation` | how far may the ledger pass the budget, do verdicts stay, is queued work done? | 2 drainers, 1 request, 2 revisions of which one has a trigger, 2 rubrics, a pack of 2 questions, budget 2, 4 jobs, 1 fault |
| `MCFunctions` | pages, findings, fleet numbers, verdicts, rubrics and revisions: what must not depend on order, retries or what is reported later | 3 calls on pages of 1, 2 dates, at most 1, 1 and 2 revisions of a call; a call of up to 3 turns, tools and references, of 4 turns that begin around midnight (no user turn is interrupted, no answer cut off), 3 tool runs (one of which is pending first), a reference, 3 codes, one start and one end; a log of up to 2 places; 2 endpoints, a pack of one question; 2 rubrics, 2 overlapping PUTs, begun while fewer than 2 texts are issued; two or more reports or batches of each of 9 sources, with deltas that tell another transcript, ending or cost than the end does |

Two drainers and three revisions are enough for one drainer to lose a swap,
rebase and meet the other again; a third drainer adds no new relation between a
base and a pointer, and the theorems hold for any number, of retries of the swap
as well. The limits 16, 8, 32
and `max_attempts=8` are constants of the modules with small values, in the
proportion of the code where it matters (`DlqLimit` below `ClaimLimit`).
Constants whose comment says "bound of the model" bound the model only.
`Settles` and `TombstonesPrevail` hold while faults stay below
`ClaimLimit - DlqLimit`: a row whose claimants die sixteen times without marking
it is never claimed again and never dead-lettered, and two workers that outlive
their leases in turn, failing each time, can resurrect a dead-lettered row
without end (`mark_failed` inserts a row with no attempts when there is none).
Both are listed as hazards.

`MCTracePair` needs two batches, one in the copy of each process, for the copies
to differ, and `MCTraceAlone` three: one before, one with and one after the root.
`MCTraceAlone` has one process because `SpansKept`, `EndingKept` and `Reaches`
are false with two (`MCTraceDurable`; from the overwritten spans the other two
follow). `EndingKept` allows one failed write but not two: a root that is only
in the copy is promoted by `finalize_due_traces`, and when the copy is lost
before the row is written, the next revision is unrooted.

In `MCInbox` one delivery with two contents is what it takes for a row to change
its object while a worker holds the old one; three receptions are the first, the
redelivery and a backfill. Four receptions of OTLP batches let each receiver
meet the other's span before and after a restart.

In `MCEvaluation` the overshoot needs every actor between its read and its
addition at once; the bound is reached. In `MCFunctions` a page of one call makes
every call the call of a cursor. A call of three facts is what it takes to make a
statement, ground it and add a third, and to put a late turn between two others,
so that `dead_air` and `barge_in_no_recovery` come and go; the fourth turn begins
after midnight and the call before it, so that a day comes to be taken from
another turn. A log of two places is a run and the retry or
the correction that outranks it; two issued texts are two versions of a rubric,
or one of each of two. The theorems hold without these bounds.

What is stored after a rebase is the frontier of the *first* candidate, so it may
lack accepted facts of the active revision; `FrontierHonest` states what holds of
it: it never claims a fact that was not there.

Several properties hold only with an exception that the code forces, and say so:
`BodiesAccounted` excepts deliveries received while an orphan sweep runs,
`NamesWhatWasDecoded` rows whose body was replaced under a worker,
`ProcessAgrees` is per process (between processes, and after a restart with a
failing table, it is false), `AnnouncedUnlessAbandoned` excepts drainers that
fail between mark and insert, `VersionsKept` rubrics edited across a waiting PUT,
`RedeliveredAsIs` turns marked by an interruption and traces without an agent,
`PagesCoverSteady` owes nothing across a change of the cursor's call's date.

`ReportAdmitted` says over what a snapshot that does not contradict itself is
never refused: over what it is authoritative for, and over the clocks of the
call. The code refuses it over the rest, and the run reaches each of these:

- Retell keeps the transcript as inline evidence of one path
  (`obsalt_retell/plugin.py` 216-243): the transcript of `transcript_updated` and
  the longer one of `call_ended` are two contents of one fact of no mergeable
  type (`assembler.py` 295-299), and the call is not promoted again.
- A reason that comes before the end of the call goes back into the fold with the
  end that was derived from the turns (`rehydrate.py:136`, beside the comment that
  derived ends are left out), and stands against the reported one. When no end is
  ever reported, the derived one stays although later turns end after it.
- A cost told twice and differently; or an agent, which no source of the run does.

What is no snapshot may conflict further: a tool invoked with `{}` and reported
with its result and no arguments does, since `{}` and `None` are both unset and
differ (`assembler.py` 312-321), against the docstring above (283-286).

`FindingsStable` is of a call whose facts are only added to, a tool's result told
once. It excepts what the code does take back: the flags of `Passing`, which are
about who spoke next and for how long (a late turn of the caller between two of
the agent's ends a `barge_in_no_recovery`, a late turn or end fills a
`dead_air`), a date whose day was that of a start which has moved since, and, of
`Awaiting`, what a tool or a transfer fulfils. A verdict other than "grounded" may
change either way: what contradicts may come late, and so may what grounds.

Deadlock is not checked: a drained system does nothing.

### Expected violations

Each of these runs checks one sentence of a document or comment, and TLC refutes
it. PROJECT.json quotes the sentence.

| Run | What happens |
| --- | --- |
| `MCTraceDurable` | two processes overwrite each other's spans of one trace |
| `MCFactConflict` | one report with two tool results contradicts itself: the results share kind and source path, hence an identity, so the call is never promoted |
| `MCRubricMixup` | the worker looks a rubric up by its version number alone and judges it by the text of another |

### Stated, and not run

These are stated in the modules beside the properties that hold, from what the
repository says; the code does not keep them, and no run is spent on each.

| Definition | What happens |
| --- | --- |
| `Promotion!SearchShowsActive` | a slow drainer overwrites a later search document; nothing repairs it |
| `Promotion!ControlRowsErased` | a drainer past its last look at the tombstones indexes a deleted call; one whose swap comes after the deletion sets the pointer again |
| `Outbox!DlqAfterEightFailures` | four failures dead-letter, since claims count |
| `TraceAssembly!ErasedTraceGone` | a trace of a deleted call becomes due, is promoted and served |
| `Evaluation!HardCap` | with a budget of 0 the worker still puts its pack to the judge: it does so whatever was spent (`worker/drain.py:610`), and meters nothing |
| `Ingest!SweepSparesRows` | the sweep lists rows before keys, and a body is put before its row: the body of a fresh row is deleted |
| `SpanIdentity!ConflictRefused` | a receiver whose table fails, or whose cache kept a refused fingerprint, answers 200 to what another was refused for |

### Met while modelling

Read from the code while it was translated, and kept in the models as it is:

- Promotion and drain: a late mark overwrites the state `tombstoned`; an OTLP
  batch of a deleted call keeps its row until its claims are used up, and then
  for ever; a deletion before the first promotion finds no pointer and leaves
  the rows; a crash between `mark_assembled` (`worker/drain.py:394`) and the
  announcement loses the event; the rollup generation is never published, since
  the row its compare-and-swap expects is never inserted
  (`store/postgres.py` 1269-1288, `worker/drain.py` 418-421).
- Ingest: `_purge_evidence` matches only keys that hold the call id, so raw
  bodies outlive a deletion until retention takes them; a backfill does not
  purge a tombstoned orphan (`ops/backfill.py` 59-61).
- Facts: an ElevenLabs audio notification decodes to a snapshot without a
  transcript and retracts the turns served before; an OTLP call without an agent
  id is refused with every late batch (rehydrated "unknown" against none); the
  start a call reported is lost by rehydration; a Retell tool whose call and
  result have an utterance between them conflicts with itself.
- Listing: `list_summaries` looks the cursor's call up by its date *now* and
  ignores the revision the cursor names (`store/postgres.py` 785-794).
- Rollups: production contributes to `ClickHouseRollupStore` (`runtime.py`
  281-285), which appends the rows and quantile states of every promoted revision
  and removes none when the next one is promoted (`contributions.py` 136-200),
  leaves the states of a deleted call (252-261), and merges all of them in
  `latency` (202-220). The docstring (`contributions.py` 5-7) says that a later
  revision replaces the contributions of its call, `docs/reference/security.md`
  73-78 that a deletion is verified in rollups. No page reads that store
  (`query.py` 228-229).
- Tier 1: `farewell_missed` ignores a reply of the caller; a price or an id
  counts as contradicted once any tool ran; the arguments of a tool ground claims,
  but for those about private values, which are looked for in its result only.
- Verdicts: with only the expensive slot filled, the judge and the second judge
  are one endpoint, asked twice (`analysis/runners.py:164`); `state.calibration`
  is filled by nobody.
- Delivery: `event_id` is the primary key, so only the first subscribed
  destination gets a row; two rotations within one overlap leave a receiver that
  has not taken up the first without a secret (`api.py:1808`).
- Rubrics: a PUT that waits for its body across a DELETE brings the rubric back
  in the cache; two overlapping PUTs issue one version with two texts.
- Keys (not modelled): once the bootstrap key was rotated and has expired, a
  restart does not find it by `lookup`, inserts it again and meets the UNIQUE
  `key_hash` of its own row (`runtime.py` 244-246).

### Fairness

Used in Outbox, TraceAssembly, Delivery, Forward and Evaluation. Workers poll for
as long as the service runs and are restarted when they die; each step of theirs
has a deadline (`plugin_deadline_seconds`, database and HTTP timeouts), hence
`WF(Work(w))`: it is one fairness per process and not per step, since a process
does one thing at a time. Leases and backoffs are spans of time. An accept, a
drop and a purge finish unless their process dies, which is another action.
Nothing is assumed about crashes, deletions, redeliveries or replays, nor that a
failing envelope ever succeeds, nor that a destination ever answers: the model
bounds its refusals instead, and a queue that ends under every such bound ends
once the refusals do. In TraceAssembly `WF(Work(p))` is the same loop, which
takes up a batch or looks for due traces in each round, and `WF(Tick)` says that
four hours pass. In Evaluation the judge answers or its client times out.

## 5. The proofs

`PromotionProofs` proves `TypeCorrect`, by one lemma over all actions, then `IInv`
inductive, and derives the safety properties. None of them is inductive alone. Why
it has the parts it has:

- `Owned`: no two drainers hold one revision, so a swap by another drainer
  installs nothing of ours, and `active = ret[d]` proves that *this* drainer
  installed it (`OwnInstalled`). That is what makes the check in
  `_after_promote` sound.
- `WrittenFirst`: an attempt is in the sink before its swap; so `ActiveVisible`.
- `FoldedOntoBase` with `base = active` at the swap: what is installed is the
  envelope folded onto what was active. This gives the refinement of `Apply`,
  and that `Held` (what is active or was withdrawn) only grows; from which
  `NoFactStranded` and `FrontierHonest`.
- `BoundHeld`: the frontier given to `promote` holds nothing that was not held.
- Most parts are conditional on the call not being tombstoned: a deletion takes
  rows and pointer from under the drainers. `DeletesTombstoned` says it does so
  only after the tombstone.

The structure: `OthersSame` and `Frame` for drainers that do not move,
`DrainerKeeps` for the one that does (a step per action), `StoresKeep` for the
shared state, `IInvNext`, `Inductive`; then one theorem per property.
`Implements` maps every step to a step of CallFacts or a stutter.

`RowsAreErased` has an invariant of its own, `EraseInv`: once the deletion took the
rows, whatever is in ClickHouse is there because some drainer with an attempt has
its look at the tombstones still before it (`Owes`). Drainers may take each other's
rows away between insert and read-back; a drainer that is past its insert counts
only while its rows are there, so one that gives up on missing rows leaves none.

`OutboxProofs` proves `OutboxInductive`: the types together with `NothingLost`,
`AtWork` (a worker that is not idle holds an envelope) and `Purges` (only
tombstoned calls are purged, so a purge takes no row that is still owed). A lemma
says what `Put`, `Without` and `Enqueued` leave in the outbox, one more for each
of `mark_assembled`, `mark_failed` and `tombstone` what the transaction keeps,
and one for each kind of actor that its steps keep the invariant. `OutboxTyping`
and `NothingForgotten` follow. The bound on the attempts in the type needs both
the claim's `attempts < ClaimLimit` and `DlqLimit` at most `ClaimLimit`.
`OneHolderAlways` rests on a second invariant, `HolderInv`: uniqueness alone is not
inductive, since a claim keeps it only because whatever is held has a leased row,
nothing is both in a worker's batch and in its hands, and an accept that frees a
row either finds no holder (`Unborn`) or is of a redelivery that was recorded.
`ClaimsAreFair` needs the order of the rows, which is data of the model (`older`):
that every operation leaves a strict total order is a third invariant, `Aged`.
A claim takes rows by their rank within their tenant; were it to take two more of
one tenant than of another it leaves with work, the newest row taken of the first
would stand behind more of its own than the oldest row left of the second does,
and that one would have been taken before it (`RankedFair`). `OnlyClaims` says
that nothing else adds to a worker's batch.

`IngestProofs` proves `IngestInductive`. `BodiesAccounted` speaks of waiting rows
only, and is not inductive: a replay makes an assembled row wait again, so
`RowsNameBodies` says it of every row. A body is put before its row exists, hence
`PutKept` (until then it is there or excused) and `BodiesOwned` (a body without a
row is in the hands of its reception, or was given up). The orphan sweep acts on
lists that are old by then: `SweepListed` says that whatever is being received is
on record as overlapping and that the lists were true of every other row.
`ErasedOnly` says that only a deletion makes a row tombstoned or a reception
purge. `DecodedIsNamed` rests on `HeldAsClaimed`: a worker's copy names the row's
body unless the row was recorded as overtaken.

`DeliveryProofs`, of Delivery, proves `DeliveryInductive`. No row is leased, so a
bound on what a receiver accepts has to count: of a row not yet delivered the
acceptances are those the faults account for plus one for each process that has
been answered and has not marked (`Acceptors`); of a delivered row, or a purged
one, everyone who still holds a copy may be accepted once more (`Holders`). A
mark turns the first count into the second, and a purge grants a new round.
`DuplicatesStayBounded` follows by the cardinality theorems. `RotationsHarmless`
needs that the receiver trusts the current secret or, in the overlap, the one
before (`TrustKnown`), `AnnouncementsKept` that a destination once subscribed
stays so (`OwedWanted`). Of Forward it proves `JobsForwardedWhole`: what a process
has ticked off a job without a retry was answered for good (`JobHonest`), whatever
the other drains do with the row; and a copy without bytes is one of a job whose
object was deleted.

`TraceAssemblyProofs` proves `TraceInductive` for any number of processes. To
the types, `FinalizedOffered` and `EndingEarned` it adds `AtWork` (a process past
its claim holds a batch), `Offered` (between the promotion and the mark the copy
holds nothing that was not promoted: no step of another process touches it) and
`RootHeld` (a record is rooted by a root among its events, so a revision from it
has one among its facts). For one process (`Alone`) a second induction adds
`CopyOfRow`: the copy holds the row, and is the row if no write fails. From it
follow `OneProcessKeepsSpans` and, with `RootSaved` (the root an ending was
served with is in the row) and writes that succeed, `OneProcessKeepsEndings`.

`EvaluationProofs`: the ledger alone is not inductive, since a drainer goes by a
total it read long ago and may ask although the budget is spent. `Accounted`
counts who still may: a drainer that asks or goes by a total below the budget, a
request that asks or was granted its pack; each adds to the ledger once and is
then refused. `BudgetHolds` follows for any number of drainers and requests and
any pack, by the cardinality theorems. `VerdictsServed` needs that a run has
decided what it writes (`Decided`), and that `Latest` ranks a completed row
above every other. Of Verdicts it proves `VerdictsAreEarned`. The judge is resolved
when an evaluation begins and the second judge when its pack is run, by whatever
runners and policy there are then; `Consent` says that both are among those that
could be asked since the beginning. The rest is by the kind of row: a precheck
never answers "pass" and answers "fail" only for what was refuted
(`PrecheckSettles`), what a judge says of the pack is a shadow, a rubric counts
only with a calibration, a predicate only where every clause is evident. That a
detector's row is known by the name of its model needs an assumption
(`VerdictsAssumption`): no runner's model goes by `detector`. The code compares
the prefix of a name the tenant chooses (`analysis/pack.py:369`) and does not
check it.

Of SpanIdentity the same module proves `ProcessSelfConsistent`, which rests on
what was answered 200 being in the cache of the process that answered (a
fingerprint is cached before the batch is accepted, and the cache keeps what it
saw first), which no failing statement on the table and no other process touches;
a restart empties both the cache and the claim. `BackpressureHolds` counts: depth
plus receivers past their look stays below the limit plus all receivers, by the
cardinality theorems.

Of CallAnalysis it proves `CallAnalysisFindingsStable`, an action property, for any
turns, tools, references and codes, however late, in how many parts and in which
order they are told. The invariant (`CallInv`) is that what is known of a turn is
what was told of it so far and that a reported ending is a root's. A step makes
the call grow (`Grown`, `CallNextGrows`): what is told again of a turn keeps its
text, what comes of a pending tool keeps its arguments (`FulfilledKept`), and the
facts the next fold starts from are those of the call but for its clocks
(`RefoldKeeps`). So evidence only grows (`EvidenceGrows`), of dates while the call
starts on the same day, and with it what is grounded (`GroundedStays`). Nothing of
this looks at the order of the turns; the flags of `Passing`, which do, are not in
the theorem. Those of `Lasting` and `Awaiting` tell of facts that are there, each
with a lemma that it stays. That the words of the agent settle nothing is that
evidence is taken from the caller's turns, from tools and from references
(`MutedEvidence`). A failed voice is not blamed on the transcriber because of the
order of `VapiRules`: the first rule that fits a code with `voice-failed` is the
voice's (`VoiceFirst`). `CallAssumption` says that a turn has one account, that a
pending tool has no body, and that such a code is named and not decided by its
name.

`ReportsProofs` proves `SnapshotsAreWhole`. A candidate is the fold of what the
served revision rehydrates to, followed by what is new; the property compares it
with the fold of what is new alone. The two folds are run side by side, and
`Agree` says what they have in common before each event: the retractions, and
every fact whose type is not `open`. At first the types a revision carries are
open; every snapshot closes the types it covers (`Closing`), since it removes
both folds' facts of them, and no other event opens one, because an event changes
the fact of its own identity only and an identity has one type (`Sound`). At the
end every domain of every snapshot among the new events is closed. For that the
events must be lists and the fold defined on them: lemmas say so of what each
decoder and mapper returns, of their concatenations and of the facts of a
revision put back in a row. A recursive function is known to be what its
equation says only when one exists; that it does is shown by the least length for
which there were none, without an induction theorem. `ReportsAssumption` says
that what is told are lists, of JSON and of spans. `SnapshotWhole` thus does not
depend on which facts conflict, how they merge or what the assembly infers.

Of FleetRollups it proves `FleetIsHonest`, for any number of calls, any
revisions, rows and measure of likeness. The invariant (`FleetInv`) is small: what
is served are revisions, and the log is a finite set of places with rows of known
states. The rest are lemmas about what the pages make of it.
That p50 is not above p95 is that ranked values grow with the rank
(`RankedMonotone`), that the two positions are ordered, and that an interpolation
stays between its ends (`Between`). A completed verdict is not hidden because
among the rows about one thing one is the greatest by state, version and place
(`SomeRowSpeaks`). The queue holds one item of a call, none graver, because
severities are ranked by numbers (`GravestIs`). The clusters divide the calls
because each step of the bucketing does (`BucketedDivides`), whatever the
embedding finds alike. The greatest of a finite set of numbers is had from a
least counterexample, again without an induction theorem. `FleetAssumption` says
that samples and tools are lists, that times and versions are numbers and that a
row's state is one of `AnalysisState`.

`ConsoleProofs` proves, of Listing, `PagesCover` for any set of calls and any
size of a page. The invariant says that what is owed and unseen is in the rest of
the list as the cursor would be answered now (`Owed`), and that a cursor names a
revision that was active (`CursorOfPast`), so that a promotion of its call makes
`paginate_calls` start again instead of skipping. The order of the list
(`Order`), that a page has a last call (`LastExists`) and that what does not fit
follows it (`PageSplits`) are lemmas about finite sets.

Of Rubrics it proves `VersionsStay`. A PUT counts from the version it read before
it awaited its body. `Undisturbed` says, of a rubric no waiting PUT was overtaken
on, that a waiting PUT has read what table and cache hold and that no later
version was issued; so the one it issues is new, and the text of a version is one
(`OneText`). Such a rubric is absent after a deletion, and `Known` (whatever is
stored, cached or read was issued) keeps its id from being created again. The
sequences are dicts with an order: three lemmas say which rubrics `Append`,
`Assigned` and `Without` leave, and one that the first rubric with a version's
number exists (`JudgedKnown`, `LeastOf`).

The proofs assume only the named assumptions of the modules
(`PromotionAssumption`, `CallFactsAssumption`, `OutboxAssumption`,
`TraceAssumption`, `IngestAssumption`, `SpanIdentityAssumption`,
`DeliveryAssumption`, `EvaluationAssumption`, `VerdictsAssumption`,
`CallAssumption`, `ReportsAssumption`, `FleetAssumption`, `ListingAssumption`):
finite sets of actors, limits that are numbers, relations between ids and their
owners, the shape of what is given as data. TLC evaluates them in the runs.
Forward and Rubrics assume nothing.

Only model-checked:

- `ReportAdmitted` and `RedeliveredAsIs`. They are about which identities two folds
  find in conflict, for every decoder and mapper; the proofs show what a snapshot
  does to a fold, and not what conflicts.
- the liveness properties `Settles`, `TombstonesPrevail`, `Quiesces`, `Reaches`,
  `QueuesSettle` and `Evaluated`: liveness under fairness is out of the prover's
  reach.

What the decoders and detectors compute for every input is not proved; of the
fold it is proved what a snapshot does to it, of percentiles and rankings what
`FleetHonest` says of them.

## 6. What the models leave out

- ClickHouse mutations are applied at once; the server applies them later. Rows
  inserted before a mutation is applied and after it is issued are not told
  apart.
- One trace in TraceAssembly, whose promotion is atomic and whose call is the
  same at each; the choice of the mapper, redaction, the caller token and
  `first_seen_at` (written once) are data. `call_id` and `unrooted` of a record
  are written and decide nothing.
- One call and one deletion request in Promotion; deletion by caller token or
  by range of time; backups.
- The contribution stores: no page reads them. What the deployed one keeps of
  replaced revisions and deleted calls is said under section 4. `_index_and_rollup`
  contributes after the swap, in a step of its own (`worker/drain.py` 410-423);
  `Serve` of FleetRollups is the swap, which is what the pages read.
- Of tier 1, the clocks of stages (`assembler.py` 359-383), from which a call
  without turns takes its start and its end, and the year of a date that names
  none (`tool_values.py:140`): a month and a day are a day of the model.
- The publication of rollup generations: as the code stands it never succeeds,
  so there is no behaviour to check.
- `process_runs`, `audit_events` and metrics: written, never read by the drain.
- A webhook whose payload names no source call behaves as an OTLP batch at the
  receiver and is not modelled separately.
- Entailment of claims by a judge: tier 1 completes the row it would write, so
  that no path reaches it.
- Regular expressions, prompts and the parsing of judges' answers: what they
  find or say is an input of the models.
- API keys, sessions, redaction, egress checks, plugin loading, the console's
  pages, the command line and sample data: request plumbing, pure text or
  rendering around operations that are modelled elsewhere. A plugin that fails
  or times out is the action `Fail`.
