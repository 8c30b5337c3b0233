------------------------------- MODULE Ingest -------------------------------
(***************************************************************************)
(* Raw bodies and the rows that name them.  A reception (ingest/receive.py, *)
(* ops/backfill.py) puts the body in the object store and then accepts its  *)
(* envelope in Postgres; a worker (worker/drain.py) claims a row and reads  *)
(* the object it named at the claim; `obsalt retain` (ops/retention.py),    *)
(* a process of its own, deletes old bodies and the bodies no row names; a  *)
(* privacy deletion tombstones the rows of a call.  The object store and    *)
(* the database share no transaction.                                      *)
(*                                                                         *)
(* A receiver is one request of one API replica: a process serves one at a  *)
(* time.  What the Outbox module tells apart (attempts, backoff, whose      *)
(* lease) is left to it: here a failed row stays in the outbox or leaves it *)
(* for the DLQ, and a held row may be claimed again.                        *)
(***************************************************************************)
EXTENDS Naturals, FiniteSets

CONSTANTS
    Receivers, Drainers,
    CallIds,
    Deliveries,     \* delivery keys
    Posts,          \* a delivery with its content: what names the object
    CallOf,         \* CallOf[d]: the call a delivery is of
    DeliveryOf,     \* DeliveryOf[p]
    MaxReceptions,  \* bound of the model: receptions begun
    MaxMishaps      \* bound of the model: crashes, failed decodes, lost leases,
                    \* expiries and sweeps together

ASSUME IngestAssumption ==
    /\ IsFiniteSet(Receivers) /\ IsFiniteSet(Drainers) /\ IsFiniteSet(Posts)
    /\ CallOf \in [Deliveries -> CallIds]
    /\ DeliveryOf \in [Posts -> Deliveries]
    /\ MaxReceptions \in Nat /\ MaxMishaps \in Nat

VARIABLES
    objects,        \* the object store: the posts whose body it holds
    rows,           \* raw_envelopes: rows[d].state, and .object it names
    queue,          \* deliveries with an outbox row
    leased,         \* deliveries whose outbox row is leased
    erased,         \* the calls with a row of tombstones
    rcv,            \* of each receiver: its step, its post, how it came
    hand,           \* of each worker: its step and its copy of the row
    sweep,          \* retention: its step, what it listed, what it has to delete
    \* history
    decoded,        \* decoded[d]: the bodies d was assembled from
    overlapped,     \* deliveries received while a sweep was under way
    overtaken,      \* deliveries whose row changed while a worker held it
    expired,        \* deliveries whose body retention deleted for its age
    abandoned,      \* posts put by a reception that ended without a row or a purge
    receptions, mishaps

storeVars == <<objects, rows, queue, leased, erased>>
pastVars == <<decoded, overlapped, overtaken, expired, abandoned>>
ingestVars == <<storeVars, rcv, hand, sweep, pastVars, receptions, mishaps>>

None == [step |-> "idle"]
Routes == {"webhook", "backfill"}
Reception == [step : {"put", "look", "insert", "purge"}, post : Posts, route : Routes]
Holding == [step : {"read", "decode", "mark"}, delivery : Deliveries, object : Posts]
Sweeping == [step : {"idle", "keys", "delete"}, known : SUBSET Posts, doomed : SUBSET Posts]
RowStates == {"queued", "failed", "assembled", "tombstoned"}

IngestTypeOK ==
    /\ objects \subseteq Posts
    /\ DOMAIN rows \subseteq Deliveries
    /\ \A d \in DOMAIN rows : /\ rows[d] \in [state : RowStates, object : Posts]
                              /\ DeliveryOf[rows[d].object] = d
    /\ leased \subseteq Deliveries
    /\ queue \subseteq DOMAIN rows
    /\ erased \subseteq CallIds
    /\ rcv \in [Receivers -> Reception \cup {None}]
    /\ hand \in [Drainers -> Holding \cup {None}]
    /\ sweep \in Sweeping
    /\ decoded \in [Deliveries -> SUBSET Posts]
    /\ overlapped \cup overtaken \cup expired \subseteq Deliveries
    /\ abandoned \subseteq Posts
    /\ receptions \in 0..MaxReceptions /\ mishaps \in 0..MaxMishaps

IngestInit ==
    /\ objects = {} /\ rows = [d \in {} |-> 0] /\ queue = {} /\ leased = {}
    /\ erased = {}
    /\ rcv = [r \in Receivers |-> None]
    /\ hand = [w \in Drainers |-> None]
    /\ sweep = [step |-> "idle", known |-> {}, doomed |-> {}]
    /\ decoded = [d \in Deliveries |-> {}]
    /\ overlapped = {} /\ overtaken = {} /\ expired = {}
    /\ abandoned = {}
    /\ receptions = 0 /\ mishaps = 0

Mishap == mishaps < MaxMishaps /\ mishaps' = mishaps + 1

(* Deliveries with a reception past its first look at the tombstones. *)
InFlight == {DeliveryOf[rcv[r].post] : r \in {q \in Receivers : rcv[q] # None}}
Held(d) == \E w \in Drainers : hand[w] # None /\ hand[w].delivery = d

-----------------------------------------------------------------------------
(* Reception.                                                              *)

(* Everything before the body is put changes nothing: a request that is     *)
(* refused, or whose call is_tombstoned, ends where it began.               *)
Receive(r, p, route) ==
    /\ rcv[r] = None /\ receptions < MaxReceptions
    /\ CallOf[DeliveryOf[p]] \notin erased
    /\ rcv' = [rcv EXCEPT ![r] = [step |-> "put", post |-> p, route |-> route]]
    /\ receptions' = receptions + 1
    /\ overlapped' = IF sweep.step = "idle" THEN overlapped
                                            ELSE overlapped \cup {DeliveryOf[p]}
    /\ UNCHANGED <<storeVars, hand, sweep, decoded, overtaken, expired, abandoned, mishaps>>

PutBody(r) ==
    /\ rcv[r].step = "put"
    /\ objects' = objects \cup {rcv[r].post}
    /\ rcv' = [rcv EXCEPT ![r].step = "look"]
    /\ UNCHANGED <<rows, queue, leased, erased, hand, sweep, pastVars,
                   receptions, mishaps>>

(* A tombstoned orphan is purged by receive_webhook; run_backfill only      *)
(* counts what was queued.                                                 *)
Refused(r) ==
    \/ /\ rcv[r].route = "webhook"
       /\ rcv' = [rcv EXCEPT ![r].step = "purge"]
       /\ UNCHANGED abandoned
    \/ /\ rcv[r].route = "backfill"
       /\ rcv' = [rcv EXCEPT ![r] = None]
       /\ abandoned' = abandoned \cup {rcv[r].post}

(* accept: SELECT ... FROM tombstones FOR SHARE locks a tombstone that is   *)
(* there, and nothing when there is none.                                  *)
LookAgain(r) ==
    /\ rcv[r].step = "look"
    /\ IF CallOf[DeliveryOf[rcv[r].post]] \in erased
         THEN Refused(r)
         ELSE rcv' = [rcv EXCEPT ![r].step = "insert"] /\ UNCHANGED abandoned
    /\ UNCHANGED <<storeVars, hand, sweep, decoded, overlapped, overtaken, expired,
                   receptions, mishaps>>

Queue(d) == queue' = queue \cup {d} /\ leased' = leased \ {d}

InsertRow(r, d) ==
    /\ d \notin DOMAIN rows
    /\ rows' = [e \in DOMAIN rows \cup {d} |->
                  IF e = d THEN [state |-> "queued", object |-> rcv[r].post] ELSE rows[e]]
    /\ Queue(d)
    /\ rcv' = [rcv EXCEPT ![r] = None]
    /\ UNCHANGED <<overtaken, abandoned>>

(* A redelivery of a row that is not assembled yet replaces the body the    *)
(* row names and makes its outbox row due, whoever holds it.                *)
Redeliver(r, d) ==
    /\ d \in DOMAIN rows /\ rows[d].state \in {"queued", "failed"}
    /\ rows' = [rows EXCEPT ![d].object = rcv[r].post]
    /\ Queue(d)
    /\ overtaken' = IF Held(d) /\ rows[d].object # rcv[r].post THEN overtaken \cup {d}
                                                               ELSE overtaken
    /\ rcv' = [rcv EXCEPT ![r] = None]
    /\ UNCHANGED abandoned

(* Mutants: a late redelivery replaces the body of an assembled row; or     *)
(* puts a failed row's new body away as an orphan.                          *)
LateReplaces(r, d) ==
    /\ d \in DOMAIN rows /\ rows[d].state \in {"assembled", "tombstoned"}
    /\ rows' = [rows EXCEPT ![d].object = rcv[r].post]
    /\ rcv' = [rcv EXCEPT ![r] = None]
    /\ UNCHANGED <<queue, leased, overtaken, abandoned>>
LatePurges(r, d) ==
    /\ d \in DOMAIN rows
    /\ Refused(r)
    /\ UNCHANGED <<rows, queue, leased, overtaken>>

Late(r, d) ==
    /\ d \in DOMAIN rows
    /\ \/ rows[d].state = "tombstoned" /\ Refused(r)
       \/ /\ rows[d].state = "assembled"
          /\ rcv' = [rcv EXCEPT ![r] = None] /\ UNCHANGED abandoned
    /\ UNCHANGED <<rows, queue, leased, overtaken>>

Insert(r) ==
    /\ rcv[r].step = "insert"
    /\ LET d == DeliveryOf[rcv[r].post]
       IN InsertRow(r, d) \/ Redeliver(r, d) \/ Late(r, d)
    /\ UNCHANGED <<objects, erased, hand, sweep, decoded, overlapped, expired,
                   receptions, mishaps>>

(* The orphan is deleted before the acknowledgement; a failure of the       *)
(* object store is swallowed.                                              *)
Purge(r) ==
    /\ rcv[r].step = "purge"
    /\ objects' = objects \ {rcv[r].post}
    /\ rcv' = [rcv EXCEPT ![r] = None]
    /\ UNCHANGED <<rows, queue, leased, erased, hand, sweep, decoded, overlapped,
                   overtaken, expired, abandoned, receptions, mishaps>>

PurgeFails(r) ==
    /\ rcv[r].step = "purge" /\ Mishap
    /\ abandoned' = abandoned \cup {rcv[r].post}
    /\ rcv' = [rcv EXCEPT ![r] = None]
    /\ UNCHANGED <<storeVars, hand, sweep, decoded, overlapped, overtaken, expired,
                   receptions>>

ReceptionDies(r) ==
    /\ rcv[r] # None /\ Mishap
    /\ abandoned' = abandoned \cup {rcv[r].post}
    /\ rcv' = [rcv EXCEPT ![r] = None]
    /\ UNCHANGED <<storeVars, hand, sweep, decoded, overlapped, overtaken, expired,
                   receptions>>

-----------------------------------------------------------------------------
(* A worker.  persist_envelope looks the row up again for its state, not    *)
(* for the object it names.                                                *)

ClaimRow(w, d) ==
    /\ hand[w] = None /\ d \in queue \ leased /\ rows[d].state \in {"queued", "failed"}
    /\ leased' = leased \cup {d}
    /\ hand' = [hand EXCEPT ![w] = [step |-> "read", delivery |-> d, object |-> rows[d].object]]
    /\ UNCHANGED <<objects, rows, queue, erased, rcv, sweep, pastVars, receptions, mishaps>>

LeaseLost(d) ==
    /\ d \in leased /\ Held(d) /\ Mishap
    /\ leased' = leased \ {d}
    /\ UNCHANGED <<objects, rows, queue, erased, rcv, hand, sweep, pastVars, receptions>>

Tombstoned(c) ==
    /\ rows' = [d \in DOMAIN rows |->
                  IF CallOf[d] = c THEN [rows[d] EXCEPT !.state = "tombstoned"] ELSE rows[d]]
    /\ queue' = {d \in queue : CallOf[d] # c}

(* mark_failed leaves an outbox row, due again, or a row of the DLQ; an     *)
(* assembled row keeps its state.                                          *)
Fails(w, d) ==
    /\ rows' = [rows EXCEPT ![d].state = IF @ = "assembled" THEN @ ELSE "failed"]
    /\ leased' = leased \ {d}
    /\ queue' \in {queue \ {d}, queue \cup {d}}
    /\ hand' = [hand EXCEPT ![w] = None]

(* A deleted call is tombstoned once more. *)
DropTombstoned(w, d) ==
    /\ CallOf[d] \in erased
    /\ Tombstoned(CallOf[d])
    /\ hand' = [hand EXCEPT ![w] = None]
    /\ UNCHANGED leased

Read(w) ==
    /\ hand[w].step = "read"
    /\ LET d == hand[w].delivery IN
       \/ /\ rows[d].state = "assembled"
          /\ hand' = [hand EXCEPT ![w] = None] /\ UNCHANGED <<rows, queue, leased>>
       \/ rows[d].state # "assembled" /\ DropTombstoned(w, d)
       \/ /\ rows[d].state # "assembled" /\ CallOf[d] \notin erased
          /\ IF hand[w].object \in objects
               THEN /\ hand' = [hand EXCEPT ![w].step = "decode"]
                    /\ UNCHANGED <<rows, queue, leased>>
               ELSE Fails(w, d)
    /\ UNCHANGED <<objects, erased, rcv, sweep, pastVars, receptions, mishaps>>

(* The body is decoded, assembled and promoted, and the tombstones looked   *)
(* at again, before the row is marked assembled, whatever it is by then.    *)
DecodeBody(w) ==
    /\ hand[w].step = "decode"
    /\ LET d == hand[w].delivery IN
       \/ DropTombstoned(w, d)
       \/ /\ CallOf[d] \notin erased
          /\ hand' = [hand EXCEPT ![w].step = "mark"]
          /\ UNCHANGED <<rows, queue, leased>>
    /\ UNCHANGED <<objects, erased, rcv, sweep, pastVars, receptions, mishaps>>

DecodeFails(w) ==
    /\ hand[w].step = "decode" /\ Mishap
    /\ Fails(w, hand[w].delivery)
    /\ UNCHANGED <<objects, erased, rcv, sweep, pastVars, receptions>>

MarkDecoded(w) ==
    /\ hand[w].step = "mark"
    /\ LET d == hand[w].delivery IN
       /\ rows' = [rows EXCEPT ![d].state = "assembled"]
       /\ queue' = queue \ {d} /\ leased' = leased \ {d}
       /\ decoded' = [decoded EXCEPT ![d] = @ \cup {hand[w].object}]
    /\ hand' = [hand EXCEPT ![w] = None]
    /\ UNCHANGED <<objects, erased, rcv, sweep, overlapped, overtaken, expired,
                   abandoned, receptions, mishaps>>

-----------------------------------------------------------------------------
(* Operators.                                                              *)

(* apply_deletion: no raw body's name holds the call's id, so the bodies    *)
(* stay where they are.                                                    *)
Delete(c) ==
    /\ c \notin erased
    /\ erased' = erased \cup {c}
    /\ Tombstoned(c)
    /\ UNCHANGED <<objects, leased, rcv, hand, sweep, pastVars, receptions, mishaps>>

(* replay_envelopes, of any envelope not tombstoned: nobody looks whether   *)
(* its body is still there.                                                *)
Replay(d) ==
    /\ d \in DOMAIN rows /\ rows[d].state # "tombstoned" /\ Mishap
    /\ rows' = [rows EXCEPT ![d].state = "queued"]
    /\ Queue(d)
    /\ UNCHANGED <<objects, erased, rcv, hand, sweep, pastVars, receptions>>

(* sweep_raw deletes a body past its days; the FAILED it writes is on the   *)
(* copy list_envelopes returned, so the row stays as it is.                 *)
Expire(d) ==
    /\ d \in DOMAIN rows /\ Mishap
    /\ objects' = objects \ {rows[d].object}
    /\ expired' = expired \cup {d}
    /\ UNCHANGED <<rows, queue, leased, erased, rcv, hand, sweep, decoded,
                   overlapped, overtaken, abandoned, receptions>>

(* sweep_orphan_blobs lists the rows first and the keys after.              *)
SweepRows ==
    /\ sweep.step = "idle" /\ Mishap
    /\ sweep' = [step |-> "keys", known |-> {rows[d].object : d \in DOMAIN rows}, doomed |-> {}]
    /\ overlapped' = overlapped \cup InFlight
    /\ UNCHANGED <<storeVars, rcv, hand, decoded, overtaken, expired, abandoned, receptions>>

SweepKeys ==
    /\ sweep.step = "keys"
    /\ sweep' = [step |-> "delete", known |-> {}, doomed |-> objects \ sweep.known]
    /\ UNCHANGED <<storeVars, rcv, hand, pastVars, receptions, mishaps>>

SweepDelete ==
    /\ sweep.step = "delete"
    /\ \/ \E p \in sweep.doomed :
             /\ objects' = objects \ {p}
             /\ sweep' = [sweep EXCEPT !.doomed = @ \ {p}]
       \/ /\ sweep.doomed = {} /\ sweep' = [sweep EXCEPT !.step = "idle"]
          /\ UNCHANGED objects
    /\ UNCHANGED <<rows, queue, leased, erased, rcv, hand, pastVars, receptions, mishaps>>

-----------------------------------------------------------------------------
IngestNext ==
    \/ \E r \in Receivers :
          \/ \E p \in Posts, route \in Routes : Receive(r, p, route)
          \/ PutBody(r) \/ LookAgain(r) \/ Insert(r) \/ Purge(r) \/ PurgeFails(r) \/ ReceptionDies(r)
    \/ \E w \in Drainers :
          \/ \E d \in Deliveries : ClaimRow(w, d)
          \/ Read(w) \/ DecodeBody(w) \/ DecodeFails(w) \/ MarkDecoded(w)
    \/ \E d \in Deliveries : LeaseLost(d) \/ Replay(d) \/ Expire(d)
    \/ \E c \in CallIds : Delete(c)
    \/ SweepRows \/ SweepKeys \/ SweepDelete

IngestSpec == IngestInit /\ [][IngestNext]_ingestVars

-----------------------------------------------------------------------------
Waiting(d) == rows[d].state \in {"queued", "failed"}
BodyGone(d) == rows[d].object \notin objects

(* A row that still waits to be decoded names a body the object store       *)
(* holds, unless its call is deleted, the body is past retention, or the    *)
(* delivery was being received while the orphan sweep ran (the put comes    *)
(* before the row, receive.py:152).  And "Tombstoned orphan is purged       *)
(* before acknowledgement" (receive.py:143): a body of a delivery with no   *)
(* row is one still being received, or one whose reception died, could not  *)
(* purge it, or was a backfill's.                                          *)
BodiesAccounted ==
    /\ \A d \in DOMAIN rows :
          Waiting(d) /\ BodyGone(d) =>
              CallOf[d] \in erased \/ d \in expired \/ d \in overlapped
    /\ \A p \in objects :
          DeliveryOf[p] \in DOMAIN rows \cup InFlight \/ p \in abandoned

(* retention.py:163: the sweep deletes "raw object keys that have no        *)
(* matching inbox row": BodiesAccounted without leave for the sweep.        *)
SweepSparesRows ==
    \A d \in DOMAIN rows :
        Waiting(d) /\ BodyGone(d) => CallOf[d] \in erased \/ d \in expired

(* An assembled row names a body it was assembled from, unless the body     *)
(* was replaced under the hands of a worker: then the body acknowledged     *)
(* last is never decoded (drain.py:102 reads the claimed copy's key).       *)
NamesWhatWasDecoded ==
    \A d \in DOMAIN rows :
        rows[d].state = "assembled" =>
            rows[d].object \in decoded[d] \/ d \in overtaken
=============================================================================
