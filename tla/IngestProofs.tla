---------------------------- MODULE IngestProofs ----------------------------
(***************************************************************************)
(* Proofs about the receivers of webhooks and of traces, Ingest and        *)
(* SpanIdentity.  Of Ingest: for any receivers, workers, deliveries and     *)
(* contents, a waiting row names a body that is there but for the excuses   *)
(* the property lists, no body is left without a row, a reception or a      *)
(* reason, and an assembled row names a body it was assembled from.        *)
(*                                                                         *)
(* The invariant follows a body on its way into a row: between its put and  *)
(* its insert it is there or excused, the orphan sweep has a list that was  *)
(* true of every row it may not spare, and a worker that holds an older     *)
(* body than the row's is on record.                                       *)
(***************************************************************************)
EXTENDS Ingest, SpanIdentity, FiniteSetTheorems, TLAPS

Busy(r) == rcv[r] # None

(* The reasons for which a body may be missing. *)
Excused(d) == CallOf[d] \in erased \/ d \in expired \/ d \in overlapped

(* Only a deletion makes a row tombstoned, or has a reception purge. *)
ErasedOnly ==
    /\ \A d \in DOMAIN rows : rows[d].state = "tombstoned" => CallOf[d] \in erased
    /\ \A r \in Receivers :
         Busy(r) /\ rcv[r].step = "purge" => CallOf[DeliveryOf[rcv[r].post]] \in erased

(* A body that was put stays until its row names it. *)
PutKept ==
    \A r \in Receivers :
        Busy(r) /\ rcv[r].step \in {"look", "insert"} =>
            rcv[r].post \in objects \/ Excused(DeliveryOf[rcv[r].post])

(* What is received while a sweep is under way is on record, and the sweep  *)
(* spares the bodies of the other rows. *)
SweepListed ==
    sweep.step # "idle" =>
        /\ InFlight \subseteq overlapped
        /\ \A d \in DOMAIN rows \ overlapped :
             IF sweep.step = "keys" THEN rows[d].object \in sweep.known
                                    ELSE rows[d].object \notin sweep.doomed

(* A row names a body that is there, whatever its state: a replay may ask  *)
(* for it again. *)
RowsNameBodies == \A d \in DOMAIN rows : BodyGone(d) => Excused(d)

(* A body has a row, is still in the hands of its reception, or was given   *)
(* up by one. *)
BodiesOwned ==
    \A p \in objects :
        \/ DeliveryOf[p] \in DOMAIN rows \/ p \in abandoned
        \/ \E r \in Receivers : Busy(r) /\ rcv[r].post = p

(* A worker holds a row that is there, and its copy names the row's body    *)
(* unless the row was overtaken. *)
HeldAsClaimed ==
    \A w \in Drainers :
        hand[w] # None =>
            /\ hand[w].delivery \in DOMAIN rows
            /\ hand[w].object = rows[hand[w].delivery].object
                 \/ hand[w].delivery \in overtaken

IngestInv ==
    /\ IngestTypeOK
    /\ ErasedOnly /\ PutKept /\ SweepListed /\ RowsNameBodies /\ BodiesOwned
    /\ HeldAsClaimed /\ NamesWhatWasDecoded

-----------------------------------------------------------------------------

LEMMA Whole ==
    ASSUME IngestInv
    PROVE  /\ IngestTypeOK
           /\ ErasedOnly /\ PutKept /\ SweepListed /\ RowsNameBodies /\ BodiesOwned
           /\ HeldAsClaimed /\ NamesWhatWasDecoded
  BY DEF IngestInv

LEMMA Bounds == MaxReceptions \in Nat /\ MaxMishaps \in Nat
  BY IngestAssumption

(* A reception under way and its delivery. *)
LEMMA Received ==
    ASSUME IngestTypeOK, NEW r \in Receivers, rcv[r].step # "idle"
    PROVE  /\ Busy(r) /\ rcv[r] \in Reception /\ rcv[r].post \in Posts
           /\ DeliveryOf[rcv[r].post] \in Deliveries
           /\ DeliveryOf[rcv[r].post] \in InFlight
<1>1. Busy(r)
  BY DEF Busy, None
<1>2. rcv[r] \in Reception
  BY <1>1 DEF Busy, IngestTypeOK
<1> QED BY <1>1, <1>2, IngestAssumption DEF Reception, Busy, InFlight

(* A worker's copy. *)
LEMMA Handed ==
    ASSUME IngestTypeOK, NEW w \in Drainers, hand[w].step # "idle"
    PROVE  /\ hand[w] # None /\ hand[w] \in Holding
           /\ hand[w].delivery \in Deliveries /\ hand[w].object \in Posts
<1>1. hand[w] # None
  BY DEF None
<1> QED BY <1>1 DEF IngestTypeOK, Holding

(* Whatever becomes of the states of the rows, the bodies stay accounted.   *)
LEMMA BodiesFrame ==
    ASSUME IngestInv,
           DOMAIN rows' = DOMAIN rows, \A d \in DOMAIN rows : rows'[d].object = rows[d].object,
           UNCHANGED <<objects, rcv, sweep, abandoned, overlapped, expired>>,
           erased \subseteq erased'
    PROVE  PutKept' /\ SweepListed' /\ RowsNameBodies' /\ BodiesOwned'
<1>1. \A d : Excused(d) => Excused(d)'
  BY DEF Excused
<1>2. PutKept'
  BY <1>1, Whole DEF PutKept, Busy
<1>3. SweepListed'
  BY Whole DEF SweepListed, InFlight
<1>4. RowsNameBodies'
  BY <1>1, Whole DEF RowsNameBodies, BodyGone
<1>5. BodiesOwned'
  BY Whole DEF BodiesOwned, Busy
<1> QED BY <1>2, <1>3, <1>4, <1>5

(* The rows, the workers and what they decoded are as they were. *)
LEMMA WorkFrame ==
    ASSUME IngestInv, UNCHANGED <<rows, hand, overtaken, decoded>>
    PROVE  HeldAsClaimed' /\ NamesWhatWasDecoded'
<1>1. HeldAsClaimed'
  BY Whole DEF HeldAsClaimed
<1>2. NamesWhatWasDecoded'
  BY Whole DEF NamesWhatWasDecoded
<1> QED BY <1>1, <1>2

LEMMA IngestInitInv == ASSUME IngestInit PROVE IngestInv
<1>1. IngestTypeOK
  BY Bounds DEF IngestInit, IngestTypeOK, Sweeping
<1>2. ErasedOnly /\ PutKept /\ SweepListed /\ RowsNameBodies /\ BodiesOwned
  BY DEF IngestInit, ErasedOnly, PutKept, SweepListed, RowsNameBodies, BodiesOwned, Busy
<1>3. HeldAsClaimed /\ NamesWhatWasDecoded
  BY DEF IngestInit, HeldAsClaimed, NamesWhatWasDecoded
<1> QED BY <1>1, <1>2, <1>3 DEF IngestInv

-----------------------------------------------------------------------------
(* Reception.                                                              *)

(* A reception that begins during a sweep is put on record. *)
LEMMA ReceiveKeeps ==
    ASSUME IngestInv, NEW r \in Receivers, NEW p \in Posts, NEW route \in Routes,
           Receive(r, p, route)
    PROVE  IngestInv'
<1> DEFINE new == [step |-> "put", post |-> p, route |-> route]
<1>1. /\ rcv[r] = None /\ rcv' = [rcv EXCEPT ![r] = new]
      /\ overlapped' = IF sweep.step = "idle" THEN overlapped
                                              ELSE overlapped \cup {DeliveryOf[p]}
      /\ UNCHANGED <<objects, rows, queue, leased, erased, hand, sweep, decoded, overtaken,
                     expired, abandoned, mishaps>>
      /\ receptions' \in 0..MaxReceptions
  BY Whole, Bounds DEF Receive, storeVars, IngestTypeOK
<1>2. new \in Reception /\ new.post = p /\ new.step = "put" /\ DeliveryOf[p] \in Deliveries
  BY IngestAssumption DEF Reception
<1> HIDE DEF new
<1>3. rcv'[r] = new /\ \A q \in Receivers \ {r} : rcv'[q] = rcv[q]
  BY <1>1, Whole DEF IngestTypeOK
<1>4. overlapped \subseteq overlapped' /\ \A d : Excused(d) => Excused(d)'
  BY <1>1 DEF Excused
<1>5. IngestTypeOK'
  BY <1>1, <1>2, Whole DEF IngestTypeOK
<1>6. ErasedOnly'
  BY <1>1, <1>2, <1>3, Whole DEF ErasedOnly, Busy
<1>7. PutKept'
  BY <1>1, <1>2, <1>3, <1>4, Whole DEF PutKept, Busy
<1>8. SweepListed'
  <2>1. InFlight' \subseteq InFlight \cup {DeliveryOf[p]}
    BY <1>2, <1>3 DEF InFlight
  <2> QED BY <1>1, <1>4, <2>1, Whole DEF SweepListed
<1>9. RowsNameBodies'
  BY <1>1, <1>4, Whole DEF RowsNameBodies, BodyGone
<1>10. BodiesOwned'
  BY <1>1, <1>3, Whole DEF BodiesOwned, Busy
<1> QED BY <1>1, <1>5, <1>6, <1>7, <1>8, <1>9, <1>10, WorkFrame DEF IngestInv

LEMMA PutKeeps ==
    ASSUME IngestInv, NEW r \in Receivers, PutBody(r) PROVE IngestInv'
<1> DEFINE p == rcv[r].post
<1>1. /\ rcv[r].step = "put" /\ objects' = objects \cup {p}
      /\ rcv' = [rcv EXCEPT ![r].step = "look"]
      /\ UNCHANGED <<rows, queue, leased, erased, hand, sweep, decoded, overlapped, overtaken,
                     expired, abandoned, receptions, mishaps>>
  BY DEF PutBody, pastVars
<1>2. Busy(r) /\ rcv[r] \in Reception /\ p \in Posts
  BY <1>1, Whole, Received
<1>3. /\ rcv'[r].step = "look" /\ rcv'[r].post = p /\ rcv'[r] \in Reception /\ rcv'[r] # None
      /\ \A q \in Receivers \ {r} : rcv'[q] = rcv[q]
  <2>1. rcv'[r] = [rcv[r] EXCEPT !.step = "look"]
    BY <1>1, Whole DEF IngestTypeOK
  <2>2. rcv'[r].step = "look" /\ rcv'[r].post = p /\ rcv'[r] \in Reception
    BY <1>2, <2>1 DEF Reception
  <2> QED BY <1>1, <2>2, Whole DEF IngestTypeOK, None
<1> HIDE DEF p
<1>4. IngestTypeOK'
  BY <1>1, <1>2, <1>3, Whole DEF IngestTypeOK
<1>5. ErasedOnly'
  BY <1>1, <1>3, Whole DEF ErasedOnly, Busy
<1>6. PutKept'
  BY <1>1, <1>3, Whole DEF PutKept, Busy, Excused
<1>7. SweepListed'
  <2>1. InFlight' \subseteq InFlight
    BY <1>2, <1>3 DEF InFlight, Busy, p
  <2> QED BY <1>1, <2>1, Whole DEF SweepListed
<1>8. RowsNameBodies'
  BY <1>1, Whole DEF RowsNameBodies, BodyGone, Excused
<1>9. BodiesOwned'
  BY <1>1, <1>2, <1>3, Whole DEF BodiesOwned, Busy, p
<1> QED BY <1>1, <1>4, <1>5, <1>6, <1>7, <1>8, <1>9, WorkFrame DEF IngestInv

(* A reception that ends, or goes on to purge or to insert, without a body  *)
(* or a row of its own. *)
LEMMA ReceptionFrame ==
    ASSUME IngestInv, NEW r \in Receivers, Busy(r),
           rcv' = [rcv EXCEPT ![r] = None]
             \/ \E label \in {"insert", "purge"} : rcv' = [rcv EXCEPT ![r].step = label],
           abandoned \subseteq abandoned', abandoned' \subseteq Posts,
           rcv'[r] = None => rcv[r].post \in abandoned' \/ rcv[r].post \notin objects'
                              \/ DeliveryOf[rcv[r].post] \in DOMAIN rows,
           rcv'[r] # None /\ rcv'[r].step = "purge" => CallOf[DeliveryOf[rcv[r].post]] \in erased,
           rcv'[r] # None /\ rcv'[r].step = "insert" => rcv[r].step = "look",
           objects' \subseteq objects,
           \A p \in objects \ objects' : CallOf[DeliveryOf[p]] \in erased,
           UNCHANGED <<rows, queue, leased, erased, hand, sweep, decoded, overlapped, overtaken,
                       expired, receptions>>, mishaps' \in 0..MaxMishaps
    PROVE  IngestInv'
<1>1. rcv[r] \in Reception
  BY Whole DEF IngestTypeOK, Busy
<1>2. /\ rcv'[r] = None \/ (/\ rcv'[r] \in Reception /\ rcv'[r].post = rcv[r].post
                            /\ rcv'[r].step \in {"insert", "purge"} /\ rcv'[r] # None)
      /\ \A q \in Receivers \ {r} : rcv'[q] = rcv[q]
      /\ rcv' \in [Receivers -> Reception \cup {None}]
  <2>1. CASE rcv' = [rcv EXCEPT ![r] = None]
    BY <2>1, Whole DEF IngestTypeOK
  <2>2. ASSUME NEW label \in {"insert", "purge"}, rcv' = [rcv EXCEPT ![r].step = label]
        PROVE  /\ rcv'[r] \in Reception /\ rcv'[r].post = rcv[r].post
               /\ rcv'[r].step \in {"insert", "purge"} /\ rcv'[r] # None
               /\ \A q \in Receivers \ {r} : rcv'[q] = rcv[q]
               /\ rcv' \in [Receivers -> Reception \cup {None}]
    <3> DEFINE new == [rcv[r] EXCEPT !.step = label]
    <3>1. new \in Reception /\ new.post = rcv[r].post /\ new.step = label /\ new # None
      BY <1>1 DEF Reception, None
    <3>2. rcv' = [rcv EXCEPT ![r] = new]
      BY <2>2, Whole DEF IngestTypeOK
    <3> HIDE DEF new
    <3> QED BY <2>2, <3>1, <3>2, Whole DEF IngestTypeOK
  <2> QED BY <2>1, <2>2
<1>3. IngestTypeOK'
  BY <1>2, Whole DEF IngestTypeOK
<1>4. ErasedOnly'
  BY <1>2, Whole DEF ErasedOnly, Busy
<1>5. PutKept'
  <2>1. ASSUME NEW q \in Receivers, rcv'[q] # None, rcv'[q].step \in {"look", "insert"}
        PROVE  rcv'[q].post \in objects' \/ Excused(DeliveryOf[rcv[q].post])'
    <3> DEFINE p == rcv[q].post
    <3>1. rcv'[q].post = p /\ Busy(q) /\ rcv[q].step \in {"look", "insert"}
      <4>1. CASE q = r
        <5>1. rcv'[r] \in Reception /\ rcv'[r].post = rcv[r].post /\ rcv'[r].step = "insert"
          BY <1>2, <2>1, <4>1
        <5> QED BY <2>1, <4>1, <5>1
      <4>2. CASE q # r
        BY <1>2, <2>1, <4>2 DEF Busy
      <4> QED BY <4>1, <4>2
    <3>2. p \in objects \/ Excused(DeliveryOf[p])
      BY <3>1, Whole DEF PutKept
    <3>3. p \in objects' \/ CallOf[DeliveryOf[p]] \in erased \/ Excused(DeliveryOf[p])
      BY <3>2
    <3> QED BY <3>1, <3>3 DEF Excused
  <2> QED BY <2>1 DEF PutKept, Busy
<1>6. SweepListed'
  <2>1. InFlight' \subseteq InFlight
    BY <1>2 DEF InFlight, Busy
  <2> QED BY <2>1, Whole DEF SweepListed
<1>7. RowsNameBodies'
  <2> SUFFICES ASSUME NEW d \in DOMAIN rows, rows[d].object \notin objects' PROVE Excused(d)'
    BY DEF RowsNameBodies, BodyGone
  <2>1. DeliveryOf[rows[d].object] = d
    BY Whole DEF IngestTypeOK
  <2> QED BY <2>1, Whole DEF RowsNameBodies, BodyGone, Excused
<1>8. BodiesOwned'
  BY <1>2, Whole DEF BodiesOwned, Busy
<1> QED BY <1>3, <1>4, <1>5, <1>6, <1>7, <1>8, WorkFrame DEF IngestInv

(* A refused reception purges its body, or gives it up. *)
LEMMA RefusedStep ==
    ASSUME IngestTypeOK, NEW r \in Receivers, Busy(r), Refused(r)
    PROVE  \/ rcv' = [rcv EXCEPT ![r] = None] /\ abandoned' = abandoned \cup {rcv[r].post}
           \/ rcv' = [rcv EXCEPT ![r].step = "purge"] /\ abandoned' = abandoned
  BY DEF Refused

LEMMA LookKeeps ==
    ASSUME IngestInv, NEW r \in Receivers, LookAgain(r) PROVE IngestInv'
<1>1. /\ rcv[r].step = "look"
      /\ IF CallOf[DeliveryOf[rcv[r].post]] \in erased
           THEN Refused(r)
           ELSE rcv' = [rcv EXCEPT ![r].step = "insert"] /\ UNCHANGED abandoned
      /\ UNCHANGED <<objects, rows, queue, leased, erased, hand, sweep, decoded, overlapped,
                     overtaken, expired, receptions, mishaps>>
  BY DEF LookAgain, storeVars
<1>2. Busy(r) /\ rcv[r] \in Reception /\ rcv[r].post \in Posts
  BY <1>1, Whole, Received
<1>3. abandoned \subseteq Posts /\ mishaps' \in 0..MaxMishaps
  BY <1>1, Whole DEF IngestTypeOK
<1>4. CASE CallOf[DeliveryOf[rcv[r].post]] \in erased
  <2>1. CASE rcv' = [rcv EXCEPT ![r] = None] /\ abandoned' = abandoned \cup {rcv[r].post}
    <3>1. rcv'[r] = None
      BY <2>1, Whole DEF IngestTypeOK
    <3> QED BY <1>1, <1>2, <1>3, <2>1, <3>1, ReceptionFrame
  <2>2. CASE rcv' = [rcv EXCEPT ![r].step = "purge"] /\ abandoned' = abandoned
    <3>1. rcv'[r] # None /\ rcv'[r].step = "purge"
      BY <1>2, <2>2, Whole DEF IngestTypeOK, Reception, None
    <3> QED BY <1>1, <1>2, <1>3, <1>4, <2>2, <3>1, ReceptionFrame
  <2> QED BY <1>1, <1>2, <1>4, <2>1, <2>2, Whole, RefusedStep
<1>5. CASE CallOf[DeliveryOf[rcv[r].post]] \notin erased
  <2>1. rcv' = [rcv EXCEPT ![r].step = "insert"] /\ abandoned' = abandoned
    BY <1>1, <1>5
  <2>2. rcv'[r] # None /\ rcv'[r].step = "insert"
    BY <1>2, <2>1, Whole DEF IngestTypeOK, Reception, None
  <2> QED BY <1>1, <1>2, <1>3, <2>1, <2>2, ReceptionFrame
<1> QED BY <1>4, <1>5

LEMMA PurgeKeeps ==
    ASSUME IngestInv, NEW r \in Receivers, Purge(r) PROVE IngestInv'
<1>1. /\ rcv[r].step = "purge" /\ objects' = objects \ {rcv[r].post}
      /\ rcv' = [rcv EXCEPT ![r] = None]
      /\ UNCHANGED <<rows, queue, leased, erased, hand, sweep, decoded, overlapped, overtaken,
                     expired, abandoned, receptions, mishaps>>
  BY DEF Purge
<1>2. Busy(r) /\ CallOf[DeliveryOf[rcv[r].post]] \in erased /\ rcv'[r] = None
  BY <1>1, Whole, Received DEF ErasedOnly, IngestTypeOK
<1>3. abandoned \subseteq Posts /\ mishaps' \in 0..MaxMishaps
  BY <1>1, Whole DEF IngestTypeOK
<1> QED BY <1>1, <1>2, <1>3, ReceptionFrame

LEMMA PurgeFailsKeeps ==
    ASSUME IngestInv, NEW r \in Receivers, PurgeFails(r) \/ ReceptionDies(r) PROVE IngestInv'
<1>1. /\ Busy(r) /\ mishaps' \in 0..MaxMishaps
      /\ abandoned' = abandoned \cup {rcv[r].post} /\ rcv' = [rcv EXCEPT ![r] = None]
      /\ UNCHANGED <<objects, rows, queue, leased, erased, hand, sweep, decoded, overlapped,
                     overtaken, expired, receptions>>
  <2>1. mishaps' \in 0..MaxMishaps
    BY Whole, Bounds DEF PurgeFails, ReceptionDies, Mishap, IngestTypeOK
  <2>2. Busy(r)
    BY Whole, Received DEF PurgeFails, ReceptionDies, Busy
  <2> QED BY <2>1, <2>2 DEF PurgeFails, ReceptionDies, storeVars
<1>2. rcv[r] \in Reception /\ rcv[r].post \in Posts /\ rcv'[r] = None
  BY <1>1, Whole DEF IngestTypeOK, Busy, Reception
<1>3. abandoned' \subseteq Posts
  BY <1>1, <1>2, Whole DEF IngestTypeOK
<1> QED BY <1>1, <1>2, <1>3, ReceptionFrame

(* The reception ends with its body named by the row of its delivery.      *)
LEMMA NamedKeeps ==
    ASSUME IngestInv, NEW r \in Receivers, Busy(r), rcv[r].step = "insert",
           NEW d, d = DeliveryOf[rcv[r].post],
           rcv' = [rcv EXCEPT ![r] = None],
           DOMAIN rows' = DOMAIN rows \cup {d},
           rows'[d] \in [state : {"queued", "failed"}, object : {rcv[r].post}],
           \A e \in DOMAIN rows \ {d} : rows'[e] = rows[e],
           Queue(d), overtaken \subseteq overtaken', overtaken' \subseteq Deliveries,
           d \in DOMAIN rows /\ Held(d) /\ rows[d].object # rcv[r].post => d \in overtaken',
           UNCHANGED <<objects, erased, hand, sweep, decoded, overlapped, expired, abandoned,
                       receptions, mishaps>>
    PROVE  IngestInv'
<1> DEFINE p == rcv[r].post
<1>1. /\ p \in Posts /\ DeliveryOf[p] = d /\ d \in Deliveries /\ d \in InFlight
      /\ rcv[r] \in Reception
  BY Whole, Received
<1>2. /\ rcv'[r] = None /\ \A q \in Receivers \ {r} : rcv'[q] = rcv[q]
      /\ rcv' \in [Receivers -> Reception \cup {None}]
  BY Whole DEF IngestTypeOK
<1>3. rows'[d].object = p /\ rows'[d].state \in {"queued", "failed"}
  OBVIOUS
<1>4. InFlight' \subseteq InFlight
  BY <1>2 DEF InFlight
<1>5. IngestTypeOK'
  <2>1. rows'[d] \in [state : RowStates, object : Posts] /\ DeliveryOf[rows'[d].object] = d
    BY <1>1, <1>3 DEF RowStates
  <2>2. \A e \in DOMAIN rows' : /\ rows'[e] \in [state : RowStates, object : Posts]
                                /\ DeliveryOf[rows'[e].object] = e
    BY <2>1, Whole DEF IngestTypeOK
  <2>3. queue' \subseteq DOMAIN rows' /\ leased' \subseteq Deliveries
    BY Whole DEF IngestTypeOK, Queue
  <2> QED BY <1>1, <1>2, <2>2, <2>3, Whole DEF IngestTypeOK
<1>6. ErasedOnly'
  BY <1>2, <1>3, Whole DEF ErasedOnly, Busy
<1>7. PutKept'
  BY <1>2, Whole DEF PutKept, Busy, Excused
<1>8. SweepListed'
  BY <1>1, <1>4, Whole DEF SweepListed
<1>9. RowsNameBodies'
  <2>1. p \in objects \/ Excused(d)
    BY <1>1, Whole DEF PutKept
  <2> QED BY <1>3, <2>1, Whole DEF RowsNameBodies, BodyGone, Excused
<1>10. BodiesOwned'
  BY <1>1, <1>2, Whole DEF BodiesOwned, Busy
<1>11. HeldAsClaimed'
  <2>1. ASSUME NEW w \in Drainers, hand[w] # None
        PROVE  /\ hand[w].delivery \in DOMAIN rows'
               /\ hand[w].object = rows'[hand[w].delivery].object
                    \/ hand[w].delivery \in overtaken'
    <3>1. /\ hand[w].delivery \in DOMAIN rows
          /\ hand[w].object = rows[hand[w].delivery].object \/ hand[w].delivery \in overtaken
      BY <2>1, Whole DEF HeldAsClaimed
    <3>2. CASE hand[w].delivery = d
      BY <1>3, <2>1, <3>1, <3>2 DEF Held
    <3> QED BY <3>1, <3>2
  <2> QED BY <2>1 DEF HeldAsClaimed
<1>12. NamesWhatWasDecoded'
  BY <1>3, Whole DEF NamesWhatWasDecoded
<1> QED BY <1>5, <1>6, <1>7, <1>8, <1>9, <1>10, <1>11, <1>12 DEF IngestInv

LEMMA InsertKeeps ==
    ASSUME IngestInv, NEW r \in Receivers, Insert(r) PROVE IngestInv'
<1> DEFINE d == DeliveryOf[rcv[r].post]
<1>1. /\ rcv[r].step = "insert"
      /\ InsertRow(r, d) \/ Redeliver(r, d) \/ Late(r, d)
      /\ UNCHANGED <<objects, erased, hand, sweep, decoded, overlapped, expired, receptions,
                     mishaps>>
  BY DEF Insert
<1>2. /\ Busy(r) /\ rcv[r] \in Reception /\ rcv[r].post \in Posts /\ d \in Deliveries
      /\ overtaken \subseteq Deliveries /\ abandoned \subseteq Posts
      /\ mishaps' \in 0..MaxMishaps
  <2>1. rcv[r].step # "idle"
    BY <1>1
  <2>2. Busy(r) /\ rcv[r] \in Reception /\ rcv[r].post \in Posts /\ d \in Deliveries
    BY <2>1, Whole, Received
  <2>3. overtaken \subseteq Deliveries /\ abandoned \subseteq Posts /\ mishaps' \in 0..MaxMishaps
    BY <1>1, Whole DEF IngestTypeOK
  <2> QED BY <2>2, <2>3
<1>3. \A e \in DOMAIN rows : rows[e] \in [state : RowStates, object : Posts]
  BY Whole DEF IngestTypeOK
<1> HIDE DEF d
<1>4. CASE InsertRow(r, d)
  <2>1. /\ d \notin DOMAIN rows /\ DOMAIN rows' = DOMAIN rows \cup {d}
        /\ rows'[d] \in [state : {"queued", "failed"}, object : {rcv[r].post}]
        /\ \A e \in DOMAIN rows \ {d} : rows'[e] = rows[e]
        /\ Queue(d) /\ rcv' = [rcv EXCEPT ![r] = None] /\ UNCHANGED <<overtaken, abandoned>>
    BY <1>4 DEF InsertRow
  <2>2. overtaken \subseteq overtaken' /\ overtaken' \subseteq Deliveries
    BY <1>2, <2>1
  <2>3. d = DeliveryOf[rcv[r].post]
    BY DEF d
  <2> QED BY <1>1, <1>2, <2>1, <2>2, <2>3, NamedKeeps
<1>5. CASE Redeliver(r, d)
  <2>1. /\ d \in DOMAIN rows /\ rows[d].state \in {"queued", "failed"}
        /\ rows' = [rows EXCEPT ![d].object = rcv[r].post]
        /\ overtaken' = IF Held(d) /\ rows[d].object # rcv[r].post THEN overtaken \cup {d}
                                                                   ELSE overtaken
        /\ Queue(d) /\ rcv' = [rcv EXCEPT ![r] = None] /\ UNCHANGED abandoned
    BY <1>5 DEF Redeliver
  <2>2. /\ DOMAIN rows' = DOMAIN rows \cup {d}
        /\ rows'[d] \in [state : {"queued", "failed"}, object : {rcv[r].post}]
        /\ \A e \in DOMAIN rows \ {d} : rows'[e] = rows[e]
    BY <1>3, <2>1
  <2>3. /\ overtaken \subseteq overtaken' /\ overtaken' \subseteq Deliveries
        /\ Held(d) /\ rows[d].object # rcv[r].post => d \in overtaken'
    BY <1>2, <2>1
  <2>4. d = DeliveryOf[rcv[r].post]
    BY DEF d
  <2> QED BY <1>1, <1>2, <2>1, <2>2, <2>3, <2>4, NamedKeeps
<1>6. CASE Late(r, d)
  <2>1. /\ d \in DOMAIN rows /\ UNCHANGED <<rows, queue, leased, overtaken>>
        /\ \/ rows[d].state = "tombstoned" /\ Refused(r)
           \/ rcv' = [rcv EXCEPT ![r] = None] /\ UNCHANGED abandoned
    BY <1>6 DEF Late
  <2>2. CASE rcv' = [rcv EXCEPT ![r] = None] /\ UNCHANGED abandoned
    <3>1. rcv'[r] = None
      BY <2>2, Whole DEF IngestTypeOK
    <3> QED BY <1>1, <1>2, <2>1, <2>2, <3>1, ReceptionFrame DEF d
  <2>3. CASE rows[d].state = "tombstoned" /\ Refused(r)
    <3>1. CallOf[d] \in erased
      BY <2>1, <2>3, Whole DEF ErasedOnly
    <3>2. CASE rcv' = [rcv EXCEPT ![r] = None] /\ abandoned' = abandoned \cup {rcv[r].post}
      <4>1. rcv'[r] = None
        BY <3>2, Whole DEF IngestTypeOK
      <4> QED BY <1>1, <1>2, <2>1, <3>2, <4>1, ReceptionFrame DEF d
    <3>3. CASE rcv' = [rcv EXCEPT ![r].step = "purge"] /\ abandoned' = abandoned
      <4>1. rcv'[r] # None /\ rcv'[r].step = "purge"
        BY <1>2, <3>3, Whole DEF IngestTypeOK, Reception, None
      <4> QED BY <1>1, <1>2, <2>1, <3>1, <3>3, <4>1, ReceptionFrame DEF d
    <3> QED BY <1>2, <2>3, <3>2, <3>3, Whole, RefusedStep
  <2> QED BY <2>1, <2>2, <2>3
<1> QED BY <1>1, <1>4, <1>5, <1>6

-----------------------------------------------------------------------------
(* Workers, deletions and replays.                                         *)

(* Rows change their state, workers drop or keep what they hold, and every  *)
(* row goes on naming its body. *)
LEMMA StatesKeep ==
    ASSUME IngestInv,
           DOMAIN rows' = DOMAIN rows,
           \A d \in DOMAIN rows : /\ rows'[d] \in [state : RowStates, object : {rows[d].object}]
                                  /\ rows'[d].state = "tombstoned" =>
                                       rows[d].state = "tombstoned" \/ CallOf[d] \in erased'
                                  /\ rows'[d].state = "assembled" =>
                                       \/ rows[d].state = "assembled"
                                       \/ rows[d].object \in decoded'[d] \/ d \in overtaken,
           hand' \in [Drainers -> Holding \cup {None}],
           \A w \in Drainers : hand'[w] # None =>
                /\ hand[w] # None /\ hand'[w].delivery = hand[w].delivery
                /\ hand'[w].object = hand[w].object,
           decoded' \in [Deliveries -> SUBSET Posts],
           \A d \in Deliveries : decoded[d] \subseteq decoded'[d],
           queue' \subseteq DOMAIN rows, leased' \subseteq Deliveries,
           erased \subseteq erased', erased' \subseteq CallIds,
           UNCHANGED <<objects, rcv, sweep, overlapped, overtaken, expired, abandoned,
                       receptions>>,
           mishaps' \in 0..MaxMishaps
    PROVE  IngestInv'
<1>1. \A d \in DOMAIN rows : rows'[d].object = rows[d].object /\ rows'[d].state \in RowStates
  OBVIOUS
<1>2. DOMAIN rows \subseteq Deliveries
  BY Whole DEF IngestTypeOK
<1>3. IngestTypeOK'
  <2>1. \A d \in DOMAIN rows : rows[d].object \in Posts /\ DeliveryOf[rows[d].object] = d
    BY Whole DEF IngestTypeOK
  <2>2. \A d \in DOMAIN rows' : /\ rows'[d] \in [state : RowStates, object : Posts]
                                /\ DeliveryOf[rows'[d].object] = d
    BY <1>1, <2>1
  <2> QED BY <1>2, <2>2, Whole DEF IngestTypeOK
<1>4. ErasedOnly'
  <2>1. \A d \in DOMAIN rows' : rows'[d].state = "tombstoned" => CallOf[d] \in erased'
    BY Whole DEF ErasedOnly
  <2>2. \A r \in Receivers : rcv[r] # None /\ rcv[r].step = "purge" =>
                               CallOf[DeliveryOf[rcv[r].post]] \in erased'
    BY Whole DEF ErasedOnly, Busy
  <2> QED BY <2>1, <2>2 DEF ErasedOnly, Busy
<1>5. PutKept' /\ SweepListed' /\ RowsNameBodies' /\ BodiesOwned'
  BY <1>1, BodiesFrame
<1>6. HeldAsClaimed'
  BY <1>1, Whole DEF HeldAsClaimed
<1>7. NamesWhatWasDecoded'
  BY <1>1, <1>2, Whole DEF NamesWhatWasDecoded
<1> QED BY <1>3, <1>4, <1>5, <1>6, <1>7 DEF IngestInv

LEMMA ClaimKeeps ==
    ASSUME IngestInv, NEW w \in Drainers, NEW d \in Deliveries, ClaimRow(w, d) PROVE IngestInv'
<1> DEFINE new == [step |-> "read", delivery |-> d, object |-> rows[d].object]
<1>1. /\ d \in DOMAIN rows /\ leased' = leased \cup {d} /\ hand' = [hand EXCEPT ![w] = new]
      /\ UNCHANGED <<objects, rows, queue, erased, rcv, sweep, decoded, overlapped, overtaken,
                     expired, abandoned, receptions, mishaps>>
  BY Whole DEF ClaimRow, pastVars, IngestTypeOK
<1>2. new \in Holding /\ new.delivery = d /\ new.object = rows[d].object
  BY <1>1, Whole DEF IngestTypeOK, Holding
<1> HIDE DEF new
<1>3. hand'[w] = new /\ \A v \in Drainers \ {w} : hand'[v] = hand[v]
  BY <1>1, Whole DEF IngestTypeOK
<1>4. IngestTypeOK'
  BY <1>1, <1>2, Whole DEF IngestTypeOK
<1>5. ErasedOnly'
  BY <1>1, Whole DEF ErasedOnly, Busy
<1>6. PutKept' /\ SweepListed' /\ RowsNameBodies' /\ BodiesOwned'
  BY <1>1, BodiesFrame
<1>7. HeldAsClaimed'
  BY <1>1, <1>2, <1>3, Whole DEF HeldAsClaimed
<1>8. NamesWhatWasDecoded'
  BY <1>1, Whole DEF NamesWhatWasDecoded
<1> QED BY <1>4, <1>5, <1>6, <1>7, <1>8 DEF IngestInv

LEMMA LeaseLostKeeps ==
    ASSUME IngestInv, NEW d \in Deliveries, LeaseLost(d) PROVE IngestInv'
<1>1. /\ leased' \subseteq Deliveries /\ mishaps' \in 0..MaxMishaps
      /\ UNCHANGED <<objects, rows, queue, erased, rcv, hand, sweep, decoded, overlapped,
                     overtaken, expired, abandoned, receptions>>
  BY Whole, Bounds DEF LeaseLost, Mishap, IngestTypeOK, pastVars
<1>2. IngestTypeOK'
  BY <1>1, Whole DEF IngestTypeOK
<1>3. ErasedOnly'
  BY <1>1, Whole DEF ErasedOnly, Busy
<1> QED BY <1>1, <1>2, <1>3, BodiesFrame, WorkFrame DEF IngestInv

(* What a worker holds after a step of its own. *)
LEMMA HandAfter ==
    ASSUME IngestInv, NEW w \in Drainers, hand[w] # None,
           hand' = [hand EXCEPT ![w] = None]
             \/ \E label \in {"decode", "mark"} : hand' = [hand EXCEPT ![w].step = label]
    PROVE  /\ hand' \in [Drainers -> Holding \cup {None}]
           /\ \A v \in Drainers : hand'[v] # None =>
                /\ hand[v] # None /\ hand'[v].delivery = hand[v].delivery
                /\ hand'[v].object = hand[v].object
<1>1. hand \in [Drainers -> Holding \cup {None}]
  BY Whole DEF IngestTypeOK
<1>2. CASE hand' = [hand EXCEPT ![w] = None]
  BY <1>1, <1>2
<1>3. ASSUME NEW label \in {"decode", "mark"}, hand' = [hand EXCEPT ![w].step = label]
      PROVE  /\ hand' \in [Drainers -> Holding \cup {None}]
             /\ \A v \in Drainers : hand'[v] # None =>
                  /\ hand[v] # None /\ hand'[v].delivery = hand[v].delivery
                  /\ hand'[v].object = hand[v].object
  <2> DEFINE new == [hand[w] EXCEPT !.step = label]
  <2>1. hand[w] \in Holding
    BY <1>1
  <2>2. new \in Holding /\ new.delivery = hand[w].delivery /\ new.object = hand[w].object
    BY <2>1 DEF Holding
  <2>3. hand' = [hand EXCEPT ![w] = new]
    BY <1>1, <1>3
  <2> HIDE DEF new
  <2> QED BY <1>1, <2>2, <2>3
<1> QED BY <1>2, <1>3

(* Rows of one delivery, or of one call, that change their state. *)
LEMMA RowAfter ==
    ASSUME IngestTypeOK, NEW d \in DOMAIN rows, NEW label \in RowStates,
           rows' = [rows EXCEPT ![d].state = label]
    PROVE  /\ DOMAIN rows' = DOMAIN rows
           /\ \A e \in DOMAIN rows : rows'[e] \in [state : RowStates, object : {rows[e].object}]
           /\ rows'[d].state = label /\ \A e \in DOMAIN rows \ {d} : rows'[e] = rows[e]
<1>1. \A e \in DOMAIN rows : rows[e] \in [state : RowStates, object : Posts]
  BY DEF IngestTypeOK
<1>2. rows'[d] = [rows[d] EXCEPT !.state = label]
  OBVIOUS
<1>3. rows'[d] \in [state : RowStates, object : {rows[d].object}] /\ rows'[d].state = label
  BY <1>1, <1>2
<1>4. DOMAIN rows' = DOMAIN rows /\ \A e \in DOMAIN rows \ {d} : rows'[e] = rows[e]
  OBVIOUS
<1> QED BY <1>1, <1>3, <1>4

LEMMA TombstonedAfter ==
    ASSUME IngestTypeOK, NEW c, Tombstoned(c)
    PROVE  /\ DOMAIN rows' = DOMAIN rows /\ queue' \subseteq DOMAIN rows
           /\ \A e \in DOMAIN rows :
                /\ rows'[e] \in [state : RowStates, object : {rows[e].object}]
                /\ rows'[e].state = IF CallOf[e] = c THEN "tombstoned" ELSE rows[e].state
<1>1. \A e \in DOMAIN rows : rows[e] \in [state : RowStates, object : Posts]
  BY DEF IngestTypeOK
<1>2. DOMAIN rows' = DOMAIN rows /\ queue' \subseteq DOMAIN rows
  BY DEF Tombstoned, IngestTypeOK
<1>3. ASSUME NEW e \in DOMAIN rows
      PROVE  /\ rows'[e] \in [state : RowStates, object : {rows[e].object}]
             /\ rows'[e].state = IF CallOf[e] = c THEN "tombstoned" ELSE rows[e].state
  <2>1. rows'[e] = IF CallOf[e] = c THEN [rows[e] EXCEPT !.state = "tombstoned"] ELSE rows[e]
    BY DEF Tombstoned
  <2>2. rows[e] \in [state : RowStates, object : Posts]
    BY <1>1
  <2>3. CASE CallOf[e] = c
    BY <2>1, <2>2, <2>3 DEF RowStates
  <2>4. CASE CallOf[e] # c
    BY <2>1, <2>2, <2>4
  <2> QED BY <2>3, <2>4
<1> QED BY <1>2, <1>3

LEMMA DropKeeps ==
    ASSUME IngestInv, NEW w \in Drainers, hand[w] # None,
           DropTombstoned(w, hand[w].delivery),
           UNCHANGED <<objects, erased, rcv, sweep, decoded, overlapped, overtaken, expired,
                       abandoned, receptions, mishaps>>
    PROVE  IngestInv'
<1> DEFINE c == CallOf[hand[w].delivery]
<1>1. c \in erased /\ Tombstoned(c) /\ hand' = [hand EXCEPT ![w] = None] /\ UNCHANGED leased
  BY DEF DropTombstoned
<1> HIDE DEF c
<1>2. /\ hand' \in [Drainers -> Holding \cup {None}]
      /\ \A v \in Drainers : hand'[v] # None =>
           /\ hand[v] # None /\ hand'[v].delivery = hand[v].delivery
           /\ hand'[v].object = hand[v].object
  BY <1>1, HandAfter
<1>3. /\ DOMAIN rows' = DOMAIN rows /\ queue' \subseteq DOMAIN rows
      /\ \A e \in DOMAIN rows :
           /\ rows'[e] \in [state : RowStates, object : {rows[e].object}]
           /\ rows'[e].state = IF CallOf[e] = c THEN "tombstoned" ELSE rows[e].state
  BY <1>1, Whole, TombstonedAfter
<1>4. /\ decoded \in [Deliveries -> SUBSET Posts] /\ leased \subseteq Deliveries
      /\ erased \subseteq CallIds /\ mishaps \in 0..MaxMishaps
  BY Whole DEF IngestTypeOK
<1> QED BY <1>1, <1>2, <1>3, <1>4, StatesKeep

LEMMA FailsKeeps ==
    ASSUME IngestInv, NEW w \in Drainers, hand[w] # None, Fails(w, hand[w].delivery),
           UNCHANGED <<objects, erased, rcv, sweep, decoded, overlapped, overtaken, expired,
                       abandoned, receptions>>,
           mishaps' \in 0..MaxMishaps
    PROVE  IngestInv'
<1> DEFINE d == hand[w].delivery
           label == IF rows[d].state = "assembled" THEN "assembled" ELSE "failed"
<1>1. d \in DOMAIN rows
  BY Whole DEF HeldAsClaimed
<1>2. /\ rows' = [rows EXCEPT ![d].state = label] /\ leased' \subseteq leased
      /\ queue' \subseteq queue \cup {d} /\ hand' = [hand EXCEPT ![w] = None]
  BY DEF Fails
<1>3. /\ DOMAIN rows' = DOMAIN rows
      /\ \A e \in DOMAIN rows : rows'[e] \in [state : RowStates, object : {rows[e].object}]
      /\ rows'[d].state = label /\ \A e \in DOMAIN rows \ {d} : rows'[e] = rows[e]
  <2>1. label \in RowStates
    BY DEF RowStates
  <2>2. IngestTypeOK
    BY Whole
  <2> HIDE DEF d, label
  <2> QED BY <1>1, <1>2, <2>1, <2>2, RowAfter
<1>4. /\ hand' \in [Drainers -> Holding \cup {None}]
      /\ \A v \in Drainers : hand'[v] # None =>
           /\ hand[v] # None /\ hand'[v].delivery = hand[v].delivery
           /\ hand'[v].object = hand[v].object
  BY <1>2, HandAfter
<1>5. /\ decoded \in [Deliveries -> SUBSET Posts] /\ leased' \subseteq Deliveries
      /\ queue' \subseteq DOMAIN rows /\ erased \subseteq CallIds
  BY <1>1, <1>2, Whole DEF IngestTypeOK
<1>6. \A e \in DOMAIN rows :
        /\ rows'[e].state = "tombstoned" => rows[e].state = "tombstoned"
        /\ rows'[e].state = "assembled" => rows[e].state = "assembled"
  BY <1>3
<1> HIDE DEF d, label
<1> QED BY <1>3, <1>4, <1>5, <1>6, StatesKeep

(* A worker that goes on to its next step. *)
LEMMA StepKeeps ==
    ASSUME IngestInv, NEW w \in Drainers, hand[w] # None,
           hand' = [hand EXCEPT ![w] = None]
             \/ \E label \in {"decode", "mark"} : hand' = [hand EXCEPT ![w].step = label],
           UNCHANGED <<objects, rows, queue, leased, erased, rcv, sweep, decoded, overlapped,
                       overtaken, expired, abandoned, receptions, mishaps>>
    PROVE  IngestInv'
<1>1. /\ hand' \in [Drainers -> Holding \cup {None}]
      /\ \A v \in Drainers : hand'[v] # None =>
           /\ hand[v] # None /\ hand'[v].delivery = hand[v].delivery
           /\ hand'[v].object = hand[v].object
  BY HandAfter
<1>2. /\ decoded \in [Deliveries -> SUBSET Posts] /\ leased \subseteq Deliveries
      /\ queue \subseteq DOMAIN rows /\ erased \subseteq CallIds /\ mishaps \in 0..MaxMishaps
      /\ \A d \in DOMAIN rows : rows[d] \in [state : RowStates, object : {rows[d].object}]
  BY Whole DEF IngestTypeOK
<1> QED BY <1>1, <1>2, StatesKeep

LEMMA ReadKeeps ==
    ASSUME IngestInv, NEW w \in Drainers, Read(w) PROVE IngestInv'
<1> DEFINE d == hand[w].delivery
<1>1. /\ hand[w].step = "read"
      /\ UNCHANGED <<objects, erased, rcv, sweep, decoded, overlapped, overtaken, expired,
                     abandoned, receptions, mishaps>>
  BY DEF Read, pastVars
<1>2. hand[w] # None /\ mishaps' \in 0..MaxMishaps
  BY <1>1, Whole DEF None, IngestTypeOK
<1>3. CASE hand' = [hand EXCEPT ![w] = None] /\ UNCHANGED <<rows, queue, leased>>
  BY <1>1, <1>2, <1>3, StepKeeps
<1>4. CASE DropTombstoned(w, d)
  BY <1>1, <1>2, <1>4, DropKeeps
<1>5. CASE hand' = [hand EXCEPT ![w].step = "decode"] /\ UNCHANGED <<rows, queue, leased>>
  BY <1>1, <1>2, <1>5, StepKeeps
<1>6. CASE Fails(w, d)
  BY <1>1, <1>2, <1>6, FailsKeeps
<1> QED BY <1>3, <1>4, <1>5, <1>6 DEF Read

LEMMA DecodeKeeps ==
    ASSUME IngestInv, NEW w \in Drainers, DecodeBody(w) \/ DecodeFails(w) PROVE IngestInv'
<1> DEFINE d == hand[w].delivery
<1>1. /\ hand[w].step = "decode"
      /\ UNCHANGED <<objects, erased, rcv, sweep, decoded, overlapped, overtaken, expired,
                     abandoned, receptions>>
  BY DEF DecodeBody, DecodeFails, pastVars
<1>2. hand[w] # None
  BY <1>1 DEF None
<1>3. CASE DropTombstoned(w, d) /\ UNCHANGED mishaps
  BY <1>1, <1>2, <1>3, DropKeeps
<1>4. CASE hand' = [hand EXCEPT ![w].step = "mark"] /\ UNCHANGED <<rows, queue, leased, mishaps>>
  BY <1>1, <1>2, <1>4, StepKeeps
<1>5. CASE Fails(w, d) /\ Mishap
  <2>1. mishaps' \in 0..MaxMishaps
    BY <1>5, Whole, Bounds DEF Mishap, IngestTypeOK
  <2> QED BY <1>1, <1>2, <1>5, <2>1, FailsKeeps
<1> QED BY <1>3, <1>4, <1>5 DEF DecodeBody, DecodeFails

LEMMA MarkKeeps ==
    ASSUME IngestInv, NEW w \in Drainers, MarkDecoded(w) PROVE IngestInv'
<1> DEFINE d == hand[w].delivery
<1>1. /\ hand[w].step = "mark" /\ rows' = [rows EXCEPT ![d].state = "assembled"]
      /\ queue' = queue \ {d} /\ leased' = leased \ {d}
      /\ decoded' = [decoded EXCEPT ![d] = @ \cup {hand[w].object}]
      /\ hand' = [hand EXCEPT ![w] = None]
      /\ UNCHANGED <<objects, erased, rcv, sweep, overlapped, overtaken, expired, abandoned,
                     receptions, mishaps>>
  BY DEF MarkDecoded
<1>2. /\ hand[w] # None /\ d \in Deliveries /\ hand[w].object \in Posts
      /\ d \in DOMAIN rows
      /\ hand[w].object = rows[d].object \/ d \in overtaken
  <2>1. hand[w] # None /\ d \in Deliveries /\ hand[w].object \in Posts
    <3>1. hand[w].step # "idle"
      BY <1>1
    <3> QED BY <3>1, Whole, Handed
  <2> QED BY <2>1, Whole DEF HeldAsClaimed
<1>3. /\ DOMAIN rows' = DOMAIN rows
      /\ \A e \in DOMAIN rows : rows'[e] \in [state : RowStates, object : {rows[e].object}]
      /\ rows'[d].state = "assembled" /\ \A e \in DOMAIN rows \ {d} : rows'[e] = rows[e]
  <2>1. "assembled" \in RowStates
    BY DEF RowStates
  <2>2. IngestTypeOK
    BY Whole
  <2> QED BY <1>1, <1>2, <2>1, <2>2, RowAfter
<1>4. /\ hand' \in [Drainers -> Holding \cup {None}]
      /\ \A v \in Drainers : hand'[v] # None =>
           /\ hand[v] # None /\ hand'[v].delivery = hand[v].delivery
           /\ hand'[v].object = hand[v].object
  BY <1>1, <1>2, HandAfter
<1>5. /\ decoded' \in [Deliveries -> SUBSET Posts] /\ hand[w].object \in decoded'[d]
      /\ \A e \in Deliveries : decoded[e] \subseteq decoded'[e]
  BY <1>1, <1>2, Whole DEF IngestTypeOK
<1>6. /\ leased' \subseteq Deliveries /\ queue' \subseteq DOMAIN rows
      /\ erased \subseteq CallIds /\ mishaps' \in 0..MaxMishaps
  BY <1>1, Whole DEF IngestTypeOK
<1>7. \A e \in DOMAIN rows :
        /\ rows'[e].state = "tombstoned" => rows[e].state = "tombstoned"
        /\ rows'[e].state = "assembled" =>
             rows[e].state = "assembled" \/ rows[e].object \in decoded'[e] \/ e \in overtaken
  BY <1>2, <1>3, <1>5
<1> HIDE DEF d
<1> QED BY <1>1, <1>3, <1>4, <1>5, <1>6, <1>7, StatesKeep

LEMMA DeleteKeeps ==
    ASSUME IngestInv, NEW c \in CallIds, Delete(c) PROVE IngestInv'
<1>1. /\ erased' = erased \cup {c} /\ Tombstoned(c)
      /\ UNCHANGED <<objects, leased, rcv, hand, sweep, decoded, overlapped, overtaken, expired,
                     abandoned, receptions, mishaps>>
  BY DEF Delete, pastVars
<1>2. /\ DOMAIN rows' = DOMAIN rows /\ queue' \subseteq DOMAIN rows
      /\ \A e \in DOMAIN rows :
           /\ rows'[e] \in [state : RowStates, object : {rows[e].object}]
           /\ rows'[e].state = IF CallOf[e] = c THEN "tombstoned" ELSE rows[e].state
  BY <1>1, Whole, TombstonedAfter
<1>3. /\ hand' \in [Drainers -> Holding \cup {None}] /\ hand' = hand
      /\ decoded' \in [Deliveries -> SUBSET Posts] /\ leased' \subseteq Deliveries
      /\ erased' \subseteq CallIds /\ mishaps' \in 0..MaxMishaps
  BY <1>1, Whole DEF IngestTypeOK
<1>4. \A e \in DOMAIN rows :
        /\ rows'[e].state = "tombstoned" => rows[e].state = "tombstoned" \/ CallOf[e] \in erased'
        /\ rows'[e].state = "assembled" => rows[e].state = "assembled"
  BY <1>1, <1>2
<1> QED BY <1>1, <1>2, <1>3, <1>4, StatesKeep

LEMMA ReplayKeeps ==
    ASSUME IngestInv, NEW d \in Deliveries, Replay(d) PROVE IngestInv'
<1>1. /\ d \in DOMAIN rows /\ rows' = [rows EXCEPT ![d].state = "queued"]
      /\ queue' = queue \cup {d} /\ leased' = leased \ {d}
      /\ UNCHANGED <<objects, erased, rcv, hand, sweep, decoded, overlapped, overtaken, expired,
                     abandoned, receptions>>
      /\ Mishap
  BY DEF Replay, Queue, pastVars
<1>2. /\ DOMAIN rows' = DOMAIN rows
      /\ \A e \in DOMAIN rows : rows'[e] \in [state : RowStates, object : {rows[e].object}]
      /\ rows'[d].state = "queued" /\ \A e \in DOMAIN rows \ {d} : rows'[e] = rows[e]
  <2>1. "queued" \in RowStates
    BY DEF RowStates
  <2>2. IngestTypeOK
    BY Whole
  <2> QED BY <1>1, <2>1, <2>2, RowAfter
<1>3. /\ hand' \in [Drainers -> Holding \cup {None}] /\ hand' = hand
      /\ decoded' \in [Deliveries -> SUBSET Posts] /\ leased' \subseteq Deliveries
      /\ queue' \subseteq DOMAIN rows /\ erased' \subseteq CallIds
  BY <1>1, Whole DEF IngestTypeOK
<1>4. mishaps' \in 0..MaxMishaps
  BY <1>1, Whole, Bounds DEF Mishap, IngestTypeOK
<1>5. \A e \in DOMAIN rows :
        /\ rows'[e].state = "tombstoned" => rows[e].state = "tombstoned"
        /\ rows'[e].state = "assembled" => rows[e].state = "assembled"
  BY <1>2
<1> QED BY <1>1, <1>2, <1>3, <1>4, <1>5, StatesKeep

-----------------------------------------------------------------------------
(* Retention.                                                              *)

LEMMA ExpireKeeps ==
    ASSUME IngestInv, NEW d \in Deliveries, Expire(d) PROVE IngestInv'
<1> DEFINE p == rows[d].object
<1>1. /\ d \in DOMAIN rows /\ objects' = objects \ {p} /\ expired' = expired \cup {d}
      /\ UNCHANGED <<rows, queue, leased, erased, rcv, hand, sweep, decoded, overlapped,
                     overtaken, abandoned, receptions>>
      /\ mishaps' \in 0..MaxMishaps
  BY Whole, Bounds DEF Expire, Mishap, IngestTypeOK
<1>2. DeliveryOf[p] = d /\ \A e \in DOMAIN rows : DeliveryOf[rows[e].object] = e
  BY <1>1, Whole DEF IngestTypeOK
<1> HIDE DEF p
<1>3. \A e : Excused(e) => Excused(e)'
  BY <1>1 DEF Excused
<1>4. Excused(d)'
  BY <1>1 DEF Excused
<1>5. IngestTypeOK'
  BY <1>1, Whole DEF IngestTypeOK
<1>6. ErasedOnly'
  BY <1>1, Whole DEF ErasedOnly, Busy
<1>7. PutKept'
  BY <1>1, <1>2, <1>3, <1>4, Whole DEF PutKept, Busy
<1>8. SweepListed'
  BY <1>1, Whole DEF SweepListed, InFlight
<1>9. RowsNameBodies'
  BY <1>1, <1>2, <1>3, <1>4, Whole DEF RowsNameBodies, BodyGone
<1>10. BodiesOwned'
  BY <1>1, Whole DEF BodiesOwned, Busy
<1> QED BY <1>1, <1>5, <1>6, <1>7, <1>8, <1>9, <1>10, WorkFrame DEF IngestInv

(* The sweep takes its list of rows, and then its list of keys. *)
LEMMA ListsKeep ==
    ASSUME IngestInv, SweepRows \/ SweepKeys PROVE IngestInv'
<1>1. /\ UNCHANGED <<objects, rows, queue, leased, erased, rcv, hand, decoded, overtaken,
                     expired, abandoned, receptions>>
      /\ overlapped' \in {overlapped, overlapped \cup InFlight} /\ mishaps' \in 0..MaxMishaps
  BY Whole, Bounds DEF SweepRows, SweepKeys, Mishap, storeVars, pastVars, IngestTypeOK
<1>2. InFlight \subseteq Deliveries
  <2>1. \A r \in Receivers : rcv[r] # None => rcv[r].post \in Posts
    BY Whole DEF IngestTypeOK, Reception
  <2> QED BY <2>1, IngestAssumption DEF InFlight
<1>3. \A d \in DOMAIN rows : rows[d].object \in Posts
  BY Whole DEF IngestTypeOK
<1>4. sweep' \in Sweeping
  <2>1. CASE SweepRows
    <3>1. {rows[d].object : d \in DOMAIN rows} \subseteq Posts
      BY <1>3
    <3> QED BY <2>1, <3>1 DEF SweepRows, Sweeping
  <2>2. CASE SweepKeys
    BY <2>2, Whole DEF SweepKeys, Sweeping, IngestTypeOK
  <2> QED BY <2>1, <2>2
<1>5. IngestTypeOK'
  BY <1>1, <1>2, <1>4, Whole DEF IngestTypeOK
<1>6. ErasedOnly'
  BY <1>1, Whole DEF ErasedOnly, Busy
<1>7. \A d : Excused(d) => Excused(d)'
  BY <1>1 DEF Excused
<1>8. PutKept' /\ RowsNameBodies' /\ BodiesOwned'
  BY <1>1, <1>7, Whole DEF PutKept, RowsNameBodies, BodiesOwned, BodyGone, Busy
<1>9. SweepListed'
  <2>1. InFlight' = InFlight
    BY <1>1 DEF InFlight
  <2>2. CASE SweepRows
    <3>1. sweep'.step = "keys" /\ sweep'.known = {rows[d].object : d \in DOMAIN rows}
      BY <2>2 DEF SweepRows
    <3>2. InFlight \subseteq overlapped'
      BY <2>2 DEF SweepRows
    <3> QED BY <1>1, <2>1, <3>1, <3>2 DEF SweepListed
  <2>3. CASE SweepKeys
    <3>1. /\ sweep.step = "keys" /\ sweep'.step = "delete"
          /\ sweep'.doomed = objects \ sweep.known /\ overlapped' = overlapped
      BY <2>3 DEF SweepKeys, pastVars
    <3> QED BY <1>1, <2>1, <3>1, Whole DEF SweepListed
  <2> QED BY <2>2, <2>3
<1> QED BY <1>1, <1>5, <1>6, <1>8, <1>9, WorkFrame DEF IngestInv

(* What the sweep deletes is a body no row names, or one on record. *)
LEMMA SweepDeleteKeeps ==
    ASSUME IngestInv, SweepDelete PROVE IngestInv'
<1>1. /\ sweep.step = "delete"
      /\ UNCHANGED <<rows, queue, leased, erased, rcv, hand, decoded, overlapped, overtaken,
                     expired, abandoned, receptions, mishaps>>
      /\ \/ \E p \in sweep.doomed : /\ objects' = objects \ {p}
                                    /\ sweep' = [sweep EXCEPT !.doomed = @ \ {p}]
         \/ sweep' = [sweep EXCEPT !.step = "idle"] /\ objects' = objects
  BY DEF SweepDelete, pastVars
<1>2. /\ sweep \in Sweeping /\ InFlight \subseteq overlapped
      /\ \A d \in DOMAIN rows \ overlapped : rows[d].object \notin sweep.doomed
  BY <1>1, Whole DEF SweepListed, IngestTypeOK
<1>3. /\ sweep' \in Sweeping /\ objects' \subseteq objects
      /\ objects \ objects' \subseteq sweep.doomed
      /\ sweep'.step # "idle" =>
           sweep'.step = "delete" /\ sweep'.doomed \subseteq sweep.doomed
  <2>1. ASSUME NEW p \in sweep.doomed, objects' = objects \ {p},
               sweep' = [sweep EXCEPT !.doomed = @ \ {p}]
        PROVE  /\ sweep' \in Sweeping /\ objects' \subseteq objects
               /\ objects \ objects' \subseteq sweep.doomed
               /\ sweep'.step = "delete" /\ sweep'.doomed \subseteq sweep.doomed
    BY <1>1, <1>2, <2>1 DEF Sweeping
  <2>2. CASE sweep' = [sweep EXCEPT !.step = "idle"] /\ objects' = objects
    BY <1>2, <2>2 DEF Sweeping
  <2> QED BY <1>1, <2>1, <2>2
<1>4. IngestTypeOK'
  BY <1>1, <1>3, Whole DEF IngestTypeOK
<1>5. ErasedOnly'
  BY <1>1, Whole DEF ErasedOnly, Busy
<1>6. PutKept'
  BY <1>1, <1>2, Whole DEF PutKept, Busy, InFlight, Excused
<1>7. SweepListed'
  BY <1>1, <1>2, <1>3 DEF SweepListed, InFlight
<1>8. RowsNameBodies'
  BY <1>1, <1>2, <1>3, Whole DEF RowsNameBodies, BodyGone, Excused
<1>9. BodiesOwned'
  BY <1>1, <1>3, Whole DEF BodiesOwned, Busy
<1> QED BY <1>1, <1>4, <1>5, <1>6, <1>7, <1>8, <1>9, WorkFrame DEF IngestInv

-----------------------------------------------------------------------------

LEMMA IngestStep ==
    ASSUME IngestInv, IngestNext PROVE IngestInv'
<1>1. ASSUME NEW r \in Receivers,
             \/ \E p \in Posts, route \in Routes : Receive(r, p, route)
             \/ PutBody(r) \/ LookAgain(r) \/ Insert(r) \/ Purge(r) \/ PurgeFails(r)
             \/ ReceptionDies(r)
      PROVE  IngestInv'
  BY <1>1, ReceiveKeeps, PutKeeps, LookKeeps, InsertKeeps, PurgeKeeps, PurgeFailsKeeps
<1>2. ASSUME NEW w \in Drainers,
             \/ \E d \in Deliveries : ClaimRow(w, d)
             \/ Read(w) \/ DecodeBody(w) \/ DecodeFails(w) \/ MarkDecoded(w)
      PROVE  IngestInv'
  BY <1>2, ClaimKeeps, ReadKeeps, DecodeKeeps, MarkKeeps
<1>3. ASSUME NEW d \in Deliveries, LeaseLost(d) \/ Replay(d) \/ Expire(d) PROVE IngestInv'
  BY <1>3, LeaseLostKeeps, ReplayKeeps, ExpireKeeps
<1>4. ASSUME NEW c \in CallIds, Delete(c) PROVE IngestInv'
  BY <1>4, DeleteKeeps
<1>5. CASE SweepRows \/ SweepKeys \/ SweepDelete
  BY <1>5, ListsKeep, SweepDeleteKeeps
<1> QED BY <1>1, <1>2, <1>3, <1>4, <1>5 DEF IngestNext

LEMMA IngestStutter ==
    ASSUME IngestInv, UNCHANGED ingestVars PROVE IngestInv'
<1>1. UNCHANGED <<objects, rows, queue, leased, erased, rcv, hand, sweep, decoded, overlapped,
                  overtaken, expired, abandoned, receptions, mishaps>>
  BY DEF ingestVars, storeVars, pastVars
<1>2. IngestTypeOK'
  BY <1>1, Whole DEF IngestTypeOK
<1>3. ErasedOnly'
  BY <1>1, Whole DEF ErasedOnly, Busy
<1> QED BY <1>1, <1>2, <1>3, BodiesFrame, WorkFrame DEF IngestInv

LEMMA IngestInductive == IngestSpec => []IngestInv
<1>1. IngestInit => IngestInv
  BY IngestInitInv
<1>2. IngestInv /\ [IngestNext]_ingestVars => IngestInv'
  BY IngestStep, IngestStutter
<1> QED BY <1>1, <1>2, PTL DEF IngestSpec

(* Receptions, workers, deletions, replays and retention keep the types of  *)
(* the rows, the bodies and the copies (receive.py, drain.py, retention.py). *)
THEOREM IngestTypes == IngestSpec => []IngestTypeOK
<1>1. IngestInv => IngestTypeOK
  BY Whole
<1> QED BY <1>1, IngestInductive, PTL

(* For any receivers, deliveries and contents: a row that waits to be       *)
(* decoded names a body the store holds, but for a deletion, retention or a *)
(* sweep under way, and a body without a row is one still being received or *)
(* one a reception gave up (receive.py:143-160, retention.py:163).          *)
THEOREM BodiesStayAccounted == IngestSpec => []BodiesAccounted
<1>1. IngestInv => BodiesAccounted
  <2> SUFFICES ASSUME IngestInv PROVE BodiesAccounted
    OBVIOUS
  <2>1. \A d \in DOMAIN rows : Waiting(d) /\ BodyGone(d) =>
                                 CallOf[d] \in erased \/ d \in expired \/ d \in overlapped
    BY Whole DEF RowsNameBodies, Excused
  <2>2. \A p \in objects : DeliveryOf[p] \in DOMAIN rows \cup InFlight \/ p \in abandoned
    BY Whole DEF BodiesOwned, InFlight, Busy
  <2> QED BY <2>1, <2>2 DEF BodiesAccounted
<1> QED BY <1>1, IngestInductive, PTL

(* For any workers and redeliveries: an assembled row names a body it was   *)
(* assembled from, unless it was replaced under a worker's hands            *)
(* (drain.py:102).                                                         *)
THEOREM DecodedIsNamed == IngestSpec => []NamesWhatWasDecoded
<1>1. IngestInv => NamesWhatWasDecoded
  BY Whole
<1> QED BY <1>1, IngestInductive, PTL

-----------------------------------------------------------------------------
(* SpanIdentity, the receiver of traces: for any receivers, spans and        *)
(* batches, what a process has answered agrees span by span, and the outbox  *)
(* passes its limit by no more than the receivers that read its depth        *)
(* together.                                                                *)
(*                                                                         *)
(* A cache entry is never overwritten (setdefault), and a batch is answered *)
(* 200 only if every span of it found its own fingerprint in the cache.     *)
(* That is why a process agrees with itself although the table may fail;    *)
(* nothing of the kind holds between two processes.                         *)

(* A receiver that has found no conflict holds in its cache every span of   *)
(* its batch that it is done with, and the one it is about to record.       *)
ObservedIsCached ==
    \A r \in Servers :
        observing[r] # NoBatch =>
            /\ observing[r].left \subseteq DOMAIN observing[r].batch
            /\ ~observing[r].conflict =>
                 \A s \in DOMAIN observing[r].batch \ observing[r].left : cache[r][s] = observing[r].batch[s]
            /\ observing[r].step = "record" =>
                 observing[r].span \in observing[r].left /\ cache[r][observing[r].span] = observing[r].batch[observing[r].span]

AnsweredIsCached ==
    \A r \in Servers : \A b \in answered[r] : \A s \in DOMAIN b : cache[r][s] = b[s]

(* What counts towards the depth, and who may still add to it. *)
WaitingBatches == {b \in backlog : envelopes[b] # "assembled"}
Receiving == {r \in Servers : observing[r].step \in {"observe", "record"}}
DepthLeft == Depth + Cardinality(Receiving) <= DepthLimit - 1 + Cardinality(Servers)

IdentityInv == IdentityTypeOK /\ ObservedIsCached /\ AnsweredIsCached

-----------------------------------------------------------------------------
(* The cache, step by step.                                                *)

LEMMA NotIdle ==
    ASSUME IdentityTypeOK, NEW r \in Servers, observing[r].step # "idle"
    PROVE  observing[r] \in Observation /\ observing[r] # NoBatch
  BY DEF IdentityTypeOK, NoBatch

LEMMA BatchTyped ==
    ASSUME SpanIdentityAssumption, NEW b \in Batches, NEW s \in DOMAIN b
    PROVE  s \in Spans /\ b[s] \in Fingerprints /\ b[s] # Unseen
  BY DEF SpanIdentityAssumption

LEMMA InitInv == ASSUME SpanIdentityAssumption, IdentityInit PROVE IdentityInv
<1>1. IdentityTypeOK
  BY DEF IdentityInit, IdentityTypeOK, Identities, SpanIdentityAssumption
<1>2. ObservedIsCached /\ AnsweredIsCached
  BY DEF IdentityInit, ObservedIsCached, AnsweredIsCached
<1> QED BY <1>1, <1>2 DEF IdentityInv

LEMMA BeginKeeps ==
    ASSUME SpanIdentityAssumption, IdentityInv, NEW r \in Servers, NEW b \in Batches, Begin(r, b)
    PROVE  IdentityInv'
<1> DEFINE new == [step |-> "observe", batch |-> b, left |-> DOMAIN b, span |-> Unseen, conflict |-> FALSE]
<1>1. new \in Observation
  BY DEF Observation, SpanIdentityAssumption
<1>2. observing' = [observing EXCEPT ![r] = new] /\ UNCHANGED <<cache, table, envelopes, backlog, answered, failures>>
  BY DEF Begin
<1>3. IdentityTypeOK'
  <2>1. begun' \in 0..MaxBegun
    BY DEF Begin, IdentityInv, IdentityTypeOK, SpanIdentityAssumption
  <2> HIDE DEF new
  <2> QED BY <1>1, <1>2, <2>1 DEF IdentityInv, IdentityTypeOK
<1>4. ObservedIsCached'
  BY <1>2 DEF IdentityInv, IdentityTypeOK, ObservedIsCached
<1>5. AnsweredIsCached'
  BY <1>2 DEF IdentityInv, AnsweredIsCached
<1> QED BY <1>3, <1>4, <1>5 DEF IdentityInv

(* The record of a reception after one of its spans. *)
LEMMA ObservedKeeps ==
    ASSUME SpanIdentityAssumption, IdentityInv, NEW r \in Servers, NEW s \in observing[r].left,
           NEW conflict \in BOOLEAN, observing[r] \in Observation, observing[r] # NoBatch, Observed(r, s, conflict),
           cache' \in [Servers -> Identities],
           \A q \in Servers, t \in Spans : cache[q][t] # Unseen => cache'[q][t] = cache[q][t],
           ~conflict => cache'[r][s] = observing[r].batch[s],
           answered' = answered
    PROVE  observing' \in [Servers -> Observation \cup {NoBatch}] /\ ObservedIsCached' /\ AnsweredIsCached'
<1> DEFINE new == [observing[r] EXCEPT !.left = @ \ {s}, !.step = "observe", !.span = Unseen,
                                 !.conflict = @ \/ conflict]
<1>1. observing' = [observing EXCEPT ![r] = new]
  BY DEF Observed, IdentityInv, IdentityTypeOK
<1>2. new \in Observation /\ new # NoBatch
  BY DEF Observation, NoBatch
<1>3. /\ new.step = "observe" /\ new.batch = observing[r].batch /\ new.left = observing[r].left \ {s}
      /\ ~new.conflict => ~observing[r].conflict /\ ~conflict
  BY DEF Observation
<1> HIDE DEF new
<1>4. observing' \in [Servers -> Observation \cup {NoBatch}]
  BY <1>1, <1>2 DEF IdentityInv, IdentityTypeOK
<1>5. observing'[r] = new /\ \A q \in Servers \ {r} : observing'[q] = observing[q]
  BY <1>1 DEF IdentityInv, IdentityTypeOK
<1>6. ASSUME NEW q \in Servers, NEW b \in Batches, NEW t \in DOMAIN b, cache[q][t] = b[t]
      PROVE  cache'[q][t] = b[t]
  BY <1>6, BatchTyped
<1>7. ASSUME NEW q \in Servers, observing'[q] # NoBatch
      PROVE  /\ observing'[q].left \subseteq DOMAIN observing'[q].batch
             /\ ~observing'[q].conflict =>
                  \A t \in DOMAIN observing'[q].batch \ observing'[q].left : cache'[q][t] = observing'[q].batch[t]
             /\ observing'[q].step = "record" =>
                  observing'[q].span \in observing'[q].left /\ cache'[q][observing'[q].span] = observing'[q].batch[observing'[q].span]
  <2>1. CASE q = r
    <3>1. observing[r].left \subseteq DOMAIN observing[r].batch /\ observing[r].batch \in Batches
      BY DEF IdentityInv, ObservedIsCached, Observation
    <3>2. ASSUME ~new.conflict, NEW t \in DOMAIN new.batch \ new.left PROVE cache'[r][t] = new.batch[t]
      BY <1>3, <1>6, <3>1, <3>2 DEF IdentityInv, ObservedIsCached
    <3> QED BY <1>3, <1>5, <2>1, <3>1, <3>2
  <2>2. CASE q # r
    <3>1. observing'[q] = observing[q] /\ observing[q] \in Observation /\ observing[q].batch \in Batches
      BY <1>5, <1>7, <2>2 DEF IdentityInv, IdentityTypeOK, Observation
    <3> QED BY <1>6, <1>7, <3>1 DEF IdentityInv, ObservedIsCached
  <2> QED BY <2>1, <2>2
<1>8. ObservedIsCached'
  BY <1>7 DEF ObservedIsCached
<1>9. AnsweredIsCached'
  <2>1. \A q \in Servers : answered[q] \subseteq Batches
    BY DEF IdentityInv, IdentityTypeOK
  <2> QED BY <1>6, <2>1 DEF IdentityInv, AnsweredIsCached
<1> QED BY <1>4, <1>8, <1>9

LEMMA ObserveCachedKeeps ==
    ASSUME SpanIdentityAssumption, IdentityInv, NEW r \in Servers, NEW s \in Spans, ObserveCached(r, s)
    PROVE  IdentityInv'
<1>1. observing[r] \in Observation /\ observing[r] # NoBatch /\ s \in observing[r].left
  BY NotIdle DEF ObserveCached, IdentityInv
<1>2. /\ cache' = cache /\ answered' = answered /\ cache \in [Servers -> Identities]
      /\ Observed(r, s, cache[r][s] # observing[r].batch[s]) /\ (cache[r][s] # observing[r].batch[s]) \in BOOLEAN
  BY DEF ObserveCached, IdentityInv, IdentityTypeOK
<1>3. observing' \in [Servers -> Observation \cup {NoBatch}] /\ ObservedIsCached' /\ AnsweredIsCached'
  BY <1>1, <1>2, ObservedKeeps
<1> QED BY <1>3 DEF ObserveCached, IdentityInv, IdentityTypeOK

(* SELECT and a SELECT that fails fill the cache first. *)
LEMMA Filled ==
    ASSUME SpanIdentityAssumption, IdentityInv, NEW r \in Servers, NEW s \in Spans,
           observing[r] \in Observation, observing[r] # NoBatch, s \in observing[r].left, cache[r][s] = Unseen,
           cache' = [cache EXCEPT ![r][s] = observing[r].batch[s]]
    PROVE  /\ cache' \in [Servers -> Identities] /\ cache'[r][s] = observing[r].batch[s]
           /\ \A q \in Servers, t \in Spans : cache[q][t] # Unseen => cache'[q][t] = cache[q][t]
<1>1. s \in DOMAIN observing[r].batch /\ observing[r].batch \in Batches
  BY DEF IdentityInv, ObservedIsCached, Observation
<1>2. observing[r].batch[s] \in Fingerprints
  BY <1>1, BatchTyped
<1>3. cache \in [Servers -> [Spans -> Fingerprints \cup {Unseen}]]
  BY DEF IdentityInv, IdentityTypeOK, Identities
<1> QED BY <1>2, <1>3 DEF Identities

LEMMA SelectKeeps ==
    ASSUME SpanIdentityAssumption, IdentityInv, NEW r \in Servers, NEW s \in Spans, Select(r, s)
    PROVE  IdentityInv'
<1>1. observing[r] \in Observation /\ observing[r] # NoBatch /\ s \in observing[r].left
  BY NotIdle DEF Select, IdentityInv
<1>2. /\ cache' \in [Servers -> Identities] /\ cache'[r][s] = observing[r].batch[s]
      /\ \A q \in Servers, t \in Spans : cache[q][t] # Unseen => cache'[q][t] = cache[q][t]
  BY <1>1, Filled DEF Select
<1>3. UNCHANGED <<table, envelopes, backlog, answered, begun, failures>>
  BY DEF Select
<1>4. CASE table[s] # Unseen
  <2>1. Observed(r, s, table[s] # observing[r].batch[s]) /\ (table[s] # observing[r].batch[s]) \in BOOLEAN
    BY <1>4 DEF Select
  <2>2. observing' \in [Servers -> Observation \cup {NoBatch}] /\ ObservedIsCached' /\ AnsweredIsCached'
    BY <1>1, <1>2, <1>3, <2>1, ObservedKeeps
  <2> QED BY <1>2, <1>3, <2>2 DEF IdentityInv, IdentityTypeOK
<1>5. CASE table[s] = Unseen
  <2> DEFINE new == [observing[r] EXCEPT !.step = "record", !.span = s]
  <2>1. observing' = [observing EXCEPT ![r] = new]
    BY <1>5 DEF Select, IdentityInv, IdentityTypeOK
  <2>2. /\ new \in Observation /\ new # NoBatch /\ new.batch = observing[r].batch /\ new.left = observing[r].left
        /\ new.conflict = observing[r].conflict /\ new.span = s
    BY <1>1 DEF Observation, NoBatch
  <2> HIDE DEF new
  <2>3. observing' \in [Servers -> Observation \cup {NoBatch}]
    BY <2>1, <2>2 DEF IdentityInv, IdentityTypeOK
  <2>4. observing'[r] = new /\ \A q \in Servers \ {r} : observing'[q] = observing[q]
    BY <2>1 DEF IdentityInv, IdentityTypeOK
  <2>5. ASSUME NEW q \in Servers, NEW b \in Batches, NEW t \in DOMAIN b, cache[q][t] = b[t]
        PROVE  cache'[q][t] = b[t]
    BY <1>2, <2>5, BatchTyped
  <2>6. ASSUME NEW q \in Servers, observing'[q] # NoBatch
        PROVE  /\ observing'[q].left \subseteq DOMAIN observing'[q].batch
               /\ ~observing'[q].conflict =>
                    \A t \in DOMAIN observing'[q].batch \ observing'[q].left : cache'[q][t] = observing'[q].batch[t]
               /\ observing'[q].step = "record" =>
                    observing'[q].span \in observing'[q].left /\ cache'[q][observing'[q].span] = observing'[q].batch[observing'[q].span]
    <3>1. observing[q] # NoBatch => observing[q].batch \in Batches
      BY DEF IdentityInv, IdentityTypeOK, Observation
    <3>2. CASE q = r
      BY <1>1, <1>2, <2>2, <2>4, <2>5, <3>1, <3>2 DEF IdentityInv, ObservedIsCached
    <3>3. CASE q # r
      BY <2>4, <2>5, <2>6, <3>1, <3>3 DEF IdentityInv, ObservedIsCached
    <3> QED BY <3>2, <3>3
  <2>7. ObservedIsCached'
    BY <2>6 DEF ObservedIsCached
  <2>8. AnsweredIsCached'
    <3>1. \A q \in Servers : answered[q] \subseteq Batches
      BY DEF IdentityInv, IdentityTypeOK
    <3> QED BY <1>3, <2>5, <3>1 DEF IdentityInv, AnsweredIsCached
  <2> QED BY <1>2, <1>3, <2>3, <2>7, <2>8 DEF IdentityInv, IdentityTypeOK
<1> QED BY <1>4, <1>5

LEMMA SelectFailsKeeps ==
    ASSUME SpanIdentityAssumption, IdentityInv, NEW r \in Servers, NEW s \in Spans, SelectFails(r, s)
    PROVE  IdentityInv'
<1>1. observing[r] \in Observation /\ observing[r] # NoBatch /\ s \in observing[r].left
  BY NotIdle DEF SelectFails, IdentityInv
<1>2. /\ cache' \in [Servers -> Identities] /\ cache'[r][s] = observing[r].batch[s]
      /\ \A q \in Servers, t \in Spans : cache[q][t] # Unseen => cache'[q][t] = cache[q][t]
  BY <1>1, Filled DEF SelectFails
<1>3. observing' \in [Servers -> Observation \cup {NoBatch}] /\ ObservedIsCached' /\ AnsweredIsCached'
  BY <1>1, <1>2, ObservedKeeps DEF SelectFails
<1>4. failures' \in 0..MaxFailures
  BY DEF SelectFails, Failure, IdentityInv, IdentityTypeOK, SpanIdentityAssumption
<1> QED BY <1>2, <1>3, <1>4 DEF SelectFails, IdentityInv, IdentityTypeOK

LEMMA RecordedKeeps ==
    ASSUME SpanIdentityAssumption, IdentityInv, NEW r \in Servers, observing[r].step = "record",
           Observed(r, observing[r].span, FALSE), UNCHANGED <<cache, answered>>
    PROVE  observing' \in [Servers -> Observation \cup {NoBatch}] /\ ObservedIsCached' /\ AnsweredIsCached'
<1>1. observing[r] \in Observation /\ observing[r] # NoBatch
  BY NotIdle DEF IdentityInv
<1>2. observing[r].span \in observing[r].left /\ cache[r][observing[r].span] = observing[r].batch[observing[r].span]
  BY <1>1 DEF IdentityInv, ObservedIsCached
<1>3. cache \in [Servers -> Identities]
  BY DEF IdentityInv, IdentityTypeOK
<1> QED BY <1>1, <1>2, <1>3, ObservedKeeps

LEMMA RecordKeeps ==
    ASSUME SpanIdentityAssumption, IdentityInv, NEW r \in Servers, Record(r) \/ RecordFails(r)
    PROVE  IdentityInv'
<1>1. observing' \in [Servers -> Observation \cup {NoBatch}] /\ ObservedIsCached' /\ AnsweredIsCached'
  BY RecordedKeeps DEF Record, RecordFails
<1>2. table' \in Identities
  <2>1. observing[r].step = "record"
    BY DEF Record, RecordFails
  <2>2. observing[r] \in Observation /\ observing[r] # NoBatch
    BY <2>1, NotIdle DEF IdentityInv
  <2>3. observing[r].span \in DOMAIN observing[r].batch /\ observing[r].batch \in Batches
    BY <2>1, <2>2 DEF IdentityInv, ObservedIsCached, Observation
  <2>4. observing[r].batch[observing[r].span] \in Fingerprints
    BY <2>3, BatchTyped
  <2> QED BY <2>4 DEF Record, RecordFails, IdentityInv, IdentityTypeOK, Identities
<1>3. failures' \in 0..MaxFailures
  <2>1. failures \in 0..MaxFailures /\ MaxFailures \in Nat
    BY DEF IdentityInv, IdentityTypeOK, SpanIdentityAssumption
  <2>2. CASE Record(r)
    BY <2>1, <2>2 DEF Record
  <2>3. CASE RecordFails(r)
    BY <2>1, <2>3 DEF RecordFails, Failure
  <2> QED BY <2>2, <2>3
<1> QED BY <1>1, <1>2, <1>3 DEF Record, RecordFails, IdentityInv, IdentityTypeOK

LEMMA AcceptKeeps ==
    ASSUME SpanIdentityAssumption, IdentityInv, NEW r \in Servers, AcceptBatch(r)
    PROVE  IdentityInv'
<1> DEFINE b == observing[r].batch
<1>1. observing[r] \in Observation /\ observing[r] # NoBatch /\ b \in Batches /\ observing[r].left = {}
  BY NotIdle DEF AcceptBatch, IdentityInv, Observation
<1>2. UNCHANGED <<cache, table, begun, failures>>
  BY DEF AcceptBatch
<1>3. /\ envelopes' \in [Batches -> {"none", "queued", "assembled"}]
      /\ backlog' \subseteq {c \in Batches : envelopes'[c] # "none"}
  BY <1>1 DEF AcceptBatch, IdentityInv, IdentityTypeOK
<1>4. CASE observing[r].conflict
  <2> DEFINE new == [observing[r] EXCEPT !.step = "drop"]
  <2>1. observing' = [observing EXCEPT ![r] = new] /\ answered' = answered
    BY <1>4 DEF AcceptBatch, IdentityInv, IdentityTypeOK
  <2>2. /\ new \in Observation /\ new.step = "drop" /\ new.conflict
        /\ new.left = observing[r].left /\ new.batch = observing[r].batch
    BY <1>1, <1>4 DEF Observation
  <2> HIDE DEF new
  <2>3. observing' \in [Servers -> Observation \cup {NoBatch}]
    BY <2>1, <2>2 DEF IdentityInv, IdentityTypeOK
  <2>4. ObservedIsCached'
    BY <1>1, <1>2, <2>1, <2>2 DEF IdentityInv, IdentityTypeOK, ObservedIsCached
  <2> QED BY <1>2, <1>3, <2>1, <2>3, <2>4 DEF IdentityInv, IdentityTypeOK, AnsweredIsCached
<1>5. CASE ~observing[r].conflict
  <2>1. observing' = [observing EXCEPT ![r] = NoBatch] /\ answered' = [answered EXCEPT ![r] = @ \cup {b}]
    BY <1>5 DEF AcceptBatch
  <2>2. observing' \in [Servers -> Observation \cup {NoBatch}] /\ answered' \in [Servers -> SUBSET Batches]
    BY <1>1, <2>1 DEF IdentityInv, IdentityTypeOK
  <2>3. ObservedIsCached'
    BY <1>2, <2>1 DEF IdentityInv, IdentityTypeOK, ObservedIsCached
  <2>4. \A s \in DOMAIN b : cache[r][s] = b[s]
    BY <1>1, <1>5 DEF IdentityInv, ObservedIsCached
  <2>5. AnsweredIsCached'
    BY <1>2, <2>1, <2>4 DEF IdentityInv, IdentityTypeOK, AnsweredIsCached
  <2> QED BY <1>2, <1>3, <2>2, <2>3, <2>5 DEF IdentityInv, IdentityTypeOK
<1> QED BY <1>4, <1>5

LEMMA DropKeepsIdentity ==
    ASSUME SpanIdentityAssumption, IdentityInv, NEW r \in Servers, Drop(r)
    PROVE  IdentityInv'
<1>1. IdentityTypeOK'
  BY DEF Drop, IdentityInv, IdentityTypeOK
<1>2. ObservedIsCached' /\ AnsweredIsCached'
  BY DEF Drop, IdentityInv, IdentityTypeOK, ObservedIsCached, AnsweredIsCached
<1> QED BY <1>1, <1>2 DEF IdentityInv

LEMMA RestartKeeps ==
    ASSUME SpanIdentityAssumption, IdentityInv, NEW r \in Servers, Restart(r)
    PROVE  IdentityInv'
<1>1. IdentityTypeOK'
  <2>1. failures' \in 0..MaxFailures
    BY DEF Restart, Failure, IdentityInv, IdentityTypeOK, SpanIdentityAssumption
  <2>2. /\ cache' \in [Servers -> Identities] /\ answered' \in [Servers -> SUBSET Batches]
        /\ observing' \in [Servers -> Observation \cup {NoBatch}]
    BY DEF Restart, IdentityInv, IdentityTypeOK, Identities
  <2> QED BY <2>1, <2>2 DEF Restart, IdentityInv, IdentityTypeOK
<1>2. ObservedIsCached' /\ AnsweredIsCached'
  BY DEF Restart, IdentityInv, IdentityTypeOK, ObservedIsCached, AnsweredIsCached
<1> QED BY <1>1, <1>2 DEF IdentityInv

LEMMA DrainKeeps ==
    ASSUME SpanIdentityAssumption, IdentityInv, NEW b \in Batches, Drain(b)
    PROVE  IdentityInv'
<1>1. IdentityTypeOK'
  BY DEF Drain, IdentityInv, IdentityTypeOK
<1>2. ObservedIsCached' /\ AnsweredIsCached'
  BY DEF Drain, IdentityInv, ObservedIsCached, AnsweredIsCached
<1> QED BY <1>1, <1>2 DEF IdentityInv

LEMMA NextKeeps ==
    ASSUME SpanIdentityAssumption, IdentityInv, [IdentityNext]_identityVars
    PROVE  IdentityInv'
<1>1. CASE UNCHANGED identityVars
  BY <1>1 DEF identityVars, IdentityInv, IdentityTypeOK, ObservedIsCached, AnsweredIsCached
<1>2. CASE IdentityNext
  BY <1>2, BeginKeeps, ObserveCachedKeeps, SelectKeeps, SelectFailsKeeps, RecordKeeps, AcceptKeeps,
     DropKeepsIdentity, RestartKeeps, DrainKeeps DEF IdentityNext
<1> QED BY <1>1, <1>2

-----------------------------------------------------------------------------
(* The depth.                                                              *)

LEMMA Finite ==
    ASSUME SpanIdentityAssumption, IdentityTypeOK
    PROVE  /\ IsFiniteSet(WaitingBatches) /\ IsFiniteSet(Receiving)
           /\ Depth = Cardinality(WaitingBatches) /\ Depth \in Nat
           /\ Cardinality(Receiving) \in Nat /\ Cardinality(Servers) \in Nat
           /\ Cardinality(Receiving) <= Cardinality(Servers)
<1>1. WaitingBatches \subseteq Batches /\ Receiving \subseteq Servers
  BY DEF WaitingBatches, Receiving, IdentityTypeOK
<1> QED BY <1>1, FS_Subset, FS_CardinalityType DEF SpanIdentityAssumption, Depth, WaitingBatches

LEMMA FiniteAfter ==
    ASSUME SpanIdentityAssumption, IdentityTypeOK'
    PROVE  /\ Depth' = Cardinality(WaitingBatches') /\ Depth' \in Nat
           /\ Cardinality(Receiving') \in Nat /\ Cardinality(Receiving') <= Cardinality(Servers)
<1>1. WaitingBatches' \subseteq Batches /\ Receiving' \subseteq Servers
  BY DEF WaitingBatches, Receiving, IdentityTypeOK
<1> QED BY <1>1, FS_Subset, FS_CardinalityType DEF SpanIdentityAssumption, Depth, WaitingBatches

(* Nothing is added to the queue and nobody begins to receive. *)
LEMMA DepthFalls ==
    ASSUME SpanIdentityAssumption, IdentityTypeOK, IdentityTypeOK', DepthLeft,
           WaitingBatches' \subseteq WaitingBatches, Receiving' \subseteq Receiving
    PROVE  DepthLeft'
<1>1. Cardinality(WaitingBatches') <= Cardinality(WaitingBatches) /\ Cardinality(Receiving') <= Cardinality(Receiving)
  BY Finite, FS_Subset
<1>2. Depth' = Cardinality(WaitingBatches') /\ Depth' \in Nat /\ Cardinality(Receiving') \in Nat
  BY FiniteAfter
<1> QED BY <1>1, <1>2, Finite DEF DepthLeft, SpanIdentityAssumption

LEMMA DepthNext ==
    ASSUME SpanIdentityAssumption, IdentityTypeOK, IdentityTypeOK', DepthLeft, [IdentityNext]_identityVars
    PROVE  DepthLeft'
<1>1. CASE UNCHANGED identityVars
  BY <1>1 DEF identityVars, DepthLeft, Depth, Receiving
<1>2. ASSUME NEW r \in Servers, NEW b \in Batches, Begin(r, b) PROVE DepthLeft'
  <2>1. Depth' = Depth /\ Depth < DepthLimit
    BY <1>2 DEF Begin, Depth
  <2> QED BY <2>1, Finite, FiniteAfter DEF DepthLeft, SpanIdentityAssumption
<1>3. ASSUME NEW r \in Servers,
             \/ \E s \in Spans : ObserveCached(r, s) \/ Select(r, s) \/ SelectFails(r, s)
             \/ Record(r) \/ RecordFails(r)
      PROVE  DepthLeft'
  <2>1. WaitingBatches' = WaitingBatches /\ observing[r].step \in {"observe", "record"}
    BY <1>3 DEF ObserveCached, Select, SelectFails, Record, RecordFails, WaitingBatches
  <2>2. \A q \in Servers \ {r} : observing'[q] = observing[q]
    BY <1>3 DEF ObserveCached, Select, SelectFails, Record, RecordFails, Observed, IdentityTypeOK
  <2>3. Receiving' \subseteq Receiving
    BY <2>1, <2>2 DEF Receiving
  <2> QED BY <2>1, <2>3, DepthFalls
<1>4. ASSUME NEW r \in Servers, AcceptBatch(r) PROVE DepthLeft'
  <2>1. observing[r] \in Observation /\ r \in Receiving
    BY <1>4, NotIdle DEF AcceptBatch, Receiving
  <2>2. WaitingBatches' \subseteq WaitingBatches \cup {observing[r].batch}
    <3>1. ASSUME NEW c \in Batches \ {observing[r].batch} PROVE envelopes'[c] = envelopes[c]
      BY <1>4 DEF AcceptBatch, IdentityTypeOK
    <3>2. backlog' \subseteq backlog \cup {observing[r].batch} /\ backlog' \subseteq Batches
      BY <1>4 DEF AcceptBatch, IdentityTypeOK
    <3> QED BY <3>1, <3>2 DEF WaitingBatches
  <2>3. Receiving' \subseteq Receiving \ {r}
    <3>1. observing'[r].step \in {"drop", "idle"} /\ \A q \in Servers \ {r} : observing'[q] = observing[q]
      <4>1. CASE observing[r].conflict
        <5>1. observing' = [observing EXCEPT ![r] = [observing[r] EXCEPT !.step = "drop"]]
          BY <1>4, <4>1 DEF AcceptBatch, IdentityTypeOK
        <5>2. [observing[r] EXCEPT !.step = "drop"].step = "drop"
          BY <2>1 DEF Observation
        <5> QED BY <5>1, <5>2 DEF IdentityTypeOK
      <4>2. CASE ~observing[r].conflict
        BY <1>4, <4>2 DEF AcceptBatch, IdentityTypeOK, NoBatch
      <4> QED BY <4>1, <4>2
    <3> QED BY <3>1 DEF Receiving
  <2>4. Cardinality(Receiving') <= Cardinality(Receiving) - 1
    <3>1. Cardinality(Receiving \ {r}) = Cardinality(Receiving) - 1 /\ IsFiniteSet(Receiving \ {r})
      BY <2>1, Finite, FS_RemoveElement
    <3> QED BY <2>3, <3>1, FS_Subset
  <2>5. Cardinality(WaitingBatches') <= Cardinality(WaitingBatches) + 1
    <3>1. IsFiniteSet(WaitingBatches \cup {observing[r].batch})
          /\ Cardinality(WaitingBatches \cup {observing[r].batch}) <= Cardinality(WaitingBatches) + 1
      <4>1. IsFiniteSet(WaitingBatches) /\ Cardinality(WaitingBatches) \in Nat
        BY Finite
      <4>2. /\ IsFiniteSet(WaitingBatches \cup {observing[r].batch})
            /\ \/ Cardinality(WaitingBatches \cup {observing[r].batch}) = Cardinality(WaitingBatches)
               \/ Cardinality(WaitingBatches \cup {observing[r].batch}) = Cardinality(WaitingBatches) + 1
        BY <4>1, FS_AddElement
      <4> QED BY <4>1, <4>2
    <3>2. Cardinality(WaitingBatches') <= Cardinality(WaitingBatches \cup {observing[r].batch})
      BY <2>2, <3>1, FS_Subset
    <3>3. Cardinality(WaitingBatches') \in Nat /\ Cardinality(WaitingBatches \cup {observing[r].batch}) \in Nat
      BY <3>1, FiniteAfter, FS_CardinalityType
    <3> QED BY <3>1, <3>2, <3>3, Finite
  <2> QED BY <2>4, <2>5, Finite, FiniteAfter DEF DepthLeft, SpanIdentityAssumption
<1>5. ASSUME NEW r \in Servers, Drop(r) \/ Restart(r) PROVE DepthLeft'
  <2>1. WaitingBatches' \subseteq WaitingBatches
    BY <1>5 DEF Drop, Restart, WaitingBatches
  <2>2. Receiving' \subseteq Receiving
    BY <1>5 DEF Drop, Restart, Receiving, IdentityTypeOK, NoBatch
  <2> QED BY <2>1, <2>2, DepthFalls
<1>6. ASSUME NEW b \in Batches, Drain(b) PROVE DepthLeft'
  <2>1. WaitingBatches' \subseteq WaitingBatches /\ Receiving' = Receiving
    BY <1>6 DEF Drain, WaitingBatches, Receiving, IdentityTypeOK
  <2> QED BY <2>1, DepthFalls
<1> QED BY <1>1, <1>2, <1>3, <1>4, <1>5, <1>6 DEF IdentityNext

-----------------------------------------------------------------------------

(* Every reachable state is typed, for any receivers, spans and batches. *)
THEOREM IdentityTyping == IdentitySpec => []IdentityTypeOK
<1>1. CASE SpanIdentityAssumption
  <2>1. IdentityInit => IdentityInv
    BY <1>1, InitInv
  <2>2. IdentityInv /\ [IdentityNext]_identityVars => IdentityInv'
    BY <1>1, NextKeeps
  <2>3. IdentityInv => IdentityTypeOK
    BY DEF IdentityInv
  <2> QED BY <2>1, <2>2, <2>3, PTL DEF IdentitySpec
<1> QED BY <1>1, SpanIdentityAssumption

(* What one process answered 200 since it started agrees span by span,      *)
(* although the shared table may refuse to answer (SpanIdentityIndex). *)
THEOREM ProcessSelfConsistent == IdentitySpec => []ProcessAgrees
<1>1. CASE SpanIdentityAssumption
  <2>1. IdentityInit => IdentityInv
    BY <1>1, InitInv
  <2>2. IdentityInv /\ [IdentityNext]_identityVars => IdentityInv'
    BY <1>1, NextKeeps
  <2>3. IdentityInv => ProcessAgrees
    BY DEF IdentityInv, AnsweredIsCached, ProcessAgrees, Agree
  <2> QED BY <2>1, <2>2, <2>3, PTL DEF IdentitySpec
<1> QED BY <1>1, SpanIdentityAssumption

(* The queue passes its limit by no more than the receivers that read its   *)
(* depth before the others' batches were accepted (receive_otlp_batch). *)
THEOREM BackpressureHolds == IdentitySpec => []DepthBounded
<1>1. CASE SpanIdentityAssumption
  <2>1. IdentityInit => DepthLeft
    <3> SUFFICES ASSUME IdentityInit PROVE DepthLeft
      OBVIOUS
    <3>1. WaitingBatches = {} /\ Receiving = {} /\ Depth = Cardinality(WaitingBatches)
      BY DEF IdentityInit, WaitingBatches, Receiving, NoBatch, Depth
    <3>2. Depth = 0 /\ Cardinality(Receiving) = 0 /\ Cardinality(Servers) \in Nat
      BY <1>1, <3>1, FS_EmptySet, FS_CardinalityType DEF SpanIdentityAssumption
    <3> QED BY <1>1, <3>2 DEF DepthLeft, SpanIdentityAssumption
  <2>2. IdentityTypeOK /\ IdentityTypeOK' /\ DepthLeft /\ [IdentityNext]_identityVars => DepthLeft'
    BY <1>1, DepthNext
  <2>3. IdentityTypeOK /\ DepthLeft => DepthBounded
    BY <1>1, Finite DEF DepthLeft, DepthBounded, SpanIdentityAssumption
  <2>4. IdentitySpec => []IdentityTypeOK
    BY <1>1, IdentityTyping
  <2> QED BY <2>1, <2>2, <2>3, <2>4, PTL DEF IdentitySpec
<1> QED BY <1>1, SpanIdentityAssumption
=============================================================================
