---------------------------- MODULE OutboxProofs ----------------------------
(***************************************************************************)
(* Proofs about Outbox: its types, that accepted work is never forgotten,  *)
(* that no two workers hold an envelope, and that a claim shares its places *)
(* between the tenants, for any envelopes, tenants, calls, workers and     *)
(* limits.                                                                 *)
(***************************************************************************)
EXTENDS Outbox, FiniteSetTheorems, WellFoundedInduction, TLAPS

(* A worker that is not idle holds an envelope. *)
AtWork == \A w \in Workers : step[w] # "idle" => current[w] \in Envelopes

(* Only tombstoned calls are purged. *)
Purges == purging \subseteq tombstones

OutboxInv == TypeOK /\ AtWork /\ Purges /\ NothingLost

-----------------------------------------------------------------------------
(* The rows that the operations on them leave.                             *)

OutboxTyped == DOMAIN outbox \subseteq Envelopes /\ \A e \in DOMAIN outbox : outbox[e] \in Row

LEMMA PutTyped ==
    ASSUME OutboxTyped, NEW e \in Envelopes, NEW row \in Row
    PROVE  /\ DOMAIN Put(e, row) = Rows \cup {e}
           /\ \A f \in DOMAIN Put(e, row) : Put(e, row)[f] \in Row
  BY DEF OutboxTyped, Put, Rows

LEMMA WithoutTyped ==
    ASSUME OutboxTyped, NEW S
    PROVE  /\ DOMAIN Without(S) = Rows \ S
           /\ \A f \in DOMAIN Without(S) : Without(S)[f] \in Row
<1>1. DOMAIN Without(S) = Rows \ S
  BY DEF Without
<1>2. ASSUME NEW f \in Rows \ S
      PROVE  Without(S)[f] \in Row
  <2>1. Without(S)[f] = [outbox[f] EXCEPT !.older = @ \ S]
    BY DEF Without
  <2>2. outbox[f] \in Row
    BY DEF OutboxTyped, Rows
  <2> QED BY <2>1, <2>2 DEF Row
<1> QED BY <1>1, <1>2

LEMMA EnqueuedTyped ==
    ASSUME OutboxAssumption, OutboxTyped, NEW e \in Envelopes
    PROVE  /\ DOMAIN Enqueued(e) = Rows \cup {e}
           /\ \A f \in DOMAIN Enqueued(e) : Enqueued(e)[f] \in Row
<1> DEFINE row == IF e \in Rows THEN [outbox[e] EXCEPT !.leased = FALSE, !.ready = TRUE]
                  ELSE [attempts |-> 0, leased |-> FALSE, ready |-> TRUE, older |-> Rows]
<1>1. row \in Row
  <2>1. CASE e \in Rows
    <3>1. outbox[e] \in Row
      BY <2>1 DEF OutboxTyped, Rows
    <3> QED BY <2>1, <3>1 DEF Row
  <2>2. CASE e \notin Rows
    BY <2>2 DEF Row, Rows, OutboxTyped, OutboxAssumption
  <2> QED BY <2>1, <2>2
<1>2. Enqueued(e) = Put(e, row)
  BY DEF Enqueued
<1> HIDE DEF row
<1> QED BY <1>1, <1>2, PutTyped

-----------------------------------------------------------------------------
(* The three transactions a worker ends its work with.                     *)

(* What a transaction on the rows leaves typed. *)
RowVarsTyped ==
    /\ estate \in [Envelopes -> EState]
    /\ OutboxTyped
    /\ dlq \subseteq Envelopes

LEMMA MarkAssembledKeeps ==
    ASSUME TypeOK, NEW e \in Envelopes, MarkAssembled(e)
    PROVE  /\ RowVarsTyped'
           /\ NothingLost /\ tombstones \subseteq tombstones' /\ dropped' = dropped => NothingLost'
<1>1. OutboxTyped
  BY DEF TypeOK, OutboxTyped
<1>2. /\ DOMAIN outbox' = Rows \ {e}
      /\ \A f \in DOMAIN outbox' : outbox'[f] \in Row
  BY <1>1, WithoutTyped DEF MarkAssembled
<1>3. estate' \in [Envelopes -> EState] /\ dlq' \subseteq Envelopes
  BY DEF TypeOK, MarkAssembled, EState
<1>4. RowVarsTyped'
  BY <1>2, <1>3, <1>1 DEF RowVarsTyped, OutboxTyped, Rows, Row
<1>5. ASSUME NothingLost, tombstones \subseteq tombstones', dropped' = dropped
      PROVE  NothingLost'
  BY <1>2, <1>5 DEF NothingLost, MarkAssembled, TypeOK, Rows
<1> QED BY <1>4, <1>5

LEMMA MarkFailedKeeps ==
    ASSUME OutboxAssumption, TypeOK, NEW e \in Envelopes, MarkFailed(e)
    PROVE  /\ RowVarsTyped'
           /\ NothingLost /\ tombstones' = tombstones /\ dropped' = dropped => NothingLost'
<1>1. OutboxTyped
  BY DEF TypeOK, OutboxTyped
<1> DEFINE tried == IF e \in Rows THEN outbox[e].attempts + 1 ELSE 0
           retried == [outbox[e] EXCEPT !.attempts = tried, !.leased = FALSE, !.ready = FALSE]
<1>2. /\ estate' \in [Envelopes -> EState]
      /\ dlq \subseteq dlq' /\ dlq' \subseteq Envelopes
      /\ \A f \in Envelopes \ {e} : estate'[f] = estate[f]
  BY DEF TypeOK, MarkFailed, EState
<1>3. CASE tried >= DlqLimit /\ outbox' = Without({e}) /\ dlq' = dlq \cup {e}
  <2>1. /\ DOMAIN outbox' = Rows \ {e}
        /\ \A f \in DOMAIN outbox' : outbox'[f] \in Row
    BY <1>1, <1>3, WithoutTyped
  <2>2. RowVarsTyped'
    BY <2>1, <1>1, <1>2 DEF RowVarsTyped, OutboxTyped, Rows, Row
  <2>3. NothingLost /\ tombstones' = tombstones /\ dropped' = dropped => NothingLost'
    BY <2>1, <1>2, <1>3 DEF NothingLost, Rows
  <2> QED BY <2>2, <2>3
<1>4. CASE ~(tried >= DlqLimit) /\ e \in Rows /\ outbox' = Put(e, retried) /\ dlq' = dlq
  <2>1. retried \in Row
    <3>1. outbox[e] \in Row
      BY <1>1, <1>4 DEF OutboxTyped, Rows
    <3>2. tried \in 0..ClaimLimit
      BY <3>1, <1>4 DEF Row, OutboxAssumption
    <3> HIDE DEF tried
    <3> QED BY <3>1, <3>2 DEF Row
  <2> HIDE DEF retried
  <2>2. /\ DOMAIN outbox' = Rows \cup {e}
        /\ \A f \in DOMAIN outbox' : outbox'[f] \in Row
    BY <1>1, <1>4, <2>1, PutTyped
  <2>3. RowVarsTyped'
    BY <2>2, <1>1, <1>2 DEF RowVarsTyped, OutboxTyped, Rows, Row
  <2>4. NothingLost /\ tombstones' = tombstones /\ dropped' = dropped => NothingLost'
    BY <2>2, <1>2, <1>4 DEF NothingLost, Rows
  <2> QED BY <2>3, <2>4
<1>5. CASE e \notin Rows /\ outbox' = Enqueued(e) /\ dlq' = dlq
  <2>1. /\ DOMAIN outbox' = Rows \cup {e}
        /\ \A f \in DOMAIN outbox' : outbox'[f] \in Row
    BY <1>1, <1>5, EnqueuedTyped
  <2>2. RowVarsTyped'
    BY <2>1, <1>1, <1>2 DEF RowVarsTyped, OutboxTyped, Rows, Row
  <2>3. NothingLost /\ tombstones' = tombstones /\ dropped' = dropped => NothingLost'
    BY <2>1, <1>2, <1>5 DEF NothingLost, Rows
  <2> QED BY <2>2, <2>3
<1> QED BY <1>3, <1>4, <1>5 DEF MarkFailed

LEMMA TombstoneKeeps ==
    ASSUME TypeOK, NEW c \in Calls, TombstoneCall(c)
    PROVE  /\ RowVarsTyped'
           /\ NothingLost /\ dropped' = dropped => NothingLost'
<1>1. OutboxTyped
  BY DEF TypeOK, OutboxTyped
<1>2. /\ DOMAIN outbox' = Rows \ Named(c)
      /\ \A f \in DOMAIN outbox' : outbox'[f] \in Row
  BY <1>1, WithoutTyped DEF TombstoneCall
<1>3. estate' \in [Envelopes -> EState] /\ dlq' \subseteq Envelopes
  BY DEF TypeOK, TombstoneCall, EState
<1>4. RowVarsTyped'
  BY <1>2, <1>3, <1>1 DEF RowVarsTyped, OutboxTyped, Rows, Row
<1>5. ASSUME NothingLost, dropped' = dropped
      PROVE  NothingLost'
  BY <1>2, <1>5 DEF NothingLost, TombstoneCall, TypeOK, Rows, Named
<1> QED BY <1>4, <1>5

-----------------------------------------------------------------------------
(* Every step keeps the invariant.                                         *)

TypedRest ==
    /\ tombstones \subseteq Calls /\ purging \subseteq Calls
    /\ arriving \subseteq Envelopes /\ refused \subseteq Conflicted
    /\ batch \in [Workers -> SUBSET Envelopes]
    /\ current \in [Workers -> Envelopes \cup {NoEnvelope}]
    /\ step \in [Workers -> Steps]
    /\ faults \in 0..MaxFaults
    /\ fails \in [Envelopes -> 0..DlqLimit]
    /\ reopened \subseteq Envelopes /\ dropped \subseteq Envelopes

LEMMA TypeParts == TypeOK <=> RowVarsTyped /\ TypedRest
  BY DEF TypeOK, RowVarsTyped, TypedRest, OutboxTyped

LEMMA TypePartsNext == TypeOK' <=> RowVarsTyped' /\ TypedRest'
  BY DEF TypeOK, RowVarsTyped, TypedRest, OutboxTyped

(* A step that leaves the rows, the tombstones and dropped alone. *)
LEMMA RowsAlone ==
    ASSUME OutboxInv, UNCHANGED rowVars, UNCHANGED tombstones, UNCHANGED dropped
    PROVE  RowVarsTyped' /\ NothingLost'
  BY TypeParts DEF OutboxInv, RowVarsTyped, OutboxTyped, NothingLost, rowVars, Rows, Row

LEMMA FaultTyped ==
    ASSUME OutboxAssumption, TypeOK, Fault
    PROVE  faults' \in 0..MaxFaults
  BY DEF OutboxAssumption, TypeOK, Fault

LEMMA InitInv == OutboxAssumption /\ Init => OutboxInv
<1> SUFFICES ASSUME OutboxAssumption, Init
             PROVE  OutboxInv
  OBVIOUS
<1>1. TypeOK
  BY DEF OutboxAssumption, Init, TypeOK, EState, Steps
<1>2. AtWork /\ Purges /\ NothingLost
  BY DEF Init, AtWork, Purges, NothingLost
<1> QED BY <1>1, <1>2 DEF OutboxInv

(* Receivers. *)
LEMMA ReceiversKeep ==
    ASSUME OutboxAssumption, OutboxInv, NEW e \in Envelopes,
           Look(e) \/ Accept(e) \/ DropConflicting(e) \/ ReceiverDies(e)
    PROVE  OutboxInv'
<1>t. TypeOK /\ RowVarsTyped /\ TypedRest /\ OutboxTyped
  BY TypeParts DEF OutboxInv, RowVarsTyped
<1>1. CASE Look(e)
  <2>1. RowVarsTyped' /\ NothingLost'
    BY <1>1, RowsAlone DEF Look, rowVars, eraseVars
  <2>2. TypedRest'
    BY <1>1, <1>t, FaultTyped DEF Look, TypedRest, eraseVars, workVars
  <2>3. AtWork' /\ Purges'
    BY <1>1 DEF OutboxInv, AtWork, Purges, Look, eraseVars, workVars
  <2> QED BY <2>1, <2>2, <2>3, TypePartsNext DEF OutboxInv
<1>2. CASE Accept(e)
  <2>1. CASE UNCHANGED <<estate, outbox, dropped, refused>>
    <3>1. RowVarsTyped' /\ NothingLost'
      BY <1>2, <2>1, RowsAlone DEF Accept, rowVars, eraseVars
    <3>2. TypedRest'
      BY <1>2, <2>1, <1>t DEF Accept, TypedRest, eraseVars, workVars
    <3>3. AtWork' /\ Purges'
      BY <1>2 DEF OutboxInv, AtWork, Purges, Accept, eraseVars, workVars
    <3> QED BY <3>1, <3>2, <3>3, TypePartsNext DEF OutboxInv
  <2>2. CASE /\ estate' = [estate EXCEPT ![e] = IF @ = "absent" THEN "queued" ELSE @]
             /\ outbox' = Enqueued(e)
             /\ dropped' = dropped \ {e}
             /\ refused' = refused \cup ({e} \cap Conflicted)
    <3>1. /\ DOMAIN outbox' = Rows \cup {e}
          /\ \A f \in DOMAIN outbox' : outbox'[f] \in Row
      BY <1>t, <2>2, EnqueuedTyped
    <3>2. RowVarsTyped'
      BY <3>1, <1>t, <1>2, <2>2 DEF RowVarsTyped, OutboxTyped, Rows, Row, EState, Accept
    <3>3. NothingLost'
      BY <3>1, <1>t, <1>2, <2>2 DEF OutboxInv, NothingLost, Rows, Accept, eraseVars, RowVarsTyped
    <3>4. TypedRest'
      BY <1>2, <2>2, <1>t DEF Accept, TypedRest, eraseVars, workVars
    <3>5. AtWork' /\ Purges'
      BY <1>2 DEF OutboxInv, AtWork, Purges, Accept, eraseVars, workVars
    <3> QED BY <3>2, <3>3, <3>4, <3>5, TypePartsNext DEF OutboxInv
  <2> QED BY <1>2, <2>1, <2>2 DEF Accept
<1>3. CASE DropConflicting(e)
  <2>1. /\ DOMAIN outbox' = Rows \ {e}
        /\ \A f \in DOMAIN outbox' : outbox'[f] \in Row
    BY <1>t, <1>3, WithoutTyped DEF DropConflicting
  <2>2. RowVarsTyped'
    BY <2>1, <1>t, <1>3 DEF RowVarsTyped, OutboxTyped, Rows, Row, DropConflicting
  <2>3. NothingLost'
    BY <2>1, <1>3 DEF OutboxInv, NothingLost, Rows, DropConflicting, eraseVars
  <2>4. TypedRest'
    BY <1>3, <1>t DEF DropConflicting, TypedRest, eraseVars, workVars
  <2>5. AtWork' /\ Purges'
    BY <1>3 DEF OutboxInv, AtWork, Purges, DropConflicting, eraseVars, workVars
  <2> QED BY <2>2, <2>3, <2>4, <2>5, TypePartsNext DEF OutboxInv
<1>4. CASE ReceiverDies(e)
  <2>1. RowVarsTyped' /\ NothingLost'
    BY <1>4, RowsAlone DEF ReceiverDies, rowVars, eraseVars
  <2>2. TypedRest'
    BY <1>4, <1>t, FaultTyped DEF ReceiverDies, TypedRest, eraseVars, workVars
  <2>3. AtWork' /\ Purges'
    BY <1>4 DEF OutboxInv, AtWork, Purges, ReceiverDies, eraseVars, workVars
  <2> QED BY <2>1, <2>2, <2>3, TypePartsNext DEF OutboxInv
<1> QED BY <1>1, <1>2, <1>3, <1>4

(* A worker moves on, or is done with its envelope. *)
LEMMA WorkerMoves ==
    ASSUME OutboxInv, NEW w \in Workers, NEW label \in Steps,
           step[w] # "idle", Goto(w, label) \/ Finish(w)
    PROVE  /\ batch' \in [Workers -> SUBSET Envelopes]
           /\ current' \in [Workers -> Envelopes \cup {NoEnvelope}]
           /\ step' \in [Workers -> Steps]
           /\ AtWork'
  BY DEF OutboxInv, TypeOK, AtWork, Goto, Finish, Steps

(* The looks at the tombstones: each finds one and tombstones the call again, *)
(* moves on, or, for a batch whose trace is not complete, marks it.         *)
LEMMA LooksKeep ==
    ASSUME OutboxAssumption, OutboxInv, NEW w \in Workers, Gate(w) \/ Decode(w) \/ Check(w)
    PROVE  OutboxInv'
<1> DEFINE e == current[w]
<1>t. /\ TypeOK /\ RowVarsTyped /\ TypedRest /\ NothingLost /\ Purges
      /\ step[w] # "idle" /\ e \in Envelopes
      /\ UNCHANGED <<purging, receiveVars, history>>
  BY TypeParts DEF OutboxInv, AtWork, Gate, Decode, Check
<1>c. Call[e] \in Calls
  BY <1>t DEF OutboxAssumption
<1>1. CASE TombstoneCall(Call[e]) /\ Finish(w)
  <2>1. RowVarsTyped' /\ NothingLost'
    BY <1>t, <1>c, <1>1, TombstoneKeeps DEF history
  <2>2. TypedRest' /\ AtWork'
    BY <1>t, <1>c, <1>1, WorkerMoves DEF TypedRest, TombstoneCall, receiveVars, history, Steps
  <2>3. Purges'
    BY <1>t, <1>1 DEF Purges, TombstoneCall
  <2> QED BY <2>1, <2>2, <2>3, TypePartsNext DEF OutboxInv
<1>2. CASE (Goto(w, "decode") \/ Goto(w, "check") \/ Goto(w, "mark")) /\ UNCHANGED <<rowVars, tombstones>>
  <2>1. RowVarsTyped' /\ NothingLost'
    BY <1>t, <1>2, RowsAlone DEF history
  <2>2. TypedRest' /\ AtWork'
    BY <1>t, <1>2, WorkerMoves DEF TypedRest, receiveVars, history, Steps
  <2>3. Purges'
    BY <1>t, <1>2 DEF Purges
  <2> QED BY <2>1, <2>2, <2>3, TypePartsNext DEF OutboxInv
<1>3. CASE MarkAssembled(e) /\ Finish(w) /\ UNCHANGED tombstones
  <2>1. RowVarsTyped' /\ NothingLost'
    BY <1>t, <1>3, MarkAssembledKeeps DEF history
  <2>2. TypedRest' /\ AtWork'
    BY <1>t, <1>3, WorkerMoves DEF TypedRest, receiveVars, history, Steps
  <2>3. Purges'
    BY <1>t, <1>3 DEF Purges
  <2> QED BY <2>1, <2>2, <2>3, TypePartsNext DEF OutboxInv
<1> QED BY <1>1, <1>2, <1>3 DEF Gate, Decode, Check

LEMMA WorkersKeep ==
    ASSUME OutboxAssumption, OutboxInv, NEW w \in Workers,
           Work(w) \/ Abandon(w) \/ Crash(w)
    PROVE  OutboxInv'
<1>t. TypeOK /\ RowVarsTyped /\ TypedRest /\ OutboxTyped /\ NothingLost /\ Purges /\ AtWork
  BY TypeParts DEF OutboxInv, RowVarsTyped
<1>1. CASE Claim(w)
  <2>1. /\ DOMAIN outbox' = Rows
        /\ \A f \in Rows : outbox'[f] \in Row
    <3>1. DOMAIN outbox' = Rows
      BY <1>1 DEF Claim
    <3>2. ASSUME NEW f \in Rows
          PROVE  outbox'[f] \in Row
      <4>1. outbox[f] \in Row
        BY <1>t DEF OutboxTyped, Rows
      <4>2. CASE f \in Ranked
        <5>1. outbox[f].attempts < ClaimLimit
          BY <4>2 DEF Ranked, Claimable
        <5>2. outbox'[f] = [outbox[f] EXCEPT !.leased = TRUE, !.attempts = @ + 1]
          BY <1>1, <4>2 DEF Claim
        <5>3. outbox[f].attempts + 1 \in 0..ClaimLimit
          BY <4>1, <5>1 DEF Row, OutboxAssumption
        <5> QED BY <4>1, <5>2, <5>3 DEF Row
      <4>3. CASE f \notin Ranked
        BY <1>1, <4>1, <4>3 DEF Claim
      <4> QED BY <4>2, <4>3
    <3> QED BY <3>1, <3>2
  <2>2. RowVarsTyped' /\ NothingLost'
    BY <1>t, <1>1, <2>1 DEF RowVarsTyped, OutboxTyped, NothingLost, Rows, Row, Claim, eraseVars, history
  <2>3. Ranked \subseteq Envelopes
    BY <1>t DEF Ranked, Claimable, OutboxTyped, Rows
  <2>4. TypedRest'
    BY <1>t, <1>1, <2>3 DEF TypedRest, Claim, eraseVars, receiveVars, history
  <2>5. AtWork' /\ Purges'
    BY <1>t, <1>1 DEF AtWork, Purges, Claim, eraseVars
  <2> QED BY <2>2, <2>4, <2>5, TypePartsNext DEF OutboxInv
<1>2. ASSUME NEW e \in Envelopes, Take(w, e)
      PROVE  OutboxInv'
  <2>1. RowVarsTyped' /\ NothingLost'
    BY <1>2, RowsAlone DEF Take, eraseVars, history
  <2>2. TypedRest'
    BY <1>t, <1>2 DEF TypedRest, Take, eraseVars, receiveVars, history, Steps
  <2>3. AtWork' /\ Purges'
    BY <1>t, <1>2 DEF AtWork, Purges, Take, TypedRest, eraseVars
  <2> QED BY <2>1, <2>2, <2>3, TypePartsNext DEF OutboxInv
<1>3. CASE Mark(w)
  <2>1. step[w] # "idle" /\ current[w] \in Envelopes
    BY <1>t, <1>3 DEF Mark, AtWork
  <2>2. RowVarsTyped' /\ NothingLost'
    BY <1>t, <1>3, <2>1, MarkAssembledKeeps DEF Mark, eraseVars, history
  <2>3. TypedRest' /\ AtWork'
    BY <1>t, <1>3, <2>1, WorkerMoves DEF Mark, TypedRest, eraseVars, receiveVars, history, Steps
  <2>4. Purges'
    BY <1>t, <1>3 DEF Mark, Purges, eraseVars
  <2> QED BY <2>2, <2>3, <2>4, TypePartsNext DEF OutboxInv
<1>4. CASE Fail(w)
  <2>1. step[w] # "idle" /\ current[w] \in Envelopes
    BY <1>t, <1>4 DEF Fail, AtWork
  <2>2. RowVarsTyped' /\ NothingLost'
    BY <1>t, <1>4, <2>1, MarkFailedKeeps DEF Fail, eraseVars
  <2>3. fails' \in [Envelopes -> 0..DlqLimit]
    BY <1>t, <1>4, <2>1 DEF Fail, TypedRest, OutboxAssumption
  <2>4. TypedRest' /\ AtWork'
    BY <1>t, <1>4, <2>1, <2>3, WorkerMoves DEF Fail, TypedRest, eraseVars, receiveVars, Steps
  <2>5. Purges'
    BY <1>t, <1>4 DEF Fail, Purges, eraseVars
  <2> QED BY <2>2, <2>4, <2>5, TypePartsNext DEF OutboxInv
<1>5. CASE Abandon(w)
  <2>1. RowVarsTyped' /\ NothingLost'
    BY <1>5, RowsAlone DEF Abandon, eraseVars
  <2>2. TypedRest' /\ AtWork'
    BY <1>t, <1>5, FaultTyped, WorkerMoves DEF Abandon, TypedRest, eraseVars, receiveVars, Steps
  <2>3. Purges'
    BY <1>t, <1>5 DEF Abandon, Purges, eraseVars
  <2> QED BY <2>1, <2>2, <2>3, TypePartsNext DEF OutboxInv
<1>6. CASE Crash(w)
  <2>1. RowVarsTyped' /\ NothingLost'
    BY <1>6, RowsAlone DEF Crash, eraseVars
  <2>2. TypedRest'
    BY <1>t, <1>6, FaultTyped DEF Crash, TypedRest, eraseVars, receiveVars, Steps
  <2>3. AtWork' /\ Purges'
    BY <1>t, <1>6 DEF Crash, AtWork, Purges, TypedRest, eraseVars
  <2> QED BY <2>1, <2>2, <2>3, TypePartsNext DEF OutboxInv
<1> QED BY <1>1, <1>2, <1>3, <1>4, <1>5, <1>6, LooksKeep DEF Work

(* Time and operators. *)
LEMMA ClocksKeep ==
    ASSUME OutboxAssumption, OutboxInv, NEW e \in Envelopes,
           LeaseExpires(e) \/ BackoffPasses(e)
    PROVE  OutboxInv'
<1>t. TypeOK /\ RowVarsTyped /\ TypedRest /\ OutboxTyped /\ NothingLost /\ Purges /\ AtWork
  BY TypeParts DEF OutboxInv, RowVarsTyped
<1>1. /\ e \in Rows /\ outbox[e] \in Row
      /\ \/ outbox' = [outbox EXCEPT ![e].leased = FALSE]
         \/ outbox' = [outbox EXCEPT ![e].ready = TRUE]
  BY <1>t DEF LeaseExpires, BackoffPasses, OutboxTyped, Rows
<1>2. DOMAIN outbox' = Rows /\ \A f \in Rows : outbox'[f] \in Row
  <2>1. DOMAIN outbox' = Rows
    BY <1>1 DEF Rows
  <2>2. ASSUME NEW f \in Rows
        PROVE  outbox'[f] \in Row
    <3>1. outbox[f] \in Row
      BY <1>t DEF OutboxTyped, Rows
    <3>2. \/ outbox'[f] = outbox[f]
          \/ outbox'[f] = [outbox[f] EXCEPT !.leased = FALSE]
          \/ outbox'[f] = [outbox[f] EXCEPT !.ready = TRUE]
      BY <1>1 DEF Rows
    <3> QED BY <3>1, <3>2 DEF Row
  <2> QED BY <2>1, <2>2
<1>3. UNCHANGED <<estate, dlq, eraseVars, receiveVars, workVars, fails, dropped>>
  BY DEF LeaseExpires, BackoffPasses, history
<1>4. RowVarsTyped' /\ NothingLost'
  BY <1>t, <1>2, <1>3 DEF RowVarsTyped, OutboxTyped, NothingLost, Rows, Row, eraseVars
<1>5. faults' \in 0..MaxFaults /\ reopened' \subseteq Envelopes
  BY <1>t, FaultTyped DEF LeaseExpires, BackoffPasses, TypedRest, history
<1>6. TypedRest'
  BY <1>t, <1>3, <1>5 DEF TypedRest, eraseVars, receiveVars, workVars
<1>7. AtWork' /\ Purges'
  BY <1>t, <1>3 DEF AtWork, Purges, eraseVars, workVars
<1> QED BY <1>4, <1>6, <1>7, TypePartsNext DEF OutboxInv

LEMMA ErasersKeep ==
    ASSUME OutboxAssumption, OutboxInv, NEW c \in Calls, DeleteCall(c) \/ PurgeQueues(c)
    PROVE  OutboxInv'
<1>t. TypeOK /\ RowVarsTyped /\ TypedRest /\ OutboxTyped /\ NothingLost /\ Purges /\ AtWork
  BY TypeParts DEF OutboxInv, RowVarsTyped
<1>1. CASE DeleteCall(c)
  <2>1. RowVarsTyped' /\ NothingLost'
    BY <1>t, <1>1, TombstoneKeeps DEF DeleteCall, history
  <2>2. TypedRest' /\ Purges'
    BY <1>t, <1>1 DEF TypedRest, Purges, DeleteCall, TombstoneCall, receiveVars, workVars, history
  <2>3. AtWork'
    BY <1>t, <1>1 DEF AtWork, DeleteCall, workVars
  <2> QED BY <2>1, <2>2, <2>3, TypePartsNext DEF OutboxInv
<1>2. CASE PurgeQueues(c)
  <2>1. /\ DOMAIN outbox' = Rows \ Named(c)
        /\ \A f \in DOMAIN outbox' : outbox'[f] \in Row
    BY <1>t, <1>2, WithoutTyped DEF PurgeQueues
  <2>2. RowVarsTyped'
    BY <2>1, <1>t, <1>2 DEF RowVarsTyped, OutboxTyped, Rows, Row, PurgeQueues
  <2>3. c \in tombstones
    BY <1>t, <1>2 DEF PurgeQueues, Purges
  <2>4. NothingLost'
    BY <2>1, <2>3, <1>t, <1>2 DEF NothingLost, Rows, Named, PurgeQueues, history
  <2>5. TypedRest' /\ Purges'
    BY <1>t, <1>2 DEF TypedRest, Purges, PurgeQueues, receiveVars, workVars, history
  <2>6. AtWork'
    BY <1>t, <1>2 DEF AtWork, PurgeQueues, workVars
  <2> QED BY <2>2, <2>4, <2>5, <2>6, TypePartsNext DEF OutboxInv
<1> QED BY <1>1, <1>2

LEMMA RequeueKeeps ==
    ASSUME OutboxAssumption, OutboxInv, NEW e \in Envelopes, Requeue(e)
    PROVE  OutboxInv'
<1>t. TypeOK /\ RowVarsTyped /\ TypedRest /\ OutboxTyped /\ NothingLost /\ Purges /\ AtWork
  BY TypeParts DEF OutboxInv, RowVarsTyped
<1>1. /\ DOMAIN outbox' = Rows \cup {e}
      /\ \A f \in DOMAIN outbox' : outbox'[f] \in Row
  BY <1>t, EnqueuedTyped DEF Requeue
<1>2. RowVarsTyped'
  BY <1>1, <1>t DEF RowVarsTyped, OutboxTyped, Rows, Row, EState, Requeue
<1>3. NothingLost'
  BY <1>1, <1>t DEF NothingLost, Rows, Requeue, eraseVars, RowVarsTyped
<1>4. TypedRest'
  BY <1>t, FaultTyped DEF TypedRest, Requeue, eraseVars, receiveVars, workVars
<1>5. AtWork' /\ Purges'
  BY <1>t DEF AtWork, Purges, Requeue, eraseVars, workVars
<1> QED BY <1>2, <1>3, <1>4, <1>5, TypePartsNext DEF OutboxInv

LEMMA PurgeDlqKeeps ==
    ASSUME OutboxAssumption, OutboxInv, NEW o \in Orgs, PurgeDlq(o)
    PROVE  OutboxInv'
<1>t. TypeOK /\ RowVarsTyped /\ TypedRest /\ OutboxTyped /\ NothingLost /\ Purges /\ AtWork
  BY TypeParts DEF OutboxInv, RowVarsTyped
<1>1. RowVarsTyped'
  BY <1>t DEF RowVarsTyped, OutboxTyped, Rows, Row, PurgeDlq
<1>2. NothingLost'
  BY <1>t DEF NothingLost, Rows, PurgeDlq, eraseVars
<1>3. TypedRest'
  BY <1>t, FaultTyped DEF TypedRest, RowVarsTyped, PurgeDlq, eraseVars, receiveVars, workVars
<1>4. AtWork' /\ Purges'
  BY <1>t DEF AtWork, Purges, PurgeDlq, eraseVars, workVars
<1> QED BY <1>1, <1>2, <1>3, <1>4, TypePartsNext DEF OutboxInv

LEMMA StutterKeeps ==
    ASSUME OutboxInv, UNCHANGED vars
    PROVE  OutboxInv'
<1>t. TypeOK /\ TypedRest /\ AtWork /\ Purges
  BY TypeParts DEF OutboxInv
<1>1. RowVarsTyped' /\ NothingLost'
  BY RowsAlone DEF vars, eraseVars, history
<1>2. TypedRest'
  BY <1>t DEF TypedRest, vars, eraseVars, receiveVars, workVars, history
<1>3. AtWork' /\ Purges'
  BY <1>t DEF AtWork, Purges, vars, eraseVars, workVars
<1> QED BY <1>1, <1>2, <1>3, TypePartsNext DEF OutboxInv

LEMMA NextKeeps ==
    ASSUME OutboxAssumption, OutboxInv, [Next]_vars
    PROVE  OutboxInv'
<1>1. ASSUME NEW w \in Workers, Work(w) \/ Abandon(w) \/ Crash(w)
      PROVE  OutboxInv'
  BY <1>1, WorkersKeep
<1>2. ASSUME NEW e \in Envelopes, Look(e) \/ Accept(e) \/ DropConflicting(e) \/ ReceiverDies(e)
      PROVE  OutboxInv'
  BY <1>2, ReceiversKeep
<1>3. ASSUME NEW e \in Envelopes, LeaseExpires(e) \/ BackoffPasses(e)
      PROVE  OutboxInv'
  BY <1>3, ClocksKeep
<1>4. ASSUME NEW e \in Envelopes, Requeue(e)
      PROVE  OutboxInv'
  BY <1>4, RequeueKeeps
<1>5. ASSUME NEW c \in Calls, DeleteCall(c) \/ PurgeQueues(c)
      PROVE  OutboxInv'
  BY <1>5, ErasersKeep
<1>6. ASSUME NEW o \in Orgs, PurgeDlq(o)
      PROVE  OutboxInv'
  BY <1>6, PurgeDlqKeeps
<1>7. CASE UNCHANGED vars
  BY <1>7, StutterKeeps
<1> QED BY <1>1, <1>2, <1>3, <1>4, <1>5, <1>6, <1>7 DEF Next

(* The invariant holds of every behaviour of receivers, workers, replays,   *)
(* deletions and operators.                                                 *)
THEOREM OutboxInductive == Spec => []OutboxInv
<1>1. Init => OutboxInv
  BY InitInv, OutboxAssumption
<1>2. OutboxInv /\ [Next]_vars => OutboxInv'
  BY NextKeeps, OutboxAssumption
<1> QED BY <1>1, <1>2, PTL DEF Spec

(* Every variable keeps its type.  In particular no row of the outbox is    *)
(* claimed more often than claim_outbox's bound on the attempts allows,     *)
(* which mark_failed's own increment relies on to stay under it as well.    *)
THEOREM OutboxTyping == Spec => []TypeOK
<1>1. OutboxInv => TypeOK
  BY DEF OutboxInv
<1> QED BY <1>1, OutboxInductive, PTL

(* An accepted envelope is never forgotten: until it is assembled or its    *)
(* call is deleted, an outbox row or a dead letter asks for it, whatever    *)
(* the interleaving of accept, claim_outbox, mark_assembled, mark_failed,   *)
(* requeue, tombstone and the purges, and whichever process dies.           *)
THEOREM NothingForgotten == Spec => []NothingLost
<1>1. OutboxInv => NothingLost
  BY DEF OutboxInv
<1> QED BY <1>1, OutboxInductive, PTL

-----------------------------------------------------------------------------
(* Who holds an envelope.  Uniqueness alone is not inductive: a claim keeps *)
(* it because what is held has a lease, which a step that takes the lease   *)
(* away under its holder, or lets a second delivery in, records in reopened. *)

(* What was not accepted has no row and no holder. *)
Unborn(e) == estate[e] = "absent" => e \notin Rows /\ Holders(e) = {}

Exclusive(e) ==
    /\ \A v, w \in Holders(e) : v = w
    /\ \A w \in Workers : ~(e \in batch[w] /\ current[w] = e)
    /\ e \in Rows /\ Holders(e) # {} => outbox[e].leased
    /\ e \in arriving => estate[e] = "absent"

Held(e) == Unborn(e) /\ (e \notin reopened => Exclusive(e))

HolderInv == \A e \in Envelopes : Held(e)

(* A step that neither enqueues an envelope nor hands it to a worker. *)
RowCalm(e) == e \in Rows' => e \in Rows /\ (outbox[e].leased => outbox'[e].leased)
HoldersCalm(e) ==
    \A w \in Workers : (e \in batch'[w] => e \in batch[w]) /\ (current'[w] = e => current[w] = e)
StateCalm(e) ==
    /\ estate'[e] = "absent" <=> estate[e] = "absent"
    /\ e \in arriving' => e \in arriving
    /\ reopened \subseteq reopened'
Calm(e) == RowCalm(e) /\ HoldersCalm(e) /\ StateCalm(e)

LEMMA CalmKeeps ==
    ASSUME NEW e \in Envelopes, Held(e), Calm(e)
    PROVE  Held(e)'
  BY DEF Held, Unborn, Exclusive, Calm, RowCalm, HoldersCalm, StateCalm, Holders

(* Taking rows out disturbs no other row's lease. *)
LEMMA WithoutCalm ==
    ASSUME OutboxTyped, NEW S, NEW e, outbox' = Without(S)
    PROVE  RowCalm(e)
<1>1. CASE e \in Rows \ S
  <2>1. outbox[e] \in Row /\ outbox'[e] = [outbox[e] EXCEPT !.older = @ \ S]
    BY <1>1 DEF Without, OutboxTyped, Rows
  <2>2. outbox'[e].leased = outbox[e].leased
    BY <2>1 DEF Row
  <2> QED BY <1>1, <2>2 DEF RowCalm
<1>2. CASE e \notin Rows \ S
  BY <1>2 DEF Without, RowCalm, Rows
<1> QED BY <1>1, <1>2

(* A worker that is done holds no more of its envelope; what it did to the  *)
(* row of that one matters to no other.                                     *)
LEMMA DoneKeeps ==
    ASSUME OutboxAssumption, TypeOK, HolderInv, NEW w \in Workers,
           current[w] \in Envelopes, Finish(w),
           estate'[current[w]] # "absent",
           UNCHANGED <<arriving, reopened>>,
           \A f \in Envelopes \ {current[w]} : RowCalm(f) /\ estate'[f] = estate[f]
    PROVE  HolderInv'
<1>0. PICK e \in Envelopes : e = current[w]
  OBVIOUS
<1>1. /\ batch' = batch
      /\ current' = [current EXCEPT ![w] = NoEnvelope]
      /\ current \in [Workers -> Envelopes \cup {NoEnvelope}]
      /\ NoEnvelope \notin Envelopes
  BY DEF Finish, OutboxAssumption, TypeOK
<1>2. ASSUME NEW f \in Envelopes \ {e}
      PROVE  Held(f)'
  BY <1>0, <1>1, <1>2, CalmKeeps DEF HolderInv, Calm, HoldersCalm, StateCalm
<1>3. Held(e)'
  <2>1. ASSUME e \notin reopened
        PROVE  Exclusive(e)'
    <3>1. Exclusive(e) /\ w \in Holders(e) /\ Unborn(e)
      BY <1>0, <2>1 DEF HolderInv, Held, Holders
    <3>2. \A v \in Workers : e \notin batch[v] /\ (current[v] = e => v = w)
      BY <1>0, <3>1 DEF Exclusive, Holders
    <3>3. \A v \in Workers : e \notin batch'[v] /\ current'[v] # e
      BY <1>0, <1>1, <3>2
    <3>4. e \notin arriving
      BY <3>1 DEF Exclusive, Unborn
    <3> QED BY <3>3, <3>4 DEF Exclusive, Holders
  <2> QED BY <1>0, <2>1 DEF Held, Unborn
<1> QED BY <1>0, <1>2, <1>3 DEF HolderInv

(* Tombstoning a call only takes rows out. *)
LEMMA TombstoneCalm ==
    ASSUME TypeOK, NEW c, NEW e \in Envelopes, TombstoneCall(c), UNCHANGED <<arriving, reopened>>
    PROVE  RowCalm(e) /\ StateCalm(e)
  BY WithoutCalm DEF TombstoneCall, StateCalm, TypeOK, OutboxTyped

(* Receivers. *)
LEMMA ReceiversHold ==
    ASSUME OutboxAssumption, TypeOK, HolderInv, NEW e \in Envelopes,
           Look(e) \/ Accept(e) \/ DropConflicting(e) \/ ReceiverDies(e)
    PROVE  HolderInv'
<1>t. OutboxTyped /\ estate \in [Envelopes -> EState]
  BY DEF TypeOK, OutboxTyped
<1>w. batch' = batch /\ current' = current
  BY DEF Look, Accept, DropConflicting, ReceiverDies, workVars
<1>1. CASE Look(e)
  <2>1. ASSUME NEW f \in Envelopes \ {e}
        PROVE  Held(f)'
    <3>1. Calm(f)
      BY <1>1, <1>w DEF Look, Calm, RowCalm, HoldersCalm, StateCalm, Rows, rowVars
    <3> QED BY <3>1, CalmKeeps DEF HolderInv
  <2>2. Held(e)'
    BY <1>1, <1>w DEF Look, HolderInv, Held, Unborn, Exclusive, Rows, Holders, rowVars
  <2> QED BY <2>1, <2>2 DEF HolderInv
<1>2. CASE Accept(e) /\ UNCHANGED <<estate, outbox>>
  <2>1. \A f \in Envelopes : Calm(f)
    BY <1>2, <1>w DEF Accept, Calm, RowCalm, HoldersCalm, StateCalm, Rows
  <2> QED BY <2>1, CalmKeeps DEF HolderInv
<1>3. CASE /\ Accept(e)
           /\ estate' = [estate EXCEPT ![e] = IF @ = "absent" THEN "queued" ELSE @]
           /\ outbox' = Enqueued(e)
  <2>1. ASSUME NEW f \in Envelopes \ {e}
        PROVE  Held(f)'
    <3>1. Calm(f)
      BY <1>3, <1>w, <1>t DEF Accept, Enqueued, Put, Calm, RowCalm, HoldersCalm, StateCalm, Rows
    <3> QED BY <3>1, CalmKeeps DEF HolderInv
  <2>2. estate'[e] # "absent"
    BY <1>3, <1>t
  <2>3. ASSUME e \notin reopened
        PROVE  Exclusive(e)'
    <3>1. Holders(e) = {}
      BY <1>3, <2>3 DEF Accept, HolderInv, Held, Unborn, Exclusive
    <3> QED BY <3>1, <1>3, <1>w DEF Accept, Exclusive, Holders
  <2>4. reopened' = reopened
    BY <1>3 DEF Accept
  <2> QED BY <2>1, <2>2, <2>3, <2>4 DEF HolderInv, Held, Unborn
<1>4. CASE DropConflicting(e)
  <2>1. \A f \in Envelopes : Calm(f)
    BY <1>4, <1>w, <1>t, WithoutCalm DEF DropConflicting, Calm, HoldersCalm, StateCalm
  <2> QED BY <2>1, CalmKeeps DEF HolderInv
<1>5. CASE ReceiverDies(e)
  <2>1. \A f \in Envelopes : Calm(f)
    BY <1>5, <1>w DEF ReceiverDies, Calm, RowCalm, HoldersCalm, StateCalm, Rows, rowVars
  <2> QED BY <2>1, CalmKeeps DEF HolderInv
<1> QED BY <1>1, <1>2, <1>3, <1>4, <1>5 DEF Accept

(* Workers.  A claim takes rows without a lease, hence without a holder. *)
LEMMA ClaimHolds ==
    ASSUME OutboxAssumption, TypeOK, HolderInv, NEW w \in Workers, Claim(w)
    PROVE  HolderInv'
<1>t. OutboxTyped /\ batch \in [Workers -> SUBSET Envelopes]
  BY DEF TypeOK, OutboxTyped
<1>s. UNCHANGED <<estate, arriving, reopened, current>> /\ Rows' = Rows
  BY DEF Claim, receiveVars, history, Rows
<1>1. ASSUME NEW e \in Envelopes, e \notin Ranked
      PROVE  Held(e)'
  <2>1. Calm(e)
    BY <1>1, <1>t, <1>s DEF Claim, Calm, RowCalm, HoldersCalm, StateCalm, Rows
  <2> QED BY <2>1, CalmKeeps DEF HolderInv
<1>2. ASSUME NEW e \in Ranked, e \in Envelopes
      PROVE  Held(e)'
  <2>1. e \in Rows /\ ~outbox[e].leased /\ outbox[e] \in Row
    BY <1>t DEF Ranked, Claimable, OutboxTyped, Rows
  <2>2. estate[e] # "absent"
    BY <2>1, <1>2 DEF HolderInv, Held, Unborn
  <2>3. ASSUME e \notin reopened
        PROVE  Exclusive(e)'
    <3>1. Holders(e) = {} /\ e \notin arriving
      BY <1>2, <2>1, <2>2, <2>3 DEF HolderInv, Held, Exclusive
    <3>2. \A v \in Workers : current[v] # e /\ e \notin batch[v]
      BY <3>1 DEF Holders
    <3>3. \A v \in Workers : current'[v] # e /\ (e \in batch'[v] => v = w)
      BY <3>2, <1>s, <1>t DEF Claim
    <3>4. outbox'[e].leased
      <4>1. outbox'[e] = [outbox[e] EXCEPT !.leased = TRUE, !.attempts = @ + 1]
        BY <1>2, <2>1 DEF Claim
      <4> QED BY <4>1, <2>1 DEF Row
    <3> QED BY <3>1, <3>3, <3>4, <1>s DEF Exclusive, Holders
  <2> QED BY <2>2, <2>3, <1>s DEF Held, Unborn
<1> QED BY <1>1, <1>2 DEF HolderInv

LEMMA TakeHolds ==
    ASSUME OutboxAssumption, TypeOK, HolderInv, NEW w \in Workers, NEW e \in Envelopes, Take(w, e)
    PROVE  HolderInv'
<1>s. /\ UNCHANGED <<estate, outbox, arriving, reopened>> /\ Rows' = Rows
      /\ batch' = [batch EXCEPT ![w] = @ \ {e}] /\ e \in batch[w]
      /\ current' = current \/ current' = [current EXCEPT ![w] = e]
      /\ batch \in [Workers -> SUBSET Envelopes]
      /\ current \in [Workers -> Envelopes \cup {NoEnvelope}]
  BY DEF Take, rowVars, receiveVars, history, Rows, TypeOK
<1>1. ASSUME NEW f \in Envelopes \ {e}
      PROVE  Held(f)'
  <2>1. Calm(f)
    BY <1>s DEF Calm, RowCalm, HoldersCalm, StateCalm
  <2> QED BY <2>1, CalmKeeps DEF HolderInv
<1>2. Holders(e)' \subseteq Holders(e)
  BY <1>s DEF Holders
<1>3. \A v \in Workers : e \in batch'[v] /\ current'[v] = e => e \in batch[v] /\ current[v] = e
  BY <1>s
<1>4. Held(e)'
  BY <1>s, <1>2, <1>3 DEF HolderInv, Held, Unborn, Exclusive
<1> QED BY <1>1, <1>4 DEF HolderInv

(* The looks at the tombstones, the mark, the failure. *)
LEMMA StepsHold ==
    ASSUME OutboxAssumption, TypeOK, AtWork, HolderInv, NEW w \in Workers,
           Gate(w) \/ Decode(w) \/ Check(w) \/ Mark(w) \/ Fail(w)
    PROVE  HolderInv'
<1>0. PICK e \in Envelopes : e = current[w]
  BY DEF AtWork, Gate, Decode, Check, Mark, Fail
<1>t. /\ OutboxTyped /\ estate \in [Envelopes -> EState]
      /\ estate[e] # "absent"
  BY <1>0 DEF TypeOK, OutboxTyped, HolderInv, Held, Unborn, Holders
<1>u. UNCHANGED <<arriving, reopened>>
  BY DEF Gate, Decode, Check, Mark, Fail, receiveVars, history
<1>1. CASE TombstoneCall(Call[e]) /\ Finish(w)
  <2>1. \A f \in Envelopes : Calm(f)
    <3>1. \A f \in Envelopes : HoldersCalm(f)
      BY <1>1 DEF Finish, HoldersCalm, OutboxAssumption, TypeOK
    <3> QED BY <3>1, <1>1, <1>u, TombstoneCalm DEF Calm
  <2> QED BY <2>1, CalmKeeps DEF HolderInv
<1>2. CASE (Goto(w, "decode") \/ Goto(w, "check") \/ Goto(w, "mark")) /\ UNCHANGED rowVars
  <2>1. \A f \in Envelopes : Calm(f)
    BY <1>2, <1>u DEF Goto, Calm, RowCalm, HoldersCalm, StateCalm, Rows, rowVars
  <2> QED BY <2>1, CalmKeeps DEF HolderInv
<1>3. CASE MarkAssembled(e) /\ Finish(w)
  <2>1. estate'[e] = "assembled" /\ \A f \in Envelopes \ {e} : estate'[f] = estate[f]
    BY <1>3, <1>t DEF MarkAssembled
  <2>2. \A f \in Envelopes : RowCalm(f)
    BY <1>3, <1>t, WithoutCalm DEF MarkAssembled
  <2> QED BY <1>0, <1>3, <1>u, <2>1, <2>2, DoneKeeps
<1>4. CASE MarkFailed(e) /\ Finish(w)
  <2>1. estate'[e] # "absent" /\ \A f \in Envelopes \ {e} : estate'[f] = estate[f]
    BY <1>4, <1>t DEF MarkFailed
  <2>2. \A f \in Envelopes \ {e} : RowCalm(f)
    <3>1. CASE outbox' = Without({e})
      BY <3>1, <1>t, WithoutCalm
    <3>2. ASSUME NEW row, outbox' = Put(e, row)
          PROVE  \A f \in Envelopes \ {e} : RowCalm(f)
      BY <3>2 DEF Put, RowCalm, Rows
    <3> QED BY <1>4, <3>1, <3>2 DEF MarkFailed, Enqueued
  <2> QED BY <1>0, <1>4, <1>u, <2>1, <2>2, DoneKeeps
<1> QED BY <1>0, <1>1, <1>2, <1>3, <1>4 DEF Gate, Decode, Check, Mark, Fail

LEMMA StopsHold ==
    ASSUME OutboxAssumption, TypeOK, HolderInv, NEW w \in Workers, Abandon(w) \/ Crash(w)
    PROVE  HolderInv'
<1>1. \A e \in Envelopes : Calm(e)
  BY DEF Abandon, Crash, Finish, Calm, RowCalm, HoldersCalm, StateCalm, Rows, rowVars, receiveVars,
         OutboxAssumption, TypeOK
<1> QED BY <1>1, CalmKeeps DEF HolderInv

LEMMA ClocksHold ==
    ASSUME OutboxAssumption, TypeOK, HolderInv, NEW e \in Envelopes,
           LeaseExpires(e) \/ BackoffPasses(e)
    PROVE  HolderInv'
<1>t. /\ OutboxTyped /\ batch' = batch /\ current' = current /\ Rows' = Rows
      /\ UNCHANGED <<estate, arriving>> /\ reopened \subseteq reopened'
  BY DEF TypeOK, OutboxTyped, LeaseExpires, BackoffPasses, receiveVars, workVars, history, Rows
<1>1. ASSUME NEW f \in Envelopes, f # e \/ BackoffPasses(e)
      PROVE  Held(f)'
  <2>1. f \in Rows => outbox'[f].leased = outbox[f].leased
    <3>1. f \in Rows => outbox[f] \in Row
      BY <1>t DEF OutboxTyped, Rows
    <3> QED BY <1>1, <3>1 DEF LeaseExpires, BackoffPasses, Row, Rows
  <2>2. Calm(f)
    BY <1>t, <2>1 DEF Calm, RowCalm, HoldersCalm, StateCalm
  <2> QED BY <2>2, CalmKeeps DEF HolderInv
<1>2. CASE LeaseExpires(e)
  <2>1. Holders(e)' = Holders(e)
    BY <1>t DEF Holders
  <2>2. Holders(e) = {} \/ e \in reopened'
    BY <1>2 DEF LeaseExpires
  <2>3. Held(e)'
    BY <1>t, <2>1, <2>2 DEF HolderInv, Held, Unborn, Exclusive
  <2> QED BY <1>1, <2>3 DEF HolderInv
<1> QED BY <1>1, <1>2 DEF HolderInv

(* Deletions and operators. *)
LEMMA OperatorsHold ==
    ASSUME OutboxAssumption, TypeOK, HolderInv,
           \/ \E c \in Calls : DeleteCall(c) \/ PurgeQueues(c)
           \/ \E o \in Orgs : PurgeDlq(o)
    PROVE  HolderInv'
<1>1. OutboxTyped
  BY DEF TypeOK, OutboxTyped
<1>2. \A e \in Envelopes : HoldersCalm(e)
  BY DEF DeleteCall, PurgeQueues, PurgeDlq, workVars, HoldersCalm
<1>3. \A e \in Envelopes : RowCalm(e) /\ StateCalm(e)
  <2>1. ASSUME NEW c \in Calls, DeleteCall(c)
        PROVE  \A e \in Envelopes : RowCalm(e) /\ StateCalm(e)
    BY <2>1, TombstoneCalm DEF DeleteCall, receiveVars, history
  <2>2. ASSUME NEW c \in Calls, PurgeQueues(c)
        PROVE  \A e \in Envelopes : RowCalm(e) /\ StateCalm(e)
    BY <2>2, <1>1, WithoutCalm DEF PurgeQueues, StateCalm, receiveVars, history
  <2>3. ASSUME NEW o \in Orgs, PurgeDlq(o)
        PROVE  \A e \in Envelopes : RowCalm(e) /\ StateCalm(e)
    BY <2>3 DEF PurgeDlq, RowCalm, StateCalm, Rows, receiveVars
  <2> QED BY <2>1, <2>2, <2>3
<1> QED BY <1>2, <1>3, CalmKeeps DEF HolderInv, Calm

LEMMA RequeueHolds ==
    ASSUME OutboxAssumption, TypeOK, HolderInv, NEW e \in Envelopes, Requeue(e)
    PROVE  HolderInv'
<1>1. ASSUME NEW f \in Envelopes \ {e}
      PROVE  Held(f)'
  <2>1. Calm(f)
    BY DEF Requeue, Enqueued, Put, Calm, RowCalm, HoldersCalm, StateCalm, Rows, receiveVars, workVars, TypeOK
  <2> QED BY <2>1, CalmKeeps DEF HolderInv
<1>2. Held(e)'
  BY DEF Requeue, Held, Unborn, TypeOK
<1> QED BY <1>1, <1>2 DEF HolderInv

LEMMA HolderNext ==
    ASSUME OutboxAssumption, TypeOK, AtWork, HolderInv, [Next]_vars
    PROVE  HolderInv'
<1>1. CASE UNCHANGED vars
  <2>1. \A e \in Envelopes : Calm(e)
    BY <1>1 DEF vars, rowVars, receiveVars, workVars, history,
               Calm, RowCalm, HoldersCalm, StateCalm, Rows
  <2> QED BY <2>1, CalmKeeps DEF HolderInv
<1>2. CASE Next
  BY <1>2, ReceiversHold, ClaimHolds, TakeHolds, StepsHold, StopsHold, ClocksHold,
     OperatorsHold, RequeueHolds DEF Next, Work
<1> QED BY <1>1, <1>2

(* No two workers hold an envelope, whatever they claim, skip, fail at or   *)
(* die with: claim_outbox gives a leased row to nobody, and each of the     *)
(* steps that end a lease early is recorded in reopened.                    *)
THEOREM OneHolderAlways == Spec => []OneHolder
<1>1. OutboxAssumption /\ Init => HolderInv
  BY DEF Init, HolderInv, Held, Unborn, Exclusive, Holders, Rows, OutboxAssumption
<1>2. OutboxInv /\ HolderInv /\ [Next]_vars => HolderInv'
  BY HolderNext, OutboxAssumption DEF OutboxInv
<1>3. HolderInv => OneHolder
  <2> SUFFICES ASSUME HolderInv, NEW e \in Envelopes \ reopened
               PROVE  Cardinality(Holders(e)) <= 1
    BY DEF OneHolder
  <2>1. \A v, w \in Holders(e) : v = w
    BY DEF HolderInv, Held, Exclusive
  <2>2. CASE Holders(e) = {}
    BY <2>2, FS_EmptySet
  <2>3. CASE Holders(e) # {}
    <3>1. PICK w \in Holders(e) : TRUE
      BY <2>3
    <3>2. Holders(e) = {w}
      BY <2>1, <3>1
    <3> QED BY <3>2, FS_Singleton
  <2> QED BY <2>2, <2>3
<1> QED BY <1>1, <1>2, <1>3, OutboxInductive, OutboxAssumption, PTL DEF Spec

-----------------------------------------------------------------------------
(* The order of the rows, and the shares of a claim.                       *)

(* The rows with a smaller id: a strict total order.  An identity column    *)
(* gives it; here each operation on the rows has to keep it.                *)
Aged ==
    \A e \in Rows :
        /\ outbox[e].older \subseteq Rows /\ e \notin outbox[e].older
        /\ \A f \in Rows : /\ f # e => f \in outbox[e].older \/ e \in outbox[f].older
                           /\ f \in outbox[e].older => outbox[f].older \subseteq outbox[e].older

(* Rows are taken out, and nothing else happens to the order. *)
Thinned(S) ==
    /\ Rows' = Rows \ S
    /\ \A f \in Rows \ S : outbox'[f].older = outbox[f].older \ S

(* A row is inserted behind the others. *)
Grown(e) ==
    /\ e \notin Rows /\ Rows' = Rows \cup {e} /\ outbox'[e].older = Rows
    /\ \A f \in Rows : outbox'[f].older = outbox[f].older

LEMMA ThinnedAged == ASSUME Aged, NEW S, Thinned(S) PROVE Aged'
<1>1. ASSUME NEW e \in Rows \ S
      PROVE  /\ outbox'[e].older \subseteq Rows \ S /\ e \notin outbox'[e].older
             /\ \A f \in Rows \ S :
                  /\ f # e => f \in outbox'[e].older \/ e \in outbox'[f].older
                  /\ f \in outbox'[e].older => outbox'[f].older \subseteq outbox'[e].older
  BY <1>1 DEF Aged, Thinned
<1> QED BY <1>1 DEF Aged, Thinned

LEMMA GrownAged == ASSUME Aged, NEW e, Grown(e) PROVE Aged'
<1>1. ASSUME NEW d \in Rows \cup {e}
      PROVE  /\ outbox'[d].older \subseteq Rows \cup {e} /\ d \notin outbox'[d].older
             /\ \A f \in Rows \cup {e} :
                  /\ f # d => f \in outbox'[d].older \/ d \in outbox'[f].older
                  /\ f \in outbox'[d].older => outbox'[f].older \subseteq outbox'[d].older
  <2>1. CASE d = e
    BY <2>1 DEF Aged, Grown
  <2>2. CASE d # e
    BY <1>1, <2>2 DEF Aged, Grown
  <2> QED BY <2>1, <2>2
<1> QED BY <1>1 DEF Aged, Grown

LEMMA WithoutThins ==
    ASSUME OutboxTyped, NEW S, outbox' = Without(S) PROVE Thinned(S)
<1>1. Rows' = Rows \ S
  BY DEF Without, Rows
<1>2. ASSUME NEW f \in Rows \ S PROVE outbox'[f].older = outbox[f].older \ S
  <2>1. outbox[f] \in Row /\ outbox'[f] = [outbox[f] EXCEPT !.older = @ \ S]
    BY DEF Without, OutboxTyped, Rows
  <2> QED BY <2>1 DEF Row
<1> QED BY <1>1, <1>2 DEF Thinned

LEMMA EnqueuedOrdered ==
    ASSUME OutboxTyped, NEW e \in Envelopes, outbox' = Enqueued(e)
    PROVE  Thinned({}) \/ Grown(e)
<1>1. CASE e \in Rows
  <2>1. outbox[e] \in Row
    BY <1>1 DEF OutboxTyped, Rows
  <2>2. Rows' = Rows /\ \A f \in Rows : outbox'[f].older = outbox[f].older
    BY <1>1, <2>1 DEF Enqueued, Put, Rows, Row
  <2> QED BY <2>2 DEF Thinned
<1>2. CASE e \notin Rows
  BY <1>2 DEF Enqueued, Put, Rows, Grown
<1> QED BY <1>1, <1>2

(* A step that leaves the order alone. *)
LEMMA SameOrder ==
    ASSUME Rows' = Rows, \A f \in Rows : outbox'[f].older = outbox[f].older
    PROVE  Thinned({})
  BY DEF Thinned

(* Whoever it is, a step takes rows out, inserts one, or leaves the order.  *)
LEMMA StepOrdered ==
    ASSUME OutboxAssumption, OutboxInv, [Next]_vars
    PROVE  (\E S : Thinned(S)) \/ (\E e : Grown(e))
<1>t. OutboxTyped /\ AtWork
  BY DEF OutboxInv, TypeOK, OutboxTyped
<1>1. CASE UNCHANGED outbox
  BY <1>1, SameOrder DEF Rows
<1>2. ASSUME NEW S, outbox' = Without(S) PROVE \E T : Thinned(T)
  BY <1>t, <1>2, WithoutThins
<1>3. ASSUME NEW e \in Envelopes, outbox' = Enqueued(e)
      PROVE  (\E S : Thinned(S)) \/ (\E f : Grown(f))
  BY <1>t, <1>3, EnqueuedOrdered
<1>4. ASSUME NEW w \in Workers, Claim(w) PROVE Thinned({})
  <2>1. Rows' = Rows
    BY <1>4 DEF Claim, Rows
  <2>2. ASSUME NEW f \in Rows PROVE outbox'[f].older = outbox[f].older
    <3>1. outbox[f] \in Row
      BY <1>t DEF OutboxTyped, Rows
    <3>2. \/ outbox'[f] = [outbox[f] EXCEPT !.leased = TRUE, !.attempts = @ + 1]
          \/ outbox'[f] = outbox[f]
      BY <1>4 DEF Claim
    <3> QED BY <3>1, <3>2 DEF Row
  <2> QED BY <2>1, <2>2, SameOrder
<1>5. ASSUME NEW e \in Envelopes, LeaseExpires(e) \/ BackoffPasses(e) PROVE Thinned({})
  <2>1. e \in Rows /\ outbox[e] \in Row
    BY <1>t, <1>5 DEF LeaseExpires, BackoffPasses, OutboxTyped, Rows
  <2>2. \/ outbox' = [outbox EXCEPT ![e].leased = FALSE]
        \/ outbox' = [outbox EXCEPT ![e].ready = TRUE]
    BY <1>5 DEF LeaseExpires, BackoffPasses
  <2>3. Rows' = Rows /\ \A f \in Rows : outbox'[f].older = outbox[f].older
    BY <2>1, <2>2 DEF Rows, Row
  <2> QED BY <2>3, SameOrder
<1>6. ASSUME NEW w \in Workers, Fail(w) PROVE (\E S : Thinned(S)) \/ (\E f : Grown(f))
  <2> DEFINE e == current[w]
  <2>1. e \in Envelopes /\ MarkFailed(e)
    BY <1>t, <1>6 DEF Fail, AtWork
  <2>2. ASSUME NEW n, e \in Rows,
               outbox' = Put(e, [outbox[e] EXCEPT !.attempts = n, !.leased = FALSE,
                                                  !.ready = FALSE])
        PROVE  Thinned({})
    <3>1. outbox[e] \in Row
      BY <1>t, <2>2 DEF OutboxTyped, Rows
    <3>2. Rows' = Rows /\ \A f \in Rows : outbox'[f].older = outbox[f].older
      BY <2>2, <3>1 DEF Put, Rows, Row
    <3> QED BY <3>2, SameOrder
  <2> QED BY <1>2, <1>3, <2>1, <2>2 DEF MarkFailed
<1>7. ASSUME NEW w \in Workers, Gate(w) \/ Decode(w) \/ Check(w) \/ Mark(w)
      PROVE  UNCHANGED outbox \/ \E S : outbox' = Without(S)
  BY <1>7 DEF Gate, Decode, Check, Mark, TombstoneCall, MarkAssembled, rowVars
<1>8. ASSUME NEW e \in Envelopes, Accept(e) \/ DropConflicting(e) \/ Requeue(e)
      PROVE  UNCHANGED outbox \/ outbox' = Enqueued(e) \/ \E S : outbox' = Without(S)
  BY <1>8 DEF Accept, DropConflicting, Requeue
<1>9. ASSUME NEW c \in Calls, DeleteCall(c) \/ PurgeQueues(c)
      PROVE  \E S : outbox' = Without(S)
  BY <1>9 DEF DeleteCall, PurgeQueues, TombstoneCall
<1>10. ASSUME \/ \E w \in Workers : Abandon(w) \/ Crash(w) \/ \E e \in Envelopes : Take(w, e)
              \/ \E e \in Envelopes : Look(e) \/ ReceiverDies(e)
              \/ \E o \in Orgs : PurgeDlq(o)
              \/ UNCHANGED vars
       PROVE  UNCHANGED outbox
  BY <1>10 DEF Abandon, Crash, Take, Look, ReceiverDies, PurgeDlq, vars, rowVars
<1> QED BY <1>1, <1>2, <1>3, <1>4, <1>5, <1>6, <1>7, <1>8, <1>9, <1>10 DEF Next, Work

(* A set of rows has an oldest and a newest one. *)
LEMMA SmallestImage ==
    ASSUME NEW X, IsFiniteSet(X), X # {}, NEW f \in [X -> SUBSET X]
    PROVE  \E c \in X : \A d \in X : ~(f[d] \subseteq f[c] /\ f[d] # f[c])
<1> DEFINE T == {f[c] : c \in X}
<1>1. IsWellFoundedOn(StrictSubsetOrdering(X), SUBSET X)
  BY FS_StrictSubsetOrderingWellFounded, FS_FiniteSubsetsOfFinite
<1>2. T \subseteq SUBSET X /\ T # {}
  OBVIOUS
<1>3. PICK x \in T : \A y \in T : ~(<<y, x>> \in StrictSubsetOrdering(X))
  <2> HIDE DEF T
  <2> QED BY <1>1, <1>2, WFMin
<1>4. PICK c \in X : x = f[c]
  BY <1>3
<1>5. ASSUME NEW d \in X, f[d] \subseteq f[c], f[d] # f[c] PROVE FALSE
  <2>1. f[d] \in T /\ f[d] \in SUBSET X /\ f[c] \in SUBSET X
    OBVIOUS
  <2>2. <<f[d], f[c]>> \in StrictSubsetOrdering(X)
    BY <1>5, <2>1 DEF StrictSubsetOrdering
  <2> QED BY <1>3, <1>4, <2>1, <2>2
<1> QED BY <1>5

LEMMA OldestExists ==
    ASSUME Aged, NEW X \in SUBSET Rows, IsFiniteSet(X), X # {}
    PROVE  \E e \in X : X \cap outbox[e].older = {}
<1> DEFINE f == [c \in X |-> X \cap outbox[c].older]
<1>1. PICK c \in X : \A d \in X : ~(f[d] \subseteq f[c] /\ f[d] # f[c])
  <2>1. f \in [X -> SUBSET X]
    OBVIOUS
  <2> HIDE DEF f
  <2> QED BY <2>1, SmallestImage
<1>2. ASSUME NEW d \in X \cap outbox[c].older PROVE FALSE
  <2>1. outbox[d].older \subseteq outbox[c].older /\ d \notin outbox[d].older
    BY <1>2 DEF Aged
  <2> QED BY <1>1, <1>2, <2>1
<1> QED BY <1>2

LEMMA NewestExists ==
    ASSUME Aged, NEW X \in SUBSET Rows, IsFiniteSet(X), X # {}
    PROVE  \E e \in X : X \ {e} \subseteq outbox[e].older
<1> DEFINE f == [c \in X |-> {d \in X : c \in outbox[d].older}]
<1>1. PICK c \in X : \A d \in X : ~(f[d] \subseteq f[c] /\ f[d] # f[c])
  <2>1. f \in [X -> SUBSET X]
    OBVIOUS
  <2> HIDE DEF f
  <2> QED BY <2>1, SmallestImage
<1>2. ASSUME NEW d \in X, c \in outbox[d].older PROVE FALSE
  <2>1. \A e \in X : d \in outbox[e].older => c \in outbox[e].older
    BY <1>2 DEF Aged
  <2>2. d \notin outbox[d].older
    BY DEF Aged
  <2> QED BY <1>1, <1>2, <2>1, <2>2
<1>3. \A d \in X \ {c} : d \in outbox[c].older
  BY <1>2 DEF Aged
<1> QED BY <1>3

(* What a claim takes: no tenant gets two places more than one it leaves    *)
(* with work.  The newest row taken of the one stands behind all the others *)
(* taken of it, the oldest row left of the other only behind taken ones.    *)
LEMMA RankedFair ==
    ASSUME OutboxAssumption, TypeOK, Aged, NEW o, NEW p,
           \E e \in Claimable \ Ranked : Org[e] = o
    PROVE  Cardinality({e \in Ranked : Org[e] = p})
             <= Cardinality({e \in Ranked : Org[e] = o}) + 1
<1> DEFINE Taken(x) == {e \in Ranked : Org[e] = x}
           Left == {e \in Claimable \ Ranked : Org[e] = o}
           Ahead(e) == {f \in Claimable \cap outbox[e].older : Org[f] = Org[e]}
           First(e) == {f \in Claimable : Before(f, e)}
<1>1. /\ Claimable \subseteq Rows /\ Claimable \subseteq Envelopes /\ Ranked \subseteq Claimable
      /\ \A X \in SUBSET Claimable : IsFiniteSet(X) /\ Cardinality(X) \in Nat
  <2>1. Claimable \subseteq Rows /\ Claimable \subseteq Envelopes /\ Ranked \subseteq Claimable
    BY DEF Claimable, Ranked, TypeOK, Rows
  <2>2. ASSUME NEW X \in SUBSET Claimable PROVE IsFiniteSet(X) /\ Cardinality(X) \in Nat
    <3>1. X \in SUBSET Envelopes
      BY <2>1
    <3> QED BY <3>1, FS_Subset, FS_CardinalityType DEF OutboxAssumption
  <2> QED BY <2>1, <2>2
<1>2. \A X, Y : X \subseteq Y /\ Y \subseteq Claimable => Cardinality(X) <= Cardinality(Y)
  <2> SUFFICES ASSUME NEW X, NEW Y, X \subseteq Y, Y \subseteq Claimable
               PROVE  Cardinality(X) <= Cardinality(Y)
    OBVIOUS
  <2> QED BY <1>1, FS_Subset
<1>3. \A e : PerOrg(e) = Cardinality(Ahead(e)) /\ PerOrg(e) \in Nat
  <2>1. \A e : Ahead(e) \in SUBSET Claimable
    OBVIOUS
  <2> QED BY <1>1, <2>1 DEF PerOrg
<1>4. SUFFICES ASSUME Cardinality(Taken(p)) > Cardinality(Taken(o)) + 1 PROVE FALSE
  <2>1. Taken(p) \in SUBSET Claimable /\ Taken(o) \in SUBSET Claimable
    BY <1>1
  <2>2. Cardinality(Taken(p)) \in Nat /\ Cardinality(Taken(o)) \in Nat
    BY <1>1, <2>1
  <2> QED BY <2>2
<1>5. PICK f \in Taken(p) : Taken(p) \ {f} \subseteq outbox[f].older
  <2>1. Taken(p) \in SUBSET Rows /\ IsFiniteSet(Taken(p)) /\ Cardinality(Taken(o)) \in Nat
    BY <1>1
  <2>2. Taken(p) # {}
    BY <1>4, <2>1, FS_EmptySet
  <2> HIDE DEF Taken
  <2> QED BY <2>1, <2>2, NewestExists
<1>6. PICK e \in Left : Left \cap outbox[e].older = {}
  <2>1. Left \in SUBSET Rows /\ IsFiniteSet(Left) /\ Left # {}
    BY <1>1
  <2> HIDE DEF Left
  <2> QED BY <2>1, OldestExists
<1>7. PerOrg(f) >= Cardinality(Taken(p)) - 1
  <2>1. Taken(p) \ {f} \subseteq Ahead(f) /\ Ahead(f) \subseteq Claimable
    BY <1>1, <1>5
  <2>2. Cardinality(Taken(p) \ {f}) = Cardinality(Taken(p)) - 1
    <3>1. IsFiniteSet(Taken(p))
      BY <1>1
    <3> HIDE DEF Taken
    <3> QED BY <1>5, <3>1, FS_RemoveElement
  <2>3. Cardinality(Taken(p) \ {f}) <= Cardinality(Ahead(f))
    BY <1>2, <2>1
  <2>4. Cardinality(Ahead(f)) = PerOrg(f) /\ PerOrg(f) \in Nat
    BY <1>3
  <2>5. Cardinality(Taken(p)) \in Nat
    BY <1>1
  <2> HIDE DEF Taken, Ahead
  <2> QED BY <2>2, <2>3, <2>4, <2>5
<1>8. PerOrg(e) <= Cardinality(Taken(o))
  <2>1. Ahead(e) \subseteq Taken(o) /\ Taken(o) \subseteq Claimable
    BY <1>1, <1>6
  <2> QED BY <1>2, <1>3, <2>1
<1>9. PerOrg(e) < PerOrg(f)
  <2>1. Cardinality(Taken(p)) \in Nat /\ Cardinality(Taken(o)) \in Nat
    BY <1>1
  <2> HIDE DEF Taken
  <2> QED BY <1>3, <1>4, <1>7, <1>8, <2>1
<1>10. First(e) \subseteq First(f) /\ First(f) \subseteq Claimable
  BY <1>3, <1>9 DEF Before
<1>11. Cardinality(First(f)) < Limit /\ Limit \in Nat
  BY <1>5 DEF Ranked, OutboxAssumption
<1>12. Cardinality(First(e)) < Limit
  <2>1. Cardinality(First(e)) <= Cardinality(First(f))
    BY <1>2, <1>10
  <2>2. Cardinality(First(e)) \in Nat /\ Cardinality(First(f)) \in Nat
    BY <1>1, <1>10
  <2> HIDE DEF First
  <2> QED BY <1>11, <2>1, <2>2
<1>13. e \in Ranked
  BY <1>6, <1>12 DEF Ranked
<1> QED BY <1>6, <1>13

(* Only a claim adds to a worker's batch. *)
LEMMA OnlyClaims ==
    ASSUME TypeOK, [Next]_vars, NEW w \in Workers
    PROVE  batch'[w] \ batch[w] \in {{}, Ranked}
<1>1. ASSUME NEW v \in Workers, Claim(v) PROVE batch'[w] \ batch[w] \in {{}, Ranked}
  BY <1>1 DEF Claim, TypeOK
<1>2. ASSUME NEW v \in Workers, NEW e \in Envelopes, Take(v, e)
      PROVE  batch'[w] \ batch[w] = {}
  BY <1>2 DEF Take, TypeOK
<1>3. ASSUME NEW v \in Workers,
             Gate(v) \/ Decode(v) \/ Check(v) \/ Mark(v) \/ Fail(v) \/ Abandon(v)
      PROVE  batch' = batch
  BY <1>3 DEF Gate, Decode, Check, Mark, Fail, Abandon, Goto, Finish
<1>4. ASSUME NEW v \in Workers, Crash(v) PROVE batch'[w] \ batch[w] = {}
  BY <1>4 DEF Crash, TypeOK
<1>5. ASSUME NEW e \in Envelopes,
             \/ Look(e) \/ Accept(e) \/ DropConflicting(e) \/ ReceiverDies(e)
             \/ LeaseExpires(e) \/ BackoffPasses(e) \/ Requeue(e)
      PROVE  batch' = batch
  BY <1>5 DEF Look, Accept, DropConflicting, ReceiverDies, LeaseExpires, BackoffPasses, Requeue,
              workVars
<1>6. ASSUME \/ \E c \in Calls : DeleteCall(c) \/ PurgeQueues(c)
             \/ \E o \in Orgs : PurgeDlq(o)
             \/ UNCHANGED vars
      PROVE  batch' = batch
  BY <1>6 DEF DeleteCall, PurgeQueues, PurgeDlq, vars, workVars
<1> QED BY <1>1, <1>2, <1>3, <1>4, <1>5, <1>6 DEF Next, Work

(* For any envelopes, tenants and limit of a claim: a tenant with many      *)
(* envelopes does not push another back (claim_outbox's round robin,        *)
(* postgres.py:378-418).                                                   *)
THEOREM ClaimsAreFair == Spec => FairShare
<1>1. Init => Aged
  BY DEF Init, Aged, Rows
<1>2. OutboxInv /\ Aged /\ [Next]_vars => Aged'
  BY StepOrdered, ThinnedAged, GrownAged, OutboxAssumption
<1>3. OutboxInv /\ Aged /\ [Next]_vars => \A w \in Workers : FairClaim(w)
  <2> SUFFICES ASSUME OutboxInv, Aged, [Next]_vars, NEW w \in Workers, NEW o \in Orgs,
                      NEW p \in Orgs,
                      \E e \in Claimable \ (batch'[w] \ batch[w]) : Org[e] = o
               PROVE  Cardinality({e \in batch'[w] \ batch[w] : Org[e] = p})
                        <= Cardinality({e \in batch'[w] \ batch[w] : Org[e] = o}) + 1
    BY DEF FairClaim
  <2>1. TypeOK
    BY DEF OutboxInv
  <2>2. CASE batch'[w] \ batch[w] = Ranked
    BY <2>1, <2>2, RankedFair, OutboxAssumption
  <2>3. CASE batch'[w] \ batch[w] = {}
    <3>1. \A x : {e \in batch'[w] \ batch[w] : Org[e] = x} = {}
      BY <2>3
    <3>2. Cardinality({}) <= Cardinality({}) + 1
      BY FS_EmptySet
    <3> QED BY <3>1, <3>2
  <2> QED BY <2>1, <2>2, <2>3, OnlyClaims
<1> QED BY <1>1, <1>2, <1>3, OutboxInductive, PTL DEF Spec, FairShare
=============================================================================
