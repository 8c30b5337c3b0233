------------------------- MODULE TraceAssemblyProofs -------------------------
(***************************************************************************)
(* Proofs about TraceAssembly: for any processes and batches, what is       *)
(* marked finalized was promoted and an ending is earned; for one process,  *)
(* no spans are lost and no ending is withdrawn.                            *)
(***************************************************************************)
EXTENDS TraceAssembly, TLAPS

(* A process past its claim holds a batch. *)
AtWork ==
    \A p \in Processes : pc[p] \in {"fold", "judge", "check", "uncovered"} => env[p] \in Batches

(* A copy about to be marked finalized holds what was promoted. *)
Offered ==
    \A p \in Processes :
        pc[p] \in {"won", "lost"} /\ ~tombstoned => cache[p].events \subseteq call.facts \cup lost

(* A record is rooted by a root span it holds. *)
RootIn(r) == r.rooted => r.events \cap Rooting # {}
RootHeld == RootIn(row) /\ \A p \in Processes : RootIn(cache[p])

TraceInv == TypeOK /\ AtWork /\ Offered /\ FinalizedOffered /\ RootHeld /\ EndingEarned

-----------------------------------------------------------------------------
(* Records.                                                                *)

LEMMA BlankTyped == Blank \in Record /\ RootIn(Blank) /\ Blank.events = {} /\ ~Blank.rooted /\ ~Blank.finalized
  BY DEF Blank, Record, RootIn

LEMMA IngestKeeps ==
    ASSUME TraceAssumption, NEW r \in Record, NEW e \in Batches
    PROVE  /\ Ingest(r, e) \in Record
           /\ Ingest(r, e).events = r.events \cup {e}
           /\ Ingest(r, e).rooted = (r.rooted \/ e \in Rooting)
           /\ Ingest(r, e).finalized = FALSE
           /\ RootIn(r) => RootIn(Ingest(r, e))
<1>1. /\ Ingest(r, e).events = r.events \cup {e}
      /\ Ingest(r, e).rooted = (r.rooted \/ e \in Rooting)
      /\ Ingest(r, e).finalized = FALSE
  BY DEF Ingest, Record
<1>2. Ingest(r, e) \in Record
  <2>1. ASSUME NEW a \in SUBSET Batches, NEW b \in BOOLEAN, NEW c \in BOOLEAN, NEW d \in BOOLEAN
        PROVE  [r EXCEPT !.events = a, !.rooted = b, !.ended = c, !.finalized = FALSE, !.late = d]
                   \in Record
    BY DEF Record
  <2>2. r.events \cup {e} \in SUBSET Batches
    BY DEF Record
  <2> QED BY <2>1, <2>2 DEF Ingest
<1>3. RootIn(r) => RootIn(Ingest(r, e))
  BY <1>1 DEF RootIn
<1> QED BY <1>1, <1>2, <1>3

LEMMA DoneKeeps ==
    ASSUME NEW r \in Record
    PROVE  /\ Done(r) \in Record
           /\ Done(r).events = r.events /\ Done(r).rooted = r.rooted
           /\ RootIn(r) => RootIn(Done(r))
  BY DEF Done, Record, RootIn

LEMMA AssembledTyped ==
    ASSUME NEW c \in Revision, NEW r \in Record, NEW p \in Processes
    PROVE  Assembled(c, r, p) \in Revision
  BY DEF Assembled, Revision, Record

-----------------------------------------------------------------------------
LEMMA InitInv == TraceAssumption /\ Init => TraceInv
<1> SUFFICES ASSUME TraceAssumption, Init
             PROVE  TraceInv
  OBVIOUS
<1>1. NoCall \in Revision /\ ~NoCall.ending
  BY DEF NoCall, Revision
<1>2. TypeOK
  <2>1. row \in Record /\ cache \in [Processes -> Record] /\ call \in Revision
    BY <1>1, BlankTyped DEF Init
  <2>2. /\ pc \in [Processes -> Labels] /\ estate \in [Batches -> EState]
        /\ env \in [Processes -> Batches \cup {NoBatch}]
        /\ tombstoned \in BOOLEAN /\ clock \in {"early", "grace", "over"} /\ lost \subseteq Batches
    BY DEF Init, Labels, EState
  <2>3. claims \in [Batches -> 0..ClaimLimit] /\ faults \in 0..MaxFaults
    BY DEF TraceAssumption, Init
  <2> QED BY <2>1, <2>2, <2>3 DEF TypeOK
<1>3. AtWork /\ Offered /\ FinalizedOffered /\ RootHeld /\ EndingEarned
  BY <1>1, BlankTyped DEF Init, AtWork, Offered, FinalizedOffered, RootHeld, EndingEarned
<1> QED BY <1>2, <1>3 DEF TraceInv

(* The steps that touch a copy or the row. *)
LEMMA LoadKeeps ==
    ASSUME TraceAssumption, TraceInv, NEW p \in Processes, NEW e \in Batches, Load(p, e)
    PROVE  TraceInv'
<1>1. claims[e] \in 0..ClaimLimit /\ claims[e] < ClaimLimit
  BY DEF TraceInv, TypeOK, Load, Claim
<1>2. TypeOK'
  BY <1>1 DEF TraceInv, TypeOK, Load, Claim, Goto, Labels, callVars, TraceAssumption
<1>3. AtWork' /\ Offered' /\ FinalizedOffered'
  BY DEF TraceInv, TypeOK, AtWork, Offered, FinalizedOffered, Load, Claim, Goto, callVars
<1>4. RootHeld' /\ EndingEarned'
  BY DEF TraceInv, TypeOK, RootHeld, RootIn, EndingEarned, Load, Claim, callVars
<1> QED BY <1>2, <1>3, <1>4 DEF TraceInv

LEMMA FoldAndSaveKeeps ==
    ASSUME TraceAssumption, TraceInv, NEW p \in Processes, FoldAndSave(p)
    PROVE  TraceInv'
<1> DEFINE r == Ingest(cache[p], env[p])
<1>1. cache[p] \in Record /\ env[p] \in Batches /\ RootIn(cache[p])
  BY DEF TraceInv, TypeOK, AtWork, RootHeld, FoldAndSave
<1>2. r \in Record /\ r.finalized = FALSE /\ RootIn(r)
  BY <1>1, IngestKeeps
<1>3. /\ row' = r /\ cache' = [cache EXCEPT ![p] = r]
      /\ pc' = [pc EXCEPT ![p] = "judge"]
      /\ UNCHANGED <<env, estate, claims, call, tombstoned, clock, lost, faults>>
  BY DEF FoldAndSave, Goto, queueVars, callVars
<1> HIDE DEF r
<1>4. TypeOK'
  BY <1>2, <1>3 DEF TraceInv, TypeOK, Labels
<1>5. AtWork' /\ Offered' /\ FinalizedOffered'
  BY <1>1, <1>2, <1>3 DEF TraceInv, TypeOK, AtWork, Offered, FinalizedOffered
<1>6. RootHeld' /\ EndingEarned'
  BY <1>2, <1>3 DEF TraceInv, TypeOK, RootHeld, RootIn, EndingEarned
<1> QED BY <1>4, <1>5, <1>6 DEF TraceInv

LEMMA MarkFinalizedKeeps ==
    ASSUME TraceAssumption, TraceInv, NEW p \in Processes, MarkFinalized(p)
    PROVE  TraceInv'
<1> DEFINE done == Done(cache[p])
<1>1. cache[p] \in Record /\ RootIn(cache[p])
  BY DEF TraceInv, TypeOK, RootHeld
<1>2. done \in Record /\ done.events = cache[p].events /\ RootIn(done)
  BY <1>1, DoneKeeps
<1>3. /\ row' = done /\ cache' = [cache EXCEPT ![p] = done]
      /\ pc[p] \in {"won", "lost"}
      /\ UNCHANGED <<env, estate, claims, call, tombstoned, clock, lost, faults>>
  BY DEF MarkFinalized, queueVars, callVars
<1> HIDE DEF done
<1>4. \/ env[p] = NoBatch /\ pc' = [pc EXCEPT ![p] = "idle"]
      \/ env[p] # NoBatch /\ pc' = [pc EXCEPT ![p] = "check"]
      \/ env[p] # NoBatch /\ pc' = [pc EXCEPT ![p] = "uncovered"]
  BY DEF MarkFinalized, Goto
<1>5. TypeOK'
  BY <1>2, <1>3, <1>4 DEF TraceInv, TypeOK, Labels
<1>6. AtWork'
  BY <1>3, <1>4 DEF TraceInv, TypeOK, AtWork
<1>7. Offered' /\ FinalizedOffered'
  BY <1>2, <1>3, <1>4 DEF TraceInv, TypeOK, Offered, FinalizedOffered
<1>8. RootHeld' /\ EndingEarned'
  BY <1>2, <1>3 DEF TraceInv, TypeOK, RootHeld, RootIn, EndingEarned
<1> QED BY <1>5, <1>6, <1>7, <1>8 DEF TraceInv

LEMMA DueKeeps ==
    ASSUME TraceAssumption, TraceInv, NEW p \in Processes, Due(p)
    PROVE  TraceInv'
<1>1. \E r \in {row, cache[p]}, label \in {"promote", "idle"} :
          cache' = [cache EXCEPT ![p] = r] /\ pc' = [pc EXCEPT ![p] = label]
  BY DEF Due, Goto
<1>2. UNCHANGED <<row, env, estate, claims, call, tombstoned, clock, lost, faults>>
  BY DEF Due, queueVars, callVars
<1>3. TypeOK'
  BY <1>1, <1>2 DEF TraceInv, TypeOK, Labels
<1>4. AtWork' /\ Offered' /\ FinalizedOffered'
  BY <1>1, <1>2 DEF TraceInv, TypeOK, AtWork, Offered, FinalizedOffered
<1>5. RootHeld' /\ EndingEarned'
  BY <1>1, <1>2 DEF TraceInv, TypeOK, RootHeld, RootIn, EndingEarned
<1> QED BY <1>3, <1>4, <1>5 DEF TraceInv

(* The steps that promote, and those that end a batch. *)
LEMMA PromoteKeeps ==
    ASSUME TraceAssumption, TraceInv, NEW p \in Processes, Promote(p) \/ LosePromotion(p)
    PROVE  TraceInv'
<1>t. cache[p] \in Record /\ call \in Revision /\ RootIn(cache[p])
  BY DEF TraceInv, TypeOK, RootHeld
<1>u. UNCHANGED <<row, cache, env, estate, claims, tombstoned, clock, faults>>
  BY DEF Promote, LosePromotion, queueVars, callVars
<1>1. CASE Promote(p)
  <2>1. /\ call' \in Revision /\ call.facts \cup cache[p].events = call'.facts
        /\ call'.ending = (cache[p].rooted /\ (call.ending \/ cache[p].events \cap Ending # {}))
        /\ pc' = [pc EXCEPT ![p] = "won"] /\ lost' = lost
    BY <1>t, <1>1, AssembledTyped DEF Promote, Goto, Assembled
  <2>2. TypeOK'
    BY <1>u, <2>1 DEF TraceInv, TypeOK, Labels
  <2>3. AtWork' /\ Offered' /\ FinalizedOffered'
    BY <1>u, <2>1 DEF TraceInv, TypeOK, AtWork, Offered, FinalizedOffered
  <2>4. RootHeld'
    BY <1>u DEF TraceInv, RootHeld, RootIn
  <2>5. EndingEarned'
    BY <1>t, <1>u, <2>1 DEF TraceInv, EndingEarned, RootIn
  <2> QED BY <2>2, <2>3, <2>4, <2>5 DEF TraceInv
<1>2. CASE LosePromotion(p)
  <2>1. /\ lost' = lost \cup cache[p].events /\ pc' = [pc EXCEPT ![p] = "lost"] /\ call' = call
    BY <1>2 DEF LosePromotion, Goto, callVars
  <2>2. TypeOK'
    BY <1>t, <1>u, <2>1 DEF TraceInv, TypeOK, Labels, Record
  <2>3. AtWork' /\ Offered' /\ FinalizedOffered'
    BY <1>u, <2>1 DEF TraceInv, TypeOK, AtWork, Offered, FinalizedOffered
  <2>4. RootHeld' /\ EndingEarned'
    BY <1>u, <2>1 DEF TraceInv, RootHeld, RootIn, EndingEarned
  <2> QED BY <2>2, <2>3, <2>4 DEF TraceInv
<1> QED BY <1>1, <1>2

LEMMA MarkFailedTyped ==
    ASSUME TypeOK, NEW e \in Batches, MarkFailed(e) \/ MarkAssembled(e)
    PROVE  estate' \in [Batches -> EState]
  BY DEF TypeOK, MarkFailed, MarkAssembled, EState
LEMMA EndsKeep ==
    ASSUME TraceAssumption, TraceInv, NEW p \in Processes, Judge(p) \/ Check(p) \/ Fail(p)
    PROVE  TraceInv'
<1>1. /\ UNCHANGED <<row, cache, claims, tombstoned, clock, lost, faults>>
      /\ \/ Leave(p)
         \/ pc' = [pc EXCEPT ![p] = "promote"] /\ env' = env
  BY DEF Judge, Check, Fail, Goto, callVars
<1>2. call' = call \/ (tombstoned /\ call' = NoCall)
  <2>1. CASE Judge(p) \/ Fail(p)
    BY <2>1 DEF Judge, Fail, callVars
  <2>2. CASE Check(p)
    BY <2>2, Zenon DEF Check
  <2> QED BY <2>1, <2>2
<1>3. estate' \in [Batches -> EState]
  <2>1. estate' = estate \/ MarkAssembled(env[p]) \/ MarkFailed(env[p])
    BY DEF Judge, Check, Fail
  <2>2. env[p] \in Batches
    <3>1. pc[p] \in {"judge", "check", "uncovered"} \/ env[p] \in Batches
      BY DEF TraceInv, TypeOK, Judge, Check, Fail
    <3> QED BY <3>1 DEF TraceInv, AtWork
  <2> QED BY <2>1, <2>2, MarkFailedTyped DEF TraceInv, TypeOK
<1>4. NoCall \in Revision /\ ~NoCall.ending
  BY DEF NoCall, Revision
<1>5. TypeOK'
  BY <1>1, <1>2, <1>3, <1>4 DEF TraceInv, TypeOK, Leave, Goto, Labels
<1>6. AtWork' /\ Offered' /\ FinalizedOffered'
  BY <1>1, <1>2 DEF TraceInv, TypeOK, AtWork, Offered, FinalizedOffered, Leave, Goto
<1>7. RootHeld' /\ EndingEarned'
  BY <1>1, <1>2, <1>4 DEF TraceInv, RootHeld, RootIn, EndingEarned
<1> QED BY <1>5, <1>6, <1>7 DEF TraceInv

(* A write that fails leaves the copy changed. *)
LEMMA SaveFailsKeeps ==
    ASSUME TraceAssumption, TraceInv, NEW p \in Processes, SaveFails(p)
    PROVE  TraceInv'
<1>1. /\ cache[p] \in Record /\ RootIn(cache[p])
      /\ pc[p] = "fold" => env[p] \in Batches
  BY DEF TraceInv, TypeOK, RootHeld, AtWork
<1>2. PICK r \in Record : cache' = [cache EXCEPT ![p] = r] /\ RootIn(r)
  <2>1. CASE pc[p] = "fold" /\ cache' = [cache EXCEPT ![p] = Ingest(cache[p], env[p])]
    BY <2>1, <1>1, IngestKeeps
  <2>2. CASE cache' = [cache EXCEPT ![p] = Done(cache[p])]
    BY <2>2, <1>1, DoneKeeps
  <2> QED BY <2>1, <2>2 DEF SaveFails
<1>3. /\ Leave(p) /\ faults' \in 0..MaxFaults
      /\ UNCHANGED <<row, claims, call, tombstoned, clock, lost>>
  BY DEF SaveFails, Fault, callVars, TraceInv, TypeOK, TraceAssumption
<1>4. estate' \in [Batches -> EState]
  <2>1. estate' = estate \/ (env[p] \in Batches /\ MarkFailed(env[p]))
    BY DEF SaveFails, TraceInv, TypeOK
  <2> QED BY <2>1, MarkFailedTyped DEF TraceInv, TypeOK
<1>5. TypeOK'
  BY <1>2, <1>3, <1>4 DEF TraceInv, TypeOK, Leave, Goto, Labels
<1>6. AtWork' /\ Offered' /\ FinalizedOffered'
  BY <1>2, <1>3 DEF TraceInv, TypeOK, AtWork, Offered, FinalizedOffered, Leave, Goto
<1>7. RootHeld' /\ EndingEarned'
  BY <1>2, <1>3 DEF TraceInv, TypeOK, RootHeld, RootIn, EndingEarned
<1> QED BY <1>5, <1>6, <1>7 DEF TraceInv

(* Crashes, the deletion and time. *)
LEMMA RestKeeps ==
    ASSUME TraceAssumption, TraceInv,
           (\E p \in Processes : Crash(p)) \/ Delete \/ Tick \/ UNCHANGED vars
    PROVE  TraceInv'
<1>1. ASSUME NEW p \in Processes, Crash(p)
      PROVE  TraceInv'
  <2>1. /\ cache' = [cache EXCEPT ![p] = Blank] \/ cache' = cache
        /\ Leave(p) /\ faults' \in 0..MaxFaults
        /\ UNCHANGED <<row, estate, claims, call, tombstoned, clock, lost>>
    BY <1>1 DEF TraceInv, TypeOK, Crash, Fault, queueVars, callVars, TraceAssumption
  <2>2. TypeOK'
    BY <2>1, BlankTyped DEF TraceInv, TypeOK, Leave, Goto, Labels
  <2>3. AtWork' /\ Offered' /\ FinalizedOffered'
    BY <2>1 DEF TraceInv, TypeOK, AtWork, Offered, FinalizedOffered, Leave, Goto
  <2>4. RootHeld' /\ EndingEarned'
    BY <2>1, BlankTyped DEF TraceInv, TypeOK, RootHeld, RootIn, EndingEarned
  <2> QED BY <2>2, <2>3, <2>4 DEF TraceInv
<1>2. CASE Delete
  <2>1. NoCall \in Revision /\ ~NoCall.ending
    BY DEF NoCall, Revision
  <2>2. TypeOK'
    BY <1>2, <2>1 DEF TraceInv, TypeOK, Delete, procVars, queueVars
  <2>3. AtWork' /\ Offered' /\ FinalizedOffered'
    BY <1>2 DEF TraceInv, AtWork, Offered, FinalizedOffered, Delete, procVars
  <2>4. RootHeld' /\ EndingEarned'
    BY <1>2, <2>1 DEF TraceInv, RootHeld, RootIn, EndingEarned, Delete, procVars
  <2> QED BY <2>2, <2>3, <2>4 DEF TraceInv
<1>3. CASE Tick \/ UNCHANGED vars
  <2>1. UNCHANGED <<row, cache, pc, env, estate, claims, call, tombstoned, lost, faults>>
    BY <1>3 DEF Tick, vars, procVars, queueVars, callVars
  <2>2. clock' \in {"early", "grace", "over"}
    BY <1>3 DEF Tick, vars, TraceInv, TypeOK
  <2>3. TypeOK'
    BY <2>1, <2>2 DEF TraceInv, TypeOK
  <2>4. AtWork' /\ Offered' /\ FinalizedOffered' /\ RootHeld' /\ EndingEarned'
    BY <2>1 DEF TraceInv, AtWork, Offered, FinalizedOffered, RootHeld, RootIn, EndingEarned
  <2> QED BY <2>3, <2>4 DEF TraceInv
<1> QED BY <1>1, <1>2, <1>3

LEMMA TraceInvNext ==
    ASSUME TraceAssumption, TraceInv, [Next]_vars
    PROVE  TraceInv'
<1>1. ASSUME NEW p \in Processes, Work(p)
      PROVE  TraceInv'
  BY <1>1, LoadKeeps, FoldAndSaveKeeps, EndsKeep, PromoteKeeps, MarkFinalizedKeeps, DueKeeps DEF Work
<1> QED BY <1>1, SaveFailsKeeps, RestKeeps DEF Next

(* The invariant holds of every behaviour of the processes, their crashes,  *)
(* the deletion and time.                                                   *)
THEOREM TraceInductive == Spec => []TraceInv
<1>1. Init => TraceInv
  BY InitInv, TraceAssumption
<1>2. TraceInv /\ [Next]_vars => TraceInv'
  BY TraceInvNext, TraceAssumption
<1> QED BY <1>1, <1>2, PTL DEF Spec

(* Every variable keeps its type. *)
THEOREM TraceTyping == Spec => []TypeOK
<1>1. TraceInv => TypeOK
  BY DEF TraceInv
<1> QED BY <1>1, TraceInductive, PTL

(* mark_finalized never claims spans that were not promoted, although it    *)
(* follows a promotion that took many calls and other processes write the   *)
(* same row meanwhile.                                                      *)
THEOREM NothingFinalizedUnseen == Spec => []FinalizedOffered
<1>1. TraceInv => FinalizedOffered
  BY DEF TraceInv
<1> QED BY <1>1, TraceInductive, PTL

(* unrooted_events and the assembler invent no ending: whichever copies of  *)
(* the record were promoted, in whichever order.                            *)
THEOREM NoEndingInvented == Spec => []EndingEarned
<1>1. TraceInv => EndingEarned
  BY DEF TraceInv
<1> QED BY <1>1, TraceInductive, PTL

-----------------------------------------------------------------------------
(* One process.                                                            *)

Alone == \A p, q \in Processes : p = q

(* The copy of the only process holds what the row does, and nothing else   *)
(* if no write of the row fails; a batch past the write is in it.           *)
CopyOfRow ==
    \A p \in Processes :
        /\ Seen(cache[p]) => row.events \subseteq cache[p].events
        /\ Seen(cache[p]) /\ ~SavesFail =>
              cache[p].events = row.events /\ cache[p].rooted = row.rooted
        /\ pc[p] = "fold" /\ ~Seen(cache[p]) => ~Seen(row)
        /\ pc[p] \in {"judge", "promote", "won", "lost"} => Seen(cache[p])
        /\ pc[p] \notin {"idle", "fold"} /\ env[p] \in Batches => env[p] \in row.events
        /\ pc[p] = "idle" => env[p] = NoBatch

(* The root an ending was served with is in the row. *)
RootSaved == call.ending /\ ~SavesFail => row.rooted

EndingStep == call.ending /\ ~SavesFail => call'.ending \/ tombstoned'

AloneInv == CopyOfRow /\ SpansKept /\ RootSaved

LEMMA AloneInit == Init => AloneInv
  BY BlankTyped DEF Init, AloneInv, RootSaved, CopyOfRow, SpansKept, Seen, NoCall

LEMMA AloneLoad ==
    ASSUME Alone, TraceInv, AloneInv, NEW p \in Processes, NEW e \in Batches, Load(p, e)
    PROVE  AloneInv'
<1>1. CopyOfRow'
  BY DEF Alone, TraceInv, TypeOK, AloneInv, RootSaved, CopyOfRow, Seen, Load, Claim, Goto
<1>2. SpansKept' /\ RootSaved'
  BY DEF AloneInv, RootSaved, SpansKept, Load, callVars
<1> QED BY <1>1, <1>2 DEF AloneInv, RootSaved

LEMMA AloneFold ==
    ASSUME TraceAssumption, Alone, TraceInv, AloneInv, NEW p \in Processes, FoldAndSave(p)
    PROVE  AloneInv'
<1> DEFINE r == Ingest(cache[p], env[p])
<1>1. cache[p] \in Record /\ env[p] \in Batches
  BY DEF TraceInv, TypeOK, AtWork, FoldAndSave
<1>2. /\ r.events = cache[p].events \cup {env[p]}
      /\ r.rooted = (cache[p].rooted \/ env[p] \in Rooting)
  <2>1. r.events = cache[p].events \cup {env[p]}
    BY <1>1, IngestKeeps
  <2>2. r.rooted = (cache[p].rooted \/ env[p] \in Rooting)
    BY <1>1 DEF Ingest, Record
  <2> QED BY <2>1, <2>2
<1>3. /\ row' = r /\ cache' = [cache EXCEPT ![p] = r]
      /\ pc' = [pc EXCEPT ![p] = "judge"] /\ pc[p] = "fold"
      /\ UNCHANGED <<env, estate, call>>
  BY DEF FoldAndSave, Goto, queueVars, callVars
<1>4. row.events \subseteq cache[p].events
  BY <1>3 DEF AloneInv, RootSaved, CopyOfRow, Seen
<1>5. row.rooted /\ ~SavesFail => cache[p].rooted
  <2>1. CASE Seen(cache[p])
    BY <2>1 DEF AloneInv, RootSaved, CopyOfRow
  <2>2. CASE ~Seen(cache[p])
    BY <1>3, <2>2 DEF AloneInv, RootSaved, CopyOfRow, Seen, TraceInv, RootHeld, RootIn
  <2> QED BY <2>1, <2>2
<1> HIDE DEF r
<1>6. CopyOfRow'
  BY <1>2, <1>3 DEF Alone, TraceInv, TypeOK, CopyOfRow, Seen
<1>7. SpansKept'
  BY <1>2, <1>3, <1>4 DEF AloneInv, RootSaved, SpansKept
<1>8. RootSaved'
  BY <1>2, <1>3, <1>5 DEF AloneInv, RootSaved
<1> QED BY <1>6, <1>7, <1>8 DEF AloneInv, RootSaved

LEMMA AloneMark ==
    ASSUME Alone, TraceInv, AloneInv, NEW p \in Processes, MarkFinalized(p)
    PROVE  AloneInv'
<1> DEFINE done == Done(cache[p])
<1>1. done.events = cache[p].events /\ done.rooted = cache[p].rooted
  BY DoneKeeps DEF TraceInv, TypeOK
<1>2. /\ row' = done /\ cache' = [cache EXCEPT ![p] = done]
      /\ pc[p] \in {"won", "lost"} /\ Seen(cache[p])
      /\ UNCHANGED <<env, estate, call>>
  BY DEF MarkFinalized, queueVars, callVars, AloneInv, RootSaved, CopyOfRow
<1>3. \/ pc' = [pc EXCEPT ![p] = "idle"] /\ env[p] = NoBatch
      \/ pc' = [pc EXCEPT ![p] = "check"]
      \/ pc' = [pc EXCEPT ![p] = "uncovered"]
  BY DEF MarkFinalized, Goto
<1>4. /\ row.events \subseteq row'.events
      /\ ~SavesFail => row.rooted = row'.rooted
  BY <1>1, <1>2 DEF AloneInv, RootSaved, CopyOfRow
<1> HIDE DEF done
<1>5. CopyOfRow'
  BY <1>1, <1>2, <1>3, <1>4 DEF Alone, TraceInv, TypeOK, AloneInv, RootSaved, CopyOfRow, Seen
<1>6. SpansKept' /\ RootSaved'
  BY <1>2, <1>4 DEF AloneInv, RootSaved, SpansKept
<1> QED BY <1>5, <1>6 DEF AloneInv, RootSaved

LEMMA AloneDue ==
    ASSUME TraceAssumption, Alone, TraceInv, AloneInv, NEW p \in Processes, Due(p)
    PROVE  AloneInv'
<1>1. PICK r \in {row, cache[p]}, label \in {"promote", "idle"} :
          /\ cache' = [cache EXCEPT ![p] = r] /\ pc' = [pc EXCEPT ![p] = label]
          /\ label = "promote" => Seen(r)
  BY DEF Due, Goto
<1>2. UNCHANGED <<row, env, estate, call>> /\ pc[p] = "idle" /\ env[p] = NoBatch
  BY DEF Due, queueVars, callVars, AloneInv, RootSaved, CopyOfRow
<1>3. Processes = {p}
  BY DEF Alone
<1>4. cache'[p] = r /\ pc'[p] = label
  BY <1>1 DEF TraceInv, TypeOK
<1>5. CopyOfRow'
  BY <1>1, <1>2, <1>3, <1>4 DEF AloneInv, RootSaved, CopyOfRow, Seen, TraceAssumption
<1> QED BY <1>2, <1>5 DEF AloneInv, RootSaved, SpansKept

LEMMA AlonePromote ==
    ASSUME Alone, TraceInv, AloneInv, NEW p \in Processes, Promote(p) \/ LosePromotion(p)
    PROVE  AloneInv' /\ EndingStep
<1>1. /\ UNCHANGED <<row, cache, env, estate>> /\ pc[p] = "promote"
      /\ \/ pc' = [pc EXCEPT ![p] = "won"]
         \/ pc' = [pc EXCEPT ![p] = "lost"]
  BY DEF Promote, LosePromotion, Goto, queueVars
<1>2. call' = call \/ call'.ending = (cache[p].rooted /\ (call.ending \/ cache[p].events \cap Ending # {}))
  BY DEF Promote, LosePromotion, Assembled, callVars
<1>3. ~SavesFail => cache[p].rooted = row.rooted
  BY <1>1 DEF AloneInv, RootSaved, CopyOfRow
<1>4. CopyOfRow'
  BY <1>1 DEF TraceInv, TypeOK, AloneInv, RootSaved, CopyOfRow, Seen
<1>5. SpansKept' /\ RootSaved'
  BY <1>1, <1>2, <1>3 DEF AloneInv, RootSaved, SpansKept
<1>6. EndingStep
  BY <1>2, <1>3 DEF AloneInv, RootSaved, EndingStep
<1> QED BY <1>4, <1>5, <1>6 DEF AloneInv, RootSaved

LEMMA AloneEnds ==
    ASSUME TraceAssumption, Alone, TraceInv, AloneInv, NEW p \in Processes,
           Judge(p) \/ Check(p) \/ Fail(p)
    PROVE  AloneInv' /\ EndingStep
<1>1. /\ UNCHANGED <<row, cache, tombstoned>>
      /\ \/ Leave(p)
         \/ pc[p] = "judge" /\ pc' = [pc EXCEPT ![p] = "promote"] /\ env' = env
  BY DEF Judge, Check, Fail, Goto, callVars
<1>2. call' = call \/ (tombstoned /\ ~call'.ending)
  <2>1. CASE Judge(p) \/ Fail(p)
    BY <2>1 DEF Judge, Fail, callVars
  <2>2. CASE Check(p)
    <3>1. call' = call \/ (tombstoned /\ call' = NoCall)
      BY <2>2, Zenon DEF Check
    <3> QED BY <3>1 DEF NoCall
  <2> QED BY <2>1, <2>2
<1>3. \A e \in Batches : estate'[e] = "assembled" => estate[e] = "assembled" \/ e \in row.events
  <2>1. CASE MarkAssembled(env[p]) /\ pc[p] \in {"judge", "check"}
    BY <2>1 DEF TraceInv, TypeOK, AtWork, AloneInv, RootSaved, CopyOfRow, MarkAssembled
  <2>2. CASE MarkFailed(env[p]) \/ estate' = estate
    BY <2>2 DEF TraceInv, TypeOK, MarkFailed
  <2> QED BY <2>1, <2>2 DEF Judge, Check, Fail
<1>4. CopyOfRow'
  BY <1>1 DEF TraceInv, TypeOK, AtWork, AloneInv, RootSaved, CopyOfRow, Seen, Leave, Goto, TraceAssumption
<1>5. SpansKept' /\ RootSaved' /\ EndingStep
  BY <1>1, <1>2, <1>3 DEF AloneInv, RootSaved, SpansKept, EndingStep
<1> QED BY <1>4, <1>5 DEF AloneInv, RootSaved

LEMMA AloneSaveFails ==
    ASSUME TraceAssumption, Alone, TraceInv, AloneInv, NEW p \in Processes, SaveFails(p)
    PROVE  AloneInv' /\ EndingStep
<1>1. /\ cache[p] \in Record
      /\ pc[p] = "fold" => env[p] \in Batches
  BY DEF TraceInv, TypeOK, AtWork
<1>2. PICK r \in Record :
          /\ cache' = [cache EXCEPT ![p] = r]
          /\ row.events \subseteq r.events
  <2>1. CASE pc[p] = "fold"
    <3>1. row.events \subseteq cache[p].events
      BY <2>1 DEF AloneInv, CopyOfRow, Seen
    <3>2. cache' = [cache EXCEPT ![p] = Ingest(cache[p], env[p])]
      BY <2>1 DEF SaveFails
    <3>3. /\ Ingest(cache[p], env[p]) \in Record
          /\ Ingest(cache[p], env[p]).events = cache[p].events \cup {env[p]}
      BY <2>1, <1>1, IngestKeeps
    <3> QED BY <3>1, <3>2, <3>3
  <2>2. CASE pc[p] \in {"won", "lost"}
    BY <2>2, <1>1, DoneKeeps DEF SaveFails, AloneInv, CopyOfRow
  <2> QED BY <2>1, <2>2 DEF SaveFails
<1>3. SavesFail /\ Leave(p) /\ UNCHANGED <<row, call>>
  BY DEF SaveFails, callVars
<1>4. \A e \in Batches : estate'[e] = "assembled" => estate[e] = "assembled"
  BY DEF SaveFails, MarkFailed, TraceInv, TypeOK
<1>5. CopyOfRow'
  BY <1>2, <1>3 DEF Alone, TraceInv, TypeOK, CopyOfRow, Leave, Goto
<1>6. SpansKept' /\ RootSaved' /\ EndingStep
  BY <1>3, <1>4 DEF AloneInv, SpansKept, RootSaved, EndingStep
<1> QED BY <1>5, <1>6 DEF AloneInv

LEMMA AloneRest ==
    ASSUME Alone, TraceInv, AloneInv,
           (\E p \in Processes : Crash(p)) \/ Delete \/ Tick \/ UNCHANGED vars
    PROVE  AloneInv' /\ EndingStep
<1>1. ASSUME NEW p \in Processes, Crash(p)
      PROVE  AloneInv' /\ EndingStep
  <2>1. /\ cache' = [cache EXCEPT ![p] = Blank] \/ cache' = cache
        /\ Leave(p) /\ UNCHANGED <<row, estate, call>>
    BY <1>1 DEF Crash, queueVars, callVars
  <2>2. CopyOfRow'
    BY <2>1, BlankTyped DEF TraceInv, TypeOK, AloneInv, RootSaved, CopyOfRow, Seen, Leave, Goto
  <2> QED BY <2>1, <2>2 DEF AloneInv, RootSaved, SpansKept, EndingStep
<1>2. CASE Delete
  <2>1. UNCHANGED <<row, cache, pc, env, estate>> /\ ~call'.ending /\ tombstoned'
    BY <1>2 DEF Delete, procVars, queueVars, NoCall
  <2> QED BY <2>1 DEF AloneInv, RootSaved, CopyOfRow, SpansKept, Seen, EndingStep
<1>3. CASE Tick \/ UNCHANGED vars
  <2>1. UNCHANGED <<row, cache, pc, env, estate, call>>
    BY <1>3 DEF Tick, vars, procVars, queueVars, callVars
  <2> QED BY <2>1 DEF AloneInv, RootSaved, CopyOfRow, SpansKept, Seen, EndingStep
<1> QED BY <1>1, <1>2, <1>3

LEMMA AloneNext ==
    ASSUME TraceAssumption, Alone, TraceInv, AloneInv, [Next]_vars
    PROVE  AloneInv' /\ EndingStep
<1>1. ASSUME NEW p \in Processes, NEW e \in Batches, Load(p, e)
      PROVE  AloneInv' /\ EndingStep
  BY <1>1, AloneLoad DEF EndingStep, Load, callVars
<1>2. ASSUME NEW p \in Processes, FoldAndSave(p) \/ MarkFinalized(p) \/ Due(p)
      PROVE  AloneInv' /\ EndingStep
  <2>1. AloneInv'
    BY <1>2, AloneFold, AloneMark, AloneDue
  <2>2. call' = call
    BY <1>2 DEF FoldAndSave, MarkFinalized, Due, callVars
  <2> QED BY <2>1, <2>2 DEF EndingStep
<1>3. ASSUME NEW p \in Processes, Work(p)
      PROVE  AloneInv' /\ EndingStep
  BY <1>1, <1>2, <1>3, AlonePromote, AloneEnds DEF Work
<1> QED BY <1>3, AloneSaveFails, AloneRest DEF Next

(* With one draining process the row of a trace holds every span of an      *)
(* assembled batch, across restarts and failed writes: it reads the row     *)
(* when its copy is gone (PostgresTraceAssembler._load) and otherwise its   *)
(* copy holds the row.  The run MCTraceDurable shows that two processes     *)
(* break this.                                                              *)
THEOREM OneProcessKeepsSpans == Alone /\ Spec => []SpansKept
<1>1. Init => AloneInv
  BY AloneInit
<1>2. Alone /\ TraceInv /\ AloneInv /\ [Next]_vars => AloneInv'
  BY AloneNext, TraceAssumption
<1>3. AloneInv => SpansKept
  BY DEF AloneInv, RootSaved
<1>4. CASE Alone
  <2>1. TraceInv /\ AloneInv /\ [Next]_vars => AloneInv'
    BY <1>2, <1>4
  <2> QED BY <1>1, <2>1, <1>3, TraceInductive, PTL DEF Spec
<1> QED BY <1>4

(* With one draining process, and if no write of the row fails, an ending    *)
(* that is served is not withdrawn by later spans of the trace: the copy a  *)
(* revision is assembled from has the root the ending was served with.      *)
THEOREM OneProcessKeepsEndings == Alone /\ ~SavesFail /\ Spec => EndingKept
<1>1. Init => AloneInv
  BY AloneInit
<1>2. Alone /\ TraceInv /\ AloneInv /\ [Next]_vars => AloneInv' /\ EndingStep
  BY AloneNext, TraceAssumption
<1>3. CASE Alone /\ ~SavesFail
  <2>1. TraceInv /\ AloneInv /\ [Next]_vars => AloneInv'
    BY <1>2, <1>3
  <2>2. TraceInv /\ AloneInv /\ [Next]_vars
            => [call.ending => call'.ending \/ tombstoned']_vars
    BY <1>2, <1>3 DEF EndingStep
  <2> QED BY <1>1, <2>1, <2>2, TraceInductive, PTL DEF Spec, EndingKept
<1> QED BY <1>3
=============================================================================
