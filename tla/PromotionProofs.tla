-------------------------- MODULE PromotionProofs --------------------------
(***************************************************************************)
(* What a reader of one call sees is right, for every number of envelopes,  *)
(* facts, drainers and revisions: the pointer names written rows, nothing   *)
(* assembled is lost, conflicting facts are not served.  The argument is    *)
(* the inductive invariant IInv of PromotionInvariant, types first.  Each   *)
(* step touches one drainer; for the others it is enough that the stores    *)
(* only grow.                                                              *)
(***************************************************************************)
EXTENDS PromotionInvariant, TLAPS


-----------------------------------------------------------------------------
(* Types.  Where a drainer is must be typed along with what it holds: that  *)
(* the envelope marked failed is one, that the row inserted is one.         *)

Typed == TypeOK /\ PCLocals

TypedRest ==
    /\ dpc \in DeletePC
    /\ found \in BOOLEAN
    /\ applied \subseteq Envelopes
    /\ upsets \in 0..MaxUpsets
    /\ torn \in BOOLEAN

LEMMA TypedInit == Init => Typed
<1> SUFFICES ASSUME Init PROVE Typed
  OBVIOUS
<1> USE PromotionAssumption DEF Init
<1>0. tombstoned \in BOOLEAN /\ found \in BOOLEAN /\ torn \in BOOLEAN
  OBVIOUS
<1>1. TypedStores
  BY <1>0 DEF TypedStores, EState, NoRev, Revs, Maybe
<1>2. TypedLocals
  BY DEF TypedLocals, DrainPC, NoRev, Maybe
<1>3. PCLocals
  BY DEF PCLocals, Attempting
<1>4. TypedRest
  BY <1>0 DEF TypedRest, DeletePC
<1> QED
  BY <1>1, <1>2, <1>3, <1>4 DEF TypeOK, TypedRest, Typed

(* A drainer that returns is idle and holds nothing. *)
LEMMA ReturnTyped ==
    ASSUME Typed, NEW d \in Drainers, Return(d)
    PROVE  TypedLocals' /\ PCLocals'
<1>1. TypedLocals'
  BY PromotionAssumption DEF Typed, TypeOK, TypedLocals, Return, Goto, DrainPC, NoRev, Maybe, NoEnvelope
<1>2. pc'[d] = "idle" /\ tries'[d] = 0 /\ cand'[d] = NoRev /\ attempt'[d] = NoRev
  BY DEF Typed, TypeOK, TypedLocals, Return, Goto
<1>3. ASSUME NEW c \in Drainers, c # d
      PROVE  /\ pc'[c] = pc[c] /\ env'[c] = env[c] /\ tries'[c] = tries[c]
             /\ attempt'[c] = attempt[c] /\ cand'[c] = cand[c]
  BY <1>3 DEF Typed, TypeOK, TypedLocals, Return, Goto
<1> QED
  BY <1>1, <1>2, <1>3 DEF Typed, PCLocals, Attempting

LEMMA TypedNext ==
    ASSUME Typed, [Next]_vars
    PROVE  Typed'
<1> USE PromotionAssumption DEF vars, stores, revisions, pointer, inbox, locals, deleter, history
<1>1. ASSUME NEW d \in Drainers, NEW e \in Envelopes, Claim(d, e) PROVE Typed'
  <2>1. TypedStores'
    BY <1>1 DEF Typed, TypeOK, TypedStores, TypedLocals, PCLocals, Attempting, EState, DrainPC, NoRev, Revs, Maybe, NoEnvelope, Claim
  <2>2. TypedLocals'
    BY <1>1 DEF Typed, TypeOK, TypedStores, TypedLocals, PCLocals, DrainPC, NoRev, Revs, Maybe, NoEnvelope, Claim, Goto
  <2>3. PCLocals'
    BY <1>1 DEF Typed, TypeOK, TypedLocals, PCLocals, Attempting, DrainPC, NoRev, Revs, Maybe, NoEnvelope, Claim, Goto
  <2>4. TypedLocals' /\ PCLocals'
    BY <2>2, <2>3
  <2>5. TypedRest'
    BY <1>1 DEF Typed, TypeOK, TypedRest, DeletePC, Claim
  <2> QED
    BY <2>1, <2>4, <2>5 DEF Typed, TypeOK, TypedRest
<1>2. ASSUME NEW d \in Drainers, Gate(d) PROVE Typed'
  <2>1. TypedStores'
    BY <1>2 DEF Typed, TypeOK, TypedStores, TypedLocals, PCLocals, Attempting, EState, DrainPC, NoRev, Revs, Maybe, NoEnvelope, Gate, TombstoneEnvelopes
  <2>4. TypedLocals' /\ PCLocals'
    <3>1. CASE Return(d)
      BY <1>2, <3>1, ReturnTyped
    <3>2. CASE Goto(d, "expected") /\ UNCHANGED locals
      <4>1. TypedLocals'
        BY <1>2, <3>2 DEF Typed, TypeOK, TypedLocals, PCLocals, DrainPC, NoRev, Maybe, Gate, Goto
      <4>2. PCLocals'
        BY <1>2, <3>2 DEF Typed, TypeOK, TypedLocals, PCLocals, Attempting, DrainPC, NoRev, Maybe, Gate, Goto
      <4> QED
        BY <4>1, <4>2
    <3> QED
      BY <1>2, <3>1, <3>2 DEF Gate
  <2>5. TypedRest'
    BY <1>2 DEF Typed, TypeOK, TypedRest, DeletePC, Gate
  <2> QED
    BY <2>1, <2>4, <2>5 DEF Typed, TypeOK, TypedRest
<1>3. ASSUME NEW d \in Drainers, ReadExpected(d) PROVE Typed'
  <2>1. TypedStores'
    BY <1>3 DEF Typed, TypeOK, TypedStores, TypedLocals, PCLocals, Attempting, EState, DrainPC, NoRev, Revs, Maybe, NoEnvelope, ReadExpected
  <2>2. TypedLocals'
    BY <1>3 DEF Typed, TypeOK, TypedStores, TypedLocals, PCLocals, DrainPC, NoRev, Revs, Maybe, NoEnvelope, ReadExpected, Goto
  <2>3. PCLocals'
    BY <1>3 DEF Typed, TypeOK, TypedLocals, PCLocals, Attempting, DrainPC, NoRev, Revs, Maybe, NoEnvelope, ReadExpected, Goto
  <2>4. TypedLocals' /\ PCLocals'
    BY <2>2, <2>3
  <2>5. TypedRest'
    BY <1>3 DEF Typed, TypeOK, TypedRest, DeletePC, ReadExpected
  <2> QED
    BY <2>1, <2>4, <2>5 DEF Typed, TypeOK, TypedRest
<1>4. ASSUME NEW d \in Drainers, FoldOnto(d) PROVE Typed'
  <2>1. TypedStores'
    BY <1>4 DEF Typed, TypeOK, TypedStores, TypedLocals, PCLocals, Attempting, EState, DrainPC, NoRev, Revs, Maybe, NoEnvelope, FoldOnto, Fold, Finds
  <2>2. TypedLocals'
    BY <1>4 DEF Typed, TypeOK, TypedStores, TypedLocals, PCLocals, DrainPC, NoRev, Revs, Maybe, NoEnvelope, FoldOnto, Goto, Fold, Finds
  <2>3. PCLocals'
    <3>1. /\ pc'[d] = "insert" /\ env'[d] = env[d] /\ tries'[d] = tries[d]
          /\ attempt'[d] = built + 1
          /\ cand'[d] = IF tries[d] = 0 THEN built + 1 ELSE cand[d]
      BY <1>4 DEF Typed, TypeOK, TypedLocals, FoldOnto, Goto
    <3>2. ASSUME NEW c \in Drainers, c # d
          PROVE  /\ pc'[c] = pc[c] /\ env'[c] = env[c] /\ tries'[c] = tries[c]
                 /\ attempt'[c] = attempt[c] /\ cand'[c] = cand[c]
      BY <1>4, <3>2 DEF Typed, TypeOK, TypedLocals, FoldOnto, Goto
    <3>3. built + 1 # NoRev /\ tries[d] \in Nat
      BY <1>4 DEF Typed, TypeOK, TypedLocals, TypedStores, NoRev
    <3>4. pc[d] = "fold"
      BY <1>4 DEF FoldOnto
    <3> QED
      BY <1>4, <3>1, <3>2, <3>3, <3>4 DEF Typed, PCLocals, Attempting
  <2>4. TypedLocals' /\ PCLocals'
    BY <2>2, <2>3
  <2>5. TypedRest'
    BY <1>4 DEF Typed, TypeOK, TypedRest, DeletePC, FoldOnto
  <2> QED
    BY <2>1, <2>4, <2>5 DEF Typed, TypeOK, TypedRest
<1>5. ASSUME NEW d \in Drainers, Insert(d) PROVE Typed'
  <2>1. TypedStores'
    BY <1>5 DEF Typed, TypeOK, TypedStores, TypedLocals, PCLocals, Attempting, EState, DrainPC, NoRev, Revs, Maybe, NoEnvelope, Insert
  <2>2. TypedLocals'
    BY <1>5 DEF Typed, TypeOK, TypedStores, TypedLocals, PCLocals, DrainPC, NoRev, Revs, Maybe, NoEnvelope, Insert, Goto
  <2>3. PCLocals'
    BY <1>5 DEF Typed, TypeOK, TypedLocals, PCLocals, Attempting, DrainPC, NoRev, Revs, Maybe, NoEnvelope, Insert, Goto
  <2>4. TypedLocals' /\ PCLocals'
    BY <2>2, <2>3
  <2>5. TypedRest'
    BY <1>5 DEF Typed, TypeOK, TypedRest, DeletePC, Insert
  <2> QED
    BY <2>1, <2>4, <2>5 DEF Typed, TypeOK, TypedRest
<1>6. ASSUME NEW d \in Drainers, VerifyVisible(d) PROVE Typed'
  <2>1. TypedStores'
    <3>1. content' = content /\ built' = built /\ sink' = sink /\ active' = active
          /\ frontier' = frontier /\ search' = search /\ tombstoned' = tombstoned
      BY <1>6 DEF VerifyVisible
    <3>2. cache' \in [Drainers -> SUBSET Revs]
      BY <1>6 DEF Typed, TypeOK, TypedStores, VerifyVisible
    <3>3. env[d] \in Envelopes
      BY <1>6 DEF Typed, PCLocals, VerifyVisible
    <3>4. estate' \in [Envelopes -> EState] /\ outbox' \subseteq Envelopes
      BY <1>6, <3>3 DEF Typed, TypeOK, TypedStores, EState, VerifyVisible, MarkFailed
    <3> QED
      BY <3>1, <3>2, <3>4 DEF Typed, TypeOK, TypedStores
  <2>4. TypedLocals' /\ PCLocals'
    <3>1. CASE Return(d)
      BY <1>6, <3>1, ReturnTyped
    <3>2. CASE /\ IF tries[d] < MaxAttempts
                  THEN Goto(d, "swap") /\ UNCHANGED ret
                  ELSE Goto(d, "check") /\ ret' = [ret EXCEPT ![d] = cand[d]]
               /\ UNCHANGED <<env, base, cand, attempt, bound, tries>>
      <4>1. TypedLocals'
        BY <1>6, <3>2 DEF Typed, TypeOK, TypedLocals, PCLocals, DrainPC, NoRev, Maybe, VerifyVisible, Goto
      <4>2. PCLocals'
        BY <1>6, <3>2 DEF Typed, TypeOK, TypedLocals, PCLocals, Attempting, DrainPC, NoRev, Maybe, VerifyVisible, Goto
      <4> QED
        BY <4>1, <4>2
    <3> QED
      BY <1>6, <3>1, <3>2 DEF VerifyVisible
  <2>5. TypedRest'
    BY <1>6 DEF Typed, TypeOK, TypedRest, DeletePC, VerifyVisible
  <2> QED
    BY <2>1, <2>4, <2>5 DEF Typed, TypeOK, TypedRest
<1>7. ASSUME NEW d \in Drainers, SwapRefused(d) PROVE Typed'
  <2>1. TypedStores'
    BY <1>7 DEF Typed, TypeOK, TypedStores, TypedLocals, PCLocals, Attempting, EState, DrainPC, NoRev, Revs, Maybe, NoEnvelope, SwapRefused
  <2>2. TypedLocals'
    BY <1>7 DEF Typed, TypeOK, TypedStores, TypedLocals, PCLocals, DrainPC, NoRev, Revs, Maybe, NoEnvelope, SwapRefused, Goto
  <2>3. PCLocals'
    BY <1>7 DEF Typed, TypeOK, TypedLocals, PCLocals, Attempting, DrainPC, NoRev, Revs, Maybe, NoEnvelope, SwapRefused, Goto
  <2>4. TypedLocals' /\ PCLocals'
    BY <2>2, <2>3
  <2>5. TypedRest'
    BY <1>7 DEF Typed, TypeOK, TypedRest, DeletePC, SwapRefused
  <2> QED
    BY <2>1, <2>4, <2>5 DEF Typed, TypeOK, TypedRest
<1>8. ASSUME NEW d \in Drainers, SwapWon(d) PROVE Typed'
  <2>1. TypedStores'
    BY <1>8 DEF Typed, TypeOK, TypedStores, TypedLocals, PCLocals, Attempting, EState, DrainPC, NoRev, Revs, Maybe, NoEnvelope, SwapWon
  <2>2. TypedLocals'
    BY <1>8 DEF Typed, TypeOK, TypedStores, TypedLocals, PCLocals, DrainPC, NoRev, Revs, Maybe, NoEnvelope, SwapWon, Goto
  <2>3. PCLocals'
    BY <1>8 DEF Typed, TypeOK, TypedLocals, PCLocals, Attempting, DrainPC, NoRev, Revs, Maybe, NoEnvelope, SwapWon, Goto
  <2>4. TypedLocals' /\ PCLocals'
    BY <2>2, <2>3
  <2>5. TypedRest'
    BY <1>8 DEF Typed, TypeOK, TypedRest, DeletePC, TypedLocals, PCLocals, SwapWon
  <2> QED
    BY <2>1, <2>4, <2>5 DEF Typed, TypeOK, TypedRest
<1>9. ASSUME NEW d \in Drainers, SwapLost(d) PROVE Typed'
  <2>1. TypedStores'
    BY <1>9 DEF Typed, TypeOK, TypedStores, TypedLocals, PCLocals, Attempting, EState, DrainPC, NoRev, Revs, Maybe, NoEnvelope, SwapLost
  <2>2. TypedLocals'
    BY <1>9 DEF Typed, TypeOK, TypedStores, TypedLocals, PCLocals, DrainPC, NoRev, Revs, Maybe, NoEnvelope, SwapLost, Goto
  <2>3. PCLocals'
    BY <1>9 DEF Typed, TypeOK, TypedLocals, PCLocals, Attempting, DrainPC, NoRev, Revs, Maybe, NoEnvelope, SwapLost, Goto
  <2>4. TypedLocals' /\ PCLocals'
    BY <2>2, <2>3
  <2>5. TypedRest'
    BY <1>9 DEF Typed, TypeOK, TypedRest, DeletePC, SwapLost
  <2> QED
    BY <2>1, <2>4, <2>5 DEF Typed, TypeOK, TypedRest
<1>10. ASSUME NEW d \in Drainers, Reload(d) PROVE Typed'
  <2>1. TypedStores'
    BY <1>10 DEF Typed, TypeOK, TypedStores, TypedLocals, PCLocals, Attempting, EState, DrainPC, NoRev, Revs, Maybe, NoEnvelope, Reload
  <2>2. TypedLocals'
    <3>1. tries' \in [Drainers -> 0..MaxAttempts]
      BY <1>10 DEF Typed, TypeOK, TypedLocals, PCLocals, Reload
    <3>2. pc' \in [Drainers -> DrainPC]
      BY <1>10 DEF Typed, TypeOK, TypedLocals, DrainPC, Reload, Goto
    <3>3. base' \in [Drainers -> Maybe(Revs)] /\ ret' \in [Drainers -> Maybe(Revs)]
      BY <1>10 DEF Typed, TypeOK, TypedStores, TypedLocals, Reload
    <3> QED
      BY <1>10, <3>1, <3>2, <3>3 DEF Typed, TypeOK, TypedLocals, Reload
  <2>3. PCLocals'
    BY <1>10 DEF Typed, TypeOK, TypedLocals, PCLocals, Attempting, DrainPC, NoRev, Revs, Maybe, NoEnvelope, Reload, Goto
  <2>4. TypedLocals' /\ PCLocals'
    BY <2>2, <2>3
  <2>5. TypedRest'
    BY <1>10 DEF Typed, TypeOK, TypedRest, DeletePC, Reload
  <2> QED
    BY <2>1, <2>4, <2>5 DEF Typed, TypeOK, TypedRest
<1>11. ASSUME NEW d \in Drainers, Fetch(d) PROVE Typed'
  <2>1. TypedStores'
    BY <1>11 DEF Typed, TypeOK, TypedStores, TypedLocals, PCLocals, Attempting, EState, DrainPC, NoRev, Revs, Maybe, NoEnvelope, Fetch
  <2>2. TypedLocals'
    BY <1>11 DEF Typed, TypeOK, TypedStores, TypedLocals, PCLocals, DrainPC, NoRev, Revs, Maybe, NoEnvelope, Fetch, Goto
  <2>3. PCLocals'
    BY <1>11 DEF Typed, TypeOK, TypedLocals, PCLocals, Attempting, DrainPC, NoRev, Revs, Maybe, NoEnvelope, Fetch, Goto
  <2>4. TypedLocals' /\ PCLocals'
    BY <2>2, <2>3
  <2>5. TypedRest'
    BY <1>11 DEF Typed, TypeOK, TypedRest, DeletePC, Fetch
  <2> QED
    BY <2>1, <2>4, <2>5 DEF Typed, TypeOK, TypedRest
<1>12. ASSUME NEW d \in Drainers, CheckTombstoned(d) PROVE Typed'
  <2>1. TypedStores'
    BY <1>12 DEF Typed, TypeOK, TypedStores, TypedLocals, PCLocals, Attempting, EState, DrainPC, NoRev, Revs, Maybe, NoEnvelope, CheckTombstoned, TombstoneEnvelopes
  <2>4. TypedLocals' /\ PCLocals'
    BY <1>12, ReturnTyped DEF CheckTombstoned
  <2>5. TypedRest'
    BY <1>12 DEF Typed, TypeOK, TypedRest, DeletePC, CheckTombstoned
  <2> QED
    BY <2>1, <2>4, <2>5 DEF Typed, TypeOK, TypedRest
<1>13. ASSUME NEW d \in Drainers, CheckUncovered(d) PROVE Typed'
  <2>1. TypedStores'
    BY <1>13 DEF Typed, TypeOK, TypedStores, TypedLocals, PCLocals, Attempting, EState, DrainPC, NoRev, Revs, Maybe, NoEnvelope, CheckUncovered, MarkFailed
  <2>4. TypedLocals' /\ PCLocals'
    BY <1>13, ReturnTyped DEF CheckUncovered
  <2>5. TypedRest'
    BY <1>13 DEF Typed, TypeOK, TypedRest, DeletePC, CheckUncovered
  <2> QED
    BY <2>1, <2>4, <2>5 DEF Typed, TypeOK, TypedRest
<1>14. ASSUME NEW d \in Drainers, CheckCovered(d) PROVE Typed'
  <2>1. TypedStores'
    BY <1>14 DEF Typed, TypeOK, TypedStores, TypedLocals, PCLocals, Attempting, EState, DrainPC, NoRev, Revs, Maybe, NoEnvelope, CheckCovered
  <2>2. TypedLocals'
    BY <1>14 DEF Typed, TypeOK, TypedStores, TypedLocals, PCLocals, DrainPC, NoRev, Revs, Maybe, NoEnvelope, CheckCovered, Goto
  <2>3. PCLocals'
    BY <1>14 DEF Typed, TypeOK, TypedLocals, PCLocals, Attempting, DrainPC, NoRev, Revs, Maybe, NoEnvelope, CheckCovered, Goto
  <2>4. TypedLocals' /\ PCLocals'
    BY <2>2, <2>3
  <2>5. TypedRest'
    BY <1>14 DEF Typed, TypeOK, TypedRest, DeletePC, CheckCovered
  <2> QED
    BY <2>1, <2>4, <2>5 DEF Typed, TypeOK, TypedRest
<1>15. ASSUME NEW d \in Drainers, ReadBeforeIndex(d) PROVE Typed'
  <2>1. TypedStores'
    BY <1>15 DEF Typed, TypeOK, TypedStores, TypedLocals, PCLocals, Attempting, EState, DrainPC, NoRev, Revs, Maybe, NoEnvelope, ReadBeforeIndex
  <2>2. TypedLocals'
    BY <1>15 DEF Typed, TypeOK, TypedStores, TypedLocals, PCLocals, DrainPC, NoRev, Revs, Maybe, NoEnvelope, ReadBeforeIndex, Goto
  <2>3. PCLocals'
    BY <1>15 DEF Typed, TypeOK, TypedLocals, PCLocals, Attempting, DrainPC, NoRev, Revs, Maybe, NoEnvelope, ReadBeforeIndex, Goto
  <2>4. TypedLocals' /\ PCLocals'
    BY <2>2, <2>3
  <2>5. TypedRest'
    BY <1>15 DEF Typed, TypeOK, TypedRest, DeletePC, ReadBeforeIndex
  <2> QED
    BY <2>1, <2>4, <2>5 DEF Typed, TypeOK, TypedRest
<1>16. ASSUME NEW d \in Drainers, Upsert(d) PROVE Typed'
  <2>1. TypedStores'
    BY <1>16 DEF Typed, TypeOK, TypedStores, TypedLocals, PCLocals, Attempting, EState, DrainPC, NoRev, Revs, Maybe, NoEnvelope, Upsert
  <2>2. TypedLocals'
    BY <1>16 DEF Typed, TypeOK, TypedStores, TypedLocals, PCLocals, DrainPC, NoRev, Revs, Maybe, NoEnvelope, Upsert, Goto
  <2>3. PCLocals'
    BY <1>16 DEF Typed, TypeOK, TypedLocals, PCLocals, Attempting, DrainPC, NoRev, Revs, Maybe, NoEnvelope, Upsert, Goto
  <2>4. TypedLocals' /\ PCLocals'
    BY <2>2, <2>3
  <2>5. TypedRest'
    BY <1>16 DEF Typed, TypeOK, TypedRest, DeletePC, Upsert
  <2> QED
    BY <2>1, <2>4, <2>5 DEF Typed, TypeOK, TypedRest
<1>17. ASSUME NEW d \in Drainers, Mark(d) PROVE Typed'
  <2>1. TypedStores'
    BY <1>17 DEF Typed, TypeOK, TypedStores, TypedLocals, PCLocals, Attempting, EState, DrainPC, NoRev, Revs, Maybe, NoEnvelope, Mark, MarkAssembled
  <2>4. TypedLocals' /\ PCLocals'
    BY <1>17, ReturnTyped DEF Mark
  <2>5. TypedRest'
    BY <1>17 DEF Typed, TypeOK, TypedRest, DeletePC, Mark
  <2> QED
    BY <2>1, <2>4, <2>5 DEF Typed, TypeOK, TypedRest
<1>18. ASSUME NEW d \in Drainers, Fail(d) PROVE Typed'
  <2>1. TypedStores'
    BY <1>18 DEF Typed, TypeOK, TypedStores, TypedLocals, PCLocals, Attempting, EState, DrainPC, NoRev, Revs, Maybe, NoEnvelope, Fail, MarkFailed
  <2>4. TypedLocals' /\ PCLocals'
    BY <1>18, ReturnTyped DEF Fail
  <2>5. TypedRest'
    BY <1>18 DEF Typed, TypeOK, TypedRest, DeletePC, Fail, Upset, Tear
  <2> QED
    BY <2>1, <2>4, <2>5 DEF Typed, TypeOK, TypedRest
<1>19. ASSUME NEW d \in Drainers, Crash(d) PROVE Typed'
  <2>1. TypedStores'
    BY <1>19 DEF Typed, TypeOK, TypedStores, TypedLocals, PCLocals, Attempting, EState, DrainPC, NoRev, Revs, Maybe, NoEnvelope, Crash
  <2>4. TypedLocals' /\ PCLocals'
    BY <1>19, ReturnTyped DEF Crash
  <2>5. TypedRest'
    BY <1>19 DEF Typed, TypeOK, TypedRest, DeletePC, Crash, Upset, Tear
  <2> QED
    BY <2>1, <2>4, <2>5 DEF Typed, TypeOK, TypedRest
<1>20. ASSUME NEW e \in Envelopes, Requeue(e) PROVE Typed'
  <2>1. TypedStores'
    BY <1>20 DEF Typed, TypeOK, TypedStores, TypedLocals, PCLocals, Attempting, EState, DrainPC, NoRev, Revs, Maybe, NoEnvelope, Requeue
  <2>2. TypedLocals'
    BY <1>20 DEF Typed, TypeOK, TypedStores, TypedLocals, PCLocals, DrainPC, NoRev, Revs, Maybe, NoEnvelope, Requeue
  <2>3. PCLocals'
    BY <1>20 DEF Typed, TypeOK, TypedLocals, PCLocals, Attempting, DrainPC, NoRev, Revs, Maybe, NoEnvelope, Requeue
  <2>4. TypedLocals' /\ PCLocals'
    BY <2>2, <2>3
  <2>5. TypedRest'
    BY <1>20 DEF Typed, TypeOK, TypedRest, DeletePC, Requeue, Upset
  <2> QED
    BY <2>1, <2>4, <2>5 DEF Typed, TypeOK, TypedRest
<1>21. ASSUME NEW b \in DeletionKinds, RequestDeletion(b) PROVE Typed'
  <2>1. TypedStores'
    BY <1>21 DEF Typed, TypeOK, TypedStores, TypedLocals, PCLocals, Attempting, EState, DrainPC, NoRev, Revs, Maybe, NoEnvelope, RequestDeletion
  <2>2. TypedLocals'
    BY <1>21 DEF Typed, TypeOK, TypedStores, TypedLocals, PCLocals, DrainPC, NoRev, Revs, Maybe, NoEnvelope, RequestDeletion
  <2>3. PCLocals'
    BY <1>21 DEF Typed, TypeOK, TypedLocals, PCLocals, Attempting, DrainPC, NoRev, Revs, Maybe, NoEnvelope, RequestDeletion
  <2>4. TypedLocals' /\ PCLocals'
    BY <2>2, <2>3
  <2>5. TypedRest'
    BY <1>21 DEF Typed, TypeOK, TypedRest, DeletePC, RequestDeletion
  <2> QED
    BY <2>1, <2>4, <2>5 DEF Typed, TypeOK, TypedRest
<1>22. ASSUME WriteTombstone PROVE Typed'
  <2>1. TypedStores'
    BY <1>22 DEF Typed, TypeOK, TypedStores, TypedLocals, PCLocals, Attempting, EState, DrainPC, NoRev, Revs, Maybe, NoEnvelope, WriteTombstone, TombstoneEnvelopes
  <2>2. TypedLocals'
    BY <1>22 DEF Typed, TypeOK, TypedStores, TypedLocals, PCLocals, DrainPC, NoRev, Revs, Maybe, NoEnvelope, WriteTombstone
  <2>3. PCLocals'
    BY <1>22 DEF Typed, TypeOK, TypedLocals, PCLocals, Attempting, DrainPC, NoRev, Revs, Maybe, NoEnvelope, WriteTombstone
  <2>4. TypedLocals' /\ PCLocals'
    BY <2>2, <2>3
  <2>5. TypedRest'
    BY <1>22 DEF Typed, TypeOK, TypedRest, DeletePC, WriteTombstone
  <2> QED
    BY <2>1, <2>4, <2>5 DEF Typed, TypeOK, TypedRest
<1>23. ASSUME DeleteRows PROVE Typed'
  <2>1. TypedStores'
    BY <1>23 DEF Typed, TypeOK, TypedStores, TypedLocals, PCLocals, Attempting, EState, DrainPC, NoRev, Revs, Maybe, NoEnvelope, DeleteRows
  <2>2. TypedLocals'
    BY <1>23 DEF Typed, TypeOK, TypedStores, TypedLocals, PCLocals, DrainPC, NoRev, Revs, Maybe, NoEnvelope, DeleteRows
  <2>3. PCLocals'
    BY <1>23 DEF Typed, TypeOK, TypedLocals, PCLocals, Attempting, DrainPC, NoRev, Revs, Maybe, NoEnvelope, DeleteRows
  <2>4. TypedLocals' /\ PCLocals'
    BY <2>2, <2>3
  <2>5. TypedRest'
    BY <1>23 DEF Typed, TypeOK, TypedRest, DeletePC, DeleteRows
  <2> QED
    BY <2>1, <2>4, <2>5 DEF Typed, TypeOK, TypedRest
<1>24. ASSUME DeletePointer PROVE Typed'
  <2>1. TypedStores'
    BY <1>24 DEF Typed, TypeOK, TypedStores, TypedLocals, PCLocals, Attempting, EState, DrainPC, NoRev, Revs, Maybe, NoEnvelope, DeletePointer
  <2>2. TypedLocals'
    BY <1>24 DEF Typed, TypeOK, TypedStores, TypedLocals, PCLocals, DrainPC, NoRev, Revs, Maybe, NoEnvelope, DeletePointer
  <2>3. PCLocals'
    BY <1>24 DEF Typed, TypeOK, TypedLocals, PCLocals, Attempting, DrainPC, NoRev, Revs, Maybe, NoEnvelope, DeletePointer
  <2>4. TypedLocals' /\ PCLocals'
    BY <2>2, <2>3
  <2>5. TypedRest'
    BY <1>24 DEF Typed, TypeOK, TypedRest, DeletePC, DeletePointer
  <2> QED
    BY <2>1, <2>4, <2>5 DEF Typed, TypeOK, TypedRest
<1>25. ASSUME DeleteSearch PROVE Typed'
  <2>1. TypedStores'
    BY <1>25 DEF Typed, TypeOK, TypedStores, TypedLocals, PCLocals, Attempting, EState, DrainPC, NoRev, Revs, Maybe, NoEnvelope, DeleteSearch
  <2>2. TypedLocals'
    BY <1>25 DEF Typed, TypeOK, TypedStores, TypedLocals, PCLocals, DrainPC, NoRev, Revs, Maybe, NoEnvelope, DeleteSearch
  <2>3. PCLocals'
    BY <1>25 DEF Typed, TypeOK, TypedLocals, PCLocals, Attempting, DrainPC, NoRev, Revs, Maybe, NoEnvelope, DeleteSearch
  <2>4. TypedLocals' /\ PCLocals'
    BY <2>2, <2>3
  <2>5. TypedRest'
    BY <1>25 DEF Typed, TypeOK, TypedRest, DeletePC, DeleteSearch
  <2> QED
    BY <2>1, <2>4, <2>5 DEF Typed, TypeOK, TypedRest
<1>26. ASSUME PurgeQueues PROVE Typed'
  <2>1. TypedStores'
    BY <1>26 DEF Typed, TypeOK, TypedStores, TypedLocals, PCLocals, Attempting, EState, DrainPC, NoRev, Revs, Maybe, NoEnvelope, PurgeQueues
  <2>2. TypedLocals'
    BY <1>26 DEF Typed, TypeOK, TypedStores, TypedLocals, PCLocals, DrainPC, NoRev, Revs, Maybe, NoEnvelope, PurgeQueues
  <2>3. PCLocals'
    BY <1>26 DEF Typed, TypeOK, TypedLocals, PCLocals, Attempting, DrainPC, NoRev, Revs, Maybe, NoEnvelope, PurgeQueues
  <2>4. TypedLocals' /\ PCLocals'
    BY <2>2, <2>3
  <2>5. TypedRest'
    BY <1>26 DEF Typed, TypeOK, TypedRest, DeletePC, PurgeQueues
  <2> QED
    BY <2>1, <2>4, <2>5 DEF Typed, TypeOK, TypedRest
<1>27. CASE UNCHANGED vars
  BY <1>27 DEF Typed, TypeOK, TypedStores, TypedLocals, PCLocals
<1> QED
  BY <1>1, <1>2, <1>3, <1>4, <1>5, <1>6, <1>7, <1>8, <1>9, <1>10, <1>11, <1>12, <1>13, <1>14, <1>15, <1>16, <1>17, <1>18, <1>19, <1>20, <1>21, <1>22, <1>23, <1>24, <1>25, <1>26, <1>27 DEF Next, Drain, Process, Delete

(* Every store, local and counter of the drain keeps its type (the stores   *)
(* of store/postgres.py and store/clickhouse.py, the locals of promote).    *)
THEOREM TypeCorrect == Spec => []TypeOK
<1>1. Typed => TypeOK
  BY DEF Typed
<1> QED
  BY <1>1, TypedInit, TypedNext, PTL DEF Spec

-----------------------------------------------------------------------------
(* Safety. *)

(* The part of IInv that holds of a tombstoned call as well. *)
IdInv == PointerKnown /\ Owned /\ DeletesTombstoned /\ NoConflictServed

SameLocals(c) ==
    /\ pc'[c] = pc[c] /\ env'[c] = env[c] /\ base'[c] = base[c]
    /\ cand'[c] = cand[c] /\ attempt'[c] = attempt[c] /\ bound'[c] = bound[c]
    /\ tries'[c] = tries[c] /\ ret'[c] = ret[c]

-----------------------------------------------------------------------------
(* A step of one drainer leaves the locals of the others alone. *)
LEMMA OthersSame ==
    ASSUME Typed, NEW d \in Drainers, Drain(d), NEW c \in Drainers, c # d
    PROVE  SameLocals(c)
<1> USE DEF Typed, TypeOK, TypedLocals, SameLocals, locals
<1>1. Return(d) => SameLocals(c)
  BY DEF Return, Goto
<1>2. ASSUME NEW e \in Envelopes, Claim(d, e) PROVE SameLocals(c)
  BY <1>2 DEF Claim, Goto
<1>3. CASE Gate(d) \/ ReadExpected(d) \/ FoldOnto(d) \/ Insert(d)
  BY <1>1, <1>3 DEF Gate, ReadExpected, FoldOnto, Insert, Goto
<1>4. CASE VerifyVisible(d)
  BY <1>1, <1>4 DEF VerifyVisible, Goto
<1>5. CASE SwapRefused(d) \/ SwapWon(d) \/ SwapLost(d)
  BY <1>5 DEF SwapRefused, SwapWon, SwapLost, Goto
<1>6. CASE Reload(d) \/ Fetch(d)
  BY <1>6 DEF Reload, Fetch, Goto
<1>7. CASE CheckTombstoned(d) \/ CheckUncovered(d) \/ CheckCovered(d)
  BY <1>1, <1>7 DEF CheckTombstoned, CheckUncovered, CheckCovered, Goto
<1>8. CASE ReadBeforeIndex(d) \/ Upsert(d) \/ Mark(d) \/ Fail(d) \/ Crash(d)
  BY <1>1, <1>8 DEF ReadBeforeIndex, Upsert, Mark, Fail, Crash, Goto
<1> QED
  BY <1>2, <1>3, <1>4, <1>5, <1>6, <1>7, <1>8 DEF Drain, Process

(* A drainer that returns holds no revision and expects none. *)
LEMMA ReturnEmpty ==
    ASSUME Typed, NEW d \in Drainers, Return(d)
    PROVE  /\ pc'[d] = "idle" /\ env'[d] = NoEnvelope /\ base'[d] = NoRev
           /\ cand'[d] = NoRev /\ attempt'[d] = NoRev /\ tries'[d] = 0
  BY DEF Typed, TypeOK, TypedLocals, Return, Goto

LEMMA ReturnInv ==
    ASSUME Typed, NEW d \in Drainers, Return(d)
    PROVE  DrainerInv(d)'
  BY ReturnEmpty DEF DrainerInv, WrittenFirst, BaseKnown, FoldedOntoBase, BoundHeld,
                     OwnInstalled, Attempting, FactsAt, Maybe, NoRev

(* The steps that make no revision and hand none on. *)
LEMMA OwnedKept ==
    ASSUME Typed, Owned, built' = built,
           NEW d \in Drainers, \A c \in Drainers \ {d} : SameLocals(c),
           Return(d) \/ (cand' = cand /\ attempt' = attempt)
    PROVE  Owned'
<1>1. CASE cand' = cand /\ attempt' = attempt
  BY <1>1 DEF Owned
<1>2. CASE Return(d)
  <2>1. cand'[d] = NoRev /\ attempt'[d] = NoRev
    BY <1>2, ReturnEmpty
  <2>2. \A c \in Drainers \ {d} : cand'[c] = cand[c] /\ attempt'[c] = attempt[c]
    BY DEF SameLocals
  <2>3. built \in Nat
    BY PromotionAssumption DEF Typed, TypeOK, TypedStores
  <2> QED
    BY <2>1, <2>2, <2>3 DEF Owned, NoRev
<1> QED
  BY <1>1, <1>2

(* Which steps touch what: FoldOnto alone makes revisions, Insert alone     *)
(* writes rows, SwapWon alone moves the pointer to one; the others leave    *)
(* rows and pointer or take them away, and a tombstone stays.               *)
FrameFacts ==
    /\ (\A d \in Drainers : ~FoldOnto(d)) => built' = built /\ content' = content
    /\ (\A d \in Drainers : ~Insert(d)) => sink' \in {sink, {}}
    /\ (\A d \in Drainers : ~SwapWon(d)) => active' \in {active, NoRev} /\ applied' = applied
    /\ tombstoned => tombstoned'

LEMMA Frame ==
    ASSUME Typed, [Next]_vars
    PROVE  FrameFacts
<1> USE DEF FrameFacts, Typed, TypeOK, TypedStores, vars, stores, revisions, pointer, inbox, history
<1>1. CASE UNCHANGED vars
  BY <1>1
<1>2. CASE Delete
  BY <1>2 DEF Delete, RequestDeletion, WriteTombstone, DeleteRows, DeletePointer,
              DeleteSearch, PurgeQueues
<1>3. ASSUME NEW e \in Envelopes, Requeue(e) PROVE FrameFacts
  BY <1>3 DEF Requeue
<1>4. ASSUME NEW d \in Drainers, NEW e \in Envelopes, Claim(d, e) PROVE FrameFacts
  BY <1>4 DEF Claim
<1>5. ASSUME NEW d \in Drainers,
             Process(d) \/ Fail(d) \/ Crash(d)
      PROVE  FrameFacts
  BY <1>5 DEF Process, Gate, ReadExpected, FoldOnto, Insert, VerifyVisible, SwapRefused,
         SwapWon, SwapLost, Reload, Fetch, CheckTombstoned, CheckUncovered, CheckCovered,
         ReadBeforeIndex, Upsert, Mark, Fail, Crash
<1> QED
  BY <1>1, <1>2, <1>3, <1>4, <1>5 DEF Next, Drain
(* The revisions that exist keep their facts. *)
LEMMA ContentKept ==
    ASSUME Typed, [Next]_vars
    PROVE  built' \in Nat /\ built' >= built /\ \A r \in 1..built : content'[r] = content[r]
<1>1. ASSUME NEW d \in Drainers, FoldOnto(d)
      PROVE  built' = built + 1 /\ \A r \in 1..built : content'[r] = content[r]
  BY <1>1, PromotionAssumption DEF FoldOnto, Typed, TypeOK, TypedStores, Revs
<1>2. (\A d \in Drainers : ~FoldOnto(d)) => built' = built /\ content' = content
  BY Frame DEF FrameFacts
<1>3. built \in Nat
  BY PromotionAssumption DEF Typed, TypeOK, TypedStores
<1> QED
  BY <1>1, <1>2, <1>3

(* Revision ids, and the pointer never at conflicting facts. *)
LEMMA IdInvNext ==
    ASSUME Typed, IdInv, [Next]_vars
    PROVE  IdInv'
<1> USE DEF IdInv
<1>0. built \in Nat /\ built' \in Nat /\ built' >= built
  BY ContentKept, PromotionAssumption DEF Typed, TypeOK, TypedStores
<1>1. PointerKnown'
  <2>1. ASSUME NEW d \in Drainers, SwapWon(d) PROVE PointerKnown'
    BY <1>0, <2>1 DEF PointerKnown, Owned, SwapWon, revisions
  <2>2. ASSUME NEW d \in Drainers, Insert(d) PROVE PointerKnown'
    <3>1. attempt[d] \in 1..built
      BY <1>0, <2>2 DEF Owned, Insert, Typed, PCLocals, Attempting, NoRev
    <3> QED
      BY <1>0, <2>2, <3>1 DEF PointerKnown, Insert, pointer
  <2>3. ASSUME \A d \in Drainers : ~SwapWon(d) /\ ~Insert(d)
        PROVE  PointerKnown'
    <3>1. active' \in {active, NoRev} /\ sink' \in {sink, {}}
      BY <2>3, Frame DEF FrameFacts
    <3>2. 1..built \subseteq 1..built' /\ 0..built \subseteq 0..built'
      BY <1>0
    <3> QED
      BY <1>0, <3>1, <3>2 DEF PointerKnown, NoRev
  <2> QED
    BY <2>1, <2>2, <2>3
<1>2. Owned'
  <2>1. ASSUME NEW d \in Drainers, Drain(d) PROVE Owned'
    <3>1. \A c \in Drainers \ {d} : SameLocals(c)
      BY <2>1, OthersSame
    <3>2. CASE FoldOnto(d)
      <4>1. built' = built + 1 /\ attempt'[d] = built + 1 /\ cand'[d] \in {built + 1, cand[d]}
        BY <3>2 DEF FoldOnto, Typed, TypeOK, TypedLocals
      <4>2. \A c \in Drainers \ {d} : cand'[c] = cand[c] /\ attempt'[c] = attempt[c]
        BY <3>1 DEF SameLocals
      <4>3. (\A c \in Drainers : cand[c] \in 0..built /\ attempt[c] \in 0..built)'
        BY <1>0, <4>1, <4>2 DEF Owned
      <4> QED
        BY <1>0, <4>1, <4>2, <4>3 DEF Owned
    <3>3. ASSUME ~FoldOnto(d)
          PROVE  built' = built /\ (Return(d) \/ (cand' = cand /\ attempt' = attempt))
      BY <2>1, <3>3 DEF Drain, Process, Claim, Gate, ReadExpected, Insert, VerifyVisible,
             SwapRefused, SwapWon, SwapLost, Reload, Fetch, CheckTombstoned, CheckUncovered,
             CheckCovered, ReadBeforeIndex, Upsert, Mark, Fail, Crash, stores, revisions, locals
    <3> QED
      BY <3>1, <3>2, <3>3, OwnedKept
  <2>2. CASE ~\E d \in Drainers : Drain(d)
    <3>1. built' = built /\ cand' = cand /\ attempt' = attempt
      BY <2>2 DEF Next, Requeue, Delete, RequestDeletion, WriteTombstone, DeleteRows,
             DeletePointer, DeleteSearch, PurgeQueues, vars, stores, revisions, locals
    <3> QED
      BY <3>1 DEF Owned
  <2> QED
    BY <2>1, <2>2
<1>3. DeletesTombstoned'
  <2>1. tombstoned => tombstoned'
    BY Frame DEF FrameFacts
  <2>2. CASE ~Delete
    <3>1. dpc' = dpc
      BY <2>2 DEF Next, Drain, Process, Claim, Gate, ReadExpected, FoldOnto, Insert,
             VerifyVisible, SwapRefused, SwapWon, SwapLost, Reload, Fetch, CheckTombstoned,
             CheckUncovered, CheckCovered, ReadBeforeIndex, Upsert, Mark, Fail, Crash, Requeue,
             vars, deleter
    <3> QED
      BY <2>1, <3>1 DEF DeletesTombstoned
  <2>3. CASE Delete
    BY <2>1, <2>3 DEF DeletesTombstoned, Delete, RequestDeletion, WriteTombstone, DeleteRows,
           DeletePointer, DeleteSearch, PurgeQueues
  <2> QED
    BY <2>2, <2>3
<1>4. NoConflictServed'
  <2>1. ASSUME NEW d \in Drainers, SwapWon(d) PROVE NoConflictServed'
    BY <2>1 DEF NoConflictServed, ActiveFacts, Conflicting, SwapWon, revisions
  <2>2. ASSUME \A d \in Drainers : ~SwapWon(d)
        PROVE  active' \in {active, NoRev}
    BY <2>2, Frame DEF FrameFacts
  <2>3. active' = active => ActiveFacts' = ActiveFacts
    BY <1>0, ContentKept DEF ActiveFacts, PointerKnown, NoRev
  <2>4. active' = NoRev => ActiveFacts' = {}
    BY DEF ActiveFacts
  <2> QED
    BY <2>1, <2>2, <2>3, <2>4 DEF NoConflictServed, Conflicting
<1> QED
  BY <1>1, <1>2, <1>3, <1>4

-----------------------------------------------------------------------------
(* The call while it is not tombstoned.                                    *)

(* Rows stay, and only a won swap moves the pointer. *)
StoresGrow ==
    /\ sink \subseteq sink'
    /\ (\A d \in Drainers : ~SwapWon(d)) => active' = active /\ frontier' = frontier

LEMMA Grow ==
    ASSUME IInv, [Next]_vars, ~tombstoned'
    PROVE  ~tombstoned /\ StoresGrow
<1> USE DEF IInv, DeletesTombstoned, StoresGrow, vars, stores, revisions, pointer, inbox
<1>0. ~tombstoned
  BY Frame DEF FrameFacts, Typed
<1>1. CASE UNCHANGED vars
  BY <1>0, <1>1
<1>2. CASE Delete
  BY <1>0, <1>2 DEF Delete, RequestDeletion, WriteTombstone, DeleteRows, DeletePointer,
              DeleteSearch, PurgeQueues
<1>3. ASSUME NEW e \in Envelopes, Requeue(e) PROVE StoresGrow
  BY <1>3 DEF Requeue
<1>4. ASSUME NEW d \in Drainers, NEW e \in Envelopes, Claim(d, e) PROVE StoresGrow
  BY <1>4 DEF Claim
<1>5. ASSUME NEW d \in Drainers, Process(d) \/ Fail(d) \/ Crash(d)
      PROVE  StoresGrow
  BY <1>0, <1>5 DEF Process, Gate, ReadExpected, FoldOnto, Insert, VerifyVisible, SwapRefused,
         SwapWon, SwapLost, Reload, Fetch, CheckTombstoned, CheckUncovered, CheckCovered,
         ReadBeforeIndex, Upsert, Mark, Fail, Crash
<1> QED
  BY <1>0, <1>1, <1>2, <1>3, <1>4, <1>5 DEF Next, Drain

(* The facts of a revision that exists do not change. *)
LEMMA FactsAtKept ==
    ASSUME IInv, [Next]_vars, NEW r \in 0..built
    PROVE  FactsAt(r)' = FactsAt(r)
  BY ContentKept, PromotionAssumption
     DEF IInv, Typed, TypeOK, TypedStores, FactsAt, NoRev

(* What a won swap installs: the envelope folded onto what was active. *)
LEMMA SwapInstalls ==
    ASSUME IInv, ~tombstoned, NEW d \in Drainers, SwapWon(d)
    PROVE  /\ ActiveFacts' = Fold(ActiveFacts, env[d])
           /\ active' = attempt[d] /\ attempt[d] # NoRev /\ attempt[d] \in sink
           /\ frontier' = bound[d] /\ bound[d] \subseteq Held \cup Adds[env[d]]
           /\ applied' = applied \cup {env[d]} /\ env[d] \in Envelopes
<1>1. /\ pc[d] = "swap" /\ active = base[d] /\ active' = attempt[d] /\ content' = content
      /\ frontier' = bound[d] /\ applied' = applied \cup {env[d]}
  BY DEF SwapWon, revisions
<1>2. attempt[d] # NoRev /\ env[d] \in Envelopes
  BY <1>1 DEF IInv, PCLocals, Attempting
<1>3. DrainerInv(d)
  BY DEF IInv
<1>4. content[attempt[d]] = Fold(FactsAt(base[d]), env[d])
  BY <1>1, <1>3 DEF DrainerInv, FoldedOntoBase, Attempting
<1>5. attempt[d] \in sink /\ bound[d] \subseteq Held \cup Adds[env[d]]
  BY <1>1, <1>3 DEF DrainerInv, WrittenFirst, BoundHeld, Attempting
<1>6. FactsAt(base[d]) = ActiveFacts
  BY <1>1 DEF FactsAt, ActiveFacts
<1>7. ActiveFacts' = content[attempt[d]]
  BY <1>1, <1>2 DEF ActiveFacts
<1> QED
  BY <1>1, <1>2, <1>4, <1>5, <1>6, <1>7

(* What was ever shown is shown still, or was withdrawn. *)
LEMMA HeldGrows ==
    ASSUME IInv, [Next]_vars, ~tombstoned'
    PROVE  Held \subseteq Held' /\ applied \subseteq applied'
<1>0. ~tombstoned /\ Typed
  BY Grow DEF IInv, Typed
<1>1. ASSUME NEW d \in Drainers, SwapWon(d)
      PROVE  Held \subseteq Held' /\ applied \subseteq applied'
  <2>1. ActiveFacts' = Fold(ActiveFacts, env[d]) /\ applied' = applied \cup {env[d]}
    BY <1>0, <1>1, SwapInstalls
  <2>2. Drops[env[d]] \subseteq Withdrawn' /\ Withdrawn \subseteq Withdrawn'
    BY <2>1 DEF Withdrawn
  <2> QED
    BY <2>1, <2>2 DEF Held, Fold
<1>2. ASSUME \A d \in Drainers : ~SwapWon(d)
      PROVE  Held \subseteq Held' /\ applied \subseteq applied'
  <2>1. active' = active /\ applied' = applied
    BY <1>0, <1>2, Grow, Frame DEF FrameFacts, StoresGrow
  <2>2. ActiveFacts' = ActiveFacts
    <3>1. active \in 0..built
      BY DEF IInv, PointerKnown
    <3>2. FactsAt(active)' = FactsAt(active)
      BY <2>1, <3>1, ContentKept, <1>0, PromotionAssumption DEF Typed, TypeOK, TypedStores, FactsAt, NoRev
    <3> QED
      BY <3>2 DEF ActiveFacts, FactsAt
  <2> QED
    BY <2>1, <2>2 DEF Held, Withdrawn
<1> QED
  BY <1>1, <1>2

(* A drainer the step is not about. *)
LEMMA OtherKeeps ==
    ASSUME IInv, [Next]_vars, ~tombstoned', NEW c \in Drainers, SameLocals(c),
           active' = active \/ active' \notin {cand[c], attempt[c]},
           active # NoRev => active' # NoRev
    PROVE  DrainerInv(c)'
<1>0. ~tombstoned /\ StoresGrow /\ Held \subseteq Held' /\ applied \subseteq applied'
  BY Grow, HeldGrows
<1>1. DrainerInv(c)
  BY <1>0 DEF IInv
<1>2. WrittenFirst(c)'
  BY <1>0, <1>1 DEF DrainerInv, WrittenFirst, SameLocals, StoresGrow
<1>3. FactsAt(base[c])' = FactsAt(base[c])
  <2>1. base[c] \in 0..built
    <3>1. base[c] \in Maybe(sink)
      BY <1>1 DEF DrainerInv, BaseKnown
    <3>2. sink \subseteq 1..built /\ built \in Nat
      BY PromotionAssumption DEF IInv, TypeOK, TypedStores, PointerKnown
    <3>3. base[c] = 0 \/ base[c] \in 1..built
      BY <3>1, <3>2 DEF Maybe, NoRev
    <3> QED
      BY <3>2, <3>3
  <2>2. FactsAt(base[c])' = IF base[c] = NoRev THEN {} ELSE content'[base[c]]
    BY DEF SameLocals, FactsAt
  <2> QED
    BY <2>1, <2>2, ContentKept, PromotionAssumption
       DEF FactsAt, IInv, Typed, TypeOK, TypedStores, NoRev
<1>4. BaseKnown(c)'
  BY <1>0, <1>1, <1>3 DEF DrainerInv, BaseKnown, SameLocals, StoresGrow, Maybe
<1>5. FoldedOntoBase(c)'
  <2>1. ASSUME pc[c] \in Attempting
        PROVE  content'[attempt[c]] = content[attempt[c]]
    BY <2>1, ContentKept, PromotionAssumption
       DEF IInv, Typed, TypeOK, TypedStores, PCLocals, Owned, Attempting, NoRev
  <2> QED
    BY <1>1, <1>3, <2>1 DEF DrainerInv, FoldedOntoBase, SameLocals, Fold, Attempting
<1>6. BoundHeld(c)'
  BY <1>0, <1>1 DEF DrainerInv, BoundHeld, SameLocals, Attempting
<1>7. OwnInstalled(c)'
  BY <1>0, <1>1 DEF DrainerInv, OwnInstalled, SameLocals
<1> QED
  BY <1>2, <1>4, <1>5, <1>6, <1>7 DEF DrainerInv

(* The drainer that takes the step. *)
LEMMA DrainerKeeps ==
    ASSUME IInv, NEW d \in Drainers, Process(d), [Next]_vars, ~tombstoned'
    PROVE  DrainerInv(d)'
<1>0. /\ ~tombstoned /\ StoresGrow /\ Held \subseteq Held' /\ applied \subseteq applied'
      /\ Typed /\ DrainerInv(d)
  BY Grow, HeldGrows DEF IInv, Typed
<1>1. CASE Return(d)
  BY <1>0, <1>1, ReturnInv
<1>2. CASE Gate(d) /\ ~Return(d)
  BY <1>0, <1>2 DEF Typed, TypeOK, TypedLocals, DrainerInv, WrittenFirst, BaseKnown, FoldedOntoBase,
         BoundHeld, OwnInstalled, Attempting, FactsAt, StoresGrow, Maybe, Goto, revisions, pointer,
         history, stores, locals, Gate
<1>3. CASE ReadExpected(d)
  <2>1. /\ pc'[d] = "fold" /\ base'[d] = active /\ active' = active /\ sink' = sink
        /\ tries'[d] = 0 /\ content' = content /\ applied' = applied
        /\ cand' = cand /\ attempt' = attempt /\ env' = env
    BY <1>0, <1>3 DEF ReadExpected, Typed, TypeOK, TypedLocals, PCLocals, Goto, stores,
           revisions, pointer, history
  <2>2. BaseKnown(d)'
    BY <1>0, <2>1 DEF BaseKnown, FactsAt, Held, ActiveFacts, IInv, StoresInv
  <2> QED
    BY <1>0, <2>1, <2>2
       DEF DrainerInv, WrittenFirst, FoldedOntoBase, BoundHeld, OwnInstalled, Attempting
<1>4. CASE FoldOnto(d)
  <2> DEFINE folded == Fold(FactsAt(base[d]), env[d])
  <2>0. FactsAt(base[d]) \subseteq Held /\ base[d] \in Maybe(sink)
    BY <1>0 DEF DrainerInv, BaseKnown
  <2>1. /\ pc'[d] = "insert" /\ base' = base /\ env' = env /\ tries' = tries
        /\ sink' = sink /\ active' = active /\ applied' = applied
        /\ attempt'[d] = built + 1 /\ cand'[d] = IF tries[d] = 0 THEN built + 1 ELSE cand[d]
    BY <1>0, <1>4 DEF FoldOnto, Typed, TypeOK, TypedLocals, Goto, pointer, history
  <2>2. IF Finds(d, base[d]) THEN content[base[d]] = FactsAt(base[d]) ELSE FactsAt(base[d]) = {}
    BY <1>0, <2>0 DEF Finds, FactsAt, Maybe, NoRev, Revs, Typed, TypeOK, TypedStores
  <2>3. content'[built + 1] = folded /\ bound'[d] = IF tries[d] = 0 THEN folded ELSE bound[d]
    <3>1. built + 1 \in Revs
      BY <1>0, <1>4, PromotionAssumption DEF FoldOnto, Typed, TypeOK, TypedStores, Revs
    <3>2. Fold(IF Finds(d, base[d]) THEN content[base[d]] ELSE {}, env[d]) = folded
      BY <2>2
    <3> QED
      BY <1>0, <1>4, <3>1, <3>2 DEF FoldOnto, Typed, TypeOK, TypedStores, TypedLocals
  <2>4. FactsAt(base[d])' = FactsAt(base[d])
    <3>1. base[d] = NoRev \/ base[d] \in 1..built
      BY <2>0 DEF IInv, PointerKnown, Maybe
    <3> QED
      BY <2>1, <3>1, ContentKept, <1>0 DEF FactsAt
  <2>5. WrittenFirst(d)' /\ BaseKnown(d)'
    BY <1>0, <1>4, <2>0, <2>1, <2>4 DEF FoldOnto, DrainerInv, BaseKnown, WrittenFirst
  <2>6. FoldedOntoBase(d)'
    BY <2>1, <2>3, <2>4 DEF FoldedOntoBase, Fold
  <2>7. BoundHeld(d)'
    <3>1. folded \subseteq Held \cup Adds[env[d]]
      BY <2>0 DEF Fold
    <3>2. tries[d] = 0 \/ bound[d] \subseteq Held \cup Adds[env[d]]
      <4>1. tries[d] \in Nat /\ pc[d] = "fold"
        BY <1>0, <1>4 DEF FoldOnto, Typed, TypeOK, TypedLocals
      <4> QED
        BY <1>0, <4>1 DEF DrainerInv, BoundHeld
    <3> QED
      BY <1>0, <2>1, <2>3, <3>1, <3>2 DEF BoundHeld
  <2>8. OwnInstalled(d)'
    <3>1. active # built + 1
      BY <1>0, PromotionAssumption DEF IInv, PointerKnown, Typed, TypeOK, TypedStores
    <3> QED
      BY <1>0, <2>1, <3>1 DEF DrainerInv, OwnInstalled
  <2> QED
    BY <2>5, <2>6, <2>7, <2>8 DEF DrainerInv
<1>5. CASE Insert(d)
  BY <1>0, <1>5 DEF Typed, TypeOK, TypedLocals, DrainerInv, WrittenFirst, BaseKnown, FoldedOntoBase,
         BoundHeld, OwnInstalled, Attempting, FactsAt, StoresGrow, Maybe, Goto, revisions, pointer,
         history, stores, locals, Insert
<1>6. CASE VerifyVisible(d) /\ ~Return(d)
  <2>1. /\ content' = content /\ sink' = sink /\ active' = active /\ applied' = applied
        /\ env' = env /\ base' = base /\ cand' = cand /\ attempt' = attempt /\ bound' = bound
        /\ attempt[d] \in sink
    BY <1>6 DEF VerifyVisible, pointer, history
  <2>2. pc'[d] = "swap" \/ (pc'[d] = "check" /\ ret'[d] = cand[d])
    BY <1>0, <1>6 DEF VerifyVisible, Typed, TypeOK, TypedLocals, Goto
  <2>3. pc[d] = "visible" /\ cand[d] # NoRev
    BY <1>6 DEF VerifyVisible, IInv, PCLocals, Attempting
  <2> QED
    BY <1>0, <2>1, <2>2, <2>3 DEF DrainerInv, WrittenFirst, BaseKnown, FoldedOntoBase, BoundHeld,
           OwnInstalled, Attempting, FactsAt, Fold
<1>7. CASE SwapRefused(d)
  <2>1. /\ content' = content /\ sink' = sink /\ active' = active /\ applied' = applied
        /\ env' = env /\ base' = base /\ cand' = cand /\ attempt' = attempt
    BY <1>7 DEF SwapRefused, stores, revisions, pointer, history
  <2>2. pc'[d] = "check" /\ ret'[d] = cand[d] /\ cand[d] # NoRev
    BY <1>0, <1>7 DEF SwapRefused, Typed, TypeOK, TypedLocals, Goto, PCLocals, Attempting
  <2> QED
    BY <1>0, <2>1, <2>2 DEF DrainerInv, WrittenFirst, BaseKnown, FoldedOntoBase, BoundHeld,
           OwnInstalled, Attempting, FactsAt
<1>8. CASE SwapWon(d)
  <2>1. /\ content' = content /\ sink' = sink /\ active' = attempt[d] /\ attempt[d] # NoRev
        /\ env' = env /\ base' = base /\ env[d] \in applied'
    BY <1>0, <1>8, SwapInstalls DEF SwapWon, revisions, locals
  <2>2. pc'[d] = "fetch"
    BY <1>0, <1>8 DEF SwapWon, Typed, TypeOK, TypedLocals, Goto
  <2> QED
    BY <1>0, <2>1, <2>2 DEF DrainerInv, WrittenFirst, BaseKnown, FoldedOntoBase, BoundHeld,
           OwnInstalled, Attempting, FactsAt
<1>9. CASE SwapLost(d)
  <2>1. /\ content' = content /\ sink' = sink /\ active' = active /\ applied' = applied
        /\ env' = env /\ base' = base /\ cand' = cand /\ attempt' = attempt /\ bound' = bound
        /\ pc[d] = "swap" /\ active # base[d]
    BY <1>9 DEF SwapLost, stores, revisions, pointer, history, locals
  <2>2. pc'[d] = "reload"
    BY <1>0, <1>9 DEF SwapLost, Typed, TypeOK, TypedLocals, Goto
  <2> QED
    BY <1>0, <2>1, <2>2 DEF DrainerInv, WrittenFirst, BaseKnown, FoldedOntoBase, BoundHeld,
           OwnInstalled, Attempting, FactsAt
<1>10. CASE Reload(d)
  <2>1. /\ content' = content /\ sink' = sink /\ active' = active /\ applied' = applied
        /\ env' = env /\ cand' = cand /\ attempt' = attempt /\ bound' = bound
        /\ pc[d] = "reload"
    BY <1>10 DEF Reload, stores, revisions, pointer, history
  <2>2. active # NoRev
    BY <1>0, <2>1 DEF DrainerInv, BaseKnown
  <2>3. pc'[d] = "fold" /\ base'[d] = active
    BY <1>0, <1>10, <2>2 DEF Reload, Typed, TypeOK, TypedLocals, Goto
  <2>4. BaseKnown(d)'
    BY <1>0, <2>1, <2>2, <2>3 DEF BaseKnown, FactsAt, Held, ActiveFacts, IInv, StoresInv
  <2> QED
    BY <1>0, <2>1, <2>3, <2>4 DEF DrainerInv, WrittenFirst, FoldedOntoBase, BoundHeld,
           OwnInstalled, Attempting
<1>11. CASE Fetch(d)
  <2>1. /\ content' = content /\ sink' = sink /\ active' = active /\ applied' = applied
        /\ env' = env /\ base' = base /\ cand' = cand /\ attempt' = attempt
    BY <1>11 DEF Fetch, stores, revisions, pointer, history
  <2>2. pc'[d] = "check" /\ ret'[d] \in {cand[d], attempt[d]} /\ cand[d] # NoRev /\ attempt[d] # NoRev
    BY <1>0, <1>11 DEF Fetch, Typed, TypeOK, TypedLocals, Goto, PCLocals, Attempting
  <2> QED
    BY <1>0, <2>1, <2>2 DEF DrainerInv, WrittenFirst, BaseKnown, FoldedOntoBase, BoundHeld,
           OwnInstalled, Attempting, FactsAt
<1>12. CASE CheckCovered(d)
  <2>1. /\ content' = content /\ sink' = sink /\ active' = active /\ applied' = applied
        /\ env' = env /\ base' = base /\ cand' = cand /\ attempt' = attempt
        /\ pc[d] = "check" /\ active = ret[d]
    BY <1>12 DEF CheckCovered, Covered, stores, revisions, pointer, history, locals
  <2>2. pc'[d] = "index"
    BY <1>0, <1>12 DEF CheckCovered, Typed, TypeOK, TypedLocals, Goto
  <2> QED
    BY <1>0, <2>1, <2>2 DEF DrainerInv, WrittenFirst, BaseKnown, FoldedOntoBase, BoundHeld,
           OwnInstalled, Attempting, FactsAt
<1>13. CASE ReadBeforeIndex(d) \/ Upsert(d)
  BY <1>0, <1>13 DEF Typed, TypeOK, TypedLocals, DrainerInv, WrittenFirst, BaseKnown, FoldedOntoBase,
         BoundHeld, OwnInstalled, Attempting, FactsAt, StoresGrow, Maybe, Goto, revisions, pointer,
         history, stores, locals, ReadBeforeIndex, Upsert
<1>14. CASE CheckTombstoned(d) \/ CheckUncovered(d) \/ Mark(d)
  BY <1>1, <1>14 DEF CheckTombstoned, CheckUncovered, Mark
<1> QED
  BY <1>1, <1>2, <1>3, <1>4, <1>5, <1>6, <1>7, <1>8, <1>9, <1>10, <1>11, <1>12, <1>13, <1>14
     DEF Process

LEMMA DrainersKeep ==
    ASSUME IInv, [Next]_vars, ~tombstoned', NEW c \in Drainers
    PROVE  DrainerInv(c)'
<1>0. ~tombstoned /\ StoresGrow /\ Typed /\ DrainerInv(c)
  BY Grow DEF IInv, Typed
<1>1. ASSUME NEW d \in Drainers, Drain(d), c # d
      PROVE  DrainerInv(c)'
  <2>1. SameLocals(c)
    BY <1>0, <1>1, OthersSame
  <2>2. CASE SwapWon(d)
    <3>1. active' = attempt[d] /\ attempt[d] # NoRev
      BY <1>0, <2>2, SwapInstalls
    <3>2. active' \notin {cand[c], attempt[c]}
      BY <1>1, <3>1 DEF IInv, Owned
    <3> QED
      BY <2>1, <3>1, <3>2, OtherKeeps
  <2>3. CASE ~SwapWon(d)
    <3>1. ASSUME NEW b \in Drainers, SwapWon(b) PROVE FALSE
      <4>1. b # d /\ pc[b] = "swap" /\ pc'[b] = "fetch"
        BY <1>0, <2>3, <3>1 DEF SwapWon, Typed, TypeOK, TypedLocals, Goto
      <4> QED
        BY <1>0, <1>1, <4>1, OthersSame DEF SameLocals
    <3>2. active' = active
      BY <1>0, <3>1 DEF StoresGrow
    <3> QED
      BY <2>1, <3>2, OtherKeeps
  <2> QED
    BY <2>2, <2>3
<1>2. CASE Drain(c)
  <2>1. CASE Process(c)
    BY <2>1, DrainerKeeps
  <2>2. CASE Fail(c) \/ Crash(c)
    BY <1>0, <2>2, ReturnInv DEF Fail, Crash
  <2>3. ASSUME NEW e \in Envelopes, Claim(c, e)
        PROVE  DrainerInv(c)'
    <3>1. pc[c] = "idle" /\ pc'[c] = "gate" /\ active' = active /\ sink' = sink
          /\ content' = content /\ applied' = applied /\ base' = base /\ cand' = cand
          /\ attempt' = attempt
      BY <1>0, <2>3 DEF Claim, Typed, TypeOK, TypedLocals, Goto, stores, revisions, pointer, history
    <3>2. cand[c] = NoRev /\ attempt[c] = NoRev
      BY <1>0, <3>1 DEF Typed, PCLocals
    <3> QED
      BY <1>0, <3>1, <3>2 DEF DrainerInv, WrittenFirst, BaseKnown, FoldedOntoBase, BoundHeld,
             OwnInstalled, Attempting, FactsAt, Held, ActiveFacts, Withdrawn
  <2> QED
    BY <1>2, <2>1, <2>2, <2>3 DEF Drain
<1>3. CASE ~\E d \in Drainers : Drain(d)
  <2>1. SameLocals(c)
    BY <1>3 DEF SameLocals, Next, Requeue, Delete, RequestDeletion, WriteTombstone, DeleteRows,
           DeletePointer, DeleteSearch, PurgeQueues, vars, locals
  <2>2. active' = active
    BY <1>0, <1>3 DEF StoresGrow, Drain, Process
  <2> QED
    BY <2>1, <2>2, OtherKeeps
<1> QED
  BY <1>1, <1>2, <1>3

LEMMA StoresKeep ==
    ASSUME IInv, [Next]_vars, ~tombstoned'
    PROVE  StoresInv'
<1>0. /\ ~tombstoned /\ StoresGrow /\ Held \subseteq Held' /\ applied \subseteq applied'
      /\ Typed /\ StoresInv
  BY Grow, HeldGrows DEF IInv, Typed
<1>1. ASSUME NEW d \in Drainers, SwapWon(d)
      PROVE  StoresInv'
  <2>1. /\ ActiveFacts' = Fold(ActiveFacts, env[d]) /\ active' \in sink
        /\ frontier' = bound[d] /\ bound[d] \subseteq Held \cup Adds[env[d]]
        /\ applied' = applied \cup {env[d]}
    BY <1>0, <1>1, SwapInstalls
  <2>2. Adds[env[d]] \subseteq Held'
    BY <2>1 DEF Held, Fold
  <2>3. estate' = estate
    BY <1>1 DEF SwapWon, inbox
  <2> QED
    BY <1>0, <2>1, <2>2, <2>3 DEF StoresInv, StoresGrow, Maybe
<1>2. ASSUME \A d \in Drainers : ~SwapWon(d)
      PROVE  StoresInv'
  <2>1. active' = active /\ frontier' = frontier /\ applied' = applied
    BY <1>0, <1>2, Frame DEF StoresGrow, FrameFacts
  <2>2. ASSUME NEW e \in Envelopes, estate'[e] = "assembled", estate[e] # "assembled"
        PROVE  e \in applied
    <3>1. ASSUME NEW d \in Drainers, Mark(d) PROVE e \in applied
      <4>1. e = env[d]
        BY <2>2, <3>1, <1>0 DEF Mark, MarkAssembled, Typed, TypeOK, TypedStores
      <4>2. DrainerInv(d) /\ pc[d] = "mark"
        BY <1>0, <3>1 DEF IInv, Mark
      <4> QED
        BY <4>1, <4>2 DEF DrainerInv, OwnInstalled
    <3>2. (\A d \in Drainers : ~Mark(d)) => estate'[e] \in {estate[e], "queued", "failed", "tombstoned"}
      <4> USE DEF Typed, TypeOK, TypedStores, inbox, stores
      <4>1. CASE UNCHANGED vars
        BY <4>1 DEF vars
      <4>2. CASE Delete
        BY <4>2 DEF Delete, RequestDeletion, WriteTombstone, DeleteRows, DeletePointer,
                    DeleteSearch, PurgeQueues, TombstoneEnvelopes
      <4>3. ASSUME NEW f \in Envelopes, Requeue(f)
            PROVE  estate'[e] \in {estate[e], "queued", "failed", "tombstoned"}
        BY <1>0, <4>3 DEF Requeue
      <4>4. ASSUME NEW d \in Drainers, Fail(d) \/ VerifyVisible(d) \/ CheckUncovered(d)
            PROVE  estate'[e] \in {estate[e], "queued", "failed", "tombstoned"}
        BY <1>0, <4>4 DEF Fail, VerifyVisible, CheckUncovered, MarkFailed
      <4>5. ASSUME NEW d \in Drainers, Gate(d) \/ CheckTombstoned(d)
            PROVE  estate'[e] \in {estate[e], "queued", "failed", "tombstoned"}
        BY <1>0, <4>5 DEF Gate, CheckTombstoned, TombstoneEnvelopes
      <4>6. ASSUME NEW d \in Drainers, Drain(d),
                   ~(Fail(d) \/ VerifyVisible(d) \/ CheckUncovered(d)),
                   ~(Gate(d) \/ CheckTombstoned(d) \/ Mark(d))
            PROVE  estate' = estate
        BY <4>6 DEF Drain, Process, Claim, ReadExpected, FoldOnto, Insert, SwapRefused, SwapWon,
               SwapLost, Reload, Fetch, CheckCovered, ReadBeforeIndex, Upsert, Crash
      <4> QED
        BY <4>1, <4>2, <4>3, <4>4, <4>5, <4>6 DEF Next
    <3> QED
      BY <2>2, <3>1, <3>2
  <2> QED
    BY <1>0, <2>1, <2>2 DEF StoresInv, StoresGrow, Maybe
<1> QED
  BY <1>1, <1>2

-----------------------------------------------------------------------------
LEMMA IInvInit == Init => IInv
<1> SUFFICES ASSUME Init PROVE IInv
  OBVIOUS
<1>1. Typed
  BY TypedInit
<1>2. IdInv
  BY DEF Init, IdInv, PointerKnown, Owned, DeletesTombstoned, NoConflictServed, ActiveFacts,
         Conflicting, NoRev
<1>3. StoresInv
  BY DEF Init, StoresInv, Maybe, NoRev
<1>4. ASSUME NEW d \in Drainers PROVE DrainerInv(d)
  BY DEF Init, DrainerInv, WrittenFirst, BaseKnown, FoldedOntoBase, BoundHeld, OwnInstalled,
         Attempting, FactsAt, Maybe, NoRev
<1> QED
  BY <1>1, <1>2, <1>3, <1>4 DEF IInv, Typed, IdInv

LEMMA IInvNext ==
    ASSUME IInv, [Next]_vars
    PROVE  IInv'
<1>1. Typed'
  BY TypedNext DEF IInv, Typed
<1>2. IdInv'
  BY IdInvNext DEF IInv, Typed, IdInv
<1>3. ~tombstoned' => StoresInv' /\ \A d \in Drainers : DrainerInv(d)'
  BY StoresKeep, DrainersKeep
<1> QED
  BY <1>1, <1>2, <1>3 DEF IInv, Typed, IdInv

LEMMA Inductive == Spec => []IInv
  BY IInvInit, IInvNext, PTL DEF Spec

(* The active pointer never names a revision whose rows are not written     *)
(* (promote after sink.write, assemble/promote.py).                        *)
THEOREM PointerNamesRows == Spec => []ActiveVisible
<1>1. IInv => ActiveVisible
  BY DEF IInv, StoresInv, ActiveVisible
<1> QED
  BY <1>1, Inductive, PTL

(* What an assembled envelope carried is in the active revision unless a    *)
(* snapshot withdrew it: a lost compare-and-swap strands no facts.          *)
THEOREM NothingStranded == Spec => []NoFactStranded
<1>1. IInv => NoFactStranded
  BY DEF IInv, StoresInv, NoFactStranded, Held
<1> QED
  BY <1>1, Inductive, PTL

(* The frontier stored with the pointer claims nothing the active revision  *)
(* does not hold, except what a snapshot withdrew.                          *)
THEOREM FrontierCovered == Spec => []FrontierHonest
<1>1. IInv => FrontierHonest
  BY DEF IInv, StoresInv, FrontierHonest, Held
<1> QED
  BY <1>1, Inductive, PTL

(* Conflicting facts are never served, a conflict that arises only in a     *)
(* rebase included.                                                         *)
THEOREM ConflictsUnserved == Spec => []NoConflictServed
<1>1. IInv => NoConflictServed
  BY DEF IInv
<1> QED
  BY <1>1, Inductive, PTL

-----------------------------------------------------------------------------
(* The drain implements CallFacts: a won swap applies one envelope, marking *)
(* it assembled acknowledges it, the tombstone erases the call, a replay    *)
(* reopens it, and every other step is invisible.                           *)
Assembled == {e \in Envelopes : estate[e] = "assembled"}

LEMMA ErasedStutters ==
    ASSUME tombstoned, tombstoned'
    PROVE  UNCHANGED Reg!callVars
  BY DEF Reg!callVars

LEMMA StepRefines ==
    ASSUME IInv, [Next]_vars
    PROVE  [Reg!CallNext]_(Reg!callVars)
<1>0. Typed /\ (tombstoned => tombstoned') /\ tombstoned \in BOOLEAN
  BY Frame DEF IInv, Typed, FrameFacts, TypeOK, TypedStores
<1>1. CASE tombstoned
  BY <1>0, <1>1, ErasedStutters
<1>2. CASE ~tombstoned /\ tombstoned'
  BY <1>2 DEF Reg!CallNext, Reg!Erase
<1>3. CASE ~tombstoned /\ ~tombstoned'
  <2>0. tombstoned' = tombstoned
    BY <1>0, <1>3, TypedNext DEF Typed, TypeOK, TypedStores
  <2>1. ASSUME NEW d \in Drainers, SwapWon(d)
        PROVE  Reg!CallNext
    <3>1. /\ ActiveFacts' = Fold(ActiveFacts, env[d]) /\ env[d] \in Envelopes
          /\ applied' = applied \cup {env[d]}
      BY <1>3, <2>1, SwapInstalls
    <3>2. Assembled' = Assembled
      BY <2>1 DEF SwapWon, inbox, Assembled
    <3>3. ~Conflicting(ActiveFacts')
      BY IInvNext DEF IInv, NoConflictServed, Conflicting
    <3>4. Reg!Apply(env[d])
      BY <1>3, <2>0, <3>1, <3>2, <3>3 DEF Reg!Apply, Reg!Fold, Reg!Conflicting, Fold, Conflicting, Assembled
    <3> QED
      BY <3>1, <3>4 DEF Reg!CallNext
  <2>2. CASE \A d \in Drainers : ~SwapWon(d)
    <3>1. applied' = applied /\ ActiveFacts' = ActiveFacts
      <4>1. active' = active /\ applied' = applied
        BY <1>0, <1>3, <2>2, Grow, Frame DEF FrameFacts, StoresGrow
      <4>2. active \in 0..built
        BY DEF IInv, PointerKnown
      <4>3. FactsAt(active)' = FactsAt(active)
        BY <4>1, <4>2, ContentKept, <1>0, PromotionAssumption DEF Typed, TypeOK, TypedStores, FactsAt, NoRev
      <4> QED
        BY <4>1, <4>3 DEF ActiveFacts, FactsAt
    <3>2. ASSUME NEW d \in Drainers, Mark(d)
          PROVE  Reg!CallNext
      <4>1. env[d] \in applied /\ env[d] \in Envelopes
        BY <1>3, <3>2 DEF IInv, DrainerInv, OwnInstalled, PCLocals, Mark
      <4>2. Assembled' = Assembled \cup {env[d]}
        BY <1>0, <3>2, <4>1 DEF Mark, MarkAssembled, Assembled, Typed, TypeOK, TypedStores
      <4>3. \A e \in Envelopes : e = env[d] => Reg!Acknowledge(e)
        BY <1>3, <2>0, <3>1, <4>1, <4>2 DEF Reg!Acknowledge, Assembled
      <4> QED
        BY <4>1, <4>3 DEF Reg!CallNext
    <3>3. ASSUME NEW e \in Envelopes, Requeue(e)
          PROVE  Reg!CallNext
      <4>1. Assembled' = Assembled \ {e}
        BY <1>0, <3>3 DEF Requeue, Assembled, Typed, TypeOK, TypedStores
      <4>2. Reg!Reopen(e)
        BY <1>3, <2>0, <3>1, <4>1 DEF Reg!Reopen, Assembled
      <4> QED
        BY <4>2 DEF Reg!CallNext
    <3>4. ASSUME \A d \in Drainers : ~Mark(d), \A e \in Envelopes : ~Requeue(e)
          PROVE  Assembled' = Assembled
      <4> USE DEF Typed, TypeOK, TypedStores, inbox, stores, Assembled
      <4>1. CASE UNCHANGED vars
        BY <4>1 DEF vars
      <4>2. CASE Delete
        BY <1>3, <4>2 DEF Delete, RequestDeletion, WriteTombstone, DeleteRows, DeletePointer,
                    DeleteSearch, PurgeQueues
      <4>3. ASSUME NEW d \in Drainers, Fail(d) \/ VerifyVisible(d) \/ CheckUncovered(d)
            PROVE  Assembled' = Assembled
        BY <1>0, <4>3 DEF Fail, VerifyVisible, CheckUncovered, MarkFailed
      <4>4. ASSUME NEW d \in Drainers, Gate(d) \/ CheckTombstoned(d)
            PROVE  Assembled' = Assembled
        BY <1>0, <1>3, <4>4 DEF Gate, CheckTombstoned
      <4>5. ASSUME NEW d \in Drainers, Drain(d),
                   ~(Fail(d) \/ VerifyVisible(d) \/ CheckUncovered(d)),
                   ~(Gate(d) \/ CheckTombstoned(d) \/ Mark(d))
            PROVE  estate' = estate
        BY <4>5 DEF Drain, Process, Claim, ReadExpected, FoldOnto, Insert, SwapRefused, SwapWon,
               SwapLost, Reload, Fetch, CheckCovered, ReadBeforeIndex, Upsert, Crash
      <4> QED
        BY <3>4, <4>1, <4>2, <4>3, <4>4, <4>5 DEF Next
    <3>5. Assembled' = Assembled => UNCHANGED Reg!callVars
      BY <1>3, <2>0, <3>1 DEF Reg!callVars, Assembled
    <3> QED
      BY <3>2, <3>3, <3>4, <3>5
  <2> QED
    BY <2>1, <2>2
<1> QED
  BY <1>0, <1>1, <1>2, <1>3

(* However many processes drain the call, what a reader sees is a register  *)
(* to which envelopes are applied one at a time and acknowledged after.     *)
THEOREM Implements == Spec => ImplementsCallFacts
<1>1. Init => Reg!CallInit
  BY DEF Init, Reg!CallInit, ActiveFacts
<1> QED
  BY <1>1, StepRefines, Inductive, PTL DEF Spec, ImplementsCallFacts, Reg!CallSpec

-----------------------------------------------------------------------------
(* Deletion.  The rows that are left when the deletion took its own look    *)
(* are those of drainers that have theirs before them.                      *)

(* A drainer that owes a look goes on owing it until it takes the rows out, *)
(* unless it fails or dies with them.                                       *)
LEMMA OwesKept ==
    ASSUME Typed, IdInv, tombstoned, NEW d \in Drainers, Drain(d), Owes(d)
    PROVE  Owes(d)' \/ sink' = {} \/ torn'
<1> USE DEF Owes, Attempting, Typed, TypeOK, TypedLocals
<1>1. ASSUME NEW e \in Envelopes PROVE ~Claim(d, e)
  BY DEF Claim
<1>2. ~Gate(d) /\ ~ReadExpected(d) /\ ~CheckUncovered(d) /\ ~CheckCovered(d)
      /\ ~ReadBeforeIndex(d) /\ ~Upsert(d) /\ ~Mark(d)
  BY DEF Gate, ReadExpected, CheckUncovered, CheckCovered, ReadBeforeIndex, Upsert, Mark
<1>3. CASE FoldOnto(d)
  <2>1. attempt'[d] # NoRev
    BY <1>3 DEF FoldOnto, NoRev, TypedStores
  <2> QED
    BY <1>3, <2>1 DEF FoldOnto, Goto
<1>4. CASE Insert(d)
  BY <1>4 DEF Insert, Goto, locals
<1>5. CASE VerifyVisible(d)
  BY <1>5 DEF VerifyVisible, Goto
<1>6. CASE SwapRefused(d) \/ SwapWon(d) \/ SwapLost(d)
  BY <1>6 DEF SwapRefused, SwapWon, SwapLost, Goto, locals
<1>7. CASE Reload(d) \/ Fetch(d)
  BY <1>7 DEF Reload, Fetch, Goto
<1>8. CASE CheckTombstoned(d)
  BY <1>8 DEF CheckTombstoned
<1>9. CASE Fail(d) \/ Crash(d)
  BY <1>9 DEF Fail, Crash, Tear
<1> QED
  BY <1>1, <1>2, <1>3, <1>4, <1>5, <1>6, <1>7, <1>8, <1>9 DEF Drain, Process

(* Nobody else's step changes that, except by taking all rows out. *)
LEMMA OthersOwe ==
    ASSUME NEW c \in Drainers, SameLocals(c), Owes(c), sink \subseteq sink'
    PROVE  Owes(c)'
  BY DEF Owes, SameLocals, Attempting

(* Who inserts owes a look. *)
LEMMA InsertOwes ==
    ASSUME Typed, NEW d \in Drainers, Insert(d)
    PROVE  Owes(d)'
  BY DEF Insert, Goto, locals, Owes, Attempting, Typed, TypeOK, TypedLocals, PCLocals

(* No step of a drainer is one of the deletion's, none takes back a failure. *)
LEMMA DrainFrame ==
    ASSUME Typed, NEW d \in Drainers, Drain(d)
    PROVE  /\ UNCHANGED <<dpc, found>>
           /\ tombstoned' = tombstoned
           /\ torn => torn'
<1>1. UNCHANGED <<dpc, found>> /\ tombstoned' = tombstoned
  BY DEF Drain, Process, Claim, Gate, ReadExpected, FoldOnto, Insert, VerifyVisible, SwapRefused,
         SwapWon, SwapLost, Reload, Fetch, CheckTombstoned, CheckUncovered, CheckCovered,
         ReadBeforeIndex, Upsert, Mark, Fail, Crash, stores, inbox, deleter
<1>2. CASE torn' = torn
  BY <1>1, <1>2
<1>3. CASE Tear(d)
  BY <1>1, <1>3 DEF Tear, Typed, TypeOK
<1>4. torn' = torn \/ Tear(d)
  BY DEF Drain, Process, Claim, Gate, ReadExpected, FoldOnto, Insert, VerifyVisible, SwapRefused,
         SwapWon, SwapLost, Reload, Fetch, CheckTombstoned, CheckUncovered, CheckCovered,
         ReadBeforeIndex, Upsert, Mark, Fail, Crash, history
<1> QED BY <1>2, <1>3, <1>4

LEMMA SinkKept ==
    ASSUME NEW d \in Drainers, Drain(d), ~Insert(d)
    PROVE  sink' \in {sink, {}}
  BY DEF Drain, Process, Claim, Gate, ReadExpected, FoldOnto, VerifyVisible, SwapRefused,
         SwapWon, SwapLost, Reload, Fetch, CheckTombstoned, CheckUncovered, CheckCovered,
         ReadBeforeIndex, Upsert, Mark, Fail, Crash, stores, revisions

LEMMA EraseNext ==
    ASSUME IInv, EraseInv, [Next]_vars
    PROVE  EraseInv'
<1> DEFINE Past == dpc \in {"pointer", "search", "purge", "done"}
<1>0. Typed /\ IdInv
  BY DEF IInv, Typed, IdInv
<1>1. ASSUME NEW d \in Drainers, Drain(d), (found /\ Past)', sink' # {}, ~torn'
      PROVE  \E c \in Drainers : Owes(c)'
  <2>1. found /\ Past /\ ~torn /\ tombstoned
    BY <1>0, <1>1, DrainFrame DEF EraseInv
  <2>2. CASE Insert(d)
    BY <1>0, <2>2, InsertOwes
  <2>3. CASE ~Insert(d)
    <3>1. sink' = sink
      BY <1>1, <2>3, SinkKept
    <3>2. PICK c \in Drainers : Owes(c)
      BY <1>1, <2>1, <3>1 DEF EraseInv
    <3>3. CASE c = d
      BY <1>0, <1>1, <2>1, <3>2, <3>3, OwesKept
    <3>4. CASE c # d
      BY <1>0, <1>1, <3>1, <3>2, <3>4, OthersSame, OthersOwe
    <3> QED BY <3>3, <3>4
  <2> QED BY <2>2, <2>3
<1>2. ASSUME NEW d \in Drainers, Drain(d)
      PROVE  EraseInv'
  BY <1>0, <1>1, <1>2, DrainFrame DEF EraseInv
<1>3. CASE Delete
  <2>1. CASE DeleteRows
    BY <2>1 DEF DeleteRows, EraseInv, IInv, DeletesTombstoned, inbox
  <2>2. CASE DeletePointer \/ DeleteSearch \/ PurgeQueues
    <3>1. /\ dpc \in {"pointer", "search", "purge"}
          /\ UNCHANGED <<found, tombstoned, sink, pc, attempt, torn>>
      BY <2>2 DEF DeletePointer, DeleteSearch, PurgeQueues, revisions, inbox, locals, history
    <3> QED BY <3>1 DEF EraseInv, Owes
  <2>3. CASE WriteTombstone
    BY <2>3 DEF WriteTombstone, EraseInv
  <2>4. ASSUME NEW bySource, RequestDeletion(bySource)
        PROVE  EraseInv'
    BY <2>4 DEF RequestDeletion, EraseInv
  <2> QED BY <1>3, <2>1, <2>2, <2>3, <2>4 DEF Delete
<1>4. CASE (\E e \in Envelopes : Requeue(e)) \/ UNCHANGED vars
  <2>1. UNCHANGED <<dpc, found, tombstoned, sink, pc, attempt, torn>>
    BY <1>4 DEF Requeue, vars, stores, revisions, inbox, locals, deleter, history
  <2> QED BY <2>1 DEF EraseInv, Owes
<1> QED BY <1>2, <1>3, <1>4 DEF Next

(* Once a deletion that found the call is over and no drainer is at work,   *)
(* ClickHouse holds no revision of it, however inserts and deletes          *)
(* interleaved (apply_deletion against _after_promote), unless a drainer    *)
(* gave up between its insert and its look.                                 *)
THEOREM RowsAreErased == Spec => []RowsErased
<1>1. Init => EraseInv
  BY DEF Init, EraseInv
<1>2. IInv /\ EraseInv /\ [Next]_vars => EraseInv'
  BY EraseNext
<1>3. EraseInv => RowsErased
  BY DEF EraseInv, RowsErased, Quiet, Owes, Attempting
<1> QED
  BY <1>1, <1>2, <1>3, Inductive, PTL DEF Spec
=============================================================================
