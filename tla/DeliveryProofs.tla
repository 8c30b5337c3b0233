--------------------------- MODULE DeliveryProofs ---------------------------
(***************************************************************************)
(* Proofs about the two queues a drain ends with.                          *)
(*                                                                         *)
(* Delivery: the webhook outbox, of any processes, destinations, events and *)
(* subscriptions.  DuplicatesBounded counts: a row not yet delivered was    *)
(* accepted once for each process that holds an acceptance it has not       *)
(* marked, a delivered one may still be accepted by whoever holds a copy.   *)
(*                                                                         *)
(* Forward: for any processes, jobs and destinations, a job that is marked  *)
(* delivered was taken or refused for good by every destination, and only a *)
(* job whose object was deleted is sent without its bytes.  What a process  *)
(* has ticked off its job without a retry was answered for good: that lets  *)
(* mark_delivered believe the flag of its own copy, whatever the other      *)
(* drains do with the same row.                                            *)
(***************************************************************************)
EXTENDS Forward, Delivery, FiniteSetTheorems, SequenceTheorems, WellFoundedInduction, TLAPS


(***************************************************************************)
(* The webhook outbox.                                                     *)
(***************************************************************************)

(* A claimed copy is of a row that was not dead, and of a secret its        *)
(* destination has had. *)
CopyOK(i) == i.attempts < MaxAttempts /\ i.version <= secret[i.dest]

(* Every rotation and every purge is a fault. *)
Bounded ==
    /\ \A d \in Dests : secret[d] <= faults
    /\ \A e \in Events : purged[e] <= faults
    /\ \A p \in Processes :
         /\ \A i \in hand[p] : CopyOK(i)
         /\ posted[p] # Nothing => CopyOK(posted[p].item)

(* There is a previous secret to sign with. *)
Overlapped == \A d \in Dests : overlap[d] => secret[d] > 0

(* Where a process stands says what it holds. *)
Placed ==
    \A p \in Processes :
        /\ pc[p] # "send" => hand[p] = {} /\ posted[p] = Nothing
        /\ pc[p] = "emit" => todo[p] # <<>>
        /\ pc[p] = "idle" => todo[p] = <<>>

(* A claim holds a row once, and a copy that was posted is put down. *)
HeldOnce ==
    \A p \in Processes : \A i \in hand[p] :
        /\ \A j \in hand[p] : i.event = j.event => i = j
        /\ posted[p] # Nothing => i.event # posted[p].item.event

Holders(e) == {p \in Processes : \E i \in hand[p] : i.event = e}
Acceptors(e) ==
    {p \in Processes : /\ posted[p] # Nothing
                       /\ posted[p].item.event = e /\ posted[p].answer = "ok"}

(* The acceptances the faults so far account for. *)
Granted(e) == crashes + Cardinality(Processes) * purged[e]

Counted(e) ==
    /\ e \notin DOMAIN rows => accepted[e] + Cardinality(Holders(e)) <= Granted(e)
    /\ e \in DOMAIN rows =>
         IF rows[e].delivered
         THEN accepted[e] + Cardinality(Holders(e)) <= Granted(e) + Cardinality(Processes)
         ELSE accepted[e] <= Granted(e) + Cardinality(Acceptors(e))

AllCounted == \A e \in Events : Counted(e)

(* The receiver has the current secret, or the one before in its overlap. *)
TrustKnown ==
    \A d \in Dests :
        \/ trusts[d] = secret[d]
        \/ overlap[d] /\ trusts[d] = secret[d] - 1

SignedAsClaimed == \A p \in Processes : \A i \in hand[p] : i.version \in i.signed

(* Destinations are not removed: an event that was owed is still wanted. *)
OwedWanted == \A e \in owed : Subscribed(e[2]) # {}

DeliveryInv ==
    /\ TypeOK /\ Bounded /\ Overlapped /\ Placed /\ HeldOnce
    /\ AllCounted
    /\ TrustKnown /\ SignedAsClaimed /\ RotationKeepsTrust
    /\ OwedWanted /\ AnnouncedUnlessAbandoned

-----------------------------------------------------------------------------

LEMMA Held ==
    ASSUME DeliveryInv
    PROVE  /\ TypeOK /\ Bounded /\ Overlapped /\ Placed /\ HeldOnce /\ AllCounted
           /\ TrustKnown /\ SignedAsClaimed /\ RotationKeepsTrust
           /\ OwedWanted /\ AnnouncedUnlessAbandoned
  BY DEF DeliveryInv

LEMMA Numbers ==
    /\ MaxFaults \in Nat /\ MaxAttempts \in Nat /\ MaxAttempts > 0
    /\ IsFiniteSet(Processes) /\ Cardinality(Processes) \in Nat
  BY DeliveryAssumption, FS_CardinalityType

(* Sets of processes are counted. *)
LEMMA Some ==
    ASSUME NEW S \in SUBSET Processes
    PROVE  /\ IsFiniteSet(S) /\ Cardinality(S) \in Nat
           /\ Cardinality(S) <= Cardinality(Processes)
  BY Numbers, FS_Subset, FS_CardinalityType

LEMMA Fewer ==
    ASSUME NEW S \in SUBSET Processes, NEW T \in SUBSET S
    PROVE  Cardinality(T) <= Cardinality(S)
  BY Some, FS_Subset

LEMMA Without ==
    ASSUME NEW S \in SUBSET Processes, NEW p
    PROVE  /\ p \in S => Cardinality(S \ {p}) = Cardinality(S) - 1
           /\ p \notin S => Cardinality(S \ {p}) = Cardinality(S)
  BY Some, FS_RemoveElement

LEMMA With ==
    ASSUME NEW S \in SUBSET Processes, NEW p, p \notin S
    PROVE  Cardinality(S \cup {p}) = Cardinality(S) + 1
  BY Some, FS_AddElement

LEMMA Apart ==
    ASSUME NEW S \in SUBSET Processes, NEW T \in SUBSET Processes, S \cap T = {}
    PROVE  Cardinality(S) + Cardinality(T) <= Cardinality(Processes)
<1>1. Cardinality(S \cup T) = Cardinality(S) + Cardinality(T) - Cardinality(S \cap T)
  BY Some, FS_Union
<1>2. Cardinality(S \cap T) = 0
  BY FS_EmptySet
<1>3. Cardinality(S) \in Nat /\ Cardinality(T) \in Nat
  BY Some
<1>4. S \cup T \in SUBSET Processes
  OBVIOUS
<1>5. Cardinality(S \cup T) <= Cardinality(Processes)
  BY <1>4, Some
<1> QED BY <1>1, <1>2, <1>3, <1>5

LEMMA Product ==
    ASSUME NEW n \in Nat, NEW k \in Nat
    PROVE  n * k \in Nat /\ n * (k + 1) = n * k + n
  OBVIOUS

LEMMA Counts ==
    ASSUME TypeOK, NEW e \in Events
    PROVE  /\ accepted[e] \in Nat /\ crashes \in Nat /\ faults \in Nat
           /\ purged[e] \in Nat /\ Granted(e) \in Nat
           /\ Holders(e) \in SUBSET Processes /\ Acceptors(e) \in SUBSET Processes
           /\ Cardinality(Holders(e)) \in Nat /\ Cardinality(Acceptors(e)) \in Nat
<1>1. /\ accepted[e] \in Nat /\ faults \in Nat /\ crashes \in Nat /\ purged[e] \in Nat
  BY Numbers DEF TypeOK
<1>2. Granted(e) \in Nat
  BY <1>1, Numbers, Product DEF Granted
<1>3. Holders(e) \in SUBSET Processes /\ Acceptors(e) \in SUBSET Processes
  BY DEF Holders, Acceptors
<1>4. Cardinality(Holders(e)) \in Nat /\ Cardinality(Acceptors(e)) \in Nat
  BY <1>3, Some
<1> QED BY <1>1, <1>2, <1>3, <1>4

(* The first subscriber is a destination. *)
LEMMA FirstIs ==
    ASSUME NEW S \in SUBSET Nat, S # {} PROVE Min(S) \in S
<1>1. PICK m \in S : TRUE
  OBVIOUS
<1> DEFINE R == {n \in S : n <= m}   U == {1..n : n \in R}
<1>2. U \subseteq SUBSET (1..m) /\ U # {}
  BY <1>1
<1>3. IsFiniteSet(1..m)
  BY <1>1, FS_Interval
<1>4. PICK x \in U : \A y \in U : ~(<<y, x>> \in StrictSubsetOrdering(1..m))
  <2>1. IsWellFoundedOn(StrictSubsetOrdering(1..m), SUBSET (1..m))
    BY <1>3, FS_StrictSubsetOrderingWellFounded, FS_FiniteSubsetsOfFinite
  <2> HIDE DEF U
  <2> QED BY <1>2, <2>1, WFMin
<1>5. PICK k \in R : x = 1..k
  BY <1>4
<1>6. \A y \in S : k <= y
  <2> SUFFICES ASSUME NEW y \in S, y < k PROVE FALSE
    OBVIOUS
  <2>1. 1..y \in U /\ 1..y \subseteq 1..k /\ k \in 1..k /\ k \notin 1..y
    BY <1>1
  <2>2. <<1..y, 1..k>> \in StrictSubsetOrdering(1..m)
    BY <1>1, <2>1 DEF StrictSubsetOrdering
  <2> QED BY <1>4, <1>5, <2>1, <2>2
<1> QED BY <1>5, <1>6 DEF Min

(* An event's first row, or its row as it was. *)
LEMMA EnqueueGives ==
    ASSUME TypeOK, NEW e \in Events
    PROVE  /\ DOMAIN rows \subseteq DOMAIN Enqueue(e)
           /\ DOMAIN Enqueue(e) \subseteq DOMAIN rows \cup {e}
           /\ \A f \in DOMAIN rows : Enqueue(e)[f] = rows[f]
           /\ e \in DOMAIN Enqueue(e) \ DOMAIN rows =>
                /\ Enqueue(e)[e] \in RowState /\ ~Enqueue(e)[e].delivered
           /\ e \in DOMAIN Enqueue(e) \/ Subscribed(e[2]) = {}
<1>1. CASE Subscribed(e[2]) = {} \/ e \in DOMAIN rows
  BY <1>1 DEF Enqueue
<1>2. CASE Subscribed(e[2]) # {} /\ e \notin DOMAIN rows
  <2> DEFINE first == [dest |-> dests[Min(Subscribed(e[2]))], attempts |-> 0, delivered |-> FALSE]
  <2>1. Enqueue(e) = [f \in DOMAIN rows \cup {e} |-> IF f = e THEN first ELSE rows[f]]
    BY <1>2 DEF Enqueue
  <2>2. dests \in Seq(Dests) /\ Subscribed(e[2]) \subseteq DOMAIN dests
    BY DEF TypeOK, Subscribed
  <2>3. DOMAIN dests \subseteq Nat
    BY <2>2
  <2>4. Min(Subscribed(e[2])) \in DOMAIN dests
    BY <1>2, <2>2, <2>3, FirstIs
  <2>5. dests[Min(Subscribed(e[2]))] \in Dests
    BY <2>2, <2>4
  <2>6. first \in RowState /\ ~first.delivered
    BY <2>5, Numbers DEF RowState
  <2> HIDE DEF first
  <2> QED BY <1>2, <2>1, <2>6
<1> QED BY <1>1, <1>2

LEMMA NotNothing ==
    ASSUME NEW i, NEW a PROVE [item |-> i, answer |-> a] # Nothing
<1>1. DOMAIN [item |-> i, answer |-> a] = {"item", "answer"} /\ DOMAIN Nothing = {"item"}
  BY DEF Nothing
<1> QED BY <1>1

(* What Counted, and the two invariants of the secrets, depend on. *)
LEMMA CountedFrame ==
    ASSUME AllCounted, UNCHANGED <<rows, hand, posted, purged, accepted, crashes>>
    PROVE  AllCounted'
  BY DEF AllCounted, Counted, Granted, Holders, Acceptors

LEMMA SecretsFrame ==
    ASSUME TrustKnown, SignedAsClaimed, RotationKeepsTrust,
           UNCHANGED <<secret, overlap, trusts>>, \A p \in Processes : hand'[p] \subseteq hand[p]
    PROVE  TrustKnown' /\ SignedAsClaimed' /\ RotationKeepsTrust'
<1>1. TrustKnown' /\ SignedAsClaimed'
  BY DEF TrustKnown, SignedAsClaimed
<1>2. RotationKeepsTrust'
  BY DEF RotationKeepsTrust
<1> QED BY <1>1, <1>2

LEMMA HeldFrame ==
    ASSUME Placed, HeldOnce, UNCHANGED <<pc, todo, hand, posted>>
    PROVE  Placed' /\ HeldOnce'
  BY DEF Placed, HeldOnce

LEMMA AnnouncedFrame ==
    ASSUME OwedWanted, AnnouncedUnlessAbandoned,
           UNCHANGED <<dests, rows, todo, owed, abandoned, purged>>
    PROVE  OwedWanted' /\ AnnouncedUnlessAbandoned'
<1>1. OwedWanted'
  BY DEF OwedWanted, Subscribed
<1>2. AnnouncedUnlessAbandoned'
  BY DEF AnnouncedUnlessAbandoned
<1> QED BY <1>1, <1>2

LEMMA DeliveryInitInv == ASSUME Init PROVE DeliveryInv
<1>1. TypeOK
  BY Numbers DEF Init, TypeOK
<1>2. Bounded /\ Overlapped /\ Placed /\ HeldOnce
  BY DEF Init, Bounded, Overlapped, Placed, HeldOnce
<1>3. AllCounted
  <2> SUFFICES ASSUME NEW e \in Events PROVE Counted(e)
    BY DEF AllCounted
  <2>1. Holders(e) = {} /\ accepted[e] = 0 /\ e \notin DOMAIN rows /\ Granted(e) \in Nat
    BY <1>1, Counts DEF Init, Holders
  <2> QED BY <2>1, FS_EmptySet DEF Counted
<1>4. TrustKnown /\ SignedAsClaimed /\ RotationKeepsTrust
  BY DEF Init, TrustKnown, SignedAsClaimed, RotationKeepsTrust
<1>5. OwedWanted /\ AnnouncedUnlessAbandoned
  BY DEF Init, OwedWanted, AnnouncedUnlessAbandoned
<1> QED BY <1>1, <1>2, <1>3, <1>4, <1>5 DEF DeliveryInv

(* A new destination only adds to what is subscribed to. *)
LEMMA CreateKeeps ==
    ASSUME DeliveryInv, NEW d \in Dests, Create(d) PROVE DeliveryInv'
<1>1. /\ dests' = Append(dests, d)
      /\ UNCHANGED <<secret, overlap, trusts, rows, pc, todo, hand, posted, finished, owed,
                     abandoned, purged, accepted, crashes, faults>>
  BY DEF Create, procVars, pastVars
<1>2. TypeOK'
  BY <1>1, Held DEF TypeOK
<1>3. Bounded' /\ Overlapped'
  BY <1>1, Held DEF Bounded, CopyOK, Overlapped, TypeOK
<1>4. Placed' /\ HeldOnce' /\ AllCounted'
  BY <1>1, Held, HeldFrame, CountedFrame
<1>5. TrustKnown' /\ SignedAsClaimed' /\ RotationKeepsTrust'
  BY <1>1, Held, SecretsFrame
<1>6. OwedWanted'
  <2>1. \A i \in DOMAIN dests : i \in DOMAIN dests' /\ dests'[i] = dests[i]
    BY <1>1, Held DEF TypeOK
  <2>2. \A t : Subscribed(t) \subseteq Subscribed(t)'
    BY <2>1 DEF Subscribed
  <2> QED BY <1>1, <2>2, Held DEF OwedWanted
<1>7. AnnouncedUnlessAbandoned'
  BY <1>1, Held DEF AnnouncedUnlessAbandoned
<1> QED BY <1>2, <1>3, <1>4, <1>5, <1>6, <1>7 DEF DeliveryInv

(* A copy claimed before is of an older secret. *)
LEMMA RotateKeeps ==
    ASSUME DeliveryInv, NEW d \in Dests, Rotate(d) PROVE DeliveryInv'
<1>1. /\ ~overlap[d] /\ faults < MaxFaults /\ faults' = faults + 1
      /\ secret' = [secret EXCEPT ![d] = @ + 1] /\ overlap' = [overlap EXCEPT ![d] = TRUE]
      /\ UNCHANGED <<dests, trusts, rows, pc, todo, hand, posted, finished, owed,
                     abandoned, purged, accepted, crashes>>
  BY DEF Rotate, Fault, procVars
<1>2. /\ secret \in [Dests -> 0..MaxFaults] /\ faults \in 0..MaxFaults
      /\ secret[d] <= faults /\ crashes \in 0..faults
  BY Held DEF TypeOK, Bounded
<1>3. /\ secret'[d] = secret[d] + 1 /\ secret[d] \in Nat
      /\ \A c \in Dests : c # d => secret'[c] = secret[c]
  BY <1>1, <1>2
<1>4. TypeOK'
  <2>1. secret' \in [Dests -> 0..MaxFaults] /\ faults' \in 0..MaxFaults /\ crashes \in 0..faults'
    BY <1>1, <1>2, Numbers
  <2> QED BY <1>1, <2>1, Held DEF TypeOK
<1>5. \A p \in Processes : \A i \in hand[p] :
         i \in Item /\ i.dest \in Dests /\ i.version \in Nat
  BY Held DEF TypeOK, Item
<1>6. \A c \in Dests : secret[c] <= secret'[c] /\ secret'[c] <= faults' /\ secret[c] \in Nat
  BY <1>1, <1>2, <1>3, Numbers, Held DEF Bounded
<1>7. Bounded' /\ Overlapped'
  <2>1. \A e \in Events : purged[e] <= faults'
    <3> SUFFICES ASSUME NEW e \in Events PROVE purged[e] <= faults'
      OBVIOUS
    <3>1. purged[e] \in Nat /\ purged[e] <= faults
      BY Held, Counts DEF Bounded
    <3> QED BY <1>1, <1>2, <3>1, Numbers
  <2>2. ASSUME NEW i \in Item, CopyOK(i) PROVE CopyOK(i)'
    <3>1. i.dest \in Dests /\ i.version \in Int
      BY Numbers DEF Item
    <3>2. secret[i.dest] <= secret'[i.dest] /\ secret[i.dest] \in Int /\ secret'[i.dest] \in Int
      BY <1>1, <1>2, <1>6, <3>1
    <3> QED BY <2>2, <3>1, <3>2 DEF CopyOK
  <2>3. \A p \in Processes : posted[p] # Nothing => posted[p].item \in Item
    BY Held DEF TypeOK
  <2>4. Overlapped'
    BY <1>1, <1>2, <1>3, Held DEF Overlapped, TypeOK
  <2> QED BY <1>1, <1>5, <1>6, <2>1, <2>2, <2>3, <2>4, Held DEF Bounded
<1>8. Placed' /\ HeldOnce' /\ AllCounted' /\ OwedWanted' /\ AnnouncedUnlessAbandoned'
  BY <1>1, Held, HeldFrame, CountedFrame, AnnouncedFrame
<1>9. TrustKnown'
  <2> SUFFICES ASSUME NEW c \in Dests
               PROVE  \/ trusts[c] = secret'[c]
                      \/ overlap'[c] /\ trusts[c] = secret'[c] - 1
    BY <1>1 DEF TrustKnown
  <2>1. CASE c = d
    <3>1. trusts[d] = secret[d] /\ overlap'[d]
      BY <1>1, Held DEF TrustKnown, TypeOK
    <3> QED BY <1>3, <2>1, <3>1
  <2>2. CASE c # d
    BY <1>1, <1>3, <2>2, Held DEF TrustKnown, TypeOK
  <2> QED BY <2>1, <2>2
<1>10. SignedAsClaimed'
  BY <1>1, Held DEF SignedAsClaimed
<1>11. RotationKeepsTrust'
  <2> SUFFICES ASSUME NEW p \in Processes, NEW i \in hand[p], i.version = secret'[i.dest]
               PROVE  trusts[i.dest] \in i.signed
    BY <1>1 DEF RotationKeepsTrust
  <2>1. CopyOK(i) /\ i.version \in Nat /\ i.dest \in Dests
    BY <1>5, Held DEF Bounded
  <2>2. i.dest # d
    BY <1>3, <2>1 DEF CopyOK
  <2> QED BY <1>3, <2>1, <2>2, Held DEF RotationKeepsTrust
<1> QED BY <1>4, <1>7, <1>8, <1>9, <1>10, <1>11 DEF DeliveryInv

(* A copy of the current secret is signed with it. *)
LEMMA AdoptKeeps ==
    ASSUME DeliveryInv, NEW d \in Dests, Adopt(d) PROVE DeliveryInv'
<1>1. /\ trusts' = [trusts EXCEPT ![d] = secret[d]]
      /\ UNCHANGED <<dests, secret, overlap, rows, pc, todo, hand, posted, finished, owed,
                     abandoned, purged, accepted, crashes, faults>>
  BY DEF Adopt, procVars, pastVars
<1>2. TypeOK'
  BY <1>1, Held DEF TypeOK
<1>3. Bounded' /\ Overlapped'
  BY <1>1, Held DEF Bounded, CopyOK, Overlapped, TypeOK
<1>4. Placed' /\ HeldOnce' /\ AllCounted' /\ OwedWanted' /\ AnnouncedUnlessAbandoned'
  BY <1>1, Held, HeldFrame, CountedFrame, AnnouncedFrame
<1>5. \A c \in Dests : trusts'[c] = IF c = d THEN secret[c] ELSE trusts[c]
  BY <1>1, Held DEF TypeOK
<1>6. TrustKnown' /\ SignedAsClaimed'
  BY <1>1, <1>5, Held DEF TrustKnown, SignedAsClaimed
<1>7. RotationKeepsTrust'
  <2>1. \A p \in Processes : \A i \in hand[p] : i.dest \in Dests /\ i.version \in i.signed
    BY Held DEF TypeOK, Item, SignedAsClaimed
  <2> QED BY <1>1, <1>5, <2>1, Held DEF RotationKeepsTrust
<1> QED BY <1>2, <1>3, <1>4, <1>6, <1>7 DEF DeliveryInv

LEMMA ExpireKeeps ==
    ASSUME DeliveryInv, NEW d \in Dests, Expire(d) PROVE DeliveryInv'
<1>1. /\ trusts[d] = secret[d] /\ overlap' = [overlap EXCEPT ![d] = FALSE]
      /\ UNCHANGED <<dests, secret, trusts, rows, pc, todo, hand, posted, finished, owed,
                     abandoned, purged, accepted, crashes, faults>>
  BY DEF Expire, procVars, pastVars
<1>2. TypeOK'
  BY <1>1, Held DEF TypeOK
<1>3. Bounded' /\ Overlapped'
  BY <1>1, Held DEF Bounded, CopyOK, Overlapped, TypeOK
<1>4. Placed' /\ HeldOnce' /\ AllCounted' /\ OwedWanted' /\ AnnouncedUnlessAbandoned'
  BY <1>1, Held, HeldFrame, CountedFrame, AnnouncedFrame
<1>5. TrustKnown' /\ SignedAsClaimed' /\ RotationKeepsTrust'
  BY <1>1, Held DEF TrustKnown, SignedAsClaimed, RotationKeepsTrust, TypeOK
<1> QED BY <1>2, <1>3, <1>4, <1>5 DEF DeliveryInv

(* The announcement is owed until the row is there. *)
LEMMA FinishKeeps ==
    ASSUME DeliveryInv, NEW p \in Processes, NEW r \in Revisions, Finish(p, r)
    PROVE  DeliveryInv'
<1> DEFINE news == [i \in 1..Len(Raised[r]) |-> <<r, Raised[r][i]>>]
<1>1. /\ pc[p] = "idle" /\ faults' \in {faults, faults + 1} /\ faults' <= MaxFaults
      /\ finished' = finished \cup {r} /\ todo' = [todo EXCEPT ![p] = news]
      /\ pc' = [pc EXCEPT ![p] = IF news = <<>> THEN "idle" ELSE "emit"]
      /\ owed' = owed \cup {e \in ToSet(news) : Subscribed(e[2]) # {}}
      /\ UNCHANGED <<dests, secret, overlap, trusts, rows, hand, posted, abandoned, purged,
                     accepted, crashes>>
  BY Numbers, Held DEF Finish, Fault, destVars, TypeOK
<1>2. news \in Seq(Events) /\ ToSet(news) \subseteq Events
  <2>1. Raised[r] \in Seq(Types)
    BY DeliveryAssumption
  <2>2. news \in Seq(Events)
    BY <2>1 DEF Events
  <2> HIDE DEF news
  <2> QED BY <2>2 DEF ToSet
<1> HIDE DEF news
<1>3. faults' \in 0..MaxFaults /\ faults <= faults' /\ crashes \in 0..faults'
  BY <1>1, Numbers, Held DEF TypeOK
<1>4. TypeOK'
  BY <1>1, <1>2, <1>3, Held DEF TypeOK
<1>5. Bounded' /\ Overlapped'
  <2>1. ASSUME NEW d \in Dests PROVE secret[d] <= faults'
    BY <1>3, Held DEF TypeOK, Bounded
  <2>2. ASSUME NEW e \in Events PROVE purged[e] <= faults'
    BY <1>3, Held DEF TypeOK, Bounded
  <2> QED BY <1>1, <2>1, <2>2, Held DEF Bounded, CopyOK, Overlapped
<1>6. Placed' /\ HeldOnce'
  BY <1>1, Held DEF TypeOK, Placed, HeldOnce
<1>7. AllCounted'
  BY <1>1, Held, CountedFrame
<1>8. TrustKnown' /\ SignedAsClaimed' /\ RotationKeepsTrust'
  BY <1>1, Held, SecretsFrame
<1>9. OwedWanted'
  BY <1>1, Held DEF OwedWanted, Subscribed
<1>10. AnnouncedUnlessAbandoned'
  <2>1. \A q \in Processes : ToSet(todo[q]) \subseteq ToSet(todo'[q])
    <3> SUFFICES ASSUME NEW q \in Processes PROVE ToSet(todo[q]) \subseteq ToSet(todo'[q])
      OBVIOUS
    <3>1. todo[p] = <<>>
      BY <1>1, Held DEF Placed
    <3>2. CASE q = p
      BY <3>1, <3>2 DEF ToSet
    <3>3. CASE q # p
      BY <1>1, <3>3, Held DEF TypeOK
    <3> QED BY <3>2, <3>3
  <2>2. todo'[p] = news
    BY <1>1, Held DEF TypeOK
  <2> QED BY <1>1, <2>1, <2>2, Held DEF AnnouncedUnlessAbandoned
<1> QED BY <1>4, <1>5, <1>6, <1>7, <1>8, <1>9, <1>10 DEF DeliveryInv

(* The row of a new event stands for no acceptance yet. *)
LEMMA EmitKeeps ==
    ASSUME DeliveryInv, NEW p \in Processes, Emit(p) PROVE DeliveryInv'
<1> DEFINE e == Head(todo[p])
<1>1. /\ pc[p] = "emit" /\ rows' = Enqueue(e) /\ todo' = [todo EXCEPT ![p] = Tail(@)]
      /\ pc' = [pc EXCEPT ![p] = AfterEmit(p)]
      /\ UNCHANGED <<dests, secret, overlap, trusts, hand, posted, finished, owed,
                     abandoned, purged, accepted, crashes, faults>>
  BY DEF Emit, destVars, pastVars
<1>2. todo[p] \in Seq(Events) /\ todo[p] # <<>>
  BY <1>1, Held DEF TypeOK, Placed
<1>3. /\ e \in Events /\ Tail(todo[p]) \in Seq(Events) /\ Len(Tail(todo[p])) = Len(todo[p]) - 1
      /\ ToSet(todo[p]) \subseteq ToSet(Tail(todo[p])) \cup {e}
  <2>1. /\ e \in Events /\ Tail(todo[p]) \in Seq(Events)
        /\ Len(Tail(todo[p])) = Len(todo[p]) - 1
        /\ \A i \in 1..Len(Tail(todo[p])) : Tail(todo[p])[i] = todo[p][i + 1]
    BY <1>2, HeadTailProperties
  <2>2. ASSUME NEW i \in 1..Len(todo[p]) PROVE todo[p][i] \in ToSet(Tail(todo[p])) \cup {e}
    <3>1. CASE i = 1
      BY <1>2, <3>1
    <3>2. CASE i # 1
      <4>1. i - 1 \in 1..Len(Tail(todo[p])) /\ Tail(todo[p])[i - 1] = todo[p][i]
        BY <1>2, <2>1, <3>2
      <4>2. 1..Len(Tail(todo[p])) = DOMAIN Tail(todo[p])
        BY <2>1
      <4> QED BY <4>1, <4>2 DEF ToSet
    <3> QED BY <3>1, <3>2
  <2> QED BY <1>2, <2>1, <2>2 DEF ToSet
<1> HIDE DEF e
<1>4. /\ DOMAIN rows \subseteq DOMAIN rows' /\ DOMAIN rows' \subseteq DOMAIN rows \cup {e}
      /\ \A f \in DOMAIN rows : rows'[f] = rows[f]
      /\ e \in DOMAIN rows' \ DOMAIN rows => rows'[e] \in RowState /\ ~rows'[e].delivered
      /\ e \in DOMAIN rows' \/ Subscribed(e[2]) = {}
  BY <1>1, <1>3, Held, EnqueueGives
<1>5. TypeOK'
  <2>1. AfterEmit(p) \in {"idle", "emit", "claim", "send"}
    BY DEF AfterEmit
  <2>2. \A f \in DOMAIN rows' : rows'[f] \in RowState
    BY <1>4, Held DEF TypeOK
  <2>3. DOMAIN rows' \subseteq Events
    BY <1>3, <1>4, Held DEF TypeOK
  <2> QED BY <1>1, <1>3, <2>1, <2>2, <2>3, Held DEF TypeOK
<1>6. Bounded' /\ Overlapped'
  BY <1>1, Held DEF Bounded, CopyOK, Overlapped, TypeOK
<1>7. Placed' /\ HeldOnce'
  <2>1. pc'[p] # "send" /\ todo'[p] = Tail(todo[p])
    BY <1>1, Held DEF TypeOK, AfterEmit
  <2>2. hand[p] = {} /\ posted[p] = Nothing
    BY <1>1, Held DEF Placed
  <2> DEFINE rest == Tail(todo[p])
  <2>8. rest \in Seq(Events) /\ Len(rest) = Len(todo[p]) - 1
    BY <1>3
  <2>9. rest = <<>> <=> Len(todo[p]) = 1
    <3>1. rest = <<>> <=> Len(rest) = 0
      BY <2>8, EmptySeq
    <3>2. Len(todo[p]) \in Nat /\ Len(rest) \in Nat
      BY <1>2, <2>8
    <3> QED BY <2>8, <3>1, <3>2
  <2>3. pc'[p] = "emit" => todo'[p] # <<>>
    <3>1. pc'[p] = "emit" => Len(todo[p]) # 1
      BY <1>1, Held DEF TypeOK, AfterEmit
    <3> QED BY <2>1, <2>9, <3>1
  <2>4. pc'[p] = "idle" => todo'[p] = <<>>
    <3>1. pc'[p] = "idle" => Len(todo[p]) = 1
      BY <1>1, Held DEF TypeOK, AfterEmit
    <3> QED BY <2>1, <2>9, <3>1
  <2>5. \A q \in Processes : q # p => pc'[q] = pc[q] /\ todo'[q] = todo[q]
    BY <1>1, Held DEF TypeOK
  <2>6. Placed'
    BY <1>1, <2>1, <2>2, <2>3, <2>4, <2>5, Held DEF Placed
  <2>7. HeldOnce'
    BY <1>1, Held DEF HeldOnce
  <2> QED BY <2>6, <2>7
<1>8. AllCounted'
  <2> SUFFICES ASSUME NEW f \in Events PROVE Counted(f)'
    BY DEF AllCounted
  <2>1. /\ Granted(f)' = Granted(f) /\ Holders(f)' = Holders(f) /\ Acceptors(f)' = Acceptors(f)
        /\ accepted' = accepted
    BY <1>1 DEF Granted, Holders, Acceptors
  <2>2. Counted(f)
    BY Held DEF AllCounted
  <2>3. CASE f \in DOMAIN rows
    BY <1>4, <2>1, <2>2, <2>3 DEF Counted
  <2>4. CASE f \notin DOMAIN rows /\ f \notin DOMAIN rows'
    BY <2>1, <2>2, <2>4 DEF Counted
  <2>5. CASE f \notin DOMAIN rows /\ f \in DOMAIN rows'
    <3>1. f = e /\ ~rows'[f].delivered
      BY <1>4, <2>5
    <3>2. accepted[f] <= Granted(f) + Cardinality(Acceptors(f))
      BY <2>2, <2>5, Held, Counts DEF Counted
    <3> QED BY <2>1, <2>5, <3>1, <3>2 DEF Counted
  <2> QED BY <2>3, <2>4, <2>5
<1>9. TrustKnown' /\ SignedAsClaimed' /\ RotationKeepsTrust'
  BY <1>1, Held, SecretsFrame
<1>10. OwedWanted'
  BY <1>1, Held DEF OwedWanted, Subscribed
<1>11. AnnouncedUnlessAbandoned'
  <2> SUFFICES ASSUME NEW f \in owed
               PROVE  \/ f \in DOMAIN rows' \/ purged[f] > 0 \/ f \in abandoned
                      \/ \E q \in Processes : f \in ToSet(todo'[q])
    BY <1>1 DEF AnnouncedUnlessAbandoned
  <2>1. CASE \E q \in Processes : f \in ToSet(todo[q])
    <3>1. PICK q \in Processes : f \in ToSet(todo[q])
      BY <2>1
    <3>2. CASE q # p
      <4>1. todo'[q] = todo[q]
        BY <1>1, <3>2, Held DEF TypeOK
      <4> QED BY <3>1, <4>1
    <3>3. CASE q = p
      <4>1. todo'[p] = Tail(todo[p])
        BY <1>1, Held DEF TypeOK
      <4>2. f \in ToSet(Tail(todo[p])) \/ f = e
        BY <1>3, <3>1, <3>3
      <4>3. f = e => f \in DOMAIN rows'
        BY <1>4, Held DEF OwedWanted
      <4> QED BY <4>1, <4>2, <4>3
    <3> QED BY <3>2, <3>3
  <2>2. CASE ~ \E q \in Processes : f \in ToSet(todo[q])
    BY <1>4, <2>2, Held DEF AnnouncedUnlessAbandoned
  <2> QED BY <2>1, <2>2
<1> QED BY <1>5, <1>6, <1>7, <1>8, <1>9, <1>10, <1>11 DEF DeliveryInv

(* A claim takes up rows that are open; what was delivered or is gone gets  *)
(* no new holder. *)
LEMMA ClaimKeeps ==
    ASSUME DeliveryInv, NEW p \in Processes, Claim(p) PROVE DeliveryInv'
<1> DEFINE X == {Copy(e) : e \in Open}
<1>1. /\ pc[p] \in {"claim", "idle"} /\ (Open = {} => pc[p] = "claim")
      /\ hand' = [hand EXCEPT ![p] = X]
      /\ pc' = [pc EXCEPT ![p] = IF Open = {} THEN AfterDrain(p) ELSE "send"]
      /\ UNCHANGED <<dests, secret, overlap, trusts, rows, todo, posted, finished, owed,
                     abandoned, purged, accepted, crashes, faults>>
  BY DEF Claim, destVars, pastVars
<1>2. ASSUME NEW e \in Open
      PROVE  /\ e \in DOMAIN rows /\ e \in Events /\ ~rows[e].delivered
             /\ Copy(e) \in Item /\ CopyOK(Copy(e)) /\ Copy(e).event = e
             /\ Copy(e).version \in Copy(e).signed /\ trusts[Copy(e).dest] \in Copy(e).signed
  <2> DEFINE d == rows[e].dest
  <2>1. /\ e \in DOMAIN rows /\ e \in Events /\ ~rows[e].delivered
        /\ rows[e].attempts < MaxAttempts /\ rows[e] \in RowState
    BY Held DEF Open, TypeOK
  <2>2. d \in Dests /\ rows[e].attempts \in 0..MaxAttempts
    BY <2>1 DEF RowState
  <2>3. secret[d] \in 0..MaxFaults /\ trusts[d] \in 0..MaxFaults
    BY <2>2, Held DEF TypeOK
  <2>4. secret[d] \in Signing(d) /\ trusts[d] \in Signing(d)
    BY <2>2, Held DEF Signing, TrustKnown
  <2>5. Signing(d) \subseteq 0..MaxFaults
    <3>1. overlap[d] => secret[d] > 0
      BY <2>2, Held DEF Overlapped
    <3> QED BY <2>3, <3>1, Numbers DEF Signing
  <2>6. Copy(e) = [event |-> e, dest |-> d, attempts |-> rows[e].attempts,
                   version |-> secret[d], signed |-> Signing(d)]
    BY DEF Copy
  <2> HIDE DEF d
  <2>7. Copy(e) \in Item
    BY <2>1, <2>2, <2>3, <2>5, <2>6 DEF Item
  <2>8. CopyOK(Copy(e))
    BY <2>1, <2>3, <2>6, Numbers DEF CopyOK
  <2> QED BY <2>1, <2>4, <2>6, <2>7, <2>8
<1>3. /\ \A i \in X : i \in Item /\ CopyOK(i) /\ i.event \in Open /\ i = Copy(i.event)
                      /\ i.version \in i.signed /\ trusts[i.dest] \in i.signed
      /\ X = {} <=> Open = {}
  BY <1>2
<1> HIDE DEF X
<1>4. hand[p] = {} /\ posted[p] = Nothing /\ (pc[p] = "idle" => todo[p] = <<>>)
  BY <1>1, Held DEF Placed
<1>5. /\ hand'[p] = X /\ \A q \in Processes : q # p => hand'[q] = hand[q] /\ pc'[q] = pc[q]
      /\ pc'[p] = IF Open = {} THEN AfterDrain(p) ELSE "send"
  BY <1>1, Held DEF TypeOK
<1>6. TypeOK'
  <2>1. AfterDrain(p) \in {"idle", "emit"} /\ X \subseteq Item
    BY <1>3 DEF AfterDrain
  <2> QED BY <1>1, <2>1, Held DEF TypeOK
<1>7. Bounded' /\ Overlapped'
  BY <1>1, <1>3, <1>5, Held DEF Bounded, CopyOK, Overlapped
<1>8. Placed'
  BY <1>1, <1>3, <1>4, <1>5, Held DEF Placed, AfterDrain
<1>9. HeldOnce'
  BY <1>1, <1>3, <1>4, <1>5, Held DEF HeldOnce
<1>10. AllCounted'
  <2> SUFFICES ASSUME NEW e \in Events PROVE Counted(e)'
    BY DEF AllCounted
  <2>1. Granted(e)' = Granted(e) /\ Acceptors(e)' = Acceptors(e) /\ accepted' = accepted
    BY <1>1 DEF Granted, Acceptors
  <2>2. Counted(e)
    BY Held DEF AllCounted
  <2>3. e \notin Open => Holders(e)' = Holders(e)
    BY <1>3, <1>4, <1>5 DEF Holders
  <2>4. e \in Open => e \in DOMAIN rows /\ ~rows[e].delivered
    BY <1>2
  <2> QED BY <1>1, <2>1, <2>2, <2>3, <2>4 DEF Counted
<1>11. TrustKnown' /\ OwedWanted' /\ AnnouncedUnlessAbandoned'
  BY <1>1, Held, AnnouncedFrame DEF TrustKnown
<1>12. SignedAsClaimed' /\ RotationKeepsTrust'
  BY <1>1, <1>3, <1>5, Held DEF SignedAsClaimed, RotationKeepsTrust
<1> QED BY <1>6, <1>7, <1>8, <1>9, <1>10, <1>11, <1>12 DEF DeliveryInv

(* A copy that is posted is put down: an acceptance replaces a holder. *)
LEMMA PostKeeps ==
    ASSUME DeliveryInv, NEW p \in Processes, NEW i \in hand[p], NEW answer \in Answers,
           Post(p, i, answer)
    PROVE  DeliveryInv'
<1> DEFINE reply == [item |-> i, answer |-> answer]   one == IF answer = "ok" THEN 1 ELSE 0
<1>1. /\ pc[p] = "send" /\ posted[p] = Nothing
      /\ hand' = [hand EXCEPT ![p] = @ \ {i}] /\ posted' = [posted EXCEPT ![p] = reply]
      /\ accepted' = [accepted EXCEPT ![i.event] = @ + one]
      /\ UNCHANGED <<dests, secret, overlap, trusts, rows, pc, todo, finished, owed,
                     abandoned, purged, crashes, faults>>
  BY DEF Post, destVars
<1>2. i \in Item /\ i.event \in Events /\ CopyOK(i)
  BY Held DEF TypeOK, Bounded, Item
<1>3. reply \in [item : Item, answer : Answers] /\ reply # Nothing /\ one \in {0, 1}
      /\ reply.item = i /\ reply.answer = answer
  BY <1>2, NotNothing
<1>4. /\ hand'[p] = hand[p] \ {i} /\ posted'[p] = reply
      /\ \A q \in Processes : q # p => hand'[q] = hand[q] /\ posted'[q] = posted[q]
      /\ \A q \in Processes : hand'[q] \subseteq hand[q]
  BY <1>1, Held DEF TypeOK
<1>5. /\ accepted'[i.event] = accepted[i.event] + one
      /\ \A e \in Events : e # i.event => accepted'[e] = accepted[e]
  BY <1>1, <1>2, Held DEF TypeOK
<1> HIDE DEF reply
<1>6. TypeOK'
  <2>1. accepted' \in [Events -> Nat]
    <3> HIDE DEF one
    <3>1. accepted \in [Events -> Nat] /\ accepted[i.event] + one \in Nat
      BY <1>2, <1>3, Held DEF TypeOK
    <3> QED BY <1>1, <3>1
  <2>2. posted' \in [Processes -> [item : Item, answer : Answers] \cup {Nothing}]
    BY <1>1, <1>3, Held DEF TypeOK
  <2>3. hand' \in [Processes -> SUBSET Item]
    BY <1>1, Held DEF TypeOK
  <2> QED BY <1>1, <2>1, <2>2, <2>3, Held DEF TypeOK
<1>7. Bounded' /\ Overlapped'
  BY <1>1, <1>2, <1>3, <1>4, Held DEF Bounded, CopyOK, Overlapped
<1>8. Placed' /\ HeldOnce'
  <2>1. Placed'
    BY <1>1, <1>4, Held DEF Placed
  <2>2. HeldOnce'
    BY <1>1, <1>3, <1>4, Held DEF HeldOnce
  <2> QED BY <2>1, <2>2
<1>9. AllCounted'
  <2> SUFFICES ASSUME NEW e \in Events PROVE Counted(e)'
    BY DEF AllCounted
  <2>1. Granted(e)' = Granted(e) /\ Counted(e)
    BY <1>1, Held DEF Granted, AllCounted
  <2>2. CASE e # i.event
    <3>1. Holders(e)' = Holders(e)
      BY <1>4, <2>2 DEF Holders
    <3>2. Acceptors(e)' = Acceptors(e)
      BY <1>1, <1>3, <1>4, <2>2 DEF Acceptors
    <3> QED BY <1>1, <1>5, <2>1, <2>2, <3>1, <3>2 DEF Counted
  <2>3. CASE e = i.event
    <3>1. p \in Holders(e) /\ p \notin Acceptors(e)
      BY <1>1, <2>3 DEF Holders, Acceptors
    <3>2. Holders(e)' = Holders(e) \ {p}
      BY <1>4, <2>3, Held DEF Holders, HeldOnce
    <3>3. Acceptors(e)' = IF answer = "ok" THEN Acceptors(e) \cup {p} ELSE Acceptors(e)
      BY <1>1, <1>3, <1>4, <2>3 DEF Acceptors
    <3>4. /\ Cardinality(Holders(e)') = Cardinality(Holders(e)) - 1
          /\ Cardinality(Acceptors(e)') = Cardinality(Acceptors(e)) + one
      BY <3>1, <3>2, <3>3, Held, Counts, Without, With
    <3>5. accepted'[e] = accepted[e] + one
      BY <1>5, <2>3
    <3>6. Cardinality(Holders(e))' = Cardinality(Holders(e)')
          /\ Cardinality(Acceptors(e))' = Cardinality(Acceptors(e)')
      OBVIOUS
    <3> HIDE DEF one
    <3> QED BY <1>1, <1>3, <2>1, <3>4, <3>5, <3>6, Held, Counts, Numbers DEF Counted
  <2> QED BY <2>2, <2>3
<1>10. TrustKnown' /\ SignedAsClaimed' /\ RotationKeepsTrust'
  BY <1>1, <1>4, Held, SecretsFrame
<1>11. OwedWanted' /\ AnnouncedUnlessAbandoned'
  BY <1>1, Held, AnnouncedFrame
<1> QED BY <1>6, <1>7, <1>8, <1>9, <1>10, <1>11 DEF DeliveryInv

(* The processes that hold an acceptance hold no further copy of the row.   *)
LEMMA MarkKeeps ==
    ASSUME DeliveryInv, NEW p \in Processes, Mark(p) PROVE DeliveryInv'
<1> DEFINE item == posted[p].item   answer == posted[p].answer
<1>1. /\ posted[p] # Nothing
      /\ rows' = [e \in DOMAIN rows |->
                    IF e = item.event THEN Marked(rows[e], item, answer) ELSE rows[e]]
      /\ posted' = [posted EXCEPT ![p] = Nothing]
      /\ pc' = [pc EXCEPT ![p] = IF hand[p] = {} THEN AfterDrain(p) ELSE "send"]
      /\ UNCHANGED <<dests, secret, overlap, trusts, todo, hand, finished, owed,
                     abandoned, purged, accepted, crashes, faults>>
  BY DEF Mark, destVars, pastVars
<1>2. item \in Item /\ item.event \in Events /\ answer \in Answers /\ item.attempts \in Nat
      /\ item.attempts < MaxAttempts
  BY <1>1, Numbers, Held DEF TypeOK, Bounded, Item, CopyOK
<1>3. /\ posted'[p] = Nothing
      /\ \A q \in Processes : q # p => posted'[q] = posted[q] /\ pc'[q] = pc[q]
      /\ pc'[p] = IF hand[p] = {} THEN AfterDrain(p) ELSE "send"
  BY <1>1, Held DEF TypeOK
<1> HIDE DEF item, answer
<1>4. ASSUME NEW row \in RowState
      PROVE  /\ Marked(row, item, answer) \in RowState
             /\ Marked(row, item, answer).delivered = (row.delivered \/ answer = "ok")
  <2>1. item.attempts + 1 \in 0..MaxAttempts /\ MaxAttempts \in 0..MaxAttempts
    BY <1>2, Numbers
  <2>2. CASE answer = "ok"
    BY <2>2 DEF Marked, RowState
  <2>3. CASE answer = "retryable"
    BY <2>1, <2>3 DEF Marked, RowState
  <2>4. CASE answer = "permanent"
    BY <2>1, <2>4 DEF Marked, RowState
  <2> QED BY <1>2, <2>2, <2>3, <2>4 DEF Answers
<1>5. /\ DOMAIN rows' = DOMAIN rows
      /\ \A e \in DOMAIN rows :
           /\ rows'[e] \in RowState
           /\ e # item.event => rows'[e] = rows[e]
           /\ e = item.event => rows'[e].delivered = (rows[e].delivered \/ answer = "ok")
  BY <1>1, <1>4, Held DEF TypeOK
<1>6. TypeOK'
  <2>1. AfterDrain(p) \in {"idle", "emit"}
    BY DEF AfterDrain
  <2> QED BY <1>1, <1>5, <2>1, Held DEF TypeOK
<1>7. Bounded' /\ Overlapped'
  BY <1>1, <1>3, Held DEF Bounded, CopyOK, Overlapped
<1>8. Placed' /\ HeldOnce'
  <2>1. Placed'
    BY <1>1, <1>3, Held DEF Placed, AfterDrain
  <2>2. HeldOnce'
    BY <1>1, <1>3, Held DEF HeldOnce
  <2> QED BY <2>1, <2>2
<1>9. AllCounted'
  <2> SUFFICES ASSUME NEW e \in Events PROVE Counted(e)'
    BY DEF AllCounted
  <2>1. Granted(e)' = Granted(e) /\ Counted(e) /\ Holders(e)' = Holders(e)
    BY <1>1, Held DEF Granted, AllCounted, Holders
  <2>2. CASE ~(e = item.event /\ answer = "ok")
    <3>1. Acceptors(e)' = Acceptors(e)
      BY <1>1, <1>3, <2>2 DEF Acceptors, item, answer
    <3>2. e \in DOMAIN rows =>
            (rows'[e].delivered <=> rows[e].delivered)
      BY <1>5, <2>2
    <3> QED BY <1>1, <1>5, <2>1, <3>1, <3>2 DEF Counted
  <2>3. CASE e = item.event /\ answer = "ok"
    <3>1. Acceptors(e) \cap Holders(e) = {}
      BY Held DEF Acceptors, Holders, HeldOnce
    <3>2. Cardinality(Acceptors(e)) + Cardinality(Holders(e)) <= Cardinality(Processes)
      BY <3>1, Held, Counts, Apart
    <3>3. e \in DOMAIN rows => rows'[e].delivered
      BY <1>5, <2>3
    <3>4. e \in DOMAIN rows =>
            accepted[e] + Cardinality(Holders(e)) <= Granted(e) + Cardinality(Processes)
      BY <2>1, <3>2, Held, Counts, Numbers DEF Counted
    <3> QED BY <1>1, <1>5, <2>1, <3>3, <3>4 DEF Counted
  <2> QED BY <2>2, <2>3
<1>10. TrustKnown' /\ SignedAsClaimed' /\ RotationKeepsTrust'
  BY <1>1, Held, SecretsFrame
<1>11. OwedWanted' /\ AnnouncedUnlessAbandoned'
  <2>1. OwedWanted'
    BY <1>1, Held DEF OwedWanted, Subscribed
  <2>2. AnnouncedUnlessAbandoned'
    BY <1>1, <1>5, Held DEF AnnouncedUnlessAbandoned
  <2> QED BY <2>1, <2>2
<1> QED BY <1>6, <1>7, <1>8, <1>9, <1>10, <1>11 DEF DeliveryInv

(* What a process forgets it no longer marks: one acceptance at the most.   *)
LEMMA AbandonKeeps ==
    ASSUME DeliveryInv, NEW p \in Processes, Abandon(p) PROVE DeliveryInv'
<1>1. /\ faults < MaxFaults /\ faults' = faults + 1 /\ crashes' = crashes + 1
      /\ abandoned' = abandoned \cup ToSet(todo[p]) /\ pc' = [pc EXCEPT ![p] = "idle"]
      /\ todo' = [todo EXCEPT ![p] = <<>>] /\ hand' = [hand EXCEPT ![p] = {}]
      /\ posted' = [posted EXCEPT ![p] = Nothing]
      /\ UNCHANGED <<dests, secret, overlap, trusts, rows, finished, owed, purged, accepted>>
  BY DEF Abandon, Fault, destVars
<1>2. /\ pc'[p] = "idle" /\ todo'[p] = <<>> /\ hand'[p] = {} /\ posted'[p] = Nothing
      /\ \A q \in Processes : q # p => /\ pc'[q] = pc[q] /\ todo'[q] = todo[q]
                                       /\ hand'[q] = hand[q] /\ posted'[q] = posted[q]
  BY <1>1, Held DEF TypeOK
<1>3. faults \in 0..MaxFaults /\ crashes \in 0..faults /\ faults' \in 0..MaxFaults
      /\ crashes' \in 0..faults'
  BY <1>1, Numbers, Held DEF TypeOK
<1>4. TypeOK'
  <2>1. ToSet(todo[p]) \subseteq Events
    BY Held DEF TypeOK, ToSet
  <2> QED BY <1>1, <1>3, <2>1, Held DEF TypeOK
<1>5. Bounded' /\ Overlapped'
  <2>1. ASSUME NEW d \in Dests PROVE secret[d] <= faults'
    BY <1>1, <1>3, Numbers, Held DEF TypeOK, Bounded
  <2>2. ASSUME NEW e \in Events PROVE purged[e] <= faults'
    BY <1>1, <1>3, Numbers, Held DEF TypeOK, Bounded
  <2> QED BY <1>1, <1>2, <2>1, <2>2, Held DEF Bounded, CopyOK, Overlapped
<1>6. Placed' /\ HeldOnce'
  BY <1>2, Held DEF Placed, HeldOnce
<1>7. AllCounted'
  <2> SUFFICES ASSUME NEW e \in Events PROVE Counted(e)'
    BY DEF AllCounted
  <2>1. Granted(e)' = Granted(e) + 1
    <3>1. Cardinality(Processes) * purged[e] \in Nat /\ crashes \in Nat
      BY Numbers, Held, Counts, Product
    <3> DEFINE product == Cardinality(Processes) * purged[e]
    <3>2. Granted(e) = crashes + product /\ Granted(e)' = (crashes + 1) + product
      BY <1>1 DEF Granted
    <3> HIDE DEF product
    <3>3. product \in Nat
      BY <3>1 DEF product
    <3> QED BY <3>1, <3>2, <3>3
  <2>2. Holders(e)' = Holders(e) \ {p} /\ Acceptors(e)' = Acceptors(e) \ {p} /\ Counted(e)
    BY <1>2, Held DEF Holders, Acceptors, AllCounted
  <2>3. /\ Cardinality(Holders(e) \ {p}) <= Cardinality(Holders(e))
        /\ Cardinality(Acceptors(e) \ {p}) >= Cardinality(Acceptors(e)) - 1
        /\ Cardinality(Holders(e) \ {p}) \in Nat /\ Cardinality(Acceptors(e) \ {p}) \in Nat
    BY Held, Counts, Without, Some
  <2>4. Cardinality(Holders(e))' = Cardinality(Holders(e) \ {p})
        /\ Cardinality(Acceptors(e))' = Cardinality(Acceptors(e) \ {p})
    BY <2>2
  <2>5. /\ accepted[e] \in Nat /\ Granted(e) \in Nat /\ Cardinality(Processes) \in Nat
        /\ Cardinality(Holders(e)) \in Nat /\ Cardinality(Acceptors(e)) \in Nat
    BY Held, Counts, Numbers
  <2>6. accepted' = accepted /\ rows' = rows
    BY <1>1
  <2>7. CASE e \notin DOMAIN rows
    <3>1. accepted[e] + Cardinality(Holders(e) \ {p}) <= Granted(e) + 1
      BY <2>2, <2>3, <2>5, <2>7 DEF Counted
    <3> QED BY <2>1, <2>4, <2>6, <2>7, <3>1 DEF Counted
  <2>8. CASE e \in DOMAIN rows /\ rows[e].delivered
    <3>1. accepted[e] + Cardinality(Holders(e) \ {p}) <= Granted(e) + 1 + Cardinality(Processes)
      BY <2>2, <2>3, <2>5, <2>8 DEF Counted
    <3> QED BY <2>1, <2>4, <2>6, <2>8, <3>1 DEF Counted
  <2>9. CASE e \in DOMAIN rows /\ ~rows[e].delivered
    <3>1. accepted[e] <= Granted(e) + 1 + Cardinality(Acceptors(e) \ {p})
      BY <2>2, <2>3, <2>5, <2>9 DEF Counted
    <3> QED BY <2>1, <2>4, <2>6, <2>9, <3>1 DEF Counted
  <2> QED BY <2>7, <2>8, <2>9
<1>8. TrustKnown' /\ SignedAsClaimed' /\ RotationKeepsTrust'
  BY <1>1, <1>2, Held, SecretsFrame
<1>9. OwedWanted'
  BY <1>1, Held DEF OwedWanted, Subscribed
<1>10. AnnouncedUnlessAbandoned'
  BY <1>1, <1>2, Held DEF AnnouncedUnlessAbandoned
<1> QED BY <1>4, <1>5, <1>6, <1>7, <1>8, <1>9, <1>10 DEF DeliveryInv

(* A purged row may come back, and whoever held it may still be accepted.   *)
LEMMA PurgeKeeps ==
    ASSUME DeliveryInv, NEW r \in Revisions, Purge(r) PROVE DeliveryInv'
<1>1. /\ faults < MaxFaults /\ faults' = faults + 1
      /\ purged' = [e \in Events |->
                      purged[e] + IF e[1] = r /\ e \in DOMAIN rows THEN 1 ELSE 0]
      /\ rows' = [e \in {f \in DOMAIN rows : f[1] # r} |-> rows[e]]
      /\ UNCHANGED <<dests, secret, overlap, trusts, pc, todo, hand, posted, finished, owed,
                     abandoned, accepted, crashes>>
  BY DEF Purge, Fault, destVars, procVars
<1>2. /\ faults \in 0..MaxFaults /\ faults' \in 0..MaxFaults /\ crashes \in 0..faults'
  BY <1>1, Numbers, Held DEF TypeOK
<1>3. ASSUME NEW e \in Events
      PROVE  /\ purged[e] \in Nat /\ purged[e] <= faults
             /\ e[1] = r /\ e \in DOMAIN rows =>
                  e \notin DOMAIN rows' /\ purged'[e] = purged[e] + 1
             /\ ~(e[1] = r /\ e \in DOMAIN rows) =>
                  /\ purged'[e] = purged[e] /\ (e \in DOMAIN rows <=> e \in DOMAIN rows')
                  /\ e \in DOMAIN rows => rows'[e] = rows[e]
  <2>1. purged[e] \in Nat /\ purged[e] <= faults
    BY Held, Counts DEF Bounded
  <2> QED BY <1>1, <2>1
<1>4. ASSUME NEW e \in Events PROVE purged'[e] \in 0..MaxFaults /\ purged'[e] <= faults'
  <2>1. purged'[e] \in {purged[e], purged[e] + 1}
    BY <1>3
  <2>2. purged[e] \in Nat /\ purged[e] <= faults /\ faults' = faults + 1
    BY <1>1, <1>3
  <2>3. faults \in Nat /\ faults' \in 0..MaxFaults
    BY <1>2, Numbers
  <2> QED BY <2>1, <2>2, <2>3, Numbers
<1>5. TypeOK'
  <2>1. purged' \in [Events -> 0..MaxFaults]
    BY <1>1, <1>4
  <2>2. DOMAIN rows' \subseteq Events /\ \A e \in DOMAIN rows' : rows'[e] \in RowState
    BY <1>1, Held DEF TypeOK
  <2> QED BY <1>1, <1>2, <2>1, <2>2, Held DEF TypeOK
<1>6. Bounded' /\ Overlapped'
  <2>1. ASSUME NEW d \in Dests PROVE secret[d] <= faults'
    BY <1>1, <1>2, Numbers, Held DEF TypeOK, Bounded
  <2> QED BY <1>1, <1>4, <2>1, Held DEF Bounded, CopyOK, Overlapped
<1>7. Placed' /\ HeldOnce'
  BY <1>1, Held, HeldFrame
<1>8. AllCounted'
  <2> SUFFICES ASSUME NEW e \in Events PROVE Counted(e)'
    BY DEF AllCounted
  <2>1. /\ Holders(e)' = Holders(e) /\ Acceptors(e)' = Acceptors(e) /\ Counted(e)
        /\ accepted' = accepted
    BY <1>1, Held DEF Holders, Acceptors, AllCounted
  <2>2. CASE ~(e[1] = r /\ e \in DOMAIN rows)
    <3>1. Granted(e)' = Granted(e)
      BY <1>1, <1>3, <2>2 DEF Granted
    <3>2. (e \in DOMAIN rows <=> e \in DOMAIN rows') /\ (e \in DOMAIN rows => rows'[e] = rows[e])
      BY <1>3, <2>2
    <3> QED BY <2>1, <3>1, <3>2 DEF Counted
  <2>3. CASE e[1] = r /\ e \in DOMAIN rows
    <3>1. Granted(e)' = Granted(e) + Cardinality(Processes)
      <4>1. Cardinality(Processes) * (purged[e] + 1)
              = Cardinality(Processes) * purged[e] + Cardinality(Processes)
        BY <1>3, Numbers, Product
      <4>2. /\ Granted(e) = crashes + Cardinality(Processes) * purged[e]
            /\ Granted(e)' = crashes + Cardinality(Processes) * (purged[e] + 1)
        BY <1>1, <1>3, <2>3 DEF Granted
      <4> DEFINE product == Cardinality(Processes) * purged[e]
      <4>3. product \in Nat
        BY <1>3, Numbers, Product
      <4> HIDE DEF product
      <4>4. crashes \in Nat
        BY Held, Counts
      <4> QED BY <4>1, <4>2, <4>3, <4>4, Numbers DEF product
    <3>2. Acceptors(e) \cap Holders(e) = {}
      BY Held DEF Acceptors, Holders, HeldOnce
    <3>3. Cardinality(Acceptors(e)) + Cardinality(Holders(e)) <= Cardinality(Processes)
      BY <3>2, Held, Counts, Apart
    <3>4. accepted[e] + Cardinality(Holders(e)) <= Granted(e) + Cardinality(Processes)
      BY <2>1, <2>3, <3>3, Held, Counts, Numbers DEF Counted
    <3>5. e \notin DOMAIN rows'
      BY <1>3, <2>3
    <3> QED BY <2>1, <3>1, <3>4, <3>5 DEF Counted
  <2> QED BY <2>2, <2>3
<1>9. TrustKnown' /\ SignedAsClaimed' /\ RotationKeepsTrust'
  BY <1>1, Held, SecretsFrame
<1>10. OwedWanted'
  BY <1>1, Held DEF OwedWanted, Subscribed
<1>11. AnnouncedUnlessAbandoned'
  <2> SUFFICES ASSUME NEW e \in owed
               PROVE  \/ e \in DOMAIN rows' \/ purged'[e] > 0 \/ e \in abandoned
                      \/ \E p \in Processes : e \in ToSet(todo[p])
    BY <1>1 DEF AnnouncedUnlessAbandoned
  <2>1. e \in Events
    BY Held DEF TypeOK
  <2>2. CASE e[1] = r /\ e \in DOMAIN rows
    BY <1>3, <2>1, <2>2
  <2>3. CASE ~(e[1] = r /\ e \in DOMAIN rows)
    BY <1>3, <2>1, <2>3, Held DEF AnnouncedUnlessAbandoned
  <2> QED BY <2>2, <2>3
<1> QED BY <1>5, <1>6, <1>7, <1>8, <1>9, <1>10, <1>11 DEF DeliveryInv

LEMMA DeliveryNextKeeps ==
    ASSUME DeliveryInv, [Next]_vars PROVE DeliveryInv'
<1>1. CASE \E d \in Dests : Create(d) \/ Rotate(d) \/ Adopt(d) \/ Expire(d)
  BY <1>1, CreateKeeps, RotateKeeps, AdoptKeeps, ExpireKeeps
<1>2. CASE \E p \in Processes : Work(p) \/ Abandon(p) \/ \E r \in Revisions : Finish(p, r)
  <2>1. PICK p \in Processes : Work(p) \/ Abandon(p) \/ \E r \in Revisions : Finish(p, r)
    BY <1>2
  <2>2. CASE Work(p)
    BY <2>2, EmitKeeps, ClaimKeeps, MarkKeeps, PostKeeps DEF Work
  <2>3. CASE Abandon(p) \/ \E r \in Revisions : Finish(p, r)
    BY <2>3, AbandonKeeps, FinishKeeps
  <2> QED BY <2>1, <2>2, <2>3
<1>3. CASE \E r \in Revisions : Purge(r)
  BY <1>3, PurgeKeeps
<1>4. CASE UNCHANGED vars
  <2>1. UNCHANGED <<dests, secret, overlap, trusts, rows, pc, todo, hand, posted, finished,
                    owed, abandoned, purged, accepted, crashes, faults>>
    BY <1>4 DEF vars, destVars, procVars, pastVars
  <2>2. TypeOK' /\ Bounded' /\ Overlapped'
    BY <2>1, Held DEF TypeOK, Bounded, CopyOK, Overlapped
  <2>3. Placed' /\ HeldOnce' /\ AllCounted' /\ OwedWanted' /\ AnnouncedUnlessAbandoned'
    BY <2>1, Held, HeldFrame, CountedFrame, AnnouncedFrame
  <2>4. TrustKnown' /\ SignedAsClaimed' /\ RotationKeepsTrust'
    BY <2>1, Held, SecretsFrame
  <2> QED BY <2>2, <2>3, <2>4 DEF DeliveryInv
<1> QED BY <1>1, <1>2, <1>3, <1>4 DEF Next

(* The count of every reachable state gives the bound a receiver sees.      *)
LEMMA CountBounds ==
    ASSUME DeliveryInv PROVE DuplicatesBounded
<1> SUFFICES ASSUME NEW e \in Events
             PROVE  accepted[e] <= crashes + Cardinality(Processes) * (1 + purged[e])
  BY DEF DuplicatesBounded
<1>1. accepted[e] <= Granted(e) + Cardinality(Processes)
  <2>1. Counted(e)
    BY Held DEF AllCounted
  <2>2. Cardinality(Acceptors(e)) <= Cardinality(Processes)
    BY Held, Counts, Some
  <2> QED BY <2>1, <2>2, Held, Counts, Numbers DEF Counted
<1> DEFINE product == Cardinality(Processes) * purged[e]
<1>2. /\ product \in Nat
      /\ Cardinality(Processes) * (purged[e] + 1) = product + Cardinality(Processes)
  BY Held, Counts, Numbers, Product
<1>3. Granted(e) = crashes + product /\ 1 + purged[e] = purged[e] + 1
  BY Held, Counts DEF Granted
<1> HIDE DEF product
<1>4. crashes \in Nat /\ accepted[e] \in Nat
  BY Held, Counts
<1> QED BY <1>1, <1>2, <1>3, <1>4, Numbers

LEMMA DeliveryInductive == Spec => []DeliveryInv
<1>1. Init => DeliveryInv
  BY DeliveryInitInv
<1>2. DeliveryInv /\ [Next]_vars => DeliveryInv'
  BY DeliveryNextKeeps
<1> QED BY <1>1, <1>2, PTL DEF Spec

(* A receiver accepts an event once, plus once for each process that held   *)
(* the row meanwhile, died before its mark, or held it over a purge: claims *)
(* without a lease and attempts written from copies (claim, mark_delivered) *)
(* cost no more than that. *)
THEOREM DuplicatesStayBounded == Spec => []DuplicatesBounded
<1>1. DeliveryInv => DuplicatesBounded
  BY CountBounds
<1> QED BY <1>1, DeliveryInductive, PTL

(* What an assembled revision owes its subscribers is a row, purged, still  *)
(* in the hands of a live drainer, or lost with one that failed             *)
(* (emit_standard_event after mark_assembled). *)
THEOREM AnnouncementsKept == Spec => []AnnouncedUnlessAbandoned
<1>1. DeliveryInv => AnnouncedUnlessAbandoned
  BY DEF DeliveryInv
<1> QED BY <1>1, DeliveryInductive, PTL

(* A row claimed since the last rotation of its destination is signed with  *)
(* a secret its receiver has, before and after it adopts the new one        *)
(* (rotate_secret, sign). *)
THEOREM RotationsHarmless == Spec => []RotationKeepsTrust
<1>1. DeliveryInv => RotationKeepsTrust
  BY DEF DeliveryInv
<1> QED BY <1>1, DeliveryInductive, PTL

(* The types of the webhook outbox, of its processes and of its history.    *)
THEOREM DeliveryTypes == Spec => []TypeOK
<1>1. DeliveryInv => TypeOK
  BY DEF DeliveryInv
<1> QED BY <1>1, DeliveryInductive, PTL

-----------------------------------------------------------------------------
(***************************************************************************)
(* The forward queue.                                                      *)
(***************************************************************************)

ForwardTyped ==
    /\ queue \in [Jobs -> JobState] /\ object \subseteq Jobs
    /\ claimed \in [Forwarders -> SUBSET Copies]
    /\ job \in [Forwarders -> Copies \cup {NoJob}]
    /\ left \in [Forwarders -> SUBSET Targets]
    /\ got \in [Jobs -> SUBSET Targets] /\ declined \in [Jobs -> SUBSET Targets]
    /\ blank \subseteq Jobs /\ lost \subseteq Jobs

(* The object of a row was put, and is there unless retention deleted it. *)
ObjectKept == \A j \in Jobs : queue[j] # "absent" => j \in object \cup lost

(* A copy without bytes is one of a job whose object was deleted. *)
BytesKept(c) == c.raw \/ c.id \in lost

ClaimedClean == \A p \in Forwarders : \A c \in claimed[p] : BytesKept(c) /\ ~c.retry

Ticked(p) == Targets \ left[p] \subseteq got[job[p].id] \cup declined[job[p].id]
JobHonest ==
    \A p \in Forwarders :
        job[p] # NoJob => BytesKept(job[p]) /\ (~job[p].retry => Ticked(p))

ForwardInv == ForwardTyped /\ ObjectKept /\ ClaimedClean /\ JobHonest /\ ForwardedWhole

-----------------------------------------------------------------------------

LEMMA ForwardParts ==
    ASSUME ForwardInv PROVE ForwardTyped /\ ObjectKept /\ ClaimedClean /\ JobHonest /\ ForwardedWhole
  BY DEF ForwardInv

LEMMA ForwardInitInv == ASSUME ForwardInit PROVE ForwardInv
<1>1. ForwardTyped
  BY DEF ForwardInit, ForwardTyped, JobState
<1> QED BY <1>1 DEF ForwardInit, ForwardInv, ObjectKept, ClaimedClean, JobHonest, ForwardedWhole

LEMMA EnqueueBatchKeeps ==
    ASSUME ForwardInv, NEW j \in Jobs, EnqueueBatch(j) PROVE ForwardInv'
<1>1. ForwardTyped'
  BY ForwardParts DEF ForwardTyped, EnqueueBatch, sendVars, takenVars, JobState
<1>2. ObjectKept' /\ ForwardedWhole'
  BY ForwardParts DEF ForwardTyped, EnqueueBatch, sendVars, takenVars, ObjectKept, ForwardedWhole
<1>3. ClaimedClean' /\ JobHonest'
  BY ForwardParts DEF EnqueueBatch, sendVars, takenVars, ClaimedClean, JobHonest, Ticked, BytesKept
<1> QED BY <1>1, <1>2, <1>3 DEF ForwardInv

LEMMA WakeKeeps ==
    ASSUME ForwardInv, NEW j \in Jobs, Wake(j) PROVE ForwardInv'
<1>1. ForwardTyped'
  BY ForwardParts DEF ForwardTyped, Wake, sendVars, takenVars, JobState
<1>2. ObjectKept' /\ ForwardedWhole'
  BY ForwardParts DEF ForwardTyped, Wake, sendVars, takenVars, ObjectKept, ForwardedWhole
<1>3. ClaimedClean' /\ JobHonest'
  BY ForwardParts DEF Wake, sendVars, takenVars, ClaimedClean, JobHonest, Ticked, BytesKept
<1> QED BY <1>1, <1>2, <1>3 DEF ForwardInv

LEMMA LoseObjectKeeps ==
    ASSUME ForwardInv, NEW j \in Jobs, LoseObject(j) PROVE ForwardInv'
<1>1. ForwardTyped'
  BY ForwardParts DEF ForwardTyped, LoseObject, sendVars
<1>2. ObjectKept' /\ ForwardedWhole'
  BY ForwardParts DEF LoseObject, sendVars, ObjectKept, ForwardedWhole
<1>3. ClaimedClean' /\ JobHonest'
  BY ForwardParts DEF LoseObject, sendVars, ClaimedClean, JobHonest, Ticked, BytesKept
<1> QED BY <1>1, <1>2, <1>3 DEF ForwardInv

LEMMA CrashKeeps ==
    ASSUME ForwardInv, NEW p \in Forwarders, Crash(p) PROVE ForwardInv'
<1>1. ForwardTyped'
  BY ForwardParts DEF ForwardTyped, Crash, takenVars
<1>2. ObjectKept' /\ ForwardedWhole'
  BY ForwardParts DEF Crash, takenVars, ObjectKept, ForwardedWhole
<1>3. ClaimedClean' /\ JobHonest'
  BY ForwardParts DEF ForwardTyped, Crash, takenVars, ClaimedClean, JobHonest, Ticked, BytesKept
<1> QED BY <1>1, <1>2, <1>3 DEF ForwardInv

(* The bytes are read with the claim: they are there or were deleted. *)
LEMMA ClaimJobsKeeps ==
    ASSUME ForwardInv, NEW p \in Forwarders, ClaimJobs(p) PROVE ForwardInv'
<1> DEFINE X == {[id |-> j, raw |-> j \in object, retry |-> FALSE] : j \in Claimable}
<1>1. /\ claimed' = [claimed EXCEPT ![p] = X]
      /\ UNCHANGED <<queue, object, job, left, got, declined, blank, lost>>
  BY DEF ClaimJobs, takenVars
<1>2. ASSUME NEW c \in X PROVE c \in Copies /\ BytesKept(c) /\ ~c.retry
  <2>1. PICK j \in Claimable : c = [id |-> j, raw |-> j \in object, retry |-> FALSE]
    OBVIOUS
  <2>2. j \in Jobs /\ j \in object \cup lost
    BY ForwardParts DEF Claimable, ObjectKept
  <2> HIDE DEF X
  <2>3. c.id = j /\ c.raw = (j \in object) /\ c.retry = FALSE
    BY <2>1
  <2>4. (j \in object) \in BOOLEAN
    OBVIOUS
  <2>5. c \in Copies
    BY <2>1, <2>2, <2>4 DEF Copies
  <2> QED BY <2>2, <2>3, <2>5 DEF BytesKept
<1>3. X \subseteq Copies /\ \A c \in X : BytesKept(c) /\ ~c.retry
  <2> HIDE DEF X
  <2> QED BY <1>2
<1>4. ForwardTyped'
  <2> HIDE DEF X
  <2> QED BY <1>1, <1>3, ForwardParts DEF ForwardTyped
<1>5. ClaimedClean'
  <2> HIDE DEF X
  <2> QED BY <1>1, <1>3, ForwardParts DEF ForwardTyped, ClaimedClean, BytesKept
<1>6. ObjectKept' /\ ForwardedWhole' /\ JobHonest'
  BY <1>1, ForwardParts DEF ObjectKept, ForwardedWhole, JobHonest, Ticked, BytesKept
<1> QED BY <1>4, <1>5, <1>6 DEF ForwardInv

LEMMA BeginKeeps ==
    ASSUME ForwardInv, NEW p \in Forwarders, NEW c \in claimed[p], Begin(p, c)
    PROVE  ForwardInv'
<1>1. /\ claimed' = [claimed EXCEPT ![p] = @ \ {c}] /\ job' = [job EXCEPT ![p] = c]
      /\ left' = [left EXCEPT ![p] = Targets]
      /\ UNCHANGED <<queue, object, got, declined, blank, lost>>
  BY DEF Begin, takenVars
<1>2. c \in Copies /\ BytesKept(c) /\ ~c.retry
  BY ForwardParts DEF ForwardTyped, ClaimedClean
<1>3. ForwardTyped'
  BY <1>1, <1>2, ForwardParts DEF ForwardTyped
<1>4. ClaimedClean'
  BY <1>1, ForwardParts DEF ForwardTyped, ClaimedClean, BytesKept
<1>5. ObjectKept' /\ ForwardedWhole'
  BY <1>1, ForwardParts DEF ObjectKept, ForwardedWhole
<1>6. JobHonest'
  <2> SUFFICES ASSUME NEW q \in Forwarders, job'[q] # NoJob
               PROVE  (BytesKept(job[q]))' /\ (~job'[q].retry => Ticked(q)')
    BY DEF JobHonest
  <2>1. CASE q = p
    BY <1>1, <1>2, <2>1, ForwardParts DEF ForwardTyped, BytesKept, Ticked
  <2>2. CASE q # p
    BY <1>1, <2>2, ForwardParts DEF ForwardTyped, JobHonest, BytesKept, Ticked
  <2> QED BY <2>1, <2>2
<1> QED BY <1>3, <1>4, <1>5, <1>6 DEF ForwardInv

(* An answer that is not to be retried is a final one of that destination.  *)
LEMMA SendKeeps ==
    ASSUME ForwardInv, NEW p \in Forwarders, NEW t \in left[p],
           NEW answer \in {"ok", "retryable", "permanent"}, Send(p, t, answer)
    PROVE  ForwardInv'
<1> DEFINE j == job[p].id
<1>1. /\ job[p] # NoJob /\ left' = [left EXCEPT ![p] = @ \ {t}]
      /\ blank' = IF job[p].raw THEN blank ELSE blank \cup {j}
      /\ got' = IF answer = "ok" THEN [got EXCEPT ![j] = @ \cup {t}] ELSE got
      /\ declined' = IF answer = "permanent" THEN [declined EXCEPT ![j] = @ \cup {t}]
                     ELSE declined
      /\ job' = IF answer = "retryable" THEN [job EXCEPT ![p].retry = TRUE] ELSE job
      /\ UNCHANGED <<queue, object, claimed, lost>>
  BY DEF Send
<1>2. job[p] \in Copies /\ j \in Jobs /\ t \in Targets /\ BytesKept(job[p])
  BY <1>1, ForwardParts DEF ForwardTyped, JobHonest, Copies
<1>3. job'[p] \in Copies /\ job'[p].id = j /\ job'[p].raw = job[p].raw
  BY <1>1, <1>2, ForwardParts DEF ForwardTyped, Copies
<1>4. job'[p].retry <=> job[p].retry \/ answer = "retryable"
  BY <1>1, <1>2, ForwardParts DEF ForwardTyped, Copies
<1>5. /\ got' \in [Jobs -> SUBSET Targets] /\ declined' \in [Jobs -> SUBSET Targets]
      /\ \A i \in Jobs : got[i] \subseteq got'[i] /\ declined[i] \subseteq declined'[i]
  BY <1>1, <1>2, ForwardParts DEF ForwardTyped
<1>6. answer # "retryable" => t \in got'[j] \cup declined'[j]
  BY <1>1, <1>2, ForwardParts DEF ForwardTyped
<1>7. \A q \in Forwarders \ {p} : job'[q] = job[q] /\ left'[q] = left[q]
  BY <1>1, ForwardParts DEF ForwardTyped
<1>8. ForwardTyped'
  <2>1. job' \in [Forwarders -> Copies \cup {NoJob}]
    BY <1>1, <1>3, ForwardParts DEF ForwardTyped
  <2>2. left' \in [Forwarders -> SUBSET Targets] /\ blank' \subseteq Jobs
    BY <1>1, <1>2, ForwardParts DEF ForwardTyped
  <2> QED BY <1>1, <1>5, <2>1, <2>2, ForwardParts DEF ForwardTyped
<1>9. ObjectKept' /\ ClaimedClean'
  BY <1>1, ForwardParts DEF ObjectKept, ClaimedClean, BytesKept
<1>10. ForwardedWhole'
  <2>1. blank' \subseteq lost
    BY <1>1, <1>2, ForwardParts DEF ForwardedWhole, BytesKept
  <2>2. \A i \in Jobs : queue[i] = "delivered" => got'[i] \cup declined'[i] = Targets
    BY <1>5, ForwardParts DEF ForwardedWhole
  <2> QED BY <1>1, <2>1, <2>2 DEF ForwardedWhole
<1>11. JobHonest'
  <2> SUFFICES ASSUME NEW q \in Forwarders, job'[q] # NoJob
               PROVE  (BytesKept(job[q]))' /\ (~job'[q].retry => Ticked(q)')
    BY DEF JobHonest
  <2>1. CASE q = p
    <3>1. ~job'[p].retry => Ticked(p) /\ answer # "retryable"
      BY <1>1, <1>4, ForwardParts DEF JobHonest
    <3>2. left'[p] = left[p] \ {t}
      BY <1>1, ForwardParts DEF ForwardTyped
    <3>3. ~job'[p].retry => Ticked(p)'
      BY <1>2, <1>3, <1>5, <1>6, <3>1, <3>2 DEF Ticked
    <3> QED BY <1>1, <1>2, <1>3, <2>1, <3>3 DEF BytesKept
  <2>2. CASE q # p
    <3>1. job[q] # NoJob /\ job[q] \in Copies /\ job[q].id \in Jobs
      BY <1>7, <2>2, ForwardParts DEF ForwardTyped, Copies
    <3>2. BytesKept(job[q]) /\ (~job[q].retry => Ticked(q))
      BY <3>1, ForwardParts DEF JobHonest
    <3> QED BY <1>1, <1>5, <1>7, <2>2, <3>1, <3>2 DEF BytesKept, Ticked
  <2> QED BY <2>1, <2>2
<1> QED BY <1>8, <1>9, <1>10, <1>11 DEF ForwardInv

(* A row is marked delivered by a copy that has nothing left and no retry.  *)
LEMMA SettleKeeps ==
    ASSUME ForwardInv, NEW p \in Forwarders, Settle(p) PROVE ForwardInv'
<1> DEFINE j == job[p].id
<1>1. /\ job[p] # NoJob /\ left[p] = {} /\ job' = [job EXCEPT ![p] = NoJob]
      /\ queue' = IF queue[j] \in {"absent", "delivered"} THEN queue
                  ELSE [queue EXCEPT ![j] = Outcome(job[p])]
      /\ UNCHANGED <<object, claimed, left, got, declined, blank, lost>>
  BY DEF Settle, takenVars
<1>2. job[p] \in Copies /\ j \in Jobs
  BY <1>1, ForwardParts DEF ForwardTyped, Copies
<1>3. Outcome(job[p]) \in JobState
  BY DEF Outcome, JobState
<1>4. ForwardTyped'
  BY <1>1, <1>2, <1>3, ForwardParts DEF ForwardTyped
<1>5. ClaimedClean' /\ JobHonest'
  BY <1>1, ForwardParts DEF ForwardTyped, ClaimedClean, JobHonest, Ticked, BytesKept
<1>6. \A i \in Jobs : queue'[i] # "absent" => queue[i] # "absent"
  BY <1>1, <1>2, ForwardParts DEF ForwardTyped
<1>7. ObjectKept'
  BY <1>1, <1>6, ForwardParts DEF ObjectKept
<1>8. ForwardedWhole'
  <2> SUFFICES ASSUME NEW i \in Jobs, queue'[i] = "delivered"
               PROVE  got[i] \cup declined[i] = Targets
    BY <1>1, ForwardParts DEF ForwardedWhole
  <2>1. CASE queue[i] = "delivered"
    BY <2>1, ForwardParts DEF ForwardedWhole
  <2>2. CASE queue[i] # "delivered"
    <3>1. i = j /\ Outcome(job[p]) = "delivered"
      BY <1>1, <1>2, <2>2, ForwardParts DEF ForwardTyped
    <3>2. Ticked(p)
      BY <1>1, <3>1, ForwardParts DEF Outcome, JobHonest
    <3> QED BY <1>1, <1>2, <3>1, <3>2, ForwardParts DEF ForwardTyped, Ticked
  <2> QED BY <2>1, <2>2
<1> QED BY <1>4, <1>5, <1>7, <1>8 DEF ForwardInv

LEMMA ForwardNextKeeps ==
    ASSUME ForwardInv, [ForwardNext]_forwardVars PROVE ForwardInv'
<1>1. CASE \E j \in Jobs : EnqueueBatch(j) \/ Wake(j) \/ LoseObject(j)
  BY <1>1, EnqueueBatchKeeps, WakeKeeps, LoseObjectKeeps
<1>2. CASE \E p \in Forwarders : Forwarding(p) \/ Crash(p)
  BY <1>2, ClaimJobsKeeps, BeginKeeps, SendKeeps, SettleKeeps, CrashKeeps DEF Forwarding
<1>3. CASE UNCHANGED forwardVars
  <2>1. UNCHANGED <<queue, object, claimed, job, left, got, declined, blank, lost>>
    BY <1>3 DEF forwardVars, sendVars, takenVars
  <2> QED BY <2>1, ForwardParts DEF ForwardInv, ForwardTyped, ObjectKept, ClaimedClean, JobHonest, Ticked,
                             BytesKept, ForwardedWhole
<1> QED BY <1>1, <1>2, <1>3 DEF ForwardNext

(* A job is marked delivered only when every destination took it or refused *)
(* it for good, and original bytes are sent while their object is there,    *)
(* whichever drains hold the job (drain_forward_queue, mark_delivered).     *)
THEOREM JobsForwardedWhole == ForwardSpec => []ForwardedWhole
<1>1. ForwardInit => ForwardInv
  BY ForwardInitInv
<1>2. ForwardInv /\ [ForwardNext]_forwardVars => ForwardInv'
  BY ForwardNextKeeps
<1>3. ForwardInv => ForwardedWhole
  BY DEF ForwardInv
<1> QED BY <1>1, <1>2, <1>3, PTL DEF ForwardSpec
=============================================================================
