--------------------------- MODULE ConsoleProofs ----------------------------
(***************************************************************************)
(* Proofs about what the console reads and edits.                           *)
(*                                                                         *)
(* Listing: for any calls, dates and size of a page, a client that follows  *)
(* next_cursor to its end has seen every call that kept its place, on       *)
(* either path.  The invariant: what is owed and not yet seen is in the     *)
(* rest of the list as its cursor would be answered now.  A page keeps it   *)
(* because all that does not fit follows the last call that does; a change  *)
(* keeps it because a call that moves is no longer owed, and a cursor whose *)
(* call has another revision, or none, starts the list again.               *)
(*                                                                         *)
(* Rubrics: for any rubrics, texts, requests and restarts, a version is of  *)
(* one text unless a waiting PUT was overtaken.  The invariant: of such a    *)
(* rubric a waiting PUT has read what the cache and the table hold, and no  *)
(* version later than that was issued, so that the next one is new.         *)
(***************************************************************************)
EXTENDS Listing, Rubrics, FiniteSetTheorems, WellFoundedInduction, TLAPS

Typed ==
    /\ pointers \in [Calls -> [revision : Nat, started : Nat]]
    /\ clock \in [Calls -> Nat]
    /\ erased \subseteq Calls
    /\ reader \in [path : Paths \cup {"none"}, cursor : [call : Nat, revision : Nat],
                   seen : SUBSET Calls, steady : SUBSET Calls, done : BOOLEAN]

(* A call has a date while it has a revision, and a deleted one has neither. *)
DatedWhileActive ==
    \A c \in Calls :
        /\ pointers[c].revision = 0 <=> clock[c] = 0
        /\ c \in erased => pointers[c].revision = 0

(* A cursor names a revision that was active: the call has this one or a    *)
(* later one, or was deleted. *)
CursorOfPast ==
    LET cursor == reader.cursor IN
    cursor # NoCursor =>
        /\ cursor.call \in Calls /\ cursor.revision # 0
        /\ cursor.call \in erased \/ pointers[cursor.call].revision >= cursor.revision

(* Call c is in the rest of the list of reader r, over pointers P and        *)
(* clocks K. *)
Behind(c, t, d, u) == t < u \/ (t = u /\ c < d)
Ahead(r, P, K, c) ==
    LET d == r.cursor.call IN
    /\ P[c].revision # 0
    /\ r.path = "summaries" =>
         /\ P[c].started # 0
         /\ \/ r.cursor = NoCursor \/ P[d].started = 0
            \/ Behind(c, P[c].started, d, P[d].started)
    /\ r.path = "revisions" =>
         /\ K[c] # 0
         /\ \/ r.cursor = NoCursor \/ K[d] = 0 \/ P[d].revision # r.cursor.revision
            \/ Behind(c, K[c], d, K[d])

Owed ==
    reader.path # "none" /\ ~reader.done =>
        \A c \in reader.steady \ reader.seen : Ahead(reader, pointers, clock, c)

ListingInv == Typed /\ DatedWhileActive /\ CursorOfPast /\ Owed /\ PagesCoverSteady

-----------------------------------------------------------------------------
(* The order of the list.                                                  *)

LEMMA DatedTyped ==
    ASSUME Typed, NEW path \in Paths, NEW c \in Calls PROVE Dated(path, c) \in Nat
  BY DEF Typed, Dated

Ordered(path, X) ==
    \A c, d, e \in X :
        /\ ~Follows(path, c, c)
        /\ c # d => Follows(path, c, d) \/ Follows(path, d, c)
        /\ ~(Follows(path, c, d) /\ Follows(path, d, c))
        /\ Follows(path, c, d) /\ Follows(path, d, e) => Follows(path, c, e)

LEMMA Order ==
    ASSUME ListingAssumption, Typed, NEW path \in Paths, NEW X \in SUBSET Calls
    PROVE  Ordered(path, X) /\ IsFiniteSet(X)
<1>1. ASSUME NEW c \in X, NEW d \in X, NEW e \in X
      PROVE  /\ ~Follows(path, c, c)
             /\ c # d => Follows(path, c, d) \/ Follows(path, d, c)
             /\ ~(Follows(path, c, d) /\ Follows(path, d, c))
             /\ Follows(path, c, d) /\ Follows(path, d, e) => Follows(path, c, e)
  <2>1. c \in Nat /\ d \in Nat /\ e \in Nat
    BY DEF ListingAssumption
  <2>2. Dated(path, c) \in Nat /\ Dated(path, d) \in Nat /\ Dated(path, e) \in Nat
    BY DatedTyped
  <2> QED BY <2>1, <2>2 DEF Follows
<1>2. IsFiniteSet(X)
  BY FS_Subset DEF ListingAssumption
<1> QED BY <1>1, <1>2 DEF Ordered

LEMMA Minimal ==
    ASSUME NEW X, IsFiniteSet(X), X # {}, NEW f \in [X -> SUBSET X]
    PROVE  \E c \in X : \A d \in X : ~(f[d] \subseteq f[c] /\ f[d] # f[c])
<1> DEFINE T == {f[c] : c \in X}
<1>1. IsWellFoundedOn(StrictSubsetOrdering(X), SUBSET X)
  BY FS_StrictSubsetOrderingWellFounded, FS_FiniteSubsetsOfFinite
<1>2. T \subseteq SUBSET X /\ T # {}
  OBVIOUS
<1>3. PICK x \in T : \A y \in T : ~(<<y, x>> \in StrictSubsetOrdering(X))
  <2> HIDE DEF T
  <2> QED BY <1>1, <1>2, WFMin
<1>4. PICK c \in X : x = f[c]
  BY <1>3
<1>5. ASSUME NEW d \in X, f[d] \subseteq f[c], f[d] # f[c] PROVE FALSE
  <2>1. f[d] \in T /\ f[d] \in SUBSET X /\ f[c] \in SUBSET X
    OBVIOUS
  <2>2. <<f[d], f[c]>> \in StrictSubsetOrdering(X)
    BY <1>5, <2>1 DEF StrictSubsetOrdering
  <2> QED BY <1>3, <1>4, <2>1, <2>2
<1> QED BY <1>5

(* A page has a last call, and the list a first one. *)
LEMMA LastExists ==
    ASSUME NEW path, NEW X, IsFiniteSet(X), Ordered(path, X), X # {}
    PROVE  /\ LastCall(path, X) \in X
           /\ \A d \in X \ {LastCall(path, X)} : Follows(path, LastCall(path, X), d)
<1> DEFINE Later(c) == {d \in X : Follows(path, d, c)}
           f == [c \in X |-> Later(c)]
<1>3. PICK c \in X : \A e \in X : ~(Later(e) \subseteq Later(c) /\ Later(e) # Later(c))
  <2>1. f \in [X -> SUBSET X]
    OBVIOUS
  <2>2. \A c \in X : f[c] = Later(c)
    OBVIOUS
  <2> HIDE DEF f, Later
  <2>3. PICK c \in X : \A d \in X : ~(f[d] \subseteq f[c] /\ f[d] # f[c])
    BY <2>1, Minimal
  <2> QED BY <2>2, <2>3
<1>4. ASSUME NEW d \in X \ {c} PROVE Follows(path, c, d)
  <2>1. SUFFICES ASSUME Follows(path, d, c) PROVE FALSE
    BY DEF Ordered
  <2>2. Later(d) \subseteq Later(c)
    BY <2>1 DEF Ordered
  <2>3. d \in Later(c) /\ d \notin Later(d)
    BY <2>1 DEF Ordered
  <2> QED BY <1>3, <2>2, <2>3
<1> QED BY <1>4 DEF LastCall

LEMMA FirstExists ==
    ASSUME NEW path, NEW X, IsFiniteSet(X), Ordered(path, X), X # {}
    PROVE  Limit \in Nat \ {0} => First(path, X) # {}
<1> DEFINE Sooner(c) == {d \in X : Follows(path, c, d)}
           f == [c \in X |-> Sooner(c)]
<1>3. PICK c \in X : \A e \in X : ~(Sooner(e) \subseteq Sooner(c) /\ Sooner(e) # Sooner(c))
  <2>1. f \in [X -> SUBSET X]
    OBVIOUS
  <2>2. \A c \in X : f[c] = Sooner(c)
    OBVIOUS
  <2> HIDE DEF f, Sooner
  <2>3. PICK c \in X : \A d \in X : ~(f[d] \subseteq f[c] /\ f[d] # f[c])
    BY <2>1, Minimal
  <2> QED BY <2>2, <2>3
<1>4. ASSUME NEW d \in Sooner(c) PROVE FALSE
  <2>1. Sooner(d) \subseteq Sooner(c) /\ d \notin Sooner(d)
    BY DEF Ordered
  <2> QED BY <1>3, <2>1
<1>5. Sooner(c) = {}
  BY <1>4
<1>6. Limit \in Nat \ {0} => Cardinality(Sooner(c)) < Limit
  BY <1>5, FS_EmptySet
<1> QED BY <1>6 DEF First

(* What does not fit on a page follows what does. *)
LEMMA PageSplits ==
    ASSUME Limit \in Nat \ {0}, NEW path, NEW X, IsFiniteSet(X), Ordered(path, X)
    PROVE  /\ First(path, X) \subseteq X
           /\ ~(Cardinality(X) > Limit) => First(path, X) = X
           /\ X # {} => CursorOf(path, X) \in X
           /\ \A d \in X \ First(path, X) : Follows(path, d, CursorOf(path, X))
<1> DEFINE Sooner(c) == {d \in X : Follows(path, c, d)}
           last == CursorOf(path, X)
<1>1. Cardinality(X) \in Nat /\ Limit \in Nat
  BY FS_CardinalityType
<1>2. ASSUME NEW c \in X
      PROVE  Cardinality(Sooner(c)) \in Nat /\ Cardinality(Sooner(c)) < Cardinality(X)
  <2>1. c \notin Sooner(c) /\ Sooner(c) \subseteq X
    BY DEF Ordered
  <2>2. /\ IsFiniteSet(Sooner(c)) /\ Cardinality(Sooner(c)) \in Nat
        /\ Cardinality(Sooner(c)) <= Cardinality(X) /\ Cardinality(X) # Cardinality(Sooner(c))
    BY <2>1, FS_Subset, FS_CardinalityType
  <2> QED BY <1>1, <2>2
<1>3. First(path, X) \subseteq X /\ (~(Cardinality(X) > Limit) => First(path, X) = X)
  <2>1. First(path, X) = {c \in X : Cardinality(Sooner(c)) < Limit}
    BY DEF First
  <2> HIDE DEF Sooner
  <2>2. ASSUME ~(Cardinality(X) > Limit), NEW c \in X PROVE Cardinality(Sooner(c)) < Limit
    BY <1>1, <1>2, <2>2
  <2> QED BY <2>1, <2>2, Zenon
<1>4. X # {} => last \in First(path, X) /\ last \in X
  <2>1. IsFiniteSet(First(path, X)) /\ Ordered(path, First(path, X))
    BY <1>3, FS_Subset DEF Ordered
  <2>2. X # {} => First(path, X) # {}
    BY FirstExists
  <2>3. First(path, X) # {} => LastCall(path, First(path, X)) \in First(path, X)
    BY <2>1, LastExists
  <2> QED BY <1>3, <2>2, <2>3 DEF CursorOf
<1>5. ASSUME NEW d \in X \ First(path, X) PROVE Follows(path, d, last)
  <2> HIDE DEF last
  <2>1. last \in First(path, X) /\ last \in X
    BY <1>4
  <2>2. SUFFICES ASSUME Follows(path, last, d) PROVE FALSE
    BY <2>1 DEF Ordered
  <2>3. Sooner(d) \subseteq Sooner(last)
    BY <2>1, <2>2 DEF Ordered
  <2>4. Cardinality(Sooner(d)) <= Cardinality(Sooner(last))
    <3>1. IsFiniteSet(Sooner(last))
      BY FS_Subset
    <3> QED BY <2>3, <3>1, FS_Subset
  <2>5. Cardinality(Sooner(last)) < Limit /\ ~(Cardinality(Sooner(d)) < Limit)
    BY <2>1 DEF First
  <2> HIDE DEF Sooner
  <2> QED BY <1>1, <1>2, <2>1, <2>4, <2>5
<1> QED BY <1>3, <1>4, <1>5

-----------------------------------------------------------------------------
(* One lemma per action.                                                   *)

LEMMA ReaderFields ==
    ASSUME Typed
    PROVE  /\ reader.path \in Paths \cup {"none"} /\ reader.done \in BOOLEAN
           /\ reader.seen \subseteq Calls /\ reader.steady \subseteq Calls
           /\ reader.cursor \in [call : Nat, revision : Nat]
           /\ reader.cursor.call \in Nat /\ reader.cursor.revision \in Nat
  BY DEF Typed

LEMMA RestIs ==
    ASSUME Typed, DatedWhileActive, reader.path \in Paths,
           reader.cursor # NoCursor => reader.cursor.call \in Calls
    PROVE  Rest(reader.path, reader.cursor) = {c \in Calls : Ahead(reader, pointers, clock, c)}
<1>1. CASE reader.path = "summaries"
  <2>1. Rest(reader.path, reader.cursor) = AfterCall(reader.cursor)
    BY <1>1 DEF Rest
  <2>2. ASSUME NEW c \in Calls
        PROVE  /\ c \in Listed("summaries") <=> pointers[c].revision # 0 /\ pointers[c].started # 0
               /\ \A d : Follows("summaries", c, d) <=>
                             Behind(c, pointers[c].started, d, pointers[d].started)
    BY DEF Listed, Dated, Follows, Behind
  <2>3. Listed("summaries") \subseteq Calls /\ \A d : Dated("summaries", d) = pointers[d].started
    BY DEF Listed, Dated
  <2>4. ASSUME NEW c \in Calls
        PROVE  c \in AfterCall(reader.cursor) <=> Ahead(reader, pointers, clock, c)
    <3>1. c \in AfterCall(reader.cursor) <=>
              /\ c \in Listed("summaries")
              /\ \/ reader.cursor = NoCursor \/ pointers[reader.cursor.call].started = 0
                 \/ Follows("summaries", c, reader.cursor.call)
      BY <2>3 DEF AfterCall
    <3>2. Follows("summaries", c, reader.cursor.call) <=>
              Behind(c, pointers[c].started, reader.cursor.call, pointers[reader.cursor.call].started)
      BY <2>2
    <3>3. Ahead(reader, pointers, clock, c) <=>
              /\ pointers[c].revision # 0 /\ pointers[c].started # 0
              /\ \/ reader.cursor = NoCursor \/ pointers[reader.cursor.call].started = 0
                 \/ Behind(c, pointers[c].started, reader.cursor.call, pointers[reader.cursor.call].started)
      BY <1>1 DEF Ahead, Behind
    <3>4. c \in Listed("summaries") <=> pointers[c].revision # 0 /\ pointers[c].started # 0
      BY <2>2
    <3> QED BY <3>1, <3>2, <3>3, <3>4
  <2>5. AfterCall(reader.cursor) \subseteq Calls
    BY <2>3 DEF AfterCall
  <2> QED BY <2>1, <2>4, <2>5
<1>2. CASE reader.path = "revisions"
  <2>1. \A c \in Calls : c \in Listed("revisions") <=> clock[c] # 0
    BY DEF DatedWhileActive, Listed, Dated
  <2>2. \A c \in Calls : clock[c] # 0 => pointers[c].revision # 0
    BY DEF DatedWhileActive
  <2> QED BY <1>2, <2>1, <2>2 DEF Rest, AfterRevision, Dated, Follows, Ahead, Behind, Listed
<1> QED BY <1>1, <1>2 DEF Paths

LEMMA BeginKeeps ==
    ASSUME ListingAssumption, ListingInv, NEW path \in Paths, Begin(path)
    PROVE  ListingInv'
<1>1. reader' = [path |-> path, cursor |-> NoCursor, seen |-> {}, steady |-> Listed(path), done |-> FALSE]
  BY DEF Begin, Idle
<1>2. UNCHANGED <<pointers, clock, erased>>
  BY DEF Begin
<1>3. Listed(path) \subseteq Calls /\ NoCursor \in [call : Nat, revision : Nat]
  BY DEF Listed, NoCursor
<1>4. Typed'
  BY <1>1, <1>2, <1>3 DEF ListingInv, Typed
<1>5. CursorOfPast' /\ PagesCoverSteady' /\ DatedWhileActive'
  BY <1>1, <1>2 DEF ListingInv, CursorOfPast, PagesCoverSteady, DatedWhileActive
<1>6. Owed'
  <2>1. \A c \in Listed(path) : Ahead(reader', pointers, clock, c)
    BY <1>1 DEF Paths, Listed, Dated, Ahead
  <2> QED BY <1>1, <1>2, <2>1 DEF Owed
<1> QED BY <1>4, <1>5, <1>6 DEF ListingInv

LEMMA PageKeeps ==
    ASSUME ListingAssumption, ListingInv, Page
    PROVE  ListingInv'
<1> DEFINE path == reader.path
           rest == Rest(path, reader.cursor)
           last == CursorOf(path, rest)
           next == [call |-> last, revision |-> pointers[last].revision]
<1>1. path \in Paths /\ ~reader.done /\ UNCHANGED <<pointers, clock, erased>>
  BY ReaderFields DEF Page, ListingInv
<1>2. rest \subseteq Listed(path) /\ Listed(path) \subseteq Calls
  BY <1>1 DEF Paths, Rest, AfterCall, AfterRevision, Listed
<1>3. /\ First(path, rest) \subseteq rest
      /\ ~(Cardinality(rest) > Limit) => First(path, rest) = rest
      /\ rest # {} => last \in rest
      /\ \A d \in rest \ First(path, rest) : Follows(path, d, last)
  <2> HIDE DEF rest, path
  <2>1. Ordered(path, rest) /\ IsFiniteSet(rest) /\ Limit \in Nat \ {0}
    BY <1>1, <1>2, Order DEF ListingInv, ListingAssumption
  <2> QED BY <2>1, PageSplits
<1>4. reader.steady \ reader.seen \subseteq rest
  <2>1. path # "none" /\ reader.steady \subseteq Calls
    BY <1>1, ReaderFields DEF Paths, ListingInv
  <2>2. rest = {c \in Calls : Ahead(reader, pointers, clock, c)}
    BY <1>1, RestIs DEF ListingInv, CursorOfPast
  <2> QED BY <1>1, <2>1, <2>2 DEF ListingInv, Owed
<1>5. /\ reader'.path = path /\ reader'.steady = reader.steady
      /\ reader'.seen = reader.seen \cup First(path, rest)
      /\ reader'.done = ~(Cardinality(rest) > Limit)
      /\ reader'.cursor = IF Cardinality(rest) > Limit THEN next ELSE NoCursor
  BY DEF Page, ListingInv, Typed
<1>6. reader' \in [path : Paths \cup {"none"}, cursor : [call : Nat, revision : Nat],
                  seen : SUBSET Calls, steady : SUBSET Calls, done : BOOLEAN]
  <2>1. reader'.cursor \in [call : Nat, revision : Nat]
    <3>1. CASE Cardinality(rest) > Limit
      <4>1. rest # {}
        BY <3>1, FS_EmptySet DEF ListingAssumption
      <4>2. last \in Calls /\ last \in Nat /\ pointers[last].revision \in Nat
        BY <1>2, <1>3, <4>1 DEF ListingAssumption, ListingInv, Typed
      <4> QED BY <1>5, <3>1, <4>2
    <3>2. CASE ~(Cardinality(rest) > Limit)
      BY <1>5, <3>2 DEF NoCursor
    <3> QED BY <3>1, <3>2
  <2>2. reader' = [path |-> reader'.path, cursor |-> reader'.cursor, seen |-> reader'.seen,
                   steady |-> reader'.steady, done |-> reader'.done]
    BY DEF Page, ListingInv, Typed
  <2>3. reader'.seen \in SUBSET Calls /\ reader'.steady \in SUBSET Calls /\ reader'.done \in BOOLEAN
    BY <1>2, <1>3, <1>5, ReaderFields DEF ListingInv
  <2> QED BY <1>1, <1>5, <2>1, <2>2, <2>3
<1>7. Typed' /\ DatedWhileActive'
  BY <1>1, <1>6 DEF ListingInv, Typed, DatedWhileActive
<1>8. CASE Cardinality(rest) > Limit
  <2>1. rest # {}
    BY <1>8, FS_EmptySet DEF ListingAssumption
  <2>2. last \in rest /\ last \in Listed(path) /\ last \in Calls
    BY <1>2, <1>3, <2>1
  <2>3. reader'.cursor.call = last /\ reader'.cursor.revision = pointers[last].revision
        /\ reader'.cursor = next
    BY <1>5, <1>8
  <2>4. pointers[last].revision # 0 /\ pointers[last].revision \in Nat /\ Dated(path, last) # 0
    BY <2>2 DEF Listed, ListingInv, Typed
  <2>5. CursorOfPast'
    BY <1>1, <2>2, <2>3, <2>4 DEF CursorOfPast
  <2>6. ASSUME NEW d \in rest \ First(path, rest) PROVE Ahead(reader', pointers, clock, d)
    <3>1. Follows(path, d, last) /\ d \in Listed(path)
      BY <1>2, <1>3
    <3> HIDE DEF last, rest
    <3> QED BY <1>1, <1>5, <2>3, <3>1 DEF Paths, Ahead, Follows, Dated, Listed, Behind
  <2>7. Owed' /\ PagesCoverSteady'
    BY <1>1, <1>4, <1>5, <1>8, <2>6 DEF Owed, PagesCoverSteady
  <2> QED BY <1>7, <2>5, <2>7 DEF ListingInv
<1>9. CASE ~(Cardinality(rest) > Limit)
  <2>1. reader'.cursor = NoCursor /\ reader'.done /\ First(path, rest) = rest
    BY <1>3, <1>5, <1>9
  <2>2. CursorOfPast' /\ Owed' /\ PagesCoverSteady'
    BY <1>4, <1>5, <2>1 DEF CursorOfPast, Owed, PagesCoverSteady
  <2> QED BY <1>7, <2>2 DEF ListingInv
<1> QED BY <1>8, <1>9

(* What an action that is not the reader's does to it: less may be owed. *)
Released(r) == [path |-> reader.path, cursor |-> reader.cursor, seen |-> reader.seen,
                steady |-> r, done |-> reader.done]

LEMMA ReleasedTyped ==
    ASSUME Typed, NEW X \in SUBSET Calls
    PROVE  /\ Released(X) = [reader EXCEPT !.steady = X]
           /\ Released(reader.steady) = reader
           /\ Released(X) \in [path : Paths \cup {"none"}, cursor : [call : Nat, revision : Nat],
                               seen : SUBSET Calls, steady : SUBSET Calls, done : BOOLEAN]
  BY DEF Typed, Released

(* A call that is promoted is not the one its cursor names any more. *)
LEMMA PromoteKeeps ==
    ASSUME ListingAssumption, ListingInv, NEW c \in Calls, Promote(c)
    PROVE  ListingInv'
<1>1. PICK t \in Clocks :
          /\ pointers' = [pointers EXCEPT ![c].revision = @ + 1]
          /\ clock' = [clock EXCEPT ![c] = t]
          /\ reader' = IF clock[c] = t THEN reader ELSE Moved(reader, "revisions", c)
  BY DEF Promote
<1>2. c \notin erased /\ erased' = erased /\ t \in Nat /\ t # 0
  BY <1>1 DEF Promote, ListingAssumption
<1>3. /\ Typed /\ DatedWhileActive /\ CursorOfPast /\ Owed /\ PagesCoverSteady
  BY DEF ListingInv
<1>4. PICK X \in SUBSET Calls :
          /\ reader' = Released(X)
          /\ X = reader.steady \/ X = reader.steady \ {c}
          /\ reader.path = "revisions" /\ clock[c] # t => c \notin X
  <2>1. CASE clock[c] = t \/ reader.path # "revisions"
    <3>1. reader' = reader
      BY <1>1, <2>1 DEF Moved
    <3> QED BY <1>3, <2>1, <3>1, ReleasedTyped, ReaderFields
  <2>2. CASE clock[c] # t /\ reader.path = "revisions"
    <3>1. reader' = [reader EXCEPT !.steady = reader.steady \ {c}]
      BY <1>1, <1>3, <2>2 DEF Moved, Typed
    <3>2. reader.steady \ {c} \in SUBSET Calls
      BY <1>3, ReaderFields
    <3> QED BY <1>3, <3>1, <3>2, ReleasedTyped
  <2> QED BY <2>1, <2>2
<1>5. /\ reader'.path = reader.path /\ reader'.cursor = reader.cursor
      /\ reader'.seen = reader.seen /\ reader'.steady = X /\ reader'.done = reader.done
  BY <1>4 DEF Released
<1>6. /\ pointers' \in [Calls -> [revision : Nat, started : Nat]]
      /\ clock' \in [Calls -> Nat]
      /\ \A d \in Calls : pointers'[d].started = pointers[d].started
      /\ \A d \in Calls \ {c} : pointers'[d].revision = pointers[d].revision /\ clock'[d] = clock[d]
      /\ pointers'[c].revision = pointers[c].revision + 1 /\ clock'[c] = t
  BY <1>1, <1>2, <1>3 DEF Typed
<1>7. \A d \in Calls : pointers[d].revision \in Nat
  BY <1>3 DEF Typed
<1>8. Typed'
  BY <1>2, <1>3, <1>4, <1>6, ReleasedTyped DEF Typed
<1>9. DatedWhileActive'
  BY <1>2, <1>3, <1>6, <1>7 DEF DatedWhileActive
<1>10. CursorOfPast'
  <2>1. reader.cursor.revision \in Nat
    BY <1>3, ReaderFields
  <2>2. SUFFICES ASSUME reader.cursor # NoCursor
        PROVE  /\ reader.cursor.call \in Calls /\ reader.cursor.revision # 0
               /\ \/ reader.cursor.call \in erased
                  \/ pointers'[reader.cursor.call].revision >= reader.cursor.revision
    BY <1>2, <1>5 DEF CursorOfPast
  <2>3. /\ reader.cursor.call \in Calls /\ reader.cursor.revision # 0
        /\ \/ reader.cursor.call \in erased
           \/ pointers[reader.cursor.call].revision >= reader.cursor.revision
    BY <1>3, <2>2 DEF CursorOfPast
  <2>4. CASE reader.cursor.call = c
    <3>1. pointers[c].revision >= reader.cursor.revision
      BY <1>2, <2>3, <2>4, Zenon
    <3>2. pointers'[c].revision >= reader.cursor.revision
      <4>1. pointers[c].revision \in Nat /\ pointers'[c].revision = pointers[c].revision + 1
        BY <1>6, <1>7
      <4>2. ASSUME NEW m \in Nat, NEW n \in Nat, m >= n PROVE m + 1 >= n
        BY <4>2
      <4> QED BY <2>1, <3>1, <4>1, <4>2
    <3> QED BY <2>3, <2>4, <3>2
  <2>5. CASE reader.cursor.call # c
    BY <1>6, <2>3, <2>5
  <2> QED BY <2>3, <2>4, <2>5
<1>11. PagesCoverSteady'
  BY <1>3, <1>4, <1>5 DEF PagesCoverSteady
<1>12. Owed'
  <2> SUFFICES ASSUME reader.path # "none", ~reader.done, NEW e \in X \ reader.seen
               PROVE  Ahead(reader', pointers', clock', e)
    BY <1>5 DEF Owed
  <2> DEFINE d == reader.cursor.call
  <2>1. Ahead(reader, pointers, clock, e) /\ e \in Calls /\ reader.cursor.revision \in Nat
    BY <1>3, <1>4, ReaderFields DEF Owed
  <2>2. pointers'[e].revision # 0
    BY <1>6, <1>7, <2>1 DEF Ahead
  <2>3. reader.cursor # NoCursor => d \in Calls
    BY <1>3 DEF CursorOfPast
  <2>4. CASE reader.path = "summaries"
    BY <1>5, <1>6, <2>1, <2>2, <2>3, <2>4 DEF Ahead
  <2>5. CASE reader.path = "revisions"
    <3>1. clock'[e] = clock[e]
      BY <1>4, <1>6, <2>1, <2>5
    <3>2. reader.cursor # NoCursor /\ d = c => pointers'[d].revision # reader.cursor.revision
      BY <1>2, <1>3, <1>6, <1>7, <2>1 DEF CursorOfPast
    <3>3. reader.cursor # NoCursor /\ d # c =>
              clock'[d] = clock[d] /\ pointers'[d].revision = pointers[d].revision
      BY <1>6, <2>3
    <3> QED BY <1>5, <2>1, <2>2, <2>5, <3>1, <3>2, <3>3 DEF Ahead
  <2> QED BY <1>3, <2>4, <2>5, ReaderFields DEF Paths
<1> QED BY <1>8, <1>9, <1>10, <1>11, <1>12 DEF ListingInv

(* The columns of a call are what only the summaries are listed by. *)
LEMMA SummarizeKeeps ==
    ASSUME ListingAssumption, ListingInv, NEW c \in Calls, Summarize(c)
    PROVE  ListingInv'
<1>1. /\ pointers' = [pointers EXCEPT ![c].started = clock[c]]
      /\ reader' = Moved(reader, "summaries", c) /\ clock' = clock /\ erased' = erased
  BY DEF Summarize
<1>3. /\ Typed /\ DatedWhileActive /\ CursorOfPast /\ Owed /\ PagesCoverSteady
  BY DEF ListingInv
<1>4. PICK X \in SUBSET Calls :
          /\ reader' = Released(X)
          /\ X \subseteq reader.steady \/ X = reader.seen
          /\ reader.path = "summaries" =>
                c \notin X \ reader.seen /\ (reader.cursor.call = c => X = reader.seen)
  <2>1. CASE reader.path # "summaries"
    <3>1. reader' = reader
      BY <1>1, <2>1 DEF Moved
    <3> QED BY <1>3, <2>1, <3>1, ReleasedTyped, ReaderFields
  <2>2. CASE reader.path = "summaries" /\ reader.cursor.call = c
    <3>1. reader' = [reader EXCEPT !.steady = reader.seen]
      BY <1>1, <1>3, <2>2 DEF Moved, Typed
    <3> QED BY <1>3, <3>1, ReleasedTyped, ReaderFields
  <2>3. CASE reader.path = "summaries" /\ reader.cursor.call # c
    <3>1. reader' = [reader EXCEPT !.steady = reader.steady \ {c}]
      BY <1>1, <1>3, <2>3 DEF Moved, Typed
    <3>2. reader.steady \ {c} \in SUBSET Calls
      BY <1>3, ReaderFields
    <3> QED BY <1>3, <2>3, <3>1, <3>2, ReleasedTyped
  <2> QED BY <2>1, <2>2, <2>3
<1>5. /\ reader'.path = reader.path /\ reader'.cursor = reader.cursor
      /\ reader'.seen = reader.seen /\ reader'.steady = X /\ reader'.done = reader.done
  BY <1>4 DEF Released
<1>6. /\ pointers' \in [Calls -> [revision : Nat, started : Nat]]
      /\ \A d \in Calls : pointers'[d].revision = pointers[d].revision
      /\ \A d \in Calls \ {c} : pointers'[d].started = pointers[d].started
  BY <1>1, <1>3 DEF Typed
<1>8. Typed'
  BY <1>1, <1>3, <1>4, <1>6, ReleasedTyped DEF Typed
<1>9. DatedWhileActive' /\ CursorOfPast'
  BY <1>1, <1>3, <1>5, <1>6 DEF DatedWhileActive, CursorOfPast
<1>11. PagesCoverSteady'
  BY <1>3, <1>4, <1>5 DEF PagesCoverSteady
<1>12. Owed'
  <2> SUFFICES ASSUME reader.path # "none", ~reader.done, NEW e \in X \ reader.seen
               PROVE  Ahead(reader', pointers', clock', e)
    BY <1>5 DEF Owed
  <2> DEFINE d == reader.cursor.call
  <2>1. Ahead(reader, pointers, clock, e) /\ e \in Calls
    BY <1>3, <1>4 DEF Owed
  <2>2. reader.cursor # NoCursor => d \in Calls
    BY <1>3 DEF CursorOfPast
  <2>3. CASE reader.path = "summaries"
    <3>1. e # c /\ d # c
      BY <1>4, <2>3
    <3> QED BY <1>1, <1>5, <1>6, <2>1, <2>2, <2>3, <3>1 DEF Ahead
  <2>4. CASE reader.path = "revisions"
    BY <1>1, <1>5, <1>6, <2>1, <2>2, <2>4 DEF Ahead
  <2> QED BY <1>3, <2>3, <2>4, ReaderFields DEF Paths
<1> QED BY <1>8, <1>9, <1>11, <1>12 DEF ListingInv

(* A cursor that names a deleted call starts the list again. *)
LEMMA DeleteKeeps ==
    ASSUME ListingAssumption, ListingInv, NEW c \in Calls, Delete(c)
    PROVE  ListingInv'
<1> DEFINE X == reader.steady \ {c}
<1>1. /\ pointers' = [pointers EXCEPT ![c] = [revision |-> 0, started |-> 0]]
      /\ clock' = [clock EXCEPT ![c] = 0] /\ erased' = erased \cup {c}
      /\ reader' = [reader EXCEPT !.steady = X]
  BY DEF Delete, ListingInv, Typed
<1>3. /\ Typed /\ DatedWhileActive /\ CursorOfPast /\ Owed /\ PagesCoverSteady
  BY DEF ListingInv
<1>4. reader' = Released(X) /\ X \in SUBSET Calls
  BY <1>1, <1>3, ReleasedTyped, ReaderFields
<1>5. /\ reader'.path = reader.path /\ reader'.cursor = reader.cursor
      /\ reader'.seen = reader.seen /\ reader'.steady = X /\ reader'.done = reader.done
  BY <1>4 DEF Released
<1>6. /\ pointers' \in [Calls -> [revision : Nat, started : Nat]]
      /\ clock' \in [Calls -> Nat]
      /\ \A d \in Calls \ {c} : pointers'[d] = pointers[d] /\ clock'[d] = clock[d]
      /\ pointers'[c].revision = 0 /\ pointers'[c].started = 0 /\ clock'[c] = 0
  BY <1>1, <1>3 DEF Typed
<1>8. Typed'
  BY <1>1, <1>3, <1>4, <1>6, ReleasedTyped DEF Typed
<1>9. DatedWhileActive' /\ CursorOfPast'
  BY <1>1, <1>3, <1>5, <1>6 DEF DatedWhileActive, CursorOfPast
<1>11. PagesCoverSteady'
  BY <1>3, <1>5 DEF PagesCoverSteady
<1>12. Owed'
  <2> SUFFICES ASSUME reader.path # "none", ~reader.done, NEW e \in X \ reader.seen
               PROVE  Ahead(reader', pointers', clock', e)
    BY <1>5 DEF Owed
  <2> DEFINE d == reader.cursor.call
  <2>1. Ahead(reader, pointers, clock, e) /\ e \in Calls /\ e # c
    BY <1>3, <1>4 DEF Owed
  <2>2. reader.cursor # NoCursor => d \in Calls
    BY <1>3 DEF CursorOfPast
  <2> QED BY <1>5, <1>6, <2>1, <2>2 DEF Ahead
<1> QED BY <1>8, <1>9, <1>11, <1>12 DEF ListingInv

-----------------------------------------------------------------------------
(* The theorem.                                                            *)

LEMMA InitInv == ASSUME Init PROVE ListingInv
<1>1. Typed
  BY DEF Init, Idle, NoCursor, Typed
<1> QED BY <1>1 DEF Init, Idle, ListingInv, DatedWhileActive, CursorOfPast, Owed, PagesCoverSteady

LEMMA NextKeeps ==
    ASSUME ListingAssumption, ListingInv, [Next]_vars PROVE ListingInv'
<1>1. CASE \E path \in Paths : Begin(path)
  BY <1>1, BeginKeeps
<1>2. CASE Page
  BY <1>2, PageKeeps
<1>3. CASE \E c \in Calls : Promote(c) \/ Summarize(c) \/ Delete(c)
  BY <1>3, PromoteKeeps, SummarizeKeeps, DeleteKeeps
<1>4. CASE UNCHANGED vars
  BY <1>4 DEF vars, ListingInv, Typed, DatedWhileActive, CursorOfPast, Owed, Ahead, Behind,
              PagesCoverSteady
<1> QED BY <1>1, <1>2, <1>3, <1>4 DEF Next

(* However calls are promoted, dated anew and deleted between two pages, a   *)
(* client that reads to the end has seen every call that kept its place     *)
(* (list_summaries and paginate_calls). *)
THEOREM PagesCover == Spec => []PagesCoverSteady
<1>1. CASE ListingAssumption
  <2>1. Init => ListingInv
    BY InitInv
  <2>2. ListingInv /\ [Next]_vars => ListingInv'
    BY <1>1, NextKeeps
  <2>3. ListingInv => PagesCoverSteady
    BY DEF ListingInv
  <2> QED BY <2>1, <2>2, <2>3, PTL DEF Spec
<1> QED BY <1>1, ListingAssumption

-----------------------------------------------------------------------------
(* Rubrics.  The cache and the table are dicts: a sequence of rubrics with   *)
(* different ids, of which only the set matters here. *)

Rubric == [id : RubricIds, version : Nat, text : Texts, enabled : BOOLEAN]
Dict == {s \in Seq(Rubric) : \A i, j \in DOMAIN s : s[i].id = s[j].id => i = j}
Processes == {"api", "worker"}

RubricsTyped ==
    /\ table \in Dict
    /\ cache \in [Processes -> Dict]
    /\ put \in [Puts -> Rubric \cup {NoPut}]
    /\ issued \subseteq [id : RubricIds, version : Nat, text : Texts]

(* Every rubric that is stored, cached or read by a PUT was issued. *)
KnownIn(s) == \A r \in ToSet(s) : Named(r) \in issued
Known ==
    /\ KnownIn(table) /\ \A p \in Processes : KnownIn(cache[p])
    /\ \A h \in Puts : put[h] # NoPut => Named(put[h]) \in issued

(* Of a rubric no waiting PUT was overtaken on, table and cache agree, a     *)
(* waiting PUT has read what they hold, and no later version was issued. *)
Cached == ToSet(cache["api"])
Undisturbed ==
    /\ \A r \in Rubric : r.id \notin overlapped => (r \in ToSet(table) <=> r \in Cached)
    /\ \A h \in Puts : put[h] # NoPut /\ put[h].id \notin overlapped => put[h] \in Cached
    /\ \A r \in Cached, n \in issued :
          n.id = r.id /\ r.id \notin overlapped => n.version <= r.version

OneText ==
    \A a, b \in issued :
        a.id = b.id /\ a.version = b.version /\ a.text # b.text => a.id \in overlapped

ResultsIssued ==
    \A r \in results :
        \E n \in issued :
            /\ n.version = r.version /\ n.text = r.text
            /\ r.by = "api" \/ ~r.judge => n.id = r.id

RubricsInv == RubricsTyped /\ Known /\ Undisturbed /\ OneText /\ ResultsIssued

(* What a dict holds under an id. *)
LEMMA DictHolds ==
    ASSUME NEW s \in Dict, NEW id
    PROVE  /\ ToSet(s) \subseteq Rubric
           /\ \A r, o \in ToSet(s) : r.id = o.id => r = o
           /\ HasRubric(s, id) <=> \E r \in ToSet(s) : r.id = id
           /\ HasRubric(s, id) => /\ RubricOf(s, id) \in ToSet(s) /\ RubricOf(s, id).id = id
                                  /\ PlaceOf(s, id) \in DOMAIN s /\ s[PlaceOf(s, id)].id = id
<1>1. s \in Seq(Rubric) /\ \A i, j \in DOMAIN s : s[i].id = s[j].id => i = j
  BY DEF Dict
<1>2. ToSet(s) = {s[i] : i \in DOMAIN s}
  BY DEF ToSet
<1>3. ASSUME HasRubric(s, id)
      PROVE  PlaceOf(s, id) \in DOMAIN s /\ s[PlaceOf(s, id)].id = id
  BY <1>3 DEF HasRubric, PlaceOf
<1>4. \A i \in DOMAIN s : s[i] \in Rubric
  BY <1>1
<1> QED BY <1>1, <1>2, <1>3, <1>4 DEF RubricOf, HasRubric

LEMMA AppendDict ==
    ASSUME NEW s \in Dict, NEW r \in Rubric, ~HasRubric(s, r.id)
    PROVE  /\ Append(s, r) \in Dict
           /\ ToSet(Append(s, r)) = ToSet(s) \cup {r}
<1> DEFINE t == Append(s, r)
<1>1. s \in Seq(Rubric) /\ \A i, j \in DOMAIN s : s[i].id = s[j].id => i = j
  BY DEF Dict
<1>2. /\ t \in Seq(Rubric) /\ DOMAIN s = 1..Len(s) /\ DOMAIN t = 1..(Len(s) + 1) /\ Len(s) \in Nat
      /\ \A i \in DOMAIN s : t[i] = s[i]
      /\ t[Len(s) + 1] = r
  BY <1>1
<1> HIDE DEF t
<1>3. \A i \in DOMAIN t : i \in DOMAIN s \/ i = Len(s) + 1
  BY <1>2
<1>4. \A i, j \in DOMAIN t : t[i].id = t[j].id => i = j
  BY <1>1, <1>2, <1>3 DEF HasRubric
<1>5. ToSet(t) = ToSet(s) \cup {r}
  <2>1. ToSet(t) = {t[i] : i \in DOMAIN t} /\ ToSet(s) = {s[i] : i \in DOMAIN s}
    BY DEF ToSet
  <2>2. DOMAIN s \subseteq DOMAIN t /\ Len(s) + 1 \in DOMAIN t
    BY <1>2
  <2> QED BY <1>2, <1>3, <2>1, <2>2
<1> QED BY <1>2, <1>4, <1>5 DEF Dict, t

(* d[r.id] = r: the rubric takes the place of its namesake. *)
LEMMA AssignedDict ==
    ASSUME NEW s \in Dict, NEW r \in Rubric
    PROVE  /\ Assigned(s, r) \in Dict
           /\ ToSet(Assigned(s, r)) = {o \in ToSet(s) : o.id # r.id} \cup {r}
<1>1. CASE HasRubric(s, r.id)
  <2> DEFINE t == [i \in DOMAIN s |-> IF s[i].id = r.id THEN r ELSE s[i]]
  <2>1. Assigned(s, r) = t
    BY <1>1 DEF Assigned
  <2>2. s \in Seq(Rubric) /\ \A i, j \in DOMAIN s : s[i].id = s[j].id => i = j
    BY DEF Dict
  <2>3. t \in Seq(Rubric)
    <3>1. DOMAIN s = 1..Len(s) /\ Len(s) \in Nat /\ \A i \in DOMAIN s : s[i] \in Rubric
      BY <2>2
    <3> QED BY <3>1
  <2>4. DOMAIN t = DOMAIN s /\ \A i \in DOMAIN s : t[i].id = s[i].id
    OBVIOUS
  <2>5. \A i, j \in DOMAIN t : t[i].id = t[j].id => i = j
    BY <2>2, <2>4
  <2>6. ToSet(t) = {t[i] : i \in DOMAIN t} /\ ToSet(s) = {s[i] : i \in DOMAIN s}
    BY DEF ToSet
  <2>7. PICK k \in DOMAIN s : s[k].id = r.id
    BY <1>1 DEF HasRubric
  <2>8. ToSet(t) = {o \in ToSet(s) : o.id # r.id} \cup {r}
    BY <2>6, <2>7
  <2> QED BY <2>1, <2>3, <2>5, <2>8 DEF Dict
<1>2. CASE ~HasRubric(s, r.id)
  <2>1. \A o \in ToSet(s) : o.id # r.id
    BY <1>2, DictHolds
  <2> QED BY <1>2, <2>1, AppendDict DEF Assigned
<1> QED BY <1>1, <1>2

LEMMA WithoutDict ==
    ASSUME NEW s \in Dict, NEW id
    PROVE  /\ Without(s, id) \in Dict
           /\ ToSet(Without(s, id)) = {o \in ToSet(s) : o.id # id}
<1>1. CASE HasRubric(s, id)
  <2> DEFINE k == PlaceOf(s, id)
             n == Len(s)
             t == RemoveAt(s, k)
  <2>1. /\ s \in Seq(Rubric) /\ \A i, j \in DOMAIN s : s[i].id = s[j].id => i = j
        /\ DOMAIN s = 1..n /\ n \in Nat
    BY DEF Dict
  <2>2. k \in 1..n /\ s[k].id = id
    BY <1>1, <2>1, DictHolds
  <2> HIDE DEF k
  <2>3. /\ t \in Seq(Rubric) /\ DOMAIN t = 1..(n - 1)
        /\ \A i \in 1..(n - 1) : t[i] = IF i < k THEN s[i] ELSE s[i + 1]
    <3> DEFINE a == SubSeq(s, 1, k - 1)
               b == SubSeq(s, k + 1, n)
    <3>1. /\ a \in Seq(Rubric) /\ Len(a) = k - 1
          /\ \A i \in 1..(k - 1) : a[i] = s[i]
      BY <2>1, <2>2
    <3>2. /\ b \in Seq(Rubric) /\ Len(b) = n - k
          /\ \A i \in 1..(n - k) : b[i] = s[k + i]
      <4>1. Len(b) = n - k /\ \A i \in 1..(n - k) : b[i] = s[k + i]
        BY <2>1, <2>2
      <4>2. \A i \in (k + 1)..n : s[i] \in Rubric
        BY <2>1, <2>2
      <4>3. b \in Seq(Rubric)
        BY <2>1, <2>2, <4>2
      <4> QED BY <4>1, <4>3
    <3>3. t = a \o b
      BY DEF RemoveAt
    <3> HIDE DEF a, b, t, n
    <3>4. t \in Seq(Rubric) /\ DOMAIN t = 1..(n - 1)
      BY <2>1, <2>2, <3>1, <3>2, <3>3
    <3>5. ASSUME NEW i \in 1..(n - 1) PROVE t[i] = IF i < k THEN s[i] ELSE s[i + 1]
      <4>1. CASE i < k
        BY <2>1, <2>2, <3>1, <3>2, <3>3, <4>1
      <4>2. CASE i >= k
        <5>1. t[i] = b[i - (k - 1)] /\ i - (k - 1) \in 1..(n - k) /\ k + (i - (k - 1)) = i + 1
          BY <2>1, <2>2, <3>1, <3>2, <3>3, <4>2
        <5> QED BY <2>1, <2>2, <3>2, <4>2, <5>1
      <4> QED BY <2>1, <2>2, <4>1, <4>2
    <3> QED BY <3>4, <3>5
  <2> DEFINE up(i) == IF i < k THEN i ELSE i + 1
  <2>4. /\ \A i \in 1..(n - 1) : t[i] = s[up(i)] /\ up(i) \in 1..n /\ up(i) # k
        /\ \A i, j \in 1..(n - 1) : up(i) = up(j) => i = j
        /\ \A j \in (1..n) \ {k} : \E i \in 1..(n - 1) : up(i) = j
    <3> HIDE DEF t, n
    <3>1. \A i \in 1..(n - 1) : t[i] = s[up(i)] /\ up(i) \in 1..n /\ up(i) # k
      BY <2>1, <2>2, <2>3
    <3>2. \A i, j \in 1..(n - 1) : up(i) = up(j) => i = j
      BY <2>1, <2>2
    <3>3. ASSUME NEW j \in (1..n) \ {k} PROVE \E i \in 1..(n - 1) : up(i) = j
      <4>1. CASE j < k
        <5>1. j \in 1..(n - 1) /\ up(j) = j
          BY <2>1, <2>2, <4>1
        <5> QED BY <5>1
      <4>2. CASE j > k
        <5>1. j - 1 \in 1..(n - 1) /\ up(j - 1) = j
          BY <2>1, <2>2, <4>2
        <5> QED BY <5>1
      <4> QED BY <2>1, <2>2, <4>1, <4>2
    <3> QED BY <3>1, <3>2, <3>3
  <2> HIDE DEF up, t, n
  <2>5. \A i, j \in DOMAIN t : t[i].id = t[j].id => i = j
    BY <2>1, <2>3, <2>4
  <2>6. ToSet(t) = {t[i] : i \in 1..(n - 1)} /\ ToSet(s) = {s[i] : i \in 1..n}
    BY <2>1, <2>3 DEF ToSet
  <2>7. \A i \in 1..n : s[i].id # id <=> i # k
    BY <2>1, <2>2
  <2>8. ToSet(t) = {o \in ToSet(s) : o.id # id}
    <3>1. ASSUME NEW o \in ToSet(t) PROVE o \in ToSet(s) /\ o.id # id
      BY <2>4, <2>6, <2>7
    <3>2. ASSUME NEW o \in ToSet(s), o.id # id PROVE o \in ToSet(t)
      <4>1. PICK j \in 1..n : o = s[j]
        BY <2>6
      <4>2. PICK i \in 1..(n - 1) : up(i) = j
        BY <2>4, <2>7, <3>2, <4>1
      <4> QED BY <2>4, <2>6, <4>1, <4>2
    <3> QED BY <3>1, <3>2
  <2> QED BY <1>1, <2>3, <2>5, <2>8 DEF Dict, Without, t, k
<1>2. CASE ~HasRubric(s, id)
  BY <1>2, DictHolds DEF Without
<1> QED BY <1>1, <1>2

(* The first of some places. *)
LEMMA LeastOf ==
    ASSUME NEW X, \A x \in X : x \in Nat, IsFiniteSet(X), X # {} PROVE Min(X) \in X
<1> DEFINE Before(c) == {d \in X : d < c}
<1>1. PICK c \in X : \A d \in X : ~(Before(d) \subseteq Before(c) /\ Before(d) # Before(c))
  <2>1. PICK f \in [X -> SUBSET X] : \A c \in X : f[c] = Before(c)
    <3>1. [c \in X |-> Before(c)] \in [X -> SUBSET X]
      OBVIOUS
    <3> QED BY <3>1
  <2> HIDE DEF Before
  <2>2. PICK c \in X : \A d \in X : ~(f[d] \subseteq f[c] /\ f[d] # f[c])
    BY Minimal
  <2> QED BY <2>1, <2>2
<1>2. ASSUME NEW d \in X PROVE c <= d
  <2>1. SUFFICES ASSUME d < c PROVE FALSE
    OBVIOUS
  <2>2. Before(d) \subseteq Before(c)
    <3>1. ASSUME NEW e \in X, e < d PROVE e < c
      <4>1. c \in Nat /\ d \in Nat /\ e \in Nat
        OBVIOUS
      <4> QED BY <2>1, <3>1, <4>1
    <3> QED BY <3>1
  <2>3. d \in Before(c) /\ d \notin Before(d)
    BY <2>1
  <2> QED BY <1>1, <2>2, <2>3
<1> QED BY <1>2 DEF Min

-----------------------------------------------------------------------------
(* Each step.                                                              *)

LEMMA RubricsInitInv == ASSUME RubricsInit PROVE RubricsInv
<1>1. table \in Dict /\ ToSet(table) = {} /\ \A p \in Processes : cache[p] = table
  BY DEF RubricsInit, Dict, ToSet, Processes
<1>2. Cached = {}
  BY <1>1 DEF Cached, Processes
<1> QED
  BY <1>1, <1>2 DEF RubricsInit, RubricsInv, RubricsTyped, Known, KnownIn, Undisturbed, OneText,
                    ResultsIssued, Processes

(* Results are of what was issued, and a step that writes none keeps it so. *)
LEMMA NoResults == ASSUME results' = {} PROVE ResultsIssued'
  BY DEF ResultsIssued

(* What the sequences hold is all that the invariant says of them. *)
LEMMA DictsTyped ==
    ASSUME RubricsTyped
    PROVE  /\ table \in Dict /\ cache["api"] \in Dict /\ cache["worker"] \in Dict
           /\ ToSet(table) \subseteq Rubric /\ Cached \subseteq Rubric
  BY DictHolds DEF RubricsTyped, Processes, Cached

LEMMA CreateKeeps ==
    ASSUME RubricsInv, NEW id \in RubricIds, NEW text \in Texts, CreateRubric(id, text)
    PROVE  RubricsInv'
<1> DEFINE r == [id |-> id, version |-> 1, text |-> text, enabled |-> TRUE]
<1>1. r \in Rubric /\ r.id = id /\ r.version = 1 /\ Named(r) = [id |-> id, version |-> 1, text |-> text]
  BY DEF Rubric, Named
<1> HIDE DEF r
<1>2. /\ \A n \in issued : n.id # id
      /\ table' = Append(table, r)
      /\ cache' = [cache EXCEPT !["api"] = Assigned(@, r)]
      /\ issued' = issued \cup {Named(r)}
      /\ results' = {} /\ put' = put /\ overlapped' = overlapped
  BY DEF CreateRubric, r
<1>3. RubricsTyped /\ Known /\ Undisturbed /\ OneText
  BY DEF RubricsInv
<1>4. /\ \A o \in ToSet(table) : o.id # id
      /\ \A o \in Cached : o.id # id
      /\ \A h \in Puts : put[h] # NoPut => put[h].id # id
  BY <1>2, <1>3 DEF Known, KnownIn, Named, Cached, Processes
<1>5. table' \in Dict /\ ToSet(table') = ToSet(table) \cup {r}
  <2>1. ~HasRubric(table, r.id)
    BY <1>1, <1>3, <1>4, DictHolds, DictsTyped
  <2> QED BY <1>1, <1>2, <1>3, <2>1, AppendDict, DictsTyped
<1>6. /\ cache'["api"] = Assigned(cache["api"], r) /\ cache'["worker"] = cache["worker"]
      /\ cache' \in [Processes -> Dict]
      /\ Cached' = Cached \cup {r}
  <2>1. /\ Assigned(cache["api"], r) \in Dict
        /\ ToSet(Assigned(cache["api"], r)) = {o \in Cached : o.id # r.id} \cup {r}
    BY <1>1, <1>3, AssignedDict, DictsTyped DEF Cached
  <2>2. /\ cache'["api"] = Assigned(cache["api"], r) /\ cache'["worker"] = cache["worker"]
        /\ cache' \in [Processes -> Dict]
    BY <1>2, <1>3, <2>1 DEF RubricsTyped, Processes
  <2> QED BY <1>1, <1>4, <2>1, <2>2 DEF Cached
<1>7. RubricsTyped'
  BY <1>1, <1>2, <1>3, <1>5, <1>6 DEF RubricsTyped
<1>8. Known'
  BY <1>2, <1>3, <1>5, <1>6 DEF Known, KnownIn, Cached, Processes
<1>9. Undisturbed'
  <2>1. \A o \in Rubric : o.id \notin overlapped' => (o \in ToSet(table') <=> o \in Cached')
    BY <1>2, <1>3, <1>5, <1>6 DEF Undisturbed
  <2>2. \A h \in Puts : put'[h] # NoPut /\ put'[h].id \notin overlapped' => put'[h] \in Cached'
    BY <1>2, <1>3, <1>6 DEF Undisturbed
  <2>3. ASSUME NEW o \in Cached', NEW n \in issued', n.id = o.id, o.id \notin overlapped'
        PROVE  n.version <= o.version
    <3>1. CASE o = r
      BY <1>1, <1>2, <2>3, <3>1
    <3>2. CASE o # r
      BY <1>1, <1>2, <1>3, <1>4, <1>6, <2>3, <3>2 DEF Undisturbed
    <3> QED BY <3>1, <3>2
  <2> QED BY <2>1, <2>2, <2>3 DEF Undisturbed
<1>10. OneText'
  BY <1>1, <1>2, <1>3 DEF OneText
<1> QED BY <1>2, <1>7, <1>8, <1>9, <1>10, NoResults DEF RubricsInv

LEMMA BeginPutKeeps ==
    ASSUME RubricsInv, NEW h \in Puts, NEW id \in RubricIds, BeginPut(h, id)
    PROVE  RubricsInv'
<1>1. RubricsTyped /\ Known /\ Undisturbed /\ OneText
  BY DEF RubricsInv
<1> DEFINE r == RubricOf(cache["api"], id)
<1>2. /\ put' = [put EXCEPT ![h] = r] /\ results' = {}
      /\ UNCHANGED <<table, cache, issued, overlapped>>
      /\ HasRubric(cache["api"], id)
  BY DEF BeginPut
<1>3. r \in Cached /\ r \in Rubric
  BY <1>1, <1>2, DictHolds, DictsTyped DEF Cached
<1>4. Named(r) \in issued
  BY <1>1, <1>3 DEF Known, KnownIn, Cached, Processes
<1> HIDE DEF r
<1>5. \A g \in Puts : put'[g] = IF g = h THEN r ELSE put[g]
  BY <1>1, <1>2 DEF RubricsTyped
<1>6. RubricsTyped'
  BY <1>1, <1>2, <1>3 DEF RubricsTyped
<1>7. Known'
  BY <1>1, <1>2, <1>4, <1>5 DEF Known, KnownIn
<1>8. Undisturbed'
  BY <1>1, <1>2, <1>3, <1>5 DEF Undisturbed, Cached
<1>9. OneText'
  BY <1>1, <1>2 DEF OneText
<1> QED BY <1>2, <1>6, <1>7, <1>8, <1>9, NoResults DEF RubricsInv

LEMMA EndPutKeeps ==
    ASSUME RubricsInv, NEW h \in Puts, NEW text \in Texts, NEW enabled \in BOOLEAN,
           EndPut(h, text, enabled)
    PROVE  RubricsInv'
<1>1. RubricsTyped /\ Known /\ Undisturbed /\ OneText
  BY DEF RubricsInv
<1> DEFINE old == put[h]
           r == [id |-> old.id, version |-> old.version + 1, text |-> text, enabled |-> enabled]
           rest == [put EXCEPT ![h] = NoPut]
<1>2. /\ old # NoPut
      /\ table' = IF HasRubric(table, r.id) THEN Assigned(table, r) ELSE table
      /\ cache' = [cache EXCEPT !["api"] = Assigned(@, r)]
      /\ issued' = issued \cup {Named(r)}
      /\ put' = rest
      /\ overlapped' = IF \E g \in Puts : rest[g] # NoPut /\ rest[g].id = r.id
                       THEN overlapped \cup {r.id} ELSE overlapped
      /\ results' = {}
  BY DEF EndPut
<1>3. old \in Rubric /\ Named(old) \in issued
  BY <1>1, <1>2 DEF RubricsTyped, Known
<1>4. /\ r \in Rubric /\ r.id = old.id /\ r.version = old.version + 1 /\ r.version \in Nat
      /\ Named(r) \in [id : RubricIds, version : Nat, text : Texts]
      /\ Named(r).id = r.id /\ Named(r).version = r.version
  BY <1>3 DEF Rubric, Named
<1>5. \A g \in Puts : put'[g] = IF g = h THEN NoPut ELSE put[g]
  BY <1>1, <1>2 DEF RubricsTyped
<1>6. /\ overlapped \subseteq overlapped'
      /\ r.id \notin overlapped' => \A g \in Puts : put'[g] # NoPut => put'[g].id # r.id
      /\ \A id : id # r.id /\ id \notin overlapped' => id \notin overlapped
  BY <1>2
<1> HIDE DEF r, old, rest
<1>7. /\ cache'["worker"] = cache["worker"] /\ cache' \in [Processes -> Dict]
      /\ Cached' = {o \in Cached : o.id # r.id} \cup {r}
  <2>1. /\ Assigned(cache["api"], r) \in Dict
        /\ ToSet(Assigned(cache["api"], r)) = {o \in Cached : o.id # r.id} \cup {r}
    BY <1>1, <1>4, AssignedDict, DictsTyped DEF Cached
  <2>2. /\ cache'["api"] = Assigned(cache["api"], r) /\ cache'["worker"] = cache["worker"]
        /\ cache' \in [Processes -> Dict]
    BY <1>1, <1>2, <2>1 DEF RubricsTyped, Processes
  <2> QED BY <2>1, <2>2 DEF Cached
<1>8. /\ table' \in Dict
      /\ \/ ToSet(table') = {o \in ToSet(table) : o.id # r.id} \cup {r}
         \/ ToSet(table') = ToSet(table) /\ \A o \in ToSet(table) : o.id # r.id
  <2>1. CASE HasRubric(table, r.id)
    BY <1>1, <1>2, <1>4, <2>1, AssignedDict, DictsTyped
  <2>2. CASE ~HasRubric(table, r.id)
    BY <1>1, <1>2, <2>2, DictHolds, DictsTyped
  <2> QED BY <2>1, <2>2
<1>9. RubricsTyped'
  BY <1>1, <1>2, <1>4, <1>5, <1>7, <1>8 DEF RubricsTyped, rest
<1>10. Known'
  BY <1>1, <1>2, <1>5, <1>7, <1>8 DEF Known, KnownIn, Cached, Processes
<1>11. ASSUME r.id \notin overlapped'
       PROVE  /\ old \in Cached /\ old \in ToSet(table)
              /\ \A n \in issued : n.id = r.id => n.version < r.version
  <2>1. old.id \notin overlapped
    BY <1>4, <1>6, <1>11
  <2>2. old \in Cached
    BY <1>1, <1>2, <2>1 DEF Undisturbed, old
  <2>3. old \in ToSet(table)
    BY <1>1, <1>3, <2>1, <2>2 DEF Undisturbed
  <2>4. \A n \in issued : n.id = r.id => n.version \in Nat /\ n.version <= old.version
    BY <1>1, <1>4, <2>1, <2>2 DEF Undisturbed, RubricsTyped
  <2>5. old.version \in Nat
    BY <1>3 DEF Rubric
  <2> QED BY <1>4, <2>2, <2>3, <2>4, <2>5
<1>12. Undisturbed'
  <2>1. ASSUME NEW o \in Rubric, o.id \notin overlapped' PROVE o \in ToSet(table') <=> o \in Cached'
    <3>1. CASE o.id = r.id
      BY <1>4, <1>7, <1>8, <1>11, <2>1, <3>1
    <3>2. CASE o.id # r.id
      BY <1>1, <1>6, <1>7, <1>8, <2>1, <3>2 DEF Undisturbed
    <3> QED BY <3>1, <3>2
  <2>2. ASSUME NEW g \in Puts, put'[g] # NoPut, put'[g].id \notin overlapped' PROVE put'[g] \in Cached'
    <3>1. put'[g] = put[g] /\ put[g].id # r.id
      BY <1>5, <1>6, <2>2
    <3> QED BY <1>1, <1>6, <1>7, <2>2, <3>1 DEF Undisturbed
  <2>3. ASSUME NEW o \in Cached', NEW n \in issued', n.id = o.id, o.id \notin overlapped'
        PROVE  n.version <= o.version
    <3>1. CASE o = r
      BY <1>1, <1>2, <1>4, <1>11, <2>3, <3>1 DEF RubricsTyped
    <3>2. CASE o # r
      BY <1>1, <1>2, <1>4, <1>6, <1>7, <2>3, <3>2 DEF Undisturbed
    <3> QED BY <3>1, <3>2
  <2> QED BY <2>1, <2>2, <2>3 DEF Undisturbed
<1>13. OneText'
  <2> SUFFICES ASSUME NEW a \in issued', NEW b \in issued',
                      a.id = b.id, a.version = b.version, a.text # b.text, a.id \notin overlapped'
               PROVE  FALSE
    BY DEF OneText
  <2>1. CASE a \in issued /\ b \in issued
    BY <1>1, <1>6, <2>1 DEF OneText
  <2>2. CASE a.id = r.id /\ (a = Named(r) \/ b = Named(r))
    <3>1. \A n \in issued : n.id = r.id => n.version # r.version
      BY <1>1, <1>4, <1>11, <2>2 DEF RubricsTyped
    <3> QED BY <1>2, <1>4, <2>2, <3>1
  <2> QED BY <1>2, <1>4, <2>1, <2>2
<1> QED BY <1>2, <1>9, <1>10, <1>12, <1>13, NoResults DEF RubricsInv

LEMMA RubricDeletionKeeps ==
    ASSUME RubricsInv, NEW id \in RubricIds, DeleteRubric(id)
    PROVE  RubricsInv'
<1>1. RubricsTyped /\ Known /\ Undisturbed /\ OneText
  BY DEF RubricsInv
<1>2. /\ table' = Without(table, id)
      /\ cache' = [cache EXCEPT !["api"] = Without(@, id)]
      /\ overlapped' = IF Waiting(id) THEN overlapped \cup {id} ELSE overlapped
      /\ results' = {} /\ put' = put /\ issued' = issued
  BY DEF DeleteRubric
<1>3. table' \in Dict /\ ToSet(table') = {o \in ToSet(table) : o.id # id}
  BY <1>1, <1>2, WithoutDict, DictsTyped
<1>4. /\ cache'["worker"] = cache["worker"] /\ cache' \in [Processes -> Dict]
      /\ Cached' = {o \in Cached : o.id # id}
  <2>1. /\ Without(cache["api"], id) \in Dict
        /\ ToSet(Without(cache["api"], id)) = {o \in Cached : o.id # id}
    BY <1>1, WithoutDict, DictsTyped DEF Cached
  <2>2. /\ cache'["api"] = Without(cache["api"], id) /\ cache'["worker"] = cache["worker"]
        /\ cache' \in [Processes -> Dict]
    BY <1>1, <1>2, <2>1 DEF RubricsTyped, Processes
  <2> QED BY <2>1, <2>2 DEF Cached
<1>5. /\ overlapped \subseteq overlapped'
      /\ id \notin overlapped' => \A h \in Puts : put[h] # NoPut => put[h].id # id
  BY <1>2 DEF Waiting
<1>6. RubricsTyped'
  BY <1>1, <1>2, <1>3, <1>4 DEF RubricsTyped
<1>7. Known'
  BY <1>1, <1>2, <1>3, <1>4 DEF Known, KnownIn, Cached, Processes
<1>8. Undisturbed'
  <2>1. \A o \in Rubric : o.id \notin overlapped' => (o \in ToSet(table') <=> o \in Cached')
    BY <1>1, <1>3, <1>4, <1>5 DEF Undisturbed
  <2>2. \A h \in Puts : put'[h] # NoPut /\ put'[h].id \notin overlapped' => put'[h] \in Cached'
    BY <1>1, <1>2, <1>4, <1>5 DEF Undisturbed
  <2>3. \A o \in Cached', n \in issued' :
           n.id = o.id /\ o.id \notin overlapped' => n.version <= o.version
    BY <1>1, <1>2, <1>4, <1>5 DEF Undisturbed
  <2> QED BY <2>1, <2>2, <2>3 DEF Undisturbed
<1>9. OneText'
  BY <1>1, <1>2, <1>5 DEF OneText
<1> QED BY <1>2, <1>6, <1>7, <1>8, <1>9, NoResults DEF RubricsInv

LEMMA StartKeeps ==
    ASSUME RubricsInv, NEW p \in Processes, StartProcess(p)
    PROVE  RubricsInv'
<1>1. RubricsTyped /\ Known /\ Undisturbed /\ OneText
  BY DEF RubricsInv
<1>2. /\ cache' = [cache EXCEPT ![p] = table]
      /\ put' = IF p = "api" THEN [h \in Puts |-> NoPut] ELSE put
      /\ results' = {} /\ table' = table /\ issued' = issued /\ overlapped' = overlapped
  BY DEF StartProcess
<1>3. \A q \in Processes : cache'[q] = IF q = p THEN table ELSE cache[q]
  BY <1>1, <1>2 DEF RubricsTyped
<1>4. RubricsTyped'
  BY <1>1, <1>2 DEF RubricsTyped
<1>5. Known'
  BY <1>1, <1>2, <1>3 DEF Known, KnownIn
<1>6. Undisturbed'
  <2>1. CASE p = "api"
    <3>1. Cached' = ToSet(table)
      BY <1>3, <2>1 DEF Cached
    <3>2. \A o \in Cached', n \in issued :
             n.id = o.id /\ o.id \notin overlapped => n.version <= o.version
      BY <1>1, <3>1, DictsTyped DEF Undisturbed
    <3> QED BY <1>2, <2>1, <3>1, <3>2 DEF Undisturbed
  <2>2. CASE p # "api"
    <3>1. Cached' = Cached
      BY <1>3, <2>2 DEF Cached, Processes
    <3> QED BY <1>1, <1>2, <2>2, <3>1 DEF Undisturbed
  <2> QED BY <2>1, <2>2
<1>7. OneText'
  BY <1>1, <1>2 DEF OneText
<1> QED BY <1>2, <1>4, <1>5, <1>6, <1>7, NoResults DEF RubricsInv

(* The worker's question is of a rubric of its cache with that version. *)
LEMMA JudgedKnown ==
    ASSUME NEW s \in Dict, NEW places \in SUBSET DOMAIN s, NEW i \in places
    PROVE  LET o == JudgedAs(s, places, s[i]) IN
           /\ o \in ToSet(s) /\ o.version = s[i].version
           /\ s[i].text \in Predicates => o = s[i]
<1>1. CASE s[i].text \in Predicates
  BY <1>1 DEF JudgedAs, ToSet
<1>2. CASE s[i].text \notin Predicates
  <2> DEFINE X == {j \in places : s[j].version = s[i].version}
  <2>1. /\ s \in Seq(Rubric) /\ DOMAIN s = 1..Len(s) /\ Len(s) \in Nat
    BY DEF Dict
  <2>2. IsFiniteSet(1..Len(s))
    BY <2>1, FS_Interval
  <2>3. X \subseteq 1..Len(s) /\ i \in X /\ X \subseteq Nat
    BY <2>1
  <2>4. Min(X) \in X
    BY <2>2, <2>3, FS_Subset, LeastOf
  <2> QED BY <1>2, <2>4 DEF JudgedAs, ToSet
<1> QED BY <1>1, <1>2

LEMMA JudgingKeeps ==
    ASSUME RubricsInv, Analyze \/ DrainRubrics PROVE RubricsInv'
<1>1. RubricsTyped /\ Known /\ Undisturbed /\ OneText
  BY DEF RubricsInv
<1>2. UNCHANGED <<table, cache, put, issued, overlapped>>
  BY DEF Analyze, DrainRubrics
<1>3. RubricsTyped' /\ Known' /\ Undisturbed' /\ OneText'
  BY <1>1, <1>2 DEF RubricsTyped, Known, KnownIn, Undisturbed, Cached, OneText
<1>4. CASE Analyze
  <2> DEFINE s == cache["api"]
  <2>1. ASSUME NEW i \in Enabled("api") PROVE Named(s[i]) \in issued
    BY <1>1 DEF Known, KnownIn, Enabled, ToSet, Processes
  <2>2. \A r \in results' : \E i \in Enabled("api") : r = Result(s[i], s[i].text, "api")
    BY <1>4 DEF Analyze
  <2>3. ASSUME NEW r \in results'
        PROVE  \E n \in issued : n.version = r.version /\ n.text = r.text /\ n.id = r.id
    <3>1. PICK i \in Enabled("api") : r = Result(s[i], s[i].text, "api")
      BY <2>2
    <3>2. Named(s[i]) \in issued
      BY <2>1
    <3>3. /\ Named(s[i]).version = r.version /\ Named(s[i]).text = r.text
          /\ Named(s[i]).id = r.id
      BY <3>1 DEF Named, Result
    <3> QED BY <3>2, <3>3
  <2>4. ResultsIssued'
    BY <1>2, <2>3 DEF ResultsIssued
  <2> QED BY <1>3, <2>4 DEF RubricsInv
<1>5. CASE DrainRubrics
  <2> DEFINE s == cache["worker"]
             places == Enabled("worker")
             judged(i) == JudgedAs(s, places, s[i])
  <2>1. s \in Dict /\ places \subseteq DOMAIN s
    BY <1>1, DictsTyped DEF Enabled
  <2>2. \A r \in results' : \E i \in places : r = Result(s[i], judged(i).text, "worker")
    BY <1>5 DEF DrainRubrics
  <2>3. ASSUME NEW i \in places
        PROVE  /\ Named(judged(i)) \in issued /\ judged(i).version = s[i].version
               /\ s[i].text \in Predicates => judged(i) = s[i]
    BY <1>1, <2>1, JudgedKnown DEF Known, KnownIn, Processes
  <2> HIDE DEF judged, s, places
  <2>4. ASSUME NEW r \in results'
        PROVE  \E n \in issued : /\ n.version = r.version /\ n.text = r.text
                                 /\ r.by = "api" \/ ~r.judge => n.id = r.id
    <3>1. PICK i \in places : r = Result(s[i], judged(i).text, "worker")
      BY <2>2
    <3>2. Named(judged(i)) \in issued
      BY <2>3
    <3>3. /\ Named(judged(i)).version = r.version /\ Named(judged(i)).text = r.text
          /\ r.by = "worker" /\ r.id = s[i].id /\ r.judge = (s[i].text \notin Predicates)
      BY <2>3, <3>1 DEF Named, Result
    <3>4. ASSUME r.by = "api" \/ ~r.judge PROVE Named(judged(i)).id = r.id
      <4>1. s[i].text \in Predicates
        BY <3>3, <3>4
      <4> QED BY <2>3, <3>3, <4>1 DEF Named
    <3> QED BY <3>2, <3>3, <3>4
  <2>5. ResultsIssued'
    BY <1>2, <2>4 DEF ResultsIssued
  <2> QED BY <1>3, <2>5 DEF RubricsInv
<1> QED BY <1>4, <1>5

LEMMA RubricsNextKeeps == ASSUME RubricsInv, [RubricsNext]_rubricVars PROVE RubricsInv'
<1>1. CASE UNCHANGED rubricVars
  BY <1>1 DEF rubricVars, RubricsInv, RubricsTyped, Known, KnownIn, Undisturbed, Cached, OneText,
              ResultsIssued
<1> QED
  BY <1>1, CreateKeeps, BeginPutKeeps, EndPutKeeps, RubricDeletionKeeps, StartKeeps,
     JudgingKeeps DEF RubricsNext, Processes

LEMMA RubricsInvSays == ASSUME RubricsInv PROVE VersionsKept
<1>1. RubricsTyped /\ Undisturbed /\ OneText /\ ResultsIssued
  BY DEF RubricsInv
<1>2. ASSUME NEW id \in RubricIds \ overlapped
      PROVE  /\ HasRubric(cache["api"], id) <=> HasRubric(table, id)
             /\ HasRubric(table, id) => RubricOf(table, id) = RubricOf(cache["api"], id)
  <2>1. \A r \in Rubric : r.id = id => (r \in ToSet(table) <=> r \in Cached)
    BY <1>1 DEF Undisturbed
  <2>2. HasRubric(cache["api"], id) <=> HasRubric(table, id)
    BY <1>1, <2>1, DictHolds, DictsTyped DEF Cached
  <2>3. ASSUME HasRubric(table, id) PROVE RubricOf(table, id) = RubricOf(cache["api"], id)
    <3>1. RubricOf(table, id) \in ToSet(table) /\ RubricOf(table, id).id = id
      BY <1>1, <2>3, DictHolds, DictsTyped
    <3>2. RubricOf(cache["api"], id) \in Cached /\ RubricOf(cache["api"], id).id = id
      BY <1>1, <2>2, <2>3, DictHolds, DictsTyped DEF Cached
    <3>3. RubricOf(table, id) \in Cached
      BY <1>1, <2>1, <3>1, DictsTyped
    <3> QED BY <1>1, <3>1, <3>2, <3>3, DictHolds, DictsTyped DEF Cached
  <2> QED BY <2>2, <2>3
<1> QED BY <1>1, <1>2 DEF VersionsKept, OneText, ResultsIssued

(* However edits overlap and processes restart, a version of a rubric no      *)
(* waiting PUT was overtaken on has one text, on which cache and table agree, *)
(* and a result is of a text that was issued (update_rubric, delete_rubric,   *)
(* _load_rubrics, _run_queued_tier2). *)
THEOREM VersionsStay == RubricsSpec => []VersionsKept
<1>1. RubricsInit => RubricsInv
  BY RubricsInitInv
<1>2. RubricsInv /\ [RubricsNext]_rubricVars => RubricsInv'
  BY RubricsNextKeeps
<1>3. RubricsInv => VersionsKept
  BY RubricsInvSays
<1> QED BY <1>1, <1>2, <1>3, PTL DEF RubricsSpec
=============================================================================
