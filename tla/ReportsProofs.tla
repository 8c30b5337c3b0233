---------------------------- MODULE ReportsProofs ----------------------------
(***************************************************************************)
(* Proofs about Reports and about FleetRollups.                             *)
(*                                                                         *)
(* For any sources, reports and traces, in any order, a snapshot leaves     *)
(* exactly its own facts in the domains it covers: the fold of a revision's *)
(* events followed by new ones is compared, event by event, with the fold   *)
(* of the new ones alone.  They agree on the facts of every type that a     *)
(* revision does not carry, from the start, and on those of every type a    *)
(* snapshot has covered, from then on.                                     *)
(*                                                                         *)
(* For any calls, revisions and analysis rows, what the fleet pages say is  *)
(* honest: percentiles from the order of the ranked values, the row that    *)
(* speaks from the greatest of its rivals, the clusters from the buckets as *)
(* each call joins them.                                                   *)
(***************************************************************************)
EXTENDS Reports, FleetRollups, FiniteSetTheorems, SequenceTheorems, WellFoundedInduction, TLAPS

-----------------------------------------------------------------------------
(* Lists.                                                                  *)

LEMMA LeastNumber ==
    ASSUME NEW T \in SUBSET Nat, T # {}
    PROVE  \E n \in T : \A m \in T : n <= m
<1> DEFINE R == {ss \in Nat \X Nat : ss[1] < ss[2]}
<1>1. IsWellFoundedOn(R, Nat)
  BY NatLessThanWellFounded DEF OpToRel
<1>2. \A m, n \in Nat : m < n => <<m, n>> \in R
  OBVIOUS
<1> HIDE DEF R
<1>3. PICK n \in T : \A m \in T : ~(<<m, n>> \in R)
  BY <1>1, WFMin
<1>4. ASSUME NEW m \in T PROVE n <= m
  <2>1. m \in Nat /\ n \in Nat
    OBVIOUS
  <2>2. ~(m < n)
    BY <1>2, <1>3, <2>1
  <2> QED BY <2>1, <2>2
<1> QED BY <1>4

(* Induction up to n, for a set. *)
LEMMA UpTo ==
    ASSUME NEW n \in Nat, NEW T, 0 \in T, \A k \in 1 .. n : k - 1 \in T => k \in T
    PROVE  \A k \in 0 .. n : k \in T
<1> DEFINE Out == {k \in 0 .. n : k \notin T}
<1>1. SUFFICES ASSUME Out # {} PROVE FALSE
  OBVIOUS
<1>2. PICK k \in Out : \A m \in Out : k <= m
  <2>1. Out \subseteq Nat
    OBVIOUS
  <2> HIDE DEF Out
  <2> QED BY <1>1, <2>1, LeastNumber
<1>3. k \in 1 .. n /\ k \notin T
  BY <1>2
<1>4. k - 1 \in 0 .. n /\ k - 1 \notin Out
  BY <1>2, <1>3
<1> QED BY <1>3, <1>4

LEMMA ListIs ==
    ASSUME NEW S, NEW n \in Nat, NEW s \in [1 .. n -> S]
    PROVE  IsList(s) /\ Len(s) = n
<1>1. s \in Seq(S) /\ DOMAIN s = 1 .. n
  BY IsASeq
<1>2. Len(s) = n
  BY <1>1, LenProperties
<1>3. s \in [1 .. n -> ToSet(s)]
  BY DEF ToSet
<1>4. s \in Seq(ToSet(s))
  BY <1>3, IsASeq
<1> QED BY <1>2, <1>4 DEF IsList

LEMMA ListLength ==
    ASSUME NEW s, IsList(s)
    PROVE  Len(s) \in Nat /\ DOMAIN s = 1 .. Len(s)
BY LenProperties DEF IsList

LEMMA Joined ==
    ASSUME NEW s, NEW t, IsList(s), IsList(t)
    PROVE  /\ IsList(s \o t)
           /\ Len(s \o t) = Len(s) + Len(t)
           /\ \A i \in 1 .. Len(s) : (s \o t)[i] = s[i]
           /\ \A i \in 1 .. Len(t) : (s \o t)[Len(s) + i] = t[i]
<1> DEFINE S == ToSet(s) \cup ToSet(t)
<1>1. s \in Seq(S) /\ t \in Seq(S)
  <2>1. s \in Seq(ToSet(s)) /\ t \in Seq(ToSet(t))
    BY DEF IsList
  <2>2. ToSet(s) \subseteq S /\ ToSet(t) \subseteq S
    OBVIOUS
  <2> HIDE DEF S
  <2> QED BY <2>1, <2>2, SeqMonotonic
<1> HIDE DEF S
<1>2. /\ s \o t \in Seq(S)
      /\ Len(s \o t) = Len(s) + Len(t)
      /\ \A i \in 1 .. Len(s) + Len(t) : (s \o t)[i] = IF i <= Len(s) THEN s[i] ELSE t[i - Len(s)]
  BY <1>1, ConcatProperties
<1>3. Len(s) \in Nat /\ Len(t) \in Nat
  BY <1>1, LenProperties
<1>4. s \o t \in [1 .. Len(s \o t) -> S] /\ Len(s \o t) \in Nat
  BY <1>2, LenProperties
<1>5. IsList(s \o t)
  BY <1>4, ListIs
<1> QED BY <1>2, <1>3, <1>5

LEMMA ShortLists ==
    /\ IsList(<<>>)
    /\ \A e : IsList(<<e>>)
    /\ \A e, f : IsList(<<e, f>>)
<1>1. IsList(<<>>)
  BY EmptySeq DEF IsList
<1>2. ASSUME NEW e PROVE IsList(<<e>>)
  <2>1. <<e>> \in [1 .. 1 -> {e}]
    OBVIOUS
  <2> QED BY <2>1, ListIs
<1>3. ASSUME NEW e, NEW f PROVE IsList(<<e, f>>)
  <2>1. <<e, f>> \in [1 .. 2 -> {e, f}]
    OBVIOUS
  <2> QED BY <2>1, ListIs
<1> QED BY <1>1, <1>2, <1>3

(* A concatenation of lists is built up from its first. *)
IsFlattening(f, parts, n) ==
    f = [i \in 1 .. n |-> IF i = 1 THEN parts[i] ELSE f[i - 1] \o parts[i]]

LEMMA FlatteningExists ==
    ASSUME NEW parts, NEW n \in Nat
    PROVE  \E f : IsFlattening(f, parts, n)
<1> DEFINE T == {k \in Nat : ~\E f : IsFlattening(f, parts, k)}
<1>1. SUFFICES ASSUME T # {} PROVE FALSE
  OBVIOUS
<1>2. PICK k \in T : \A m \in T : k <= m
  <2> HIDE DEF T
  <2>1. T \subseteq Nat
    BY DEF T
  <2> QED BY <1>1, <2>1, LeastNumber
<1>3. k # 0
  <2>1. IsFlattening([i \in 1 .. 0 |-> parts[i]], parts, 0)
    BY DEF IsFlattening
  <2> QED BY <2>1
<1>4. k - 1 \in Nat /\ k - 1 \notin T
  BY <1>2, <1>3
<1>5. PICK f : IsFlattening(f, parts, k - 1)
  BY <1>4
<1> DEFINE g == [i \in 1 .. k |-> IF i = k THEN IF k = 1 THEN parts[k] ELSE f[k - 1] \o parts[k]
                                  ELSE f[i]]
<1>6. IsFlattening(g, parts, k)
  <2>1. ASSUME NEW i \in 1 .. k PROVE g[i] = IF i = 1 THEN parts[i] ELSE g[i - 1] \o parts[i]
    <3>1. k \in Nat /\ i \in Nat
      OBVIOUS
    <3>2. CASE i = k
      BY <1>3, <3>1, <3>2
    <3>3. CASE i # k
      <4>1. f[i] = IF i = 1 THEN parts[i] ELSE f[i - 1] \o parts[i]
        <5>1. i \in 1 .. k - 1
          BY <3>1, <3>3
        <5> QED BY <1>5, <5>1 DEF IsFlattening
      <4>2. g[i] = f[i] /\ (i # 1 => g[i - 1] = f[i - 1])
        BY <3>1, <3>3
      <4> QED BY <4>1, <4>2
    <3> QED BY <3>2, <3>3
  <2>2. g = [i \in 1 .. k |-> g[i]]
    OBVIOUS
  <2> HIDE DEF g
  <2> QED BY <2>1, <2>2 DEF IsFlattening
<1> QED BY <1>6

LEMMA Flattened ==
    ASSUME NEW parts, IsList(parts), \A i \in 1 .. Len(parts) : IsList(parts[i])
    PROVE  IsList(FlattenSeq(parts))
<1> DEFINE n == Len(parts)
           f == CHOOSE g : IsFlattening(g, parts, n)
<1>1. n \in Nat
  BY ListLength
<1>2. CASE n = 0
  BY <1>2 DEF FlattenSeq
<1>3. CASE n # 0
  <2>1. IsFlattening(f, parts, n)
    BY <1>1, FlatteningExists
  <2>2. FlattenSeq(parts) = f[n]
    BY <1>3 DEF FlattenSeq, IsFlattening
  <2> DEFINE T == {k \in 1 .. n : ~IsList(f[k])}
  <2>3. SUFFICES ASSUME T # {} PROVE FALSE
    <3>1. n \in 1 .. n
      BY <1>1, <1>3
    <3> HIDE DEF f, n
    <3> QED BY <2>2, <3>1
  <2>4. PICK k \in T : \A m \in T : k <= m
    <3>1. T \subseteq Nat
      OBVIOUS
    <3> HIDE DEF T
    <3> QED BY <2>3, <3>1, LeastNumber
  <2> HIDE DEF f
  <2>5. k \in 1 .. n /\ IsList(parts[k])
    BY <1>1
  <2>6. CASE k = 1
    <3>1. f[k] = parts[k]
      BY <2>1, <2>5, <2>6 DEF IsFlattening
    <3> QED BY <2>4, <2>5, <3>1
  <2>7. CASE k # 1
    <3>1. f[k] = f[k - 1] \o parts[k]
      BY <2>1, <2>5, <2>7 DEF IsFlattening
    <3>2. IsList(f[k - 1])
      BY <1>1, <2>4, <2>5, <2>7
    <3>3. IsList(f[k])
      BY <2>5, <3>1, <3>2, Joined
    <3> QED BY <2>4, <3>3
  <2> QED BY <2>6, <2>7
<1> QED BY <1>2, <1>3

LEMMA MappedList ==
    ASSUME NEW s, IsList(s), NEW f, f = [i \in DOMAIN s |-> f[i]]
    PROVE  IsList(f) /\ Len(f) = Len(s)
<1>1. Len(s) \in Nat /\ DOMAIN s = 1 .. Len(s)
  BY ListLength
<1> DEFINE n == Len(s)
           S == {f[i] : i \in 1 .. n}
<1>2. n \in Nat /\ f \in [1 .. n -> S]
  BY <1>1
<1>3. IsList(f) /\ Len(f) = n
  <2> HIDE DEF n, S
  <2> QED BY <1>2, ListIs
<1> QED BY <1>3

LEMMA FlattenedMap ==
    ASSUME NEW s, IsList(s), NEW f, f = [i \in DOMAIN s |-> f[i]],
           \A i \in DOMAIN s : IsList(f[i])
    PROVE  IsList(FlattenSeq(f))
<1>1. IsList(f) /\ Len(f) = Len(s) /\ DOMAIN s = 1 .. Len(s)
  BY MappedList, ListLength
<1> QED BY <1>1, Flattened

LEMMA JoinedList ==
    ASSUME NEW s, NEW t, IsList(s), IsList(t)
    PROVE  IsList(s \o t)
BY Joined

-----------------------------------------------------------------------------
(* What the decoders and the mappers return is a list.                      *)

LEMMA OptionalLists ==
    /\ \A c, e : IsList(When(c, e))
    /\ \A v, e : IsList(Optional(v, e))
    /\ \A c, s : IsList(s) => IsList(If(c, s))
BY ShortLists DEF When, Optional, If

LEMMA PartsAreLists ==
    ASSUME NEW m
    PROVE  /\ \A path : IsList(Prompt(m, path)) /\ IsList(UserGrounding(m.items, path))
           /\ IsList(Recording(m)) /\ IsList(Transcript(m))
           /\ \A ended, cost : IsList(Outcome(m, ended, cost))
           /\ \A over : IsList(Finalized(over))
           /\ IsList(m.stages) => IsList(Unplaced(m))
           /\ IsList(m.averages) => \A statistic : IsList(Averages(m, statistic))
<1>1. \A path : IsList(Prompt(m, path))
  BY OptionalLists DEF Prompt
<1>2. ASSUME NEW path PROVE IsList(UserGrounding(m.items, path))
  BY ShortLists DEF UserGrounding
<1>3. IsList(Recording(m)) /\ IsList(Transcript(m))
  BY OptionalLists DEF Recording, Transcript
<1>4. \A ended, cost : IsList(Outcome(m, ended, cost))
  BY OptionalLists DEF Outcome
<1>5. \A over : IsList(Finalized(over))
  BY OptionalLists DEF Finalized
<1>6. IsList(m.stages) => IsList(Unplaced(m))
  <2>1. Unplaced(m) = [i \in DOMAIN m.stages |-> Unplaced(m)[i]]
    BY DEF Unplaced
  <2> QED BY <2>1, MappedList
<1>7. ASSUME IsList(m.averages), NEW statistic PROVE IsList(Averages(m, statistic))
  <2>1. Averages(m, statistic) = [i \in DOMAIN m.averages |-> Averages(m, statistic)[i]]
    BY DEF Averages
  <2> QED BY <1>7, <2>1, MappedList
<1> QED BY <1>1, <1>2, <1>3, <1>4, <1>5, <1>6, <1>7

LEMMA ItemsAreLists ==
    ASSUME NEW items, NEW i
    PROVE  IsList(VapiItem(items, i)) /\ IsList(RetellItem(items, i))
<1>1. IsList(VapiItem(items, i))
  BY ShortLists, OptionalLists, JoinedList DEF VapiItem
<1>2. IsList(RetellItem(items, i))
  BY ShortLists, OptionalLists, JoinedList DEF RetellItem
<1> QED BY <1>1, <1>2

LEMMA HostedLists ==
    ASSUME NEW m, IsList(m.items), IsList(m.stages), IsList(m.averages), IsList(m.marks),
           NEW provider
    PROVE  provider \in Hosted => IsList(HostedEvents(provider, m))
<1> DEFINE Marks == [i \in DOMAIN m.marks |->
                        InterruptionEvent(m.marks[i].kind, Absent, m.marks[i].count)]
<1>1. IsList(Marks)
  <2>1. Marks = [i \in DOMAIN m.marks |-> Marks[i]]
    OBVIOUS
  <2> HIDE DEF Marks
  <2> QED BY <2>1, MappedList
<1>2. IsList(VapiEvents(m))
  <2> DEFINE Items == [i \in DOMAIN m.items |-> VapiItem(m.items, i)]
  <2>1. IsList(FlattenSeq(Items))
    <3>1. Items = [i \in DOMAIN m.items |-> Items[i]] /\ \A i \in DOMAIN m.items : IsList(Items[i])
      BY ItemsAreLists
    <3> HIDE DEF Items
    <3> QED BY <3>1, FlattenedMap
  <2> HIDE DEF Marks, Items
  <2> QED BY <1>1, <2>1, PartsAreLists, ShortLists, OptionalLists, JoinedList
          DEF VapiEvents, PerItem, Marks, Items
<1>3. IsList(RetellEvents(m))
  <2> DEFINE Items == [i \in DOMAIN m.items |-> RetellItem(m.items, i)]
  <2>1. IsList(FlattenSeq(Items))
    <3>1. Items = [i \in DOMAIN m.items |-> Items[i]] /\ \A i \in DOMAIN m.items : IsList(Items[i])
      BY ItemsAreLists
    <3> HIDE DEF Items
    <3> QED BY <3>1, FlattenedMap
  <2> QED BY <2>1, PartsAreLists, ShortLists, OptionalLists, JoinedList DEF RetellEvents, PerItem
<1>4. IsList(ElevenLabsEvents(m))
  <2> DEFINE Items == [i \in DOMAIN m.items |->
                 <<TurnEvent(i - 1, m.items[i].role, m.items[i].text, m.items[i].at, Absent)>>]
  <2>1. IsList(FlattenSeq(Items))
    <3>1. Items = [i \in DOMAIN m.items |-> Items[i]] /\ \A i \in DOMAIN m.items : IsList(Items[i])
      BY ShortLists
    <3> HIDE DEF Items
    <3> QED BY <3>1, FlattenedMap
  <2> QED BY <2>1, PartsAreLists, ShortLists, OptionalLists, JoinedList DEF ElevenLabsEvents, PerItem
<1>5. IsList(CartesiaEvents(m)) /\ IsList(ExampleEvents(m))
  <2> DEFINE Items == [i \in DOMAIN m.items |->
                 <<TurnEvent(i - 1, m.items[i].role, m.items[i].text, m.items[i].at, m.items[i].until)>>]
  <2>1. IsList(FlattenSeq(Items))
    <3>1. Items = [i \in DOMAIN m.items |-> Items[i]] /\ \A i \in DOMAIN m.items : IsList(Items[i])
      BY ShortLists
    <3> HIDE DEF Items
    <3> QED BY <3>1, FlattenedMap
  <2>2. IsList(CartesiaEvents(m))
    BY <2>1, PartsAreLists, ShortLists, OptionalLists, JoinedList DEF CartesiaEvents, PerItem
  <2>3. IsList(ExampleEvents(m))
    BY <2>1, PartsAreLists, ShortLists, OptionalLists, JoinedList DEF ExampleEvents, PerItem
  <2> QED BY <2>2, <2>3
<1> QED BY <1>2, <1>3, <1>4, <1>5, ShortLists DEF HostedEvents, Hosted

LEMMA SpansAreLists ==
    ASSUME NEW s
    PROVE  /\ IsList(LiveKitSpan(s)) /\ IsList(PipecatSpan(s))
           /\ \A next : IsList(SpeechSpan(s, next)) /\ IsList(ForeignSpan(s, next))
           /\ \A c, e : IsList(If(c, <<e>>))
<1>1. \A c, e : IsList(If(c, <<e>>))
  BY ShortLists, OptionalLists
<1>2. IsList(ResultGrounding(s)) /\ \A speaker : IsList(UserGroundingOf(speaker, s))
  BY <1>1 DEF ResultGrounding, UserGroundingOf
<1>3. IsList(LiveKitSpan(s))
  BY <1>1, <1>2, ShortLists, OptionalLists, JoinedList DEF LiveKitSpan
<1>4. IsList(PipecatSpan(s))
  BY <1>1, <1>2, ShortLists, OptionalLists, JoinedList DEF PipecatSpan
<1>5. ASSUME NEW next PROVE IsList(SpeechSpan(s, next))
  BY <1>1, <1>2, ShortLists, OptionalLists, JoinedList DEF SpeechSpan
<1>6. ASSUME NEW next PROVE IsList(ForeignSpan(s, next))
  BY <1>1, <1>2, ShortLists, OptionalLists, JoinedList DEF ForeignSpan
<1> QED BY <1>1, <1>3, <1>4, <1>5, <1>6

LEMMA MapperLists ==
    ASSUME NEW spans, IsList(spans), NEW mapper
    PROVE  IsList(MapperEvents(mapper, spans))
<1>1. \A agent, architecture : IsList(CallOf(spans, agent, architecture)) /\ IsList(OutcomeOf(spans))
  BY ShortLists DEF CallOf, OutcomeOf
<1>2. IsList(LiveKitEvents(spans))
  <2> DEFINE Parts == [i \in DOMAIN spans |-> LiveKitSpan(spans[i])]
  <2>1. IsList(FlattenSeq(Parts))
    <3>1. Parts = [i \in DOMAIN spans |-> Parts[i]] /\ \A i \in DOMAIN spans : IsList(Parts[i])
      BY SpansAreLists
    <3> HIDE DEF Parts
    <3> QED BY <3>1, FlattenedMap
  <2> QED BY <1>1, <2>1, JoinedList DEF LiveKitEvents, PerSpan
<1>3. IsList(PipecatEvents(spans))
  <2> DEFINE Parts == [i \in DOMAIN spans |-> PipecatSpan(spans[i])]
  <2>1. IsList(FlattenSeq(Parts))
    <3>1. Parts = [i \in DOMAIN spans |-> Parts[i]] /\ \A i \in DOMAIN spans : IsList(Parts[i])
      BY SpansAreLists
    <3> HIDE DEF Parts
    <3> QED BY <3>1, FlattenedMap
  <2> QED BY <1>1, <2>1, JoinedList DEF PipecatEvents, PerSpan
<1>4. IsList(ForeignEvents(spans))
  <2> DEFINE Parts == [i \in DOMAIN spans |-> ForeignSpan(spans[i], Cardinality({j \in 1 .. i - 1 : SaidAbroad(spans[j])}))]
  <2>1. IsList(FlattenSeq(Parts))
    <3>1. Parts = [i \in DOMAIN spans |-> Parts[i]] /\ \A i \in DOMAIN spans : IsList(Parts[i])
      BY SpansAreLists
    <3> HIDE DEF Parts
    <3> QED BY <3>1, FlattenedMap
  <2> QED BY <1>1, <2>1, JoinedList DEF ForeignEvents
<1>5. IsList(ElevenLabsSpans(spans))
  <2> DEFINE Parts == [i \in DOMAIN spans |-> If(IntervalOk(spans[i]) /\ SemanticStage(spans[i]) # Absent,
                                       <<StageOf(spans[i], SemanticStage(spans[i]), Absent)>>)]
  <2>1. IsList(FlattenSeq(Parts))
    <3>1. Parts = [i \in DOMAIN spans |-> Parts[i]] /\ \A i \in DOMAIN spans : IsList(Parts[i])
      BY SpansAreLists
    <3> HIDE DEF Parts
    <3> QED BY <3>1, FlattenedMap
  <2> QED BY <1>1, <2>1, JoinedList DEF ElevenLabsSpans, PerSpan
<1>6. IsList(SpeechEvents(spans))
  <2> DEFINE next == CHOOSE next : next = [i \in 0 .. Len(spans) |->
                IF i = 0 THEN 0
                ELSE IF ~Speaks(spans[i]) THEN next[i - 1]
                ELSE Max({next[i - 1], Else(spans[i].turn, next[i - 1]) + 1})]
             Parts == [i \in DOMAIN spans |-> SpeechSpan(spans[i], next[i - 1])]
  <2>1. IsList(FlattenSeq(Parts))
    <3>1. Parts = [i \in DOMAIN spans |-> Parts[i]] /\ \A i \in DOMAIN spans : IsList(Parts[i])
      <4> HIDE DEF next
      <4> QED BY SpansAreLists
    <3> HIDE DEF Parts
    <3> QED BY <3>1, FlattenedMap
  <2> QED BY <1>1, <2>1, JoinedList DEF SpeechEvents
<1> QED BY <1>2, <1>3, <1>4, <1>5, <1>6 DEF MapperEvents

LEMMA SpanLists ==
    ASSUME NEW spans, IsList(spans)
    PROVE  IsList(SpanEvents(spans))
<1> DEFINE won(m) == FlattenSeq([i \in DOMAIN spans |-> If(Pick(spans[i]) = m, <<spans[i]>>)])
           first(i) == Pick(spans[i]) # Absent /\ \A j \in 1 .. i - 1 : Pick(spans[j]) # Pick(spans[i])
           Parts == [i \in DOMAIN spans |->
                        If(first(i), MapperEvents(Pick(spans[i]), won(Pick(spans[i]))))]
<1>1. ASSUME NEW m PROVE IsList(won(m))
  <2> DEFINE Wins == [i \in DOMAIN spans |-> If(Pick(spans[i]) = m, <<spans[i]>>)]
  <2>1. Wins = [i \in DOMAIN spans |-> Wins[i]] /\ \A i \in DOMAIN spans : IsList(Wins[i])
    BY SpansAreLists
  <2>2. IsList(FlattenSeq(Wins))
    <3> HIDE DEF Wins
    <3> QED BY <2>1, FlattenedMap
  <2> QED BY <2>2
<1>2. \A i \in DOMAIN spans : IsList(Parts[i])
  <2> HIDE DEF won, first
  <2> QED BY <1>1, MapperLists, OptionalLists
<1>3. IsList(FlattenSeq(Parts))
  <2>1. Parts = [i \in DOMAIN spans |-> Parts[i]]
    OBVIOUS
  <2> HIDE DEF Parts
  <2> QED BY <1>2, <2>1, FlattenedMap
<1> QED BY <1>3 DEF SpanEvents

LEMMA UnrootedLists ==
    ASSUME NEW events, IsList(events)
    PROVE  IsList(Unrooted(events))
<1> DEFINE Parts == [i \in DOMAIN events |->
        If(events[i].type # "outcome",
           <<IF events[i].type = "call" THEN Having(events[i], WithoutRoot(events[i].fields))
             ELSE events[i]>>)]
<1>1. Parts = [i \in DOMAIN events |-> Parts[i]] /\ \A i \in DOMAIN events : IsList(Parts[i])
  BY SpansAreLists
<1>2. IsList(FlattenSeq(Parts))
  <2> HIDE DEF Parts
  <2> QED BY <1>1, FlattenedMap
<1> QED BY <1>2 DEF Unrooted

(* The record of a trace holds a list of events, rooted or not. *)
LEMMA RecordedLists ==
    ASSUME NEW batches, IsList(batches), \A i \in DOMAIN batches : IsList(batches[i].spans)
    PROVE  IsList(Recorded(batches).events)
<1> DEFINE Parts == [i \in DOMAIN batches |-> SpanEvents(batches[i].spans)]
<1>1. Parts = [i \in DOMAIN batches |-> Parts[i]] /\ \A i \in DOMAIN batches : IsList(Parts[i])
  BY SpanLists
<1>2. IsList(FlattenSeq(Parts))
  <2> HIDE DEF Parts
  <2> QED BY <1>1, FlattenedMap
<1> QED BY <1>2, UnrootedLists DEF Recorded

-----------------------------------------------------------------------------
(* The fold, event by event.                                                *)

Nothing == Known(<<>>, {}, {})

IsFold(f, events, n) ==
    f = [k \in 0 .. n |-> IF k = 0 THEN Known(<<>>, {}, {}) ELSE FoldEvent(f[k - 1], events[k])]

LEMMA FoldExists ==
    ASSUME NEW events, NEW n \in Nat
    PROVE  \E f : IsFold(f, events, n)
<1> DEFINE T == {k \in Nat : ~\E f : IsFold(f, events, k)}
<1>1. SUFFICES ASSUME T # {} PROVE FALSE
  OBVIOUS
<1>2. PICK k \in T : \A m \in T : k <= m
  <2> HIDE DEF T
  <2>1. T \subseteq Nat
    BY DEF T
  <2> QED BY <1>1, <2>1, LeastNumber
<1>3. k # 0
  <2>1. IsFold([i \in 0 .. 0 |-> Known(<<>>, {}, {})], events, 0)
    BY DEF IsFold
  <2> QED BY <2>1
<1>4. k \in Nat /\ k - 1 \in Nat /\ k - 1 \notin T
  BY <1>2, <1>3
<1>5. PICK f : IsFold(f, events, k - 1)
  BY <1>4
<1> DEFINE g == [i \in 0 .. k |-> IF i = k THEN FoldEvent(f[k - 1], events[k]) ELSE f[i]]
<1>6. ASSUME NEW i \in 0 .. k
      PROVE  g[i] = IF i = 0 THEN Known(<<>>, {}, {}) ELSE FoldEvent(g[i - 1], events[i])
  <2>1. i \in Nat
    BY <1>4
  <2>2. CASE i = k
    <3>1. g[i] = FoldEvent(f[k - 1], events[k])
      BY <1>4, <2>2
    <3>2. g[i - 1] = f[k - 1]
      BY <1>3, <1>4, <2>2
    <3> QED BY <1>3, <2>2, <3>1, <3>2
  <2>3. CASE i # k
    <3>1. f[i] = IF i = 0 THEN Known(<<>>, {}, {}) ELSE FoldEvent(f[i - 1], events[i])
      <4>1. i \in 0 .. k - 1
        BY <1>4, <2>1, <2>3
      <4> QED BY <1>5, <4>1 DEF IsFold
    <3>2. g[i] = f[i] /\ (i # 0 => g[i - 1] = f[i - 1])
      BY <1>4, <2>1, <2>3
    <3> QED BY <3>1, <3>2
  <2> QED BY <2>2, <2>3
<1>7. IsFold(g, events, k)
  <2>1. g = [i \in 0 .. k |-> g[i]]
    OBVIOUS
  <2> HIDE DEF g
  <2> QED BY <1>6, <2>1 DEF IsFold
<1> QED BY <1>7

LEMMA FoldSteps ==
    ASSUME NEW events, IsList(events)
    PROVE  \E f : /\ f[0] = Nothing
                  /\ \A k \in 1 .. Len(events) : f[k] = FoldEvent(f[k - 1], events[k])
                  /\ FoldFacts(events) = f[Len(events)]
<1> DEFINE n == Len(events)
           f == CHOOSE g : IsFold(g, events, n)
<1>1. n \in Nat
  BY ListLength
<1>2. IsFold(f, events, n)
  BY <1>1, FoldExists
<1>3. FoldFacts(events) = f[n]
  BY DEF FoldFacts, IsFold
<1> HIDE DEF f, n
<1>4. f[0] = Nothing
  BY <1>1, <1>2 DEF IsFold, Nothing
<1>5. ASSUME NEW k \in 1 .. n PROVE f[k] = FoldEvent(f[k - 1], events[k])
  BY <1>1, <1>2 DEF IsFold
<1> QED BY <1>3, <1>4, <1>5 DEF n

(* Every fact is under an id of its type, and there are finitely many. *)
Sound(known) ==
    /\ IsFiniteSet(DOMAIN known.accepted)
    /\ \A i \in DOMAIN known.accepted : known.accepted[i].type = i.type

LEMMA ChosenType ==
    ASSUME NEW old, NEW new, old.type = new.type, Chosen(old, new) # Absent
    PROVE  Chosen(old, new).type = new.type
BY DEF Chosen, Merged, Having

(* What one event does, by its type. *)
LEMMA FoldEventIs ==
    ASSUME NEW a, NEW e
    PROVE  /\ e.type = "snapshot" =>
                FoldEvent(a, e) = Keeping(a, {i \in DOMAIN a.accepted : ~Covers(e, a.accepted[i])}, a.retracted)
           /\ e.type = "retracted" =>
                FoldEvent(a, e) = Keeping(a, DOMAIN a.accepted \ {e.fields.fact_id},
                                          a.retracted \cup {e.fields.fact_id})
           /\ e.type \notin {"snapshot", "retracted"} => FoldEvent(a, e) = FoldFact(a, FactId(e), e)
BY DEF FoldEvent

LEMMA AcceptingIs ==
    ASSUME NEW a, NEW id, NEW e
    PROVE  LET b == Accepting(a, id, e) IN
           /\ DOMAIN b.accepted = DOMAIN a.accepted \cup {id}
           /\ b.accepted[id] = e
           /\ \A i \in DOMAIN a.accepted \ {id} : b.accepted[i] = a.accepted[i]
           /\ b.retracted = a.retracted
BY DEF Accepting, Known

LEMMA KeepingIs ==
    ASSUME NEW a, NEW ids, NEW retracted
    PROVE  LET b == Keeping(a, ids, retracted) IN
           /\ DOMAIN b.accepted = ids
           /\ \A i \in ids : b.accepted[i] = a.accepted[i]
           /\ b.retracted = retracted
BY DEF Keeping, Known

(* A snapshot keeps what it does not cover, a retraction all but one fact. *)
LEMMA SnapshotIs ==
    ASSUME NEW a, NEW e, e.type = "snapshot"
    PROVE  LET ids == {i \in DOMAIN a.accepted : ~Covers(e, a.accepted[i])}
               b == FoldEvent(a, e)
           IN /\ DOMAIN b.accepted = ids
              /\ \A i \in ids : b.accepted[i] = a.accepted[i]
              /\ b.retracted = a.retracted
<1> DEFINE ids == {i \in DOMAIN a.accepted : ~Covers(e, a.accepted[i])}
           b == FoldEvent(a, e)
<1>1. b = Keeping(a, ids, a.retracted)
  BY FoldEventIs
<1>2. /\ DOMAIN b.accepted = ids /\ \A i \in ids : b.accepted[i] = a.accepted[i]
      /\ b.retracted = a.retracted
  <2> HIDE DEF ids, b
  <2> QED BY <1>1, KeepingIs
<1> QED BY <1>2

LEMMA RetractedIs ==
    ASSUME NEW a, NEW e, e.type = "retracted"
    PROVE  LET ids == DOMAIN a.accepted \ {e.fields.fact_id}
               b == FoldEvent(a, e)
           IN /\ DOMAIN b.accepted = ids
              /\ \A i \in ids : b.accepted[i] = a.accepted[i]
              /\ b.retracted = a.retracted \cup {e.fields.fact_id}
<1> DEFINE ids == DOMAIN a.accepted \ {e.fields.fact_id}
           gone == a.retracted \cup {e.fields.fact_id}
           b == FoldEvent(a, e)
<1>1. b = Keeping(a, ids, gone)
  BY FoldEventIs
<1>2. /\ DOMAIN b.accepted = ids /\ \A i \in ids : b.accepted[i] = a.accepted[i]
      /\ b.retracted = gone
  <2> HIDE DEF ids, b, gone
  <2> QED BY <1>1, KeepingIs
<1> QED BY <1>2

(* A fact changes what is accepted under its own id alone. *)
LEMMA FoldFactIs ==
    ASSUME NEW a, Sound(a), NEW id, NEW e, e.type = id.type
    PROVE  LET b == FoldFact(a, id, e) IN
           /\ Sound(b)
           /\ DOMAIN b.accepted = DOMAIN a.accepted \cup {id}
           /\ \A i \in DOMAIN a.accepted \ {id} : b.accepted[i] = a.accepted[i]
           /\ b.retracted = a.retracted
<1> DEFINE b == FoldFact(a, id, e)
           pick == Chosen(a.accepted[id], e)
<1>1. CASE id \notin DOMAIN a.accepted
  <2>1. b = Accepting(a, id, e)
    BY <1>1 DEF FoldFact
  <2> HIDE DEF b
  <2>2. IsFiniteSet(DOMAIN b.accepted)
    BY <2>1, AcceptingIs, FS_AddElement DEF Sound
  <2> QED BY <2>1, <2>2, AcceptingIs DEF Sound, b
<1>2. CASE id \in DOMAIN a.accepted /\ pick # Absent
  <2>1. b = Accepting(a, id, pick)
    BY <1>2 DEF FoldFact
  <2>2. pick.type = id.type
    BY <1>2, ChosenType DEF Sound
  <2> HIDE DEF b, pick
  <2>3. DOMAIN b.accepted = DOMAIN a.accepted
    <3>1. DOMAIN b.accepted = DOMAIN a.accepted \cup {id}
      BY <2>1, AcceptingIs
    <3> QED BY <1>2, <3>1
  <2> QED BY <1>2, <2>1, <2>2, <2>3, AcceptingIs DEF Sound, b
<1>3. CASE id \in DOMAIN a.accepted /\ pick = Absent
  <2> DEFINE k == Known(a.accepted, a.conflicts \cup {id}, a.retracted)
             w == Winner(a.accepted[id], e)
  <2>1. b = Accepting(k, id, w)
    BY <1>3 DEF FoldFact
  <2>2. k.accepted = a.accepted /\ k.retracted = a.retracted
    BY DEF Known
  <2>3. w \in {a.accepted[id], e}
    BY DEF Winner
  <2>4. w.type = id.type
    BY <1>3, <2>3 DEF Sound
  <2> HIDE DEF b, k, w
  <2>5. /\ DOMAIN b.accepted = DOMAIN a.accepted
        /\ b.accepted[id] = w
        /\ \A i \in DOMAIN a.accepted \ {id} : b.accepted[i] = a.accepted[i]
        /\ b.retracted = a.retracted
    <3>1. DOMAIN b.accepted = DOMAIN a.accepted \cup {id}
      BY <2>1, <2>2, AcceptingIs
    <3>2. /\ b.accepted[id] = w
          /\ \A i \in DOMAIN a.accepted \ {id} : b.accepted[i] = a.accepted[i]
          /\ b.retracted = a.retracted
      BY <2>1, <2>2, AcceptingIs
    <3> QED BY <1>3, <3>1, <3>2
  <2> QED BY <1>3, <2>4, <2>5 DEF Sound, b
<1> QED BY <1>1, <1>2, <1>3

LEMMA SoundStep ==
    ASSUME NEW a, Sound(a), NEW e
    PROVE  Sound(FoldEvent(a, e))
<1>1. ASSUME NEW ids \in SUBSET DOMAIN a.accepted, NEW retracted
      PROVE  Sound(Keeping(a, ids, retracted))
  BY KeepingIs, FS_Subset DEF Sound
<1>2. CASE e.type = "snapshot"
  <2> DEFINE ids == {i \in DOMAIN a.accepted : ~Covers(e, a.accepted[i])}
  <2>1. ids \in SUBSET DOMAIN a.accepted /\ FoldEvent(a, e) = Keeping(a, ids, a.retracted)
    BY <1>2, FoldEventIs
  <2> HIDE DEF ids
  <2> QED BY <1>1, <2>1
<1>3. CASE e.type = "retracted"
  <2> DEFINE ids == DOMAIN a.accepted \ {e.fields.fact_id}
  <2>1. ids \in SUBSET DOMAIN a.accepted
    OBVIOUS
  <2>2. FoldEvent(a, e) = Keeping(a, ids, a.retracted \cup {e.fields.fact_id})
    BY <1>3, FoldEventIs
  <2> HIDE DEF ids
  <2> QED BY <1>1, <2>1, <2>2
<1>4. CASE e.type \notin {"snapshot", "retracted"}
  <2>1. FoldEvent(a, e) = FoldFact(a, FactId(e), e) /\ FactId(e).type = e.type
    BY <1>4, FoldEventIs DEF FactId
  <2> HIDE DEF Sound
  <2> QED BY <2>1, FoldFactIs
<1> QED BY <1>2, <1>3, <1>4

-----------------------------------------------------------------------------
(* Two folds of which one began with a revision.                            *)

(* They retracted the same, and accepted the same facts of all types that   *)
(* are not open. *)
AgreeOn(a, b, i) ==
    /\ i \in DOMAIN a.accepted <=> i \in DOMAIN b.accepted
    /\ i \in DOMAIN a.accepted => a.accepted[i] = b.accepted[i]
Agree(a, b, open) ==
    /\ a.retracted = b.retracted
    /\ \A i \in DOMAIN a.accepted \cup DOMAIN b.accepted : i.type \notin open => AgreeOn(a, b, i)

Closing(open, e) == IF e.type = "snapshot" THEN open \ e.fields.domains ELSE open

LEMMA AgreeSnapshot ==
    ASSUME NEW a, NEW b, NEW open, Sound(a), Sound(b), Agree(a, b, open),
           NEW e, e.type = "snapshot"
    PROVE  Agree(FoldEvent(a, e), FoldEvent(b, e), open \ e.fields.domains)
<1> DEFINE ia == {i \in DOMAIN a.accepted : ~Covers(e, a.accepted[i])}
           ib == {i \in DOMAIN b.accepted : ~Covers(e, b.accepted[i])}
           fa == FoldEvent(a, e)
           fb == FoldEvent(b, e)
<1>1. /\ DOMAIN fa.accepted = ia /\ \A i \in ia : fa.accepted[i] = a.accepted[i]
      /\ fa.retracted = a.retracted
  BY SnapshotIs
<1>2. /\ DOMAIN fb.accepted = ib /\ \A i \in ib : fb.accepted[i] = b.accepted[i]
      /\ fb.retracted = b.retracted
  BY SnapshotIs
<1>3. /\ \A i \in ia : i \in DOMAIN a.accepted /\ i.type \notin e.fields.domains
      /\ \A i \in ib : i \in DOMAIN b.accepted /\ i.type \notin e.fields.domains
      /\ \A i \in DOMAIN a.accepted : i.type \notin e.fields.domains => i \in ia
      /\ \A i \in DOMAIN b.accepted : i.type \notin e.fields.domains => i \in ib
  BY DEF Covers, Sound
<1> HIDE DEF ia, ib, fa, fb
<1>4. ASSUME NEW i \in DOMAIN fa.accepted \cup DOMAIN fb.accepted, i.type \notin open \ e.fields.domains
      PROVE  AgreeOn(fa, fb, i)
  <2>1. i.type \notin open /\ i \in DOMAIN a.accepted \cup DOMAIN b.accepted
    BY <1>1, <1>2, <1>3, <1>4
  <2>2. AgreeOn(a, b, i)
    BY <2>1 DEF Agree
  <2> QED BY <1>1, <1>2, <1>3, <1>4, <2>2 DEF AgreeOn
<1>5. fa.retracted = fb.retracted
  BY <1>1, <1>2 DEF Agree
<1> QED BY <1>4, <1>5 DEF Agree, fa, fb

LEMMA AgreeStep ==
    ASSUME NEW a, NEW b, NEW open, Sound(a), Sound(b), Agree(a, b, open), NEW e
    PROVE  Agree(FoldEvent(a, e), FoldEvent(b, e), Closing(open, e))
<1> DEFINE fa == FoldEvent(a, e)
           fb == FoldEvent(b, e)
<1>1. CASE e.type = "snapshot"
  BY <1>1, AgreeSnapshot DEF Closing
<1>2. CASE e.type = "retracted"
  <2> DEFINE gone == e.fields.fact_id
  <2>1. /\ DOMAIN fa.accepted = DOMAIN a.accepted \ {gone}
        /\ \A i \in DOMAIN a.accepted \ {gone} : fa.accepted[i] = a.accepted[i]
        /\ fa.retracted = a.retracted \cup {gone}
    BY <1>2, RetractedIs
  <2>2. /\ DOMAIN fb.accepted = DOMAIN b.accepted \ {gone}
        /\ \A i \in DOMAIN b.accepted \ {gone} : fb.accepted[i] = b.accepted[i]
        /\ fb.retracted = b.retracted \cup {gone}
    BY <1>2, RetractedIs
  <2>3. Closing(open, e) = open
    BY <1>2 DEF Closing
  <2> HIDE DEF fa, fb, gone
  <2>4. ASSUME NEW i \in DOMAIN fa.accepted \cup DOMAIN fb.accepted, i.type \notin open
        PROVE  AgreeOn(fa, fb, i)
    <3>1. AgreeOn(a, b, i) /\ i # gone
      BY <2>1, <2>2, <2>4 DEF Agree
    <3> QED BY <2>1, <2>2, <3>1 DEF AgreeOn
  <2>5. fa.retracted = fb.retracted
    BY <2>1, <2>2 DEF Agree
  <2> QED BY <2>3, <2>4, <2>5 DEF Agree, fa, fb
<1>3. CASE e.type \notin {"snapshot", "retracted"}
  <2> DEFINE id == FactId(e)
  <2>1. fa = FoldFact(a, id, e) /\ fb = FoldFact(b, id, e) /\ id.type = e.type
    BY <1>3, FoldEventIs DEF FactId
  <2>2. Closing(open, e) = open
    BY <1>3 DEF Closing
  <2> HIDE DEF fa, fb, id
  <2>3. /\ DOMAIN fa.accepted = DOMAIN a.accepted \cup {id}
        /\ \A i \in DOMAIN a.accepted \ {id} : fa.accepted[i] = a.accepted[i]
        /\ fa.retracted = a.retracted
    BY <2>1, FoldFactIs
  <2>4. /\ DOMAIN fb.accepted = DOMAIN b.accepted \cup {id}
        /\ \A i \in DOMAIN b.accepted \ {id} : fb.accepted[i] = b.accepted[i]
        /\ fb.retracted = b.retracted
    BY <2>1, FoldFactIs
  <2>5. ASSUME NEW i \in DOMAIN fa.accepted \cup DOMAIN fb.accepted, i.type \notin open, i # id
        PROVE  AgreeOn(fa, fb, i)
    <3>1. AgreeOn(a, b, i)
      BY <2>3, <2>4, <2>5 DEF Agree
    <3> QED BY <2>3, <2>4, <2>5, <3>1 DEF AgreeOn
  <2>6. ASSUME id.type \notin open PROVE AgreeOn(fa, fb, id)
    <3>1. AgreeOn(a, b, id)
      BY <2>6 DEF Agree, AgreeOn
    <3>2. fa.accepted[id] = fb.accepted[id]
      BY <2>1, <3>1 DEF AgreeOn, FoldFact, Accepting, Known
    <3> QED BY <2>3, <2>4, <3>2 DEF AgreeOn
  <2>7. fa.retracted = fb.retracted
    BY <2>3, <2>4 DEF Agree
  <2> QED BY <2>2, <2>5, <2>6, <2>7 DEF Agree, fa, fb
<1> QED BY <1>1, <1>2, <1>3

(* The types of what a revision gives back. *)
Carried == FactTypes \cup {"call", "outcome", "finalized"}

PastOnly(a) == a.retracted = {} /\ \A i \in DOMAIN a.accepted : i.type \in Carried

LEMMA PastStep ==
    ASSUME NEW a, Sound(a), PastOnly(a), NEW e, e.type \in Carried
    PROVE  PastOnly(FoldEvent(a, e))
<1> DEFINE id == FactId(e)
           b == FoldEvent(a, e)
<1>1. e.type \notin {"snapshot", "retracted"}
  BY DEF Carried, FactTypes
<1>2. b = FoldFact(a, id, e) /\ id.type = e.type
  BY <1>1, FoldEventIs DEF FactId
<1> HIDE DEF id, b
<1>3. DOMAIN b.accepted = DOMAIN a.accepted \cup {id} /\ b.retracted = a.retracted
  BY <1>2, FoldFactIs
<1> QED BY <1>2, <1>3 DEF PastOnly, b

LEMMA NothingSound ==
    Sound(Nothing) /\ PastOnly(Nothing) /\ DOMAIN Nothing.accepted = {} /\ Nothing.retracted = {}
<1>1. DOMAIN Nothing.accepted = {} /\ Nothing.retracted = {}
  BY DEF Nothing, Known
<1>2. IsFiniteSet(DOMAIN Nothing.accepted)
  BY <1>1, FS_EmptySet
<1> QED BY <1>1, <1>2 DEF Sound, PastOnly

LEMMA FoldSound ==
    ASSUME NEW events, IsList(events)
    PROVE  Sound(FoldFacts(events))
<1> DEFINE n == Len(events)
<1>1. PICK f : /\ f[0] = Nothing
               /\ \A k \in 1 .. n : f[k] = FoldEvent(f[k - 1], events[k])
               /\ FoldFacts(events) = f[n]
  BY FoldSteps
<1>2. n \in Nat
  BY ListLength
<1> HIDE DEF n
<1> DEFINE T == {k \in 0 .. n : Sound(f[k])}
<1>3. 0 \in T
  BY <1>1, <1>2, NothingSound
<1>4. ASSUME NEW k \in 1 .. n, k - 1 \in T PROVE k \in T
  BY <1>1, <1>2, <1>4, SoundStep
<1>5. \A k \in 0 .. n : k \in T
  <2> HIDE DEF T
  <2> QED BY <1>2, <1>3, <1>4, UpTo
<1> QED BY <1>1, <1>2, <1>5

(* The fold of a revision's events and of new ones agrees with the fold of  *)
(* the new ones, but for what a revision carries and no snapshot covers.    *)
LEMMA FoldAgrees ==
    ASSUME NEW past, IsList(past), \A i \in 1 .. Len(past) : past[i].type \in Carried,
           NEW events, IsList(events)
    PROVE  Agree(FoldFacts(past \o events), FoldFacts(events), Carried \ DomainsOf(events))
<1> DEFINE p == Len(past)
           n == Len(events)
           all == past \o events
           Covered(k) == UNION {events[j].fields.domains :
                                   j \in {i \in 1 .. k : events[i].type = "snapshot"}}
           Open(k) == Carried \ Covered(k)
<1>1. /\ p \in Nat /\ n \in Nat /\ IsList(all) /\ Len(all) = p + n
      /\ \A i \in 1 .. p : all[i] = past[i]
      /\ \A i \in 1 .. n : all[p + i] = events[i]
  BY ListLength, Joined
<1> HIDE DEF p, n, all
<1>2. PICK f : /\ f[0] = Nothing
               /\ \A k \in 1 .. p + n : f[k] = FoldEvent(f[k - 1], all[k])
               /\ FoldFacts(all) = f[p + n]
  BY <1>1, FoldSteps
<1>3. PICK g : /\ g[0] = Nothing
               /\ \A k \in 1 .. n : g[k] = FoldEvent(g[k - 1], events[k])
               /\ FoldFacts(events) = g[n]
  BY FoldSteps DEF n
<1>4. Sound(f[p]) /\ PastOnly(f[p])
  <2> DEFINE T == {k \in 0 .. p : Sound(f[k]) /\ PastOnly(f[k])}
  <2>1. 0 \in T
    BY <1>1, <1>2, NothingSound
  <2>2. ASSUME NEW k \in 1 .. p, k - 1 \in T PROVE k \in T
    <3>1. f[k] = FoldEvent(f[k - 1], past[k]) /\ past[k].type \in Carried
      BY <1>1, <1>2 DEF p
    <3> QED BY <2>2, <3>1, SoundStep, PastStep
  <2>3. \A k \in 0 .. p : k \in T
    <3> HIDE DEF T
    <3> QED BY <1>1, <2>1, <2>2, UpTo
  <2> QED BY <1>1, <2>3
<1> DEFINE Holds(k) == Sound(f[p + k]) /\ Sound(g[k]) /\ Agree(f[p + k], g[k], Open(k))
<1>5. Holds(0)
  <2>1. Open(0) = Carried
    OBVIOUS
  <2>2. Agree(f[p], g[0], Carried)
    BY <1>3, <1>4, NothingSound DEF Agree, PastOnly
  <2> HIDE DEF Open
  <2> QED BY <1>1, <1>3, <1>4, <2>1, <2>2, NothingSound
<1>6. ASSUME NEW k \in 1 .. n, Holds(k - 1) PROVE Holds(k)
  <2>1. f[p + k] = FoldEvent(f[p + (k - 1)], events[k]) /\ g[k] = FoldEvent(g[k - 1], events[k])
    <3>1. p + k \in 1 .. p + n /\ (p + k) - 1 = p + (k - 1)
      BY <1>1
    <3> QED BY <1>1, <1>2, <1>3, <3>1
  <2>2. Open(k) = Closing(Open(k - 1), events[k])
    <3>1. CASE events[k].type = "snapshot"
      <4>1. Covered(k) = Covered(k - 1) \cup events[k].fields.domains
        BY <1>1, <3>1
      <4> HIDE DEF Covered
      <4> QED BY <3>1, <4>1 DEF Closing
    <3>2. CASE events[k].type # "snapshot"
      <4>1. Covered(k) = Covered(k - 1)
        BY <1>1, <3>2
      <4> HIDE DEF Covered
      <4> QED BY <3>2, <4>1 DEF Closing
    <3> QED BY <3>1, <3>2
  <2> HIDE DEF Open
  <2> QED BY <1>6, <2>1, <2>2, SoundStep, AgreeStep
<1>7. Holds(n)
  <2> DEFINE T == {k \in 0 .. n : Holds(k)}
  <2>1. 0 \in T /\ \A k \in 1 .. n : k - 1 \in T => k \in T
    <3> HIDE DEF Holds
    <3> QED BY <1>1, <1>5, <1>6
  <2>2. \A k \in 0 .. n : k \in T
    <3> HIDE DEF T
    <3> QED BY <1>1, <2>1, UpTo
  <2> HIDE DEF Holds
  <2> QED BY <1>1, <2>2
<1>8. Covered(n) = DomainsOf(events)
  <2>1. ToSet(events) = {events[j] : j \in 1 .. n}
    BY ListLength DEF ToSet, n
  <2> QED BY <2>1 DEF DomainsOf, Of
<1> HIDE DEF Covered
<1> QED BY <1>2, <1>3, <1>7, <1>8 DEF all

-----------------------------------------------------------------------------
(* What a revision gives back.                                              *)

IsLeft(f, S, n) ==
    f = [k \in 0 .. n |-> IF k = 0 THEN S ELSE f[k - 1] \ {CHOOSE e \in f[k - 1] : TRUE}]

LEMMA LeftExists ==
    ASSUME NEW S, NEW n \in Nat
    PROVE  \E f : IsLeft(f, S, n)
<1> DEFINE T == {k \in 0 .. n : \E f : IsLeft(f, S, k)}
<1>1. 0 \in T
  <2>1. IsLeft([k \in 0 .. 0 |-> S], S, 0)
    BY DEF IsLeft
  <2> QED BY <2>1
<1>2. ASSUME NEW k \in 1 .. n, k - 1 \in T PROVE k \in T
  <2>1. PICK f : IsLeft(f, S, k - 1)
    BY <1>2
  <2> DEFINE Less(X) == X \ {CHOOSE e \in X : TRUE}
             g == [i \in 0 .. k |-> IF i = k THEN Less(f[k - 1]) ELSE f[i]]
  <2>2. ASSUME NEW i \in 0 .. k PROVE g[i] = IF i = 0 THEN S ELSE Less(g[i - 1])
    <3>1. k \in Nat /\ k # 0 /\ i \in Nat
      OBVIOUS
    <3>2. CASE i = k
      <4>1. g[i] = Less(f[k - 1]) /\ g[i - 1] = f[k - 1]
        BY <3>1, <3>2
      <4> HIDE DEF g, Less
      <4> QED BY <3>1, <3>2, <4>1
    <3>3. CASE i # k
      <4>1. i \in 0 .. k - 1
        BY <3>1, <3>3
      <4>2. f[i] = IF i = 0 THEN S ELSE Less(f[i - 1])
        BY <2>1, <4>1 DEF IsLeft
      <4>3. g[i] = f[i] /\ (i # 0 => g[i - 1] = f[i - 1])
        BY <3>1, <3>3
      <4> HIDE DEF g, Less
      <4> QED BY <4>2, <4>3
    <3> QED BY <3>2, <3>3
  <2>3. IsLeft(g, S, k)
    <3>1. g = [i \in 0 .. k |-> g[i]]
      OBVIOUS
    <3> HIDE DEF g
    <3> QED BY <2>2, <3>1 DEF IsLeft
  <2> QED BY <2>3
<1>3. \A k \in 0 .. n : k \in T
  <2> HIDE DEF T
  <2> QED BY <1>1, <1>2, UpTo
<1> QED BY <1>3

LEMMA OrderedAreListed ==
    ASSUME NEW S, IsFiniteSet(S)
    PROVE  /\ IsList(InSomeOrder(S))
           /\ \A i \in 1 .. Len(InSomeOrder(S)) : InSomeOrder(S)[i] \in S
<1> DEFINE n == Cardinality(S)
           f == CHOOSE g : IsLeft(g, S, n)
           list == [k \in 1 .. n |-> CHOOSE e \in f[k - 1] : TRUE]
<1>1. n \in Nat
  BY FS_CardinalityType
<1>2. IsLeft(f, S, n)
  BY <1>1, LeftExists
<1>3. InSomeOrder(S) = list
  BY DEF InSomeOrder, IsLeft
<1> HIDE DEF f
<1>4. /\ f[0] = S
      /\ \A k \in 1 .. n : f[k] = f[k - 1] \ {CHOOSE e \in f[k - 1] : TRUE}
  BY <1>1, <1>2 DEF IsLeft
<1> DEFINE Fine(k) == f[k] \subseteq S /\ IsFiniteSet(f[k]) /\ Cardinality(f[k]) = n - k
<1>5. Fine(0)
  BY <1>1, <1>4
<1>6. ASSUME NEW k \in 1 .. n, Fine(k - 1)
      PROVE  (CHOOSE e \in f[k - 1] : TRUE) \in f[k - 1]
  <2>1. f[k - 1] # {}
    BY <1>1, <1>6, FS_EmptySet
  <2> QED BY <2>1
<1>7. ASSUME NEW k \in 1 .. n, Fine(k - 1) PROVE Fine(k)
  <2> DEFINE e == CHOOSE e \in f[k - 1] : TRUE
  <2>1. e \in f[k - 1] /\ f[k] = f[k - 1] \ {e}
    BY <1>4, <1>6, <1>7
  <2> HIDE DEF e, n
  <2>2. IsFiniteSet(f[k]) /\ Cardinality(f[k]) = Cardinality(f[k - 1]) - 1
    <3> DEFINE before == f[k - 1]
               after == f[k]
    <3>1. IsFiniteSet(before) /\ e \in before /\ after = before \ {e}
      BY <1>7, <2>1
    <3> HIDE DEF before, after, Fine
    <3>2. IsFiniteSet(after) /\ Cardinality(after) = Cardinality(before) - 1
      BY ONLY <3>1, FS_RemoveElement
    <3> QED BY <3>2 DEF before, after
  <2> QED BY <1>1, <1>7, <2>1, <2>2
<1>8. \A k \in 0 .. n : Fine(k)
  <2> DEFINE T == {k \in 0 .. n : Fine(k)}
  <2>1. 0 \in T /\ \A k \in 1 .. n : k - 1 \in T => k \in T
    <3> HIDE DEF Fine, n
    <3> QED BY <1>1, <1>5, <1>7
  <2>2. \A k \in 0 .. n : k \in T
    <3> HIDE DEF T, n
    <3> QED BY <1>1, <2>1, UpTo
  <2> HIDE DEF Fine, n
  <2> QED BY <2>2
<1>9. list \in [1 .. n -> S]
  <2>1. ASSUME NEW k \in 1 .. n PROVE (CHOOSE e \in f[k - 1] : TRUE) \in S
    <3>1. Fine(k - 1)
      <4> HIDE DEF Fine, n
      <4> QED BY <1>1, <1>8
    <3> QED BY <1>6, <3>1
  <2> HIDE DEF n
  <2> QED BY <2>1
<1> HIDE DEF list, n
<1>10. IsList(list) /\ Len(list) = n
  BY <1>1, <1>9, ListIs
<1> QED BY <1>3, <1>9, <1>10

(* What a fold leaves, and what is read off it. *)
Remaining(known) == {known.accepted[i] : i \in DOMAIN known.accepted \ known.retracted}

LEMMA AssembledIs ==
    ASSUME NEW events, NEW rooted
    PROVE  LET left == Remaining(FoldFacts(events))
               r == Assembled(events, rooted)
           IN /\ r.facts = {Placed(e, FieldsOf(left, "interruption")) : e \in Of(left, FactTypes)}
              /\ r.hangup = IF rooted /\ LastOf(left, "outcome") # Absent
                            THEN LastOf(left, "outcome").provider_code ELSE Absent
BY DEF Assembled, Remaining

LEMMA PlacedType ==
    ASSUME NEW e, NEW marks
    PROVE  Placed(e, marks).type = e.type
BY DEF Placed, Having

LEMMA ImageFinite ==
    ASSUME NEW S, IsFiniteSet(S), NEW f
    PROVE  IsFiniteSet({f[x] : x \in S})
<1> DEFINE T == {f[x] : x \in S}
           g == [x \in S |-> f[x]]
<1>1. g \in [S -> T] /\ \A y \in T : \E x \in S : g[x] = y
  OBVIOUS
<1> HIDE DEF g, T
<1>2. g \in Surjection(S, T)
  BY <1>1 DEF Surjection
<1>3. IsFiniteSet(T)
  BY <1>2, FS_Surjection
<1> QED BY <1>3 DEF T

(* A revision holds finitely many facts, all of them of types it carries.   *)
Carries(r) == IsFiniteSet(r.facts) /\ \A e \in r.facts : e.type \in FactTypes

LEMMA AssembledCarries ==
    ASSUME NEW events, IsList(events), NEW rooted
    PROVE  Carries(Assembled(events, rooted))
<1> DEFINE known == FoldFacts(events)
           left == Remaining(known)
           marks == FieldsOf(left, "interruption")
           r == Assembled(events, rooted)
<1>1. r.facts = {Placed(e, marks) : e \in Of(left, FactTypes)}
  BY AssembledIs
<1>2. IsFiniteSet(left)
  <2>1. IsFiniteSet(DOMAIN known.accepted \ known.retracted)
    BY FoldSound, FS_Subset DEF Sound
  <2> QED BY <2>1, ImageFinite DEF Remaining
<1> HIDE DEF left, marks, r
<1>3. IsFiniteSet(Of(left, FactTypes))
  <2>1. Of(left, FactTypes) \subseteq left
    BY DEF Of
  <2> QED BY <1>2, <2>1, FS_Subset
<1>4. IsFiniteSet(r.facts)
  <2> DEFINE facts == Of(left, FactTypes)
             place == [e \in facts |-> Placed(e, marks)]
  <2>1. r.facts = {place[e] : e \in facts}
    BY <1>1
  <2> HIDE DEF place, facts
  <2>2. IsFiniteSet(facts)
    BY <1>3 DEF facts
  <2> QED BY <2>1, <2>2, ImageFinite
<1>5. \A e \in r.facts : e.type \in FactTypes
  BY <1>1, PlacedType DEF Of
<1> QED BY <1>4, <1>5 DEF Carries, r

(* What a revision gives back is of the types it carries. *)
IsPast(s) == IsList(s) /\ \A i \in 1 .. Len(s) : s[i].type \in Carried

LEMMA JoinedPast ==
    ASSUME NEW s, NEW t, IsPast(s), IsPast(t)
    PROVE  IsPast(s \o t)
<1> DEFINE m == Len(s)
           n == Len(t)
           all == s \o t
<1>1. /\ m \in Nat /\ n \in Nat /\ IsList(all) /\ Len(all) = m + n
      /\ \A i \in 1 .. m : all[i] = s[i]
      /\ \A i \in 1 .. n : all[m + i] = t[i]
  BY Joined, ListLength DEF IsPast
<1> HIDE DEF all
<1>2. ASSUME NEW i \in 1 .. m + n PROVE all[i].type \in Carried
  <2>1. CASE i \in 1 .. m
    BY <1>1, <2>1 DEF IsPast
  <2>2. CASE i \notin 1 .. m
    <3>1. i - m \in 1 .. n /\ m + (i - m) = i
      BY <1>1, <2>2
    <3> QED BY <1>1, <3>1 DEF IsPast
  <2> QED BY <2>1, <2>2
<1> QED BY <1>1, <1>2 DEF IsPast, all

LEMMA ShortPast ==
    /\ IsPast(<<>>)
    /\ \A e : e.type \in Carried => IsPast(<<e>>)
<1>1. IsPast(<<>>)
  BY ShortLists DEF IsPast
<1>2. ASSUME NEW e, e.type \in Carried PROVE IsPast(<<e>>)
  <2>1. IsList(<<e>>) /\ Len(<<e>>) = 1 /\ <<e>>[1] = e
    BY ShortLists
  <2> QED BY <1>2, <2>1 DEF IsPast
<1> QED BY <1>1, <1>2

LEMMA RehydratedIsPast ==
    ASSUME NEW r, r = Absent \/ Carries(r)
    PROVE  IsPast(Rehydrated(r))
<1>1. CASE r = Absent
  BY <1>1, ShortPast DEF Rehydrated
<1>2. CASE r # Absent
  <2> DEFINE again(e) == Having(e, [e.fields EXCEPT !.source_revision = Absent])
             facts == {again(e) : e \in r.facts}
             call == CallEvent(r.agent_id, Absent, Absent, r.architecture, r.cost, r.status)
             outcome == OutcomeEvent(r.hangup, r.ended_at, r.cost)
  <2>1. call.type \in Carried /\ outcome.type \in Carried /\ FinalizedEvent.type \in Carried
    BY DEF CallEvent, OutcomeEvent, FinalizedEvent, Event, Carried
  <2>2. IsFiniteSet(facts)
    <3> DEFINE f == [e \in r.facts |-> again(e)]
    <3>1. facts = {f[e] : e \in r.facts}
      OBVIOUS
    <3> HIDE DEF f, facts
    <3> QED BY <1>2, <3>1, ImageFinite DEF Carries
  <2>3. \A e \in facts : e.type \in Carried
    BY <1>2 DEF Carries, Carried, Having
  <2>4. FactsAgain(r) = InSomeOrder(facts)
    BY DEF FactsAgain
  <2> HIDE DEF facts, call, outcome
  <2>5. IsPast(FactsAgain(r))
    BY <2>2, <2>3, <2>4, OrderedAreListed DEF IsPast
  <2>6. IsPast(<<call>>) /\ IsPast(<<outcome>>) /\ IsPast(<<FinalizedEvent>>) /\ IsPast(<<>>)
    BY <2>1, ShortPast
  <2>7. Rehydrated(r) =
          <<call>> \o FactsAgain(r) \o (IF r.hangup = Absent THEN <<>> ELSE <<outcome>>)
          \o IF r.status \in {"ended", "error"} \/ r.hangup # Absent THEN <<FinalizedEvent>> ELSE <<>>
    BY <1>2 DEF Rehydrated, call, outcome
  <2>8. IsPast(<<call>> \o FactsAgain(r))
    BY <2>5, <2>6, JoinedPast
  <2>9. IsPast(<<call>> \o FactsAgain(r) \o (IF r.hangup = Absent THEN <<>> ELSE <<outcome>>))
    BY <2>6, <2>8, JoinedPast
  <2> QED BY <2>6, <2>7, <2>9, JoinedPast
<1> QED BY <1>1, <1>2

-----------------------------------------------------------------------------
(* A snapshot leaves its own facts.                                         *)

(* Folds that agree leave the same of every type that is not open. *)
LEMMA SameLeft ==
    ASSUME NEW a, NEW b, NEW open, Sound(a), Sound(b), Agree(a, b, open),
           NEW e, e.type \notin open
    PROVE  e \in Remaining(a) <=> e \in Remaining(b)
<1>1. ASSUME e \in Remaining(a) PROVE e \in Remaining(b)
  <2>1. PICK i \in DOMAIN a.accepted \ a.retracted : e = a.accepted[i]
    BY <1>1 DEF Remaining
  <2>2. i.type = e.type
    BY <2>1 DEF Sound
  <2>3. i \in DOMAIN b.accepted \ b.retracted /\ e = b.accepted[i]
    BY <2>1, <2>2 DEF Agree, AgreeOn
  <2> QED BY <2>3 DEF Remaining
<1>2. ASSUME e \in Remaining(b) PROVE e \in Remaining(a)
  <2>1. PICK i \in DOMAIN b.accepted \ b.retracted : e = b.accepted[i]
    BY <1>2 DEF Remaining
  <2>2. i.type = e.type
    BY <2>1 DEF Sound
  <2>3. i \in DOMAIN a.accepted \ a.retracted /\ e = a.accepted[i]
    BY <2>1, <2>2 DEF Agree, AgreeOn
  <2> QED BY <2>3 DEF Remaining
<1> QED BY <1>1, <1>2

LEMMA SnapshotAlone ==
    ASSUME NEW r, r = Absent \/ Carries(r), NEW events, IsList(events), NEW rooted
    PROVE  LET domains == DomainsOf(events)
               whole == Assembled(Rehydrated(r) \o events, rooted)
               alone == Assembled(events, rooted)
           IN /\ Carries(whole)
              /\ FactsIn(whole, domains) = FactsIn(alone, domains)
              /\ "outcome" \in domains => whole.hangup = alone.hangup
<1> DEFINE domains == DomainsOf(events)
           all == Rehydrated(r) \o events
           a == FoldFacts(all)
           b == FoldFacts(events)
           la == Remaining(a)
           lb == Remaining(b)
           whole == Assembled(all, rooted)
           alone == Assembled(events, rooted)
<1>1. IsList(all) /\ Sound(a) /\ Sound(b) /\ Agree(a, b, Carried \ domains)
  <2>1. IsPast(Rehydrated(r))
    BY RehydratedIsPast
  <2>2. IsList(all)
    BY <2>1, JoinedList DEF IsPast
  <2> QED BY <2>1, <2>2, FoldAgrees, FoldSound DEF IsPast
<1>2. /\ whole.facts = {Placed(e, FieldsOf(la, "interruption")) : e \in Of(la, FactTypes)}
      /\ whole.hangup = IF rooted /\ LastOf(la, "outcome") # Absent
                        THEN LastOf(la, "outcome").provider_code ELSE Absent
  BY AssembledIs
<1>3. /\ alone.facts = {Placed(e, FieldsOf(lb, "interruption")) : e \in Of(lb, FactTypes)}
      /\ alone.hangup = IF rooted /\ LastOf(lb, "outcome") # Absent
                        THEN LastOf(lb, "outcome").provider_code ELSE Absent
  BY AssembledIs
<1>4. Carries(whole)
  BY <1>1, AssembledCarries
<1>5. ASSUME NEW e, e.type \notin Carried \ domains PROVE e \in la <=> e \in lb
  BY <1>1, <1>5, SameLeft
<1> HIDE DEF domains, all, a, b, la, lb, whole, alone
<1>6. FieldsOf(la, "interruption") = FieldsOf(lb, "interruption")
  <2>1. "interruption" \notin Carried
    BY DEF Carried, FactTypes
  <2>2. Of(la, {"interruption"}) = Of(lb, {"interruption"})
    BY <1>5, <2>1 DEF Of
  <2> QED BY <2>2 DEF FieldsOf
<1>7. ASSUME NEW e, e \in FactsIn(whole, domains) PROVE e \in FactsIn(alone, domains)
  <2>1. PICK f \in Of(la, FactTypes) : e = Placed(f, FieldsOf(la, "interruption"))
    BY <1>2, <1>7 DEF FactsIn
  <2>2. f.type = e.type /\ e.type \in domains
    BY <1>7, <2>1, PlacedType DEF FactsIn
  <2>3. f \in Of(lb, FactTypes)
    BY <1>5, <2>1, <2>2 DEF Of
  <2> QED BY <1>3, <1>6, <2>1, <2>2, <2>3 DEF FactsIn
<1>8. ASSUME NEW e, e \in FactsIn(alone, domains) PROVE e \in FactsIn(whole, domains)
  <2>1. PICK f \in Of(lb, FactTypes) : e = Placed(f, FieldsOf(lb, "interruption"))
    BY <1>3, <1>8 DEF FactsIn
  <2>2. f.type = e.type /\ e.type \in domains
    BY <1>8, <2>1, PlacedType DEF FactsIn
  <2>3. f \in Of(la, FactTypes)
    BY <1>5, <2>1, <2>2 DEF Of
  <2> QED BY <1>2, <1>6, <2>1, <2>2, <2>3 DEF FactsIn
<1>9. FactsIn(whole, domains) = FactsIn(alone, domains)
  BY <1>7, <1>8 DEF FactsIn
<1>10. ASSUME "outcome" \in domains PROVE whole.hangup = alone.hangup
  <2>1. Of(la, {"outcome"}) = Of(lb, {"outcome"})
    BY <1>5, <1>10 DEF Of
  <2>2. LastOf(la, "outcome") = LastOf(lb, "outcome")
    BY <2>1 DEF LastOf, FieldsOf
  <2> QED BY <1>2, <1>3, <2>2
<1> QED BY <1>4, <1>9, <1>10 DEF domains, whole, alone, all

(* What is served carries what a revision does, what was heard are batches. *)
ReportsInv ==
    /\ source \in Sources
    /\ IsList(heard) /\ \A i \in DOMAIN heard : IsList(heard[i].spans)
    /\ served = Absent \/ Carries(served)
    /\ SnapshotWhole

LEMMA OfferKeeps ==
    ASSUME served = Absent \/ Carries(served), SnapshotWhole,
           NEW told, IsList(told.events), Offer(told)
    PROVE  (served' = Absent \/ Carries(served')) /\ SnapshotWhole'
<1>1. CASE Candidate(told).conflicts = {}
  <2>1. served' = Assembled(Rehydrated(served) \o told.events, told.rooted) /\ folded' = told
    BY <1>1 DEF Offer, Candidate
  <2> QED BY <2>1, SnapshotAlone DEF SnapshotWhole
<1>2. CASE Candidate(told).conflicts # {}
  <2>1. UNCHANGED <<served, folded>>
    BY <1>2 DEF Offer
  <2> QED BY <2>1 DEF SnapshotWhole
<1> QED BY <1>1, <1>2

LEMMA ReportsStep ==
    ASSUME ReportsInv, [ReportsNext]_reportVars
    PROVE  ReportsInv'
<1>1. ASSUME NEW m \in Told[source], Report(m) PROVE ReportsInv'
  <2> DEFINE told == [events |-> HostedEvents(source, m), rooted |-> TRUE]
  <2>1. Offer(told) /\ source \in Hosted /\ UNCHANGED <<source, heard>>
    BY <1>1 DEF Report
  <2>2. IsList(told.events)
    BY <2>1, HostedLists, ReportsAssumption DEF ReportsInv
  <2> HIDE DEF told
  <2>3. (served' = Absent \/ Carries(served')) /\ SnapshotWhole'
    BY <2>1, <2>2, OfferKeeps DEF ReportsInv
  <2> QED BY <2>1, <2>3 DEF ReportsInv
<1>2. ASSUME IsList(heard'), \A i \in DOMAIN heard' : IsList(heard'[i].spans), source' = source,
             Offer(Recorded(heard')) \/ UNCHANGED <<served, folded>>
      PROVE  ReportsInv'
  <2>1. IsList(Recorded(heard').events)
    BY <1>2, RecordedLists
  <2>2. (served' = Absent \/ Carries(served')) /\ SnapshotWhole'
    <3>1. CASE Offer(Recorded(heard'))
      <4> DEFINE told == Recorded(heard')
      <4> HIDE DEF told
      <4> QED BY <2>1, <3>1, OfferKeeps DEF ReportsInv, told
    <3>2. CASE UNCHANGED <<served, folded>>
      BY <3>2 DEF ReportsInv, SnapshotWhole
    <3> QED BY <1>2, <3>1, <3>2
  <2> QED BY <1>2, <2>2 DEF ReportsInv
<1>3. ASSUME NEW b \in Told[source], Batch(b) PROVE ReportsInv'
  <2>1. heard' = Append(heard, b) /\ source' = source /\ source \notin Hosted
    BY <1>3 DEF Batch
  <2>2. IsList(b.spans)
    BY <2>1, ReportsAssumption DEF ReportsInv
  <2>3. heard' = heard \o <<b>>
    <3>1. heard \in Seq(ToSet(heard) \cup {b})
      <4>1. heard \in Seq(ToSet(heard)) /\ ToSet(heard) \subseteq ToSet(heard) \cup {b}
        BY DEF ReportsInv, IsList
      <4> QED BY <4>1, SeqMonotonic
    <3>2. b \in ToSet(heard) \cup {b}
      OBVIOUS
    <3> QED BY <2>1, <3>1, <3>2, AppendIsConcat
  <2>4. /\ IsList(heard') /\ Len(heard') = Len(heard) + 1
        /\ \A i \in 1 .. Len(heard) : heard'[i] = heard[i]
        /\ heard'[Len(heard) + 1] = b
    <3>1. IsList(<<b>>) /\ Len(<<b>>) = 1 /\ <<b>>[1] = b
      BY ShortLists
    <3> QED BY <2>3, <3>1, Joined DEF ReportsInv
  <2>5. \A i \in DOMAIN heard' : IsList(heard'[i].spans)
    <3>1. Len(heard) \in Nat /\ DOMAIN heard = 1 .. Len(heard) /\ DOMAIN heard' = 1 .. Len(heard) + 1
      BY <2>4, ListLength DEF ReportsInv
    <3> QED BY <2>2, <2>4, <3>1 DEF ReportsInv
  <2>6. Offer(Recorded(heard')) \/ UNCHANGED <<served, folded>>
    BY <1>3 DEF Batch
  <2> QED BY <1>2, <2>1, <2>4, <2>5, <2>6
<1>4. CASE Finalize
  <2>1. heard' = heard /\ source' = source /\ Offer(Recorded(heard'))
    BY <1>4 DEF Finalize
  <2> QED BY <1>2, <2>1 DEF ReportsInv
<1>5. CASE UNCHANGED reportVars
  BY <1>5 DEF reportVars, ReportsInv, SnapshotWhole
<1> QED BY <1>1, <1>3, <1>4, <1>5 DEF ReportsNext

(* Whatever was told before, a snapshot leaves exactly its own facts in the *)
(* domains it is authoritative for (fold_facts, events_from_revision): for  *)
(* any sources, reports, traces and order of arrival.                      *)
THEOREM SnapshotsAreWhole == ReportsSpec => []SnapshotWhole
<1>1. ReportsInit => ReportsInv
  BY ShortLists DEF ReportsInit, ReportsInv, SnapshotWhole
<1>2. ReportsInv /\ [ReportsNext]_reportVars => ReportsInv'
  BY ReportsStep
<1>3. ReportsInv => SnapshotWhole
  BY DEF ReportsInv
<1> QED BY <1>1, <1>2, <1>3, PTL DEF ReportsSpec

-----------------------------------------------------------------------------
(* Finite sets of numbers.                                                  *)

LEMMA GreatestNumber ==
    ASSUME NEW T \in SUBSET Nat, IsFiniteSet(T), T # {}
    PROVE  \E n \in T : \A m \in T : m <= n
<1> DEFINE Topless(U) == /\ U \in SUBSET Nat /\ IsFiniteSet(U) /\ U # {}
                         /\ \A n \in U : \E m \in U : n < m
           Sizes == {k \in Nat : \E U \in SUBSET Nat : Topless(U) /\ Cardinality(U) = k}
<1>1. SUFFICES ASSUME Topless(T) PROVE FALSE
  OBVIOUS
<1>2. Cardinality(T) \in Sizes
  <2>1. Cardinality(T) \in Nat
    BY FS_CardinalityType
  <2> QED BY <1>1, <2>1
<1>3. PICK k \in Sizes : \A j \in Sizes : k <= j
  <2>1. Sizes \in SUBSET Nat /\ Sizes # {}
    BY <1>2
  <2> HIDE DEF Sizes
  <2> QED BY <2>1, LeastNumber
<1>4. PICK U \in SUBSET Nat : Topless(U) /\ Cardinality(U) = k
  BY <1>3
<1>5. PICK x \in U : TRUE
  BY <1>4
<1> DEFINE V == U \ {x}
<1>6. IsFiniteSet(V) /\ Cardinality(V) = k - 1 /\ k \in Nat /\ Cardinality(V) \in Nat
  <2>1. IsFiniteSet(U) /\ x \in U
    BY <1>4, <1>5
  <2>2. IsFiniteSet(V) /\ Cardinality(V) = Cardinality(U) - 1
    BY <2>1, FS_RemoveElement
  <2>3. Cardinality(V) \in Nat
    BY <2>2, FS_CardinalityType
  <2> QED BY <1>3, <1>4, <2>2, <2>3
<1>7. PICK n \in U : \A m \in V : m <= n
  <2>1. CASE V = {}
    BY <1>5, <2>1
  <2>2. CASE V # {}
    <3>1. ~Topless(V)
      <4>1. CASE Topless(V)
        <5>1. k - 1 \in Sizes
          BY <1>6, <4>1
        <5> HIDE DEF Sizes, Topless
        <5> QED BY <1>3, <1>6, <5>1
      <4> QED BY <4>1
    <3>2. PICK n \in V : \A m \in V : ~(n < m)
      BY <1>6, <2>2, <3>1
    <3>3. \A m \in V : m <= n
      BY <3>2
    <3> QED BY <3>3
  <2> QED BY <2>1, <2>2
<1>8. PICK y \in U : x < y
  BY <1>4, <1>5
<1>9. PICK z \in U : n < z
  BY <1>4
<1> QED BY <1>7, <1>8, <1>9

(* Samples within a value, and the value of a rank. *)
LEMMA WithinFinite ==
    ASSUME NEW times, IsFiniteSet(times), NEW v
    PROVE  IsFiniteSet(Within(times, v)) /\ Cardinality(Within(times, v)) \in Nat
BY FS_Subset, FS_CardinalityType DEF Within

LEMMA RankedIs ==
    ASSUME NEW times, IsFiniteSet(times), \A s \in times : s.ms \in Nat,
           NEW k \in 1 .. Cardinality(times)
    PROVE  /\ Ranked(times, k) \in {s.ms : s \in times}
           /\ Cardinality(Within(times, Ranked(times, k))) >= k
           /\ \A s \in times : Cardinality(Within(times, s.ms)) >= k => Ranked(times, k) <= s.ms
<1> DEFINE values == {s.ms : s \in times}
           T == {v \in values : Cardinality(Within(times, v)) >= k}
<1>1. Cardinality(times) \in Nat /\ times # {}
  BY FS_CardinalityType, FS_EmptySet
<1>2. values \in SUBSET Nat /\ IsFiniteSet(values) /\ values # {}
  <2> DEFINE f == [s \in times |-> s.ms]
  <2>1. values = {f[s] : s \in times}
    OBVIOUS
  <2>2. IsFiniteSet(values)
    <3> HIDE DEF f
    <3> QED BY <2>1, ImageFinite
  <2> QED BY <1>1, <2>2
<1>3. PICK v \in values : \A w \in values : w <= v
  <2> HIDE DEF values
  <2> QED BY <1>2, GreatestNumber
<1>4. Within(times, v) = times
  BY <1>3 DEF Within
<1>5. T \in SUBSET Nat /\ T # {}
  BY <1>1, <1>2, <1>3, <1>4
<1>6. PICK u \in T : \A w \in T : u <= w
  <2> HIDE DEF T
  <2> QED BY <1>5, LeastNumber
<1> QED BY <1>6 DEF Ranked

LEMMA RankedNumber ==
    ASSUME NEW times, IsFiniteSet(times), \A s \in times : s.ms \in Nat,
           NEW k \in 1 .. Cardinality(times)
    PROVE  Ranked(times, k) \in Nat
BY RankedIs

LEMMA RankedMonotone ==
    ASSUME NEW times, IsFiniteSet(times), \A s \in times : s.ms \in Nat,
           NEW k \in 1 .. Cardinality(times), NEW m \in 1 .. Cardinality(times), k <= m
    PROVE  Ranked(times, k) <= Ranked(times, m)
<1>1. PICK s \in times : s.ms = Ranked(times, m)
  BY RankedIs
<1>2. Cardinality(Within(times, s.ms)) >= m
  BY <1>1, RankedIs
<1>3. Cardinality(Within(times, s.ms)) >= k
  BY <1>2, WithinFinite
<1> QED BY <1>1, <1>3, RankedIs

(* Between two ranks the value grows with the part of the way that is gone. *)
LEMMA Between ==
    ASSUME NEW a \in Nat, NEW b \in Nat, a <= b, NEW f \in 0 .. 99, NEW g \in 0 .. 99
    PROVE  /\ f <= g => a * (100 - f) + b * f <= a * (100 - g) + b * g
           /\ 100 * a <= a * (100 - f) + b * f
           /\ a * (100 - f) + b * f <= 100 * b
<1> DEFINE d == b - a
<1>1. d \in Nat /\ b = a + d
  OBVIOUS
<1>2. ASSUME NEW h \in 0 .. 99 PROVE a * (100 - h) + b * h = 100 * a + d * h
  BY <1>1
<1>3. ASSUME f <= g PROVE d * f <= d * g
  BY <1>1, <1>3
<1>4. 0 <= d * f /\ d * f <= d * 100
  BY <1>1
<1> HIDE DEF d
<1>5. 100 * b = 100 * a + d * 100
  BY <1>1
<1>6. d * f \in Int /\ d * g \in Int /\ 100 * a \in Int /\ d * 100 \in Int
  BY <1>1
<1> QED BY <1>2, <1>3, <1>4, <1>5, <1>6

(* The value at h hundredths of a rank, of the k-th and the next. *)
LEMMA PercentileIs ==
    ASSUME NEW times, IsFiniteSet(times), times # {}, \A s \in times : s.ms \in Nat,
           NEW p \in 0 .. 100
    PROVE  LET n == Cardinality(times)
               h == p * (n - 1)
               lo == (h \div 100) + 1
               hi == IF lo < n THEN lo + 1 ELSE n
           IN /\ lo \in 1 .. n /\ hi \in 1 .. n /\ lo <= hi /\ h % 100 \in 0 .. 99
              /\ Percentile(times, p) =
                    Ranked(times, lo) * (100 - (h % 100)) + Ranked(times, hi) * (h % 100)
<1> DEFINE n == Cardinality(times)
           h == p * (n - 1)
           lo == (h \div 100) + 1
           hi == IF lo < n THEN lo + 1 ELSE n
<1>1. n \in Nat /\ n >= 1
  BY FS_CardinalityType, FS_EmptySet
<1>2. h \in Nat /\ h <= 100 * (n - 1)
  <2> DEFINE m == n - 1
  <2>1. m \in Nat
    BY <1>1
  <2> HIDE DEF n, m
  <2>2. p * m \in Nat /\ p * m <= 100 * m
    BY <2>1
  <2> QED BY <2>2 DEF m
<1>3. Percentile(times, p) =
          Ranked(times, lo) * (100 - (h % 100)) + Ranked(times, hi) * (h % 100)
  BY DEF Percentile
<1> HIDE DEF n, h
<1>4. lo \in 1 .. n /\ hi \in 1 .. n /\ lo <= hi /\ h % 100 \in 0 .. 99
  BY <1>1, <1>2
<1> QED BY <1>3, <1>4 DEF n, h

LEMMA PercentilesOrdered ==
    ASSUME NEW times, IsFiniteSet(times), times # {}, \A s \in times : s.ms \in Nat
    PROVE  Percentile(times, 50) <= Percentile(times, 95)
<1> DEFINE n == Cardinality(times)
           ha == 50 * (n - 1)
           la == (ha \div 100) + 1
           ua == IF la < n THEN la + 1 ELSE n
           fa == ha % 100
           hb == 95 * (n - 1)
           lb == (hb \div 100) + 1
           ub == IF lb < n THEN lb + 1 ELSE n
           fb == hb % 100
<1>1. /\ la \in 1 .. n /\ ua \in 1 .. n /\ la <= ua /\ fa \in 0 .. 99
      /\ Percentile(times, 50) = Ranked(times, la) * (100 - fa) + Ranked(times, ua) * fa
  <2>1. 50 \in 0 .. 100
    OBVIOUS
  <2> QED BY <2>1, PercentileIs, SMTT(60)
<1>2. /\ lb \in 1 .. n /\ ub \in 1 .. n /\ lb <= ub /\ fb \in 0 .. 99
      /\ Percentile(times, 95) = Ranked(times, lb) * (100 - fb) + Ranked(times, ub) * fb
  <2>1. 95 \in 0 .. 100
    OBVIOUS
  <2> QED BY <2>1, PercentileIs, SMTT(60)
<1>3. n \in Nat /\ n >= 1
  BY FS_CardinalityType, FS_EmptySet
<1>4. \/ la = lb /\ ua = ub /\ fa <= fb
      \/ ua <= lb
  <2> HIDE DEF n
  <2> QED BY <1>3
<1> HIDE DEF n, la, ua, fa, lb, ub, fb
<1> DEFINE a == Ranked(times, la)
           b == Ranked(times, ua)
           c == Ranked(times, lb)
           d == Ranked(times, ub)
<1>5. a \in Nat /\ b \in Nat /\ c \in Nat /\ d \in Nat /\ a <= b /\ c <= d
  BY <1>1, <1>2, RankedNumber, RankedMonotone DEF n
<1>6. CASE la = lb /\ ua = ub /\ fa <= fb
  <2>1. a * (100 - fa) + b * fa <= a * (100 - fb) + b * fb
    <3> HIDE DEF a, b
    <3> QED BY <1>1, <1>2, <1>5, <1>6, Between
  <2> QED BY <1>1, <1>2, <1>6, <2>1
<1>7. CASE ua <= lb
  <2>1. b <= c
    BY <1>1, <1>2, <1>7, RankedMonotone DEF n
  <2>2. a * (100 - fa) + b * fa <= 100 * b
    <3> HIDE DEF a, b
    <3> QED BY <1>1, <1>5, Between
  <2>3. 100 * c <= c * (100 - fb) + d * fb
    <3> HIDE DEF c, d
    <3> QED BY <1>2, <1>5, Between
  <2>4. Percentile(times, 50) <= 100 * b /\ 100 * c <= Percentile(times, 95)
    BY <1>1, <1>2, <2>2, <2>3
  <2>5. Percentile(times, 50) \in Int /\ Percentile(times, 95) \in Int
    <3> HIDE DEF a, b, c, d
    <3>1. /\ a * (100 - fa) \in Int /\ b * fa \in Int /\ c * (100 - fb) \in Int /\ d * fb \in Int
      BY <1>1, <1>2, <1>5
    <3> QED BY <1>1, <1>2, <3>1 DEF a, b, c, d
  <2> HIDE DEF b, c
  <2> QED BY <1>5, <2>1, <2>4, <2>5
<1> QED BY <1>4, <1>6, <1>7

(* What the stages show. *)
LEMMA LatencyOrdered ==
    ASSUME NEW samples, IsFiniteSet(samples), \A s \in samples : s.ms \in Nat,
           NEW stage \in DOMAIN Latency(samples)
    PROVE  Latency(samples)[stage].n > 0 /\ Latency(samples)[stage].p50 <= Latency(samples)[stage].p95
<1> DEFINE times == Times(samples, stage, Headline(samples, stage))
<1>1. stage \in {s.stage : s \in samples} /\ Latency(samples)[stage] = Stats(times)
  BY DEF Latency
<1>2. Metrics(samples, stage) # {}
  BY <1>1 DEF Metrics
<1>3. Headline(samples, stage) \in Metrics(samples, stage)
  BY <1>2 DEF Headline
<1>4. times # {}
  BY <1>3 DEF Metrics, Times
<1>5. IsFiniteSet(times) /\ \A s \in times : s.ms \in Nat
  BY FS_Subset DEF Times
<1> HIDE DEF times
<1>6. Cardinality(times) > 0
  BY <1>4, <1>5, FS_CardinalityType, FS_EmptySet
<1>7. Percentile(times, 50) <= Percentile(times, 95)
  BY <1>4, <1>5, PercentilesOrdered
<1> QED BY <1>1, <1>6, <1>7 DEF Stats

(* Failures and successes are different uses of a tool. *)
LEMMA ToolsCounted ==
    ASSUME NEW tools, tools \in Seq(ToSet(tools))
    PROVE  ToolStats(tools).failures + ToolStats(tools).successes <= ToolStats(tools).count
<1> DEFINE D == DOMAIN tools
           F == {k \in D : Fails(tools[k])}
           G == {k \in D : ~Fails(tools[k]) /\ tools[k].status = "success"}
<1>1. Len(tools) \in Nat /\ D = 1 .. Len(tools)
  BY LenProperties
<1>2. IsFiniteSet(D) /\ Cardinality(D) = Len(tools)
  <2>1. IsFiniteSet(1 .. Len(tools)) /\ Cardinality(1 .. Len(tools)) = Len(tools)
    BY <1>1, FS_Interval
  <2> QED BY <1>1, <2>1
<1>3. F \subseteq D /\ G \subseteq D /\ F \cap G = {} /\ F \cup G \subseteq D
  OBVIOUS
<1>4. ToolStats(tools).failures = Cardinality(F) /\ ToolStats(tools).successes = Cardinality(G)
      /\ ToolStats(tools).count = Len(tools)
  BY DEF ToolStats
<1> HIDE DEF D, F, G
<1>5. IsFiniteSet(F) /\ IsFiniteSet(G) /\ Cardinality(F \cup G) <= Cardinality(D)
  BY <1>2, <1>3, FS_Subset
<1>6. Cardinality(F \cup G) = Cardinality(F) + Cardinality(G)
  <2>1. Cardinality(F) \in Nat /\ Cardinality(G) \in Nat
    BY <1>5, FS_CardinalityType
  <2>2. Cardinality(F \cup G) = Cardinality(F) + Cardinality(G) - Cardinality(F \cap G)
    BY <1>5, FS_Union
  <2>3. Cardinality(F \cap G) = 0
    BY <1>3, FS_EmptySet
  <2> QED BY <2>1, <2>2, <2>3
<1> QED BY <1>2, <1>4, <1>5, <1>6

-----------------------------------------------------------------------------
(* Of the rows about one thing, one speaks: none that is further hides.     *)

IsLog(log) ==
    /\ DOMAIN log \subseteq Nat /\ IsFiniteSet(DOMAIN log)
    /\ \A i \in DOMAIN log : log[i].state \in States /\ log[i].version \in Nat

LEMMA SomeRowSpeaks ==
    ASSUME NEW log, IsLog(log), NEW i \in DOMAIN log
    PROVE  \E r \in LatestResults(log) :
              RowKey(r) = RowKey(log[i]) /\ StateRank(log[i].state) <= StateRank(r.state)
<1> DEFINE alike == {j \in DOMAIN log : RowKey(log[j]) = RowKey(log[i])}
           ranks == [j \in alike |-> StateRank(log[j].state)]
           versions == [j \in alike |-> log[j].version]
<1>1. alike \in SUBSET Nat /\ IsFiniteSet(alike) /\ i \in alike
  BY FS_Subset DEF IsLog
<1>2. \A j \in alike : ranks[j] \in Nat /\ versions[j] \in Nat
  BY DEF IsLog, States, StateRank
<1>3. PICK a \in alike : \A j \in alike : ranks[j] <= ranks[a]
  <2> DEFINE T == {ranks[j] : j \in alike}
  <2>1. IsFiniteSet(T)
    <3> HIDE DEF ranks, alike
    <3> QED BY <1>1, ImageFinite
  <2>2. T \in SUBSET Nat /\ T # {}
    BY <1>1, <1>2
  <2>3. PICK n \in T : \A m \in T : m <= n
    <3> HIDE DEF T
    <3> QED BY <2>1, <2>2, GreatestNumber
  <2> QED BY <2>3
<1> DEFINE first == {j \in alike : ranks[j] = ranks[a]}
<1>4. PICK b \in first : \A j \in first : versions[j] <= versions[b]
  <2> DEFINE T == {versions[j] : j \in first}
  <2>1. IsFiniteSet(T)
    <3>1. IsFiniteSet(first)
      BY <1>1, FS_Subset
    <3> HIDE DEF versions, first
    <3> QED BY <3>1, ImageFinite
  <2>2. T \in SUBSET Nat /\ T # {}
    BY <1>2, <1>3
  <2>3. PICK n \in T : \A m \in T : m <= n
    <3> HIDE DEF T
    <3> QED BY <2>1, <2>2, GreatestNumber
  <2> QED BY <2>3
<1> DEFINE second == {j \in first : versions[j] = versions[b]}
<1>5. PICK k \in second : \A j \in second : j <= k
  <2>1. second \in SUBSET Nat /\ IsFiniteSet(second) /\ second # {}
    BY <1>1, <1>4, FS_Subset
  <2> HIDE DEF second
  <2> QED BY <2>1, GreatestNumber
<1>6. \A j \in Rivals(log, k) : Precedes(log, j, k)
  <2> SUFFICES ASSUME NEW j \in Rivals(log, k) PROVE Precedes(log, j, k)
    OBVIOUS
  <2>1. j \in alike /\ j # k /\ k \in alike
    BY <1>5 DEF Rivals
  <2>2. ranks[j] <= ranks[k] /\ (ranks[j] = ranks[k] => versions[j] <= versions[k])
    BY <1>3, <1>4, <1>5, <2>1
  <2>3. ranks[j] = ranks[k] /\ versions[j] = versions[k] => j <= k
    BY <1>4, <1>5, <2>1
  <2>4. /\ ranks[j] = StateRank(log[j].state) /\ ranks[k] = StateRank(log[k].state)
        /\ versions[j] = log[j].version /\ versions[k] = log[k].version
    BY <2>1
  <2>5. /\ ranks[j] \in Nat /\ ranks[k] \in Nat /\ versions[j] \in Nat /\ versions[k] \in Nat
        /\ j \in Nat /\ k \in Nat
    BY <1>1, <1>2, <2>1
  <2> HIDE DEF ranks, versions, alike, first, second
  <2> QED BY <2>1, <2>2, <2>3, <2>4, <2>5 DEF Precedes
<1>7. log[k] \in LatestResults(log)
  BY <1>5, <1>6 DEF LatestResults
<1>8. RowKey(log[k]) = RowKey(log[i]) /\ StateRank(log[i].state) <= StateRank(log[k].state)
  BY <1>1, <1>3, <1>4, <1>5
<1> QED BY <1>7, <1>8

LEMMA CompletedSpeaks ==
    ASSUME NEW log, IsLog(log), NEW i \in DOMAIN log, log[i].state = "completed"
    PROVE  \E r \in LatestResults(log) : RowKey(r) = RowKey(log[i]) /\ r.state = "completed"
<1>1. PICK r \in LatestResults(log) :
          RowKey(r) = RowKey(log[i]) /\ StateRank(log[i].state) <= StateRank(r.state)
  BY SomeRowSpeaks
<1>2. r.state \in States
  BY DEF LatestResults, IsLog
<1>3. r.state = "completed"
  BY <1>1, <1>2 DEF States, StateRank
<1> QED BY <1>1, <1>3

-----------------------------------------------------------------------------
(* The review queue.                                                       *)

LEMMA SeverityRankNat ==
    ASSUME NEW s
    PROVE  SeverityRank(s) \in Nat
BY DEF SeverityRank

LEMMA GravestIs ==
    ASSUME NEW items, items # {}
    PROVE  Gravest(items) \in items /\ \A b \in items : ~MoreGrave(b, Gravest(items))
<1> DEFINE T == {SeverityRank(a.severity) : a \in items}
<1>1. T \in SUBSET Nat /\ T # {}
  BY SeverityRankNat
<1>2. PICK n \in T : \A m \in T : n <= m
  <2> HIDE DEF T
  <2> QED BY <1>1, LeastNumber
<1>3. PICK a \in items : SeverityRank(a.severity) = n
  BY <1>2
<1>4. \A b \in items : ~MoreGrave(b, a)
  <2> SUFFICES ASSUME NEW b \in items PROVE ~(SeverityRank(b.severity) < SeverityRank(a.severity))
    BY DEF MoreGrave
  <2> QED BY <1>2, <1>3, SeverityRankNat
<1> QED BY <1>3, <1>4 DEF Gravest

LEMMA ItemsOfCall ==
    ASSUME NEW row, NEW item \in QueueItems(row)
    PROVE  item.call = row.call
BY DEF QueueItems, Item

LEMMA QueueIs ==
    ASSUME NEW rows
    PROVE  /\ \A r \in rows : \A item \in QueueItems(r) : item.severity # "low" =>
                \E b \in ReviewQueue(rows) : b.call = r.call /\ ~MoreGrave(item, b)
           /\ \A a, b \in ReviewQueue(rows) : a.call = b.call => a = b
           /\ \A a \in ReviewQueue(rows) : \E r \in rows : a.call = r.call
<1> DEFINE items == {item \in UNION {QueueItems(r) : r \in rows} : item.severity # "low"}
           of(c) == {b \in items : b.call = c}
<1>1. ReviewQueue(rows) = {Gravest(of(a.call)) : a \in items}
  BY DEF ReviewQueue
<1>2. ASSUME NEW a \in items
      PROVE  /\ Gravest(of(a.call)) \in items /\ Gravest(of(a.call)).call = a.call
             /\ \A b \in of(a.call) : ~MoreGrave(b, Gravest(of(a.call)))
  <2>1. a \in of(a.call)
    OBVIOUS
  <2> DEFINE own == of(a.call)
  <2>2. Gravest(own) \in own /\ \A b \in own : ~MoreGrave(b, Gravest(own))
    <3>1. own # {}
      BY <2>1
    <3> HIDE DEF own
    <3> QED BY <3>1, GravestIs
  <2> HIDE DEF items
  <2> QED BY <2>2
<1>3. ASSUME NEW r \in rows, NEW item \in QueueItems(r), item.severity # "low"
      PROVE  \E b \in ReviewQueue(rows) : b.call = r.call /\ ~MoreGrave(item, b)
  <2>1. item \in items /\ item \in of(item.call) /\ item.call = r.call
    BY <1>3, ItemsOfCall
  <2>2. Gravest(of(item.call)).call = r.call /\ ~MoreGrave(item, Gravest(of(item.call)))
    <3> HIDE DEF items, of
    <3> QED BY <1>2, <2>1
  <2> HIDE DEF items, of
  <2> QED BY <1>1, <2>1, <2>2
<1>4. ASSUME NEW a \in ReviewQueue(rows), NEW b \in ReviewQueue(rows), a.call = b.call
      PROVE  a = b
  <2> HIDE DEF items
  <2> QED BY <1>1, <1>2, <1>4
<1>5. ASSUME NEW a \in ReviewQueue(rows)
      PROVE  \E r \in rows : a.call = r.call
  <2>1. a \in items
    <3> HIDE DEF items
    <3> QED BY <1>1, <1>2
  <2> QED BY <2>1, ItemsOfCall
<1> QED BY <1>3, <1>4, <1>5

-----------------------------------------------------------------------------
(* The clusters divide the calls.                                          *)

(* A list of sets, each member of S in one of them. *)
Divides(list, S) ==
    /\ list \in Seq(SUBSET S)
    /\ \A c \in S : \E k \in 1 .. Len(list) :
          c \in list[k] /\ \A l \in 1 .. Len(list) : c \in list[l] => l = k

LEMMA OneMore ==
    ASSUME NEW list, NEW S, NEW T, Divides(list, S), S \cap T = {}
    PROVE  Divides(Append(list, T), S \cup T)
<1> DEFINE all == S \cup T
           n == Len(list)
           longer == Append(list, T)
<1>1. n \in Nat /\ DOMAIN list = 1 .. n /\ \A k \in 1 .. n : list[k] \in SUBSET S
  BY LenProperties, ElementOfSeq DEF Divides
<1>2. list \in [1 .. n -> SUBSET all]
  <2>1. list \in [1 .. n -> SUBSET S]
    BY <1>1, LenProperties DEF Divides
  <2> QED BY <2>1
<1>3. list \in Seq(SUBSET all)
  BY <1>1, <1>2, IsASeq
<1>4. /\ longer \in Seq(SUBSET all) /\ Len(longer) = n + 1
      /\ \A k \in 1 .. n : longer[k] = list[k]
      /\ longer[n + 1] = T
  BY <1>3, AppendProperties
<1> HIDE DEF longer
<1>5. ASSUME NEW c \in all
      PROVE  \E k \in 1 .. n + 1 :
                c \in longer[k] /\ \A l \in 1 .. n + 1 : c \in longer[l] => l = k
  <2>1. CASE c \in S
    <3>1. PICK k \in 1 .. n : c \in list[k] /\ \A l \in 1 .. n : c \in list[l] => l = k
      BY <2>1 DEF Divides
    <3>2. c \notin longer[n + 1]
      BY <1>4, <2>1
    <3>3. k \in 1 .. n + 1 /\ c \in longer[k]
      BY <1>1, <1>4, <3>1
    <3>4. ASSUME NEW l \in 1 .. n + 1, c \in longer[l] PROVE l = k
      <4>1. l \in 1 .. n
        BY <1>1, <3>2, <3>4
      <4> QED BY <1>4, <3>1, <3>4, <4>1
    <3> QED BY <3>3, <3>4
  <2>2. CASE c \in T /\ c \notin S
    <3>1. n + 1 \in 1 .. n + 1 /\ c \in longer[n + 1]
      BY <1>1, <1>4, <2>2
    <3>2. ASSUME NEW l \in 1 .. n + 1, c \in longer[l] PROVE l = n + 1
      <4>1. l \notin 1 .. n
        BY <1>1, <1>4, <2>2, <3>2
      <4> QED BY <1>1, <4>1
    <3> QED BY <3>1, <3>2
  <2> QED BY <2>1, <2>2
<1> QED BY <1>4, <1>5 DEF Divides

LEMMA JoinsOne ==
    ASSUME NEW list, NEW S, Divides(list, S), NEW c, c \notin S, NEW j \in DOMAIN list
    PROVE  Divides([list EXCEPT ![j] = @ \cup {c}], S \cup {c})
<1> DEFINE all == S \cup {c}
           n == Len(list)
           joined == [list EXCEPT ![j] = @ \cup {c}]
<1>1. n \in Nat /\ DOMAIN list = 1 .. n /\ \A k \in 1 .. n : list[k] \in SUBSET S
  BY LenProperties, ElementOfSeq DEF Divides
<1>2. list = [k \in 1 .. n |-> list[k]]
  BY <1>1, LenProperties DEF Divides
<1>3. joined \in [1 .. n -> SUBSET all]
  BY <1>1, <1>2
<1>4. joined \in Seq(SUBSET all) /\ Len(joined) = n
  BY <1>1, <1>3, IsASeq, LenProperties
<1>5. joined[j] = list[j] \cup {c} /\ \A k \in 1 .. n : k # j => joined[k] = list[k]
  BY <1>1, <1>2
<1> HIDE DEF joined
<1>6. ASSUME NEW d \in all
      PROVE  \E k \in 1 .. n : d \in joined[k] /\ \A l \in 1 .. n : d \in joined[l] => l = k
  <2>1. CASE d \in S
    <3>1. \A k \in 1 .. n : d \in joined[k] <=> d \in list[k]
      BY <1>1, <1>5, <2>1
    <3> QED BY <2>1, <3>1 DEF Divides
  <2>2. CASE d = c
    <3>1. j \in 1 .. n /\ d \in joined[j]
      BY <1>1, <1>5, <2>2
    <3>2. ASSUME NEW l \in 1 .. n, d \in joined[l] PROVE l = j
      BY <1>1, <1>5, <2>2, <3>2
    <3> QED BY <3>1, <3>2
  <2> QED BY <2>1, <2>2
<1> QED BY <1>4, <1>6 DEF Divides

LEMMA BucketedDivides ==
    ASSUME NEW list, NEW S, Divides(list, S), NEW c, c \notin S
    PROVE  Divides(Bucketed(list, c), S \cup {c})
<1> DEFINE fits == {k \in DOMAIN list : Close(list[k], Revision(c).text)}
<1>1. CASE fits = {}
  <2>1. Bucketed(list, c) = Append(list, {c})
    BY <1>1 DEF Bucketed
  <2> QED BY <2>1, OneMore
<1>2. CASE fits # {}
  <2>1. fits \in SUBSET Nat
    BY LenProperties DEF Divides
  <2>2. Min(fits) \in fits
    <3> HIDE DEF fits
    <3>1. PICK k \in fits : \A m \in fits : k <= m
      BY <1>2, <2>1, LeastNumber
    <3> QED BY <3>1 DEF Min
  <2>3. Bucketed(list, c) = [list EXCEPT ![Min(fits)] = @ \cup {c}]
    BY <1>2 DEF Bucketed
  <2>4. Min(fits) \in DOMAIN list
    BY <2>2
  <2> DEFINE j == Min(fits)
  <2>5. Divides([list EXCEPT ![j] = @ \cup {c}], S \cup {c})
    <3>1. j \in DOMAIN list
      BY <2>4
    <3> HIDE DEF j
    <3> QED BY <3>1, JoinsOne
  <2> QED BY <2>3, <2>5
<1> QED BY <1>1, <1>2

IsBucketing(f, T, n) ==
    f = [k \in 0 .. n |->
            IF k = 0 THEN <<>> ELSE IF k \in T THEN Bucketed(f[k - 1], k) ELSE f[k - 1]]

LEMMA BucketingExists ==
    ASSUME NEW T, NEW n \in Nat
    PROVE  \E f : IsBucketing(f, T, n)
<1> DEFINE Has == {k \in 0 .. n : \E f : IsBucketing(f, T, k)}
           Step(k, b) == IF k \in T THEN Bucketed(b, k) ELSE b
<1>1. 0 \in Has
  <2>1. IsBucketing([k \in 0 .. 0 |-> <<>>], T, 0)
    BY DEF IsBucketing
  <2> QED BY <2>1
<1>2. ASSUME NEW k \in 1 .. n, k - 1 \in Has PROVE k \in Has
  <2>1. PICK f : IsBucketing(f, T, k - 1)
    BY <1>2
  <2> DEFINE g == [i \in 0 .. k |-> IF i = k THEN Step(k, f[k - 1]) ELSE f[i]]
  <2>2. ASSUME NEW i \in 0 .. k PROVE g[i] = IF i = 0 THEN <<>> ELSE Step(i, g[i - 1])
    <3>1. k \in Nat /\ k # 0 /\ i \in Nat
      OBVIOUS
    <3>2. CASE i = k
      <4>1. g[i] = Step(k, f[k - 1]) /\ g[i - 1] = f[k - 1]
        BY <3>1, <3>2
      <4> HIDE DEF g, Step
      <4> QED BY <3>1, <3>2, <4>1
    <3>3. CASE i # k
      <4>1. i \in 0 .. k - 1
        BY <3>1, <3>3
      <4>2. f[i] = IF i = 0 THEN <<>> ELSE Step(i, f[i - 1])
        BY <2>1, <4>1 DEF IsBucketing
      <4>3. g[i] = f[i] /\ (i # 0 => g[i - 1] = f[i - 1])
        BY <3>1, <3>3
      <4> HIDE DEF g, Step
      <4> QED BY <4>2, <4>3
    <3> QED BY <3>2, <3>3
  <2>3. IsBucketing(g, T, k)
    <3>1. g = [i \in 0 .. k |-> g[i]]
      OBVIOUS
    <3> HIDE DEF g
    <3> QED BY <2>2, <3>1 DEF IsBucketing
  <2> QED BY <2>3
<1>3. \A k \in 0 .. n : k \in Has
  <2> HIDE DEF Has
  <2> QED BY <1>1, <1>2, UpTo
<1> QED BY <1>3

LEMMA BucketsDivide ==
    ASSUME NEW members \in SUBSET FleetCalls
    PROVE  Divides(Buckets(members), members \ Silent(members))
<1> DEFINE n == FleetSize
           T == members \ Silent(members)
           f == CHOOSE g : IsBucketing(g, T, n)
           upto(k) == T \cap (1 .. k)
<1>1. n \in Nat /\ T \subseteq 1 .. n
  BY FleetAssumption DEF FleetCalls
<1>2. IsBucketing(f, T, n)
  BY <1>1, BucketingExists
<1>3. Buckets(members) = f[n]
  BY DEF Buckets, IsBucketing
<1> HIDE DEF f
<1>4. /\ f[0] = <<>>
      /\ \A k \in 1 .. n : f[k] = IF k \in T THEN Bucketed(f[k - 1], k) ELSE f[k - 1]
  <2> HIDE DEF T, n
  <2> QED BY <1>1, <1>2 DEF IsBucketing
<1> DEFINE Fine(k) == Divides(f[k], upto(k))
<1>5. Fine(0)
  <2>1. upto(0) = {}
    OBVIOUS
  <2>2. Divides(<<>>, {})
    BY EmptySeq DEF Divides
  <2> QED BY <1>4, <2>1, <2>2
<1>6. ASSUME NEW k \in 1 .. n, Fine(k - 1) PROVE Fine(k)
  <2>1. k \in Nat
    BY <1>1
  <2>2. CASE k \in T
    <3>1. upto(k) = upto(k - 1) \cup {k} /\ k \notin upto(k - 1)
      <4> HIDE DEF T
      <4> QED BY <1>1, <2>1, <2>2
    <3>2. f[k] = Bucketed(f[k - 1], k)
      BY <1>4, <2>2
    <3> HIDE DEF upto
    <3> QED BY <1>6, <3>1, <3>2, BucketedDivides
  <2>3. CASE k \notin T
    <3>1. upto(k) = upto(k - 1)
      <4> HIDE DEF T
      <4> QED BY <1>1, <2>1, <2>3
    <3>2. f[k] = f[k - 1]
      BY <1>4, <2>3
    <3> HIDE DEF upto
    <3> QED BY <1>6, <3>1, <3>2
  <2> QED BY <2>2, <2>3
<1>7. \A k \in 0 .. n : Fine(k)
  <2> DEFINE Has == {k \in 0 .. n : Fine(k)}
  <2>1. 0 \in Has /\ \A k \in 1 .. n : k - 1 \in Has => k \in Has
    <3> HIDE DEF Fine, n
    <3> QED BY <1>1, <1>5, <1>6
  <2>2. \A k \in 0 .. n : k \in Has
    <3> HIDE DEF Has, n
    <3> QED BY <1>1, <2>1, UpTo
  <2> HIDE DEF Fine, n
  <2> QED BY <2>2
<1>8. upto(n) = T
  <2> HIDE DEF T
  <2> QED BY <1>1
<1>9. Fine(n)
  <2> HIDE DEF Fine, n
  <2> QED BY <1>1, <1>7
<1> HIDE DEF upto, T
<1> QED BY <1>3, <1>8, <1>9 DEF T

LEMMA SubclustersDivide ==
    ASSUME NEW members \in SUBSET FleetCalls
    PROVE  Divides(Subclusters(members), members)
<1>1. CASE Silent(members) = {}
  <2>1. members \ Silent(members) = members /\ Subclusters(members) = Buckets(members)
    BY <1>1 DEF Subclusters
  <2> QED BY <2>1, BucketsDivide
<1>2. CASE Silent(members) # {}
  <2> DEFINE S == members \ Silent(members)
             T == Silent(members)
  <2>1. S \cap T = {} /\ S \cup T = members
    BY DEF Silent
  <2>2. Subclusters(members) = Append(Buckets(members), T)
    BY <1>2 DEF Subclusters
  <2>3. Divides(Buckets(members), S)
    BY BucketsDivide
  <2> HIDE DEF S, T
  <2>4. Divides(Append(Buckets(members), T), S \cup T)
    BY <2>1, <2>3, OneMore
  <2> QED BY <2>1, <2>2, <2>4
<1> QED BY <1>1, <1>2

LEMMA ClustersDivide ==
    ASSUME NEW c \in Serving
    PROVE  Cardinality({k \in Clusters : c \in k.calls}) = 1
<1> DEFINE endings == {EndingOf(d) : d \in Serving}
           lists(e) == Subclusters(EndedAs(e))
           of == {k \in Clusters : c \in k.calls}
           own == EndingOf(c)
<1>1. Clusters = UNION {{[ending |-> e, index |-> k, calls |-> lists(e)[k]] : k \in DOMAIN lists(e)}
                           : e \in endings}
  BY DEF Clusters
<1>2. ASSUME NEW e \in endings
      PROVE  /\ Divides(lists(e), EndedAs(e)) /\ DOMAIN lists(e) = 1 .. Len(lists(e))
             /\ \A k \in DOMAIN lists(e) : lists(e)[k] \in SUBSET EndedAs(e)
  <2>1. EndedAs(e) \in SUBSET FleetCalls
    BY DEF EndedAs, Serving
  <2>2. Divides(lists(e), EndedAs(e))
    BY <2>1, SubclustersDivide
  <2> HIDE DEF lists
  <2> QED BY <2>2, LenProperties, ElementOfSeq DEF Divides
<1>3. own \in endings /\ c \in EndedAs(own)
  BY DEF EndedAs
<1>4. \A e : c \in EndedAs(e) => e = own
  BY DEF EndedAs
<1> HIDE DEF lists, own, endings
<1>5. PICK k \in DOMAIN lists(own) :
          c \in lists(own)[k] /\ \A l \in DOMAIN lists(own) : c \in lists(own)[l] => l = k
  BY <1>2, <1>3 DEF Divides
<1> DEFINE it == [ending |-> own, index |-> k, calls |-> lists(own)[k]]
<1>6. it \in of
  BY <1>1, <1>3, <1>5
<1>7. ASSUME NEW u \in of PROVE u = it
  <2>1. PICK e \in endings : \E l \in DOMAIN lists(e) :
            u = [ending |-> e, index |-> l, calls |-> lists(e)[l]]
    BY <1>1
  <2>2. PICK l \in DOMAIN lists(e) : u = [ending |-> e, index |-> l, calls |-> lists(e)[l]]
    BY <2>1
  <2>3. c \in lists(e)[l]
    BY <2>2
  <2>4. e = own
    BY <1>2, <1>4, <2>3
  <2>5. l = k
    BY <1>5, <2>3, <2>4
  <2> QED BY <2>2, <2>4, <2>5
<1>8. of = {it}
  <2> HIDE DEF of, it
  <2> QED BY <1>6, <1>7
<1> HIDE DEF of, it
<1> QED BY <1>8, FS_Singleton DEF of

-----------------------------------------------------------------------------
(* The fleet as it changes.                                                *)

FleetInv ==
    /\ fleet = [serving |-> fleet.serving, log |-> fleet.log]
    /\ fleet.serving \in [FleetCalls -> Revisions \cup {Unserved}]
    /\ IsLog(fleet.log)

LEMMA NextPlace ==
    ASSUME NEW log, IsLog(log)
    PROVE  LastPlace(log) \in Nat /\ \A i \in DOMAIN log : i <= LastPlace(log)
<1>1. CASE DOMAIN log = {}
  BY <1>1 DEF LastPlace
<1>2. CASE DOMAIN log # {}
  <2> DEFINE T == DOMAIN log
  <2>1. T \in SUBSET Nat /\ IsFiniteSet(T) /\ T # {}
    BY <1>2 DEF IsLog
  <2>2. Max(T) \in T /\ \A i \in T : i <= Max(T)
    <3> HIDE DEF T
    <3>1. PICK n \in T : \A m \in T : m <= n
      BY <2>1, GreatestNumber
    <3>2. n \in T /\ \A y \in T : n >= y
      BY <2>1, <3>1
    <3>3. Max(T) \in T /\ \A y \in T : Max(T) >= y
      BY <3>2 DEF Max
    <3> QED BY <2>1, <3>3
  <2>3. LastPlace(log) = Max(T)
    BY <1>2 DEF LastPlace
  <2> QED BY <2>1, <2>2, <2>3
<1> QED BY <1>1, <1>2

LEMMA AppendedIsLog ==
    ASSUME NEW log, IsLog(log), NEW row, row.state \in States, row.version \in Nat
    PROVE  IsLog(Appended(log, row))
<1> DEFINE n == LastPlace(log) + 1
           D == DOMAIN log \cup {n}
           longer == [i \in D |-> IF i = n THEN row ELSE log[i]]
<1>1. n \in Nat
  BY NextPlace
<1>2. Appended(log, row) = longer
  BY DEF Appended
<1>3. D \subseteq Nat /\ IsFiniteSet(D)
  BY <1>1, FS_AddElement DEF IsLog
<1> HIDE DEF n
<1>4. \A i \in D : longer[i].state \in States /\ longer[i].version \in Nat
  BY DEF IsLog
<1> QED BY <1>2, <1>3, <1>4 DEF IsLog

LEMMA ServeIs ==
    ASSUME FleetInv, NEW c \in FleetCalls, NEW r \in Revisions,
           fleet' = [fleet EXCEPT !.serving[c] = r]
    PROVE  FleetInv'
<1>1. /\ fleet'.serving = [fleet.serving EXCEPT ![c] = r]
      /\ fleet'.log = fleet.log
      /\ fleet' = [serving |-> fleet'.serving, log |-> fleet'.log]
  BY DEF FleetInv
<1>2. fleet'.serving \in [FleetCalls -> Revisions \cup {Unserved}]
  BY <1>1 DEF FleetInv
<1>3. IsLog(fleet'.log)
  BY <1>1 DEF FleetInv
<1> QED BY <1>1, <1>2, <1>3 DEF FleetInv

LEMMA EraseIs ==
    ASSUME FleetInv, NEW c \in Serving,
           fleet' = [serving |-> [fleet.serving EXCEPT ![c] = Unserved],
                     log |-> [i \in {k \in DOMAIN fleet.log : fleet.log[k].call # c} |-> fleet.log[i]]]
    PROVE  FleetInv'
<1>1. /\ fleet'.serving = [fleet.serving EXCEPT ![c] = Unserved]
      /\ fleet'.log = [i \in {k \in DOMAIN fleet.log : fleet.log[k].call # c} |-> fleet.log[i]]
      /\ fleet' = [serving |-> fleet'.serving, log |-> fleet'.log]
  OBVIOUS
<1>2. fleet'.serving \in [FleetCalls -> Revisions \cup {Unserved}]
  BY <1>1 DEF FleetInv
<1>3. IsLog(fleet'.log)
  <2>1. DOMAIN fleet'.log \subseteq DOMAIN fleet.log /\ \A i \in DOMAIN fleet'.log : fleet'.log[i] = fleet.log[i]
    BY <1>1
  <2>2. IsFiniteSet(DOMAIN fleet'.log)
    BY <2>1, FS_Subset DEF FleetInv, IsLog
  <2> QED BY <2>1, <2>2 DEF FleetInv, IsLog
<1> QED BY <1>1, <1>2, <1>3 DEF FleetInv

LEMMA FleetStep ==
    ASSUME FleetInv, [FleetNext]_fleet
    PROVE  FleetInv'
<1>1. CASE Serve
  BY <1>1, ServeIs DEF Serve
<1>2. CASE Record
  <2>1. PICK c \in Serving, row \in Rows, r \in Revisions :
            fleet' = [fleet EXCEPT !.log = Appended(@, RowOf(row, [call |-> c, revision |-> r.id]))]
    BY <1>2 DEF Record
  <2> DEFINE written == RowOf(row, [call |-> c, revision |-> r.id])
  <2>2. written.state \in States /\ written.version \in Nat
    <3>1. /\ {"state", "version"} \subseteq DOMAIN row
          /\ row.state \in States /\ row.version \in Nat
      BY FleetAssumption
    <3>2. written["state"] = row["state"] /\ written["version"] = row["version"]
      BY <3>1 DEF RowOf
    <3> HIDE DEF written
    <3> QED BY <3>1, <3>2
  <2> HIDE DEF written
  <2>3. IsLog(Appended(fleet.log, written))
    BY <2>2, AppendedIsLog DEF FleetInv
  <2>4. fleet' = [fleet EXCEPT !.log = Appended(fleet.log, written)]
    BY <2>1 DEF written, FleetInv
  <2>5. /\ fleet'.serving = fleet.serving
        /\ fleet'.log = Appended(fleet.log, written)
        /\ fleet' = [serving |-> fleet'.serving, log |-> fleet'.log]
    BY <2>4 DEF FleetInv
  <2> QED BY <2>3, <2>5 DEF FleetInv
<1>3. CASE Erase
  BY <1>3, EraseIs DEF Erase
<1>4. CASE UNCHANGED fleet
  BY <1>4 DEF FleetInv
<1> QED BY <1>1, <1>2, <1>3, <1>4 DEF FleetNext

LEMMA FleetStart ==
    ASSUME FleetInit
    PROVE  FleetInv
<1>1. fleet = [serving |-> [c \in FleetCalls |-> Unserved], log |-> <<>>]
  BY DEF FleetInit
<1>2. DOMAIN fleet.log = {}
  BY <1>1
<1>3. IsLog(fleet.log)
  BY <1>2, FS_EmptySet DEF IsLog
<1> QED BY <1>1, <1>3 DEF FleetInv

LEMMA SamplesAre ==
    ASSUME FleetInv
    PROVE  IsFiniteSet(ActiveSamples) /\ \A s \in ActiveSamples : s.ms \in Nat
<1> DEFINE of == [c \in Serving |-> SamplesOf(c, Revision(c))]
<1>1. ActiveSamples = UNION {of[c] : c \in Serving}
  BY DEF ActiveSamples
<1>2. IsFiniteSet(Serving) /\ Serving \subseteq FleetCalls
  <2>1. Serving \subseteq FleetCalls
    BY DEF Serving
  <2>2. IsFiniteSet(FleetCalls)
    BY FleetAssumption, FS_Interval DEF FleetCalls
  <2> QED BY <2>1, <2>2, FS_Subset
<1>3. ASSUME NEW c \in Serving
      PROVE  IsFiniteSet(of[c]) /\ \A s \in of[c] : s.ms \in Nat
  <2> DEFINE list == Revision(c).samples
             D == DOMAIN list
             g == [k \in D |-> [call |-> c, at |-> k, stage |-> list[k].stage,
                                metric |-> list[k].metric, ms |-> list[k].ms]]
  <2>1. list \in Seq(ToSet(list)) /\ \A k \in D : list[k].ms \in Nat
    <3>1. Revision(c) \in Revisions
      BY DEF FleetInv, Serving, Revision
    <3> QED BY <3>1, FleetAssumption
  <2>2. IsFiniteSet(D)
    <3>1. Len(list) \in Nat /\ D = 1 .. Len(list)
      BY <2>1, LenProperties
    <3> QED BY <3>1, FS_Interval
  <2>3. of[c] = {g[k] : k \in D}
    BY DEF SamplesOf
  <2>4. IsFiniteSet({g[k] : k \in D})
    <3> HIDE DEF g, D
    <3> QED BY <2>2, ImageFinite
  <2>5. \A k \in D : g[k].ms \in Nat
    BY <2>1
  <2> HIDE DEF g, D, of
  <2> QED BY <2>3, <2>4, <2>5
<1>4. IsFiniteSet(ActiveSamples)
  <2>1. IsFiniteSet({of[c] : c \in Serving})
    <3> HIDE DEF of
    <3> QED BY <1>2, ImageFinite
  <2> HIDE DEF of
  <2> QED BY <1>1, <1>3, <2>1, FS_UNION
<1>5. \A s \in ActiveSamples : s.ms \in Nat
  <2> HIDE DEF of
  <2> QED BY <1>1, <1>3
<1> QED BY <1>4, <1>5

(* Of two rows for one question, only one comes after all the others.       *)
LEMMA CountedOnce ==
    ASSUME NEW log, IsLog(log)
    PROVE  \A a, b \in LatestResults(log) : RowKey(a) = RowKey(b) => a = b
<1> SUFFICES ASSUME NEW i \in DOMAIN log, NEW j \in DOMAIN log,
                    RowKey(log[i]) = RowKey(log[j]), i # j,
                    \A k \in Rivals(log, i) : Precedes(log, k, i),
                    \A k \in Rivals(log, j) : Precedes(log, k, j)
             PROVE  FALSE
  BY DEF LatestResults
<1>1. j \in Rivals(log, i) /\ i \in Rivals(log, j)
  BY DEF Rivals
<1>2. Precedes(log, j, i) /\ Precedes(log, i, j)
  BY <1>1
<1>3. /\ i \in Nat /\ j \in Nat
      /\ log[i].version \in Nat /\ log[j].version \in Nat
      /\ log[i].state \in States /\ log[j].state \in States
  BY DEF IsLog
<1>4. StateRank(log[i].state) \in Nat /\ StateRank(log[j].state) \in Nat
  BY <1>3 DEF StateRank, States
<1> QED BY <1>2, <1>3, <1>4 DEF Precedes

LEMMA QueueHonest ==
    LET q == Quality
        current == {r \in LatestResults(fleet.log) :
                       r.call \in Serving /\ r.revision = Revision(r.call).id}
    IN /\ \A r \in current : \A item \in QueueItems(r) : item.severity # "low" =>
             \E b \in q.queue : b.call = r.call /\ ~MoreGrave(item, b)
       /\ \A a, b \in q.queue : a.call = b.call => a = b
       /\ {a.call : a \in q.queue} \subseteq Serving
<1> DEFINE current == {r \in LatestResults(fleet.log) :
                          r.call \in Serving /\ r.revision = Revision(r.call).id}
<1>1. Quality.queue = ReviewQueue(current)
  BY DEF Quality
<1>2. \A r \in current : r.call \in Serving
  OBVIOUS
<1> HIDE DEF current
<1>3. {a.call : a \in Quality.queue} \subseteq Serving
  BY <1>1, <1>2, QueueIs
<1>4. /\ \A r \in current : \A item \in QueueItems(r) : item.severity # "low" =>
            \E b \in ReviewQueue(current) : b.call = r.call /\ ~MoreGrave(item, b)
      /\ \A a, b \in ReviewQueue(current) : a.call = b.call => a = b
  BY QueueIs
<1> DEFINE q == Quality
<1>5. /\ \A r \in current : \A item \in QueueItems(r) : item.severity # "low" =>
            \E b \in q.queue : b.call = r.call /\ ~MoreGrave(item, b)
      /\ \A a, b \in q.queue : a.call = b.call => a = b
  BY <1>1, <1>4
<1>6. {a.call : a \in q.queue} \subseteq Serving
  BY <1>3
<1> HIDE DEF q
<1> QED BY <1>5, <1>6 DEF current, q

LEMMA HonestIs ==
    ASSUME FleetInv
    PROVE  FleetHonest
<1>1. \A stage \in DOMAIN Latency(ActiveSamples) :
          /\ Latency(ActiveSamples)[stage].n > 0
          /\ Latency(ActiveSamples)[stage].p50 <= Latency(ActiveSamples)[stage].p95
  BY SamplesAre, LatencyOrdered
<1>2. \A i \in DOMAIN fleet.log : fleet.log[i].state = "completed" =>
          \E r \in LatestResults(fleet.log) : RowKey(r) = RowKey(fleet.log[i]) /\ r.state = "completed"
  BY CompletedSpeaks DEF FleetInv
<1>3. \A c \in Serving : LET t == ToolStats(Revision(c).tools) IN
          t.failures + t.successes <= t.count
  <2>1. \A c \in Serving : Revision(c).tools \in Seq(ToSet(Revision(c).tools))
    BY FleetAssumption DEF FleetInv, Serving, Revision
  <2> QED BY <2>1, ToolsCounted
<1>4. \A a, b \in LatestResults(fleet.log) : RowKey(a) = RowKey(b) => a = b
  BY CountedOnce DEF FleetInv
<1> QED BY <1>1, <1>2, <1>3, <1>4, QueueHonest, ClustersDivide DEF FleetHonest

(* The fleet's pages are honest, for any calls, revisions and rows, and any *)
(* measure of what is alike. *)
THEOREM FleetIsHonest == FleetSpec => []FleetHonest
<1>1. FleetInit => FleetInv
  BY FleetStart
<1>2. FleetInv /\ [FleetNext]_fleet => FleetInv'
  BY FleetStep
<1>3. FleetInv => FleetHonest
  BY HonestIs
<1> QED BY <1>1, <1>2, <1>3, PTL DEF FleetSpec
=============================================================================
