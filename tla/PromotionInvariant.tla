------------------------- MODULE PromotionInvariant -------------------------
(***************************************************************************)
(* The inductive invariant behind the safety properties of Promotion.      *)
(* None of those is inductive: that the pointer names rows that exist rests *)
(* on every attempt being written before its swap, and that an assembled    *)
(* envelope was folded in rests on what each attempt was folded onto and    *)
(* on no two drainers holding the same revision.  Most of it speaks of a    *)
(* call that is not tombstoned: a deletion takes rows and pointer away      *)
(* under the drainers.  What a deletion leaves has an invariant of its own. *)
(***************************************************************************)
EXTENDS Promotion

FactsAt(r) == IF r = NoRev THEN {} ELSE content[r]

(* What the call ever showed and did not withdraw: it only grows. *)
Held == ActiveFacts \cup Withdrawn

(* A drainer that has an attempt it has not yet compared. *)
Attempting == {"insert", "visible", "swap"}

(* Where a drainer is says which of its locals are set. *)
PCLocals ==
    \A d \in Drainers :
        /\ pc[d] # "idle" => env[d] \in Envelopes
        /\ pc[d] \in {"idle", "gate", "expected"} =>
               tries[d] = 0 /\ cand[d] = NoRev /\ attempt[d] = NoRev
        /\ pc[d] \in {"swap", "reload"} => tries[d] < MaxAttempts
        /\ pc[d] \in Attempting \cup {"reload", "fetch"} => attempt[d] # NoRev /\ cand[d] # NoRev
        /\ pc[d] = "fold" /\ tries[d] > 0 => cand[d] # NoRev

PointerKnown == active \in 0..built /\ sink \subseteq 1..built

(* No revision of a drainer is ahead of the ids, and no two hold the same. *)
Owned ==
    /\ \A d \in Drainers : cand[d] \in 0..built /\ attempt[d] \in 0..built
    /\ \A c, d \in Drainers :
          c # d => \A r \in {cand[c], attempt[c]} \ {NoRev} : r \notin {cand[d], attempt[d]}

(* The deletion takes rows and pointer only from a tombstoned call. *)
DeletesTombstoned == dpc \in {"rows", "pointer", "search", "purge"} => tombstoned

(* An attempt is written before it is swapped. *)
WrittenFirst(d) == pc[d] \in {"swap", "reload"} => attempt[d] \in sink

(* What a drainer expects is a revision with rows, once the active one, and *)
(* none can be named while the pointer has never been set.                  *)
BaseKnown(d) ==
    /\ base[d] \in Maybe(sink)
    /\ active = NoRev => base[d] = NoRev
    /\ pc[d] = "reload" => active # NoRev
    /\ FactsAt(base[d]) \subseteq Held

(* An attempt is the envelope folded onto the revision the swap expects. *)
FoldedOntoBase(d) ==
    pc[d] \in Attempting => content[attempt[d]] = Fold(FactsAt(base[d]), env[d])

(* The frontier given to promote holds nothing but what the envelope and    *)
(* the revisions before it carried.                                         *)
BoundHeld(d) ==
    pc[d] \in Attempting \cup {"reload"} \/ (pc[d] = "fold" /\ tries[d] > 0)
        => bound[d] \subseteq Held \cup Adds[env[d]]

(* A revision of this drainer is active only if this drainer installed it,  *)
(* and the returned revision is one of its own.                             *)
OwnInstalled(d) ==
    /\ active \in {cand[d], attempt[d]} \ {NoRev} => env[d] \in applied
    /\ pc[d] \in {"fetch", "index", "upsert", "mark"} => env[d] \in applied
    /\ pc[d] = "check" => ret[d] # NoRev /\ ret[d] \in {cand[d], attempt[d]}

DrainerInv(d) ==
    /\ WrittenFirst(d)
    /\ BaseKnown(d)
    /\ FoldedOntoBase(d)
    /\ BoundHeld(d)
    /\ OwnInstalled(d)

(* An installed envelope is still in what the reader sees, an assembled one *)
(* was installed.                                                           *)
StoresInv ==
    /\ active \in Maybe(sink)
    /\ \A e \in applied : Adds[e] \subseteq Held
    /\ \A e \in Envelopes : estate[e] = "assembled" => e \in applied
    /\ frontier \subseteq Held

IInv ==
    /\ TypeOK
    /\ PCLocals
    /\ PointerKnown
    /\ Owned
    /\ DeletesTombstoned
    /\ NoConflictServed
    /\ ~tombstoned => StoresInv /\ \A d \in Drainers : DrainerInv(d)

(* A drainer that wrote rows, or is about to, and will still look at the    *)
(* tombstones; past its insert only if its rows were not taken since.       *)
Owes(d) ==
    /\ attempt[d] # NoRev
    /\ pc[d] \in Attempting \cup {"reload", "fold", "fetch", "check"}
    /\ pc[d] = "visible" => attempt[d] \in sink

(* Behind RowsErased: what is in ClickHouse after the deletion took the     *)
(* rows, some drainer still owes a look that takes it out again.            *)
EraseInv ==
    found /\ dpc \in {"pointer", "search", "purge", "done"} =>
        /\ tombstoned
        /\ sink # {} /\ ~torn => \E d \in Drainers : Owes(d)
=============================================================================
