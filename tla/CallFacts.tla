----------------------------- MODULE CallFacts -----------------------------
(***************************************************************************)
(* What the drain promises about one call, whatever number of processes    *)
(* drain its envelopes: the facts a reader sees are those of a single      *)
(* register to which each envelope is applied atomically.  An envelope     *)
(* takes away the facts its snapshots and retractions withdraw and adds    *)
(* the facts it carries; it is acknowledged (marked assembled) only after  *)
(* it was applied; facts that contradict one another never become visible  *)
(* together; erasing the call is final.  Promotion implements this.        *)
(***************************************************************************)
CONSTANTS
    Envelopes,      \* the deliveries that carry facts of the call
    Facts,          \* the facts that can be observed of the call
    Adds,           \* Adds[e]: the facts envelope e carries
    Drops,          \* Drops[e]: the facts withdrawn by the snapshots and retractions of e
    Clash           \* pairs of facts with one identity and irreconcilable content

VARIABLES
    facts,          \* what a reader of the call sees
    applied,        \* the envelopes folded into it so far
    acked,          \* the envelopes reported as assembled
    erased          \* the call was deleted

callVars == <<facts, applied, acked, erased>>

(* The fold of one envelope onto what is known of the call. *)
Fold(prior, e) == (prior \ Drops[e]) \cup Adds[e]

(* Two facts with the same identity that neither a source revision orders  *)
(* nor a field fill reconciles.                                            *)
Conflicting(fs) == \E f, g \in fs : <<f, g>> \in Clash

CallInit ==
    /\ facts = {}
    /\ applied = {}
    /\ acked = {}
    /\ erased = FALSE

Apply(e) ==
    /\ ~erased
    /\ ~Conflicting(Fold(facts, e))
    /\ facts' = Fold(facts, e)
    /\ applied' = applied \cup {e}
    /\ UNCHANGED <<acked, erased>>

Acknowledge(e) ==
    /\ ~erased
    /\ e \in applied
    /\ acked' = acked \cup {e}
    /\ UNCHANGED <<facts, applied, erased>>

(* A replay asks for the envelope to be processed again. *)
Reopen(e) ==
    /\ acked' = acked \ {e}
    /\ UNCHANGED <<facts, applied, erased>>

Erase ==
    /\ ~erased
    /\ erased' = TRUE
    /\ facts' = {}
    /\ applied' = {}
    /\ acked' = {}

CallNext ==
    \/ Erase
    \/ \E e \in Envelopes : Apply(e) \/ Acknowledge(e) \/ Reopen(e)

CallSpec == CallInit /\ [][CallNext]_callVars
=============================================================================
