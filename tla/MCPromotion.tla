---------------------------- MODULE MCPromotion ----------------------------
(* Small instances of Promotion.  One envelope carries a fact, one a fact   *)
(* that contradicts it, one a snapshot that withdraws what it does not hold. *)
EXTENDS PromotionInvariant, TLC

CONSTANTS e1, e2, e3, d1, d2

MCEnvelopes == {e1, e2, e3}
MCFacts == {"turn", "tool", "stage", "stage2"}
MCAdds == e1 :> {"turn", "stage"} @@ e2 :> {"tool"} @@ e3 :> {"stage2"}
MCDrops == e1 :> {} @@ e2 :> {"turn", "tool"} @@ e3 :> {}
MCClash == {<<"stage", "stage2">>, <<"stage2", "stage">>}

Processes == Permutations({d1, d2})

(* Two instances in one run: all three envelopes without a deletion, and a   *)
(* deletion against the first two, which is enough for it to meet a swap and *)
(* a rebase. *)
VARIABLE deleting

MCInit == Init /\ deleting \in BOOLEAN

MCNext ==
    /\ Next
    /\ IF deleting THEN \A d \in Drainers : env'[d] # e3 ELSE dpc' = dpc
    /\ UNCHANGED deleting

MCSpec == MCInit /\ [][MCNext]_<<vars, deleting>>
=============================================================================
