------------------------------ MODULE MCInbox -------------------------------
(* Small instances of Outbox, of Ingest and of SpanIdentity.  The three look *)
(* at one inbox from three sides and share no state here: a behaviour is    *)
(* about one of them.                                                      *)
EXTENDS Outbox, Ingest, SpanIdentity, TLC

CONSTANTS r1, r2, w1, w2, a, early, late, c1, c2, acme, beta, e1, e2, e3, f1, f2, s1, s2

VARIABLE side       \* what this behaviour is about

(* Two webhooks of one tenant and one of another, one worker. *)
BusyOrg == e1 :> acme @@ e2 :> acme @@ e3 :> beta
BusyCall == e1 :> c1 @@ e2 :> c1 @@ e3 :> c2

(* One webhook that arrives with two contents. *)
ToA == a :> c1
OfA == early :> a @@ late :> a

(* A span, the same span with other content, and a batch of two. *)
TraceBatches == {s1 :> f1, s1 :> f2, s1 :> f1 @@ s2 :> f1}

MCInit == Init /\ IngestInit /\ IdentityInit /\ side \in {"tenants", "bodies", "spans"}

MCNext ==
    \/ /\ side = "tenants" /\ Next
       /\ UNCHANGED <<side, ingestVars, identityVars>>
    \/ /\ side = "bodies" /\ IngestNext
       /\ UNCHANGED <<side, vars, identityVars>>
    \/ /\ side = "spans" /\ IdentityNext
       /\ UNCHANGED <<side, vars, ingestVars>>

MCSpec == MCInit /\ [][MCNext]_<<side, vars, ingestVars, identityVars>>
=============================================================================
