------------------------------ MODULE MCOutbox ------------------------------
(* Small instances of Outbox: webhooks and an OTLP batch, of one or two      *)
(* tenants and calls.                                                       *)
EXTENDS Outbox, TLC

CONSTANTS e1, e2, b1, w1, w2, acme, beta, c1, c2

(* A webhook and an OTLP batch of one call. *)
MixedOrg == e1 :> acme @@ b1 :> acme
MixedCall == e1 :> c1 @@ b1 :> c1

(* Webhooks of two tenants. *)
TenantOrg == e1 :> acme @@ e2 :> beta
TenantCall == e1 :> c1 @@ e2 :> c2

WorkerSymmetry == Permutations({w1, w2})
=============================================================================
