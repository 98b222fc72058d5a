------------------------------ MODULE MCWebhooks ------------------------------
(* Events of one business; an endpoint of it that takes them all, one that     *)
(* takes only payments, and an endpoint of another business.                   *)
EXTENDS WebhookDispatcher, TLC

CONSTANTS e1, e2, all, paid, other, w1, w2, b1, b2

Owners == e1 :> b1 @@ e2 :> b1
Types == e1 :> "invoice.created" @@ e2 :> "invoice.paid"
EndpointOwners == all :> b1 @@ paid :> b1 @@ other :> b2
Filters == all :> {} @@ paid :> {"invoice.paid"} @@ other :> {}
=============================================================================
