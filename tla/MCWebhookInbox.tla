---------------------------- MODULE MCWebhookInbox ----------------------------
(* Instances of WebhookInbox for TLC. e1 and e2 share a key: the second is a
   redelivery under the same X-Request-Id, or has the same body. *)
EXTENDS WebhookInbox, TLC
CONSTANTS e1, e2, e3, k1, k2
SharedKey == (e1 :> k1) @@ (e2 :> k1) @@ (e3 :> k2)
=============================================================================
