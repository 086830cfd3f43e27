--------------------------- MODULE MCWebhookDelivery ---------------------------
(* Small instances of WebhookDelivery for TLC.                             *)
EXTENDS WebhookDelivery, TLC

Symmetry == Permutations(Webhooks) \cup Permutations(Firings)
================================================================================
