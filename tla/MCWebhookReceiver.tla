--------------------------- MODULE MCWebhookReceiver ---------------------------
(* A world of events for WebhookReceiver.  Every event may be delivered any   *)
(* number of times, in any order, or never.                                   *)
EXTENDS WebhookReceiver, TLC

CONSTANTS w1, w2, p1, auth, void, capt, part, full, garbled, ping

Event(type, amount, at) ==
    [type |-> type, payment |-> p1, amount |-> amount, form |-> "ok", at |-> at]

\* One payment: authorised or failed (and stamped so after its capture),
\* captured, refunded in part and (more than is left) in full; a refund int()
\* cannot read; and an event the service does not handle.
World == [e \in EventIds |->
    CASE e = auth -> Event("payment.authorized", 2, 3)
      [] e = void -> Event("payment.failed", 2, 3)
      [] e = capt -> Event("payment.captured", 2, 2)
      [] e = part -> Event("refund.processed", 1, 3)
      [] e = full -> Event("refund.processed", 2, 3)
      [] e = garbled -> [Event("refund.processed", 1, 4) EXCEPT !.form = "malformed"]
      [] e = ping -> Event("other", 1, 4)]

Symmetry == Permutations(Workers)
=============================================================================
