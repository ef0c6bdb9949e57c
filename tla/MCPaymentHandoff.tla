-------------------------- MODULE MCPaymentHandoff --------------------------
(***************************************************************************)
(* A hosted payment of which the provider reports a posting and its later  *)
(* reversal, by webhooks that may be delivered in any order.               *)
(***************************************************************************)
EXTENDS PaymentHandoff

MCEvidence ==
  {[id |-> "posted", source |-> "provider_webhook", verdict |-> "confirmed", revision |-> 1],
   [id |-> "reversed", source |-> "provider_webhook", verdict |-> "failed", revision |-> 2]}
=============================================================================
