-------------------------- MODULE MCCreditWebhook --------------------------
\* Instances of CreditWebhook for TLC.
EXTENDS CreditWebhook

CONSTANTS i1, i2

MCOtherKeys == {GrantKey(e) : e \in Event} \cup {RefundKey(i) : i \in Intents}

\* A purchase that completes under two event ids and is refunded, and another
\* purchase that tops the account up.
MCEvents ==
  {[id |-> 1, kind |-> "completed", intent |-> i1],
   [id |-> 2, kind |-> "completed", intent |-> i1],
   [id |-> 3, kind |-> "refunded",  intent |-> i1],
   [id |-> 4, kind |-> "completed", intent |-> i2]}

\* A purchase refunded and disputed, while another tops the account up.
MCRefundEvents ==
  {[id |-> 1, kind |-> "completed", intent |-> i1],
   [id |-> 2, kind |-> "refunded",  intent |-> i1],
   [id |-> 3, kind |-> "disputed",  intent |-> i1],
   [id |-> 4, kind |-> "completed", intent |-> i2]}
=============================================================================
