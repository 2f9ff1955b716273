--------------------------- MODULE CreditWebhook ---------------------------
(***************************************************************************)
(* applyCreditPackWebhook (sites/umbrella) over the billing package:       *)
(* deliveries of signed Stripe events, at least once and in any order, that*)
(* grant a purchase's credits, take them back when its charge was refunded,*)
(* or record that an operator must decide.  A grant is keyed by the id of  *)
(* its event, a reversal by the purchase: two completed events of one      *)
(* purchase grant it twice.  Signature, intent and charge checks read no   *)
(* state of the store and are passed; a delivery that stops before its last*)
(* statement answered nothing or 503, and Stripe redelivers the event.     *)
(*                                                                         *)
(* Members meanwhile spend by hosted calls, each a reservation that is     *)
(* charged or released (HostedCall has their steps).                       *)
(***************************************************************************)
EXTENDS CreditStore

CONSTANTS
  Intents,    \* credit-pack purchases
  EventIds,   \* ids Stripe gives its events
  Credits,    \* credits a pack grants
  Events,     \* bound: events Stripe may emit
  Deliveries, \* deliveries handled at the same time
  CallCost,   \* credits of a hosted call
  MaxFailures \* bound: deliveries cut short and hosted calls that fail

\* A completed checkout, a charge refunded in full, and a charge that an
\* operator must look at (refunded in part, or disputed).
Event == [id : EventIds, kind : {"completed", "refunded", "partial", "disputed"},
          intent : Intents]

ASSUME EventsAssumption ==
  Events \subseteq Event /\ \A e, f \in Events : e.id = f.id => e = f

GrantKey(e)  == <<"stripe-event", e.id>>
RefundKey(i) == <<"stripe-refund", i>>

ASSUME EventKeysAssumption ==
  /\ \A e \in Event : GrantKey(e) \in OtherKeys
  /\ \A i \in Intents : RefundKey(i) \in OtherKeys
ASSUME CreditsAssumption ==
  Credits \in 1..MaxBalance /\ CallCost \in 1..MaxBalance /\ MaxFailures \in Nat

VARIABLES
  records,  \* credit_reconciliation_records, by event
  paid,     \* events Stripe has emitted
  acked,    \* events answered with 200, which Stripe need not deliver again
  handler,  \* the deliveries under way, None when a slot is free
  failures  \* bound: failures so far

store == <<ledger, holds, records>>
vars  == <<store, paid, acked, handler, failures>>

Handler == [event : Event, at : {"lookup", "read", "decide", "append", "record"},
            view : Nat]

TypeOK ==
  /\ StoreTypeOK
  /\ records \subseteq Event
  /\ paid \subseteq Event
  /\ acked \subseteq paid
  /\ handler \in [Deliveries -> Handler \cup {None}]
  /\ failures \in 0..MaxFailures

Init ==
  /\ StoreInit
  /\ records = {} /\ paid = {} /\ acked = {}
  /\ handler = [d \in Deliveries |-> None]
  /\ failures = 0

-----------------------------------------------------------------------------
\* The keys of the grants a purchase may have, and whether the first n rows have
\* one of them: the reason of a grant names its purchase.
GrantsOf(i)    == {GrantKey(e) : e \in {f \in Events : f.kind = "completed" /\ f.intent = i}}
Anchored(i, n) == \E k \in GrantsOf(i) : RowOf(k, n) # {}

At(d, label) == handler[d] # None /\ handler[d].at = label

Continue(d, label) == handler' = [handler EXCEPT ![d].at = label]
Answer503(d) == handler' = [handler EXCEPT ![d] = None] /\ UNCHANGED acked
Answer200(d) ==
  /\ handler' = [handler EXCEPT ![d] = None]
  /\ acked' = acked \cup {handler[d].event}

\* A purchase completes; its charge may be refunded or disputed afterwards.
\* Stripe emits the events in this order and delivers them in any.
Emit ==
  /\ \E e \in Events \ paid :
       /\ e.kind # "completed" =>
            \E f \in paid : f.kind = "completed" /\ f.intent = e.intent
       /\ paid' = paid \cup {e}
  /\ UNCHANGED <<store, acked, handler, failures>>

\* An event is delivered, again after an answer that was lost, and while another
\* delivery of it is under way.  Only charge events look for a record first.
Deliver(d, e) ==
  /\ handler[d] = None
  /\ e \in paid
  /\ handler' = [handler EXCEPT ![d] =
       [event |-> e, view |-> 0,
        at |-> IF e.kind = "completed" THEN "read" ELSE "lookup"]]
  /\ UNCHANGED <<store, paid, acked, failures>>

\* Process death, or a statement that fails.
Die(d) ==
  /\ handler[d] # None
  /\ failures < MaxFailures
  /\ failures' = failures + 1
  /\ handler' = [handler EXCEPT ![d] = None]
  /\ UNCHANGED <<store, paid, acked>>

\* findReconciliation: a recorded event is answered from its record.
Lookup(d) ==
  /\ At(d, "lookup")
  /\ IF handler[d].event \in records
     THEN Answer200(d)
     ELSE /\ Continue(d, IF handler[d].event.kind = "refunded" THEN "read" ELSE "record")
          /\ UNCHANGED acked
  /\ UNCHANGED <<store, paid, failures>>

ReadLedger(d) ==
  /\ At(d, "read")
  /\ handler' = [handler EXCEPT ![d].at = "decide", ![d].view = Len(ledger)]
  /\ UNCHANGED <<store, paid, acked, failures>>

\* The movement an event asks for.
Key(e)   == IF e.kind = "completed" THEN GrantKey(e) ELSE RefundKey(e.intent)
Delta(e) == IF e.kind = "completed" THEN Credits ELSE -Credits

\* Mutants of DecideMovement: the original grant is not looked for; a refund of
\* spent credits is refused instead of going on record.
DecideUnanchored(d) ==
  /\ At(d, "decide")
  /\ LET e        == handler[d].event
         decision == Decide(Key(e), Delta(e), handler[d].view)
     IN \/ decision = "replay" /\ Answer200(d)
        \/ decision = "append" /\ Continue(d, "append") /\ UNCHANGED acked
        \/ decision = "insufficient" /\ Continue(d, "record") /\ UNCHANGED acked
  /\ UNCHANGED <<store, paid, failures>>

DecideUnrecorded(d) ==
  /\ At(d, "decide")
  /\ LET e        == handler[d].event
         decision == Decide(Key(e), Delta(e), handler[d].view)
         anchored == Anchored(e.intent, handler[d].view)
     IN IF (e.kind = "refunded" /\ ~anchored) \/ decision \in {"conflict", "insufficient"}
        THEN Answer503(d)
        ELSE \/ decision = "replay" /\ Answer200(d)
             \/ decision = "append" /\ Continue(d, "append") /\ UNCHANGED acked
  /\ UNCHANGED <<store, paid, failures>>

\* applyCheckoutCompletedGrant and applyCreditPackRefund on the ledger as read.
\* A refund needs a grant of its intent; spent credits go on record.
DecideMovement(d) ==
  /\ At(d, "decide")
  /\ LET e        == handler[d].event
         decision == Decide(Key(e), Delta(e), handler[d].view)
         anchored == Anchored(e.intent, handler[d].view)
         refused  == \/ e.kind = "refunded" /\ ~anchored
                     \/ e.kind = "completed" /\ decision = "insufficient"
                     \/ decision = "conflict"
     IN IF refused
        THEN Answer503(d)
        ELSE \/ decision = "replay" /\ Answer200(d)
             \/ decision = "append" /\ Continue(d, "append") /\ UNCHANGED acked
             \/ decision = "insufficient" /\ Continue(d, "record") /\ UNCHANGED acked
  /\ UNCHANGED <<store, paid, failures>>

Requested(d) ==
  Extending(Key(handler[d].event), Delta(handler[d].event), handler[d].view)

\* Mutant of AppendMovement: the event is answered before the row is confirmed.
AppendUnconfirmed(d) ==
  /\ At(d, "append")
  /\ AppendOrReplay(Requested(d))
  /\ Answer200(d)
  /\ UNCHANGED <<holds, records, paid, failures>>

\* persistCheckoutCompletedGrant and persistCreditPackRefund.
AppendMovement(d) ==
  /\ At(d, "append")
  /\ AppendOrReplay(Requested(d))
  /\ IF AppendAnswer(Requested(d)) = "failed" THEN Answer503(d) ELSE Answer200(d)
  /\ UNCHANGED <<holds, records, paid, failures>>

\* appendOrReplayReconciliation.
Record(d) ==
  /\ At(d, "record")
  /\ records' = records \cup {handler[d].event}
  /\ Answer200(d)
  /\ UNCHANGED <<ledger, holds, paid, failures>>

-----------------------------------------------------------------------------
\* Hosted calls, from outside: credits are reserved, then charged or given back.
ReserveCall(k) ==
  /\ ReserveAnswer(k, CallCost) = "acquired"
  /\ SetHold(k, [amount |-> CallCost, status |-> "pending"])
  /\ UNCHANGED <<ledger, records, paid, acked, handler, failures>>

ChargeCall(k) ==
  /\ SaveAccepted(k, CallCost)
  /\ SetHold(k, [amount |-> CallCost, status |-> "completed"])
  /\ ledger' = Append(ledger, Extending(k, -CallCost, Len(ledger)))
  /\ UNCHANGED <<records, paid, acked, handler, failures>>

ReleaseCall(k) ==
  /\ ReleaseAccepted(k, CallCost)
  /\ failures < MaxFailures
  /\ failures' = failures + 1
  /\ SetHold(k, None)
  /\ UNCHANGED <<ledger, records, paid, acked, handler>>

Handle(d) ==
  \/ Lookup(d) \/ ReadLedger(d) \/ DecideMovement(d)
  \/ AppendMovement(d) \/ Record(d)

Next ==
  \/ Emit
  \/ \E d \in Deliveries, e \in Events : Deliver(d, e)
  \/ \E d \in Deliveries : Handle(d) \/ Die(d)
  \/ \E k \in UsageKeys : ReserveCall(k) \/ ChargeCall(k) \/ ReleaseCall(k)

Spec == Init /\ [][Next]_vars

-----------------------------------------------------------------------------
\* An event Stripe will not deliver again has its effect in the database: a
\* grant for a completed checkout, a reversal or a record for a refunded
\* charge, a record for one refunded in part or disputed.
AckedIsDurable ==
  \A e \in acked :
    CASE e.kind = "completed" -> Committed(GrantKey(e))
      [] e.kind = "refunded"  -> Committed(RefundKey(e.intent)) \/ e \in records
      [] e.kind \in {"partial", "disputed"} -> e \in records

\* Credits are taken back for a purchase only behind a grant of that purchase,
\* whatever order its events arrive in.
RefundFollowsGrant ==
  \A i \in Intents :
    Committed(RefundKey(i)) =>
      \E g, r \in 1..Len(ledger) :
        g < r /\ ledger[g].key \in GrantsOf(i) /\ ledger[r].key = RefundKey(i)

\* docs/auth-credits.md: a refund recorded as spent is never turned into a
\* reversal by a later top-up.
RecordedStaysRecorded ==
  [][\A e \in Events :
       e.kind = "refunded" /\ e \in records /\ ~Committed(RefundKey(e.intent))
         => ~Committed(RefundKey(e.intent))']_vars

\* However often and in whatever order the events are delivered, a completed
\* event grants once, and a purchase is taken back at most once however many
\* refunds of it arrive, out of credits that are free: see CreditAccount.  That
\* a purchase is granted once is Stripe's to keep: nothing here refuses a second
\* completed event of it.
PackMoves ==
  {[key |-> GrantKey(e), delta |-> Credits] : e \in Event}
    \cup {[key |-> RefundKey(i), delta |-> -Credits] : i \in Intents}

Account == INSTANCE CreditAccount WITH
  free    <- Free,
  promise <- [k \in UsageKeys |-> PromiseTo(k)],
  moved   <- Moved,
  Moves   <- PackMoves

ImplementsAccount == Account!Spec

-----------------------------------------------------------------------------
\* Stripe redelivers an event until it is acknowledged.
Redeliver(e) ==
  e \notin acked /\ \E d \in Deliveries : Deliver(d, e)

FairSpec ==
  /\ Spec
  /\ \A d \in Deliveries : WF_vars(Handle(d))
  /\ \A e \in Events : SF_vars(Redeliver(e))

\* Every event is acknowledged in the end: no order of deliveries, lost answer
\* or spent balance leaves one retried for ever.  A reservation that is never
\* settled does: it keeps the reversal out of the ledger and off the record.
EventsSettle ==
  \/ []<>(acked = paid)
  \/ <>[](\E k \in UsageKeys : Held(k, CallCost, {"pending"}))
=============================================================================
