------------------------ MODULE CreditWebhookProofs ------------------------
(***************************************************************************)
(* Theorems about CreditWebhook, for any purchases, deliveries, hosted     *)
(* calls, prices and balances.                                             *)
(*                                                                         *)
(* The ledger only grows, so whatever a delivery concluded from the part   *)
(* it read, that a row is there, is still so when it acts.  The balances   *)
(* are of no account there: rows are typed without their bounds.  That they*)
(* keep them, and so TypeOK, needs the credits held to be covered, and that*)
(* is part of why the rows implement an account.                           *)
(***************************************************************************)
EXTENDS CreditWebhook, CreditStoreProofs

LooseRow == [key : Keys, delta : Int, sequence : Int, balanceAfter : Int]

Typed ==
  /\ ledger \in Seq(LooseRow)
  /\ records \subseteq Event /\ paid \subseteq Event /\ acked \subseteq Event
  /\ handler \in [Deliveries -> Handler \cup {None}]

\* The keys of the ledger.
Stored == {ledger[i].key : i \in 1..Len(ledger)}

\* The keys hold a grant of a purchase.
Granted(i, keys) == \E k \in GrantsOf(i) : k \in keys

\* What a delivery knows at each of its statements.
Knows(h, n, keys) ==
  /\ h.view \in 0..n
  /\ h.at \in {"lookup", "record"} => h.event.kind # "completed"
  /\ h.at \in {"read", "decide", "append"} => h.event.kind \in {"completed", "refunded"}
  /\ h.at = "append" /\ h.event.kind = "refunded" => Granted(h.event.intent, keys)

HandlerOK ==
  \A d \in Deliveries : handler[d] # None => Knows(handler[d], Len(ledger), Stored)

\* What was acknowledged has its effect.
HasEffect(e, keys, recorded) ==
  CASE e.kind = "completed" -> GrantKey(e) \in keys
    [] e.kind = "refunded"  -> RefundKey(e.intent) \in keys \/ e \in recorded
    [] e.kind \in {"partial", "disputed"} -> e \in recorded

AckedOK == \A e \in acked : HasEffect(e, Stored, records)

FollowOK ==
  \A i \in Intents :
    RefundKey(i) \in Stored =>
      \E g, r \in 1..Len(ledger) :
        g < r /\ ledger[g].key \in GrantsOf(i) /\ ledger[r].key = RefundKey(i)

IInv == Typed /\ HandlerOK /\ AckedOK /\ FollowOK

-----------------------------------------------------------------------------
(* The ledger.                                                             *)

LEMMA CommittedIsStored ==
  ASSUME NEW k
  PROVE  Committed(k) <=> k \in Stored
BY DEF Committed, RowOf, Stored

LEMMA Appended ==
  ASSUME ledger \in Seq(LooseRow), NEW row \in LooseRow, ledger' = Append(ledger, row)
  PROVE  /\ ledger' \in Seq(LooseRow)
         /\ Len(ledger) \in Nat /\ Len(ledger') = Len(ledger) + 1
         /\ \A i \in 1..Len(ledger) : ledger'[i] = ledger[i]
         /\ ledger'[Len(ledger) + 1] = row
         /\ Stored' = Stored \cup {row.key}
<1>1. /\ Len(ledger) \in Nat /\ Len(ledger') = Len(ledger) + 1
      /\ \A i \in 1..Len(ledger) : ledger'[i] = ledger[i]
      /\ ledger'[Len(ledger) + 1] = row
      /\ ledger' \in Seq(LooseRow)
  OBVIOUS
<1>2. 1..Len(ledger') = 1..Len(ledger) \cup {Len(ledger) + 1}
  BY <1>1
<1>3. Stored' = Stored \cup {row.key}
  BY <1>1, <1>2 DEF Stored
<1> QED
  BY <1>1, <1>3

\* A row keeps refunds behind their grants unless it is a refund without one.
LEMMA AppendedFollows ==
  ASSUME ledger \in Seq(LooseRow), NEW row \in LooseRow, ledger' = Append(ledger, row),
         FollowOK, \A i \in Intents : row.key = RefundKey(i) => Granted(i, Stored)
  PROVE  FollowOK'
<1> DEFINE n == Len(ledger)
<1>1. /\ n \in Nat /\ Len(ledger') = n + 1 /\ ledger'[n + 1] = row
      /\ \A i \in 1..n : ledger'[i] = ledger[i]
      /\ Stored' = Stored \cup {row.key}
  BY Appended
<1>2. SUFFICES ASSUME NEW i \in Intents, RefundKey(i) \in Stored \cup {row.key}
               PROVE  \E g, r \in 1..(n + 1) :
                        g < r /\ ledger'[g].key \in GrantsOf(i) /\ ledger'[r].key = RefundKey(i)
  BY <1>1 DEF FollowOK
<1>3. CASE RefundKey(i) \in Stored
  <2>1. PICK g, r \in 1..n :
          g < r /\ ledger[g].key \in GrantsOf(i) /\ ledger[r].key = RefundKey(i)
    BY <1>3 DEF FollowOK
  <2>2. g \in 1..(n + 1) /\ r \in 1..(n + 1)
    BY <1>1
  <2> QED
    BY <1>1, <2>1, <2>2
<1>4. CASE row.key = RefundKey(i)
  <2>1. PICK g \in 1..n : ledger[g].key \in GrantsOf(i)
    BY <1>4 DEF Stored, Granted
  <2>2. g \in 1..(n + 1) /\ n + 1 \in 1..(n + 1) /\ g < n + 1
    BY <1>1
  <2> QED
    BY <1>1, <1>4, <2>1, <2>2
<1> QED
  BY <1>1, <1>2, <1>3, <1>4

\* A row among the first n is in the ledger.
LEMMA SeenIsStored ==
  ASSUME ledger \in Seq(LooseRow), NEW n \in 0..Len(ledger), NEW k, RowOf(k, n) # {}
  PROVE  k \in Stored
<1>1. PICK i \in 1..n : ledger[i].key = k
  BY DEF RowOf
<1>2. i \in 1..Len(ledger)
  OBVIOUS
<1> QED
  BY <1>1, <1>2 DEF Stored

\* The row a delivery or a call asks for.
LEMMA ExtendingType ==
  ASSUME ledger \in Seq(LooseRow), NEW n \in 0..Len(ledger), NEW key \in Keys,
         NEW delta \in Int
  PROVE  Extending(key, delta, n) \in LooseRow /\ Extending(key, delta, n).key = key
<1>1. n = 0 \/ n \in 1..Len(ledger)
  OBVIOUS
<1>2. BalanceAt(n) \in Int
  <2>1. CASE n = 0
    BY <2>1 DEF BalanceAt
  <2>2. CASE n # 0
    <3>1. ledger[n] \in LooseRow
      BY <1>1, <2>2
    <3> QED
      BY <2>2, <3>1 DEF BalanceAt, LooseRow
  <2> QED
    BY <2>1, <2>2
<1> QED
  BY <1>2 DEF Extending, LooseRow

\* The keys of purchases are not those of calls, nor those of each other.
LEMMA KeysApart ==
  ASSUME NEW e \in Event
  PROVE  /\ Key(e) \in Keys /\ Delta(e) \in Int
         /\ \A i \in Intents : Key(e) = RefundKey(i) => e.kind # "completed" /\ e.intent = i
BY EventKeysAssumption, CreditsAssumption, BalanceAssumption
   DEF Key, Delta, Keys, Event, GrantKey, RefundKey

-----------------------------------------------------------------------------
(* The steps.                                                              *)

LEMMA InitInv == Init => IInv
<1> SUFFICES ASSUME Init PROVE IInv
  OBVIOUS
<1>1. Stored = {}
  BY DEF Init, StoreInit, Stored
<1> QED
  BY <1>1 DEF Init, StoreInit, IInv, Typed, HandlerOK, AckedOK, FollowOK

\* More rows and more records take nothing from what is known or acknowledged.
LEMMA KnowsMore ==
  ASSUME NEW n \in Nat, NEW m \in Nat, n <= m, NEW keys, NEW more, keys \subseteq more
  PROVE  /\ \A h : Knows(h, n, keys) => Knows(h, m, more)
         /\ \A e \in Event : \A r, s : r \subseteq s /\ HasEffect(e, keys, r) => HasEffect(e, more, s)
<1>1. ASSUME NEW h, Knows(h, n, keys) PROVE Knows(h, m, more)
  BY <1>1 DEF Knows, Granted
<1>2. ASSUME NEW e \in Event, NEW r, NEW s, r \subseteq s, HasEffect(e, keys, r)
      PROVE  HasEffect(e, more, s)
  <2>1. CASE e.kind = "completed"
    BY <1>2, <2>1 DEF HasEffect
  <2>2. CASE e.kind = "refunded"
    BY <1>2, <2>2 DEF HasEffect
  <2>3. CASE e.kind \in {"partial", "disputed"}
    BY <1>2, <2>3 DEF HasEffect
  <2> QED
    BY <2>1, <2>2, <2>3 DEF Event
<1> QED
  BY <1>1, <1>2

\* A step of one delivery that appends nothing, or a row that refunds no
\* purchase without a grant, and acknowledges only what then has its effect.
LEMMA Moves ==
  ASSUME IInv, NEW d \in Deliveries,
         \/ UNCHANGED ledger
         \/ \E row \in LooseRow :
              /\ ledger' = Append(ledger, row)
              /\ \A i \in Intents : row.key = RefundKey(i) => Granted(i, Stored),
         records \subseteq records', records' \subseteq Event, paid' \subseteq Event,
         acked' \subseteq Event, handler' \in [Deliveries -> Handler \cup {None}],
         \A o \in Deliveries \ {d} : handler'[o] = handler[o],
         handler'[d] # None => Knows(handler'[d], Len(ledger'), Stored'),
         \A e \in acked' \ acked : HasEffect(e, Stored', records')
  PROVE  IInv'
<1>1. /\ ledger' \in Seq(LooseRow) /\ FollowOK' /\ Stored \subseteq Stored'
      /\ Len(ledger) \in Nat /\ Len(ledger') \in Nat /\ Len(ledger) <= Len(ledger')
  <2>1. CASE UNCHANGED ledger
    BY <2>1 DEF IInv, Typed, FollowOK, Stored
  <2>2. ASSUME NEW row \in LooseRow, ledger' = Append(ledger, row),
               \A i \in Intents : row.key = RefundKey(i) => Granted(i, Stored)
        PROVE  /\ ledger' \in Seq(LooseRow) /\ FollowOK' /\ Stored \subseteq Stored'
               /\ Len(ledger) \in Nat /\ Len(ledger') = Len(ledger) + 1
    BY <2>2, Appended, AppendedFollows DEF IInv, Typed
  <2> QED
    BY <2>1, <2>2
<1>2. Typed'
  BY <1>1 DEF Typed
<1>3. \A h : Knows(h, Len(ledger), Stored) => Knows(h, Len(ledger'), Stored')
  BY <1>1, KnowsMore
<1>4. HandlerOK'
  BY <1>3 DEF IInv, HandlerOK
<1>5. \A e \in Event : HasEffect(e, Stored, records) => HasEffect(e, Stored', records')
  BY <1>1, KnowsMore
<1>6. AckedOK'
  BY <1>5 DEF IInv, Typed, AckedOK
<1> QED
  BY <1>1, <1>2, <1>4, <1>6 DEF IInv

\* A delivery under way.
LEMMA UnderWay ==
  ASSUME IInv, NEW d \in Deliveries, handler[d] # None
  PROVE  /\ handler[d] \in Handler /\ handler[d].event \in Event
         /\ Knows(handler[d], Len(ledger), Stored)
BY DEF IInv, Typed, HandlerOK, Handler

\* A delivery that is answered, by 503 or, when its event has its effect, by 200.
LEMMA Answered ==
  ASSUME IInv, NEW d \in Deliveries, handler[d] # None,
         \/ UNCHANGED ledger
         \/ \E row \in LooseRow :
              /\ ledger' = Append(ledger, row)
              /\ \A i \in Intents : row.key = RefundKey(i) => Granted(i, Stored),
         records \subseteq records', records' \subseteq Event, UNCHANGED paid,
         \/ Answer503(d)
         \/ Answer200(d) /\ HasEffect(handler[d].event, Stored', records')
  PROVE  IInv'
<1>1. handler[d].event \in Event
  BY UnderWay
<1>2. /\ handler' \in [Deliveries -> Handler \cup {None}] /\ handler'[d] = None
      /\ \A o \in Deliveries \ {d} : handler'[o] = handler[o]
      /\ acked' \subseteq acked \cup {handler[d].event}
      /\ acked' = acked \/ HasEffect(handler[d].event, Stored', records')
  BY DEF Answer503, Answer200, IInv, Typed
<1>3. paid' \subseteq Event /\ acked' \subseteq Event
  BY <1>1, <1>2 DEF IInv, Typed
<1>4. \A e \in acked' \ acked : HasEffect(e, Stored', records')
  BY <1>2
<1> QED
  BY <1>2, <1>3, <1>4, Moves

\* A delivery that goes on to its next statement.
LEMMA GoesOn ==
  ASSUME IInv, NEW d \in Deliveries, UNCHANGED <<ledger, records, paid, acked>>,
         NEW h \in Handler, Knows(h, Len(ledger), Stored),
         handler' = [handler EXCEPT ![d] = h]
  PROVE  IInv'
<1>1. /\ handler' \in [Deliveries -> Handler \cup {None}] /\ handler'[d] = h
      /\ \A o \in Deliveries \ {d} : handler'[o] = handler[o]
  BY DEF IInv, Typed
<1>2. Stored' = Stored
  BY DEF Stored
<1>3. /\ records \subseteq records' /\ records' \subseteq Event /\ paid' \subseteq Event
      /\ acked' \subseteq Event /\ acked' \ acked = {}
  BY DEF IInv, Typed
<1> QED
  BY <1>1, <1>2, <1>3, Moves

LEMMA DeliverInv ==
  ASSUME IInv, NEW d \in Deliveries, NEW e \in Events, Deliver(d, e)
  PROVE  IInv'
<1>1. /\ e \in Event
      /\ handler' = [handler EXCEPT ![d] =
           [event |-> e, view |-> 0,
            at |-> IF e.kind = "completed" THEN "read" ELSE "lookup"]]
  BY EventsAssumption DEF Deliver
<1> DEFINE h == [event |-> e, view |-> 0,
                 at |-> IF e.kind = "completed" THEN "read" ELSE "lookup"]
<1>2. h \in Handler /\ 0 \in 0..Len(ledger)
  BY <1>1 DEF IInv, Typed, Handler
<1>3. Knows(h, Len(ledger), Stored)
  BY <1>2 DEF Knows
<1> HIDE DEF h
<1>4. handler' = [handler EXCEPT ![d] = h]
  BY <1>1 DEF h
<1> QED
  BY <1>2, <1>3, <1>4, GoesOn DEF Deliver, store

LEMMA LookupInv ==
  ASSUME IInv, NEW d \in Deliveries, Lookup(d)
  PROVE  IInv'
<1> DEFINE e == handler[d].event
<1>1. /\ handler[d] # None /\ handler[d].at = "lookup" /\ handler[d] \in Handler
      /\ e \in Event /\ Knows(handler[d], Len(ledger), Stored)
  BY UnderWay DEF Lookup, At
<1>2. /\ UNCHANGED <<ledger, records, paid>>
      /\ records \subseteq records' /\ records' \subseteq Event
  BY DEF Lookup, store, IInv, Typed
<1>3. CASE e \in records
  <2>1. HasEffect(e, Stored', records')
    BY <1>1, <1>2, <1>3 DEF HasEffect, Knows, Event
  <2>2. Answer200(d)
    BY <1>3 DEF Lookup
  <2> QED
    BY <1>1, <1>2, <2>1, <2>2, Answered
<1>4. CASE e \notin records
  <2> DEFINE h == [handler[d] EXCEPT !.at = IF e.kind = "refunded" THEN "read" ELSE "record"]
  <2>1. handler' = [handler EXCEPT ![d] = h] /\ UNCHANGED acked
    BY <1>4 DEF Lookup, Continue
  <2>2. h \in Handler /\ Knows(h, Len(ledger), Stored)
    BY <1>1 DEF Handler, Knows
  <2> HIDE DEF h
  <2> QED
    BY <1>2, <2>1, <2>2, GoesOn
<1> QED
  BY <1>3, <1>4

LEMMA ReadInv ==
  ASSUME IInv, NEW d \in Deliveries, ReadLedger(d)
  PROVE  IInv'
<1> DEFINE h == [handler[d] EXCEPT !.at = "decide", !.view = Len(ledger)]
<1>1. /\ handler[d].at = "read" /\ handler[d] \in Handler
      /\ Knows(handler[d], Len(ledger), Stored)
  BY UnderWay DEF ReadLedger, At
<1>2. Len(ledger) \in Nat
  BY DEF IInv, Typed
<1>3. h \in Handler
  BY <1>1, <1>2 DEF Handler
<1>4. /\ h.at = "decide" /\ h.view = Len(ledger) /\ h.event = handler[d].event
      /\ Len(ledger) \in 0..Len(ledger)
  BY <1>1, <1>2 DEF Handler
<1>5. Knows(h, Len(ledger), Stored)
  BY <1>1, <1>4 DEF Knows
<1>6. handler' = [handler EXCEPT ![d] = h]
  BY DEF ReadLedger
<1> HIDE DEF h
<1> QED
  BY <1>3, <1>5, <1>6, GoesOn DEF ReadLedger, store

\* A replay is of a row that is there; a refund goes on where its grant is.
LEMMA DecideInv ==
  ASSUME IInv, NEW d \in Deliveries, DecideMovement(d)
  PROVE  IInv'
<1> DEFINE e        == handler[d].event
           n        == handler[d].view
           decision == Decide(Key(e), Delta(e), n)
           anchored == Anchored(e.intent, n)
<1>1. /\ handler[d] # None /\ handler[d].at = "decide" /\ handler[d] \in Handler
      /\ e \in Event /\ Knows(handler[d], Len(ledger), Stored)
      /\ n \in 0..Len(ledger) /\ e.kind \in {"completed", "refunded"}
  BY UnderWay DEF DecideMovement, At, Knows, Event
<1>2. /\ UNCHANGED <<ledger, records, paid>>
      /\ records \subseteq records' /\ records' \subseteq Event
  BY DEF DecideMovement, store, IInv, Typed
<1>3. anchored => Granted(e.intent, Stored)
  BY <1>1, SeenIsStored DEF IInv, Typed, Anchored, Granted
<1>4. decision = "replay" => Key(e) \in Stored
  <2>1. decision = "replay" => RowOf(Key(e), n) # {}
    BY DEF Decide
  <2> QED
    BY <1>1, <2>1, SeenIsStored DEF IInv, Typed
<1>5. \/ Answer503(d)
      \/ decision = "replay" /\ Answer200(d)
      \/ /\ decision = "append" /\ Continue(d, "append") /\ UNCHANGED acked
         /\ e.kind = "refunded" => anchored
      \/ /\ Continue(d, "record") /\ UNCHANGED acked
         /\ e.kind # "completed"
  BY DEF DecideMovement
<1> HIDE DEF decision, anchored, n
<1>6. CASE Answer503(d)
  BY <1>1, <1>2, <1>6, Answered
<1>7. CASE decision = "replay" /\ Answer200(d)
  <2>1. Stored' = Stored
    BY <1>2 DEF Stored
  <2>2. HasEffect(e, Stored', records')
    BY <1>1, <1>4, <1>7, <2>1 DEF HasEffect, Key
  <2> QED
    BY <1>1, <1>2, <1>7, <2>2, Answered
<1>8. ASSUME NEW label \in {"append", "record"}, Continue(d, label), UNCHANGED acked,
             label = "append" /\ e.kind = "refunded" => Granted(e.intent, Stored),
             label = "record" => e.kind # "completed"
      PROVE  IInv'
  <2> DEFINE h == [handler[d] EXCEPT !.at = label]
  <2>1. h \in Handler /\ Knows(h, Len(ledger), Stored)
    BY <1>1, <1>8 DEF Handler, Knows
  <2>2. handler' = [handler EXCEPT ![d] = h]
    BY <1>8 DEF Continue
  <2> HIDE DEF h
  <2> QED
    BY <1>2, <1>8, <2>1, <2>2, GoesOn
<1> QED
  BY <1>3, <1>5, <1>6, <1>7, <1>8

\* What persistCheckoutCompletedGrant and persistCreditPackRefund confirm is there.
LEMMA AppendInv ==
  ASSUME IInv, NEW d \in Deliveries, AppendMovement(d)
  PROVE  IInv'
<1> DEFINE e   == handler[d].event
           row == Extending(Key(e), Delta(e), handler[d].view)
<1>1. /\ handler[d] # None /\ handler[d].at = "append" /\ e \in Event
      /\ Knows(handler[d], Len(ledger), Stored)
      /\ handler[d].view \in 0..Len(ledger) /\ e.kind \in {"completed", "refunded"}
      /\ e.kind = "refunded" => Granted(e.intent, Stored)
  BY UnderWay DEF AppendMovement, At, Knows, Event
<1>2. /\ UNCHANGED <<records, paid>> /\ records \subseteq records' /\ records' \subseteq Event
  BY DEF AppendMovement, IInv, Typed
<1>3. /\ Key(e) \in Keys /\ Delta(e) \in Int
      /\ \A i \in Intents : Key(e) = RefundKey(i) => Granted(i, Stored)
  BY <1>1, KeysApart DEF Event
<1>4. row \in LooseRow /\ row.key = Key(e)
  BY <1>1, <1>3, ExtendingType DEF IInv, Typed
<1>5. /\ AppendOrReplay(row)
      /\ IF AppendAnswer(row) = "failed" THEN Answer503(d) ELSE Answer200(d)
  BY DEF AppendMovement, Requested
<1> HIDE DEF row
<1>6. \/ UNCHANGED ledger
      \/ /\ ledger' = Append(ledger, row)
         /\ \A i \in Intents : row.key = RefundKey(i) => Granted(i, Stored)
  BY <1>3, <1>4, <1>5 DEF AppendOrReplay
<1>7. AppendAnswer(row) # "failed" => Key(e) \in Stored'
  <2>1. CASE AppendAnswer(row) = "appended"
    <3>1. ledger' = Append(ledger, row)
      BY <1>5, <2>1 DEF AppendOrReplay
    <3> QED
      BY <1>4, <3>1, Appended DEF IInv, Typed
  <2>2. CASE AppendAnswer(row) = "replayed"
    <3>1. ledger' = ledger
      BY <1>5, <2>2 DEF AppendOrReplay
    <3>2. Committed(row.key)
      BY <2>2 DEF AppendAnswer
    <3>3. row.key \in Stored /\ Stored' = Stored
      BY <3>1, <3>2, CommittedIsStored DEF Stored
    <3> QED
      BY <1>4, <3>3
  <2> QED
    BY <2>1, <2>2 DEF AppendAnswer
<1>8. \/ Answer503(d)
      \/ Answer200(d) /\ HasEffect(e, Stored', records')
  BY <1>1, <1>5, <1>7 DEF HasEffect, Key
<1> QED
  BY <1>1, <1>2, <1>4, <1>6, <1>8, Answered

LEMMA RecordInv ==
  ASSUME IInv, NEW d \in Deliveries, Record(d)
  PROVE  IInv'
<1> DEFINE e == handler[d].event
<1>1. /\ handler[d] # None /\ e \in Event /\ e.kind # "completed"
  BY UnderWay DEF Record, At, Knows
<1>2. /\ UNCHANGED <<ledger, paid>> /\ Answer200(d)
      /\ records \subseteq records' /\ records' \subseteq Event /\ e \in records'
  BY <1>1 DEF Record, IInv, Typed
<1>3. HasEffect(e, Stored', records')
  BY <1>1, <1>2 DEF HasEffect, Event
<1> QED
  BY <1>1, <1>2, <1>3, Answered

LEMMA DieInv ==
  ASSUME IInv, NEW d \in Deliveries, Die(d)
  PROVE  IInv'
<1>1. records \subseteq records' /\ records' \subseteq Event
  BY DEF Die, store, IInv, Typed
<1> QED
  BY <1>1, Answered DEF Die, Answer503, store

\* A hosted call appends under its own key, which no refund has.
LEMMA CallInv ==
  ASSUME IInv, NEW k \in UsageKeys, ReserveCall(k) \/ ChargeCall(k) \/ ReleaseCall(k)
  PROVE  IInv'
<1>1. UNCHANGED <<records, paid, acked, handler>>
  BY DEF ReserveCall, ChargeCall, ReleaseCall
<1>2. CASE UNCHANGED ledger
  BY <1>1, <1>2 DEF IInv, Typed, HandlerOK, AckedOK, FollowOK, Stored
<1>3. CASE ChargeCall(k)
  <2> DEFINE row == Extending(k, -CallCost, Len(ledger))
  <2>1. ledger' = Append(ledger, row)
    BY <1>3 DEF ChargeCall
  <2>2. Len(ledger) \in 0..Len(ledger) /\ k \in Keys /\ -CallCost \in Int
    BY CreditsAssumption, BalanceAssumption DEF IInv, Typed, Keys
  <2>3. row \in LooseRow /\ row.key = k
    BY <2>2, ExtendingType DEF IInv, Typed
  <2>4. \A i \in Intents : row.key # RefundKey(i)
    BY <2>3, KeysAssumption, EventKeysAssumption
  <2> HIDE DEF row
  <2>5. /\ ledger' \in Seq(LooseRow) /\ FollowOK' /\ Stored \subseteq Stored'
        /\ Len(ledger) \in Nat /\ Len(ledger') \in Nat /\ Len(ledger) <= Len(ledger')
    BY <2>1, <2>3, <2>4, Appended, AppendedFollows DEF IInv, Typed
  <2>6. /\ \A h : Knows(h, Len(ledger), Stored) => Knows(h, Len(ledger'), Stored')
        /\ \A e \in Event : HasEffect(e, Stored, records) => HasEffect(e, Stored', records)
    BY <2>5, KnowsMore
  <2>7. HandlerOK'
    BY <1>1, <2>6 DEF IInv, HandlerOK
  <2>8. AckedOK'
    BY <1>1, <2>6 DEF IInv, Typed, AckedOK
  <2> QED
    BY <1>1, <2>5, <2>7, <2>8 DEF IInv, Typed
<1> QED
  BY <1>2, <1>3 DEF ReserveCall, ReleaseCall

LEMMA NextInv == IInv /\ [Next]_vars => IInv'
<1> SUFFICES ASSUME IInv, [Next]_vars PROVE IInv'
  OBVIOUS
<1>1. CASE UNCHANGED vars
  BY <1>1 DEF vars, store, IInv, Typed, HandlerOK, AckedOK, FollowOK, Stored
<1>2. CASE Emit
  <2>1. paid' \subseteq Event /\ UNCHANGED <<ledger, records, acked, handler>>
    BY <1>2, EventsAssumption DEF Emit, store, IInv, Typed
  <2> QED
    BY <2>1 DEF IInv, Typed, HandlerOK, AckedOK, FollowOK, Stored
<1>3. ASSUME NEW d \in Deliveries, Handle(d) \/ Die(d) \/ \E e \in Events : Deliver(d, e)
      PROVE  IInv'
  BY <1>3, DeliverInv, LookupInv, ReadInv, DecideInv, AppendInv, RecordInv, DieInv DEF Handle
<1>4. ASSUME NEW k \in UsageKeys, ReserveCall(k) \/ ChargeCall(k) \/ ReleaseCall(k) PROVE IInv'
  BY <1>4, CallInv
<1> QED
  BY <1>1, <1>2, <1>3, <1>4 DEF Next

-----------------------------------------------------------------------------
THEOREM Invariance == Spec => []IInv
<1>1. Init => IInv
  BY InitInv
<1>2. IInv /\ [Next]_vars => IInv'
  BY NextInv
<1> QED
  BY <1>1, <1>2, PTL DEF Spec

\* applyCreditPackWebhook answers 200 only for an event whose effect is in the
\* database, however many deliveries of it run at once, late or cut short.
THEOREM AcknowledgedIsDurable == Spec => []AckedIsDurable
<1>1. IInv => AckedIsDurable
  BY CommittedIsStored DEF IInv, AckedOK, HasEffect, AckedIsDurable
<1> QED
  BY <1>1, Invariance, PTL

\* persistCreditPackRefund takes credits back only behind a grant of the same
\* purchase, whatever order the events arrive in.
THEOREM RefundsFollow == Spec => []RefundFollowsGrant
<1>1. IInv => RefundFollowsGrant
  BY CommittedIsStored DEF IInv, FollowOK, RefundFollowsGrant
<1> QED
  BY <1>1, Invariance, PTL

-----------------------------------------------------------------------------
(* Types and the account.                                                  *)

\* A call that was charged is complete; what is under way was emitted.
ChargedOK ==
  \A k \in UsageKeys : Committed(k) => holds[k] # None /\ holds[k].status = "completed"
PaidOK ==
  /\ acked \subseteq paid
  /\ \A d \in Deliveries : handler[d] # None => handler[d].event \in paid
  /\ failures \in 0..MaxFailures

AccountInv  == StoreOK /\ ChargedOK
AccountStep == AccountInv' /\ [Account!Next]_(Account!avars)

LEMMA PaidInit == Init => PaidOK
  BY CreditsAssumption DEF Init, PaidOK

LEMMA PaidStep == IInv /\ PaidOK /\ [Next]_vars => PaidOK'
<1> SUFFICES ASSUME IInv, PaidOK, [Next]_vars PROVE PaidOK'
  OBVIOUS
<1>1. CASE UNCHANGED vars
  BY <1>1 DEF vars, PaidOK
<1>2. CASE Emit
  BY <1>2 DEF Emit, PaidOK
<1>3. ASSUME NEW d \in Deliveries, NEW e \in Events, Deliver(d, e) PROVE PaidOK'
  BY <1>3 DEF Deliver, PaidOK, IInv, Typed
<1>4. ASSUME NEW d \in Deliveries, Die(d) PROVE PaidOK'
  BY <1>4, CreditsAssumption DEF Die, PaidOK, IInv, Typed
<1>5. ASSUME NEW d \in Deliveries, handler[d] # None, UNCHANGED <<paid, failures>>,
             \/ Answer503(d) \/ Answer200(d)
             \/ UNCHANGED acked /\ \E h \in Handler :
                  handler' = [handler EXCEPT ![d] = h] /\ h.event = handler[d].event
      PROVE  PaidOK'
  BY <1>5 DEF Answer503, Answer200, PaidOK, IInv, Typed
<1>6. ASSUME NEW d \in Deliveries, Handle(d) PROVE PaidOK'
  <2>1. handler[d] # None /\ UNCHANGED <<paid, failures>> /\ handler[d] \in Handler
    BY <1>6 DEF Handle, Lookup, ReadLedger, DecideMovement, AppendMovement, Record, At,
       IInv, Typed
  <2>2. \/ Answer503(d) \/ Answer200(d)
        \/ /\ UNCHANGED acked
           /\ \/ \E label \in {"read", "record", "append"} : Continue(d, label)
              \/ handler' = [handler EXCEPT ![d].at = "decide", ![d].view = Len(ledger)]
    BY <1>6 DEF Handle, Lookup, ReadLedger, DecideMovement, AppendMovement, Record
  <2>3. ASSUME NEW label \in {"read", "record", "append"}, Continue(d, label)
        PROVE  \E h \in Handler :
                 handler' = [handler EXCEPT ![d] = h] /\ h.event = handler[d].event
    <3> DEFINE h == [handler[d] EXCEPT !.at = label]
    <3>1. h \in Handler /\ h.event = handler[d].event /\ handler' = [handler EXCEPT ![d] = h]
      BY <2>1, <2>3 DEF Handler, Continue
    <3> QED
      BY <3>1
  <2>4. ASSUME handler' = [handler EXCEPT ![d].at = "decide", ![d].view = Len(ledger)]
        PROVE  \E h \in Handler :
                 handler' = [handler EXCEPT ![d] = h] /\ h.event = handler[d].event
    <3> DEFINE h == [handler[d] EXCEPT !.at = "decide", !.view = Len(ledger)]
    <3>1. Len(ledger) \in Nat
      BY DEF IInv, Typed
    <3>2. h \in Handler /\ h.event = handler[d].event /\ handler' = [handler EXCEPT ![d] = h]
      BY <2>1, <2>4, <3>1 DEF Handler
    <3> QED
      BY <3>2
  <2> QED
    BY <1>5, <2>1, <2>2, <2>3, <2>4
<1>7. ASSUME NEW k \in UsageKeys, ReserveCall(k) \/ ChargeCall(k) \/ ReleaseCall(k) PROVE PaidOK'
  BY <1>7, CreditsAssumption DEF ReserveCall, ChargeCall, ReleaseCall, PaidOK
<1> QED
  BY <1>1, <1>2, <1>3, <1>4, <1>6, <1>7 DEF Next

LEMMA AccountStutters ==
  ASSUME UNCHANGED <<Free, Moved>>, PromisesKept
  PROVE  UNCHANGED Account!avars
BY DEF Account!avars, PromisesKept

LEMMA StoreKept ==
  ASSUME AccountInv, UNCHANGED <<ledger, holds>>
  PROVE  AccountStep
<1>1. \A k : Committed(k)' <=> Committed(k)
  BY DEF Committed, RowOf
<1>2. StoreOK' /\ UNCHANGED <<Free, Moved>> /\ PromisesKept
  BY StoreUnchanged DEF AccountInv
<1>3. ChargedOK'
  BY <1>1 DEF AccountInv, ChargedOK
<1> QED
  BY <1>2, <1>3, AccountStutters DEF AccountStep, AccountInv

\* A grant or a reversal that the trigger accepted.
LEMMA AppendAccount ==
  ASSUME IInv, AccountInv, NEW d \in Deliveries, AppendMovement(d)
  PROVE  AccountStep
<1>1. /\ handler[d].event \in Event /\ handler[d].event.kind \in {"completed", "refunded"}
      /\ UNCHANGED holds /\ AppendOrReplay(Requested(d))
  BY UnderWay DEF AppendMovement, At, Knows, Event
<1>2. PICK m, row :
        /\ m = [key |-> Key(handler[d].event), delta |-> Delta(handler[d].event)]
        /\ row = Requested(d)
  OBVIOUS
<1>3. /\ m \in PackMoves /\ m.key \in OtherKeys /\ m.delta \in -MaxBalance..MaxBalance
      /\ row = Extending(m.key, m.delta, handler[d].view)
  BY <1>1, <1>2, EventKeysAssumption, CreditsAssumption, BalanceAssumption
     DEF PackMoves, Key, Delta, Event, Requested
<1>4. row.key = m.key /\ row.delta = m.delta
  BY <1>3 DEF Extending
<1>5. \/ ledger' = ledger
      \/ ledger' = Append(ledger, row) /\ row \in Row /\ ChainAccepts(row) /\ ~Committed(m.key)
  <2>1. m.key \in Keys /\ ledger \in Seq(Row)
    BY <1>3 DEF Keys, AccountInv, StoreOK, StoreTypeOK
  <2> QED
    BY <1>1, <1>2, <1>3, <2>1, AppendEffect
<1>6. CASE ledger' = ledger
  BY <1>1, <1>6, StoreKept
<1>7. CASE ledger' = Append(ledger, row) /\ row \in Row /\ ChainAccepts(row) /\ ~Committed(m.key)
  <2>1. /\ StoreOK' /\ Free' = Free + m.delta /\ Free' >= 0
        /\ m.key \notin Moved /\ Moved' = Moved \cup {m.key} /\ PromisesKept
    BY <1>1, <1>3, <1>4, <1>7, MovementRow DEF AccountInv
  <2>2. ChargedOK'
    <3>1. \A k \in UsageKeys : Committed(k)' <=> Committed(k)
      BY <1>3, <1>4, <1>7, CommittedAppend, KeysAssumption DEF AccountInv, StoreOK, StoreTypeOK
    <3> QED
      BY <1>1, <3>1 DEF AccountInv, ChargedOK
  <2>3. [u \in UsageKeys |-> PromiseTo(u)]' = [u \in UsageKeys |-> PromiseTo(u)]
    BY <2>1 DEF PromisesKept
  <2>4. Account!Move
    BY <1>3, <2>1, <2>3 DEF Account!Move
  <2> QED
    BY <2>1, <2>2, <2>4 DEF AccountStep, AccountInv, Account!Next
<1> QED
  BY <1>5, <1>6, <1>7

LEMMA ReserveAccount ==
  ASSUME AccountInv, NEW k \in UsageKeys, ReserveCall(k)
  PROVE  AccountStep
<1>1. /\ UNCHANGED ledger /\ CallCost \in 1..MaxBalance
      /\ ReserveAnswer(k, CallCost) = "acquired"
      /\ SetHold(k, [amount |-> CallCost, status |-> "pending"])
  BY CreditsAssumption DEF ReserveCall
<1>2. /\ StoreOK' /\ Moved' = Moved /\ OthersKept(k)
      /\ \/ Free' = Free /\ PromiseTo(k)' = PromiseTo(k)
         \/ /\ PromiseTo(k) = None /\ PromiseTo(k)' = CallCost
            /\ CallCost \in 1..Free /\ Free' = Free - CallCost
  BY <1>1, HoldTaken DEF AccountInv
<1>3. ChargedOK'
  <2>1. holds[k] = None
    BY <1>1 DEF ReserveAnswer, AccountInv, StoreOK, StoreTypeOK, Hold
  <2>2. \A u : Committed(u)' <=> Committed(u)
    BY <1>1 DEF Committed, RowOf
  <2> QED
    BY <1>1, <2>1, <2>2 DEF AccountInv, ChargedOK, StoreOK, StoreTypeOK, SetHold
<1>4. CASE Free' = Free /\ PromiseTo(k)' = PromiseTo(k)
  <2>1. PromisesKept
    BY <1>2, <1>4 DEF PromisesKept, OthersKept
  <2> QED
    BY <1>2, <1>3, <1>4, <2>1, AccountStutters DEF AccountStep, AccountInv
<1>5. CASE /\ PromiseTo(k) = None /\ PromiseTo(k)' = CallCost
           /\ CallCost \in 1..Free /\ Free' = Free - CallCost
  <2>1. [u \in UsageKeys |-> PromiseTo(u)]'
          = [[u \in UsageKeys |-> PromiseTo(u)] EXCEPT ![k] = CallCost]
    BY <1>2, <1>5 DEF OthersKept
  <2>2. Account!Promise(k)
    BY <1>2, <1>5, <2>1 DEF Account!Promise
  <2> QED
    BY <1>2, <1>3, <2>2 DEF AccountStep, AccountInv, Account!Next
<1> QED
  BY <1>2, <1>4, <1>5

LEMMA ChargeAccount ==
  ASSUME AccountInv, NEW k \in UsageKeys, ChargeCall(k)
  PROVE  AccountStep
<1> DEFINE done == [amount |-> CallCost, status |-> "completed"]
<1>1. PICK row : row = Extending(k, -CallCost, Len(ledger))
  OBVIOUS
<1>2. /\ holds[k] # None /\ holds[k].amount = CallCost /\ holds[k].status = "pending"
      /\ holds' = [holds EXCEPT ![k] = done] /\ ledger' = Append(ledger, row)
  BY <1>1 DEF ChargeCall, SaveAccepted, Held, SetHold
<1>3. k \in Outstanding(None) /\ ~Committed(k)
  BY <1>2, MarkersAssumption DEF AccountInv, ChargedOK, Outstanding
<1>4. Balance - CallCost \in 0..MaxBalance /\ CallCost \in 1..MaxBalance /\ Balance \in 0..MaxBalance
  BY <1>2, <1>3, Chargeable, BalanceType, CreditsAssumption DEF AccountInv, StoreOK
<1>5. /\ row.key = k /\ row.delta = -CallCost /\ row.balanceAfter = Balance + row.delta
      /\ row \in Row
  <2>1. Len(ledger) + 1 \in Nat \ {0} /\ k \in Keys /\ -CallCost \in -MaxBalance..MaxBalance
        /\ Balance + (-CallCost) \in 0..MaxBalance
    BY <1>4, BalanceAssumption DEF AccountInv, StoreOK, StoreTypeOK, Keys
  <2> QED
    BY <1>1, <2>1 DEF Extending, Row, Balance
<1>6. /\ done \in Hold /\ done # None /\ done.status = "completed"
  BY <1>4, NoneAssumption DEF Hold
<1> HIDE DEF done
<1>7. /\ holds' \in [UsageKeys -> Hold \cup {None}] /\ holds'[k] = done
      /\ \A u \in UsageKeys \ {k} : holds'[u] = holds[u]
  BY <1>2, <1>6 DEF AccountInv, StoreOK, StoreTypeOK
<1>8. /\ StoreOK' /\ UNCHANGED <<Free, Moved>>
      /\ PromiseTo(k) = CallCost /\ PromiseTo(k)' = Spent /\ OthersKept(k)
  BY <1>2, <1>3, <1>5, <1>7, DebitRow DEF AccountInv
<1>9. ChargedOK'
  <2>1. \A u : Committed(u)' <=> Committed(u) \/ u = k
    BY <1>2, <1>5, CommittedAppend DEF AccountInv, StoreOK, StoreTypeOK
  <2> QED
    BY <1>6, <1>7, <2>1 DEF AccountInv, ChargedOK
<1>10. [u \in UsageKeys |-> PromiseTo(u)]'
        = [[u \in UsageKeys |-> PromiseTo(u)] EXCEPT ![k] = Spent]
  BY <1>8 DEF OthersKept
<1>11. PromiseTo(k) \notin {None, Spent}
  BY <1>4, <1>8, BalanceAssumption, MarkersAssumption
<1>12. Account!Spend(k)
  BY <1>8, <1>10, <1>11 DEF Account!Spend, Account!Promised
<1> QED
  BY <1>8, <1>9, <1>12 DEF AccountStep, AccountInv, Account!Next

LEMMA ReleaseAccount ==
  ASSUME AccountInv, NEW k \in UsageKeys, ReleaseCall(k)
  PROVE  AccountStep
<1>1. UNCHANGED ledger /\ ReleaseAccepted(k, CallCost) /\ SetHold(k, None)
  BY DEF ReleaseCall
<1>2. /\ StoreOK' /\ Moved' = Moved /\ OthersKept(k)
      /\ PromiseTo(k) = CallCost /\ PromiseTo(k)' = None
      /\ CallCost \in Nat /\ Free' = Free + CallCost
  BY <1>1, HoldReleased DEF AccountInv
<1>3. ChargedOK'
  <2>1. \A u : Committed(u)' <=> Committed(u)
    BY <1>1 DEF Committed, RowOf
  <2>2. ~Committed(k)
    BY <1>1 DEF ReleaseAccepted
  <2> QED
    BY <1>1, <2>1, <2>2 DEF AccountInv, ChargedOK, StoreOK, StoreTypeOK, SetHold
<1>4. [u \in UsageKeys |-> PromiseTo(u)]'
        = [[u \in UsageKeys |-> PromiseTo(u)] EXCEPT ![k] = None]
  BY <1>2 DEF OthersKept
<1>5. PromiseTo(k) \notin {None, Spent}
  BY <1>2, MarkersAssumption
<1>6. Account!GiveBack(k)
  BY <1>2, <1>4, <1>5 DEF Account!GiveBack, Account!Promised
<1> QED
  BY <1>2, <1>3, <1>6 DEF AccountStep, AccountInv, Account!Next

LEMMA StepAccount == IInv /\ AccountInv /\ [Next]_vars => AccountStep
<1> SUFFICES ASSUME IInv, AccountInv, [Next]_vars PROVE AccountStep
  OBVIOUS
<1>1. CASE UNCHANGED <<ledger, holds>>
  BY <1>1, StoreKept
<1>2. ASSUME NEW d \in Deliveries, Handle(d) \/ Die(d) \/ \E e \in Events : Deliver(d, e),
             ~UNCHANGED <<ledger, holds>>
      PROVE  AppendMovement(d)
  BY <1>2 DEF Deliver, Handle, Die, Lookup, ReadLedger, DecideMovement, Record, store
<1> QED
  BY <1>1, <1>2, AppendAccount, ReserveAccount, ChargeAccount, ReleaseAccount
     DEF Next, Emit, vars, store

LEMMA InitAccount == Init => AccountInv /\ Account!Init
<1> SUFFICES ASSUME Init PROVE AccountInv /\ Account!Init
  OBVIOUS
<1>1. StoreInit
  BY DEF Init
<1>2. StoreOK /\ Free = 0 /\ Moved = {} /\ \A k \in UsageKeys : PromiseTo(k) = None /\ ~Committed(k)
  BY <1>1, StoreStarts
<1> QED
  BY <1>2 DEF AccountInv, ChargedOK, Account!Init

\* No delivery, grant, reversal or hosted call ever stores a value outside its
\* range: the balance the webhook derives fits the column, and only events that
\* Stripe emitted are acknowledged.
THEOREM TypeCorrect == Spec => []TypeOK
<1>1. Init => AccountInv /\ PaidOK
  BY InitAccount, PaidInit
<1>2. IInv /\ AccountInv /\ PaidOK /\ [Next]_vars => AccountInv' /\ PaidOK'
  BY StepAccount, PaidStep DEF AccountStep
<1>3. IInv /\ AccountInv /\ PaidOK => TypeOK
  BY DEF IInv, Typed, AccountInv, StoreOK, PaidOK, TypeOK
<1> QED
  BY <1>1, <1>2, <1>3, Invariance, PTL DEF Spec

\* Whatever order events arrive in and however often, the rows are those of an
\* account that grants once per completed event, takes a purchase back at most
\* once, by however many events it is refunded, and keeps its promises to hosted
\* calls.  A purchase completed under two event ids is granted twice.
THEOREM AccountIsImplemented == Spec => ImplementsAccount
<1>1. Init => AccountInv /\ Account!Init
  BY InitAccount
<1>2. IInv /\ AccountInv /\ [Next]_vars => AccountInv' /\ [Account!Next]_(Account!avars)
  BY StepAccount DEF AccountStep
<1> QED
  BY <1>1, <1>2, Invariance, PTL DEF Spec, ImplementsAccount, Account!Spec
=============================================================================
