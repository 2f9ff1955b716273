---------------------------- MODULE CreditStore ----------------------------
(***************************************************************************)
(* One credit account as the database keeps it: the append-only ledger of  *)
(* packages/billing (ledger.ts, store.ts, the Neon adapter of              *)
(* sites/umbrella) and the reservations of hosted model calls (migration   *)
(* 0008).  Every statement takes the account's row lock first, so it is    *)
(* atomic; what a caller read before it may be stale.                      *)
(*                                                                         *)
(* A row is immutable and the sequence has no gaps, so what a caller read  *)
(* is a prefix of the ledger: its length stands for it.  A key stands for  *)
(* a scoped idempotency key, and with it for the row's movement and reason.*)
(***************************************************************************)
EXTENDS Integers, Sequences, FiniteSetsExt

CONSTANTS
  UsageKeys,   \* idempotency keys of hosted calls ("usage:<account>:<key>")
  OtherKeys,   \* keys of grants, refunds and support adjustments
  None,        \* no row, no reservation, no call
  Spent,       \* a hosted call that was charged
  MaxBalance   \* Number.MAX_SAFE_INTEGER

Keys == UsageKeys \cup OtherKeys

ASSUME KeysAssumption == UsageKeys \cap OtherKeys = {}
ASSUME BalanceAssumption == MaxBalance \in Nat

VARIABLES
  ledger,  \* credit_ledger_entries of the account, in sequence order
  holds    \* hosted_model_operations by key, None when there is no row

Row == [key : Keys, delta : -MaxBalance..MaxBalance,
        sequence : Nat \ {0}, balanceAfter : 0..MaxBalance]

Hold == [amount : 1..MaxBalance,
         status : {"pending", "response-ready", "completed"}]

ASSUME NoneAssumption == None \notin Hold
ASSUME MarkersAssumption ==
  None \notin UsageKeys \cup Nat /\ Spent \notin Nat \cup {None}

StoreTypeOK ==
  /\ ledger \in Seq(Row)
  /\ holds \in [UsageKeys -> Hold \cup {None}]

StoreInit ==
  /\ ledger = <<>>
  /\ holds = [k \in UsageKeys |-> None]

-----------------------------------------------------------------------------
BalanceAt(n) == IF n = 0 THEN 0 ELSE ledger[n].balanceAfter
Balance == BalanceAt(Len(ledger))

\* The row a key has among the first n, if any.
RowOf(key, n) == {ledger[i] : i \in {j \in 1..n : ledger[j].key = key}}
Committed(key) == RowOf(key, Len(ledger)) # {}

\* Credits held for hosted calls that are not charged yet, other than `own`.
Outstanding(own) ==
  {k \in UsageKeys \ {own} :
     /\ holds[k] # None
     /\ holds[k].status \in {"pending", "response-ready"}
     /\ ~Committed(k)}
Reserved(own) ==
  MapThenSumSet(LAMBDA k : holds[k].amount, Outstanding(own))

-----------------------------------------------------------------------------
\* Mutants of ChainAccepts: a row is not bound to the tail; a row may take
\* credits that are held for a call.
ChainAcceptsGaps(row) ==
  /\ row.balanceAfter \in 0..MaxBalance
  /\ row.balanceAfter >= Reserved(row.key)

ChainAcceptsUnreserved(row) ==
  /\ row.sequence = Len(ledger) + 1
  /\ row.balanceAfter = Balance + row.delta
  /\ row.balanceAfter \in 0..MaxBalance
  /\ row.key \in UsageKeys /\ holds[row.key] # None =>
       /\ holds[row.key].status = "response-ready"
       /\ row.delta = -holds[row.key].amount

\* sceneaxi_validate_credit_chain, the trigger before every insert.
ChainAccepts(row) ==
  /\ row.sequence = Len(ledger) + 1
  /\ row.balanceAfter = Balance + row.delta
  /\ row.balanceAfter \in 0..MaxBalance
  /\ row.key \in UsageKeys /\ holds[row.key] # None =>
       /\ holds[row.key].status = "response-ready"
       /\ row.delta = -holds[row.key].amount
  /\ row.balanceAfter >= Reserved(row.key)

\* appendCreditEntry over the first n rows: the row that would extend them.
Extending(key, delta, n) ==
  [key |-> key, delta |-> delta, sequence |-> n + 1,
   balanceAfter |-> BalanceAt(n) + delta]

\* What appendCreditEntry concludes from the first n rows.
Decide(key, delta, n) ==
  CASE \E row \in RowOf(key, n) : row.delta = delta -> "replay"
    [] \E row \in RowOf(key, n) : row.delta # delta -> "conflict"
    [] RowOf(key, n) = {} ->
         IF BalanceAt(n) + delta \in 0..MaxBalance THEN "append"
         ELSE "insufficient"

\* appendOrReplayEntry: insert, or read the row already committed under the
\* key; the answer must be the requested row, at the requested position.
AppendAnswer(row) ==
  IF Committed(row.key)
  THEN IF row \in RowOf(row.key, Len(ledger)) THEN "replayed" ELSE "failed"
  ELSE IF ChainAccepts(row) THEN "appended" ELSE "failed"

AppendOrReplay(row) ==
  ledger' = IF AppendAnswer(row) = "appended" THEN Append(ledger, row)
            ELSE ledger

-----------------------------------------------------------------------------
\* Mutant of ReserveAnswer: credits held for other calls are not subtracted.
ReserveAnswerUnheld(key, amount) ==
  IF holds[key] # None
  THEN IF holds[key].amount = amount THEN holds[key].status ELSE "conflict"
  ELSE IF Balance < amount THEN "insufficient" ELSE "acquired"

\* sceneaxi_reserve_hosted_call.
ReserveAnswer(key, amount) ==
  IF holds[key] # None
  THEN IF holds[key].amount = amount THEN holds[key].status ELSE "conflict"
  ELSE IF Balance - Reserved(None) < amount THEN "insufficient" ELSE "acquired"

Held(key, amount, statuses) ==
  holds[key] # None /\ holds[key].amount = amount /\ holds[key].status \in statuses

SetHold(key, hold) == holds' = [holds EXCEPT ![key] = hold]

\* The three statements on a reservation that exists; each reports a failure,
\* and changes nothing, when its guard is false.
SaveAccepted(key, amount) == Held(key, amount, {"pending"})

FinishAccepted(key, amount) ==
  /\ Held(key, amount, {"response-ready", "completed"})
  /\ \E row \in RowOf(key, Len(ledger)) : row.delta = -amount

ReleaseAccepted(key, amount) == Held(key, amount, {"pending"}) /\ ~Committed(key)

-----------------------------------------------------------------------------
\* The ledger is a history loadLedgerState accepts: no gap, no key twice, every
\* balance derived and never negative.  Every reader refuses the account for
\* good when one row breaks it, so concurrent writers must never do so.
ChainValid ==
  \A i \in 1..Len(ledger) :
    /\ ledger[i].sequence = i
    /\ ledger[i].balanceAfter = BalanceAt(i - 1) + ledger[i].delta
    /\ ledger[i].balanceAfter >= 0
    /\ \A j \in 1..Len(ledger) : ledger[i].key = ledger[j].key => i = j

\* Credits reserved for calls the provider may already have answered are still
\* there to be charged, whatever else moves the account meanwhile.
FundsCovered == Balance >= Reserved(None)

\* The account the rows stand for: credits nobody holds, what each hosted call
\* was promised, and the other movements made.
Free == Balance - Reserved(None)
PromiseTo(k) ==
  IF Committed(k) THEN Spent
  ELSE IF holds[k] = None THEN None ELSE holds[k].amount
Moved == {k \in OtherKeys : Committed(k)}
=============================================================================
