----------------------------- MODULE HostedCall -----------------------------
(***************************************************************************)
(* runMeteredModelCall (packages/billing/src/hosted-ai.ts), the one path   *)
(* from a hosted model call to a debit, past the checks that read no state *)
(* (Kids, route, opt-in, identity, price): an entitled member on the hosted*)
(* route.  Requests run concurrently, each statement against the store is  *)
(* one step, and a request may stop between any two: the process died, or a*)
(* statement failed and the call was refused.  A statement that took effect*)
(* and whose answer was lost is the same as stopping right after it.       *)
(***************************************************************************)
EXTENDS CreditStore

CONSTANTS
  Calls,    \* requests under way at the same time
  Prices,   \* what a call may cost
  Deltas,   \* what other movements may add or take
  MaxDeaths \* bound: requests cut short

ASSUME PricesAssumption == Prices \subseteq 1..MaxBalance
ASSUME DeltasAssumption == Deltas \subseteq -MaxBalance..MaxBalance
ASSUME DeathsAssumption == MaxDeaths \in Nat

VARIABLES
  call,      \* the requests, None when a slot is free
  ran,       \* history: times the provider accepted work under a key
  answered,  \* history: keys whose caller was given a completed call
  deaths     \* bound: requests cut short so far

store == <<ledger, holds>>
vars  == <<store, call, ran, answered, deaths>>

\* at: the step the request makes next.  view: rows of the ledger it read
\* last.  replayed: it found its key charged already.
Request == [at : {"resolve", "reserve", "provider", "save", "release",
                  "reload", "meter", "append", "finish"},
            key : UsageKeys, amount : Prices, view : Nat, replayed : BOOLEAN]

TypeOK ==
  /\ StoreTypeOK
  /\ call \in [Calls -> Request \cup {None}]
  /\ ran \in [UsageKeys -> Nat]
  /\ answered \subseteq UsageKeys
  /\ deaths \in 0..MaxDeaths

Init ==
  /\ StoreInit
  /\ call = [c \in Calls |-> None]
  /\ ran = [k \in UsageKeys |-> 0]
  /\ answered = {}
  /\ deaths = 0

-----------------------------------------------------------------------------
At(c, label) == call[c] # None /\ call[c].at = label

Continue(c, label) == call' = [call EXCEPT ![c].at = label]
Return(c)          == call' = [call EXCEPT ![c] = None]

\* A hosted turn reads the ledger and hands it to the gate.  The key may be one
\* used before, with the same price or another.
Start(c) ==
  /\ call[c] = None
  /\ \E k \in UsageKeys, amount \in Prices :
       call' = [call EXCEPT ![c] =
                 [at |-> "resolve", key |-> k, amount |-> amount,
                  view |-> Len(ledger), replayed |-> FALSE]]
  /\ UNCHANGED <<store, ran, answered, deaths>>

\* A failed statement or a death before the next step.
Abandon(c) ==
  /\ call[c] # None
  /\ deaths < MaxDeaths
  /\ deaths' = deaths + 1
  /\ Return(c)
  /\ UNCHANGED <<store, ran, answered>>

\* resolveHostedLedger and evaluateEntitlement: the ledger handed in must be
\* the current one; a key charged with another amount is a conflict; a key not
\* charged needs the balance.
Resolve(c) ==
  /\ At(c, "resolve")
  /\ LET charged == RowOf(call[c].key, Len(ledger))
     IN IF /\ call[c].view = Len(ledger)
           /\ \A row \in charged : row.delta = -call[c].amount
           /\ charged = {} => Balance >= call[c].amount
        THEN call' = [call EXCEPT ![c].at = "reserve",
                                  ![c].replayed = charged # {}]
        ELSE Return(c)
  /\ UNCHANGED <<store, ran, answered, deaths>>

\* Mutant of Reserve: a saved answer is refused like a pending one.
ReserveForgetsSaved(c) ==
  /\ At(c, "reserve")
  /\ LET answer == ReserveAnswer(call[c].key, call[c].amount)
     IN /\ IF answer = "acquired"
           THEN SetHold(call[c].key, [amount |-> call[c].amount, status |-> "pending"])
           ELSE UNCHANGED holds
        /\ IF answer = "acquired" THEN Continue(c, "provider") ELSE Return(c)
  /\ UNCHANGED <<ledger, ran, answered, deaths>>

\* The reservation: taken, or found in one of its states.  A charged key is
\* settled, an answer that was saved is recovered, anything else is refused.
Reserve(c) ==
  /\ At(c, "reserve")
  /\ LET answer == ReserveAnswer(call[c].key, call[c].amount)
     IN /\ IF answer = "acquired"
           THEN SetHold(call[c].key, [amount |-> call[c].amount, status |-> "pending"])
           ELSE UNCHANGED holds
        /\ IF call[c].replayed
           THEN IF answer \in {"acquired", "response-ready", "completed"}
                THEN Continue(c, "finish") ELSE Return(c)
           ELSE \/ answer = "acquired" /\ Continue(c, "provider")
                \/ answer = "response-ready" /\ Continue(c, "reload")
                \/ answer \notin {"acquired", "response-ready"} /\ Return(c)
  /\ UNCHANGED <<ledger, ran, answered, deaths>>

\* The provider answers ...
ProviderAnswers(c) ==
  /\ At(c, "provider")
  /\ ran' = [ran EXCEPT ![call[c].key] = @ + 1]
  /\ Continue(c, "save")
  /\ UNCHANGED <<store, answered, deaths>>

\* Mutant of ProviderFails: the failure is kept as an answer.
ProviderFailsSaved(c) ==
  /\ At(c, "provider")
  /\ Continue(c, "save")
  /\ UNCHANGED <<store, ran, answered, deaths>>

\* ... throws, having done nothing ...
ProviderFails(c) ==
  /\ At(c, "provider")
  /\ Continue(c, "release")
  /\ UNCHANGED <<store, ran, answered, deaths>>

\* Mutant of ProviderUncertain: the reservation is released like any failure's.
ProviderUncertainReleases(c) ==
  /\ At(c, "provider")
  /\ ran' = [ran EXCEPT ![call[c].key] = @ + 1]
  /\ Continue(c, "release")
  /\ UNCHANGED <<store, answered, deaths>>

\* ... or accepted the work and its outcome is unknown, or its answer cannot
\* be kept: the call is refused and the reservation stays.
ProviderUncertain(c) ==
  /\ At(c, "provider")
  /\ ran' = [ran EXCEPT ![call[c].key] = @ + 1]
  /\ Return(c)
  /\ UNCHANGED <<store, answered, deaths>>

SaveResponse(c) ==
  /\ At(c, "save")
  /\ IF SaveAccepted(call[c].key, call[c].amount)
     THEN /\ SetHold(call[c].key, [holds[call[c].key] EXCEPT !.status = "response-ready"])
          /\ Continue(c, "reload")
     ELSE UNCHANGED holds /\ Return(c)
  /\ UNCHANGED <<ledger, ran, answered, deaths>>

\* Mutant of Release: the row is kept with a status the table does not know.
ReleaseMarks(c) ==
  /\ At(c, "release")
  /\ IF ReleaseAccepted(call[c].key, call[c].amount)
     THEN SetHold(call[c].key, [holds[call[c].key] EXCEPT !.status = "released"])
     ELSE UNCHANGED holds
  /\ Return(c)
  /\ UNCHANGED <<ledger, ran, answered, deaths>>

Release(c) ==
  /\ At(c, "release")
  /\ IF ReleaseAccepted(call[c].key, call[c].amount)
     THEN SetHold(call[c].key, None) ELSE UNCHANGED holds
  /\ Return(c)
  /\ UNCHANGED <<ledger, ran, answered, deaths>>

\* After the provider the ledger is read again ...
Reload(c) ==
  /\ At(c, "reload")
  /\ call' = [call EXCEPT ![c].at = "meter", ![c].view = Len(ledger)]
  /\ UNCHANGED <<store, ran, answered, deaths>>

\* ... and once more by meterCredits: it may have moved by this very debit,
\* and by nothing else.
Meter(c) ==
  /\ At(c, "meter")
  /\ LET n == call[c].view
         decision == Decide(call[c].key, -call[c].amount, n)
         settled  == \/ n = Len(ledger) /\ decision = "replay"
                     \/ /\ Len(ledger) = n + 1
                        /\ ledger[n + 1].key = call[c].key
                        /\ ledger[n + 1].delta = -call[c].amount
     IN IF n = Len(ledger) /\ decision = "append" THEN Continue(c, "append")
        ELSE IF settled THEN Continue(c, "finish") ELSE Return(c)
  /\ UNCHANGED <<store, ran, answered, deaths>>

AppendDebit(c) ==
  /\ At(c, "append")
  /\ LET row == Extending(call[c].key, -call[c].amount, call[c].view)
     IN /\ AppendOrReplay(row)
        /\ IF AppendAnswer(row) = "failed" THEN Return(c) ELSE Continue(c, "finish")
  /\ UNCHANGED <<holds, ran, answered, deaths>>

Finish(c) ==
  /\ At(c, "finish")
  /\ IF FinishAccepted(call[c].key, call[c].amount)
     THEN /\ SetHold(call[c].key, [holds[call[c].key] EXCEPT !.status = "completed"])
          /\ answered' = answered \cup {call[c].key}
     ELSE UNCHANGED <<holds, answered>>
  /\ Return(c)
  /\ UNCHANGED <<ledger, ran, deaths>>

\* Grants, refunds and support adjustments, each under its own key and decided
\* on a ledger that may have grown since it was read.
Movement ==
  /\ \E k \in OtherKeys, delta \in Deltas, n \in 0..Len(ledger) :
       /\ ~Committed(k)
       /\ Decide(k, delta, n) = "append"
       /\ AppendOrReplay(Extending(k, delta, n))
  /\ UNCHANGED <<holds, call, ran, answered, deaths>>

Step(c) ==
  \/ Resolve(c) \/ Reserve(c)
  \/ ProviderAnswers(c) \/ ProviderFails(c) \/ ProviderUncertain(c)
  \/ SaveResponse(c) \/ Release(c)
  \/ Reload(c) \/ Meter(c) \/ AppendDebit(c) \/ Finish(c)

Next ==
  \/ Movement
  \/ \E c \in Calls : Start(c) \/ Step(c) \/ Abandon(c)

Spec == Init /\ [][Next]_vars

-----------------------------------------------------------------------------
\* The provider does the work of one key at most once, whatever is retried,
\* repeated concurrently, lost or cut short.
ProviderOnce == \A k \in UsageKeys : ran[k] <= 1

\* Nobody is charged for work that was not done, and no call is reported
\* complete before its own debit is in the ledger.
ChargedForWork ==
  \A k \in UsageKeys :
    /\ Committed(k) => ran[k] >= 1
    /\ k \in answered => Committed(k)

\* A caller retries a call whose answer is saved, with the ledger it has just
\* read and at the price it asked for, as often as it takes.
Retry(k) ==
  \E c \in Calls : Start(c) /\ call'[c].key = k /\ call'[c].amount = holds[k].amount

FairSpec ==
  /\ Spec
  /\ \A c \in Calls : WF_vars(Step(c))
  /\ \A k \in UsageKeys :
       SF_vars(holds[k] # None /\ holds[k].status = "response-ready" /\ Retry(k))

\* Requests die a bounded number of times; a saved answer is charged and its
\* reservation completed: concurrent debits, grants and refunds only delay it.
SavedIsCharged ==
  \A k \in UsageKeys :
    (holds[k] # None /\ holds[k].status = "response-ready")
      ~> (holds[k] # None /\ holds[k].status = "completed")

\* Whatever calls, retries and movements race on ledgers read before, the rows
\* are those of an account whose promises are kept: see CreditAccount.
Account == INSTANCE CreditAccount WITH
  free    <- Free,
  promise <- [k \in UsageKeys |-> PromiseTo(k)],
  moved   <- Moved,
  Moves   <- [key : OtherKeys, delta : Deltas]

ImplementsAccount == Account!Spec
=============================================================================
