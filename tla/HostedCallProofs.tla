-------------------------- MODULE HostedCallProofs --------------------------
(***************************************************************************)
(* Theorems about HostedCall, for any requests, keys, prices and movements.*)
(*                                                                         *)
(* A request that may enter the provider, or has just left it, owns the    *)
(* pending reservation of its key, alone; one that settles found a saved   *)
(* answer.  Both follow from the reservation being taken once, in one      *)
(* statement, and released only by its owner before any work was accepted. *)
(***************************************************************************)
EXTENDS HostedCall, CreditStoreProofs

Working(c)  == call[c] # None /\ call[c].at \in {"provider", "save", "release"}
Settling(c) == call[c] # None /\ call[c].at \in {"reload", "meter", "append"}

WorkOK ==
  \A c \in Calls : Working(c) =>
    /\ Held(call[c].key, call[c].amount, {"pending"})
    /\ ran[call[c].key] = IF call[c].at = "save" THEN 1 ELSE 0
    /\ \A d \in Calls : Working(d) /\ d # c => call[d].key # call[c].key

SettleOK ==
  \A c \in Calls : Settling(c) =>
    /\ holds[call[c].key] # None
    /\ holds[call[c].key].status # "pending"

\* The reservation of a key tells whether its work was done.
RanOK ==
  \A k \in UsageKeys :
    /\ ran[k] <= 1
    /\ holds[k] = None => ran[k] = 0
    /\ holds[k] # None /\ holds[k].status # "pending" => ran[k] = 1

IInv == TypeOK /\ WorkOK /\ SettleOK /\ RanOK /\ ChargedForWork

-----------------------------------------------------------------------------
(* Init establishes the invariant, and each action preserves it.           *)

LEMMA InitInv == Init => IInv
<1> SUFFICES ASSUME Init PROVE IInv
  OBVIOUS
<1>1. TypeOK
  BY DeathsAssumption DEF Init, StoreInit, TypeOK, StoreTypeOK
<1>2. \A k : ~Committed(k)
  BY DEF Init, StoreInit, Committed, RowOf
<1> QED
  BY <1>1, <1>2 DEF Init, StoreInit, IInv, WorkOK, SettleOK, RanOK, ChargedForWork,
                    Working, Settling

\* The steps that leave the store and the provider alone.
LEMMA MoveInv ==
  ASSUME IInv, NEW c \in Calls, UNCHANGED <<ledger, holds, ran, answered>>,
         deaths' \in 0..MaxDeaths,
         NEW r \in Request \cup {None}, call' = [call EXCEPT ![c] = r],
         r # None /\ r.at \in {"provider", "save", "release"} =>
           /\ Working(c) /\ r.key = call[c].key /\ r.amount = call[c].amount
           /\ (r.at = "save") <=> (call[c].at = "save"),
         r # None /\ r.at \in {"reload", "meter", "append"} =>
           /\ holds[r.key] # None
           /\ holds[r.key].status # "pending"
  PROVE  IInv'
<1>1. TypeOK'
  BY DEF IInv, TypeOK, StoreTypeOK
<1>2. WorkOK'
  BY DEF IInv, TypeOK, WorkOK, Working, Held
<1>3. SettleOK'
  BY DEF IInv, TypeOK, SettleOK, Settling
<1>4. RanOK' /\ ChargedForWork'
  BY DEF IInv, RanOK, ChargedForWork, Committed, RowOf
<1> QED
  BY <1>1, <1>2, <1>3, <1>4 DEF IInv

LEMMA StartInv ==
  ASSUME IInv, NEW c \in Calls, Start(c) \/ Abandon(c)
  PROVE  IInv'
<1>1. CASE Start(c)
  <2>1. PICK k \in UsageKeys, amount \in Prices :
          call' = [call EXCEPT ![c] =
                    [at |-> "resolve", key |-> k, amount |-> amount,
                     view |-> Len(ledger), replayed |-> FALSE]]
    BY <1>1 DEF Start
  <2> DEFINE r == [at |-> "resolve", key |-> k, amount |-> amount,
                   view |-> Len(ledger), replayed |-> FALSE]
  <2>2. r \in Request
    BY DEF IInv, TypeOK, StoreTypeOK, Request
  <2>3. UNCHANGED <<ledger, holds, ran, answered>> /\ deaths' \in 0..MaxDeaths
    BY <1>1 DEF Start, IInv, TypeOK, store
  <2> QED
    BY <2>1, <2>2, <2>3, MoveInv
<1>2. CASE Abandon(c)
  <2>1. UNCHANGED <<ledger, holds, ran, answered>> /\ deaths' \in 0..MaxDeaths
    BY <1>2, DeathsAssumption DEF Abandon, IInv, TypeOK, store
  <2>2. call' = [call EXCEPT ![c] = None]
    BY <1>2 DEF Abandon, Return
  <2> QED
    BY <2>1, <2>2, MoveInv
<1> QED
  BY <1>1, <1>2

\* A request returns, or moves on to a step that owns nothing.
LEMMA ReturnInv ==
  ASSUME IInv, NEW c \in Calls, UNCHANGED <<ledger, holds, ran, answered, deaths>>,
         Return(c)
  PROVE  IInv'
<1>1. deaths' \in 0..MaxDeaths
  BY DEF IInv, TypeOK
<1>2. call' = [call EXCEPT ![c] = None]
  BY DEF Return
<1> QED
  BY <1>1, <1>2, MoveInv

LEMMA ContinueInv ==
  ASSUME IInv, NEW c \in Calls, UNCHANGED <<ledger, holds, ran, answered, deaths>>,
         call[c] # None, NEW r \in Request, call' = [call EXCEPT ![c] = r],
         r.key = call[c].key, r.amount = call[c].amount,
         r.at \in {"reserve", "finish", "reload", "meter", "append", "release"},
         r.at = "release" => call[c].at = "provider",
         r.at \in {"reload", "meter", "append"} =>
           holds[r.key] # None /\ holds[r.key].status # "pending"
  PROVE  IInv'
<1>1. deaths' \in 0..MaxDeaths
  BY DEF IInv, TypeOK
<1>2. r.at \in {"provider", "save", "release"} =>
        /\ Working(c)
        /\ (r.at = "save") <=> (call[c].at = "save")
  BY DEF Working
<1> QED
  BY <1>1, <1>2, MoveInv

LEMMA RequestType ==
  ASSUME TypeOK, NEW c \in Calls, call[c] # None
  PROVE  /\ call[c] \in Request
         /\ call[c].key \in UsageKeys
         /\ call[c].amount \in Prices
         /\ call[c].amount \in 1..MaxBalance
  BY PricesAssumption DEF TypeOK, Request

LEMMA ResolveInv ==
  ASSUME IInv, NEW c \in Calls, Resolve(c)
  PROVE  IInv'
<1>1. UNCHANGED <<ledger, holds, ran, answered, deaths>> /\ call[c] # None
  BY DEF Resolve, At, store
<1>2. CASE Return(c)
  BY <1>1, <1>2, ReturnInv
<1>3. CASE ~Return(c)
  <2>1. PICK b \in BOOLEAN :
          call' = [call EXCEPT ![c] = [call[c] EXCEPT !.at = "reserve", !.replayed = b]]
    BY <1>3 DEF Resolve
  <2> DEFINE r == [call[c] EXCEPT !.at = "reserve", !.replayed = b]
  <2>2. r \in Request /\ r.key = call[c].key /\ r.amount = call[c].amount /\ r.at = "reserve"
    BY <1>1, RequestType DEF IInv, Request
  <2> QED
    BY <1>1, <2>1, <2>2, ContinueInv
<1> QED
  BY <1>2, <1>3

LEMMA MeterInv ==
  ASSUME IInv, NEW c \in Calls, Reload(c) \/ Meter(c)
  PROVE  IInv'
<1>1. /\ UNCHANGED <<ledger, holds, ran, answered, deaths>>
      /\ call[c] # None
      /\ holds[call[c].key] # None
      /\ holds[call[c].key].status # "pending"
  BY DEF Reload, Meter, At, store, IInv, SettleOK, Settling
<1>2. CASE Return(c)
  BY <1>1, <1>2, ReturnInv
<1>3. CASE Reload(c)
  <2> DEFINE r == [call[c] EXCEPT !.at = "meter", !.view = Len(ledger)]
  <2>1. call' = [call EXCEPT ![c] = r]
    BY <1>3 DEF Reload
  <2>2. r \in Request /\ r.key = call[c].key /\ r.amount = call[c].amount /\ r.at = "meter"
    <3>1. call[c] \in Request /\ Len(ledger) \in Nat
      BY <1>1, RequestType DEF IInv, TypeOK, StoreTypeOK
    <3> QED
      BY <3>1 DEF Request
  <2> QED
    BY <1>1, <2>1, <2>2, ContinueInv
<1>4. CASE Meter(c) /\ ~Return(c)
  <2>1. PICK label \in {"append", "finish"} : Continue(c, label)
    BY <1>4 DEF Meter
  <2> DEFINE r == [call[c] EXCEPT !.at = label]
  <2>2. call' = [call EXCEPT ![c] = r]
    BY <2>1 DEF Continue
  <2>3. r \in Request /\ r.key = call[c].key /\ r.amount = call[c].amount /\ r.at = label
    BY <1>1, RequestType DEF IInv, Request
  <2> QED
    BY <1>1, <2>2, <2>3, ContinueInv
<1> QED
  BY <1>2, <1>3, <1>4

\* A reservation that was found, of a given status.
LEMMA ReserveFound ==
  ASSUME NEW key, NEW amount,
         ReserveAnswer(key, amount) \in {"response-ready", "completed"}
  PROVE  holds[key] # None /\ holds[key].status # "pending"
  BY DEF ReserveAnswer

LEMMA ReserveTaken ==
  ASSUME StoreTypeOK, NEW key \in UsageKeys, NEW amount, ReserveAnswer(key, amount) = "acquired"
  PROVE  holds[key] = None
  BY DEF ReserveAnswer, StoreTypeOK, Hold

\* A step of one request about its own key: the other requests keep what they
\* rely on when none of them works on that key.
LEMMA StepInv ==
  ASSUME IInv, TypeOK', ChargedForWork', NEW c \in Calls, call[c] # None,
         NEW r \in Request \cup {None}, call' = [call EXCEPT ![c] = r],
         r # None => r.key = call[c].key,
         \A k \in UsageKeys \ {call[c].key} : holds'[k] = holds[k] /\ ran'[k] = ran[k],
         \A d \in Calls \ {c} : Working(d) => call[d].key # call[c].key,
         holds[call[c].key] # None /\ holds[call[c].key].status # "pending" =>
           holds'[call[c].key] # None /\ holds'[call[c].key].status # "pending",
         r # None /\ r.at \in {"provider", "save", "release"} =>
           /\ holds'[r.key] # None
           /\ holds'[r.key].amount = r.amount
           /\ holds'[r.key].status = "pending"
           /\ ran'[r.key] = IF r.at = "save" THEN 1 ELSE 0,
         r # None /\ r.at \in {"reload", "meter", "append"} =>
           holds'[r.key] # None /\ holds'[r.key].status # "pending",
         ran'[call[c].key] <= 1,
         holds'[call[c].key] = None => ran'[call[c].key] = 0,
         holds'[call[c].key] # None /\ holds'[call[c].key].status # "pending" =>
           ran'[call[c].key] = 1
  PROVE  IInv'
<1>1. call'[c] = r /\ \A d \in Calls \ {c} : call'[d] = call[d]
  BY DEF IInv, TypeOK
<1>2. \A d \in Calls \ {c} : Working(d)' => Working(d)
  BY <1>1 DEF Working
<1>3. \A d \in Calls \ {c} : Settling(d)' => Settling(d)
  BY <1>1 DEF Settling
<1>4. \A d \in Calls : call[d] # None => call[d].key \in UsageKeys
  BY RequestType DEF IInv
<1>5. WorkOK'
  <2> SUFFICES ASSUME NEW d \in Calls, Working(d)'
               PROVE  /\ Held(call[d].key, call[d].amount, {"pending"})'
                      /\ (ran[call[d].key] = IF call[d].at = "save" THEN 1 ELSE 0)'
                      /\ \A e \in Calls : Working(e)' /\ e # d => call'[e].key # call'[d].key
    BY DEF WorkOK
  <2>1. CASE d = c
    <3>1. r # None /\ r.at \in {"provider", "save", "release"} /\ r.key = call[c].key
      BY <1>1, <2>1 DEF Working
    <3>2. \A e \in Calls : Working(e)' /\ e # d => call'[e].key # call'[d].key
      BY <1>1, <1>2, <2>1, <3>1
    <3> QED
      BY <1>1, <2>1, <3>1, <3>2 DEF Held
  <2>2. CASE d # c
    <3>1. Working(d) /\ call'[d] = call[d] /\ call[d].key \in UsageKeys \ {call[c].key}
      BY <1>1, <1>2, <1>4, <2>2 DEF Working
    <3>2. /\ Held(call[d].key, call[d].amount, {"pending"})'
          /\ (ran[call[d].key] = IF call[d].at = "save" THEN 1 ELSE 0)'
      BY <3>1 DEF IInv, WorkOK, Held
    <3>3. ASSUME NEW e \in Calls, Working(e)', e # d
          PROVE  call'[e].key # call'[d].key
      <4>1. CASE e = c
        BY <1>1, <3>1, <3>3, <4>1 DEF Working
      <4>2. CASE e # c
        BY <1>1, <1>2, <3>1, <3>3, <4>2 DEF IInv, WorkOK
      <4> QED
        BY <4>1, <4>2
    <3> QED
      BY <3>2, <3>3
  <2> QED
    BY <2>1, <2>2
<1>6. SettleOK'
  <2> SUFFICES ASSUME NEW d \in Calls, Settling(d)'
               PROVE  holds'[call'[d].key] # None /\ holds'[call'[d].key].status # "pending"
    BY DEF SettleOK
  <2>1. CASE d = c
    BY <1>1, <2>1 DEF Settling
  <2>2. CASE d # c
    <3>1. Settling(d) /\ call'[d] = call[d] /\ call[d].key \in UsageKeys
      BY <1>1, <1>3, <1>4, <2>2 DEF Settling
    <3>2. holds[call[d].key] # None /\ holds[call[d].key].status # "pending"
      BY <3>1 DEF IInv, SettleOK
    <3> QED
      BY <3>1, <3>2
  <2> QED
    BY <2>1, <2>2
<1>7. RanOK'
  BY DEF IInv, RanOK
<1> QED
  BY <1>5, <1>6, <1>7 DEF IInv

LEMMA ReserveInv ==
  ASSUME IInv, NEW c \in Calls, Reserve(c)
  PROVE  IInv'
<1> DEFINE key == call[c].key
           amount == call[c].amount
           answer == ReserveAnswer(key, amount)
           hold == [amount |-> amount, status |-> "pending"]
<1>1. /\ UNCHANGED <<ledger, ran, answered, deaths>>
      /\ call[c] # None /\ call[c].at = "reserve"
  BY DEF Reserve, At
<1>2. /\ call[c] \in Request /\ key \in UsageKeys /\ amount \in Prices
      /\ amount \in 1..MaxBalance
  BY <1>1, RequestType DEF IInv
<1>3. CASE answer # "acquired"
  <2>1. UNCHANGED holds
    BY <1>3 DEF Reserve
  <2>2. CASE Return(c)
    BY <1>1, <2>1, <2>2, ReturnInv
  <2>3. CASE ~Return(c)
    <3>1. /\ answer \in {"response-ready", "completed"}
          /\ Continue(c, "finish") \/ Continue(c, "reload")
      BY <1>3, <2>3 DEF Reserve
    <3>2. PICK label \in {"finish", "reload"} : Continue(c, label)
      BY <3>1
    <3>3. holds[key] # None /\ holds[key].status # "pending"
      BY <3>1, ReserveFound
    <3> DEFINE r == [call[c] EXCEPT !.at = label]
    <3>4. call' = [call EXCEPT ![c] = r]
      BY <3>2 DEF Continue
    <3>5. r \in Request /\ r.key = key /\ r.amount = amount /\ r.at = label
      BY <1>2 DEF Request
    <3> QED
      BY <1>1, <2>1, <3>3, <3>4, <3>5, ContinueInv
  <2> QED
    BY <2>2, <2>3
<1>4. CASE answer = "acquired"
  <2>1. holds[key] = None
    BY <1>2, <1>4, ReserveTaken DEF IInv, TypeOK
  <2>2. hold \in Hold /\ hold # None
    BY <1>2, NoneAssumption DEF Hold
  <2>3. holds' = [holds EXCEPT ![key] = hold]
    BY <1>4 DEF Reserve, SetHold
  <2>4. ran[key] = 0 /\ \A d \in Calls : Working(d) => call[d].key # key
    BY <1>2, <2>1 DEF IInv, RanOK, WorkOK, Held
  <2>5. PICK label \in {"finish", "provider"} : Continue(c, label)
    BY <1>4 DEF Reserve
  <2> DEFINE r == [call[c] EXCEPT !.at = label]
  <2>6. call' = [call EXCEPT ![c] = r]
    BY <2>5 DEF Continue
  <2>7. r \in Request /\ r.key = key /\ r.amount = amount /\ r.at = label
    BY <1>2 DEF Request
  <2>8. TypeOK'
    BY <1>1, <1>2, <2>2, <2>3, <2>6, <2>7 DEF IInv, TypeOK, StoreTypeOK
  <2>9. ChargedForWork'
    BY <1>1 DEF IInv, ChargedForWork, Committed, RowOf
  <2>10. holds'[key] = hold
    BY <1>2, <2>3 DEF IInv, TypeOK, StoreTypeOK
  <2>11. \A k \in UsageKeys \ {key} : holds'[k] = holds[k] /\ ran'[k] = ran[k]
    BY <1>1, <2>3 DEF IInv, TypeOK, StoreTypeOK
  <2>12. /\ hold.amount = amount /\ hold.status = "pending"
         /\ ran'[key] = 0
         /\ r.at \in {"finish", "provider"}
    BY <1>1, <2>4, <2>7
  <2>13. /\ r \in Request \cup {None} /\ r.key = key
         /\ \A d \in Calls \ {c} : Working(d) => call[d].key # key
         /\ holds'[key] # None /\ holds'[key].status = "pending"
         /\ holds'[key].amount = r.amount
         /\ ran'[key] <= 1
    BY <2>2, <2>4, <2>7, <2>10, <2>12
  <2> HIDE DEF r, hold
  <2> QED
    BY <1>1, <2>1, <2>6, <2>8, <2>9, <2>11, <2>12, <2>13, StepInv
<1> QED
  BY <1>3, <1>4

\* What a request at work on its key may count on.
LEMMA OwnKey ==
  ASSUME IInv, NEW c \in Calls, Working(c)
  PROVE  /\ call[c] \in Request /\ call[c].key \in UsageKeys
         /\ holds[call[c].key] # None /\ holds[call[c].key].status = "pending"
         /\ holds[call[c].key].amount = call[c].amount
         /\ holds[call[c].key] \in Hold
         /\ ran[call[c].key] = IF call[c].at = "save" THEN 1 ELSE 0
         /\ \A d \in Calls \ {c} : Working(d) => call[d].key # call[c].key
<1>1. call[c] # None
  BY DEF Working
<1>2. call[c] \in Request /\ call[c].key \in UsageKeys
  BY <1>1, RequestType DEF IInv
<1> QED
  BY <1>1, <1>2 DEF IInv, WorkOK, Held, TypeOK, StoreTypeOK

LEMMA ProviderInv ==
  ASSUME IInv, NEW c \in Calls, ProviderAnswers(c) \/ ProviderUncertain(c)
  PROVE  IInv'
<1> DEFINE key == call[c].key
<1>1. /\ UNCHANGED <<ledger, holds, answered, deaths>>
      /\ call[c] # None /\ call[c].at = "provider" /\ Working(c)
      /\ ran' = [ran EXCEPT ![key] = @ + 1]
  BY DEF ProviderAnswers, ProviderUncertain, At, store, Working
<1>2. /\ key \in UsageKeys /\ call[c] \in Request
      /\ holds[key] # None /\ holds[key].status = "pending"
      /\ holds[key].amount = call[c].amount
      /\ ran[key] = 0
      /\ \A d \in Calls \ {c} : Working(d) => call[d].key # key
  BY <1>1, OwnKey
<1>3. /\ ran' \in [UsageKeys -> Nat] /\ ran'[key] = 1
      /\ \A k \in UsageKeys \ {key} : ran'[k] = ran[k]
  BY <1>1, <1>2 DEF IInv, TypeOK
<1>4. ChargedForWork'
  <2>1. \A k \in UsageKeys : (Committed(k)' <=> Committed(k)) /\ ran'[k] >= ran[k]
    BY <1>1, <1>2, <1>3 DEF IInv, TypeOK, Committed, RowOf
  <2> QED
    BY <1>1, <1>3, <2>1 DEF IInv, TypeOK, ChargedForWork
<1>5. PICK r \in Request \cup {None} :
        /\ call' = [call EXCEPT ![c] = r]
        /\ r # None => r.key = key /\ r.amount = call[c].amount /\ r.at = "save"
  <2>1. CASE ProviderAnswers(c)
    <3>1. call' = [call EXCEPT ![c] = [call[c] EXCEPT !.at = "save"]]
      BY <2>1 DEF ProviderAnswers, Continue
    <3>2. /\ [call[c] EXCEPT !.at = "save"] \in Request
          /\ [call[c] EXCEPT !.at = "save"].key = key
          /\ [call[c] EXCEPT !.at = "save"].amount = call[c].amount
          /\ [call[c] EXCEPT !.at = "save"].at = "save"
      BY <1>2 DEF Request
    <3> QED
      BY <3>1, <3>2
  <2>2. CASE ProviderUncertain(c)
    BY <2>2 DEF ProviderUncertain, Return
  <2> QED
    BY <2>1, <2>2
<1>6. TypeOK'
  BY <1>1, <1>3, <1>5 DEF IInv, TypeOK, StoreTypeOK
<1>7. ran'[key] <= 1
  BY <1>3
<1> QED
  BY <1>1, <1>2, <1>3, <1>4, <1>5, <1>6, <1>7, StepInv

LEMMA ProviderFailsInv ==
  ASSUME IInv, NEW c \in Calls, ProviderFails(c)
  PROVE  IInv'
<1> DEFINE r == [call[c] EXCEPT !.at = "release"]
<1>1. /\ UNCHANGED <<ledger, holds, ran, answered, deaths>>
      /\ call[c] # None /\ call[c].at = "provider"
      /\ call' = [call EXCEPT ![c] = r]
  BY DEF ProviderFails, At, store, Continue
<1>2. r \in Request /\ r.key = call[c].key /\ r.amount = call[c].amount /\ r.at = "release"
  BY <1>1, RequestType DEF IInv, Request
<1> QED
  BY <1>1, <1>2, ContinueInv

LEMMA SaveResponseInv ==
  ASSUME IInv, NEW c \in Calls, SaveResponse(c)
  PROVE  IInv'
<1> DEFINE key == call[c].key
           hold == [holds[key] EXCEPT !.status = "response-ready"]
           r == [call[c] EXCEPT !.at = "reload"]
<1>1. /\ UNCHANGED <<ledger, ran, answered, deaths>>
      /\ call[c] # None /\ call[c].at = "save" /\ Working(c)
  BY DEF SaveResponse, At, Working
<1>2. /\ key \in UsageKeys /\ call[c] \in Request
      /\ holds[key] # None /\ holds[key].status = "pending"
      /\ holds[key].amount = call[c].amount
      /\ holds[key] \in Hold
      /\ ran[key] = 1
      /\ \A d \in Calls \ {c} : Working(d) => call[d].key # key
  BY <1>1, OwnKey
<1>3. /\ holds' = [holds EXCEPT ![key] = hold]
      /\ call' = [call EXCEPT ![c] = r]
  BY <1>2 DEF SaveResponse, SaveAccepted, Held, SetHold, Continue
<1>4. hold \in Hold /\ hold # None /\ hold.status = "response-ready"
  BY <1>2, NoneAssumption DEF Hold
<1>5. r \in Request /\ r.key = key /\ r.amount = call[c].amount /\ r.at = "reload"
  BY <1>2 DEF Request
<1>6. TypeOK'
  BY <1>1, <1>3, <1>4, <1>5 DEF IInv, TypeOK, StoreTypeOK
<1>7. ChargedForWork'
  BY <1>1 DEF IInv, ChargedForWork, Committed, RowOf
<1>8. /\ holds'[key] = hold
      /\ \A k \in UsageKeys \ {key} : holds'[k] = holds[k] /\ ran'[k] = ran[k]
      /\ ran'[key] = 1 /\ ran'[key] <= 1
  BY <1>1, <1>2, <1>3 DEF IInv, TypeOK, StoreTypeOK
<1>9. holds'[key] # None /\ holds'[key].status # "pending"
  BY <1>4, <1>8
<1> HIDE DEF r, hold
<1> QED
  BY <1>1, <1>2, <1>3, <1>5, <1>6, <1>7, <1>8, <1>9, StepInv

LEMMA ReleaseInv ==
  ASSUME IInv, NEW c \in Calls, Release(c)
  PROVE  IInv'
<1> DEFINE key == call[c].key
<1>1. /\ UNCHANGED <<ledger, ran, answered, deaths>>
      /\ call[c] # None /\ call[c].at = "release" /\ Working(c)
      /\ call' = [call EXCEPT ![c] = None]
  BY DEF Release, At, Working, Return
<1>2. CASE UNCHANGED holds
  BY <1>1, <1>2, ReturnInv DEF Return
<1>3. CASE holds' = [holds EXCEPT ![key] = None]
  <2>1. /\ key \in UsageKeys /\ ran[key] = 0
        /\ holds[key].status = "pending"
        /\ \A d \in Calls \ {c} : Working(d) => call[d].key # key
    BY <1>1, OwnKey
  <2>2. TypeOK'
    BY <1>1, <1>3 DEF IInv, TypeOK, StoreTypeOK
  <2>3. ChargedForWork'
    BY <1>1 DEF IInv, ChargedForWork, Committed, RowOf
  <2>4. /\ holds'[key] = None
        /\ \A k \in UsageKeys \ {key} : holds'[k] = holds[k] /\ ran'[k] = ran[k]
        /\ ran'[key] = 0 /\ ran'[key] <= 1
    BY <1>1, <1>3, <2>1 DEF IInv, TypeOK, StoreTypeOK
  <2> QED
    BY <1>1, <2>1, <2>2, <2>3, <2>4, StepInv
<1> QED
  BY <1>2, <1>3 DEF Release, SetHold

LEMMA AppendDebitInv ==
  ASSUME IInv, NEW c \in Calls, AppendDebit(c)
  PROVE  IInv'
<1> DEFINE key == call[c].key
           row == Extending(key, -call[c].amount, call[c].view)
<1>1. /\ UNCHANGED <<holds, ran, answered, deaths>>
      /\ call[c] # None /\ Settling(c)
      /\ AppendOrReplay(row)
      /\ Return(c) \/ Continue(c, "finish")
  BY DEF AppendDebit, At, Settling
<1>2. /\ call[c] \in Request /\ key \in UsageKeys
      /\ call[c].amount \in 1..MaxBalance
  BY <1>1, RequestType DEF IInv
<1>3. /\ holds[key] # None /\ holds[key].status # "pending"
      /\ ran[key] = 1
      /\ \A d \in Calls : Working(d) => call[d].key # key
  BY <1>1, <1>2 DEF IInv, SettleOK, RanOK, WorkOK, Held
<1>4. /\ ledger' \in Seq(Row)
      /\ \/ ledger' = ledger
         \/ ledger' = Append(ledger, row) /\ row \in Row
  <2>1. key \in Keys /\ -call[c].amount \in -MaxBalance..MaxBalance
    BY <1>2, BalanceAssumption DEF Keys
  <2>2. ledger \in Seq(Row)
    BY DEF IInv, TypeOK, StoreTypeOK
  <2> QED
    BY <1>1, <2>1, <2>2, AppendEffect
<1>5. PICK r \in Request \cup {None} :
        /\ call' = [call EXCEPT ![c] = r]
        /\ r # None => r.key = key /\ r.amount = call[c].amount /\ r.at = "finish"
  <2>1. CASE Continue(c, "finish")
    <3>1. /\ [call[c] EXCEPT !.at = "finish"] \in Request
          /\ [call[c] EXCEPT !.at = "finish"].key = key
          /\ [call[c] EXCEPT !.at = "finish"].amount = call[c].amount
          /\ [call[c] EXCEPT !.at = "finish"].at = "finish"
      BY <1>2 DEF Request
    <3> QED
      BY <2>1, <3>1 DEF Continue
  <2>2. CASE Return(c)
    BY <2>2 DEF Return
  <2> QED
    BY <1>1, <2>1, <2>2
<1>6. \A k \in UsageKeys : Committed(k)' => Committed(k) \/ k = key
  <2>1. CASE ledger' = ledger
    BY <2>1 DEF Committed, RowOf
  <2>2. CASE ledger' = Append(ledger, row) /\ row \in Row
    BY <2>2, CommittedAppend DEF Extending, IInv, TypeOK, StoreTypeOK
  <2> QED
    BY <1>4, <2>1, <2>2
<1>7. \A k \in UsageKeys : Committed(k) => Committed(k)'
  <2>1. CASE ledger' = ledger
    BY <2>1 DEF Committed, RowOf
  <2>2. CASE ledger' = Append(ledger, row) /\ row \in Row
    BY <2>2, CommittedAppend DEF IInv, TypeOK, StoreTypeOK
  <2> QED
    BY <1>4, <2>1, <2>2
<1>8. ChargedForWork'
  BY <1>1, <1>3, <1>6, <1>7 DEF IInv, ChargedForWork, TypeOK
<1>9. TypeOK'
  BY <1>1, <1>4, <1>5 DEF IInv, TypeOK, StoreTypeOK
<1>10. ran'[key] <= 1
  BY <1>1, <1>3
<1> HIDE DEF row
<1> QED
  BY <1>1, <1>3, <1>5, <1>8, <1>9, <1>10, StepInv

LEMMA FinishInv ==
  ASSUME IInv, NEW c \in Calls, Finish(c)
  PROVE  IInv'
<1> DEFINE key == call[c].key
           hold == [holds[key] EXCEPT !.status = "completed"]
<1>1. /\ UNCHANGED <<ledger, ran, deaths>>
      /\ call[c] # None /\ call[c].at = "finish"
      /\ call' = [call EXCEPT ![c] = None]
      /\ Return(c)
  BY DEF Finish, At, Return
<1>2. key \in UsageKeys
  BY <1>1, RequestType DEF IInv
<1>3. CASE ~FinishAccepted(key, call[c].amount)
  BY <1>1, <1>3, ReturnInv DEF Finish
<1>4. CASE FinishAccepted(key, call[c].amount)
  <2>1. /\ holds' = [holds EXCEPT ![key] = hold]
        /\ answered' = answered \cup {key}
    BY <1>4 DEF Finish, SetHold
  <2>2. /\ holds[key] # None /\ holds[key] \in Hold
        /\ holds[key].status \in {"response-ready", "completed"}
        /\ Committed(key)
    BY <1>2, <1>4 DEF FinishAccepted, Held, Committed, IInv, TypeOK, StoreTypeOK
  <2>3. hold \in Hold /\ hold # None /\ hold.status = "completed"
    BY <2>2, NoneAssumption DEF Hold
  <2>4. ran[key] = 1 /\ \A d \in Calls : Working(d) => call[d].key # key
    BY <1>2, <2>2 DEF IInv, RanOK, WorkOK, Held
  <2>5. TypeOK'
    BY <1>1, <1>2, <2>1, <2>3 DEF IInv, TypeOK, StoreTypeOK
  <2>6. ChargedForWork'
    <3>1. \A k : Committed(k)' <=> Committed(k)
      BY <1>1 DEF Committed, RowOf
    <3> QED
      BY <1>1, <2>1, <2>2, <3>1 DEF IInv, ChargedForWork
  <2> HIDE DEF hold
  <2>7. /\ holds'[key] = hold
        /\ \A k \in UsageKeys \ {key} : holds'[k] = holds[k] /\ ran'[k] = ran[k]
        /\ ran'[key] = 1 /\ ran'[key] <= 1
    BY <1>1, <1>2, <2>1, <2>4 DEF IInv, TypeOK, StoreTypeOK
  <2>8. holds'[key] # None /\ holds'[key].status # "pending"
    BY <2>3, <2>7
  <2> QED
    BY <1>1, <2>4, <2>5, <2>6, <2>7, <2>8, StepInv
<1> QED
  BY <1>3, <1>4

LEMMA MovementInv ==
  ASSUME IInv, Movement
  PROVE  IInv'
<1>1. UNCHANGED <<holds, call, ran, answered, deaths>>
  BY DEF Movement
<1>2. PICK k \in OtherKeys, delta \in Deltas, n \in 0..Len(ledger) :
        AppendOrReplay(Extending(k, delta, n))
  BY DEF Movement
<1> DEFINE row == Extending(k, delta, n)
<1>3. /\ ledger' \in Seq(Row)
      /\ \/ ledger' = ledger
         \/ ledger' = Append(ledger, row) /\ row \in Row
  <2>1. k \in Keys /\ delta \in -MaxBalance..MaxBalance
    BY DeltasAssumption DEF Keys
  <2>2. ledger \in Seq(Row)
    BY DEF IInv, TypeOK, StoreTypeOK
  <2> QED
    BY <1>2, <2>1, <2>2, AppendEffect
<1>4. row.key = k /\ k \notin UsageKeys
  BY KeysAssumption DEF Extending
<1> HIDE DEF row
<1>5. \A u \in UsageKeys : Committed(u)' <=> Committed(u)
  <2>1. CASE ledger' = ledger
    BY <2>1 DEF Committed, RowOf
  <2>2. CASE ledger' = Append(ledger, row) /\ row \in Row
    BY <1>4, <2>2, CommittedAppend DEF IInv, TypeOK, StoreTypeOK
  <2> QED
    BY <1>3, <2>1, <2>2
<1>6. TypeOK' /\ ChargedForWork'
  BY <1>1, <1>3, <1>5 DEF IInv, TypeOK, StoreTypeOK, ChargedForWork
<1>7. WorkOK' /\ SettleOK' /\ RanOK'
  BY <1>1 DEF IInv, WorkOK, SettleOK, RanOK, Working, Settling, Held
<1> QED
  BY <1>6, <1>7 DEF IInv

LEMMA NextInv == IInv /\ [Next]_vars => IInv'
<1> SUFFICES ASSUME IInv, [Next]_vars PROVE IInv'
  OBVIOUS
<1>1. CASE UNCHANGED vars
  <2>1. UNCHANGED <<ledger, holds, call, ran, answered, deaths>>
    BY <1>1 DEF vars, store
  <2>2. TypeOK'
    BY <2>1 DEF IInv, TypeOK, StoreTypeOK
  <2>3. WorkOK' /\ SettleOK' /\ RanOK'
    BY <2>1 DEF IInv, WorkOK, SettleOK, RanOK, Working, Settling, Held
  <2>4. ChargedForWork'
    BY <2>1 DEF IInv, ChargedForWork, Committed, RowOf
  <2> QED
    BY <2>2, <2>3, <2>4 DEF IInv
<1>2. CASE Movement
  BY <1>2, MovementInv
<1>3. ASSUME NEW c \in Calls, Start(c) \/ Step(c) \/ Abandon(c)
      PROVE  IInv'
  BY <1>3, StartInv, ResolveInv, ReserveInv, ProviderInv, ProviderFailsInv,
     SaveResponseInv, ReleaseInv, MeterInv, AppendDebitInv, FinishInv DEF Step
<1> QED
  BY <1>1, <1>2, <1>3 DEF Next

-----------------------------------------------------------------------------
\* The inductive invariant holds throughout.
THEOREM Invariance == Spec => []IInv
  BY InitInv, NextInv, PTL DEF Spec

\* Rows, reservations and requests keep their types (StoreTypeOK included):
\* no balance outside its range is ever stored by the trigger.
THEOREM TypeCorrect == Spec => []TypeOK
<1>1. IInv => TypeOK
  BY DEF IInv
<1> QED
  BY Invariance, <1>1, PTL

\* sceneaxi_reserve_hosted_call and runMeteredModelCall together: the provider
\* accepts the work of one key at most once.
THEOREM OneExecution == Spec => []ProviderOnce
<1>1. IInv => ProviderOnce
  BY DEF IInv, RanOK, ProviderOnce
<1> QED
  BY Invariance, <1>1, PTL

\* A debit of a hosted call is for work that was done, and a call reported
\* complete has its debit.
THEOREM ChargesAreEarned == Spec => []ChargedForWork
<1>1. IInv => ChargedForWork
  BY DEF IInv
<1> QED
  BY Invariance, <1>1, PTL

\* sceneaxi_validate_credit_chain: however appends decided on stale reads race,
\* every reader of the ledger accepts it.
THEOREM LedgerStaysValid == Spec => []ChainValid
<1>1. Init => ChainValid
  BY DEF Init, StoreInit, ChainValid
<1>2. IInv /\ ChainValid /\ [Next]_vars => ChainValid'
  <2> SUFFICES ASSUME IInv, ChainValid, [Next]_vars PROVE ChainValid'
    OBVIOUS
  <2>1. ledger \in Seq(Row)
    BY DEF IInv, TypeOK, StoreTypeOK
  <2>2. CASE UNCHANGED ledger
    BY <2>2 DEF ChainValid, BalanceAt
  <2>3. ASSUME NEW key \in Keys, NEW delta \in -MaxBalance..MaxBalance, NEW n,
               AppendOrReplay(Extending(key, delta, n))
        PROVE  ChainValid'
    <3>1. CASE ledger' = ledger
      BY <2>2, <3>1
    <3>2. CASE /\ ledger' = Append(ledger, Extending(key, delta, n))
               /\ Extending(key, delta, n) \in Row
               /\ ChainAccepts(Extending(key, delta, n))
               /\ ~Committed(key)
      <4>1. Extending(key, delta, n).key = key
        BY DEF Extending
      <4> QED
        BY <2>1, <3>2, <4>1, ChainAppend
    <3> QED
      BY <2>1, <2>3, <3>1, <3>2, AppendEffect
  <2>4. CASE Movement
    <3>1. PICK k \in OtherKeys, delta \in Deltas, n \in 0..Len(ledger) :
            AppendOrReplay(Extending(k, delta, n))
      BY <2>4 DEF Movement
    <3>2. k \in Keys /\ delta \in -MaxBalance..MaxBalance
      BY DeltasAssumption DEF Keys
    <3> QED
      BY <2>3, <3>1, <3>2
  <2>5. ASSUME NEW c \in Calls, AppendDebit(c)
        PROVE  ChainValid'
    <3>1. AppendOrReplay(Extending(call[c].key, -call[c].amount, call[c].view))
      BY <2>5 DEF AppendDebit
    <3>2. call[c].key \in UsageKeys /\ call[c].amount \in 1..MaxBalance
      BY <2>5, RequestType DEF AppendDebit, At, IInv
    <3>3. call[c].key \in Keys /\ -call[c].amount \in -MaxBalance..MaxBalance
      BY <3>2, BalanceAssumption DEF Keys
    <3> QED
      BY <2>3, <3>1, <3>3
  <2>6. ASSUME NEW c \in Calls, Start(c) \/ Step(c) \/ Abandon(c), ~AppendDebit(c)
        PROVE  UNCHANGED ledger
    BY <2>6 DEF Step, Start, Abandon, Resolve, Reserve, ProviderAnswers, ProviderFails,
       ProviderUncertain, SaveResponse, Release, Reload, Meter, Finish, store
  <2>7. CASE UNCHANGED vars
    BY <2>2, <2>7 DEF vars, store
  <2> QED
    BY <2>2, <2>4, <2>5, <2>6, <2>7 DEF Next
<1> QED
  BY <1>1, <1>2, Invariance, PTL DEF Spec

-----------------------------------------------------------------------------
(* The account.                                                            *)

LEMMA AccountStutters ==
  ASSUME UNCHANGED <<Free, Moved>>, PromisesKept
  PROVE  UNCHANGED Account!avars
BY DEF Account!avars, PromisesKept

LEMMA AccountMoves ==
  ASSUME NEW k \in OtherKeys, NEW delta \in Deltas, Free' = Free + delta, Free' >= 0,
         k \notin Moved, Moved' = Moved \cup {k}, PromisesKept
  PROVE  Account!Next
<1> DEFINE m == [key |-> k, delta |-> delta]
<1>1. m \in [key : OtherKeys, delta : Deltas] /\ m.key = k /\ m.delta = delta
  OBVIOUS
<1>2. [u \in UsageKeys |-> PromiseTo(u)]' = [u \in UsageKeys |-> PromiseTo(u)]
  BY DEF PromisesKept
<1> HIDE DEF m
<1>3. Account!Move
  BY <1>1, <1>2 DEF Account!Move
<1> QED
  BY <1>3 DEF Account!Next

\* A step of the promise of one call.
LEMMA AccountPromise ==
  ASSUME NEW k \in UsageKeys, Moved' = Moved, OthersKept(k),
         \/ /\ PromiseTo(k) = None
            /\ PromiseTo(k)' \in 1..Free /\ Free' = Free - PromiseTo(k)'
         \/ /\ PromiseTo(k) \in Nat
            /\ PromiseTo(k)' = Spent /\ Free' = Free
         \/ /\ PromiseTo(k) \in Nat
            /\ PromiseTo(k)' = None /\ Free' = Free + PromiseTo(k)
  PROVE  Account!Next
<1> DEFINE f == [u \in UsageKeys |-> PromiseTo(u)]
<1>1. f' = [f EXCEPT ![k] = PromiseTo(k)'] /\ f[k] = PromiseTo(k)
  BY DEF OthersKept
<1> HIDE DEF f
<1>2. CASE /\ PromiseTo(k) = None
           /\ PromiseTo(k)' \in 1..Free /\ Free' = Free - PromiseTo(k)'
  <2>1. Account!Promise(k)
    BY <1>1, <1>2 DEF Account!Promise, f
  <2> QED
    BY <2>1 DEF Account!Next
<1>3. CASE PromiseTo(k) \in Nat /\ PromiseTo(k)' = Spent /\ Free' = Free
  <2>1. Account!Spend(k)
    BY <1>1, <1>3, MarkersAssumption DEF Account!Spend, Account!Promised, f
  <2> QED
    BY <2>1 DEF Account!Next
<1>4. CASE PromiseTo(k) \in Nat /\ PromiseTo(k)' = None /\ Free' = Free + PromiseTo(k)
  <2>1. Account!GiveBack(k)
    BY <1>1, <1>4, MarkersAssumption DEF Account!GiveBack, Account!Promised, f
  <2> QED
    BY <2>1 DEF Account!Next
<1> QED
  BY <1>2, <1>3, <1>4

AccountStep == StoreOK' /\ [Account!Next]_(Account!avars)

LEMMA StoreKept ==
  ASSUME StoreOK, UNCHANGED <<ledger, holds>>
  PROVE  AccountStep
BY StoreUnchanged, AccountStutters DEF AccountStep

LEMMA ReserveAccount ==
  ASSUME IInv, StoreOK, NEW c \in Calls, Reserve(c)
  PROVE  AccountStep
<1>1. /\ UNCHANGED ledger
      /\ call[c].key \in UsageKeys /\ call[c].amount \in 1..MaxBalance
  BY RequestType DEF Reserve, At, IInv
<1>2. PICK key \in UsageKeys, amount \in 1..MaxBalance :
        key = call[c].key /\ amount = call[c].amount
  BY <1>1
<1>3. CASE ReserveAnswer(key, amount) = "acquired"
  <2>1. SetHold(key, [amount |-> amount, status |-> "pending"])
    BY <1>2, <1>3 DEF Reserve
  <2>2. /\ StoreOK' /\ Moved' = Moved /\ OthersKept(key)
        /\ \/ Free' = Free /\ PromiseTo(key)' = PromiseTo(key)
           \/ /\ PromiseTo(key) = None /\ PromiseTo(key)' = amount
              /\ amount \in 1..Free /\ Free' = Free - amount
    BY <1>1, <1>3, <2>1, HoldTaken
  <2>3. CASE Free' = Free /\ PromiseTo(key)' = PromiseTo(key)
    <3>1. PromisesKept
      BY <2>2, <2>3 DEF PromisesKept, OthersKept
    <3> QED
      BY <2>2, <2>3, <3>1, AccountStutters DEF AccountStep
  <2> QED
    BY <1>1, <2>2, <2>3, AccountPromise DEF AccountStep
<1>4. CASE ReserveAnswer(key, amount) # "acquired"
  BY <1>1, <1>2, <1>4, StoreKept DEF Reserve
<1> QED
  BY <1>3, <1>4

LEMMA SaveAccount ==
  ASSUME IInv, StoreOK, NEW c \in Calls, SaveResponse(c) \/ Finish(c)
  PROVE  AccountStep
<1> DEFINE key == call[c].key
<1>1. UNCHANGED ledger /\ key \in UsageKeys
  BY RequestType DEF SaveResponse, Finish, At, IInv
<1>2. CASE UNCHANGED holds
  BY <1>1, <1>2, StoreKept
<1>3. CASE SaveResponse(c) /\ ~UNCHANGED holds
  <2>1. /\ holds[key] # None /\ holds[key].status = "pending"
        /\ SetHold(key, [holds[key] EXCEPT !.status = "response-ready"])
    BY <1>3 DEF SaveResponse, SaveAccepted, Held
  <2> QED
    BY <1>1, <2>1, HoldMarked, AccountStutters DEF AccountStep
<1>4. CASE Finish(c) /\ ~UNCHANGED holds
  <2>1. /\ holds[key] # None /\ Committed(key)
        /\ SetHold(key, [holds[key] EXCEPT !.status = "completed"])
    BY <1>4 DEF Finish, FinishAccepted, Held, Committed
  <2> QED
    BY <1>1, <2>1, HoldMarked, AccountStutters DEF AccountStep
<1> QED
  BY <1>2, <1>3, <1>4

LEMMA ReleaseAccount ==
  ASSUME IInv, StoreOK, NEW c \in Calls, Release(c)
  PROVE  AccountStep
<1>1. UNCHANGED ledger /\ call[c].key \in UsageKeys
  BY RequestType DEF Release, At, IInv
<1>2. PICK key, amount : key \in UsageKeys /\ key = call[c].key /\ amount = call[c].amount
  BY <1>1
<1>3. CASE ReleaseAccepted(key, amount)
  <2>1. SetHold(key, None)
    BY <1>2, <1>3 DEF Release
  <2>2. /\ StoreOK' /\ Moved' = Moved /\ OthersKept(key)
        /\ PromiseTo(key) = amount /\ PromiseTo(key)' = None
        /\ amount \in Nat /\ Free' = Free + amount
    BY <1>1, <1>2, <1>3, <2>1, HoldReleased
  <2> QED
    BY <1>2, <2>2, AccountPromise DEF AccountStep
<1>4. CASE ~ReleaseAccepted(key, amount)
  BY <1>1, <1>2, <1>4, StoreKept DEF Release
<1> QED
  BY <1>3, <1>4

LEMMA DebitAccount ==
  ASSUME IInv, StoreOK, NEW c \in Calls, AppendDebit(c)
  PROVE  AccountStep
<1>1. /\ UNCHANGED holds /\ call[c].key \in UsageKeys /\ call[c].amount \in 1..MaxBalance
      /\ holds[call[c].key] # None
      /\ AppendOrReplay(Extending(call[c].key, -call[c].amount, call[c].view))
  BY RequestType DEF AppendDebit, At, IInv, SettleOK, Settling
<1>2. PICK key, row :
        /\ key \in UsageKeys /\ key = call[c].key
        /\ row = Extending(key, -call[c].amount, call[c].view)
  BY <1>1
<1>3. key \in Keys /\ -call[c].amount \in -MaxBalance..MaxBalance /\ ledger \in Seq(Row)
  BY <1>1, <1>2, BalanceAssumption DEF Keys, StoreOK, StoreTypeOK
<1>4. \/ ledger' = ledger
      \/ ledger' = Append(ledger, row) /\ row \in Row /\ ChainAccepts(row) /\ ~Committed(key)
  BY <1>1, <1>2, <1>3, AppendEffect
<1>5. CASE ledger' = ledger
  BY <1>1, <1>5, StoreKept
<1>6. CASE ledger' = Append(ledger, row) /\ row \in Row /\ ChainAccepts(row) /\ ~Committed(key)
  <2>1. row.key = key /\ holds[key] # None
    BY <1>1, <1>2 DEF Extending
  <2>2. /\ holds[key].status = "response-ready" /\ row.delta = -holds[key].amount
        /\ row.balanceAfter = Balance + row.delta
    BY <1>2, <1>6, <2>1 DEF ChainAccepts
  <2>3. key \in Outstanding(None)
    BY <1>2, <1>6, <2>1, <2>2, MarkersAssumption DEF Outstanding
  <2>4. holds' \in [UsageKeys -> Hold \cup {None}] /\ \A k \in UsageKeys \ {key} : holds'[k] = holds[k]
    BY <1>1 DEF StoreOK, StoreTypeOK
  <2>5. /\ StoreOK' /\ UNCHANGED <<Free, Moved>>
        /\ PromiseTo(key) = holds[key].amount /\ PromiseTo(key)' = Spent
        /\ OthersKept(key)
    BY <1>6, <2>1, <2>2, <2>3, <2>4, DebitRow
  <2>6. holds[key].amount \in Nat
    BY <2>3, OutstandingOf DEF StoreOK
  <2> QED
    BY <1>2, <2>5, <2>6, AccountPromise DEF AccountStep
<1> QED
  BY <1>4, <1>5, <1>6

LEMMA MovementAccount ==
  ASSUME StoreOK, Movement
  PROVE  AccountStep
<1>1. PICK k \in OtherKeys, delta \in Deltas, n \in 0..Len(ledger) :
        AppendOrReplay(Extending(k, delta, n))
  BY DEF Movement
<1> DEFINE row == Extending(k, delta, n)
<1>2. k \in Keys /\ delta \in -MaxBalance..MaxBalance /\ ledger \in Seq(Row) /\ UNCHANGED holds
  BY DeltasAssumption DEF Keys, StoreOK, StoreTypeOK, Movement
<1>3. \/ ledger' = ledger
      \/ ledger' = Append(ledger, row) /\ row \in Row /\ ChainAccepts(row) /\ ~Committed(k)
  BY <1>1, <1>2, AppendEffect
<1>4. row.key = k /\ row.delta = delta
  BY DEF Extending
<1> HIDE DEF row
<1>5. CASE ledger' = ledger
  BY <1>2, <1>5, StoreKept
<1>6. CASE ledger' = Append(ledger, row) /\ row \in Row /\ ChainAccepts(row) /\ ~Committed(k)
  BY <1>2, <1>4, <1>6, MovementRow, AccountMoves DEF AccountStep
<1> QED
  BY <1>3, <1>5, <1>6

LEMMA StepAccount == IInv /\ StoreOK /\ [Next]_vars => AccountStep
<1> SUFFICES ASSUME IInv, StoreOK, [Next]_vars PROVE AccountStep
  OBVIOUS
<1>1. CASE UNCHANGED <<ledger, holds>>
  BY <1>1, StoreKept
<1>2. ASSUME NEW c \in Calls, Start(c) \/ Step(c) \/ Abandon(c), ~UNCHANGED <<ledger, holds>>
      PROVE  Reserve(c) \/ SaveResponse(c) \/ Finish(c) \/ Release(c) \/ AppendDebit(c)
  BY <1>2 DEF Step, Start, Abandon, Resolve, ProviderAnswers, ProviderFails,
     ProviderUncertain, Reload, Meter, store
<1>3. CASE Movement
  BY <1>3, MovementAccount
<1> QED
  BY <1>1, <1>2, <1>3, ReserveAccount, SaveAccount, ReleaseAccount, DebitAccount
     DEF Next, vars, store

LEMMA InitAccount == Init => StoreOK /\ Account!Init
<1> SUFFICES ASSUME Init PROVE StoreOK /\ Account!Init
  OBVIOUS
<1>1. StoreInit
  BY DEF Init
<1>2. StoreOK /\ Free = 0 /\ Moved = {} /\ \A k \in UsageKeys : PromiseTo(k) = None
  BY <1>1, StoreStarts
<1> QED
  BY <1>2 DEF Account!Init

\* Credits held for hosted calls are there to be charged, whatever appends,
\* reservations and releases race.
THEOREM FundsStayCovered == Spec => []FundsCovered
<1>1. Init => StoreOK
  BY InitAccount
<1>2. IInv /\ StoreOK /\ [Next]_vars => StoreOK'
  BY StepAccount DEF AccountStep
<1>3. StoreOK => FundsCovered
  BY DEF StoreOK
<1> QED
  BY <1>1, <1>2, <1>3, Invariance, PTL DEF Spec

\* The rows and reservations of packages/billing are those of an account whose
\* promises are made once at a time, kept, and spent or given back whole.
THEOREM AccountIsImplemented == Spec => ImplementsAccount
<1>1. Init => StoreOK /\ Account!Init
  BY InitAccount
<1>2. IInv /\ StoreOK /\ [Next]_vars => StoreOK' /\ [Account!Next]_(Account!avars)
  BY StepAccount DEF AccountStep
<1> QED
  BY <1>1, <1>2, Invariance, PTL DEF Spec, ImplementsAccount, Account!Spec
=============================================================================
