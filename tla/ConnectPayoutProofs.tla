------------------------ MODULE ConnectPayoutProofs ------------------------
(***************************************************************************)
(* Theorems about ConnectPayout, for any requests, keys, sales, accounts   *)
(* and clocks.                                                             *)
(*                                                                         *)
(* Everything rests on rows that are written once: the account, the intent *)
(* of a key and of a sale, and the outcome of a key.  A request that has   *)
(* passed the intent finds it unchanged however late it goes on, so the    *)
(* provider is only ever asked for what some stored intent says.           *)
(***************************************************************************)
EXTENDS ConnectPayout, FiniteSetTheorems, TLAPS

\* A link in hand names its account.
LinkOK ==
  \A o \in Onboardings :
    onboarding[o] # None /\ onboarding[o].at = "commit" => onboarding[o].got # None

\* Every row names the account on record.
AccountOK ==
  /\ \A k \in LinkKeys : links[k] # None => links[k] = account
  /\ \A k \in PayoutKeys : intents[k] # None => intents[k].account = account
  /\ \A r \in Requests : request[r] # None => request[r].account = account

\* One intent for each sale.
SaleOK ==
  \A j, k \in PayoutKeys :
    intents[j] # None /\ intents[k] # None /\ intents[j].sale = intents[k].sale => j = k

Enabled == \E s \in statuses : s.enabled

\* The provider was asked for what the intent of the key says.
AskedOK ==
  \A k \in PayoutKeys :
    payout[k] # None =>
      /\ intents[k] # None
      /\ payout[k].sale = intents[k].sale
      /\ payout[k].account = account
      /\ Enabled

\* What a request knows at each of its calls.
RequestOK ==
  \A r \in Requests :
    request[r] # None =>
      LET at == request[r].at
          k  == request[r].key
      IN /\ at \in {"commit", "outcome", "provider"} => Enabled
         /\ at \in {"outcome", "provider", "answer", "record", "paid"}
              => intents[k] = IntentOf(r)
         /\ at \in {"answer", "record"} => payout[k] # None
         /\ at = "record" => payout[k].answer # "asked"
         /\ at = "paid" => outcomes[k] = "paid"

Typed == TypeOK /\ IsFiniteSet(observed)

IInv == Typed /\ LinkOK /\ AccountOK /\ SaleOK /\ AskedOK /\ OutcomeIsTrue /\ RequestOK

-----------------------------------------------------------------------------
(* Types.                                                                  *)

LEMMA InitInv == Init => IInv
<1> SUFFICES ASSUME Init PROVE IInv
  OBVIOUS
<1>1. TypeOK
  BY DEF Init, TypeOK
<1>2. IsFiniteSet(observed)
  BY FS_EmptySet DEF Init
<1> QED
  BY <1>1, <1>2 DEF Init, IInv, Typed, LinkOK, AccountOK, SaleOK, AskedOK, OutcomeIsTrue, RequestOK

\* A step of an onboarding keeps the types.
LEMMA OnboardingType ==
  ASSUME TypeOK, LinkOK, NEW o \in Onboardings,
         BeginOnboarding(o) \/ Onboard(o) \/ CommitOnboarding(o) \/ OnboardingStops(o)
  PROVE  TypeOK' /\ LinkOK'
<1> USE NoneAssumption
<1>1. onboarding[o] # None => onboarding[o] \in Onboarding
  BY DEF TypeOK
<1>2. CASE BeginOnboarding(o)
  <2>1. PICK k \in LinkKeys :
          onboarding' = [onboarding EXCEPT ![o] =
            [at |-> "provider", key |-> k, existing |-> account, got |-> None]]
    BY <1>2 DEF BeginOnboarding
  <2>2. [at |-> "provider", key |-> k, existing |-> account, got |-> None] \in Onboarding
    BY DEF TypeOK, Onboarding
  <2> QED
    BY <1>2, <2>1, <2>2 DEF BeginOnboarding, TypeOK, LinkOK, stored, provider
<1>3. CASE Onboard(o)
  <2>1. PICK a \in Accounts :
          /\ created' = IF onboarding[o].existing = None
                        THEN [created EXCEPT ![onboarding[o].key] = a] ELSE created
          /\ onboarding' = [onboarding EXCEPT ![o].at = "commit", ![o].got = a]
    BY <1>3 DEF Onboard
  <2>2. onboarding'[o] \in Onboarding /\ onboarding'[o].got = a
    BY <1>1, <1>3, <2>1 DEF Onboard, Onboarding, TypeOK
  <2>3. created' \in [LinkKeys -> Accounts \cup {None}]
    BY <1>1, <1>3, <2>1 DEF Onboard, Onboarding, TypeOK
  <2>4. onboarding' \in [Onboardings -> Onboarding \cup {None}]
    BY <2>1, <2>2 DEF TypeOK
  <2>5. LinkOK'
    BY <2>1, <2>2 DEF LinkOK, TypeOK
  <2> QED
    BY <1>3, <2>3, <2>4, <2>5 DEF Onboard, TypeOK, stored
<1>4. ASSUME onboarding[o] # None, Over(o)
      PROVE  onboarding' \in [Onboardings -> Onboarding \cup {None}] /\ LinkOK'
  <2>1. onboarding'[o] \in Onboarding /\ onboarding'[o].at = "over"
    BY <1>1, <1>4 DEF Over, Onboarding, TypeOK
  <2> QED
    BY <1>4, <2>1 DEF Over, TypeOK, LinkOK
<1>5. CASE CommitOnboarding(o)
  <2>1. onboarding[o].got \in Accounts /\ onboarding[o].key \in LinkKeys
    BY <1>1, <1>5 DEF CommitOnboarding, Onboarding, LinkOK
  <2>2. account' \in Accounts \cup {None} /\ links' \in [LinkKeys -> Accounts \cup {None}]
    BY <1>5, <2>1 DEF CommitOnboarding, TypeOK
  <2> QED
    BY <1>4, <1>5, <2>2 DEF CommitOnboarding, TypeOK, provider
<1>6. CASE OnboardingStops(o)
  BY <1>4, <1>6 DEF OnboardingStops, TypeOK, stored, provider
<1> QED
  BY <1>2, <1>3, <1>5, <1>6

\* What the provider tells of the account keeps the types.
LEMMA StatusType ==
  ASSUME Typed, ObserveStatus \/ AppendStatus
  PROVE  Typed'
<1>1. CASE ObserveStatus
  <2> DEFINE n == Cardinality(observed) + 1
  <2>1. PICK enabled \in BOOLEAN : observed' = observed \cup {[at |-> n, enabled |-> enabled]}
    BY <1>1 DEF ObserveStatus
  <2>2. Cardinality(observed) \in Nat
    BY FS_CardinalityType DEF Typed
  <2>3. n \in 1..MaxObservations
    BY <1>1, <2>2, ObservationsAssumption DEF ObserveStatus
  <2>4. [at |-> n, enabled |-> enabled] \in Status
    BY <2>3 DEF Status
  <2>5. IsFiniteSet(observed')
    BY <2>1, FS_AddElement DEF Typed
  <2> HIDE DEF n
  <2> QED
    BY <1>1, <2>1, <2>4, <2>5 DEF ObserveStatus, Typed, TypeOK, stored
<1>2. CASE AppendStatus
  BY <1>2 DEF AppendStatus, Typed, TypeOK, provider
<1> QED
  BY <1>1, <1>2

\* A step of a request, or an answer of the provider, keeps the types.
LEMMA ContinueType ==
  ASSUME TypeOK, NEW r \in Requests, request[r] # None,
         NEW label \in {"commit", "outcome", "provider", "answer", "record", "paid", "conflict"},
         Continue(r, label) \/ Refuse(r)
  PROVE  request' \in [Requests -> Request \cup {None}]
BY DEF TypeOK, Continue, Refuse, Request

LEMMA RequestType ==
  ASSUME TypeOK, RequestOK, NEW r \in Requests,
         \/ BeginPayout(r) \/ CheckStatus(r) \/ CommitPayoutIntent(r) \/ FindOutcome(r)
         \/ CreatePayout(r) \/ Answer(r) \/ RecordOutcome(r) \/ PayoutStops(r)
  PROVE  TypeOK'
<1> USE NoneAssumption
<1>1. request[r] # None => request[r] \in Request /\ IntentOf(r) \in Intent
  BY DEF TypeOK, Request, Intent, IntentOf
<1>2. CASE BeginPayout(r)
  <2>1. PICK k \in PayoutKeys, s \in Sales, now \in Times :
          request' = [request EXCEPT ![r] =
            [at |-> "status", key |-> k, sale |-> s, account |-> account, now |-> now]]
    BY <1>2 DEF BeginPayout
  <2>2. [at |-> "status", key |-> k, sale |-> s, account |-> account, now |-> now] \in Request
    BY <1>2 DEF BeginPayout, TypeOK, Request
  <2> QED
    BY <1>2, <2>1, <2>2 DEF BeginPayout, TypeOK, stored, provider
<1>3. CASE CheckStatus(r)
  <2>1. request' \in [Requests -> Request \cup {None}]
    BY <1>3, ContinueType DEF CheckStatus, At
  <2> QED
    BY <1>3, <2>1 DEF CheckStatus, TypeOK, stored, provider
<1>4. CASE CommitPayoutIntent(r)
  <2>1. request' \in [Requests -> Request \cup {None}]
    BY <1>4, ContinueType DEF CommitPayoutIntent, At
  <2>2. intents' \in [PayoutKeys -> Intent \cup {None}]
    BY <1>1, <1>4 DEF CommitPayoutIntent, At, TypeOK, Request
  <2> QED
    BY <1>4, <2>1, <2>2 DEF CommitPayoutIntent, TypeOK, provider
<1>5. CASE FindOutcome(r)
  <2>1. request' \in [Requests -> Request \cup {None}]
    BY <1>1, <1>5, ContinueType DEF FindOutcome, At, TypeOK, Request
  <2> QED
    BY <1>5, <2>1 DEF FindOutcome, TypeOK, stored, provider
<1>6. CASE CreatePayout(r)
  <2>1. request' \in [Requests -> Request \cup {None}]
    BY <1>6, ContinueType DEF CreatePayout, At
  <2>2. [sale |-> request[r].sale, account |-> request[r].account, answer |-> "asked"] \in Payout
    BY <1>1, <1>6 DEF CreatePayout, At, Request, Payout
  <2>3. payout' \in [PayoutKeys -> Payout \cup {None}]
    BY <1>6, <2>2 DEF CreatePayout, TypeOK
  <2> QED
    BY <1>6, <2>1, <2>3 DEF CreatePayout, TypeOK, stored
<1>7. CASE Answer(r)
  <2>1. request' \in [Requests -> Request \cup {None}]
    BY <1>7, ContinueType DEF Answer, At
  <2> QED
    BY <1>7, <2>1 DEF Answer, TypeOK, stored, provider
<1>8. CASE PayoutStops(r)
  <2>1. request' \in [Requests -> Request \cup {None}]
    BY <1>8, ContinueType DEF PayoutStops, Busy
  <2> QED
    BY <1>8, <2>1 DEF PayoutStops, TypeOK, stored, provider
<1>9. CASE RecordOutcome(r)
  <2>1. request' \in [Requests -> Request \cup {None}]
    BY <1>9, ContinueType DEF RecordOutcome, At
  <2>2. request[r].key \in PayoutKeys /\ payout[request[r].key].answer \in {"paid", "refused"}
    BY <1>1, <1>9 DEF RecordOutcome, At, RequestOK, TypeOK, Request, Payout
  <2>3. outcomes' \in [PayoutKeys -> {"paid", "refused", None}]
    BY <1>9, <2>2 DEF RecordOutcome, TypeOK
  <2> QED
    BY <1>9, <2>1, <2>3 DEF RecordOutcome, TypeOK, provider
<1> QED
  BY <1>2, <1>3, <1>4, <1>5, <1>6, <1>7, <1>8, <1>9

-----------------------------------------------------------------------------
(* The steps.                                                              *)

Safe == AccountOK /\ SaleOK /\ AskedOK /\ OutcomeIsTrue /\ RequestOK

\* An onboarding writes the account once, and before anything names it.
LEMMA OnboardingSafe ==
  ASSUME TypeOK, Safe, NEW o \in Onboardings, LinkOK,
         BeginOnboarding(o) \/ Onboard(o) \/ CommitOnboarding(o) \/ OnboardingStops(o)
  PROVE  Safe'
<1> USE NoneAssumption
<1>1. UNCHANGED <<statuses, intents, outcomes, payout, request>>
  BY DEF BeginOnboarding, Onboard, CommitOnboarding, OnboardingStops, stored, provider
<1>2. ASSUME UNCHANGED <<account, links>>
      PROVE  Safe'
  BY <1>1, <1>2 DEF Safe, AccountOK, SaleOK, AskedOK, OutcomeIsTrue, RequestOK, IntentOf, Enabled
<1>3. CASE UNCHANGED <<account, links>>
  BY <1>2, <1>3
<1>4. CASE CommitOnboarding(o)
  <2> DEFINE k == onboarding[o].key
             a == onboarding[o].got
  <2>1. CASE ~(account \in {None, a} /\ links[k] = None)
    BY <1>2, <1>4, <2>1 DEF CommitOnboarding
  <2>2. CASE account \in {None, a} /\ links[k] = None
    <3>1. a \in Accounts /\ k \in LinkKeys
      BY <1>4 DEF CommitOnboarding, LinkOK, TypeOK, Onboarding
    <3>2. account' = a /\ links' = [links EXCEPT ![k] = a]
      BY <1>4, <2>2 DEF CommitOnboarding
    <3> HIDE DEF k, a
    <3>3. CASE account = a
      <4>1. AccountOK'
        BY <1>1, <3>1, <3>2, <3>3 DEF Safe, AccountOK, TypeOK
      <4> QED
        BY <1>1, <3>2, <3>3, <4>1
           DEF Safe, SaleOK, AskedOK, OutcomeIsTrue, RequestOK, IntentOf, Enabled
    <3>4. CASE account = None
      <4>1. /\ \A l \in LinkKeys : links[l] = None
            /\ \A l \in PayoutKeys : intents[l] = None
            /\ \A r \in Requests : request[r] = None
        BY <3>4 DEF Safe, AccountOK, TypeOK, Intent, Request
      <4>2. \A l \in PayoutKeys : payout[l] = None
        BY <4>1 DEF Safe, AskedOK
      <4>3. AccountOK'
        BY <1>1, <3>1, <3>2, <4>1 DEF AccountOK, TypeOK
      <4> QED
        BY <1>1, <4>1, <4>2, <4>3
           DEF Safe, SaleOK, AskedOK, OutcomeIsTrue, RequestOK
    <3> QED
      BY <2>2, <3>3, <3>4
  <2> QED
    BY <2>1, <2>2
<1> QED
  BY <1>3, <1>4 DEF BeginOnboarding, Onboard, OnboardingStops, stored

LEMMA StatusSafe ==
  ASSUME Safe, ObserveStatus \/ AppendStatus
  PROVE  Safe'
<1>1. UNCHANGED <<account, links, intents, outcomes, payout, request>> /\ statuses \subseteq statuses'
  BY DEF ObserveStatus, AppendStatus, stored, provider
<1>2. Enabled => Enabled'
  BY <1>1 DEF Enabled
<1> QED
  BY <1>1, <1>2 DEF Safe, AccountOK, SaleOK, AskedOK, OutcomeIsTrue, RequestOK, IntentOf

\* The provider answers a key it was asked for, which has no outcome yet.
LEMMA DecideSafe ==
  ASSUME TypeOK, Safe, NEW k \in PayoutKeys, Decide(k)
  PROVE  TypeOK' /\ Safe'
<1> USE NoneAssumption
<1>1. PICK answer \in {"paid", "refused"} : payout' = [payout EXCEPT ![k].answer = answer]
  BY DEF Decide
<1>2. /\ payout[k] \in Payout /\ payout[k].answer = "asked"
      /\ UNCHANGED <<account, links, statuses, intents, outcomes, created, observed, onboarding, request>>
  BY DEF Decide, TypeOK, stored
<1>3. /\ payout' \in [PayoutKeys -> Payout \cup {None}]
      /\ payout'[k] \in Payout /\ payout'[k].answer = answer
      /\ payout'[k].sale = payout[k].sale /\ payout'[k].account = payout[k].account
      /\ \A j \in PayoutKeys \ {k} : payout'[j] = payout[j]
  BY <1>1, <1>2 DEF TypeOK, Payout
<1>4. TypeOK'
  BY <1>2, <1>3 DEF TypeOK
<1>5. outcomes[k] = None
  BY <1>2 DEF Safe, OutcomeIsTrue, TypeOK
<1>6. AskedOK'
  BY <1>2, <1>3 DEF Safe, AskedOK, Enabled
<1>7. OutcomeIsTrue'
  BY <1>2, <1>3, <1>5 DEF Safe, OutcomeIsTrue
<1>8. RequestOK'
  BY <1>2, <1>3 DEF Safe, RequestOK, IntentOf, Enabled, TypeOK, Request
<1> QED
  BY <1>2, <1>4, <1>6, <1>7, <1>8 DEF Safe, AccountOK, SaleOK

\* Steps of a request that write no row: only what it knows has to be checked.
LEMMA RequestMoves ==
  ASSUME TypeOK, Safe, NEW r \in Requests,
         UNCHANGED <<account, links, statuses, intents, outcomes, payout>>,
         \A q \in Requests \ {r} : request'[q] = request[q],
         request'[r] # None =>
           /\ request'[r].account = account
           /\ LET at == request'[r].at
                  k  == request'[r].key
              IN /\ at \in {"commit", "outcome", "provider"} => Enabled
                 /\ at \in {"outcome", "provider", "answer", "record", "paid"}
                      => intents[k] = IntentOf(r)'
                 /\ at \in {"answer", "record"} => payout[k] # None
                 /\ at = "record" => payout[k].answer # "asked"
                 /\ at = "paid" => outcomes[k] = "paid"
  PROVE  Safe'
<1>1. AccountOK'
  BY DEF Safe, AccountOK
<1>2. ASSUME NEW q \in Requests, request'[q] # None
      PROVE  LET at == request'[q].at
                 k  == request'[q].key
             IN /\ at \in {"commit", "outcome", "provider"} => Enabled'
                /\ at \in {"outcome", "provider", "answer", "record", "paid"}
                     => intents'[k] = IntentOf(q)'
                /\ at \in {"answer", "record"} => payout'[k] # None
                /\ at = "record" => payout'[k].answer # "asked"
                /\ at = "paid" => outcomes'[k] = "paid"
  <2>1. Enabled' <=> Enabled
    BY DEF Enabled
  <2>2. CASE q = r
    BY <1>2, <2>1, <2>2
  <2>3. CASE q # r
    BY <1>2, <2>1, <2>3 DEF Safe, RequestOK, IntentOf
  <2> QED
    BY <2>2, <2>3
<1> QED
  BY <1>1, <1>2 DEF Safe, SaleOK, AskedOK, OutcomeIsTrue, RequestOK, Enabled

\* Where a request that continues stands.
LEMMA Continues ==
  ASSUME TypeOK, NEW r \in Requests, request[r] # None, NEW label, Continue(r, label)
  PROVE  /\ request'[r].at = label /\ request'[r].key = request[r].key
         /\ request'[r].account = request[r].account
         /\ IntentOf(r)' = IntentOf(r)
         /\ \A q \in Requests \ {r} : request'[q] = request[q]
<1>1. request[r] \in Request
  BY DEF TypeOK
<1> QED
  BY <1>1 DEF TypeOK, Continue, IntentOf, Request

LEMMA Refuses ==
  ASSUME TypeOK, NEW r \in Requests, Refuse(r)
  PROVE  request'[r] = None /\ \A q \in Requests \ {r} : request'[q] = request[q]
BY DEF TypeOK, Refuse

LEMMA BeginSafe ==
  ASSUME TypeOK, Safe, NEW r \in Requests, BeginPayout(r)
  PROVE  Safe'
<1>1. PICK k \in PayoutKeys, s \in Sales, now \in Times :
        request' = [request EXCEPT ![r] =
          [at |-> "status", key |-> k, sale |-> s, account |-> account, now |-> now]]
  BY DEF BeginPayout
<1>2. /\ request'[r].account = account /\ request'[r].at = "status"
      /\ \A q \in Requests \ {r} : request'[q] = request[q]
  BY <1>1 DEF TypeOK
<1> QED
  BY <1>2, RequestMoves DEF BeginPayout, stored, provider

LEMMA CheckSafe ==
  ASSUME TypeOK, Safe, NEW r \in Requests, CheckStatus(r)
  PROVE  Safe'
<1>1. request[r].account = account
  BY DEF CheckStatus, At, Safe, AccountOK
<1>2. CASE Refuse(r)
  BY <1>2, Refuses, RequestMoves DEF CheckStatus, stored, provider
<1>3. CASE Continue(r, "commit") /\ Enabled
  <2>1. /\ request'[r].at = "commit" /\ request'[r].account = account
        /\ \A q \in Requests \ {r} : request'[q] = request[q]
    BY <1>1, <1>3, Continues DEF CheckStatus, At
  <2> QED
    BY <1>3, <2>1, RequestMoves DEF CheckStatus, stored, provider
<1> QED
  BY <1>2, <1>3 DEF CheckStatus, LatestStatus, Enabled

LEMMA FindSafe ==
  ASSUME TypeOK, Safe, NEW r \in Requests, FindOutcome(r)
  PROVE  Safe'
<1> USE NoneAssumption
<1> DEFINE k == request[r].key
<1>1. /\ request[r] # None /\ request[r].account = account
      /\ intents[k] = IntentOf(r) /\ Enabled
      /\ outcomes[k] \in {"paid", "refused", None}
  BY DEF FindOutcome, At, Safe, AccountOK, RequestOK, TypeOK, Request
<1>2. CASE Refuse(r)
  BY <1>2, Refuses, RequestMoves DEF FindOutcome, stored, provider
<1>3. CASE Continue(r, "provider")
  <2>1. /\ request'[r].at = "provider" /\ request'[r].account = account /\ request'[r].key = k
        /\ IntentOf(r)' = intents[k] /\ \A q \in Requests \ {r} : request'[q] = request[q]
    BY <1>1, <1>3, Continues
  <2> QED
    BY <1>1, <2>1, RequestMoves DEF FindOutcome, stored, provider
<1>4. CASE Continue(r, "paid") /\ outcomes[k] = "paid"
  <2>1. /\ request'[r].at = "paid" /\ request'[r].account = account /\ request'[r].key = k
        /\ IntentOf(r)' = intents[k] /\ \A q \in Requests \ {r} : request'[q] = request[q]
    BY <1>1, <1>4, Continues
  <2> QED
    BY <1>1, <1>4, <2>1, RequestMoves DEF FindOutcome, stored, provider
<1> QED
  BY <1>1, <1>2, <1>3, <1>4 DEF FindOutcome

LEMMA AnswerSafe ==
  ASSUME TypeOK, Safe, NEW r \in Requests, Answer(r)
  PROVE  Safe'
<1> DEFINE k == request[r].key
<1>1. /\ request[r] # None /\ request[r].account = account
      /\ intents[k] = IntentOf(r) /\ payout[k] # None /\ payout[k].answer # "asked"
  BY DEF Answer, At, Safe, AccountOK, RequestOK
<1>2. /\ request'[r].at = "record" /\ request'[r].account = account /\ request'[r].key = k
      /\ IntentOf(r)' = intents[k] /\ \A q \in Requests \ {r} : request'[q] = request[q]
  BY <1>1, Continues DEF Answer
<1> QED
  BY <1>1, <1>2, RequestMoves DEF Answer, stored, provider

LEMMA StopSafe ==
  ASSUME TypeOK, Safe, NEW r \in Requests, PayoutStops(r)
  PROVE  Safe'
BY Refuses, RequestMoves DEF PayoutStops, stored, provider

\* A new intent is the first under its key and for its sale.
LEMMA CommitSafe ==
  ASSUME TypeOK, Safe, NEW r \in Requests, CommitPayoutIntent(r)
  PROVE  Safe'
<1> USE NoneAssumption
<1> DEFINE k == request[r].key
<1>1. /\ request[r] \in Request /\ k \in PayoutKeys /\ request[r].account = account /\ Enabled
      /\ request[r] # None /\ IntentOf(r) \in Intent /\ request[r].at = "commit"
  BY DEF CommitPayoutIntent, At, Safe, AccountOK, RequestOK, TypeOK, Request, IntentOf, Intent
<1>2. UNCHANGED <<account, links, statuses, outcomes, payout>>
  BY DEF CommitPayoutIntent, provider
<1>3. CASE Continue(r, "conflict") /\ UNCHANGED intents
  <2>1. /\ request'[r].at = "conflict" /\ request'[r].account = account
        /\ \A q \in Requests \ {r} : request'[q] = request[q]
    BY <1>1, <1>3, Continues
  <2> QED
    BY <1>2, <1>3, <2>1, RequestMoves
<1>4. CASE intents[k] = IntentOf(r) /\ Continue(r, "outcome") /\ UNCHANGED intents
  <2>1. /\ request'[r].at = "outcome" /\ request'[r].account = account /\ request'[r].key = k
        /\ IntentOf(r)' = intents[k] /\ \A q \in Requests \ {r} : request'[q] = request[q]
    BY <1>1, <1>4, Continues
  <2> QED
    BY <1>1, <1>2, <1>4, <2>1, RequestMoves
<1>5. CASE /\ intents[k] = None /\ SaleIsFree(request[r].sale)
           /\ intents' = [intents EXCEPT ![k] = IntentOf(r)]
           /\ Continue(r, "outcome")
  <2>1. /\ request'[r].at = "outcome" /\ request'[r].account = account /\ request'[r].key = k
        /\ IntentOf(r)' = IntentOf(r) /\ \A q \in Requests \ {r} : request'[q] = request[q]
    BY <1>1, <1>5, Continues
  <2>2. /\ intents'[k] = IntentOf(r) /\ IntentOf(r) # None
        /\ IntentOf(r).sale = request[r].sale /\ IntentOf(r).account = account
        /\ \A j \in PayoutKeys \ {k} : intents'[j] = intents[j]
    BY <1>1, <1>5 DEF TypeOK, IntentOf
  <2>3. payout[k] = None
    BY <1>1, <1>5 DEF Safe, AskedOK
  <2>4. \A j \in PayoutKeys : intents[j] # None => intents[j].sale # request[r].sale
    BY <1>5 DEF SaleIsFree
  <2> HIDE DEF k
  <2>5. AccountOK'
    BY <1>1, <1>2, <2>1, <2>2 DEF Safe, AccountOK
  <2>6. SaleOK'
    BY <2>2, <2>4 DEF Safe, SaleOK
  <2>7. AskedOK'
    BY <1>2, <2>2, <2>3 DEF Safe, AskedOK, Enabled
  <2>8. OutcomeIsTrue'
    BY <1>2 DEF Safe, OutcomeIsTrue
  <2>9. ASSUME NEW q \in Requests, q # r, request[q] # None,
               request[q].at \in {"outcome", "provider", "answer", "record", "paid"}
        PROVE  request[q].key # k
    <3>1. intents[request[q].key] = IntentOf(q) /\ IntentOf(q) \in Intent
      BY <2>9 DEF Safe, RequestOK, TypeOK, Request, IntentOf, Intent
    <3> QED
      BY <1>5, <3>1 DEF k
  <2>10. RequestOK'
    <3>1. ASSUME NEW q \in Requests, q # r, request[q] # None
          PROVE  /\ request[q].at \in {"outcome", "provider", "answer", "record", "paid"}
                      => intents'[request[q].key] = intents[request[q].key]
                 /\ IntentOf(q)' = IntentOf(q) /\ request'[q] = request[q]
      BY <2>1, <2>2, <2>9, <3>1 DEF IntentOf, TypeOK, Request
    <3> QED
      BY <1>1, <1>2, <2>1, <2>2, <3>1 DEF Safe, RequestOK, Enabled
  <2> QED
    BY <2>5, <2>6, <2>7, <2>8, <2>10 DEF Safe
<1> QED
  BY <1>3, <1>4, <1>5 DEF CommitPayoutIntent

\* The provider is asked for what the intent says, or was asked before.
LEMMA CreateSafe ==
  ASSUME TypeOK, Safe, NEW r \in Requests, CreatePayout(r)
  PROVE  Safe'
<1> USE NoneAssumption
<1> DEFINE k == request[r].key
           asked == [sale |-> request[r].sale, account |-> request[r].account, answer |-> "asked"]
<1>1. /\ request[r] # None /\ k \in PayoutKeys /\ request[r].account = account
      /\ intents[k] = IntentOf(r) /\ Enabled /\ IntentOf(r) \in Intent
  BY DEF CreatePayout, At, Safe, AccountOK, RequestOK, TypeOK, Request, IntentOf, Intent
<1>2. /\ request'[r].at = "answer" /\ request'[r].account = account /\ request'[r].key = k
      /\ IntentOf(r)' = intents[k] /\ \A q \in Requests \ {r} : request'[q] = request[q]
  BY <1>1, Continues DEF CreatePayout
<1>3. UNCHANGED <<account, links, statuses, intents, outcomes>>
  BY DEF CreatePayout, stored
<1>4. CASE payout[k] # None
  <2>1. payout' = payout
    BY <1>1, <1>4 DEF CreatePayout, TypeOK
  <2> QED
    BY <1>1, <1>2, <1>3, <1>4, <2>1, RequestMoves
<1>5. CASE payout[k] = None
  <2>1. /\ payout'[k] = asked /\ \A j \in PayoutKeys \ {k} : payout'[j] = payout[j]
        /\ asked \in Payout
    BY <1>1, <1>5 DEF CreatePayout, TypeOK, Request, Payout, At
  <2>2. asked # None /\ asked.sale = intents[k].sale /\ asked.account = account /\ intents[k] # None
    BY <1>1, <2>1 DEF IntentOf
  <2>3. outcomes[k] = None
    BY <1>1, <1>5 DEF Safe, OutcomeIsTrue
  <2> HIDE DEF k, asked
  <2>4. AccountOK' /\ SaleOK'
    BY <1>2, <1>3 DEF Safe, AccountOK, SaleOK
  <2>5. AskedOK'
    BY <1>1, <1>3, <2>1, <2>2 DEF Safe, AskedOK, Enabled
  <2>6. OutcomeIsTrue'
    BY <1>3, <2>1, <2>3 DEF Safe, OutcomeIsTrue
  <2>7. ASSUME NEW q \in Requests, q # r, request[q] # None,
               request[q].at \in {"answer", "record"}
        PROVE  payout'[request[q].key] = payout[request[q].key]
    <3>1. payout[request[q].key] # None /\ request[q].key \in PayoutKeys
      BY <2>7 DEF Safe, RequestOK, TypeOK, Request
    <3> QED
      BY <1>5, <2>1, <3>1
  <2>8. RequestOK'
    <3>1. ASSUME NEW q \in Requests, q # r
          PROVE  IntentOf(q)' = IntentOf(q) /\ request'[q] = request[q]
      BY <1>2, <3>1 DEF IntentOf
    <3> QED
      BY <1>1, <1>2, <1>3, <2>1, <2>2, <2>7, <3>1 DEF Safe, RequestOK, Enabled
  <2> QED
    BY <2>4, <2>5, <2>6, <2>8 DEF Safe
<1> QED
  BY <1>4, <1>5

\* What goes on record is what the provider answered for good.
LEMMA RecordSafe ==
  ASSUME TypeOK, Safe, NEW r \in Requests, RecordOutcome(r)
  PROVE  Safe'
<1> USE NoneAssumption
<1> DEFINE k == request[r].key
           answer == payout[k].answer
<1>1. /\ request[r] # None /\ k \in PayoutKeys /\ request[r].account = account
      /\ intents[k] = IntentOf(r) /\ payout[k] # None
  BY DEF RecordOutcome, At, Safe, AccountOK, RequestOK, TypeOK, Request
<1>2. UNCHANGED <<account, links, statuses, intents, payout>>
  BY DEF RecordOutcome, provider
<1>3. CASE outcomes[k] \notin {None, answer}
  <2>1. Continue(r, "conflict") /\ UNCHANGED outcomes
    BY <1>3 DEF RecordOutcome
  <2>2. /\ request'[r].at = "conflict" /\ request'[r].account = account
        /\ \A q \in Requests \ {r} : request'[q] = request[q]
    BY <1>1, <2>1, Continues
  <2> QED
    BY <1>2, <2>1, <2>2, RequestMoves
<1>4. CASE outcomes[k] \in {None, answer}
  <2>1. /\ outcomes' = [outcomes EXCEPT ![k] = answer]
        /\ IF answer = "paid" THEN Continue(r, "paid") ELSE Refuse(r)
    BY <1>4 DEF RecordOutcome
  <2>2. /\ outcomes'[k] = answer /\ \A j \in PayoutKeys \ {k} : outcomes'[j] = outcomes[j]
    BY <1>1, <2>1 DEF TypeOK
  <2>3. /\ \A q \in Requests \ {r} : request'[q] = request[q]
        /\ request'[r] # None =>
             /\ answer = "paid" /\ request'[r].at = "paid"
             /\ request'[r].account = account /\ request'[r].key = k
             /\ IntentOf(r)' = intents[k]
    BY <1>1, <2>1, Continues, Refuses
  <2> HIDE DEF k, answer
  <2>4. AccountOK' /\ SaleOK' /\ AskedOK'
    BY <1>2, <2>3 DEF Safe, AccountOK, SaleOK, AskedOK, Enabled
  <2>5. OutcomeIsTrue'
    BY <1>1, <1>2, <2>2 DEF Safe, OutcomeIsTrue, answer
  <2>6. ASSUME NEW q \in Requests, q # r, request[q] # None, request[q].at = "paid"
        PROVE  outcomes'[request[q].key] = "paid"
    <3>1. outcomes[request[q].key] = "paid" /\ request[q].key \in PayoutKeys
      BY <2>6 DEF Safe, RequestOK, TypeOK, Request
    <3> QED
      BY <1>4, <2>2, <3>1
  <2>7. RequestOK'
    <3>1. ASSUME NEW q \in Requests, q # r
          PROVE  IntentOf(q)' = IntentOf(q) /\ request'[q] = request[q]
      BY <2>3, <3>1 DEF IntentOf
    <3> QED
      BY <1>2, <2>2, <2>3, <2>6, <3>1 DEF Safe, RequestOK, Enabled
  <2> QED
    BY <2>4, <2>5, <2>7 DEF Safe
<1> QED
  BY <1>3, <1>4

-----------------------------------------------------------------------------
(* The invariant, and what follows from it.                                *)

LEMMA NextInv == IInv /\ [Next]_vars => IInv'
<1> SUFFICES ASSUME IInv, [Next]_vars PROVE IInv'
  OBVIOUS
<1> USE DEF IInv, Typed
<1>0. Safe
  BY DEF Safe
<1>1. CASE UNCHANGED vars
  BY <1>1 DEF vars, stored, provider, TypeOK, LinkOK, AccountOK, SaleOK, AskedOK,
              OutcomeIsTrue, RequestOK, IntentOf, Enabled
<1>2. ASSUME NEW o \in Onboardings,
             BeginOnboarding(o) \/ Onboard(o) \/ CommitOnboarding(o) \/ OnboardingStops(o)
      PROVE  IInv'
  <2>1. UNCHANGED observed
    BY <1>2 DEF BeginOnboarding, Onboard, CommitOnboarding, OnboardingStops, provider
  <2>2. TypeOK' /\ LinkOK'
    BY <1>2, OnboardingType
  <2>3. Safe'
    BY <1>0, <1>2, OnboardingSafe
  <2> QED
    BY <2>1, <2>2, <2>3 DEF Safe
<1>3. CASE ObserveStatus \/ AppendStatus
  <2>1. UNCHANGED onboarding
    BY <1>3 DEF ObserveStatus, AppendStatus
  <2>2. Typed'
    BY <1>3, StatusType
  <2>3. Safe'
    BY <1>0, <1>3, StatusSafe
  <2> QED
    BY <2>1, <2>2, <2>3 DEF Safe, LinkOK
<1>4. ASSUME NEW r \in Requests,
             \/ BeginPayout(r) \/ CheckStatus(r) \/ CommitPayoutIntent(r) \/ FindOutcome(r)
             \/ CreatePayout(r) \/ Answer(r) \/ RecordOutcome(r) \/ PayoutStops(r)
      PROVE  IInv'
  <2>1. UNCHANGED <<observed, onboarding>>
    BY <1>4 DEF BeginPayout, CheckStatus, CommitPayoutIntent, FindOutcome, CreatePayout,
                Answer, RecordOutcome, PayoutStops, provider
  <2>2. TypeOK'
    BY <1>4, RequestType
  <2>3. Safe'
    BY <1>0, <1>4, BeginSafe, CheckSafe, CommitSafe, FindSafe, CreateSafe, AnswerSafe,
       RecordSafe, StopSafe
  <2> QED
    BY <2>1, <2>2, <2>3 DEF Safe, LinkOK
<1>5. ASSUME NEW k \in PayoutKeys, Decide(k) PROVE IInv'
  <2>1. UNCHANGED <<observed, onboarding>>
    BY <1>5 DEF Decide
  <2>2. TypeOK' /\ Safe'
    BY <1>0, <1>5, DecideSafe
  <2> QED
    BY <2>1, <2>2 DEF Safe, LinkOK
<1> QED
  BY <1>1, <1>2, <1>3, <1>4, <1>5 DEF Next

THEOREM Invariance == Spec => []IInv
<1>1. Init => IInv
  BY InitInv
<1>2. IInv /\ [Next]_vars => IInv'
  BY NextInv
<1> QED
  BY <1>1, <1>2, PTL DEF Spec

\* The account, the rows, what the provider was asked and every request keep
\* their types (requestCreatorPayout, startConnectOnboarding).
THEOREM TypeCorrect == Spec => []TypeOK
<1>1. IInv => TypeOK
  BY DEF IInv, Typed
<1> QED
  BY <1>1, Invariance, PTL

\* The provider is asked to pay a sale under one key at most, however many
\* requests and keys name it: commitPayoutIntent takes sale and key together.
THEOREM SalePaidOnce == Spec => []OnePayoutPerSale
<1>1. IInv => OnePayoutPerSale
  BY DEF IInv, OnePayoutPerSale, AskedOK, SaleOK
<1> QED
  BY <1>1, Invariance, PTL

\* appendPayoutOutcome records what the provider did, for good.
THEOREM OutcomeStaysTrue == Spec => []OutcomeIsTrue
<1>1. IInv => OutcomeIsTrue
  BY DEF IInv
<1> QED
  BY <1>1, Invariance, PTL

\* requestCreatorPayout answers "paid" only for the payout on record.
THEOREM PaidOnRecord == Spec => []PaidIsRecorded
<1>1. IInv => PaidIsRecorded
  <2> SUFFICES ASSUME IInv, NEW r \in Requests, At(r, "paid")
               PROVE  LET k == request[r].key
                      IN /\ outcomes[k] = "paid"
                         /\ intents[k] = IntentOf(r)
                         /\ payout[k].sale = request[r].sale
    BY DEF PaidIsRecorded
  <2>1. /\ request[r] # None /\ request[r].key \in PayoutKeys
        /\ outcomes[request[r].key] = "paid" /\ intents[request[r].key] = IntentOf(r)
    BY DEF At, IInv, Typed, TypeOK, RequestOK, Request
  <2>2. payout[request[r].key] # None
    BY <2>1, NoneAssumption DEF IInv, OutcomeIsTrue
  <2>3. payout[request[r].key].sale = request[r].sale
    BY <2>1, <2>2 DEF IInv, AskedOK, IntentOf
  <2> QED
    BY <2>1, <2>3
<1> QED
  BY <1>1, Invariance, PTL

\* Links and payouts follow the one account commitOnboarding stored first, once
\* an observation recorded that it can be paid out to.
THEOREM MoneyFollowsAccount == Spec => []OneAccount
<1>1. IInv => OneAccount
  BY DEF IInv, OneAccount, AccountOK, AskedOK, Enabled
<1> QED
  BY <1>1, Invariance, PTL
=============================================================================
