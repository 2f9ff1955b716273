--------------------------- MODULE ConnectPayout ---------------------------
(***************************************************************************)
(* Paying a creator through Stripe Connect (packages/billing/src/          *)
(* stripe-connect.ts over createNeonConnectStore): a creator is given an   *)
(* account at the provider, what the provider says of it is recorded, and  *)
(* each sale is paid out once.  One creator; requests run concurrently,    *)
(* every call of the store or of the provider is one step, and a request   *)
(* may stop between any two: a store call failed, the provider threw, the  *)
(* process died.  An effect whose answer was lost is an effect followed by *)
(* such a stop.                                                            *)
(*                                                                         *)
(* The rows are append-only.  The provider is external: it answers one     *)
(* idempotency key once and for all, however often and late it is asked.   *)
(***************************************************************************)
EXTENDS Naturals, FiniteSets

CONSTANTS
  Requests,   \* payout requests under way at the same time
  Onboardings, \* onboarding requests, each made once
  PayoutKeys, \* idempotency keys of payouts
  LinkKeys,   \* idempotency keys of onboardings
  Sales,
  Accounts,   \* accounts the provider may create for the creator
  Times,      \* what the clock of a request may show
  MaxObservations, \* bound: times the status is read
  None

ASSUME ObservationsAssumption == MaxObservations \in Nat

VARIABLES
  account,    \* stripe_connect_accounts, of this creator
  links,      \* stripe_connect_onboarding_intents: the account of each key
  statuses,   \* stripe_connect_status_records
  intents,    \* stripe_connect_payout_intents, each with its money split
  outcomes,   \* stripe_connect_payout_outcomes
  created,    \* provider: the account made under a key
  observed,   \* provider: what it has said of the account so far
  payout,     \* provider: what was asked under a key, and its answer
  onboarding, \* onboarding requests, None when not yet made
  request     \* payout requests, None when a slot is free

stored   == <<account, links, statuses, intents, outcomes>>
provider == <<created, observed, payout>>
vars     == <<stored, provider, onboarding, request>>

Status == [at : 1..MaxObservations, enabled : BOOLEAN]
Intent == [sale : Sales, account : Accounts, requestedAt : Times]
Payout == [sale : Sales, account : Accounts, answer : {"asked", "paid", "refused"}]

\* existing: the account the request found.  got: the account of the answer.
Onboarding ==
  [at : {"provider", "commit", "over"}, key : LinkKeys,
   existing : Accounts \cup {None}, got : Accounts \cup {None}]

\* at: the call made next; "paid" and "conflict" are answers.
Request ==
  [at : {"status", "commit", "outcome", "provider", "answer", "record", "paid", "conflict"},
   key : PayoutKeys, sale : Sales, account : Accounts, now : Times]

\* None is none of the values it stands beside.
ASSUME NoneAssumption ==
  /\ None \notin Accounts /\ None \notin {"paid", "refused"}
  /\ None \notin Intent /\ None \notin Payout
  /\ None \notin Onboarding /\ None \notin Request

TypeOK ==
  /\ account \in Accounts \cup {None}
  /\ links \in [LinkKeys -> Accounts \cup {None}]
  /\ statuses \subseteq Status /\ observed \subseteq Status
  /\ intents \in [PayoutKeys -> Intent \cup {None}]
  /\ outcomes \in [PayoutKeys -> {"paid", "refused", None}]
  /\ created \in [LinkKeys -> Accounts \cup {None}]
  /\ payout \in [PayoutKeys -> Payout \cup {None}]
  /\ onboarding \in [Onboardings -> Onboarding \cup {None}]
  /\ request \in [Requests -> Request \cup {None}]

Init ==
  /\ account = None
  /\ links = [k \in LinkKeys |-> None]
  /\ statuses = {} /\ observed = {}
  /\ intents = [k \in PayoutKeys |-> None]
  /\ outcomes = [k \in PayoutKeys |-> None]
  /\ created = [k \in LinkKeys |-> None]
  /\ payout = [k \in PayoutKeys |-> None]
  /\ onboarding = [o \in Onboardings |-> None]
  /\ request = [r \in Requests |-> None]

-----------------------------------------------------------------------------
Over(o) ==
  onboarding' = [onboarding EXCEPT ![o].at = "over", ![o].existing = None, ![o].got = None]

\* startConnectOnboarding finds the account.  A key may be one used before, while
\* its link has not expired.
BeginOnboarding(o) ==
  /\ onboarding[o] = None
  /\ \E k \in LinkKeys :
       onboarding' = [onboarding EXCEPT ![o] =
         [at |-> "provider", key |-> k, existing |-> account, got |-> None]]
  /\ UNCHANGED <<stored, provider, request>>

\* createOnboarding: a link for the account it is given, or a new account.
Onboard(o) ==
  /\ onboarding[o] # None /\ onboarding[o].at = "provider"
  /\ LET k == onboarding[o].key
     IN \E a \in Accounts :
          /\ CASE onboarding[o].existing # None -> a = onboarding[o].existing
               [] onboarding[o].existing = None /\ created[k] # None -> a = created[k]
               [] OTHER -> \A other \in LinkKeys : created[other] # a
          /\ created' = IF onboarding[o].existing = None
                        THEN [created EXCEPT ![k] = a] ELSE created
          /\ onboarding' = [onboarding EXCEPT ![o].at = "commit", ![o].got = a]
  /\ UNCHANGED <<stored, observed, payout, request>>

\* Mutant of CommitOnboarding: the account of the answer replaces the one stored.
CommitOnboardingUpsert(o) ==
  /\ onboarding[o] # None /\ onboarding[o].at = "commit"
  /\ LET k == onboarding[o].key
         a == onboarding[o].got
     IN IF links[k] = None
        THEN account' = a /\ links' = [links EXCEPT ![k] = a]
        ELSE UNCHANGED <<account, links>>
  /\ Over(o)
  /\ UNCHANGED <<statuses, intents, outcomes, provider, request>>

\* commitOnboarding, one transaction: the account stored first stays, and a link
\* to another one is a conflict; a key stored before is replayed or a conflict.
CommitOnboarding(o) ==
  /\ onboarding[o] # None /\ onboarding[o].at = "commit"
  /\ LET k == onboarding[o].key
         a == onboarding[o].got
     IN IF account \in {None, a} /\ links[k] = None
        THEN account' = a /\ links' = [links EXCEPT ![k] = a]
        ELSE UNCHANGED <<account, links>>
  /\ Over(o)
  /\ UNCHANGED <<statuses, intents, outcomes, provider, request>>

OnboardingStops(o) ==
  /\ onboarding[o] # None /\ onboarding[o].at # "over"
  /\ Over(o)
  /\ UNCHANGED <<stored, provider, request>>

\* refreshConnectStatus: the provider tells what the account may do now ...
ObserveStatus ==
  /\ account # None
  /\ Cardinality(observed) < MaxObservations
  /\ \E enabled \in BOOLEAN :
       observed' = observed \cup {[at |-> Cardinality(observed) + 1, enabled |-> enabled]}
  /\ UNCHANGED <<stored, created, payout, onboarding, request>>

\* ... and that is recorded, now or later or never.
AppendStatus ==
  /\ \E status \in observed \ statuses : statuses' = statuses \cup {status}
  /\ UNCHANGED <<account, links, intents, outcomes, provider, onboarding, request>>

-----------------------------------------------------------------------------
At(r, label) == request[r] # None /\ request[r].at = label

Continue(r, label) == request' = [request EXCEPT ![r].at = label]
Refuse(r)          == request' = [request EXCEPT ![r] = None]

Busy(r) == request[r] # None /\ request[r].at \notin {"paid", "conflict"}

\* requestCreatorPayout finds the creator's account.  A key or a sale may be one
\* asked for before.
BeginPayout(r) ==
  /\ ~Busy(r)
  /\ account # None
  /\ \E k \in PayoutKeys, s \in Sales, now \in Times :
       request' = [request EXCEPT ![r] =
         [at |-> "status", key |-> k, sale |-> s, account |-> account, now |-> now]]
  /\ UNCHANGED <<stored, provider, onboarding>>

LatestStatus == {s \in statuses : \A other \in statuses : other.at <= s.at}

CheckStatus(r) ==
  /\ At(r, "status")
  /\ IF \E s \in LatestStatus : s.enabled THEN Continue(r, "commit") ELSE Refuse(r)
  /\ UNCHANGED <<stored, provider, onboarding>>

IntentOf(r) ==
  [sale |-> request[r].sale, account |-> request[r].account,
   requestedAt |-> request[r].now]

SaleIsFree(s) == \A k \in PayoutKeys : intents[k] # None => intents[k].sale # s

\* Mutant of CommitPayoutIntent: only the key is unique.
CommitPayoutIntentPerKey(r) ==
  /\ At(r, "commit")
  /\ LET k == request[r].key
     IN \/ /\ intents[k] = None
           /\ intents' = [intents EXCEPT ![k] = IntentOf(r)]
           /\ Continue(r, "outcome")
        \/ intents[k] = IntentOf(r) /\ Continue(r, "outcome") /\ UNCHANGED intents
        \/ intents[k] \notin {None, IntentOf(r)} /\ Continue(r, "conflict") /\ UNCHANGED intents
  /\ UNCHANGED <<account, links, statuses, outcomes, provider, onboarding>>

\* commitPayoutIntent, one transaction: one intent for each key and each sale;
\* the same intent again is a replay, any other is a conflict.  The transaction
\* also stores the sale's split unless it has one, in a conflict of keys too,
\* where no intent goes with it; a split says what any request of the sale would
\* store, and is not modelled.
CommitPayoutIntent(r) ==
  /\ At(r, "commit")
  /\ LET k == request[r].key
     IN \/ /\ intents[k] = None /\ SaleIsFree(request[r].sale)
           /\ intents' = [intents EXCEPT ![k] = IntentOf(r)]
           /\ Continue(r, "outcome")
        \/ intents[k] = IntentOf(r) /\ Continue(r, "outcome") /\ UNCHANGED intents
        \/ /\ intents[k] # IntentOf(r)
           /\ intents[k] # None \/ ~SaleIsFree(request[r].sale)
           /\ Continue(r, "conflict")
           /\ UNCHANGED intents
  /\ UNCHANGED <<account, links, statuses, outcomes, provider, onboarding>>

\* findPayoutOutcome: an outcome on record is the answer.
FindOutcome(r) ==
  /\ At(r, "outcome")
  /\ CASE outcomes[request[r].key] = None      -> Continue(r, "provider")
       [] outcomes[request[r].key] = "paid"    -> Continue(r, "paid")
       [] outcomes[request[r].key] = "refused" -> Refuse(r)
  /\ UNCHANGED <<stored, provider, onboarding>>

CreatePayout(r) ==
  /\ At(r, "provider")
  /\ payout' = [payout EXCEPT ![request[r].key] =
       IF @ = None
       THEN [sale |-> request[r].sale, account |-> request[r].account, answer |-> "asked"]
       ELSE @]
  /\ Continue(r, "answer")
  /\ UNCHANGED <<stored, created, observed, onboarding>>

\* The provider pays or refuses, perhaps long after the request gave up.
Decide(k) ==
  /\ payout[k] # None /\ payout[k].answer = "asked"
  /\ \E answer \in {"paid", "refused"} : payout' = [payout EXCEPT ![k].answer = answer]
  /\ UNCHANGED <<stored, created, observed, onboarding, request>>

\* Mutant of Answer: a call under way is taken for an answer.
AnswerEarly(r) ==
  /\ At(r, "answer")
  /\ Continue(r, "record")
  /\ UNCHANGED <<stored, provider, onboarding>>

Answer(r) ==
  /\ At(r, "answer")
  /\ payout[request[r].key].answer # "asked"
  /\ Continue(r, "record")
  /\ UNCHANGED <<stored, provider, onboarding>>

\* Mutant of RecordOutcome: the answer does not wait for the record.
RecordOutcomeUnchecked(r) ==
  /\ At(r, "record")
  /\ outcomes' \in {outcomes, [outcomes EXCEPT ![request[r].key] = payout[request[r].key].answer]}
  /\ IF payout[request[r].key].answer = "paid" THEN Continue(r, "paid") ELSE Refuse(r)
  /\ UNCHANGED <<account, links, statuses, intents, provider, onboarding>>

\* appendPayoutOutcome: the evidence of the provider, recorded once.
RecordOutcome(r) ==
  /\ At(r, "record")
  /\ LET k == request[r].key
         answer == payout[k].answer
     IN IF outcomes[k] \in {None, answer}
        THEN /\ outcomes' = [outcomes EXCEPT ![k] = answer]
             /\ IF answer = "paid" THEN Continue(r, "paid") ELSE Refuse(r)
        ELSE UNCHANGED outcomes /\ Continue(r, "conflict")
  /\ UNCHANGED <<account, links, statuses, intents, provider, onboarding>>

\* Mutant of PayoutStops: a call the provider did not answer is on record as
\* refused.
PayoutStopsRefused(r) ==
  /\ Busy(r)
  /\ outcomes' = IF request[r].at = "answer" /\ outcomes[request[r].key] = None
                 THEN [outcomes EXCEPT ![request[r].key] = "refused"] ELSE outcomes
  /\ Refuse(r)
  /\ UNCHANGED <<account, links, statuses, intents, provider, onboarding>>

\* A store call fails, the provider throws or gives no evidence, the process
\* dies: nothing is recorded, a committed intent stays.
PayoutStops(r) ==
  /\ Busy(r)
  /\ Refuse(r)
  /\ UNCHANGED <<stored, provider, onboarding>>

Next ==
  \/ \E o \in Onboardings :
       BeginOnboarding(o) \/ Onboard(o) \/ CommitOnboarding(o) \/ OnboardingStops(o)
  \/ ObserveStatus \/ AppendStatus
  \/ \E r \in Requests :
       \/ BeginPayout(r) \/ CheckStatus(r) \/ CommitPayoutIntent(r) \/ FindOutcome(r)
       \/ CreatePayout(r) \/ Answer(r) \/ RecordOutcome(r) \/ PayoutStops(r)
  \/ \E k \in PayoutKeys : Decide(k)

Spec == Init /\ [][Next]_vars

-----------------------------------------------------------------------------
\* However many requests, keys and retries name a sale, the provider is asked
\* to pay it under one key at most, so it is paid once.
OnePayoutPerSale ==
  \A j, k \in PayoutKeys :
    payout[j] # None /\ payout[k] # None /\ payout[j].sale = payout[k].sale => j = k

\* What is on record of a payout is what the provider did, for good: a payout
\* recorded as failed is never paid later.
OutcomeIsTrue ==
  \A k \in PayoutKeys :
    outcomes[k] # None => payout[k] # None /\ payout[k].answer = outcomes[k]

\* Who is told that a payout succeeded can find it on record, for the sale and
\* the account asked for.
PaidIsRecorded ==
  \A r \in Requests :
    At(r, "paid") =>
      LET k == request[r].key
      IN /\ outcomes[k] = "paid"
         /\ intents[k] = IntentOf(r)
         /\ payout[k].sale = request[r].sale

\* Money and links go to the one account on record, whichever of several
\* concurrent onboardings came first, and only to an account that the
\* provider was once seen to pay out to.
OneAccount ==
  /\ \A k \in LinkKeys : links[k] # None => links[k] = account
  /\ \A k \in PayoutKeys :
       payout[k] # None => /\ payout[k].account = account
                           /\ \E s \in statuses : s.enabled

\* A retry finds the intent of its own first attempt and goes on to its outcome.
RetryFindsOutcome ==
  \A r \in Requests :
    At(r, "conflict") =>
      \/ intents[request[r].key] = None
      \/ intents[request[r].key].sale # request[r].sale
=============================================================================
