--------------------------- MODULE CreditAccount ---------------------------
(***************************************************************************)
(* What the credit store promises of one account, stated without rows,     *)
(* statuses, stale reads or retries: credits are free or promised to a     *)
(* hosted call; a promise is made once at a time and ends by being spent   *)
(* or given back, whole, and a spent one is never made again; any other    *)
(* movement happens once, by its own amount, out of what is free.          *)
(***************************************************************************)
EXTENDS Integers

CONSTANTS
  UsageKeys,  \* hosted calls
  Moves,      \* other movements: [key, delta]
  None, Spent

VARIABLES
  free,     \* credits nobody was promised
  promise,  \* per hosted call: the credits promised, None or Spent
  moved     \* keys of the movements made

avars == <<free, promise, moved>>

Init ==
  /\ free = 0
  /\ promise = [k \in UsageKeys |-> None]
  /\ moved = {}

Promise(k) ==
  /\ promise[k] = None
  /\ \E amount \in 1..free :
       /\ promise' = [promise EXCEPT ![k] = amount]
       /\ free' = free - amount
  /\ UNCHANGED moved

Promised(k) == promise[k] \notin {None, Spent}

Spend(k) ==
  /\ Promised(k)
  /\ promise' = [promise EXCEPT ![k] = Spent]
  /\ UNCHANGED <<free, moved>>

GiveBack(k) ==
  /\ Promised(k)
  /\ promise' = [promise EXCEPT ![k] = None]
  /\ free' = free + promise[k]
  /\ UNCHANGED moved

Move ==
  /\ \E m \in Moves :
       /\ m.key \notin moved
       /\ free + m.delta >= 0
       /\ free' = free + m.delta
       /\ moved' = moved \cup {m.key}
  /\ UNCHANGED promise

Next == Move \/ \E k \in UsageKeys : Promise(k) \/ Spend(k) \/ GiveBack(k)

Spec == Init /\ [][Next]_avars
=============================================================================
