--------------------------- MODULE ProjectHistory ---------------------------
(***************************************************************************)
(* What the authoring core promises about a project's documents, stated    *)
(* without files, journals or failures: a transaction changes all its      *)
(* documents at once or none of them, undo takes back the newest applied   *)
(* transaction exactly, redo brings the nearest undone one back exactly,   *)
(* and anyone may rewrite one document at any time.                        *)
(***************************************************************************)
EXTENDS Naturals

CONSTANTS Docs, Contents, Missing, TxIds, None, Plan, MaxOrder

VARIABLES
  content,   \* what each document contains
  fate,      \* what became of each transaction
  rank,      \* the position of an applied or undone transaction, else 0
  change     \* the before and after images it was committed with, or None

hvars == <<content, fate, rank, change>>

Init ==
  /\ content \in [Docs -> Contents]
  /\ fate = [t \in TxIds |-> "none"]
  /\ rank = [t \in TxIds |-> 0]
  /\ change = [t \in TxIds |-> None]

Applied == {t \in TxIds : fate[t] = "applied"}
Undone  == {t \in TxIds : fate[t] = "undone"}

Holds(image) == \A d \in DOMAIN image : content[d] = image[d]
Put(image) ==
  content' = [d \in Docs |->
                IF d \in DOMAIN image THEN image[d] ELSE content[d]]

\* A new transaction goes on top of everything applied or undone so far.
Commit(t) ==
  /\ fate[t] = "none"
  /\ \E plan \in Plan, n \in 1..MaxOrder :
       /\ Holds(plan.before)
       /\ Put(plan.after)
       /\ \A u \in Applied \cup Undone : rank[u] < n
       /\ rank' = [rank EXCEPT ![t] = n]
       /\ change' = [change EXCEPT ![t] = plan]
  /\ fate' = [fate EXCEPT ![t] = "applied"]

Undo(t) ==
  /\ t \in Applied
  /\ \A u \in Applied : rank[u] <= rank[t]
  /\ Holds(change[t].after)
  /\ Put(change[t].before)
  /\ fate' = [fate EXCEPT ![t] = "undone"]
  /\ UNCHANGED <<rank, change>>

Redo(t) ==
  /\ t \in Undone
  /\ \A u \in Applied : rank[u] < rank[t]
  /\ \A u \in Undone : rank[u] < rank[t] => \E v \in Applied : rank[u] < rank[v]
  /\ Holds(change[t].before)
  /\ Put(change[t].after)
  /\ fate' = [fate EXCEPT ![t] = "applied"]
  /\ UNCHANGED <<rank, change>>

\* A transaction given up leaves no trace on the documents.
Abort(t) ==
  /\ fate[t] = "none"
  /\ fate' = [fate EXCEPT ![t] = "aborted"]
  /\ UNCHANGED <<content, rank, change>>

Write ==
  /\ \E d \in Docs, c \in Contents \cup {Missing} :
       content' = [content EXCEPT ![d] = c]
  /\ UNCHANGED <<fate, rank, change>>

Next ==
  \/ \E t \in TxIds : Commit(t) \/ Undo(t) \/ Redo(t) \/ Abort(t)
  \/ Write

Spec == Init /\ [][Next]_hvars
=============================================================================
