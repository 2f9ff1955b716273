---------------------------- MODULE ApplyJournal ----------------------------
(***************************************************************************)
(* The durable apply journal of packages/authoring-core: apply, undo, redo,*)
(* direct edits and recovery (apply-journal.ts, propose-apply.ts), over the*)
(* multi-document write of atomic-write.ts.                                *)
(*                                                                         *)
(* Every operation runs inside one lock on the journal's operation         *)
(* resource, held to its end (module LockFile is that lock), so at most one*)
(* operation is under way: `job`.  A step of a job is one durable write, a *)
(* file replaced by rename; between any two the process may die, which ends*)
(* the job and leaves the disk as it is, its lock included until the next  *)
(* operation reclaims it.  A durable write may also report a failure:      *)
(* "clean", the old bytes are back, or "stuck", the new bytes stay (the    *)
(* rename went through, its directory sync failed and so did the rollback).*)
(* Contents stand for a document's bytes and their hash.                   *)
(***************************************************************************)
EXTENDS Naturals, FiniteSets

CONSTANTS
  Docs,          \* canonical documents of one project
  Contents,      \* what a document may contain
  Missing,       \* a document that is not on disk
  TxIds,         \* transaction identifiers, each drawn once
  None,          \* no entry, no job
  Dead,          \* no job, but the lock file of a process that died in one
  MaxOrder,      \* the last completion order (Number.MAX_SAFE_INTEGER)
  Edits,         \* what a proposal may write: images of one or more documents
  MaxProposals,  \* bound: proposals outstanding at once
  Faults         \* the ways a durable write may fail

\* Bytes of some documents.
Image == UNION {[D -> Contents] : D \in (SUBSET Docs) \ {{}}}

ASSUME DocsAssumption == Missing \notin Contents
ASSUME EditsAssumption == Edits \subseteq Image
ASSUME OrderAssumption == MaxOrder \in Nat
ASSUME FaultsAssumption == Faults \subseteq {"clean", "stuck"}

VARIABLES
  docs,        \* the canonical documents
  active,      \* active.json: the entry under way, or None
  archive,     \* <transaction>.json: the entries that came to an end
  seq,         \* the completion sequence file; 0 when missing or damaged
  proposals,   \* proposals read from the documents some time ago
  job,         \* the operation inside the operation lock
  told,        \* history: what apply answered for a transaction
  superseded   \* history: transactions undone when a later apply committed

disk    == <<docs, active, archive, seq>>
history == <<told, superseded>>
vars    == <<disk, proposals, job, history>>

Plan == {pl \in [before : Image, after : Image] :
           DOMAIN pl.before = DOMAIN pl.after}

States == {"prepared", "undoing", "redoing", "completed", "undone", "aborted"}

\* completionOrder is absent from an aborted entry: 0.
Entry == [tx : TxIds, state : States, order : 0..MaxOrder, plan : Plan]

\* op: the operation.  at: the durable write it makes next.  mode: "own", its
\* own transaction; "first", recovery of what it found when it began; "inline",
\* recovery of its own transaction.  goal: the image it drives the documents
\* to ("abort": they are back, the entry is to be archived as aborted).
\* todo, pre: documents not yet renamed, and the documents before the first.
Job == [op   : {"recover", "apply", "edit", "undo", "redo"},
        at   : {"begin", "main", "reserve", "activate", "commit", "archive",
                "clear", "retract"},
        mode : {"own", "first", "inline"},
        goal : {"before", "after", "abort"},
        plan : Plan \cup {None}, entry : Entry \cup {None},
        todo : SUBSET Docs, pre : [Docs -> Contents \cup {Missing}]]

\* The marks are none of the values they stand beside.
ASSUME MarksAssumption ==
  /\ None \notin Entry /\ None \notin Plan /\ None \notin Job
  /\ Dead \notin Job

TypeOK ==
  /\ docs \in [Docs -> Contents \cup {Missing}]
  /\ active \in Entry \cup {None}
  /\ archive \in [TxIds -> Entry \cup {None}]
  /\ seq \in 0..MaxOrder
  /\ proposals \subseteq Plan
  /\ job \in Job \cup {None, Dead}
  /\ told \in [TxIds -> {"none", "ok", "rejected", "indeterminate"}]
  /\ superseded \subseteq TxIds

Init ==
  /\ docs \in [Docs -> Contents]
  /\ active = None
  /\ archive = [t \in TxIds |-> None]
  /\ seq = 0
  /\ proposals = {}
  /\ job = None
  /\ told = [t \in TxIds |-> "none"]
  /\ superseded = {}

-----------------------------------------------------------------------------
Matches(image) == \A d \in DOMAIN image : docs[d] = image[d]

\* Documents as they are, except those of D, taken from an image.
With(image, D) == [d \in Docs |-> IF d \in D THEN image[d] ELSE docs[d]]

\* What a file may hold after a write that reported a failure.
AfterFailure(old, new) ==
  {old : f \in Faults \cap {"clean"}} \cup {new : f \in Faults \cap {"stuck"}}

InState(state) == {t \in TxIds : archive[t] # None /\ archive[t].state = state}

Fresh == {t \in TxIds : told[t] = "none" /\ archive[t] = None
                        /\ (active # None => active.tx # t)}

\* Mutant of UndoCandidates: the oldest completed entry is taken.
UndoCandidatesOldest ==
  {t \in InState("completed") :
     \A u \in InState("completed") : archive[t].order <= archive[u].order}

\* latestCompletedJournal: the completed entry with the highest order.
UndoCandidates ==
  {t \in InState("completed") :
     \A u \in InState("completed") : archive[u].order <= archive[t].order}

\* nextRedoJournal: the lowest undone entry above every completed one.
AboveCompleted ==
  {t \in InState("undone") :
     \A u \in InState("completed") : archive[u].order < archive[t].order}
RedoCandidates ==
  {t \in AboveCompleted :
     \A u \in AboveCompleted : archive[t].order <= archive[u].order}

\* Mutant of LastOrders: a damaged sequence starts again from nothing.
LastOrdersForgets == {seq}

\* reserveCompletionOrder: the last order given, read from the sequence file
\* or, when that is missing or damaged, rebuilt from the archived entries.
LastOrders ==
  IF seq # 0 THEN {seq}
  ELSE {n \in 0..MaxOrder :
          /\ n = 0 \/ \E t \in TxIds : archive[t] # None /\ archive[t].order = n
          /\ \A t \in TxIds : archive[t] # None => archive[t].order <= n}

-----------------------------------------------------------------------------
Idle == job \in {None, Dead}

At(label) == ~Idle /\ job.at = label

\* The bytes an entry wants its documents to have.
Goal(entry, goal) ==
  IF goal = "after" THEN entry.plan.after ELSE entry.plan.before

Final(goal) == CASE goal = "after"  -> "completed"
                 [] goal = "before" -> "undone"
                 [] goal = "abort"  -> "aborted"

\* The archived form of the job's entry; an aborted one loses its order.
Closed ==
  [job.entry EXCEPT !.state = Final(job.goal),
                    !.order = IF job.goal = "abort" THEN 0 ELSE @]

\* The entry prepareApplyJournal draws up for the apply under way.
Prepared(t, order) ==
  [tx |-> t, state |-> "prepared", order |-> order, plan |-> job.plan]

\* The operation returns and releases its lock; apply answers for the
\* transaction it drew.
Finish(answer) ==
  /\ job' = None
  /\ told' = IF job.op = "apply" /\ job.entry # None
             THEN [told EXCEPT ![job.entry.tx] = answer] ELSE told

Continue(label) == job' = [job EXCEPT !.at = label] /\ UNCHANGED told

\* atomicWriteAll on the documents of `entry`, which now hold `now`.
StartCommit(entry, goal, mode, now) ==
  /\ job' = [job EXCEPT !.at = "commit", !.mode = mode, !.goal = goal,
                        !.entry = entry, !.todo = DOMAIN entry.plan.after,
                        !.pre = now]
  /\ UNCHANGED told

Started(op, plan) ==
  [op |-> op, at |-> IF op = "apply" THEN "main" ELSE "begin", mode |-> "own",
   goal |-> "after", plan |-> plan, entry |-> None, todo |-> {}, pre |-> docs]

-----------------------------------------------------------------------------
\* propose reads documents, at any time and under no lock; a proposal is a
\* file, so it may be applied late, twice, or never.
Propose ==
  /\ Cardinality(proposals) < MaxProposals
  /\ \E after \in Edits :
       LET before == [d \in DOMAIN after |-> docs[d]]
       IN /\ Missing \notin {before[d] : d \in DOMAIN before}
          /\ proposals' = proposals \cup {[before |-> before, after |-> after]}
  /\ UNCHANGED <<disk, job, history>>

Discard ==
  /\ \E plan \in proposals : proposals' = proposals \ {plan}
  /\ UNCHANGED <<disk, job, history>>

\* An operation gets the lock: the previous holder has returned or died.
Begin ==
  /\ Idle
  /\ \/ \E op \in {"recover", "edit", "undo", "redo"} : job' = Started(op, None)
     \/ /\ Fresh # {}
        /\ \E plan \in proposals : job' = Started("apply", plan)
  /\ UNCHANGED <<disk, proposals, history>>

\* recoverIncompleteAppliesLocked, first thing in all but apply.
NothingToRecover ==
  /\ At("begin")
  /\ active = None
  /\ IF job.op = "recover" THEN Finish("none") ELSE Continue("main")
  /\ UNCHANGED <<disk, proposals, superseded>>

\* Mutant of InConflict: only a missing document stops recovery.
InConflictMissing(entry) ==
  \E d \in DOMAIN entry.plan.after : docs[d] = Missing

\* A document that is missing or matches neither image is never overwritten:
\* the operation is refused and the entry stays.
InConflict(entry) ==
  \E d \in DOMAIN entry.plan.after :
    docs[d] \notin {entry.plan.before[d], entry.plan.after[d]}

RecoveryRefused ==
  /\ At("begin")
  /\ active # None
  /\ InConflict(active)
  /\ Finish("none")
  /\ UNCHANGED <<disk, proposals, superseded>>

RecoverEntry ==
  /\ At("begin")
  /\ active # None
  /\ ~InConflict(active)
  /\ StartCommit(active, IF active.state = "undoing" THEN "before" ELSE "after",
                 "first", docs)
  /\ UNCHANGED <<disk, proposals, superseded>>

\* apply: the documents still hold what the proposal read, and no other entry
\* is active; otherwise the proposal is rejected.
ApplyVerify ==
  /\ At("main") /\ job.op = "apply"
  /\ IF Matches(job.plan.before) /\ active = None
     THEN Continue("reserve") ELSE Finish("rejected")
  /\ UNCHANGED <<disk, proposals, superseded>>

\* Mutant of Reserve: the end of the completion sequence is not checked.
ReserveUnchecked ==
  /\ At("reserve")
  /\ \E last \in LastOrders, t \in Fresh :
       /\ seq' = last + 1
       /\ job' = [job EXCEPT !.at = "activate", !.entry = Prepared(t, last + 1)]
  /\ UNCHANGED <<docs, active, archive, proposals, history>>

\* The next order is written to the sequence file, then the entry is drawn up
\* in memory.
Reserve ==
  /\ At("reserve")
  /\ \E last \in LastOrders, t \in Fresh :
       /\ last < MaxOrder
       /\ seq' = last + 1
       /\ job' = [job EXCEPT !.at = "activate", !.entry = Prepared(t, last + 1)]
  /\ UNCHANGED <<docs, active, archive, proposals, history>>

ReserveFails ==
  /\ At("reserve")
  /\ \E last \in LastOrders :
       \/ last = MaxOrder /\ UNCHANGED seq
       \/ last < MaxOrder /\ seq' \in AfterFailure(seq, last + 1)
  /\ Finish("rejected")
  /\ UNCHANGED <<docs, active, archive, proposals, superseded>>

\* undoLastApply and redoLastApply: a candidate, if there is one, is taken
\* when the documents hold exactly its other image.
Reversal(candidates, state, from, goal) ==
  \/ /\ \E t \in candidates :
          /\ Matches(Goal(archive[t], from))
          /\ job' = [job EXCEPT !.at = "activate", !.goal = goal,
                                !.entry = [archive[t] EXCEPT !.state = state]]
     /\ UNCHANGED told
  \/ /\ \A t \in candidates : ~Matches(Goal(archive[t], from))
     /\ Finish("none")

Undo ==
  /\ At("main") /\ job.op = "undo"
  /\ Reversal(UndoCandidates, "undoing", "after", "before")
  /\ UNCHANGED <<disk, proposals, superseded>>

Redo ==
  /\ At("main") /\ job.op = "redo"
  /\ Reversal(RedoCandidates, "redoing", "before", "after")
  /\ UNCHANGED <<disk, proposals, superseded>>

\* writeCanonicalDocument: one document, under the hash or the absence its
\* caller expects, if it expects any.
Edit ==
  /\ At("main") /\ job.op = "edit"
  /\ \E d \in Docs, c \in Contents, expected \in Contents \cup {Missing, None} :
       \/ /\ expected \in {None, docs[d]}
          /\ docs' = [docs EXCEPT ![d] = c]
       \/ /\ expected \in {None, docs[d]}
          /\ docs' \in AfterFailure(docs, [docs EXCEPT ![d] = c])
       \/ /\ expected \notin {None, docs[d]}
          /\ UNCHANGED docs
  /\ Finish("none")
  /\ UNCHANGED <<active, archive, seq, proposals, superseded>>

-----------------------------------------------------------------------------
\* writeActiveJournal(entry): from here on the transaction is durable.
Activate ==
  /\ At("activate")
  /\ active' = job.entry
  /\ StartCommit(job.entry, job.goal, "own", docs)
  /\ UNCHANGED <<docs, archive, seq, proposals, superseded>>

ActivateFails ==
  /\ At("activate")
  /\ active' \in AfterFailure(active, job.entry)
  /\ Finish("rejected")
  /\ UNCHANGED <<docs, archive, seq, proposals, superseded>>

\* atomicWriteAll renames one staged file after the other ...
Rename ==
  /\ At("commit")
  /\ \E d \in job.todo :
       /\ docs' = With(Goal(job.entry, job.goal), {d})
       /\ job' = [job EXCEPT !.todo = @ \ {d}]
  /\ UNCHANGED <<active, archive, seq, proposals, history>>

Committed ==
  /\ At("commit")
  /\ job.todo = {}
  /\ Continue("archive")
  /\ UNCHANGED <<disk, proposals, superseded>>

\* Mutants of RolledBack: the renamed documents are not restored; apply
\* rejects without archiving and withdrawing its entry.
RolledBackUnrestored ==
  /\ At("commit") /\ job.mode = "own" /\ job.op = "apply"
  /\ job' = [job EXCEPT !.at = "archive", !.goal = "abort"]
  /\ UNCHANGED <<disk, proposals, history>>

RolledBackOnly ==
  /\ At("commit")
  /\ "clean" \in Faults
  /\ docs' = job.pre
  /\ Finish("rejected")
  /\ UNCHANGED <<active, archive, seq, proposals, superseded>>

\* ... or fails and restores every document it renamed.  Recovery then gives
\* up; apply archives the entry as aborted, undo and redo withdraw it.
RolledBack ==
  /\ At("commit")
  /\ "clean" \in Faults
  /\ docs' = job.pre
  /\ CASE job.mode # "own"                   -> Finish("indeterminate")
       [] job.mode = "own" /\ job.op = "apply" ->
            /\ job' = [job EXCEPT !.at = "archive", !.goal = "abort"]
            /\ UNCHANGED told
       [] job.mode = "own" /\ job.op # "apply" -> Continue("retract")
  /\ UNCHANGED <<active, archive, seq, proposals, superseded>>

\* The rollback fails too and leaves some of the renamed documents: the
\* operation recovers its own entry at once, in the direction it was going.
LeftPartial ==
  /\ At("commit")
  /\ "stuck" \in Faults
  /\ LET renamed == DOMAIN job.entry.plan.after \ job.todo
     IN /\ renamed # {}
        /\ \E kept \in SUBSET renamed :
             docs' = [d \in Docs |-> IF d \in kept THEN docs[d] ELSE job.pre[d]]
  /\ IF job.mode = "own"
     THEN StartCommit(job.entry, job.goal, "inline", docs')
     ELSE Finish("indeterminate")
  /\ UNCHANGED <<active, archive, seq, proposals, superseded>>

\* A new commit ends the redo branch: what was undone before it is history.
Supersede ==
  superseded' = IF job.goal = "after" /\ job.entry.state = "prepared"
                THEN superseded \cup InState("undone") ELSE superseded

\* writeJournal: the entry reaches its archive in its final state.
Archive ==
  /\ At("archive")
  /\ archive' = [archive EXCEPT ![job.entry.tx] = Closed]
  /\ Supersede
  /\ Continue("clear")
  /\ UNCHANGED <<docs, active, seq, proposals>>

\* Mutant of Clear: recovery leaves the entry active and takes it up again.
ClearKeeps ==
  /\ At("clear")
  /\ IF job.mode = "first"
     THEN Continue("begin") /\ UNCHANGED active
     ELSE /\ active' = None
          /\ Finish(IF job.goal = "abort" THEN "rejected" ELSE "ok")
  /\ UNCHANGED <<docs, archive, seq, proposals, superseded>>

\* writeActiveJournal(null): the transaction is over.
Clear ==
  /\ At("clear")
  /\ active' = None
  /\ IF job.mode = "first" /\ job.op # "recover"
     THEN /\ job' = [job EXCEPT !.at = "main", !.mode = "own", !.entry = None]
          /\ UNCHANGED told
     ELSE Finish(IF job.goal = "abort" THEN "rejected" ELSE "ok")
  /\ UNCHANGED <<docs, archive, seq, proposals, superseded>>

\* Either of the two failed.  An abort turns round and recovers the entry
\* forward; otherwise the documents are right and the operation reports that
\* recovery is pending.
Unfinished ==
  IF job.goal = "abort" THEN StartCommit(job.entry, "after", "inline", docs)
                        ELSE Finish("ok")

\* Mutant of ArchiveFails: the failure is swallowed and the entry cleared.
ArchiveFailsUnseen ==
  /\ At("archive")
  /\ "clean" \in Faults
  /\ Continue("clear")
  /\ UNCHANGED <<disk, proposals, superseded>>

ArchiveFails ==
  /\ At("archive")
  /\ \/ "clean" \in Faults /\ UNCHANGED <<archive, superseded>>
     \/ /\ "stuck" \in Faults
        /\ archive' = [archive EXCEPT ![job.entry.tx] = Closed]
        /\ Supersede
  /\ Unfinished
  /\ UNCHANGED <<docs, active, seq, proposals>>

ClearFails ==
  /\ At("clear")
  /\ active' \in AfterFailure(active, None)
  /\ Unfinished
  /\ UNCHANGED <<docs, archive, seq, proposals, superseded>>

\* Undo or redo withdraws its entry after a rollback and reports a conflict.
Retract ==
  /\ At("retract")
  /\ \/ active' = None
     \/ active' \in AfterFailure(active, None)
  /\ Finish("none")
  /\ UNCHANGED <<docs, archive, seq, proposals, superseded>>

-----------------------------------------------------------------------------
\* The process dies inside the operation; its lock is left behind.
Crash ==
  /\ ~Idle
  /\ job' = Dead
  /\ UNCHANGED <<disk, proposals, history>>

\* Someone outside the program rewrites or removes a document.
Foreign ==
  /\ Idle
  /\ \E d \in Docs, c \in Contents \cup {Missing} :
       docs' = [docs EXCEPT ![d] = c]
  /\ UNCHANGED <<active, archive, seq, proposals, job, history>>

\* The sequence file is lost or damaged.
DamageSequence ==
  /\ Idle
  /\ seq' = 0
  /\ UNCHANGED <<docs, active, archive, proposals, job, history>>

Step ==
  \/ NothingToRecover \/ RecoveryRefused \/ RecoverEntry
  \/ ApplyVerify \/ Reserve \/ Undo \/ Redo \/ Edit
  \/ Activate \/ Rename \/ Committed \/ Archive \/ Clear \/ Retract

Fault ==
  \/ ReserveFails \/ ActivateFails \/ RolledBack \/ LeftPartial
  \/ ArchiveFails \/ ClearFails

Next ==
  \/ Propose \/ Discard \/ Begin \/ Step \/ Fault
  \/ Crash \/ Foreign \/ DamageSequence

Spec == Init /\ [][Next]_vars

\* Calls are synchronous and run to their end.  Recovery is called again and
\* again as long as the project is worked on, since every propose and every
\* apply calls it before anything else: however many other operations get the
\* lock in between, it gets it too.
BeginRecovery == Begin /\ job'.op = "recover"
FairSpec == Spec /\ WF_vars(Step) /\ SF_vars(BeginRecovery)

-----------------------------------------------------------------------------
\* Once apply has answered that a transaction is applied, it is archived as
\* applied (or later undone), or its entry is still active and recovery will
\* finish it; a crash or a failed write afterwards never loses it.
AckDurable ==
  \A t \in TxIds : told[t] = "ok" =>
    \/ archive[t] # None /\ archive[t].state \in {"completed", "undone"}
    \/ active # None /\ active.tx = t

\* A transaction apply has rejected is never applied afterwards, by recovery
\* or by redo.
RejectedStaysRejected ==
  \A t \in TxIds : told[t] = "rejected" =>
    /\ archive[t] # None => archive[t].state = "aborted"
    /\ active # None => active.tx # t

\* Completion orders identify transactions, whatever became of the sequence
\* file: undo and redo choose by them.
OrderUnique ==
  \A t, u \in TxIds :
    /\ t # u /\ archive[t] # None /\ archive[u] # None
         => archive[t].order # archive[u].order \/ archive[t].order = 0
    /\ active # None /\ archive[t] # None /\ archive[t].order = active.order
         => t = active.tx

\* Recovery, undo, redo and rollback replace only bytes of the transaction at
\* hand: a document that someone else changed is never overwritten, except by
\* a direct edit that asked for it.
NeverOverwritesForeign ==
  [][~Idle /\ job.op # "edit" =>
       \A d \in Docs : docs'[d] # docs[d] =>
         /\ job.entry # None
         /\ docs[d] \in {job.entry.plan.before[d],
                         job.entry.plan.after[d]}]_vars

\* redo never brings back a transaction that was undone before a newer apply
\* committed.
RedoSkipsSuperseded ==
  active # None /\ active.state = "redoing" => active.tx \notin superseded

\* Refinement: while an entry is active its documents count as still holding
\* the image the transaction starts from and its fate as undecided; clearing
\* active.json is the moment it takes effect.
Source(entry) ==
  IF entry.state = "undoing" THEN entry.plan.after ELSE entry.plan.before

Settled(t) == archive[t] # None /\ (active = None \/ active.tx # t)
Reverting(t) == active # None /\ active.tx = t /\ active.state # "prepared"
Ranked(t) ==
  Reverting(t) \/ (Settled(t) /\ archive[t].state \in {"completed", "undone"})

History == INSTANCE ProjectHistory WITH
  content <- IF active = None THEN docs
             ELSE With(Source(active), DOMAIN active.plan.after),
  fate <- [t \in TxIds |->
             IF Reverting(t)
             THEN IF active.state = "undoing" THEN "applied" ELSE "undone"
             ELSE CASE ~Settled(t) -> "none"
                    [] Settled(t) ->
                         CASE archive[t].state = "completed" -> "applied"
                           [] archive[t].state = "undone"    -> "undone"
                           [] archive[t].state = "aborted"   -> "aborted"],
  rank <- [t \in TxIds |-> IF Ranked(t) THEN archive[t].order ELSE 0],
  change <- [t \in TxIds |-> IF Ranked(t) THEN archive[t].plan ELSE None]

\* Transactions are atomic, and undo and redo exact, through every crash,
\* every failed write that restores the old bytes and every recovery.
ImplementsHistory == History!Spec

\* Once crashes and failing writes stop, an interrupted transaction is driven
\* to its end, unless a document was changed from outside to bytes it does not
\* know.
Recovers ==
  (<>[][~Crash /\ ~Fault]_vars) =>
    (active # None ~> active = None \/ InConflict(active))
=============================================================================
