------------------------- MODULE ApplyJournalProofs -------------------------
(***************************************************************************)
(* Theorems about ApplyJournal for any documents, contents, transactions,  *)
(* orders and proposals.  Types, completion orders and what is overwritten *)
(* hold whatever way a durable write may fail.  What apply has answered    *)
(* stays true when a write that fails restores the old bytes ("stuck" is   *)
(* not among the faults).                                                  *)
(***************************************************************************)
EXTENDS ApplyJournal, TLAPS

Archived(t, states) == archive[t] # None /\ archive[t].state \in states

\* An archived entry is filed under its own transaction.
ArchiveOK == \A t \in TxIds : archive[t] # None => archive[t].tx = t

-----------------------------------------------------------------------------
(* The types.                                                              *)

LEMMA ImageType ==
  ASSUME NEW image \in Image
  PROVE  /\ DOMAIN image \subseteq Docs
         /\ DOMAIN image # {}
         /\ \A d \in DOMAIN image : image[d] \in Contents
<1>1. PICK D \in (SUBSET Docs) \ {{}} : image \in [D -> Contents]
  BY DEF Image
<1>2. DOMAIN image = D
  BY <1>1
<1>3. \A d \in D : image[d] \in Contents
  BY <1>1
<1> QED
  BY <1>1, <1>2, <1>3

LEMMA GoalType ==
  ASSUME NEW entry \in Entry, NEW goal
  PROVE  /\ Goal(entry, goal) \in Image
         /\ DOMAIN Goal(entry, goal) = DOMAIN entry.plan.after
         /\ DOMAIN entry.plan.after \subseteq Docs
  BY ImageType DEF Entry, Plan, Goal

LEMMA WithType ==
  ASSUME docs \in [Docs -> Contents \cup {Missing}], NEW image \in Image,
         NEW D \in SUBSET DOMAIN image
  PROVE  With(image, D) \in [Docs -> Contents \cup {Missing}]
  BY ImageType DEF With

LEMMA AfterFailureType ==
  ASSUME NEW S, NEW old \in S, NEW new \in S
  PROVE  AfterFailure(old, new) \subseteq S
  BY DEF AfterFailure

\* Without stuck writes a write that fails changes nothing.
LEMMA AfterCleanFailure ==
  ASSUME "stuck" \notin Faults, NEW old, NEW new, NEW x \in AfterFailure(old, new)
  PROVE  x = old
  BY DEF AfterFailure

LEMMA ClosedType ==
  ASSUME job \in Job, job.entry # None
  PROVE  /\ Closed \in Entry
         /\ Closed.tx = job.entry.tx
         /\ Closed.plan = job.entry.plan
         /\ Closed.state = Final(job.goal)
         /\ Closed.order = IF job.goal = "abort" THEN 0 ELSE job.entry.order
<1>1. job.entry \in Entry /\ job.goal \in {"before", "after", "abort"}
  BY DEF Job
<1>2. Final(job.goal) \in States
  BY <1>1 DEF Final, States
<1>3. 0 \in 0..MaxOrder
  BY OrderAssumption
<1> QED
  BY <1>1, <1>2, <1>3 DEF Closed, Entry

\* The moves of a job, as far as its type goes.
LEMMA StartCommitType ==
  ASSUME job \in Job, NEW entry \in Entry, NEW goal \in {"before", "after"},
         NEW mode \in {"own", "first", "inline"},
         NEW now \in [Docs -> Contents \cup {Missing}],
         StartCommit(entry, goal, mode, now)
  PROVE  job' \in Job
  BY GoalType DEF StartCommit, Job

LEMMA FinishType ==
  ASSUME job \in Job, told \in [TxIds -> {"none", "ok", "rejected", "indeterminate"}],
         NEW answer \in {"none", "ok", "rejected", "indeterminate"},
         Finish(answer)
  PROVE  /\ job' = None
         /\ told' \in [TxIds -> {"none", "ok", "rejected", "indeterminate"}]
  BY DEF Finish, Job, Entry

-----------------------------------------------------------------------------
(* The disk and what a job carries, whatever way a write may fail.         *)

\* What is on disk has its type, an archived entry stands under its own name.
DiskOK ==
  /\ docs \in [Docs -> Contents \cup {Missing}]
  /\ active \in Entry \cup {None}
  /\ archive \in [TxIds -> Entry \cup {None}]
  /\ seq \in 0..MaxOrder
  /\ proposals \subseteq Plan
  /\ superseded \subseteq TxIds
  /\ ArchiveOK

\* What a job carries.  A write that stays on disk while it reports a failure
\* may have withdrawn the entry the job is still working on.
WorkOK ==
  ~Idle =>
    /\ job.at \in {"begin", "main", "reserve"} <=> job.entry = None
    /\ job.at = "reserve" => job.op = "apply" /\ active = None
    /\ job.op = "apply" => job.plan \in Plan
    /\ job.at \in {"commit", "archive", "clear", "retract"} => active \in {job.entry, None}
    /\ job.at = "commit" => job.todo \subseteq DOMAIN job.entry.plan.after
    /\ job.goal = "abort" => job.at \in {"archive", "clear"} /\ job.mode # "first"

CarriedOK ==
  /\ job \in Job \cup {None, Dead}
  /\ told \in [TxIds -> {"none", "ok", "rejected", "indeterminate"}]
  /\ WorkOK

BaseInv == DiskOK /\ CarriedOK

LEMMA BaseTypes == BaseInv => TypeOK /\ ArchiveOK
BY DEF BaseInv, DiskOK, CarriedOK, TypeOK

LEMMA BaseInit == Init => BaseInv
BY OrderAssumption DEF Init, BaseInv, DiskOK, CarriedOK, ArchiveOK, WorkOK, Idle

LEMMA ProposeDisk ==
  ASSUME BaseInv, Propose
  PROVE  DiskOK'
<1>1. PICK after \in Edits :
        LET before == [d \in DOMAIN after |-> docs[d]]
        IN /\ Missing \notin {before[d] : d \in DOMAIN before}
           /\ proposals' = proposals \cup {[before |-> before, after |-> after]}
  BY DEF Propose
<1> DEFINE before == [d \in DOMAIN after |-> docs[d]]
<1>2. after \in Image
  BY EditsAssumption
<1>3. before \in Image
  <2>1. PICK D \in (SUBSET Docs) \ {{}} : after \in [D -> Contents]
    BY <1>2 DEF Image
  <2>2. before \in [D -> Contents]
    BY <1>1, <2>1 DEF BaseInv, DiskOK
  <2> QED
    BY <2>1, <2>2 DEF Image
<1>4. [before |-> before, after |-> after] \in Plan
  BY <1>2, <1>3 DEF Plan
<1> QED
  BY <1>1, <1>4 DEF BaseInv, DiskOK, ArchiveOK, Propose, disk, history

\* A job at work on an entry.
LEMMA AtWork ==
  ASSUME BaseInv, ~Idle
  PROVE  /\ job \in Job
         /\ job.at \in {"activate", "commit", "archive", "clear", "retract"} =>
              job.entry \in Entry /\ job.entry # None /\ job.entry.tx \in TxIds
BY MarksAssumption DEF BaseInv, CarriedOK, WorkOK, Idle, Job, Entry

LEMMA OrdersInRange ==
  ASSUME BaseInv, NEW last \in LastOrders
  PROVE  last \in 0..MaxOrder /\ (last < MaxOrder => last + 1 \in 0..MaxOrder)
BY OrderAssumption DEF LastOrders, BaseInv, DiskOK

\* The writes of one document, of several, and of none.
LEMMA DocsDisk ==
  ASSUME BaseInv, Edit \/ Foreign \/ Rename \/ RolledBack \/ LeftPartial
  PROVE  DiskOK'
<1>1. UNCHANGED <<active, archive, seq, proposals, superseded>>
  BY DEF Edit, Foreign, Rename, RolledBack, LeftPartial, history
<1>2. docs' \in [Docs -> Contents \cup {Missing}]
  <2>1. docs \in [Docs -> Contents \cup {Missing}]
    BY DEF BaseInv, DiskOK
  <2>2. CASE Edit \/ Foreign
    BY <2>1, <2>2 DEF Edit, Foreign, AfterFailure
  <2>3. CASE Rename
    <3>1. PICK d \in job.todo : docs' = With(Goal(job.entry, job.goal), {d})
      BY <2>3 DEF Rename
    <3>2. ~Idle /\ job.at = "commit" /\ job.todo \subseteq DOMAIN job.entry.plan.after
          /\ job.entry \in Entry
      BY <2>3, AtWork DEF Rename, At, BaseInv, CarriedOK, WorkOK
    <3>3. {d} \in SUBSET DOMAIN Goal(job.entry, job.goal)
      BY <3>2, GoalType
    <3> QED
      BY <2>1, <3>1, <3>2, <3>3, GoalType, WithType
  <2>4. CASE RolledBack \/ LeftPartial
    <3>1. job.pre \in [Docs -> Contents \cup {Missing}]
      BY <2>4, AtWork DEF RolledBack, LeftPartial, At, Job
    <3> QED
      BY <2>1, <2>4, <3>1 DEF RolledBack, LeftPartial
  <2> QED
    BY <2>2, <2>3, <2>4
<1> QED
  BY <1>1, <1>2 DEF BaseInv, DiskOK, ArchiveOK

\* The writes of the journal's files.
LEMMA JournalDisk ==
  ASSUME BaseInv,
         \/ Reserve \/ ReserveFails \/ DamageSequence
         \/ Activate \/ ActivateFails \/ Clear \/ ClearFails \/ Retract
         \/ Archive \/ ArchiveFails
  PROVE  DiskOK'
<1>1. CASE Reserve \/ ReserveFails \/ DamageSequence
  <2>1. CASE Reserve
    <3>1. PICK last \in LastOrders : last < MaxOrder /\ seq' = last + 1
      BY <2>1 DEF Reserve
    <3>2. seq' \in 0..MaxOrder
      BY <3>1, OrdersInRange
    <3> QED
      BY <2>1, <3>2 DEF BaseInv, DiskOK, ArchiveOK, Reserve, history
  <2>2. CASE ReserveFails
    <3>1. PICK last \in LastOrders :
            \/ UNCHANGED seq
            \/ last < MaxOrder /\ seq' \in AfterFailure(seq, last + 1)
      BY <2>2 DEF ReserveFails
    <3>2. seq' \in 0..MaxOrder
      BY <3>1, OrdersInRange DEF AfterFailure, BaseInv, DiskOK
    <3> QED
      BY <2>2, <3>2 DEF BaseInv, DiskOK, ArchiveOK, ReserveFails
  <2>3. CASE DamageSequence
    BY <2>3, OrderAssumption DEF BaseInv, DiskOK, ArchiveOK, DamageSequence, history
  <2> QED
    BY <1>1, <2>1, <2>2, <2>3
<1>2. CASE Activate \/ ActivateFails \/ Clear \/ ClearFails \/ Retract
  <2>1. active' \in Entry \cup {None}
    BY <1>2, AtWork DEF Activate, ActivateFails, Clear, ClearFails, Retract, AfterFailure,
       At, BaseInv, DiskOK
  <2> QED
    BY <1>2, <2>1 DEF BaseInv, DiskOK, ArchiveOK, Activate, ActivateFails, Clear,
       ClearFails, Retract
<1>3. CASE Archive \/ ArchiveFails
  <2>1. /\ job \in Job /\ job.entry \in Entry /\ job.entry # None /\ job.entry.tx \in TxIds
    BY <1>3, AtWork DEF Archive, ArchiveFails, At
  <2>2. Closed \in Entry /\ Closed.tx = job.entry.tx
    BY <2>1, ClosedType
  <2>3. \/ archive' = archive /\ superseded' = superseded
        \/ archive' = [archive EXCEPT ![job.entry.tx] = Closed] /\ Supersede
    BY <1>3 DEF Archive, ArchiveFails
  <2>4. superseded' \subseteq TxIds
    BY <2>3 DEF Supersede, InState, BaseInv, DiskOK
  <2>5. archive' \in [TxIds -> Entry \cup {None}] /\ ArchiveOK'
    BY <2>1, <2>2, <2>3 DEF BaseInv, DiskOK, ArchiveOK
  <2> QED
    BY <1>3, <2>4, <2>5 DEF BaseInv, DiskOK, Archive, ArchiveFails
<1> QED
  BY <1>1, <1>2, <1>3

LEMMA NextDisk ==
  ASSUME BaseInv, Next
  PROVE  DiskOK'
<1>1. CASE \/ Discard \/ Begin \/ Crash \/ NothingToRecover \/ RecoveryRefused
           \/ RecoverEntry \/ ApplyVerify \/ Undo \/ Redo \/ Committed
  <2>1. UNCHANGED <<disk, superseded>> /\ proposals' \subseteq proposals
    BY <1>1 DEF Discard, Begin, Crash, NothingToRecover, RecoveryRefused, RecoverEntry,
       ApplyVerify, Undo, Redo, Committed, history
  <2> QED
    BY <2>1 DEF BaseInv, DiskOK, ArchiveOK, disk
<1> QED
  BY <1>1, ProposeDisk, DocsDisk, JournalDisk DEF Next, Step, Fault

\* The moves of a job, as far as what it carries goes.
LEMMA FinishBase ==
  ASSUME BaseInv, ~Idle, NEW answer \in {"none", "ok", "rejected", "indeterminate"},
         Finish(answer)
  PROVE  CarriedOK'
<1>1. job \in Job
  BY AtWork
<1>2. job' = None /\ told' \in [TxIds -> {"none", "ok", "rejected", "indeterminate"}]
  BY <1>1, FinishType DEF BaseInv, CarriedOK
<1> QED
  BY <1>2 DEF CarriedOK, WorkOK, Idle

LEMMA StartCommitBase ==
  ASSUME BaseInv, ~Idle, NEW entry \in Entry, NEW goal \in {"before", "after"},
         NEW mode \in {"own", "first", "inline"},
         NEW now \in [Docs -> Contents \cup {Missing}],
         StartCommit(entry, goal, mode, now), active' \in {entry, None}
  PROVE  CarriedOK'
<1>1. job \in Job
  BY AtWork
<1>2. job' \in Job
  BY <1>1, StartCommitType
<1>3. /\ job'.at = "commit" /\ job'.entry = entry /\ job'.goal = goal
      /\ job'.todo = DOMAIN entry.plan.after
      /\ job'.op = job.op /\ job'.plan = job.plan
  BY <1>1 DEF StartCommit, Job
<1>4. entry # None
  BY MarksAssumption
<1> QED
  BY <1>2, <1>3, <1>4 DEF StartCommit, BaseInv, CarriedOK, WorkOK

\* The job goes on with the entry, the goal and the plan it has.
LEMMA ContinueBase ==
  ASSUME BaseInv, ~Idle, NEW label, Continue(label),
         \/ /\ label \in {"archive", "clear", "retract"}
            /\ job.at \in {"commit", "archive", "clear", "retract"}
            /\ active' = active /\ (job.goal = "abort" => label \in {"archive", "clear"})
         \/ label = "main" /\ job.at = "begin"
         \/ label = "reserve" /\ job.at = "main" /\ job.op = "apply" /\ active' = None
  PROVE  CarriedOK'
<1>1. job \in Job
  BY AtWork
<1>2. job' \in Job
  BY <1>1 DEF Continue, Job
<1>3. /\ job'.at = label /\ job'.entry = job.entry /\ job'.goal = job.goal
      /\ job'.mode = job.mode
      /\ job'.op = job.op /\ job'.plan = job.plan
  BY <1>1 DEF Continue, Job
<1> QED
  BY <1>2, <1>3 DEF Continue, BaseInv, CarriedOK, WorkOK

\* Steps outside the job, and the steps that begin and end it.
LEMMA OutsideCarried ==
  ASSUME BaseInv,
         \/ Propose \/ Discard \/ Foreign \/ DamageSequence \/ Begin \/ Crash
  PROVE  CarriedOK'
<1>1. CASE Propose \/ Discard
  BY <1>1 DEF Propose, Discard, disk, history, BaseInv, CarriedOK, WorkOK, Idle
<1>2. CASE Foreign \/ DamageSequence
  BY <1>2 DEF Foreign, DamageSequence, history, BaseInv, CarriedOK, WorkOK, Idle
<1>3. CASE Crash
  BY <1>3 DEF Crash, history, BaseInv, CarriedOK, WorkOK, Idle
<1>4. CASE Begin
  <2>1. PICK op \in {"recover", "apply", "edit", "undo", "redo"}, plan \in Plan \cup {None} :
          job' = Started(op, plan) /\ (op = "apply" => plan \in Plan)
    BY <1>4 DEF Begin, BaseInv, DiskOK
  <2>2. /\ job' \in Job /\ job'.at \in {"begin", "main"} /\ job'.entry = None
        /\ job'.op = op /\ job'.plan = plan /\ job'.goal = "after"
    BY <2>1 DEF Started, Job, BaseInv, DiskOK
  <2> QED
    BY <1>4, <2>1, <2>2 DEF Begin, history, BaseInv, CarriedOK, WorkOK
<1> QED
  BY <1>1, <1>2, <1>3, <1>4

LEMMA BeforeCarried ==
  ASSUME BaseInv,
         \/ NothingToRecover \/ RecoveryRefused \/ RecoverEntry \/ ApplyVerify \/ Edit
         \/ ReserveFails
  PROVE  CarriedOK'
<1>1. CASE NothingToRecover
  BY <1>1, FinishBase, ContinueBase DEF NothingToRecover, At
<1>2. CASE RecoveryRefused \/ Edit \/ ReserveFails
  BY <1>2, FinishBase DEF RecoveryRefused, Edit, ReserveFails, At
<1>3. CASE RecoverEntry
  <2>1. active \in Entry /\ active' = active /\ docs \in [Docs -> Contents \cup {Missing}]
    BY <1>3 DEF RecoverEntry, disk, BaseInv, DiskOK
  <2>2. PICK goal \in {"before", "after"} : StartCommit(active, goal, "first", docs)
    BY <1>3 DEF RecoverEntry
  <2> QED
    BY <1>3, <2>1, <2>2, StartCommitBase DEF RecoverEntry, At
<1>4. CASE ApplyVerify
  BY <1>4, FinishBase, ContinueBase DEF ApplyVerify, At, disk
<1> QED
  BY <1>1, <1>2, <1>3, <1>4

LEMMA ReserveCarried ==
  ASSUME BaseInv, Reserve
  PROVE  CarriedOK'
<1>1. PICK last \in LastOrders, t \in Fresh :
        /\ last < MaxOrder
        /\ job' = [job EXCEPT !.at = "activate", !.entry = Prepared(t, last + 1)]
  BY DEF Reserve
<1>2. /\ job \in Job /\ ~Idle /\ job.plan \in Plan /\ job.op = "apply"
      /\ job.goal # "abort" /\ t \in TxIds
  BY AtWork DEF Reserve, At, BaseInv, CarriedOK, WorkOK, Fresh
<1>3. Prepared(t, last + 1) \in Entry
  BY <1>1, <1>2, OrdersInRange DEF Prepared, Entry, States
<1>4. /\ job' \in Job /\ job'.at = "activate" /\ job'.entry = Prepared(t, last + 1)
      /\ job'.goal = job.goal /\ job'.op = job.op /\ job'.plan = job.plan
      /\ job'.mode = job.mode
  BY <1>1, <1>2, <1>3 DEF Job
<1> QED
  BY <1>2, <1>3, <1>4, MarksAssumption DEF Reserve, history, BaseInv, CarriedOK, WorkOK

LEMMA ReversalCarried ==
  ASSUME BaseInv, At("main"), job.op # "apply",
         NEW candidates \in SUBSET TxIds,
         \A t \in candidates : archive[t] # None,
         NEW state \in States, NEW from, NEW goal \in {"before", "after"},
         Reversal(candidates, state, from, goal)
  PROVE  CarriedOK'
<1>1. job \in Job /\ ~Idle
  BY AtWork DEF At
<1>2. CASE Finish("none")
  BY <1>1, <1>2, FinishBase
<1>3. ASSUME NEW t \in candidates, UNCHANGED told,
             job' = [job EXCEPT !.at = "activate", !.goal = goal,
                                !.entry = [archive[t] EXCEPT !.state = state]]
      PROVE  CarriedOK'
  <2>1. archive[t] \in Entry
    BY DEF BaseInv, DiskOK
  <2> DEFINE e == [archive[t] EXCEPT !.state = state]
  <2>2. e \in Entry
    BY <2>1 DEF Entry
  <2>3. job' = [job EXCEPT !.at = "activate", !.goal = goal, !.entry = e]
    BY <1>3
  <2> HIDE DEF e
  <2>4. /\ job' \in Job /\ job'.at = "activate" /\ job'.entry = e /\ job'.goal = goal
        /\ job'.op = job.op /\ job'.plan = job.plan
    BY <1>1, <2>2, <2>3 DEF Job
  <2> QED
    BY <1>1, <1>3, <2>2, <2>4, MarksAssumption DEF BaseInv, CarriedOK, WorkOK
<1> QED
  BY <1>2, <1>3 DEF Reversal

LEMMA CommitCarried ==
  ASSUME BaseInv,
         Activate \/ ActivateFails \/ Rename \/ Committed \/ RolledBack \/ LeftPartial
  PROVE  CarriedOK'
<1>1. /\ job \in Job /\ ~Idle /\ job.entry \in Entry /\ job.entry # None
      /\ job.at \in {"activate", "commit"} /\ job.goal \in {"before", "after"}
      /\ job.mode \in {"own", "first", "inline"}
      /\ docs \in [Docs -> Contents \cup {Missing}]
  BY AtWork DEF Activate, ActivateFails, Rename, Committed, RolledBack, LeftPartial, At,
     BaseInv, DiskOK, CarriedOK, WorkOK, Job
<1>2. CASE Activate
  BY <1>1, <1>2, StartCommitBase DEF Activate
<1>3. CASE ActivateFails
  BY <1>1, <1>3, FinishBase DEF ActivateFails
<1>4. CASE Rename
  <2>1. PICK d \in job.todo : job' = [job EXCEPT !.todo = @ \ {d}]
    BY <1>4 DEF Rename
  <2>2. /\ job' \in Job /\ job'.at = job.at /\ job'.entry = job.entry
        /\ job'.goal = job.goal /\ job'.op = job.op /\ job'.plan = job.plan
        /\ job'.mode = job.mode
        /\ job'.todo \subseteq job.todo
    BY <1>1, <2>1 DEF Job
  <2> QED
    BY <1>1, <1>4, <2>2 DEF Rename, history, At, BaseInv, CarriedOK, WorkOK
<1>5. CASE Committed
  BY <1>1, <1>5, ContinueBase DEF Committed, At, disk
<1>6. CASE RolledBack
  <2>1. CASE Finish("indeterminate")
    BY <1>1, <2>1, FinishBase
  <2>2. CASE Continue("retract")
    BY <1>1, <1>6, <2>2, ContinueBase DEF RolledBack, At
  <2>3. CASE /\ job' = [job EXCEPT !.at = "archive", !.goal = "abort"]
             /\ job.mode = "own" /\ UNCHANGED told
    <3>1. /\ job' \in Job /\ job'.at = "archive" /\ job'.entry = job.entry
          /\ job'.mode = job.mode /\ job'.op = job.op /\ job'.plan = job.plan
      BY <1>1, <2>3 DEF Job
    <3> QED
      BY <1>1, <1>6, <2>3, <3>1 DEF RolledBack, At, BaseInv, CarriedOK, WorkOK
  <2> QED
    BY <1>6, <2>1, <2>2, <2>3 DEF RolledBack
<1>7. CASE LeftPartial
  <2>1. docs' \in [Docs -> Contents \cup {Missing}] /\ active' \in {job.entry, None}
    BY <1>1, <1>7, DocsDisk DEF DiskOK, LeftPartial, At, BaseInv, CarriedOK, WorkOK
  <2>2. PICK now : now = docs'
    OBVIOUS
  <2>3. \/ StartCommit(job.entry, job.goal, "inline", now)
        \/ Finish("indeterminate")
    BY <1>7, <2>2 DEF LeftPartial
  <2> QED
    BY <1>1, <2>1, <2>2, <2>3, StartCommitBase, FinishBase
<1> QED
  BY <1>2, <1>3, <1>4, <1>5, <1>6, <1>7

LEMMA EndCarried ==
  ASSUME BaseInv, Archive \/ Clear \/ ArchiveFails \/ ClearFails \/ Retract
  PROVE  CarriedOK'
<1>1. /\ job \in Job /\ ~Idle /\ job.entry \in Entry /\ job.entry # None
      /\ job.at \in {"archive", "clear", "retract"} /\ active \in {job.entry, None}
      /\ docs \in [Docs -> Contents \cup {Missing}]
  BY AtWork DEF Archive, Clear, ArchiveFails, ClearFails, Retract, At,
     BaseInv, DiskOK, CarriedOK, WorkOK
<1>2. CASE Archive
  BY <1>1, <1>2, ContinueBase DEF Archive
<1>3. CASE Clear
  <2>1. CASE /\ job' = [job EXCEPT !.at = "main", !.mode = "own", !.entry = None]
             /\ job.mode = "first" /\ UNCHANGED told
    <3>1. /\ job' \in Job /\ job'.at = "main" /\ job'.entry = None
          /\ job'.goal = job.goal /\ job'.op = job.op /\ job'.plan = job.plan
      BY <1>1, <2>1 DEF Job
    <3> QED
      BY <1>1, <2>1, <3>1 DEF BaseInv, CarriedOK, WorkOK
  <2>2. CASE Finish("rejected") \/ Finish("ok")
    BY <1>1, <2>2, FinishBase
  <2> QED
    BY <1>3, <2>1, <2>2 DEF Clear
<1>4. CASE ArchiveFails \/ ClearFails
  <2>1. active' \in {job.entry, None}
    BY <1>1, <1>4 DEF ArchiveFails, ClearFails, AfterFailure
  <2>2. StartCommit(job.entry, "after", "inline", docs) \/ Finish("ok")
    BY <1>4 DEF ArchiveFails, ClearFails, Unfinished
  <2> QED
    BY <1>1, <2>1, <2>2, StartCommitBase, FinishBase
<1>5. CASE Retract
  BY <1>1, <1>5, FinishBase DEF Retract
<1> QED
  BY <1>2, <1>3, <1>4, <1>5

LEMMA NextBase ==
  ASSUME BaseInv, [Next]_vars
  PROVE  BaseInv'
<1>1. CASE UNCHANGED vars
  BY <1>1 DEF vars, disk, history, BaseInv, DiskOK, ArchiveOK, CarriedOK, WorkOK, Idle
<1>2. CASE Undo
  BY <1>2, NextDisk, ReversalCarried
     DEF Next, Step, Undo, UndoCandidates, InState, States, BaseInv
<1>3. CASE Redo
  BY <1>3, NextDisk, ReversalCarried
     DEF Next, Step, Redo, RedoCandidates, AboveCompleted, InState, States, BaseInv
<1> QED
  BY <1>1, <1>2, <1>3, NextDisk, OutsideCarried, BeforeCarried, ReserveCarried,
     CommitCarried, EndCarried
     DEF Next, Step, Fault, BaseInv

\* Every reachable state has the types the model declares and an archived entry
\* is filed under its own transaction.
THEOREM BaseInvariance == Spec => []BaseInv
<1>1. BaseInv /\ [Next]_vars => BaseInv'
  BY NextBase
<1> QED
  BY <1>1, BaseInit, PTL DEF Spec

\* Type correctness of the journal, the documents and the job under way: among
\* others, the sequence never passes the last order, and a failed write never
\* leaves the job without the entry its next step is about.
THEOREM TypeCorrect == Spec => []TypeOK
BY BaseTypes, BaseInvariance, PTL

-----------------------------------------------------------------------------
(* Completion orders.  An order is given once because the next one is drawn*)
(* while no entry is active, above every order in the archive, whether the *)
(* sequence file is there or has to be rebuilt.                            *)

\* No other archived entry has this order, and the sequence is not behind it.
Owns(t, order) ==
  /\ order # 0
  /\ seq # 0 => order <= seq
  /\ \A u \in TxIds : archive[u] # None /\ archive[u].order = order => u = t

OrderInv ==
  /\ \A t \in TxIds : archive[t] # None =>
       /\ seq # 0 => archive[t].order <= seq
       /\ archive[t].state \in {"completed", "undone"} => archive[t].order # 0
  /\ \A t, u \in TxIds :
       t # u /\ archive[t] # None /\ archive[u] # None
         => archive[t].order # archive[u].order \/ archive[t].order = 0
  /\ active # None => Owns(active.tx, active.order)
  /\ ~Idle /\ job.entry # None => Owns(job.entry.tx, job.entry.order)

\* A step that writes neither archive nor sequence, and draws up no entry.
LEMMA QuietOrder ==
  ASSUME OrderInv, UNCHANGED <<archive, seq>>,
         \/ active' \in {active, None}
         \/ ~Idle /\ job.entry # None /\ active' = job.entry,
         \/ Idle' \/ job'.entry = None
         \/ ~Idle /\ job'.entry = job.entry
         \/ active # None /\ job'.entry = active
  PROVE  OrderInv'
BY DEF OrderInv, Owns

\* Where a job stands after its moves.
LEMMA MovesOrder ==
  ASSUME job \in Job, ~Idle
  PROVE  /\ \A label : Continue(label) => job'.at = label /\ job'.entry = job.entry
         /\ \A answer : Finish(answer) => Idle'
         /\ \A e, goal, mode, now :
              StartCommit(e, goal, mode, now) => job'.at = "commit" /\ job'.entry = e
<1>1. ASSUME NEW label, Continue(label)
      PROVE  job'.at = label /\ job'.entry = job.entry
  BY <1>1 DEF Continue, Job
<1>2. ASSUME NEW answer, Finish(answer) PROVE Idle'
  BY <1>2 DEF Finish, Idle
<1>3. ASSUME NEW e, NEW goal, NEW mode, NEW now, StartCommit(e, goal, mode, now)
      PROVE  job'.at = "commit" /\ job'.entry = e
  BY <1>3 DEF StartCommit, Job
<1> QED
  BY <1>1, <1>2, <1>3

\* The last order, read or rebuilt, is at or above every archived one.
LEMMA ArchivedBelow ==
  ASSUME BaseInv, OrderInv, NEW last \in LastOrders, NEW u \in TxIds, archive[u] # None
  PROVE  /\ archive[u].order <= last + 1 /\ archive[u].order # last + 1
         /\ archive[u].order \in Nat
<1>1. last \in Nat /\ archive[u].order \in Nat
  BY OrderAssumption DEF LastOrders, BaseInv, DiskOK, Entry
<1>2. archive[u].order <= last
  BY DEF LastOrders, OrderInv
<1> QED
  BY <1>1, <1>2

\* The order drawn is above every archived one.
LEMMA ReserveOrder ==
  ASSUME BaseInv, OrderInv, Reserve
  PROVE  OrderInv'
<1>1. PICK last \in LastOrders, t \in Fresh :
        /\ last < MaxOrder
        /\ seq' = last + 1
        /\ job' = [job EXCEPT !.at = "activate", !.entry = Prepared(t, last + 1)]
  BY DEF Reserve
<1>2. last \in Nat
  BY OrderAssumption DEF LastOrders, BaseInv, DiskOK
<1>3. job'.entry.tx = t /\ job'.entry.order = last + 1
  BY <1>1, AtWork DEF Prepared, Reserve, At, Job
<1>4. \A u \in TxIds : archive[u] # None =>
        archive[u].order <= last + 1 /\ archive[u].order # last + 1
  BY <1>1, <1>2, ArchivedBelow
<1>5. active = None /\ UNCHANGED <<active, archive>>
  BY DEF Reserve, BaseInv, CarriedOK, WorkOK, At
<1>6. Owns(t, last + 1)'
  BY <1>1, <1>2, <1>4, <1>5 DEF Owns
<1> QED
  BY <1>1, <1>3, <1>4, <1>5, <1>6 DEF OrderInv

\* An apply that gets no order may still have moved the sequence on.
LEMMA ReserveFailsOrder ==
  ASSUME BaseInv, OrderInv, ReserveFails
  PROVE  OrderInv'
<1>1. PICK last \in LastOrders :
        \/ UNCHANGED seq
        \/ last < MaxOrder /\ seq' \in AfterFailure(seq, last + 1)
  BY DEF ReserveFails
<1>2. seq' = seq \/ (last < MaxOrder /\ seq' = last + 1)
  BY <1>1 DEF AfterFailure
<1>3. \A u \in TxIds : archive[u] # None => archive[u].order <= last + 1
  BY ArchivedBelow
<1>4. active = None /\ UNCHANGED <<active, archive>> /\ Idle'
  BY DEF ReserveFails, BaseInv, CarriedOK, WorkOK, At, Finish, Idle
<1> QED
  BY <1>2, <1>3, <1>4 DEF OrderInv

\* Undo and redo keep the order of the archived entry.
LEMMA ReversalOrder ==
  ASSUME BaseInv, OrderInv, At("main"),
         NEW candidates \in SUBSET TxIds,
         \A t \in candidates : Archived(t, {"completed", "undone"}),
         NEW state, NEW from, NEW goal,
         Reversal(candidates, state, from, goal),
         UNCHANGED <<disk, proposals, superseded>>
  PROVE  OrderInv'
<1>1. UNCHANGED <<active, archive, seq>> /\ job \in Job /\ ~Idle
  BY AtWork DEF disk, At
<1>2. CASE Finish("none")
  BY <1>1, <1>2, QuietOrder DEF Finish, Idle
<1>3. ASSUME NEW t \in candidates,
             job' = [job EXCEPT !.at = "activate", !.goal = goal,
                                !.entry = [archive[t] EXCEPT !.state = state]]
      PROVE  OrderInv'
  <2>1. archive[t] \in Entry /\ archive[t] # None /\ archive[t].tx = t
        /\ archive[t].state \in {"completed", "undone"}
    BY DEF Archived, BaseInv, DiskOK, ArchiveOK
  <2> DEFINE e == [archive[t] EXCEPT !.state = state]
  <2>2. job'.entry = e
    BY <1>1, <1>3 DEF Job
  <2>3. e.tx = t /\ e.order = archive[t].order
    BY <2>1 DEF Entry
  <2>4. job'.entry.tx = t /\ job'.entry.order = archive[t].order
    BY <2>2, <2>3
  <2> HIDE DEF e
  <2>5. Owns(t, archive[t].order)
    BY <2>1 DEF OrderInv, Owns
  <2> QED
    BY <1>1, <2>4, <2>5 DEF OrderInv, Owns
<1> QED
  BY <1>2, <1>3 DEF Reversal

\* The entry of the job reaches its archive, whether or not it is still active.
LEMMA ArchiveOrder ==
  ASSUME BaseInv, OrderInv, At("archive"),
         archive' = [archive EXCEPT ![job.entry.tx] = Closed],
         UNCHANGED <<active, seq>>, Idle' \/ job'.entry = job.entry
  PROVE  OrderInv'
<1>1. PICK e : e = job.entry
  OBVIOUS
<1>2. /\ job \in Job /\ ~Idle /\ e \in Entry /\ e # None /\ e.tx \in TxIds
      /\ active \in {e, None}
  BY <1>1, AtWork DEF At, BaseInv, CarriedOK, WorkOK
<1>3. /\ Closed.order \in {e.order, 0}
      /\ Closed.state \in {"completed", "undone"} => Closed.order = e.order
  BY <1>1, <1>2, ClosedType DEF Final
<1>4. /\ archive'[e.tx] = Closed
      /\ \A u \in TxIds \ {e.tx} : archive'[u] = archive[u]
  BY <1>1, <1>2 DEF BaseInv, DiskOK
<1>5. Owns(e.tx, e.order)
  BY <1>1, <1>2 DEF OrderInv
<1>6. seq \in Nat
  BY OrderAssumption DEF BaseInv, DiskOK
<1>7. Owns(e.tx, e.order)'
  BY <1>4, <1>5 DEF Owns
<1>8. \A t \in TxIds : archive'[t] # None =>
        /\ seq # 0 => archive'[t].order <= seq
        /\ archive'[t].state \in {"completed", "undone"} => archive'[t].order # 0
  <2>1. seq # 0 => 0 <= seq /\ e.order <= seq
    BY <1>5, <1>6 DEF Owns
  <2> QED
    BY <1>3, <1>4, <1>5, <2>1 DEF OrderInv, Owns
<1>9. \A t, u \in TxIds :
        t # u /\ archive'[t] # None /\ archive'[u] # None
          => archive'[t].order # archive'[u].order \/ archive'[t].order = 0
  BY <1>3, <1>4, <1>5 DEF OrderInv, Owns
<1>10. active' # None => Owns(active.tx, active.order)'
  BY <1>2, <1>7
<1>11. ~Idle' /\ job'.entry # None => Owns(job.entry.tx, job.entry.order)'
  BY <1>1, <1>7
<1> QED
  BY <1>8, <1>9, <1>10, <1>11 DEF OrderInv

\* A job writes its archive, and goes on or gives up.
LEMMA ArchivingOrder ==
  ASSUME BaseInv, OrderInv, Archive \/ ArchiveFails
  PROVE  OrderInv'
<1>1. job \in Job /\ ~Idle /\ At("archive") /\ UNCHANGED <<active, seq>>
  BY AtWork DEF Archive, ArchiveFails, At
<1>2. Idle' \/ job'.entry = job.entry
  BY <1>1, MovesOrder DEF Archive, ArchiveFails, Unfinished
<1>3. CASE archive' = [archive EXCEPT ![job.entry.tx] = Closed]
  BY <1>1, <1>2, <1>3, ArchiveOrder
<1>4. CASE UNCHANGED archive
  BY <1>1, <1>2, <1>4, QuietOrder
<1> QED
  BY <1>3, <1>4 DEF Archive, ArchiveFails

LEMMA DamageOrder ==
  ASSUME OrderInv, DamageSequence
  PROVE  OrderInv'
BY DEF DamageSequence, OrderInv, Owns, Idle

\* Everything else draws no order and archives nothing.
LEMMA RestOrder ==
  ASSUME BaseInv, OrderInv,
         \/ Propose \/ Discard \/ Begin \/ Crash \/ Foreign
         \/ NothingToRecover \/ RecoveryRefused \/ RecoverEntry \/ ApplyVerify \/ Edit
         \/ Activate \/ Rename \/ Committed \/ Clear \/ Retract
         \/ ActivateFails \/ RolledBack \/ LeftPartial \/ ClearFails
  PROVE  OrderInv'
<1>1. ~Idle => job \in Job
  BY AtWork
<1>2. CASE Propose \/ Discard \/ Foreign
  BY <1>2 DEF Propose, Discard, Foreign, disk, history, OrderInv, Owns, Idle
<1>3. CASE Begin
  <2>1. job'.entry = None
    BY <1>3 DEF Begin, Started
  <2> QED
    BY <1>3, <2>1, QuietOrder DEF Begin, disk
<1>4. CASE Crash
  BY <1>4, QuietOrder DEF Crash, disk, Idle
<1>5. CASE NothingToRecover \/ RecoveryRefused \/ ApplyVerify \/ Edit \/ Committed
  <2>1. UNCHANGED <<active, archive, seq>>
    BY <1>5 DEF NothingToRecover, RecoveryRefused, ApplyVerify, Edit, Committed, disk
  <2>2. Idle' \/ (~Idle /\ job'.entry = job.entry)
    BY <1>1, <1>5, MovesOrder
       DEF NothingToRecover, RecoveryRefused, ApplyVerify, Edit, Committed, At
  <2> QED
    BY <2>1, <2>2, QuietOrder
<1>6. CASE RecoverEntry
  <2>1. active # None /\ job'.entry = active
    BY <1>1, <1>6, MovesOrder DEF RecoverEntry, At
  <2> QED
    BY <1>6, <2>1, QuietOrder DEF RecoverEntry, disk
<1>7. CASE Activate \/ ActivateFails
  <2>1. ~Idle /\ job \in Job /\ job.entry # None /\ UNCHANGED <<archive, seq>>
    BY <1>7, AtWork DEF Activate, ActivateFails, At
  <2>2. active' \in {active, job.entry} /\ (Idle' \/ job'.entry = job.entry)
    BY <1>7, <2>1, MovesOrder DEF Activate, ActivateFails, AfterFailure
  <2> QED
    BY <2>1, <2>2, QuietOrder
<1>8. CASE Rename
  <2>1. ~Idle /\ job'.entry = job.entry
    BY <1>1, <1>8 DEF Rename, At, Job
  <2> QED
    BY <1>8, <2>1, QuietOrder DEF Rename
<1>9. CASE Clear \/ ClearFails \/ Retract
  <2>1. active' \in {active, None} /\ UNCHANGED <<archive, seq>> /\ ~Idle
    BY <1>9 DEF Clear, ClearFails, Retract, AfterFailure, At
  <2>2. Idle' \/ job'.entry \in {job.entry, None}
    BY <1>1, <1>9, MovesOrder DEF Clear, ClearFails, Retract, Unfinished, At, Job
  <2> QED
    BY <2>1, <2>2, QuietOrder
<1>10. CASE RolledBack
  <2>1. UNCHANGED <<active, archive, seq>> /\ ~Idle
    BY <1>10 DEF RolledBack, At
  <2>2. \/ Finish("indeterminate") \/ Continue("retract")
        \/ job' = [job EXCEPT !.at = "archive", !.goal = "abort"]
    BY <1>10 DEF RolledBack
  <2>3. Idle' \/ job'.entry = job.entry
    BY <1>1, <2>1, <2>2, MovesOrder DEF Job
  <2> QED
    BY <2>1, <2>3, QuietOrder
<1>11. CASE LeftPartial
  <2>1. UNCHANGED <<active, archive, seq>> /\ ~Idle
    BY <1>11 DEF LeftPartial, At
  <2>2. PICK now : now = docs'
    OBVIOUS
  <2>3. StartCommit(job.entry, job.goal, "inline", now) \/ Finish("indeterminate")
    BY <1>11, <2>2 DEF LeftPartial
  <2>4. Idle' \/ job'.entry = job.entry
    BY <1>1, <2>1, <2>3, MovesOrder
  <2> QED
    BY <2>1, <2>4, QuietOrder
<1> QED
  BY <1>2, <1>3, <1>4, <1>5, <1>6, <1>7, <1>8, <1>9, <1>10, <1>11

LEMMA NextOrder ==
  ASSUME BaseInv, OrderInv, [Next]_vars
  PROVE  OrderInv'
<1>1. CASE UNCHANGED vars
  BY <1>1 DEF vars, disk, history, OrderInv, Owns, Idle
<1>2. CASE Undo
  <2>1. \A t \in UndoCandidates : Archived(t, {"completed", "undone"})
    BY DEF UndoCandidates, InState, Archived
  <2>2. UndoCandidates \subseteq TxIds
    BY DEF UndoCandidates, InState
  <2> QED
    BY <1>2, <2>1, <2>2, ReversalOrder DEF Undo
<1>3. CASE Redo
  <2>1. \A t \in RedoCandidates : Archived(t, {"completed", "undone"})
    BY DEF RedoCandidates, AboveCompleted, InState, Archived
  <2>2. RedoCandidates \subseteq TxIds
    BY DEF RedoCandidates, AboveCompleted, InState
  <2> QED
    BY <1>3, <2>1, <2>2, ReversalOrder DEF Redo
<1> QED
  BY <1>1, <1>2, <1>3, ReserveOrder, ReserveFailsOrder, ArchivingOrder, DamageOrder, RestOrder
     DEF Next, Step, Fault

\* reserveCompletionOrder never gives an order twice while its entry is in use,
\* whatever became of the sequence file and whatever a failed write left: undo
\* and redo choose by it.
THEOREM OrdersStayUnique == Spec => []OrderUnique
<1>1. Init => OrderInv
  BY DEF Init, OrderInv, Idle
<1>2. BaseInv /\ OrderInv /\ [Next]_vars => OrderInv'
  BY NextOrder
<1>3. OrderInv => OrderUnique
  BY DEF OrderInv, Owns, OrderUnique
<1> QED
  BY <1>1, <1>2, <1>3, BaseInvariance, PTL DEF Spec

-----------------------------------------------------------------------------
(* What is overwritten.  Nobody else writes while the operation lock is    *)
(* held, so documents checked before the first rename are still known at   *)
(* the last one, and so is what a rollback brings back.                    *)

InEither(image, plan) ==
  \A d \in DOMAIN plan.after : image[d] \in {plan.before[d], plan.after[d]}

DocsOK ==
  ~Idle =>
    /\ job.at = "reserve" => Matches(job.plan.before)
    /\ job.at \in {"activate", "commit", "archive", "clear", "retract"}
         => InEither(docs, job.entry.plan)
    /\ job.at = "commit" =>
         /\ InEither(job.pre, job.entry.plan)
         /\ \A d \in Docs \ DOMAIN job.entry.plan.after : job.pre[d] = docs[d]

\* What a step may do to the documents.
Overwrites ==
  ~Idle /\ job.op # "edit" =>
    \A d \in Docs : docs'[d] # docs[d] =>
      /\ job.entry # None
      /\ docs[d] \in {job.entry.plan.before[d], job.entry.plan.after[d]}

\* Steps that leave the documents and the entry of the job alone.
LEMMA QuietDocs ==
  ASSUME DocsOK, UNCHANGED docs,
         \/ Idle'
         \/ job'.at \in {"begin", "main"}
         \/ /\ ~Idle /\ job'.entry = job.entry
            /\ job.at \in {"activate", "commit", "archive", "clear", "retract"}
            /\ job'.at \in {"archive", "clear", "retract"}
  PROVE  DocsOK' /\ Overwrites
BY DEF DocsOK, Overwrites, InEither

\* The start of a commit over documents that hold either image.
LEMMA CommitDocs ==
  ASSUME job \in Job, UNCHANGED docs, NEW entry \in Entry, NEW goal, NEW mode,
         StartCommit(entry, goal, mode, docs), InEither(docs, entry.plan)
  PROVE  DocsOK' /\ Overwrites
<1>1. job'.at = "commit" /\ job'.entry = entry /\ job'.pre = docs
  BY DEF StartCommit, Job
<1> QED
  BY <1>1 DEF DocsOK, Overwrites, InEither

LEMMA PlanType ==
  ASSUME NEW plan \in Plan
  PROVE  /\ DOMAIN plan.before = DOMAIN plan.after /\ DOMAIN plan.after \subseteq Docs
BY ImageType DEF Plan

LEMMA ReserveDocs ==
  ASSUME BaseInv, DocsOK, Reserve
  PROVE  DocsOK' /\ Overwrites
<1>1. PICK last \in LastOrders, t \in Fresh :
        job' = [job EXCEPT !.at = "activate", !.entry = Prepared(t, last + 1)]
  BY DEF Reserve
<1>2. job \in Job /\ job.plan \in Plan /\ Matches(job.plan.before) /\ UNCHANGED docs
  BY AtWork DEF Reserve, BaseInv, CarriedOK, WorkOK, DocsOK, At
<1>3. job'.at = "activate" /\ job'.entry.plan = job.plan
  BY <1>1, <1>2 DEF Prepared, Job
<1>4. InEither(docs, job.plan)
  BY <1>2, PlanType DEF Matches, InEither
<1> QED
  BY <1>2, <1>3, <1>4 DEF DocsOK, Overwrites, InEither

LEMMA ReversalDocs ==
  ASSUME BaseInv, DocsOK, At("main"),
         NEW candidates \in SUBSET TxIds,
         \A t \in candidates : Archived(t, {"completed", "undone"}),
         NEW state, NEW from, NEW goal,
         Reversal(candidates, state, from, goal), UNCHANGED docs
  PROVE  DocsOK' /\ Overwrites
<1>1. job \in Job /\ ~Idle
  BY AtWork DEF At
<1>2. CASE Finish("none")
  BY <1>2, QuietDocs DEF Finish, Idle
<1>3. ASSUME NEW t \in candidates, Matches(Goal(archive[t], from)),
             job' = [job EXCEPT !.at = "activate", !.goal = goal,
                                !.entry = [archive[t] EXCEPT !.state = state]]
      PROVE  DocsOK' /\ Overwrites
  <2>1. archive[t] \in Entry /\ archive[t].plan \in Plan
    BY DEF Archived, BaseInv, DiskOK, Entry
  <2> DEFINE e == [archive[t] EXCEPT !.state = state]
  <2>2. job'.at = "activate" /\ job'.entry = e
    BY <1>1, <1>3 DEF Job
  <2>3. e.plan = archive[t].plan
    BY <2>1 DEF Entry
  <2>4. job'.entry.plan = archive[t].plan
    BY <2>2, <2>3
  <2> HIDE DEF e
  <2>5. InEither(docs, archive[t].plan)
    BY <1>3, <2>1, PlanType DEF Matches, InEither, Goal
  <2> QED
    BY <2>2, <2>4, <2>5 DEF DocsOK, Overwrites, InEither
<1> QED
  BY <1>2, <1>3 DEF Reversal

LEMMA RenameDocs ==
  ASSUME BaseInv, DocsOK, Rename
  PROVE  DocsOK' /\ Overwrites
<1>1. /\ job \in Job /\ ~Idle /\ job.at = "commit" /\ job.entry \in Entry
      /\ job.entry # None /\ job.entry.plan \in Plan
  BY AtWork DEF Rename, At, Entry
<1>2. PICK d \in job.todo :
        /\ docs' = With(Goal(job.entry, job.goal), {d})
        /\ job' = [job EXCEPT !.todo = @ \ {d}]
  BY DEF Rename
<1>3. d \in DOMAIN job.entry.plan.after /\ d \in Docs
  BY <1>1, PlanType DEF BaseInv, CarriedOK, WorkOK
<1>4. /\ docs'[d] \in {job.entry.plan.before[d], job.entry.plan.after[d]}
      /\ \A o \in Docs \ {d} : docs'[o] = docs[o]
  BY <1>2, <1>3 DEF With, Goal
<1>5. job'.at = "commit" /\ job'.entry = job.entry /\ job'.pre = job.pre
  BY <1>1, <1>2 DEF Job
<1>6. \A o \in DOMAIN job.entry.plan.after : o \in Docs
  BY <1>1, PlanType
<1> QED
  BY <1>1, <1>3, <1>4, <1>5, <1>6 DEF DocsOK, Overwrites, InEither

LEMMA RolledBackDocs ==
  ASSUME BaseInv, DocsOK, RolledBack
  PROVE  DocsOK' /\ Overwrites
<1>1. /\ job \in Job /\ ~Idle /\ job.at = "commit" /\ job.entry \in Entry
      /\ job.entry # None /\ docs' = job.pre
  BY AtWork DEF RolledBack, At
<1>2. Overwrites
  BY <1>1 DEF DocsOK, Overwrites, InEither
<1>3. \/ Finish("indeterminate") \/ Continue("retract")
      \/ job' = [job EXCEPT !.at = "archive", !.goal = "abort"]
  BY DEF RolledBack
<1>4. Idle' \/ (job'.at \in {"retract", "archive"} /\ job'.entry = job.entry)
  BY <1>1, <1>3 DEF Finish, Continue, Idle, Job
<1> QED
  BY <1>1, <1>2, <1>4 DEF DocsOK, InEither

\* A rollback that fails leaves documents of the transaction only, in either
\* image; what the job recovers is known like what it began with.
LEMMA LeftPartialDocs ==
  ASSUME BaseInv, DocsOK, LeftPartial
  PROVE  DocsOK' /\ Overwrites
<1>1. /\ job \in Job /\ ~Idle /\ job.at = "commit" /\ job.entry \in Entry
      /\ job.entry # None
  BY AtWork DEF LeftPartial, At
<1>2. PICK kept \in SUBSET (DOMAIN job.entry.plan.after \ job.todo) :
        docs' = [d \in Docs |-> IF d \in kept THEN docs[d] ELSE job.pre[d]]
  BY DEF LeftPartial
<1>3. DOMAIN job.entry.plan.after \subseteq Docs
  BY <1>1, PlanType DEF Entry
<1>4. /\ \A d \in Docs : docs'[d] \in {docs[d], job.pre[d]}
      /\ \A d \in Docs \ DOMAIN job.entry.plan.after : docs'[d] = docs[d]
  BY <1>1, <1>2 DEF DocsOK
<1>5. Overwrites
  BY <1>1, <1>3, <1>4 DEF DocsOK, Overwrites, InEither
<1>6. \A d \in DOMAIN job.entry.plan.after :
        docs'[d] \in {job.entry.plan.before[d], job.entry.plan.after[d]}
  BY <1>1, <1>3, <1>4 DEF DocsOK, InEither
<1>7. PICK now : now = docs'
  OBVIOUS
<1>8. StartCommit(job.entry, job.goal, "inline", now) \/ Finish("indeterminate")
  BY <1>7 DEF LeftPartial
<1>9. Idle' \/ (job'.at = "commit" /\ job'.entry = job.entry /\ job'.pre = docs')
  BY <1>1, <1>7, <1>8 DEF StartCommit, Finish, Idle, Job
<1> QED
  BY <1>5, <1>6, <1>9 DEF DocsOK, InEither

\* Everything else leaves the documents alone, or is not about them.
LEMMA RestDocs ==
  ASSUME BaseInv, DocsOK,
         \/ Propose \/ Discard \/ Begin \/ Crash \/ Foreign \/ DamageSequence
         \/ NothingToRecover \/ RecoveryRefused \/ RecoverEntry \/ ApplyVerify \/ Edit
         \/ Activate \/ Committed \/ Archive \/ Clear \/ Retract
         \/ ReserveFails \/ ActivateFails \/ ArchiveFails \/ ClearFails
  PROVE  DocsOK' /\ Overwrites
<1>1. ~Idle => job \in Job
  BY AtWork
<1>2. CASE Propose \/ Discard \/ DamageSequence
  BY <1>2 DEF Propose, Discard, DamageSequence, disk, history, DocsOK, Overwrites,
              InEither, Matches, Idle
<1>3. CASE Foreign
  BY <1>3 DEF Foreign, DocsOK, Overwrites, Idle
<1>4. CASE Begin
  <2>1. job'.at \in {"begin", "main"}
    BY <1>4 DEF Begin, Started
  <2> QED
    BY <1>4, <2>1, QuietDocs DEF Begin, disk
<1>5. CASE Crash
  BY <1>5, QuietDocs DEF Crash, disk, Idle
<1>6. CASE NothingToRecover \/ RecoveryRefused \/ ReserveFails \/ ActivateFails \/ Retract
  <2>1. UNCHANGED docs
    BY <1>6 DEF NothingToRecover, RecoveryRefused, ReserveFails, ActivateFails, Retract, disk
  <2>2. Idle' \/ job'.at \in {"begin", "main"}
    BY <1>1, <1>6, MovesOrder
       DEF NothingToRecover, RecoveryRefused, ReserveFails, ActivateFails, Retract, At
  <2> QED
    BY <2>1, <2>2, QuietDocs
<1>7. CASE RecoverEntry
  <2>1. /\ active \in Entry /\ InEither(docs, active.plan) /\ job \in Job /\ UNCHANGED docs
        /\ \E goal : StartCommit(active, goal, "first", docs)
    BY <1>1, <1>7 DEF RecoverEntry, InConflict, InEither, BaseInv, DiskOK, At, disk
  <2> QED
    BY <2>1, CommitDocs
<1>8. CASE ApplyVerify
  <2>1. /\ UNCHANGED docs
        /\ Idle' \/ (job'.at = "reserve" /\ job'.plan = job.plan /\ Matches(job.plan.before))
    BY <1>1, <1>8 DEF ApplyVerify, At, Continue, Finish, Idle, Job, disk
  <2> QED
    BY <2>1 DEF DocsOK, Overwrites, Matches
<1>9. CASE Edit
  <2>1. Idle' /\ job.op = "edit"
    BY <1>9 DEF Edit, At, Finish, Idle
  <2> QED
    BY <2>1 DEF DocsOK, Overwrites
<1>10. CASE Activate
  <2>1. /\ job.entry \in Entry /\ InEither(docs, job.entry.plan) /\ job \in Job
        /\ UNCHANGED docs /\ StartCommit(job.entry, job.goal, "own", docs)
    BY <1>10, AtWork DEF Activate, At, DocsOK
  <2> QED
    BY <2>1, CommitDocs
<1>11. CASE Committed \/ Archive
  <2>1. ~Idle /\ job \in Job /\ job.at \in {"commit", "archive"} /\ UNCHANGED docs
    BY <1>1, <1>11 DEF Committed, Archive, At, disk
  <2>2. job'.at \in {"archive", "clear"} /\ job'.entry = job.entry
    BY <1>11, <2>1 DEF Committed, Archive, Continue, Job
  <2> QED
    BY <2>1, <2>2, QuietDocs
<1>12. CASE Clear
  <2>1. UNCHANGED docs /\ ~Idle /\ job \in Job
    BY <1>1, <1>12 DEF Clear, At
  <2>2. Idle' \/ job'.at = "main"
    BY <1>12, <2>1 DEF Clear, Finish, Idle, Job
  <2> QED
    BY <2>1, <2>2, QuietDocs
<1>13. CASE ArchiveFails \/ ClearFails
  <2>1. /\ ~Idle /\ job \in Job /\ job.at \in {"archive", "clear"} /\ UNCHANGED docs /\ Unfinished
    BY <1>1, <1>13 DEF ArchiveFails, ClearFails, At
  <2>2. CASE Finish("ok")
    BY <2>1, <2>2, QuietDocs DEF Finish, Idle
  <2>3. CASE StartCommit(job.entry, "after", "inline", docs)
    <3>1. job.entry \in Entry /\ InEither(docs, job.entry.plan)
      BY <2>1, AtWork DEF DocsOK
    <3> QED
      BY <2>1, <2>3, <3>1, CommitDocs
  <2> QED
    BY <2>1, <2>2, <2>3 DEF Unfinished
<1> QED
  BY <1>2, <1>3, <1>4, <1>5, <1>6, <1>7, <1>8, <1>9, <1>10, <1>11, <1>12, <1>13

LEMMA NextDocs ==
  ASSUME BaseInv, DocsOK, Next
  PROVE  DocsOK' /\ Overwrites
<1>1. CASE Undo
  <2>1. \A t \in UndoCandidates : Archived(t, {"completed", "undone"})
    BY DEF UndoCandidates, InState, Archived
  <2>2. UndoCandidates \subseteq TxIds
    BY DEF UndoCandidates, InState
  <2> QED
    BY <1>1, <2>1, <2>2, ReversalDocs DEF Undo, disk
<1>2. CASE Redo
  <2>1. \A t \in RedoCandidates : Archived(t, {"completed", "undone"})
    BY DEF RedoCandidates, AboveCompleted, InState, Archived
  <2>2. RedoCandidates \subseteq TxIds
    BY DEF RedoCandidates, AboveCompleted, InState
  <2> QED
    BY <1>2, <2>1, <2>2, ReversalDocs DEF Redo, disk
<1> QED
  BY <1>1, <1>2, ReserveDocs, RenameDocs, RolledBackDocs, LeftPartialDocs, RestDocs
     DEF Next, Step, Fault

\* Recovery, undo, redo and the rollback of atomicWriteAll, complete or not,
\* replace only bytes of the transaction at hand.
THEOREM ForeignBytesSurvive == Spec => NeverOverwritesForeign
<1>1. Init => DocsOK
  BY DEF Init, DocsOK, Idle
<1>2. BaseInv /\ DocsOK /\ [Next]_vars => DocsOK'
  <2>1. CASE UNCHANGED vars
    BY <2>1 DEF vars, disk, history, DocsOK, InEither, Matches, Idle
  <2> QED
    BY <2>1, NextDocs
<1>3. BaseInv /\ DocsOK /\ [Next]_vars => [Overwrites]_vars
  BY NextDocs
<1>4. Spec => [][Overwrites]_vars
  BY <1>1, <1>2, <1>3, BaseInvariance, PTL DEF Spec
<1> QED
  BY <1>4, PTL DEF NeverOverwritesForeign, Overwrites

-----------------------------------------------------------------------------
(* What apply has answered.  With clean failures only, a job also knows    *)
(* which entry is active and what has been archived.                       *)

\* What a job knows of the disk: which entry, if any, is active at each of
\* its steps, and what has been archived by then.
JobOK ==
  ~Idle =>
    /\ job.at \in {"begin", "main", "reserve"} <=> job.entry = None
    /\ job.at \in {"begin", "main", "reserve", "activate"} => job.mode = "own"
    /\ job.at = "main" /\ job.op # "apply" => active = None
    /\ job.at \in {"reserve", "activate"} => active = None
    /\ job.at \in {"commit", "archive", "clear", "retract"} => active = job.entry
    /\ job.at = "commit" => job.todo \subseteq DOMAIN job.entry.plan.after
    /\ job.at = "clear" => archive[job.entry.tx] = Closed
    /\ job.at = "begin" => job.op # "apply"
    /\ job.at = "reserve" => job.op = "apply"
    /\ job.at = "retract" => job.op # "apply" /\ job.mode = "own"

\* An apply under way is about a transaction nobody has heard of yet.
ApplyOK ==
  ~Idle /\ job.op = "apply" =>
    /\ job.plan \in Plan
    /\ job.mode # "first"
    /\ job.goal # "before"
    /\ job.entry # None => told[job.entry.tx] = "none"
    /\ job.at = "activate" => archive[job.entry.tx] = None

\* Undo and redo are about an archived transaction; only apply aborts.
ReversalOK ==
  ~Idle =>
    /\ job.op \in {"recover", "edit", "undo", "redo"} =>
         /\ job.goal # "abort"
         /\ job.entry # None /\ job.mode = "own" =>
              Archived(job.entry.tx, {"completed", "undone"})
    /\ job.goal = "abort" => job.at \in {"archive", "clear"}

IInv ==
  /\ TypeOK
  /\ ArchiveOK
  /\ JobOK
  /\ ApplyOK
  /\ ReversalOK
  /\ AckDurable
  /\ RejectedStaysRejected

\* The clean invariant knows more than the one that holds after any failure.
LEMMA InvIsBase == IInv => BaseInv
<1> SUFFICES ASSUME IInv PROVE BaseInv
  OBVIOUS
<1>1. ~Idle => job.op \in {"recover", "apply", "edit", "undo", "redo"}
  BY DEF IInv, TypeOK, Job, Idle
<1>2. ~Idle /\ job.goal = "abort" => job.at \in {"archive", "clear"} /\ job.mode # "first"
  BY <1>1 DEF IInv, ApplyOK, ReversalOK
<1>3. WorkOK
  BY <1>2 DEF IInv, JobOK, ApplyOK, WorkOK
<1> QED
  BY <1>3 DEF IInv, TypeOK, BaseInv, DiskOK, CarriedOK

(* Init establishes the invariant, and each action preserves it.           *)

LEMMA InitInv ==
  Init => IInv
<1> SUFFICES ASSUME Init
             PROVE  IInv
  OBVIOUS
<1>1. TypeOK
  BY OrderAssumption DEF Init, TypeOK
<1>2. Idle
  BY DEF Init, Idle
<1> QED
  BY <1>1, <1>2
  DEF IInv, Init, ArchiveOK, JobOK, ApplyOK, ReversalOK, AckDurable,
      RejectedStaysRejected

LEMMA ProposeInv ==
  ASSUME IInv, Propose
  PROVE  IInv'
<1>1. TypeOK'
  <2>1. PICK after \in Edits :
          LET before == [d \in DOMAIN after |-> docs[d]]
          IN /\ Missing \notin {before[d] : d \in DOMAIN before}
             /\ proposals' = proposals \cup {[before |-> before, after |-> after]}
    BY DEF Propose
  <2> DEFINE before == [d \in DOMAIN after |-> docs[d]]
  <2>2. after \in Image
    BY EditsAssumption
  <2>3. before \in Image
    <3>1. PICK D \in (SUBSET Docs) \ {{}} : after \in [D -> Contents]
      BY <2>2 DEF Image
    <3>2. before \in [D -> Contents]
      BY <2>1, <3>1 DEF IInv, TypeOK
    <3> QED
      BY <3>1, <3>2 DEF Image
  <2>4. [before |-> before, after |-> after] \in Plan
    BY <2>2, <2>3 DEF Plan
  <2> QED
    BY <2>1, <2>4 DEF IInv, TypeOK, Propose, disk, history
<1>2. UNCHANGED <<disk, job, history>>
  BY DEF Propose
<1> QED
  BY <1>1, <1>2 DEF IInv, ArchiveOK, JobOK, ApplyOK, ReversalOK, AckDurable,
       RejectedStaysRejected, Archived, Closed, Final, Idle, disk, history

LEMMA BeginInv ==
  ASSUME IInv, Begin
  PROVE  IInv'
<1>1. TypeOK'
  BY SMTT(20), MarksAssumption DEF IInv, TypeOK, JobOK, Idle, Job,
       At, disk, history, Started, Begin
<1> QED
  BY <1>1, SMTT(20), MarksAssumption
  DEF IInv, TypeOK, ArchiveOK, JobOK, ApplyOK, ReversalOK, AckDurable,
      RejectedStaysRejected, Archived, Idle, Job, Closed, Final, At, disk,
      history, Started, Begin

LEMMA NothingToRecoverInv ==
  ASSUME IInv, NothingToRecover
  PROVE  IInv'
<1>1. TypeOK'
  BY SMTT(20), MarksAssumption DEF IInv, TypeOK, JobOK, Idle, Job,
       At, disk, Finish, Continue, NothingToRecover
<1> QED
  BY <1>1, SMTT(20), MarksAssumption
  DEF IInv, TypeOK, ArchiveOK, JobOK, ApplyOK, ReversalOK, AckDurable,
      RejectedStaysRejected, Archived, Idle, Job, Closed, Final, At, disk,
      Finish, Continue, NothingToRecover

LEMMA ApplyVerifyInv ==
  ASSUME IInv, ApplyVerify
  PROVE  IInv'
<1>1. TypeOK'
  BY SMTT(20), MarksAssumption DEF IInv, TypeOK, JobOK, Idle, Job,
       At, disk, Finish, Continue, ApplyVerify
<1> QED
  BY <1>1, SMTT(20), MarksAssumption
  DEF IInv, TypeOK, ArchiveOK, JobOK, ApplyOK, ReversalOK, AckDurable,
      RejectedStaysRejected, Archived, Idle, Job, Closed, Final, At, disk,
      Finish, Continue, ApplyVerify

LEMMA RecoveryRefusedInv ==
  ASSUME IInv, RecoveryRefused
  PROVE  IInv'
<1>1. TypeOK'
  BY SMTT(20), MarksAssumption DEF IInv, TypeOK, JobOK, Idle, Job,
       At, disk, Finish, RecoveryRefused
<1> QED
  BY <1>1, SMTT(20), MarksAssumption
  DEF IInv, TypeOK, ArchiveOK, JobOK, ApplyOK, ReversalOK, AckDurable,
      RejectedStaysRejected, Archived, Idle, Job, Closed, Final, At, disk,
      Finish, RecoveryRefused

LEMMA ReserveFailsInv ==
  ASSUME "stuck" \notin Faults, IInv, ReserveFails
  PROVE  IInv'
<1>1. TypeOK'
  BY SMTT(20), MarksAssumption, AfterCleanFailure, OrderAssumption
  DEF IInv, TypeOK, JobOK, Idle, Job, At, Finish, ReserveFails
<1> QED
  BY <1>1, SMTT(20), MarksAssumption, AfterCleanFailure, OrderAssumption
  DEF IInv, TypeOK, ArchiveOK, JobOK, ApplyOK, ReversalOK, AckDurable,
      RejectedStaysRejected, Archived, Idle, Job, Closed, Final, At, Finish,
      ReserveFails

LEMMA EditInv ==
  ASSUME "stuck" \notin Faults, IInv, Edit
  PROVE  IInv'
<1>1. TypeOK'
  BY SMTT(20), MarksAssumption, AfterCleanFailure
  DEF IInv, TypeOK, JobOK, Idle, Job, At, Finish, Edit
<1> QED
  BY <1>1, SMTT(20), MarksAssumption, AfterCleanFailure
  DEF IInv, TypeOK, ArchiveOK, JobOK, ApplyOK, ReversalOK, AckDurable,
      RejectedStaysRejected, Archived, Idle, Job, Closed, Final, At, Finish,
      Edit

LEMMA ActivateFailsInv ==
  ASSUME "stuck" \notin Faults, IInv, ActivateFails
  PROVE  IInv'
<1>1. active' = active
  BY AfterCleanFailure DEF ActivateFails
<1>2. TypeOK'
  BY <1>1, MarksAssumption DEF IInv, TypeOK, JobOK, Idle, Job, At, Finish,
       ActivateFails
<1> QED
  BY <1>1, <1>2, SMTT(20), MarksAssumption
  DEF IInv, TypeOK, ArchiveOK, JobOK, ApplyOK, ReversalOK, AckDurable,
      RejectedStaysRejected, Archived, Idle, Job, At, Finish, ActivateFails

LEMMA CommittedInv ==
  ASSUME IInv, Committed
  PROVE  IInv'
<1>1. TypeOK'
  BY SMTT(20), MarksAssumption DEF IInv, TypeOK, JobOK, Idle, Job,
       At, disk, Continue, Committed
<1> QED
  BY <1>1, SMTT(20), MarksAssumption
  DEF IInv, TypeOK, ArchiveOK, JobOK, ApplyOK, ReversalOK, AckDurable,
      RejectedStaysRejected, Archived, Idle, Job, Closed, Final, At, disk,
      Continue, Committed

LEMMA RetractInv ==
  ASSUME "stuck" \notin Faults, IInv, Retract
  PROVE  IInv'
<1>1. TypeOK'
  BY SMTT(20), MarksAssumption, AfterCleanFailure
  DEF IInv, TypeOK, JobOK, Idle, Job, At, Finish, Retract
<1> QED
  BY <1>1, SMTT(20), MarksAssumption, AfterCleanFailure
  DEF IInv, TypeOK, ArchiveOK, JobOK, ApplyOK, ReversalOK, AckDurable,
      RejectedStaysRejected, Archived, Idle, Job, Closed, Final, At, Finish,
      Retract

LEMMA CrashInv ==
  ASSUME IInv, Crash
  PROVE  IInv'
<1>1. TypeOK'
  BY SMTT(20), MarksAssumption DEF IInv, TypeOK, JobOK, Idle, Job,
       disk, history, Crash
<1> QED
  BY <1>1, SMTT(20), MarksAssumption
  DEF IInv, TypeOK, ArchiveOK, JobOK, ApplyOK, ReversalOK, AckDurable,
      RejectedStaysRejected, Archived, Idle, Job, Closed, Final, disk,
      history, Crash

LEMMA ForeignInv ==
  ASSUME IInv, Foreign
  PROVE  IInv'
<1>1. TypeOK'
  BY SMTT(20), MarksAssumption DEF IInv, TypeOK, JobOK, Idle, Job,
       history, Foreign
<1> QED
  BY <1>1, SMTT(20), MarksAssumption
  DEF IInv, TypeOK, ArchiveOK, JobOK, ApplyOK, ReversalOK, AckDurable,
      RejectedStaysRejected, Archived, Idle, Job, Closed, Final, history,
      Foreign

LEMMA DamageSequenceInv ==
  ASSUME IInv, DamageSequence
  PROVE  IInv'
<1>1. TypeOK'
  BY SMTT(20), MarksAssumption, OrderAssumption
  DEF IInv, TypeOK, JobOK, Idle, Job, history, DamageSequence
<1> QED
  BY <1>1, SMTT(20), MarksAssumption, OrderAssumption
  DEF IInv, TypeOK, ArchiveOK, JobOK, ApplyOK, ReversalOK, AckDurable,
      RejectedStaysRejected, Archived, Idle, Job, Closed, Final, history,
      DamageSequence

LEMMA DiscardInv ==
  ASSUME IInv, Discard
  PROVE  IInv'
<1>1. UNCHANGED <<disk, job, history>> /\ proposals' \subseteq proposals
  BY DEF Discard
<1> QED
  BY <1>1 DEF IInv, TypeOK, ArchiveOK, JobOK, ApplyOK, ReversalOK, AckDurable,
       RejectedStaysRejected, Archived, Idle, Closed, Final, disk, history

\* Recovery takes the active entry, in whichever direction it was going.
LEMMA RecoverEntryInv ==
  ASSUME IInv, RecoverEntry
  PROVE  IInv'
<1> DEFINE goal == IF active.state = "undoing" THEN "before" ELSE "after"
<1>1. active \in Entry /\ job \in Job /\ StartCommit(active, goal, "first", docs)
  BY DEF RecoverEntry, IInv, TypeOK, At, Idle
<1>2. job' \in Job
  <2>1. goal \in {"before", "after"}
    OBVIOUS
  <2> QED
    BY <1>1, <2>1, StartCommitType DEF IInv, TypeOK
<1>3. TypeOK'
  BY <1>1, <1>2 DEF IInv, TypeOK, RecoverEntry, StartCommit, disk
<1> QED
  BY <1>1, <1>3, SMTT(20), MarksAssumption
  DEF IInv, TypeOK, ArchiveOK, JobOK, ApplyOK, ReversalOK, AckDurable,
      RejectedStaysRejected, Archived, Idle, Job, Closed, Final, At,
      StartCommit, RecoverEntry, disk

LEMMA ActivateInv ==
  ASSUME IInv, Activate
  PROVE  IInv'
<1>1. /\ job \in Job /\ job.entry \in Entry
      /\ job.goal \in {"before", "after"}
      /\ StartCommit(job.entry, job.goal, "own", docs)
  BY DEF Activate, IInv, TypeOK, JobOK, ReversalOK, At, Idle, Job
<1>2. job' \in Job
  BY <1>1, StartCommitType DEF IInv, TypeOK
<1>3. TypeOK'
  BY <1>1, <1>2 DEF IInv, TypeOK, Activate, StartCommit
<1> QED
  BY <1>1, <1>3, SMTT(20), MarksAssumption
  DEF IInv, TypeOK, ArchiveOK, JobOK, ApplyOK, ReversalOK, AckDurable,
      RejectedStaysRejected, Archived, Idle, Job, Closed, Final, At,
      StartCommit, Activate

\* The transaction drawn is fresh: nothing is archived for it, and apply has
\* given no answer.
LEMMA ReserveInv ==
  ASSUME IInv, Reserve
  PROVE  IInv'
<1>1. PICK last \in LastOrders, t \in Fresh :
        /\ last < MaxOrder
        /\ seq' = last + 1
        /\ job' = [job EXCEPT !.at = "activate", !.entry = Prepared(t, last + 1)]
  BY DEF Reserve
<1>2. job \in Job /\ job.at = "reserve" /\ job.op = "apply" /\ job.plan \in Plan
  BY DEF Reserve, IInv, TypeOK, JobOK, ApplyOK, At, Idle
<1>3. last + 1 \in 0..MaxOrder
  BY <1>1, OrderAssumption DEF LastOrders, IInv, TypeOK
<1>4. Prepared(t, last + 1) \in Entry
  BY <1>2, <1>3 DEF Prepared, Entry, States, Fresh
<1>5. job' \in Job
  BY <1>1, <1>2, <1>4 DEF Job
<1>6. TypeOK'
  BY <1>1, <1>3, <1>5 DEF IInv, TypeOK, Reserve, history
<1>7. told[t] = "none" /\ archive[t] = None /\ Prepared(t, last + 1).tx = t
  BY DEF Fresh, Prepared
<1>8. /\ job'.at = "activate" /\ job'.op = "apply" /\ job'.entry.tx = t
      /\ job'.entry # None /\ job'.entry \in Entry
      /\ job'.mode = job.mode /\ job'.goal = job.goal /\ job'.plan = job.plan
  BY <1>1, <1>2, <1>4, <1>7, MarksAssumption DEF Job
<1>9. UNCHANGED <<docs, active, archive, proposals, history>>
  BY DEF Reserve
<1>10. JobOK'
  BY <1>2, <1>8, <1>9 DEF IInv, JobOK, Idle, At, Reserve
<1>11. ApplyOK' /\ ReversalOK'
  BY <1>2, <1>7, <1>8, <1>9
  DEF IInv, ApplyOK, ReversalOK, Idle, At, Reserve, history
<1> QED
  BY <1>6, <1>9, <1>10, <1>11 DEF IInv, ArchiveOK, AckDurable,
       RejectedStaysRejected, history

\* Undo and redo take an entry that is archived as completed or undone.
LEMMA ReversalInv ==
  ASSUME IInv, At("main"), job.op \in {"undo", "redo"},
         NEW candidates \in SUBSET TxIds,
         \A t \in candidates : Archived(t, {"completed", "undone"}),
         NEW state \in States, NEW from, NEW goal \in {"before", "after"},
         Reversal(candidates, state, from, goal),
         UNCHANGED <<disk, proposals, superseded>>
  PROVE  IInv'
<1>1. job \in Job /\ job.at = "main" /\ job.mode = "own" /\ active = None
  BY DEF IInv, TypeOK, JobOK, At, Idle
<1>2. CASE \E t \in candidates :
             job' = [job EXCEPT !.at = "activate", !.goal = goal,
                                !.entry = [archive[t] EXCEPT !.state = state]]
             /\ UNCHANGED told
  <2>1. PICK t \in candidates :
          job' = [job EXCEPT !.at = "activate", !.goal = goal,
                             !.entry = [archive[t] EXCEPT !.state = state]]
    BY <1>2
  <2> DEFINE entry == [archive[t] EXCEPT !.state = state]
  <2>2. archive[t] \in Entry
    BY DEF Archived, IInv, TypeOK
  <2>3. entry \in Entry
    BY <2>2 DEF Entry
  <2>4. job' \in Job
    BY <1>1, <2>1, <2>3 DEF Job
  <2>5. /\ job'.at = "activate" /\ job'.op = job.op /\ job'.mode = "own"
        /\ job'.goal = goal /\ job'.entry = entry
    BY <1>1, <2>1 DEF Job
  <2>6. TypeOK'
    BY <1>2, <2>4 DEF IInv, TypeOK, disk
  <2>7. job'.entry # None
    BY <2>3, <2>5, MarksAssumption
  <2>8. JobOK' /\ ApplyOK'
    BY <1>1, <2>5, <2>7 DEF JobOK, ApplyOK, Idle, disk
  <2>9. entry.tx \in TxIds
    BY <2>3 DEF Entry
  <2>10. Archived(entry.tx, {"completed", "undone"})
    BY DEF IInv, ArchiveOK, Archived
  <2>11. UNCHANGED <<active, archive, told>>
    BY <1>2 DEF disk
  <2>12. ReversalOK'
    BY <2>5, <2>10, <2>11 DEF ReversalOK, Archived
  <2> QED
    BY <2>6, <2>8, <2>11, <2>12
    DEF IInv, ArchiveOK, AckDurable, RejectedStaysRejected
<1>3. CASE Finish("none")
  BY <1>1, <1>3
  DEF IInv, TypeOK, ArchiveOK, JobOK, ApplyOK, ReversalOK, AckDurable,
      RejectedStaysRejected, Archived, Idle, Finish, disk
<1> QED
  BY <1>2, <1>3 DEF Reversal

LEMMA UndoInv ==
  ASSUME IInv, Undo
  PROVE  IInv'
<1>1. UndoCandidates \subseteq TxIds
      /\ \A t \in UndoCandidates : Archived(t, {"completed", "undone"})
  BY DEF UndoCandidates, InState, Archived
<1>2. "undoing" \in States
  BY DEF States
<1> QED
  BY <1>1, <1>2, ReversalInv DEF Undo

LEMMA RedoInv ==
  ASSUME IInv, Redo
  PROVE  IInv'
<1>1. RedoCandidates \subseteq TxIds
      /\ \A t \in RedoCandidates : Archived(t, {"completed", "undone"})
  BY DEF RedoCandidates, AboveCompleted, InState, Archived
<1>2. "redoing" \in States
  BY DEF States
<1> QED
  BY <1>1, <1>2, ReversalInv DEF Redo

\* The job renames one more document of its entry, or restores them all.
LEMMA RenameInv ==
  ASSUME IInv, Rename
  PROVE  IInv'
<1>1. /\ job \in Job /\ job.at = "commit" /\ job.entry \in Entry
      /\ job.todo \subseteq DOMAIN job.entry.plan.after
  BY MarksAssumption DEF Rename, IInv, TypeOK, JobOK, At, Idle, Job
<1>2. PICK d \in job.todo :
        /\ docs' = With(Goal(job.entry, job.goal), {d})
        /\ job' = [job EXCEPT !.todo = @ \ {d}]
  BY DEF Rename
<1>3. docs' \in [Docs -> Contents \cup {Missing}]
  <2>1. {d} \in SUBSET DOMAIN Goal(job.entry, job.goal)
    BY <1>1, GoalType
  <2> QED
    BY <1>1, <1>2, <2>1, GoalType, WithType DEF IInv, TypeOK
<1>4. job' \in Job
  BY <1>1, <1>2 DEF Job
<1>5. TypeOK'
  BY <1>3, <1>4 DEF IInv, TypeOK, Rename, history
<1>6. /\ job'.at = job.at /\ job'.op = job.op /\ job'.mode = job.mode
      /\ job'.goal = job.goal /\ job'.entry = job.entry /\ job'.plan = job.plan
      /\ job'.todo \subseteq job.todo
  BY <1>1, <1>2 DEF Job
<1>7. UNCHANGED <<active, archive, told>> /\ ~Idle
  BY DEF Rename, history, At
<1>8. JobOK'
  BY <1>1, <1>6, <1>7 DEF IInv, JobOK, Idle
<1>9. ApplyOK' /\ ReversalOK'
  BY <1>1, <1>6, <1>7 DEF IInv, ApplyOK, ReversalOK, Archived, Idle
<1> QED
  BY <1>5, <1>7, <1>8, <1>9
  DEF IInv, ArchiveOK, AckDurable, RejectedStaysRejected

LEMMA RolledBackInv ==
  ASSUME IInv, RolledBack
  PROVE  IInv'
<1>1. /\ job \in Job /\ job.at = "commit" /\ ~Idle /\ job.entry \in Entry
      /\ active = job.entry
  BY MarksAssumption DEF RolledBack, IInv, TypeOK, JobOK, At, Idle, Job
<1>2. docs' \in [Docs -> Contents \cup {Missing}]
  BY <1>1 DEF RolledBack, Job
<1>3. UNCHANGED <<active, archive, seq, proposals, superseded>>
  BY DEF RolledBack
<1>4. CASE job.mode # "own" /\ Finish("indeterminate")
  BY <1>1, <1>2, <1>3, <1>4
  DEF IInv, TypeOK, ArchiveOK, JobOK, ApplyOK, ReversalOK, AckDurable,
      RejectedStaysRejected, Archived, Idle, Finish
<1>5. CASE /\ job.mode = "own" /\ job.op = "apply"
           /\ job' = [job EXCEPT !.at = "archive", !.goal = "abort"]
           /\ UNCHANGED told
  <2>1. job' \in Job
    BY <1>1, <1>5 DEF Job
  <2>2. /\ job'.at = "archive" /\ job'.op = "apply" /\ job'.mode = "own"
        /\ job'.goal = "abort" /\ job'.entry = job.entry /\ job'.plan = job.plan
    BY <1>1, <1>5 DEF Job
  <2>3. TypeOK'
    BY <1>2, <1>3, <1>5, <2>1 DEF IInv, TypeOK
  <2>4. JobOK'
    BY <1>1, <1>3, <2>2, MarksAssumption DEF IInv, JobOK
  <2>5. ApplyOK' /\ ReversalOK'
    BY <1>1, <1>3, <1>5, <2>2 DEF IInv, ApplyOK, ReversalOK
  <2> QED
    BY <1>3, <1>5, <2>3, <2>4, <2>5
    DEF IInv, ArchiveOK, AckDurable, RejectedStaysRejected
<1>6. CASE job.mode = "own" /\ job.op # "apply" /\ Continue("retract")
  <2>1. job' \in Job
    BY <1>1, <1>6 DEF Job, Continue
  <2>2. /\ job'.at = "retract" /\ job'.op = job.op /\ job'.mode = "own"
        /\ job'.goal = job.goal /\ job'.entry = job.entry
    BY <1>1, <1>6 DEF Job, Continue
  <2>3. TypeOK'
    BY <1>2, <1>3, <1>6, <2>1 DEF IInv, TypeOK, Continue
  <2>4. JobOK'
    BY <1>1, <1>3, <1>6, <2>2, MarksAssumption DEF IInv, JobOK
  <2>5. ApplyOK' /\ ReversalOK'
    BY <1>1, <1>3, <1>6, <2>2 DEF IInv, ApplyOK, ReversalOK, Archived
  <2> QED
    BY <1>3, <1>6, <2>3, <2>4, <2>5
    DEF IInv, ArchiveOK, AckDurable, RejectedStaysRejected, Continue
<1> QED
  BY <1>4, <1>5, <1>6 DEF RolledBack

\* Without stuck writes a rollback never leaves part of the documents behind.
LEMMA LeftPartialInv ==
  ASSUME "stuck" \notin Faults, LeftPartial
  PROVE  IInv'
  BY DEF LeftPartial

\* The entry's last form reaches the archive; it is still active.
LEMMA ArchiveInv ==
  ASSUME IInv, Archive
  PROVE  IInv'
<1>1. /\ job \in Job /\ job.at = "archive" /\ ~Idle /\ active = job.entry
      /\ job.entry \in Entry /\ job.entry # None
  BY MarksAssumption DEF Archive, IInv, TypeOK, JobOK, At, Idle, Job
<1>2. archive' = [archive EXCEPT ![job.entry.tx] = Closed]
  BY DEF Archive
<1>3. /\ job' \in Job
      /\ job'.at = "clear" /\ job'.op = job.op /\ job'.mode = job.mode
      /\ job'.goal = job.goal /\ job'.entry = job.entry /\ job'.plan = job.plan
  BY <1>1 DEF Archive, Continue, Job
<1>4. Closed \in Entry /\ Closed.tx = job.entry.tx /\ Closed.state = Final(job.goal)
  BY <1>1, ClosedType
<1>5. job.entry.tx \in TxIds
  BY <1>1 DEF Entry
<1>6. TypeOK'
  <2>1. superseded' \subseteq TxIds
    BY DEF Archive, Supersede, InState, IInv, TypeOK
  <2> QED
    BY <1>2, <1>3, <1>4, <1>5, <2>1 DEF Archive, Continue, IInv, TypeOK
<1>7. ArchiveOK'
  BY <1>2, <1>4, <1>5 DEF IInv, TypeOK, ArchiveOK
<1>8. UNCHANGED <<active, told>>
  BY DEF Archive, Continue
<1>9. JobOK'
  <2>1. Closed' = Closed
    BY <1>3 DEF Closed
  <2>2. archive'[job'.entry.tx] = Closed'
    BY <1>2, <1>3, <1>5, <2>1 DEF IInv, TypeOK
  <2> QED
    BY <1>1, <1>3, <1>8, <2>2 DEF IInv, JobOK
<1>10. ApplyOK' /\ ReversalOK'
  <2>1. ApplyOK'
    BY <1>1, <1>3, <1>8 DEF IInv, ApplyOK
  <2>2. job.op # "apply" => job.goal \in {"before", "after"}
    BY <1>1 DEF IInv, ReversalOK, Job
  <2>3. job.op # "apply" => Final(job.goal) \in {"completed", "undone"}
    BY <2>2 DEF Final
  <2>4. archive'[job.entry.tx] = Closed /\ Closed # None
    BY <1>2, <1>4, <1>5, MarksAssumption DEF IInv, TypeOK
  <2> QED
    BY <1>1, <1>3, <1>4, <2>1, <2>3, <2>4 DEF IInv, ReversalOK, Archived
<1>11. AckDurable'
  BY <1>1, <1>2, <1>8 DEF IInv, TypeOK, AckDurable
<1>12. RejectedStaysRejected'
  BY <1>1, <1>2, <1>8 DEF IInv, TypeOK, RejectedStaysRejected
<1> QED
  BY <1>6, <1>7, <1>9, <1>10, <1>11, <1>12 DEF IInv

\* With the archive written the active entry can go: whoever was told "ok"
\* finds the transaction completed or undone there, and an aborted one is
\* answered with a rejection.
LEMMA ClearInv ==
  ASSUME IInv, Clear
  PROVE  IInv'
<1>1. /\ job \in Job /\ job.at = "clear" /\ ~Idle /\ active = job.entry
      /\ job.entry \in Entry /\ job.entry # None /\ job.entry.tx \in TxIds
      /\ archive[job.entry.tx] = Closed
  BY MarksAssumption DEF Clear, IInv, TypeOK, JobOK, At, Idle, Job, Entry
<1>2. Closed # None /\ Closed.state = Final(job.goal)
  BY <1>1, ClosedType, MarksAssumption
<1>3. IF job.goal = "abort" THEN Closed.state = "aborted"
                            ELSE Closed.state \in {"completed", "undone"}
  BY <1>1, <1>2 DEF Final, Job
<1>4. active' = None /\ UNCHANGED <<docs, archive, seq, proposals, superseded>>
  BY DEF Clear
<1>5. ArchiveOK'
  BY <1>4 DEF IInv, ArchiveOK
<1>6. \A t \in TxIds : told[t] = "ok" =>
        archive[t] # None /\ archive[t].state \in {"completed", "undone"}
  <2> SUFFICES ASSUME NEW t \in TxIds, told[t] = "ok", active.tx = t
               PROVE  archive[t] # None /\ archive[t].state \in {"completed", "undone"}
    BY DEF IInv, AckDurable
  <2>1. job.op # "apply"
    BY <1>1 DEF IInv, ApplyOK
  <2>2. job.goal # "abort"
    BY <1>1, <2>1 DEF IInv, ReversalOK, Job
  <2> QED
    BY <1>1, <1>2, <1>3, <2>2
<1>7. CASE /\ job.mode = "first" /\ job.op # "recover"
           /\ job' = [job EXCEPT !.at = "main", !.mode = "own", !.entry = None]
           /\ UNCHANGED told
  <2>1. /\ job' \in Job
        /\ job'.at = "main" /\ job'.mode = "own" /\ job'.entry = None
        /\ job'.op = job.op /\ job'.goal = job.goal
    BY <1>1, <1>7 DEF Job
  <2>2. job.op # "apply" /\ job.goal # "abort"
    BY <1>1, <1>7 DEF IInv, ApplyOK, ReversalOK, Job
  <2>3. TypeOK'
    BY <1>4, <1>7, <2>1 DEF IInv, TypeOK
  <2>4. JobOK' /\ ApplyOK' /\ ReversalOK'
    BY <1>4, <2>1, <2>2 DEF JobOK, ApplyOK, ReversalOK
  <2>5. AckDurable' /\ RejectedStaysRejected'
    BY <1>4, <1>6, <1>7 DEF IInv, AckDurable, RejectedStaysRejected
  <2> QED
    BY <1>5, <2>3, <2>4, <2>5 DEF IInv
<1>8. CASE Finish(IF job.goal = "abort" THEN "rejected" ELSE "ok")
  <2> DEFINE answer == IF job.goal = "abort" THEN "rejected" ELSE "ok"
  <2>1. job' = None /\ told' = IF job.op = "apply"
                               THEN [told EXCEPT ![job.entry.tx] = answer] ELSE told
    BY <1>1, <1>8 DEF Finish
  <2>2. Idle'
    BY <2>1 DEF Idle
  <2>3. TypeOK'
    BY <1>1, <1>4, <2>1 DEF IInv, TypeOK
  <2>4. JobOK' /\ ApplyOK' /\ ReversalOK'
    BY <2>2 DEF JobOK, ApplyOK, ReversalOK
  <2>5. \A t \in TxIds : told'[t] = told[t] \/ (t = job.entry.tx /\ told'[t] = answer)
    BY <1>1, <2>1 DEF IInv, TypeOK
  <2>6. AckDurable'
    BY <1>1, <1>2, <1>3, <1>4, <1>6, <2>5 DEF AckDurable
  <2>7. RejectedStaysRejected'
    BY <1>1, <1>2, <1>3, <1>4, <2>5 DEF IInv, RejectedStaysRejected
  <2> QED
    BY <1>5, <2>3, <2>4, <2>6, <2>7 DEF IInv
<1> QED
  BY <1>7, <1>8 DEF Clear

\* When the archive or the clearing fails the entry is still active, so an
\* apply may answer "ok"; an abort starts over, forward this time.
LEMMA UnfinishedInv ==
  ASSUME IInv, ~Idle, job.at \in {"archive", "clear"}, Unfinished,
         UNCHANGED <<disk, proposals, superseded>>
  PROVE  IInv'
<1>1. /\ job \in Job /\ active = job.entry
      /\ job.entry \in Entry /\ job.entry # None /\ job.entry.tx \in TxIds
  BY MarksAssumption DEF IInv, TypeOK, JobOK, Idle, Job, Entry
<1>2. UNCHANGED <<docs, active, archive, seq>>
  BY DEF disk
<1>3. ArchiveOK'
  BY <1>2 DEF IInv, ArchiveOK
<1>4. CASE job.goal = "abort" /\ StartCommit(job.entry, "after", "inline", docs)
  <2>1. job' \in Job
    BY <1>1, <1>4, StartCommitType DEF IInv, TypeOK
  <2>2. /\ job'.at = "commit" /\ job'.mode = "inline" /\ job'.goal = "after"
        /\ job'.entry = job.entry /\ job'.op = job.op /\ job'.plan = job.plan
        /\ job'.todo = DOMAIN job.entry.plan.after /\ told' = told
    BY <1>1, <1>4 DEF StartCommit, Job
  <2>3. TypeOK'
    BY <1>2, <2>1, <2>2 DEF IInv, TypeOK
  <2>4. JobOK'
    BY <1>1, <1>2, <2>2 DEF JobOK
  <2>5. ApplyOK' /\ ReversalOK'
    BY <1>1, <2>2 DEF IInv, ApplyOK, ReversalOK
  <2> QED
    BY <1>2, <1>3, <2>2, <2>3, <2>4, <2>5
    DEF IInv, AckDurable, RejectedStaysRejected
<1>5. CASE Finish("ok")
  <2>1. job' = None /\ told' = IF job.op = "apply"
                               THEN [told EXCEPT ![job.entry.tx] = "ok"] ELSE told
    BY <1>1, <1>5 DEF Finish
  <2>2. Idle'
    BY <2>1 DEF Idle
  <2>3. TypeOK'
    BY <1>1, <1>2, <2>1 DEF IInv, TypeOK
  <2>4. JobOK' /\ ApplyOK' /\ ReversalOK'
    BY <2>2 DEF JobOK, ApplyOK, ReversalOK
  <2>5. \A t \in TxIds : told'[t] = told[t] \/ (t = job.entry.tx /\ told'[t] = "ok")
    BY <1>1, <2>1 DEF IInv, TypeOK
  <2>6. AckDurable' /\ RejectedStaysRejected'
    BY <1>1, <1>2, <2>5 DEF IInv, AckDurable, RejectedStaysRejected
  <2> QED
    BY <1>3, <2>3, <2>4, <2>6 DEF IInv
<1> QED
  BY <1>4, <1>5 DEF Unfinished

LEMMA ArchiveFailsInv ==
  ASSUME "stuck" \notin Faults, IInv, ArchiveFails
  PROVE  IInv'
  BY UnfinishedInv DEF ArchiveFails, At, disk

LEMMA ClearFailsInv ==
  ASSUME "stuck" \notin Faults, IInv, ClearFails
  PROVE  IInv'
<1>1. active' = active
  BY AfterCleanFailure DEF ClearFails
<1> QED
  BY <1>1, UnfinishedInv DEF ClearFails, At, disk

LEMMA NextInv ==
  ASSUME "stuck" \notin Faults, IInv, [Next]_vars
  PROVE  IInv'
<1>1. CASE Next
  BY <1>1, ProposeInv, DiscardInv, BeginInv, NothingToRecoverInv,
     RecoveryRefusedInv, RecoverEntryInv, ApplyVerifyInv, ReserveInv,
     ReserveFailsInv, UndoInv, RedoInv, EditInv, ActivateInv,
     ActivateFailsInv, RenameInv, CommittedInv, RolledBackInv, LeftPartialInv,
     ArchiveInv, ArchiveFailsInv, ClearInv, ClearFailsInv, RetractInv,
     CrashInv, ForeignInv, DamageSequenceInv
  DEF Next, Step, Fault
<1>2. CASE UNCHANGED vars
  BY <1>2
  DEF IInv, TypeOK, ArchiveOK, JobOK, ApplyOK, ReversalOK, AckDurable,
      RejectedStaysRejected, Archived, Idle, Closed, Final, vars, disk,
      history
<1> QED
  BY <1>1, <1>2

\* Every reachable state has the types the model declares, an archived entry
\* is filed under its own transaction, and a job knows which entry is active.
THEOREM Invariance ==
  ASSUME "stuck" \notin Faults
  PROVE  Spec => []IInv
<1>1. Init => IInv
  BY InitInv
<1>2. IInv /\ [Next]_vars => IInv'
  BY NextInv
<1> QED
  BY <1>1, <1>2, PTL DEF Spec

\* What apply acknowledges survives: writeJournal comes before
\* writeActiveJournal(null), and apply says "ok" with recovery pending only
\* while its entry is active.
THEOREM AckIsDurable ==
  ASSUME "stuck" \notin Faults
  PROVE  Spec => []AckDurable
<1>1. IInv => AckDurable
  BY DEF IInv
<1> QED
  BY <1>1, Invariance, PTL

\* What apply rejects never takes effect: it answers "rejected" before its
\* entry is active or after the entry is archived as aborted.
THEOREM RejectionIsFinal ==
  ASSUME "stuck" \notin Faults
  PROVE  Spec => []RejectedStaysRejected
<1>1. IInv => RejectedStaysRejected
  BY DEF IInv
<1> QED
  BY <1>1, Invariance, PTL
=============================================================================
