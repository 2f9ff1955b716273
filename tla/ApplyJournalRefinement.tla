----------------------- MODULE ApplyJournalRefinement -----------------------
(***************************************************************************)
(* ApplyJournal implements ProjectHistory, for any documents, contents,    *)
(* transactions and orders, when a durable write that fails restores the   *)
(* old bytes ("stuck" is not among the faults).                            *)
(*                                                                         *)
(* The step that takes effect is the clearing of active.json.  What makes  *)
(* it the right one was established long before it: by the choice of a     *)
(* candidate, by the order drawn and by the check of the documents.  The   *)
(* invariant keeps these facts about the active entry through crashes,     *)
(* rollbacks and recoveries, until the entry is cleared.                   *)
(***************************************************************************)
EXTENDS ApplyJournalProofs

-----------------------------------------------------------------------------
(* What stays true of an entry from the moment it is drawn up.             *)

\* A new transaction comes after all that were applied, undone ones included.
OnTop(e) ==
  \A u \in TxIds \ {e.tx} :
    Archived(u, {"completed", "undone"}) => archive[u].order < e.order

\* What undo takes back is the newest of those applied.
NewestApplied(e) ==
  \A u \in TxIds \ {e.tx} : Archived(u, {"completed"}) => archive[u].order <= e.order

\* What redo brings back is above everything applied, and nothing undone lies
\* between.
NearestUndone(e) ==
  /\ \A u \in TxIds \ {e.tx} : Archived(u, {"completed"}) => archive[u].order < e.order
  /\ \A u \in TxIds \ {e.tx} :
       Archived(u, {"undone"}) /\ archive[u].order < e.order =>
         \E v \in TxIds \ {e.tx} :
           Archived(v, {"completed"}) /\ archive[u].order < archive[v].order

\* The archive knows the transaction with the same order and images.
OnRecord(e) ==
  /\ Archived(e.tx, {"completed", "undone"})
  /\ archive[e.tx].order = e.order
  /\ archive[e.tx].plan = e.plan

EntryOK(e) ==
  \/ e.state = "prepared" /\ e.order # 0 /\ OnTop(e)
  \/ e.state = "undoing" /\ OnRecord(e) /\ NewestApplied(e)
  \/ e.state = "redoing" /\ OnRecord(e) /\ NearestUndone(e)

\* The archive does not show the outcome of the entry yet.
Unrecorded(e) ==
  \/ e.state = "prepared" /\ archive[e.tx] = None
  \/ e.state = "undoing" /\ Archived(e.tx, {"completed"})
  \/ e.state = "redoing" /\ Archived(e.tx, {"undone"})

\* The image a job drives to is that of its entry; only an apply is aborted.
Heads(e, goal) ==
  /\ goal = "before" <=> e.state = "undoing"
  /\ goal = "abort" => e.state = "prepared"

\* Whatever is archived came to an end.
AllEnded ==
  \A t \in TxIds : archive[t] # None =>
    archive[t].state \in {"completed", "undone", "aborted"}

StandingOK ==
  /\ active # None => EntryOK(active)
  /\ ~Idle =>
       /\ job.at = "activate" => EntryOK(job.entry)
       /\ job.at \in {"activate", "commit"} /\ job.op = "apply" =>
            job.entry.state = "prepared"
       /\ job.at \in {"activate", "commit", "archive", "clear"} =>
            Heads(job.entry, job.goal)
       /\ job.at \in {"activate", "retract"} => Unrecorded(job.entry)
       /\ job.at = "commit" /\ job.mode = "own" => Unrecorded(job.entry)

\* Before its commit and after its rollback a job's documents hold what the
\* entry starts from, after the commit what it drives to, and during the
\* commit those already renamed do.
ImagesOK ==
  ~Idle =>
    /\ job.at \in {"activate", "retract"} => Matches(Source(job.entry))
    /\ job.at = "commit" =>
         \A d \in DOMAIN job.entry.plan.after \ job.todo :
           docs[d] = Goal(job.entry, job.goal)[d]
    /\ job.at = "commit" /\ job.mode = "own" =>
         \A d \in DOMAIN job.entry.plan.after : job.pre[d] = Source(job.entry)[d]
    /\ job.at \in {"archive", "clear"} => Matches(Goal(job.entry, job.goal))

\* Everything known of the disk and of the job.
Known == IInv /\ OrderInv /\ DocsOK /\ AllEnded /\ StandingOK /\ ImagesOK

-----------------------------------------------------------------------------
(* The invariant.                                                          *)

\* A step after which no entry is at hand.
LEMMA QuietStanding ==
  ASSUME StandingOK, UNCHANGED archive, active' \in {active, None},
         Idle' \/ job'.at \in {"begin", "main", "reserve"}
  PROVE  StandingOK' /\ ImagesOK'
<1>1. active' # None => EntryOK(active)'
  BY DEF StandingOK, EntryOK, OnTop, NewestApplied, NearestUndone, OnRecord, Archived
<1> QED
  BY <1>1 DEF StandingOK, ImagesOK

LEMMA SourceIs ==
  ASSUME NEW e \in Entry
  PROVE  /\ Source(e) \in Image
         /\ DOMAIN Source(e) = DOMAIN e.plan.after
         /\ DOMAIN e.plan.after \subseteq Docs
BY GoalType, PlanType DEF Source, Entry, Plan

\* The start of a commit, by an operation that checked the documents or by a
\* recovery.
LEMMA CommitStanding ==
  ASSUME job \in Job, UNCHANGED <<docs, archive>>, NEW goal, NEW mode, NEW entry \in Entry,
         StartCommit(entry, goal, mode, docs), active' = entry, EntryOK(entry),
         Heads(entry, goal), job.op = "apply" => entry.state = "prepared",
         mode = "own" => Matches(Source(entry)) /\ Unrecorded(entry)
  PROVE  StandingOK' /\ ImagesOK'
<1>1. /\ job'.at = "commit" /\ job'.entry = entry /\ job'.pre = docs
      /\ job'.op = job.op /\ job'.goal = goal
      /\ job'.mode = mode /\ job'.todo = DOMAIN entry.plan.after
  BY DEF StartCommit, Job
<1>2. EntryOK(entry)' /\ Heads(entry, goal) /\ (mode = "own" => Unrecorded(entry)')
  BY DEF EntryOK, OnTop, NewestApplied, NearestUndone, OnRecord, Unrecorded, Archived
<1>3. StandingOK'
  BY <1>1, <1>2 DEF StandingOK
<1>4. ImagesOK'
  BY <1>1, SourceIs DEF ImagesOK, Matches
<1> QED
  BY <1>3, <1>4

\* The order drawn is above every archived one.
LEMMA ReserveStanding ==
  ASSUME Known, Reserve
  PROVE  StandingOK' /\ ImagesOK'
<1>1. PICK last \in LastOrders, t \in Fresh :
        /\ last < MaxOrder
        /\ seq' = last + 1
        /\ job' = [job EXCEPT !.at = "activate", !.entry = Prepared(t, last + 1)]
  BY DEF Reserve
<1>2. last \in Nat /\ seq \in Nat
  BY OrderAssumption DEF LastOrders, Known, IInv, TypeOK
<1>3. /\ job \in Job /\ ~Idle /\ job.op = "apply" /\ job.at = "reserve"
      /\ job.goal = "after" /\ job.plan \in Plan /\ Matches(job.plan.before)
  BY DEF Reserve, Known, IInv, TypeOK, ApplyOK, ReversalOK, JobOK, DocsOK, At, Idle, Job
<1>0. PICK e : e = Prepared(t, last + 1)
  OBVIOUS
<1>4. e.tx = t /\ e.state = "prepared" /\ e.order = last + 1 /\ e.plan = job.plan
  BY <1>0 DEF Prepared
<1>5. job'.at = "activate" /\ job'.entry = e /\ job'.goal = "after"
  BY <1>0, <1>1, <1>3 DEF Job
<1>6. active = None /\ UNCHANGED <<active, archive, docs>>
  BY DEF Reserve, Known, IInv, JobOK, At
<1>7. \A u \in TxIds : archive[u] # None => archive[u].order \in Nat /\ archive[u].order <= last
  BY <1>1, OrderAssumption DEF LastOrders, OrderInv, Known, IInv, TypeOK, Entry
<1>8. EntryOK(e)'
  BY <1>2, <1>4, <1>6, <1>7 DEF EntryOK, OnTop, Archived
<1>9. Unrecorded(e)' /\ Heads(e, "after")
  BY <1>1, <1>4, <1>6 DEF Unrecorded, Heads, Fresh
<1>10. Matches(Source(e))'
  BY <1>3, <1>4, <1>6 DEF Matches, Source
<1> QED
  BY <1>4, <1>5, <1>6, <1>8, <1>9, <1>10 DEF StandingOK, ImagesOK

\* Undo and redo take up an archived entry, in its other direction.
LEMMA ReversalStanding ==
  ASSUME Known, At("main"), NEW candidates \in SUBSET TxIds,
         NEW state \in States, NEW from, NEW goal,
         UNCHANGED <<docs, active, archive>>, active = None, job.op # "apply",
         Reversal(candidates, state, from, goal),
         \A t \in candidates : Archived(t, {"completed", "undone"}),
         \A t \in candidates : \A e \in Entry :
           /\ e.tx = t /\ e.state = state /\ e.plan = archive[t].plan
           /\ e.order = archive[t].order
           => EntryOK(e) /\ Unrecorded(e) /\ Heads(e, goal) /\ Source(e) = Goal(archive[t], from)
  PROVE  StandingOK' /\ ImagesOK'
<1>1. job \in Job /\ ~Idle
  BY DEF Known, IInv, TypeOK, At, Idle
<1>2. CASE Finish("none")
  BY <1>2, QuietStanding DEF Finish, Idle, Known
<1>3. ASSUME NEW t \in candidates, Matches(Goal(archive[t], from)),
             job' = [job EXCEPT !.at = "activate", !.goal = goal,
                                !.entry = [archive[t] EXCEPT !.state = state]]
      PROVE  StandingOK' /\ ImagesOK'
  <2>1. /\ archive[t] \in Entry /\ archive[t].tx = t
        /\ [archive[t] EXCEPT !.state = state] \in Entry
    BY DEF Known, IInv, TypeOK, ArchiveOK, Archived, Entry
  <2>2. PICK e \in Entry : e = [archive[t] EXCEPT !.state = state]
    BY <2>1
  <2>3. /\ e.tx = t /\ e.state = state /\ e.plan = archive[t].plan
        /\ e.order = archive[t].order
    BY <2>1, <2>2 DEF Entry
  <2>4. EntryOK(e) /\ Unrecorded(e) /\ Heads(e, goal) /\ Matches(Source(e))
    BY <1>3, <2>3
  <2>5. /\ job'.at = "activate" /\ job'.entry = e /\ job'.goal = goal
        /\ job'.op = job.op
    BY <1>1, <1>3, <2>2 DEF Job
  <2>6. EntryOK(e)' /\ Unrecorded(e)'
    BY <2>4 DEF EntryOK, OnTop, NewestApplied, NearestUndone, OnRecord, Unrecorded, Archived
  <2>7. Matches(Source(e))'
    BY <2>4 DEF Matches, Source
  <2> QED
    BY <2>4, <2>5, <2>6, <2>7 DEF StandingOK, ImagesOK
<1> QED
  BY <1>2, <1>3 DEF Reversal

\* The candidate of undo is the newest applied, with a rank of its own.
LEMMA UndoStanding ==
  ASSUME Known, Undo
  PROVE  StandingOK' /\ ImagesOK'
<1>1. /\ At("main") /\ active = None /\ UNCHANGED <<docs, active, archive>>
      /\ Reversal(UndoCandidates, "undoing", "after", "before") /\ job.op # "apply"
  BY DEF Undo, Known, IInv, JobOK, At, disk
<1>2. /\ UndoCandidates \in SUBSET TxIds /\ "undoing" \in States
      /\ \A t \in UndoCandidates : Archived(t, {"completed"})
  BY DEF UndoCandidates, InState, Archived, States
<1>3. ASSUME NEW t \in UndoCandidates, NEW e \in Entry,
             e.tx = t /\ e.state = "undoing" /\ e.plan = archive[t].plan,
             e.order = archive[t].order
      PROVE  /\ EntryOK(e) /\ Unrecorded(e) /\ Heads(e, "before")
             /\ Source(e) = Goal(archive[t], "after")
  <2>1. NewestApplied(e)
    BY <1>3 DEF NewestApplied, UndoCandidates, InState, Archived
  <2>2. OnRecord(e)
    BY <1>2, <1>3 DEF OnRecord, Archived
  <2> QED
    BY <1>2, <1>3, <2>1, <2>2 DEF EntryOK, Unrecorded, Heads, Source, Goal
<1>4. \A t \in UndoCandidates : Archived(t, {"completed", "undone"})
  BY <1>2 DEF Archived
<1> QED
  BY <1>1, <1>2, <1>3, <1>4, ReversalStanding

\* The candidate of redo is the nearest above everything applied; orders are
\* distinct, so what is undone below it lies below something applied.
LEMMA RedoStanding ==
  ASSUME Known, Redo
  PROVE  StandingOK' /\ ImagesOK'
<1>1. /\ At("main") /\ active = None /\ UNCHANGED <<docs, active, archive>>
      /\ Reversal(RedoCandidates, "redoing", "before", "after") /\ job.op # "apply"
  BY DEF Redo, Known, IInv, JobOK, At, disk
<1>2. /\ RedoCandidates \in SUBSET TxIds /\ "redoing" \in States
      /\ \A t \in RedoCandidates : Archived(t, {"undone"}) /\ t \in AboveCompleted
  BY DEF RedoCandidates, AboveCompleted, InState, Archived, States
<1>3. ASSUME NEW t \in RedoCandidates, NEW e \in Entry,
             e.tx = t /\ e.state = "redoing" /\ e.plan = archive[t].plan,
             e.order = archive[t].order
      PROVE  /\ EntryOK(e) /\ Unrecorded(e) /\ Heads(e, "after")
             /\ Source(e) = Goal(archive[t], "before")
  <2>1. \A u \in TxIds : Archived(u, {"completed"}) => archive[u].order < e.order
    BY <1>2, <1>3 DEF AboveCompleted, InState, Archived
  <2>2. ASSUME NEW u \in TxIds, Archived(u, {"undone"}), archive[u].order < e.order
        PROVE  \E v \in TxIds \ {e.tx} :
                 Archived(v, {"completed"}) /\ archive[u].order < archive[v].order
    <3>1. \A v \in TxIds : archive[v] # None => archive[v].order \in Nat
      BY OrderAssumption DEF Known, IInv, TypeOK, Entry
    <3>2. archive[u].order \in Nat /\ archive[t].order \in Nat
      BY <1>2, <2>2, <3>1 DEF Archived
    <3>3. u \notin AboveCompleted
      BY <1>3, <2>2, <3>2 DEF RedoCandidates
    <3>4. PICK v \in InState("completed") : ~(archive[v].order < archive[u].order)
      BY <2>2, <3>3 DEF AboveCompleted, InState, Archived
    <3>5. v \in TxIds /\ Archived(v, {"completed"}) /\ v # u /\ v # t
      BY <1>2, <2>2, <3>4 DEF InState, Archived
    <3>6. archive[v].order # archive[u].order
      BY <2>2, <3>5 DEF Known, OrderInv, Archived
    <3>7. archive[v].order \in Nat
      BY <3>1, <3>5 DEF Archived
    <3>8. archive[u].order < archive[v].order
      BY <3>2, <3>4, <3>6, <3>7
    <3> QED
      BY <1>3, <3>5, <3>8
  <2>3. OnRecord(e)
    BY <1>2, <1>3 DEF OnRecord, Archived
  <2>4. EntryOK(e)
    BY <1>3, <2>1, <2>2, <2>3 DEF EntryOK, NearestUndone
  <2> QED
    BY <1>2, <1>3, <2>4 DEF Unrecorded, Heads, Source, Goal
<1>4. \A t \in RedoCandidates : Archived(t, {"completed", "undone"})
  BY <1>2 DEF Archived
<1> QED
  BY <1>1, <1>2, <1>3, <1>4, ReversalStanding

\* The entry is on disk: it is what a crash leaves to recover.
LEMMA ActivateStanding ==
  ASSUME Known, Activate
  PROVE  StandingOK' /\ ImagesOK'
<1>1. /\ job \in Job /\ ~Idle /\ job.at = "activate" /\ job.entry \in Entry
  BY DEF Activate, Known, IInv, TypeOK, JobOK, At, Idle, Job
<1>2. /\ active' = job.entry /\ UNCHANGED <<docs, archive>>
      /\ StartCommit(job.entry, job.goal, "own", docs)
  BY DEF Activate
<1>3. /\ EntryOK(job.entry) /\ Unrecorded(job.entry) /\ Heads(job.entry, job.goal)
      /\ Matches(Source(job.entry))
      /\ job.op = "apply" => job.entry.state = "prepared"
  BY <1>1 DEF Known, StandingOK, ImagesOK
<1>4. PICK e \in Entry : e = job.entry
  BY <1>1
<1>5. PICK g : g = job.goal
  OBVIOUS
<1> QED
  BY <1>1, <1>2, <1>3, <1>4, <1>5, CommitStanding

\* Recovery goes on in the direction the entry was going.
LEMMA RecoverStanding ==
  ASSUME Known, RecoverEntry
  PROVE  StandingOK' /\ ImagesOK'
<1>1. /\ job \in Job /\ ~Idle /\ active \in Entry /\ EntryOK(active)
      /\ job.op # "apply"
  BY DEF RecoverEntry, Known, IInv, TypeOK, JobOK, StandingOK, At, Idle
<1>2. PICK e \in Entry : e = active
  BY <1>1
<1>3. PICK g : g = IF e.state = "undoing" THEN "before" ELSE "after"
  OBVIOUS
<1>4. /\ active' = active /\ UNCHANGED <<docs, archive>>
      /\ StartCommit(e, g, "first", docs)
  BY <1>2, <1>3 DEF RecoverEntry, disk
<1>5. Heads(e, g) /\ "first" # "own"
  BY <1>1, <1>2, <1>3 DEF Heads
<1> QED
  BY <1>1, <1>2, <1>4, <1>5, CommitStanding

\* A job past its activation and the entry it works on.
LEMMA Working ==
  ASSUME Known, ~Idle, job.at \in {"commit", "archive", "clear", "retract"}
  PROVE  /\ job \in Job /\ job.entry \in Entry /\ active = job.entry /\ active # None
         /\ EntryOK(job.entry) /\ job.entry.tx \in TxIds
         /\ job.entry.plan \in Plan
         /\ DOMAIN job.entry.plan.after \subseteq Docs
<1>1. job \in Job /\ job.entry \in Entry /\ active = job.entry /\ active # None
  BY MarksAssumption DEF Known, IInv, TypeOK, JobOK, Idle, Job
<1> QED
  BY <1>1, GoalType DEF Known, StandingOK, Entry

LEMMA RenameStanding ==
  ASSUME Known, Rename
  PROVE  StandingOK' /\ ImagesOK'
<1>1. ~Idle /\ job.at = "commit" /\ UNCHANGED <<active, archive>>
  BY DEF Rename, At
<1>2. PICK d \in job.todo :
        /\ docs' = With(Goal(job.entry, job.goal), {d})
        /\ job' = [job EXCEPT !.todo = @ \ {d}]
  BY DEF Rename
<1>3. /\ job'.at = "commit" /\ job'.entry = job.entry /\ job'.pre = job.pre
      /\ job'.op = job.op /\ job'.goal = job.goal
      /\ job'.mode = job.mode /\ job'.todo = job.todo \ {d}
      /\ job' # None /\ job' # Dead
  BY <1>1, <1>2, Working, MarksAssumption DEF Job
<1>4. StandingOK'
  BY <1>1, <1>3 DEF Known, StandingOK, EntryOK, OnTop, NewestApplied, NearestUndone,
     OnRecord, Unrecorded, Archived, Heads
<1>5. \A o \in DOMAIN job.entry.plan.after \ (job.todo \ {d}) :
        docs'[o] = Goal(job.entry, job.goal)[o]
  BY <1>1, <1>2, Working DEF Known, ImagesOK, With
<1>6. \A o \in DOMAIN job.entry.plan.after : job.mode = "own" =>
        job.pre[o] = Source(job.entry)[o]
  BY <1>1 DEF Known, ImagesOK
<1>7. PICK e : e = job.entry
  OBVIOUS
<1>8. PICK g : g = job.goal
  OBVIOUS
<1> QED
  BY <1>1, <1>3, <1>4, <1>5, <1>6, <1>7, <1>8 DEF ImagesOK, Goal, Source

LEMMA CommittedStanding ==
  ASSUME Known, Committed
  PROVE  StandingOK' /\ ImagesOK'
<1>1. /\ ~Idle /\ job.at = "commit" /\ job.todo = {} /\ UNCHANGED <<docs, active, archive>>
      /\ job' = [job EXCEPT !.at = "archive"]
  BY DEF Committed, Continue, At, disk
<1>2. job'.at = "archive" /\ job'.entry = job.entry /\ job'.goal = job.goal
  BY <1>1, Working DEF Job
<1>3. Matches(Goal(job.entry, job.goal))
  BY <1>1, Working, GoalType DEF Known, ImagesOK, Matches
<1>4. PICK e, g : e = job.entry /\ g = job.goal
  OBVIOUS
<1>5. StandingOK'
  BY <1>1, <1>2 DEF Known, StandingOK, EntryOK, OnTop, NewestApplied, NearestUndone,
     OnRecord, Archived, Heads
<1>6. Matches(Goal(e, g))'
  BY <1>1, <1>3, <1>4 DEF Matches, Goal
<1> QED
  BY <1>2, <1>4, <1>5, <1>6 DEF ImagesOK

\* A rollback restores what the entry starts from.
LEMMA RolledBackStanding ==
  ASSUME Known, RolledBack
  PROVE  StandingOK' /\ ImagesOK'
<1>1. ~Idle /\ job.at = "commit" /\ docs' = job.pre /\ UNCHANGED <<active, archive>>
  BY DEF RolledBack, At
<1>2. job \in Job /\ job.entry \in Entry
  BY <1>1, Working
<1>3. CASE Finish("indeterminate")
  BY <1>1, <1>3, QuietStanding DEF Finish, Idle, Known
<1>4. PICK e \in Entry : e = job.entry
  BY <1>2
<1>5. ASSUME job.mode = "own"
      PROVE  Matches(Source(e))' /\ Unrecorded(e)'
  <2>1. \A d \in DOMAIN Source(e) : job.pre[d] = Source(e)[d]
    BY <1>1, <1>4, <1>5, SourceIs DEF Known, ImagesOK
  <2>2. Unrecorded(e)
    BY <1>1, <1>4, <1>5 DEF Known, StandingOK
  <2>3. Matches(Source(e))'
    BY <1>1, <2>1 DEF Matches, Source
  <2>4. Unrecorded(e)'
    BY <1>1, <2>2 DEF Unrecorded, Archived
  <2> QED
    BY <2>3, <2>4
<1>6. EntryOK(e) /\ active = e /\ active # None
  BY <1>1, <1>4, Working
<1>7. EntryOK(e)' /\ active' = e
  BY <1>1, <1>6 DEF EntryOK, OnTop, NewestApplied, NearestUndone, OnRecord, Archived
<1>8. CASE /\ job.mode = "own" /\ job.op = "apply"
           /\ job' = [job EXCEPT !.at = "archive", !.goal = "abort"]
  <2>1. job'.at = "archive" /\ job'.entry = e /\ job'.goal = "abort"
    BY <1>2, <1>4, <1>8 DEF Job
  <2>2. e.state = "prepared"
    BY <1>1, <1>4, <1>8 DEF Known, StandingOK
  <2>3. Goal(e, "abort") = Source(e)
    BY <2>2 DEF Goal, Source
  <2> QED
    BY <1>5, <1>7, <1>8, <2>1, <2>2, <2>3 DEF StandingOK, ImagesOK, Heads
<1>9. CASE job.mode = "own" /\ job.op # "apply" /\ Continue("retract")
  <2>1. job'.at = "retract" /\ job'.entry = e
    BY <1>2, <1>4, <1>9 DEF Continue, Job
  <2> QED
    BY <1>5, <1>7, <1>9, <2>1 DEF StandingOK, ImagesOK
<1> QED
  BY <1>3, <1>8, <1>9 DEF RolledBack

\* The outcome is recorded; for what others say of it the order stands.
LEMMA ArchiveStanding ==
  ASSUME Known, Archive
  PROVE  StandingOK' /\ ImagesOK'
<1>1. ~Idle /\ job.at = "archive" /\ UNCHANGED <<docs, active>>
      /\ archive' = [archive EXCEPT ![job.entry.tx] = Closed]
      /\ job' = [job EXCEPT !.at = "clear"]
  BY DEF Archive, Continue, At
<1>2. /\ job \in Job /\ job.entry \in Entry /\ active = job.entry /\ active # None
      /\ EntryOK(job.entry) /\ job.entry.tx \in TxIds
  BY <1>1, Working
<1>3. job'.at = "clear" /\ job'.entry = job.entry /\ job'.goal = job.goal
  BY <1>1, <1>2 DEF Job
<1>4. /\ Closed \in Entry /\ Closed # None /\ Closed.plan = job.entry.plan
      /\ Closed.state = Final(job.goal)
      /\ job.goal # "abort" => Closed.order = job.entry.order
  BY <1>2, ClosedType, MarksAssumption
<1>5. PICK e \in Entry : e = job.entry
  BY <1>2
<1>6. /\ archive'[e.tx] = Closed
      /\ \A u \in TxIds \ {e.tx} : archive'[u] = archive[u]
  BY <1>1, <1>2, <1>5 DEF Known, IInv, TypeOK
<1>7. Heads(e, job.goal) /\ job.goal \in {"before", "after", "abort"} /\ EntryOK(e)
  BY <1>1, <1>2, <1>5 DEF Known, StandingOK, Job
<1>8. e.state # "prepared" => OnRecord(e)'
  BY <1>4, <1>5, <1>6, <1>7 DEF OnRecord, Archived, Final, Heads
<1>9. EntryOK(e)'
  BY <1>6, <1>7, <1>8 DEF EntryOK, OnTop, NewestApplied, NearestUndone, Archived
<1>10. Matches(Goal(job.entry, job.goal))
  BY <1>1 DEF Known, ImagesOK
<1>11. PICK g : g = job.goal
  OBVIOUS
<1>12. Matches(Goal(e, g))'
  BY <1>1, <1>5, <1>10, <1>11 DEF Matches, Goal
<1> QED
  BY <1>1, <1>2, <1>3, <1>5, <1>7, <1>9, <1>11, <1>12 DEF StandingOK, ImagesOK

\* After a failed archiving or clearing the entry stays, its documents right;
\* an abort starts over, forward.
LEMMA UnfinishedStanding ==
  ASSUME Known, ~Idle, job.at \in {"archive", "clear"}, Unfinished,
         UNCHANGED <<docs, active, archive>>
  PROVE  StandingOK' /\ ImagesOK'
<1>1. CASE Finish("ok")
  BY <1>1, QuietStanding DEF Finish, Idle, Known
<1>2. CASE job.goal = "abort" /\ StartCommit(job.entry, "after", "inline", docs)
  <2>1. job \in Job /\ job.entry \in Entry /\ active = job.entry /\ EntryOK(job.entry)
    BY Working
  <2>2. PICK e \in Entry : e = job.entry
    BY <2>1
  <2>3. Heads(e, "after") /\ e.state = "prepared"
    BY <1>2, <2>2 DEF Known, StandingOK, Heads
  <2> QED
    BY <1>2, <2>1, <2>2, <2>3, CommitStanding
<1> QED
  BY <1>1, <1>2 DEF Unfinished

\* Everything else has no entry at hand, or leaves the job as it is.
LEMMA RestStanding ==
  ASSUME "stuck" \notin Faults, Known,
         \/ Propose \/ Discard \/ Begin \/ Crash \/ Foreign \/ DamageSequence
         \/ NothingToRecover \/ RecoveryRefused \/ ApplyVerify \/ Edit
         \/ ReserveFails \/ ActivateFails \/ LeftPartial
         \/ ArchiveFails \/ Clear \/ ClearFails \/ Retract
  PROVE  StandingOK' /\ ImagesOK'
<1>1. ~Idle => job \in Job
  BY DEF Known, IInv, TypeOK, Idle
<1>2. CASE Propose \/ Discard \/ DamageSequence
  <2>1. UNCHANGED <<docs, active, archive, job>>
    BY <1>2 DEF Propose, Discard, DamageSequence, disk, history
  <2> QED
    BY <2>1 DEF Known, StandingOK, ImagesOK, EntryOK, OnTop, NewestApplied,
       NearestUndone, OnRecord, Unrecorded, Archived, Heads, Matches, Idle
<1>3. CASE Begin \/ Crash \/ Foreign
  <2>1. Idle' \/ job'.at \in {"begin", "main"}
    BY <1>3 DEF Begin, Started, Crash, Foreign, Idle
  <2>2. UNCHANGED <<active, archive>>
    BY <1>3 DEF Begin, Crash, Foreign, disk
  <2> QED
    BY <2>1, <2>2, QuietStanding DEF Known
<1>4. CASE \/ NothingToRecover \/ RecoveryRefused \/ ApplyVerify \/ Edit
           \/ ReserveFails \/ ActivateFails
  <2>1. UNCHANGED <<active, archive>>
    BY <1>4, AfterCleanFailure DEF NothingToRecover, RecoveryRefused, ApplyVerify, Edit,
       ReserveFails, ActivateFails, disk
  <2>2. Idle' \/ job'.at \in {"main", "reserve"}
    BY <1>1, <1>4, MovesOrder DEF NothingToRecover, RecoveryRefused, ApplyVerify, Edit,
       ReserveFails, ActivateFails, At
  <2> QED
    BY <2>1, <2>2, QuietStanding DEF Known
<1>5. CASE Clear \/ Retract
  <2>1. active' \in {active, None} /\ UNCHANGED archive
    BY <1>5, AfterCleanFailure DEF Clear, Retract
  <2>2. Idle' \/ job'.at = "main"
    BY <1>1, <1>5, MovesOrder DEF Clear, Retract, At, Job
  <2> QED
    BY <2>1, <2>2, QuietStanding DEF Known
<1>6. CASE ArchiveFails \/ ClearFails
  BY <1>6, AfterCleanFailure, UnfinishedStanding DEF ArchiveFails, ClearFails, At
<1>7. CASE LeftPartial
  BY <1>7 DEF LeftPartial
<1> QED
  BY <1>2, <1>3, <1>4, <1>5, <1>6, <1>7

LEMMA NextEnded ==
  ASSUME "stuck" \notin Faults, Known, [Next]_vars
  PROVE  AllEnded'
<1>1. CASE UNCHANGED archive
  BY <1>1 DEF Known, AllEnded
<1>2. CASE Archive
  <2>1. ~Idle /\ job.at = "archive" /\ archive' = [archive EXCEPT ![job.entry.tx] = Closed]
    BY <1>2 DEF Archive, At
  <2>2. Closed.state \in {"completed", "undone", "aborted"}
    BY <2>1, Working, ClosedType, MarksAssumption DEF Final, Job
  <2>3. \A t \in TxIds : archive'[t] \in {archive[t], Closed}
    BY <2>1, Working DEF Known, IInv, TypeOK
  <2> QED
    BY <2>2, <2>3 DEF Known, AllEnded
<1>3. Archive \/ UNCHANGED archive
  BY DEF Next, Step, Fault, Propose, Discard, Begin, NothingToRecover, RecoveryRefused,
     RecoverEntry, ApplyVerify, Reserve, Undo, Redo, Edit, Activate, Rename, Committed,
     Clear, Retract, ReserveFails, ActivateFails, RolledBack, LeftPartial, ArchiveFails,
     ClearFails, Crash, Foreign, DamageSequence, vars, disk
<1> QED
  BY <1>1, <1>2, <1>3

LEMMA KnownInit == Init => Known
<1> SUFFICES ASSUME Init PROVE Known
  OBVIOUS
<1>1. Idle /\ active = None /\ \A t \in TxIds : archive[t] = None
  BY DEF Init, Idle
<1> QED
  BY <1>1, InitInv DEF Known, OrderInv, DocsOK, AllEnded, StandingOK, ImagesOK

LEMMA KnownNext ==
  ASSUME "stuck" \notin Faults, Known, [Next]_vars
  PROVE  Known'
<1>1. CASE UNCHANGED vars
  <2>1. UNCHANGED <<docs, active, archive, seq, job>>
    BY <1>1 DEF vars, disk
  <2>2. StandingOK' /\ ImagesOK'
    BY <2>1 DEF Known, StandingOK, ImagesOK, EntryOK, OnTop, NewestApplied,
       NearestUndone, OnRecord, Unrecorded, Archived, Heads, Matches, Idle
  <2>3. DocsOK'
    BY <2>1 DEF Known, DocsOK, InEither, Matches, Idle
  <2> QED
    BY <2>2, <2>3, InvIsBase, NextInv, NextOrder, NextEnded DEF Known
<1>2. CASE Next
  <2>1. StandingOK' /\ ImagesOK'
    BY <1>2, ReserveStanding, UndoStanding, RedoStanding, ActivateStanding,
       RecoverStanding, RenameStanding, CommittedStanding, RolledBackStanding,
       ArchiveStanding, RestStanding DEF Next, Step, Fault
  <2> QED
    BY <1>2, <2>1, InvIsBase, NextInv, NextOrder, NextDocs, NextEnded DEF Known
<1> QED
  BY <1>1, <1>2

-----------------------------------------------------------------------------
(* The steps of the history.                                               *)

\* What the mapping gives ProjectHistory, by transaction.
Content == IF active = None THEN docs
           ELSE With(Source(active), DOMAIN active.plan.after)
FateOf(t) ==
  IF Reverting(t)
  THEN IF active.state = "undoing" THEN "applied" ELSE "undone"
  ELSE CASE ~Settled(t) -> "none"
         [] Settled(t) ->
              CASE archive[t].state = "completed" -> "applied"
                [] archive[t].state = "undone"    -> "undone"
                [] archive[t].state = "aborted"   -> "aborted"
RankOf(t)   == IF Ranked(t) THEN archive[t].order ELSE 0
ChangeOf(t) == IF Ranked(t) THEN archive[t].plan ELSE None

Same(t) ==
  FateOf(t)' = FateOf(t) /\ RankOf(t)' = RankOf(t) /\ ChangeOf(t)' = ChangeOf(t)

LEMMA Stutters ==
  ASSUME Content' = Content, \A t \in TxIds : Same(t)
  PROVE  UNCHANGED History!hvars
<1>1. [t \in TxIds |-> FateOf(t)]' = [t \in TxIds |-> FateOf(t)]
  BY DEF Same
<1>2. [t \in TxIds |-> RankOf(t)]' = [t \in TxIds |-> RankOf(t)]
  BY DEF Same
<1>3. [t \in TxIds |-> ChangeOf(t)]' = [t \in TxIds |-> ChangeOf(t)]
  BY DEF Same
<1> QED
  BY <1>1, <1>2, <1>3 DEF History!hvars, Content, FateOf, RankOf, ChangeOf

\* A transaction that is not at hand before the step or after it.
LEMMA OthersStay ==
  ASSUME Known, NEW t \in TxIds, archive'[t] = archive[t],
         active # None => active.tx # t, active' # None => active'.tx # t
  PROVE  Same(t)
BY DEF Known, AllEnded, Same, FateOf, RankOf, ChangeOf, Reverting, Settled, Ranked

LEMMA WritesStutter ==
  ASSUME UNCHANGED <<docs, active, archive>>
  PROVE  UNCHANGED History!hvars
<1>1. Content' = Content
  BY DEF Content, With, Source
<1>2. \A t \in TxIds : Same(t)
  BY DEF Same, FateOf, RankOf, ChangeOf, Reverting, Settled, Ranked
<1> QED
  BY <1>1, <1>2, Stutters

\* While an entry is active, writes to its documents do not count.
LEMMA DocsStutter ==
  ASSUME active \in Entry, active # None, UNCHANGED <<active, archive>>,
         \A d \in Docs \ DOMAIN active.plan.after : docs'[d] = docs[d]
  PROVE  UNCHANGED History!hvars
<1>1. Content' = Content
  <2>1. PICK e \in Entry : e = active
    OBVIOUS
  <2>2. With(Source(e), DOMAIN e.plan.after)' = With(Source(e), DOMAIN e.plan.after)
    BY <2>1 DEF With, Source
  <2> QED
    BY <2>1, <2>2 DEF Content
<1>2. \A t \in TxIds : Same(t)
  BY DEF Same, FateOf, RankOf, ChangeOf, Reverting, Settled, Ranked
<1> QED
  BY <1>1, <1>2, Stutters

\* What an entry starts from is what the documents hold: they count as the
\* same with the entry and without it.
LEMMA SourceHeld ==
  ASSUME Known, NEW e \in Entry, Matches(Source(e))
  PROVE  With(Source(e), DOMAIN e.plan.after) = docs
<1>1. docs = [d \in Docs |-> docs[d]]
  BY DEF Known, IInv, TypeOK
<1>2. \A d \in DOMAIN e.plan.after : Source(e)[d] = docs[d]
  BY SourceIs DEF Matches
<1> QED
  BY <1>1, <1>2 DEF With

\* An entry whose outcome is not recorded counts as none, with it active and
\* without it.
LEMMA UnrecordedSame ==
  ASSUME NEW e \in Entry, NEW t \in TxIds, t = e.tx, Unrecorded(e), EntryOK(e),
         UNCHANGED archive, e # None,
         \/ active = None /\ active' = e
         \/ active = e /\ active' = None
  PROVE  Same(t)
<1>1. CASE e.state = "prepared"
  BY <1>1 DEF Unrecorded, Same, FateOf, RankOf, ChangeOf, Reverting, Settled, Ranked
<1>2. CASE e.state = "undoing"
  BY <1>2 DEF Unrecorded, Archived, Same, FateOf, RankOf, ChangeOf, Reverting, Settled, Ranked
<1>3. CASE e.state = "redoing"
  BY <1>3 DEF Unrecorded, Archived, Same, FateOf, RankOf, ChangeOf, Reverting, Settled, Ranked
<1> QED
  BY <1>1, <1>2, <1>3 DEF EntryOK

\* Activating an entry, or withdrawing one whose documents are back.
LEMMA ActivateStutters ==
  ASSUME "stuck" \notin Faults, Known, Activate \/ Retract
  PROVE  UNCHANGED History!hvars
<1>1. CASE UNCHANGED <<docs, active, archive>>
  BY <1>1, WritesStutter
<1>2. /\ ~Idle /\ job.at \in {"activate", "retract"} /\ UNCHANGED <<docs, archive>>
      /\ job.entry \in Entry /\ EntryOK(job.entry)
      /\ Unrecorded(job.entry) /\ Matches(Source(job.entry))
  <2>1. /\ ~Idle /\ job.at \in {"activate", "retract"} /\ UNCHANGED <<docs, archive>>
    BY DEF Activate, Retract, At
  <2>2. CASE job.at = "activate"
    BY <2>1, <2>2 DEF Known, StandingOK, ImagesOK, IInv, TypeOK, JobOK, Job, Idle
  <2>3. CASE job.at = "retract"
    BY <2>1, <2>3, Working DEF Known, StandingOK, ImagesOK
  <2> QED
    BY <2>1, <2>2, <2>3
<1>3. PICK e \in Entry : e = job.entry
  BY <1>2
<1>4. \/ active = None /\ active' = e
      \/ active = e /\ active' = None
      \/ UNCHANGED active
  BY <1>2, <1>3, AfterCleanFailure, Working
     DEF Activate, Retract, At, Known, IInv, JobOK, Idle
<1>5. CASE \/ active = None /\ active' = e
           \/ active = e /\ active' = None
  <2>1. e # None /\ e.tx \in TxIds
    BY MarksAssumption DEF Entry
  <2>2. With(Source(e), DOMAIN e.plan.after) = docs
    BY <1>2, <1>3, SourceHeld
  <2>3. With(Source(e), DOMAIN e.plan.after)' = docs'
    BY <1>2, <2>2 DEF With, Source
  <2>4. Content' = Content
    BY <1>2, <1>5, <2>1, <2>2, <2>3 DEF Content
  <2>5. \A t \in TxIds : Same(t)
    BY <1>2, <1>3, <1>5, <2>1, OthersStay, UnrecordedSame
  <2> QED
    BY <2>4, <2>5, Stutters
<1> QED
  BY <1>1, <1>2, <1>4, <1>5

\* Recording the outcome of an active entry.
LEMMA ArchiveStutters ==
  ASSUME Known, Archive
  PROVE  UNCHANGED History!hvars
<1>1. ~Idle /\ job.at = "archive" /\ UNCHANGED <<docs, active>>
      /\ archive' = [archive EXCEPT ![job.entry.tx] = Closed]
  BY DEF Archive, At
<1>2. /\ job \in Job /\ job.entry \in Entry /\ active = job.entry /\ active # None
      /\ EntryOK(job.entry) /\ job.entry.tx \in TxIds
  BY <1>1, Working
<1>3. /\ Closed.plan = job.entry.plan
      /\ job.goal # "abort" => Closed.order = job.entry.order
  BY <1>2, ClosedType
<1>4. PICK e \in Entry : e = active
  BY <1>2
<1>5. /\ archive'[e.tx] = Closed
      /\ \A u \in TxIds \ {e.tx} : archive'[u] = archive[u]
  BY <1>1, <1>2, <1>4 DEF Known, IInv, TypeOK
<1>6. Heads(e, job.goal) /\ EntryOK(e)
  BY <1>1, <1>2, <1>4 DEF Known, StandingOK
<1>7. Content' = Content
  BY <1>1, <1>4 DEF Content, With, Source
<1>8. ASSUME NEW t \in TxIds PROVE Same(t)
  <2>1. CASE t # e.tx
    BY <1>1, <1>4, <1>5, <2>1, OthersStay
  <2>2. CASE t = e.tx /\ e.state = "prepared"
    BY <1>1, <1>2, <1>4, <2>2 DEF Same, FateOf, RankOf, ChangeOf, Reverting, Settled, Ranked
  <2>3. CASE t = e.tx /\ e.state # "prepared"
    <3>1. archive[t].order = archive'[t].order /\ archive[t].plan = archive'[t].plan
      BY <1>2, <1>3, <1>4, <1>5, <1>6, <2>3 DEF EntryOK, OnRecord, Heads
    <3> QED
      BY <1>1, <1>2, <1>4, <2>3, <3>1 DEF Same, FateOf, RankOf, ChangeOf, Reverting, Settled, Ranked
  <2> QED
    BY <2>1, <2>2, <2>3
<1> QED
  BY <1>7, <1>8, Stutters

\* Renaming the documents of an entry, and restoring them.
LEMMA CommitStutters ==
  ASSUME Known, Rename \/ RolledBack
  PROVE  UNCHANGED History!hvars
<1>1. ~Idle /\ job.at = "commit" /\ UNCHANGED <<active, archive>>
  BY DEF Rename, RolledBack, At
<1>2. job.entry \in Entry /\ active = job.entry /\ active # None
  BY <1>1, Working
<1>3. ASSUME NEW d \in Docs \ DOMAIN active.plan.after PROVE docs'[d] = docs[d]
  <2>1. CASE Rename
    <3>1. job.todo \subseteq DOMAIN active.plan.after
      BY <1>1, <1>2 DEF Known, IInv, JobOK
    <3> QED
      BY <2>1, <3>1 DEF Rename, With
  <2>2. CASE RolledBack
    BY <1>1, <1>2, <2>2 DEF RolledBack, Known, DocsOK
  <2> QED
    BY <2>1, <2>2
<1> QED
  BY <1>1, <1>2, <1>3, DocsStutter

\* The steps of the history, in the terms of the mapping.
Fate   == [t \in TxIds |-> FateOf(t)]
Rank   == [t \in TxIds |-> RankOf(t)]
Change == [t \in TxIds |-> ChangeOf(t)]

Puts(image) ==
  Content' = [d \in Docs |-> IF d \in DOMAIN image THEN image[d] ELSE Content[d]]
Held(image) == \A d \in DOMAIN image : Content[d] = image[d]

LEMMA IsCommit ==
  ASSUME NEW t \in TxIds, NEW plan \in Plan, NEW n \in 1..MaxOrder,
         Fate[t] = "none", Held(plan.before), Puts(plan.after),
         \A u \in TxIds : Fate[u] \in {"applied", "undone"} => Rank[u] < n,
         Fate' = [Fate EXCEPT ![t] = "applied"],
         Rank' = [Rank EXCEPT ![t] = n],
         Change' = [Change EXCEPT ![t] = plan]
  PROVE  History!Commit(t)
<1>1. \A u \in {u \in TxIds : Fate[u] = "applied"} \cup {u \in TxIds : Fate[u] = "undone"} :
        Rank[u] < n
  OBVIOUS
<1> QED
  BY <1>1, Zenon DEF History!Commit, History!Holds, History!Put, History!Applied, History!Undone,
     Held, Puts, Content, Fate, Rank, Change, FateOf, RankOf, ChangeOf

LEMMA IsUndo ==
  ASSUME NEW t \in TxIds, Fate[t] = "applied",
         \A u \in TxIds : Fate[u] = "applied" => Rank[u] <= Rank[t],
         Held(Change[t].after), Puts(Change[t].before),
         Fate' = [Fate EXCEPT ![t] = "undone"], Rank' = Rank, Change' = Change
  PROVE  History!Undo(t)
<1>1. \A u \in {u \in TxIds : Fate[u] = "applied"} : Rank[u] <= Rank[t]
  OBVIOUS
<1>2. t \in {u \in TxIds : Fate[u] = "applied"}
  OBVIOUS
<1> QED
  BY <1>1, <1>2, Zenon DEF History!Undo, History!Holds, History!Put, History!Applied,
     Held, Puts, Content, Fate, Rank, Change, FateOf, RankOf, ChangeOf

LEMMA IsRedo ==
  ASSUME NEW t \in TxIds, Fate[t] = "undone",
         \A u \in TxIds : Fate[u] = "applied" => Rank[u] < Rank[t],
         \A u \in TxIds : Fate[u] = "undone" /\ Rank[u] < Rank[t] =>
           \E v \in TxIds : Fate[v] = "applied" /\ Rank[u] < Rank[v],
         Held(Change[t].before), Puts(Change[t].after),
         Fate' = [Fate EXCEPT ![t] = "applied"], Rank' = Rank, Change' = Change
  PROVE  History!Redo(t)
<1>1. \A u \in {u \in TxIds : Fate[u] = "applied"} : Rank[u] < Rank[t]
  OBVIOUS
<1>2. t \in {u \in TxIds : Fate[u] = "undone"}
  OBVIOUS
<1>3. \A u \in {u \in TxIds : Fate[u] = "undone"} : Rank[u] < Rank[t] =>
        \E v \in {v \in TxIds : Fate[v] = "applied"} : Rank[u] < Rank[v]
  OBVIOUS
<1> QED
  BY <1>1, <1>2, <1>3, Zenon DEF History!Redo, History!Holds, History!Put, History!Applied,
     History!Undone, Held, Puts, Content, Fate, Rank, Change, FateOf, RankOf, ChangeOf

LEMMA IsAbort ==
  ASSUME NEW t \in TxIds, Fate[t] = "none", Content' = Content,
         Fate' = [Fate EXCEPT ![t] = "aborted"], Rank' = Rank, Change' = Change
  PROVE  History!Abort(t)
BY Zenon DEF History!Abort, Content, Fate, Rank, Change, FateOf, RankOf, ChangeOf

LEMMA IsWrite ==
  ASSUME NEW d \in Docs, NEW c \in Contents \cup {Missing},
         Content' = [Content EXCEPT ![d] = c], UNCHANGED <<active, archive>>
  PROVE  History!Write
<1>1. Fate' = Fate /\ Rank' = Rank /\ Change' = Change
  BY DEF Fate, Rank, Change, FateOf, RankOf, ChangeOf, Reverting, Settled, Ranked
<1> QED
  BY <1>1, Zenon DEF History!Write, Content, Fate, Rank, Change, FateOf, RankOf, ChangeOf

\* Writes by others, and direct edits.
LEMMA ForeignWrites ==
  ASSUME "stuck" \notin Faults, Known, Foreign \/ Edit
  PROVE  History!Next \/ UNCHANGED History!hvars
<1>1. /\ UNCHANGED <<active, archive>>
      /\ \/ docs' = docs
         \/ \E d \in Docs, c \in Contents \cup {Missing} : docs' = [docs EXCEPT ![d] = c]
  BY AfterCleanFailure DEF Foreign, Edit
<1>2. CASE docs' = docs
  BY <1>1, <1>2, WritesStutter
<1>3. ASSUME NEW d \in Docs, NEW c \in Contents \cup {Missing},
             docs' = [docs EXCEPT ![d] = c]
      PROVE  History!Next \/ UNCHANGED History!hvars
  <2>1. docs \in [Docs -> Contents \cup {Missing}] /\ active \in Entry \cup {None}
    BY DEF Known, IInv, TypeOK
  <2>2. CASE active = None
    <3>1. Content' = [Content EXCEPT ![d] = c]
      BY <1>1, <1>3, <2>2 DEF Content
    <3> QED
      BY <1>1, <3>1, IsWrite DEF History!Next
  <2>3. CASE active # None /\ d \in DOMAIN active.plan.after
    <3>1. \A o \in Docs \ DOMAIN active.plan.after : docs'[o] = docs[o]
      BY <1>3, <2>1, <2>3
    <3> QED
      BY <1>1, <2>1, <2>3, <3>1, DocsStutter
  <2>4. CASE active # None /\ d \notin DOMAIN active.plan.after
    <3>1. PICK e \in Entry : e = active
      BY <2>1, <2>4
    <3>2. With(Source(e), DOMAIN e.plan.after)'
            = [With(Source(e), DOMAIN e.plan.after) EXCEPT ![d] = c]
      BY <1>3, <2>1, <2>4, <3>1 DEF With, Source
    <3>3. Content' = [Content EXCEPT ![d] = c]
      BY <1>1, <2>4, <3>1, <3>2 DEF Content
    <3> QED
      BY <1>1, <3>3, IsWrite DEF History!Next
  <2> QED
    BY <2>2, <2>3, <2>4
<1> QED
  BY <1>1, <1>2, <1>3

\* Clearing active.json: the transaction takes effect, or leaves no trace.
LEMMA ClearHappens ==
  ASSUME Known, Clear
  PROVE  History!Next
<1>1. ~Idle /\ job.at = "clear" /\ active' = None /\ UNCHANGED <<docs, archive>>
  BY DEF Clear, At
<1>2. /\ job \in Job /\ active = job.entry /\ active \in Entry /\ active # None
      /\ job.entry # None /\ EntryOK(active) /\ active.tx \in TxIds /\ active.plan \in Plan
  BY <1>1, Working
<1>3. PICK e \in Entry, t \in TxIds, g \in {"before", "after", "abort"} :
        e = active /\ t = e.tx /\ g = job.goal
  BY <1>2 DEF Job
<1>4. /\ archive[t] # None /\ archive[t].state = Final(g) /\ archive[t].plan = e.plan
      /\ g # "abort" => archive[t].order = e.order
  BY <1>1, <1>2, <1>3, ClosedType, MarksAssumption DEF Known, IInv, JobOK
<1>5. Heads(e, g) /\ EntryOK(e) /\ Matches(Goal(e, g))
  BY <1>1, <1>2, <1>3 DEF Known, StandingOK, ImagesOK
<1>6. \A u \in TxIds \ {t} : Same(u)
  BY <1>1, <1>2, <1>3, OthersStay
<1>7. Held(Source(e)) /\ Puts(Goal(e, g))
  <2>1. /\ DOMAIN Source(e) = DOMAIN e.plan.after /\ DOMAIN e.plan.after \subseteq Docs
        /\ DOMAIN Goal(e, g) = DOMAIN e.plan.after
    BY SourceIs, GoalType
  <2>2. Content = With(Source(e), DOMAIN e.plan.after)
    BY <1>2, <1>3 DEF Content
  <2>3. Content' = docs /\ docs = [d \in Docs |-> docs[d]]
    BY <1>1 DEF Content, Known, IInv, TypeOK
  <2>4. Held(Source(e))
    BY <2>1, <2>2 DEF Held, With
  <2>5. \A d \in Docs : docs[d] = IF d \in DOMAIN Goal(e, g) THEN Goal(e, g)[d] ELSE Content[d]
    BY <1>5, <2>1, <2>2 DEF Matches, With
  <2> QED
    BY <2>3, <2>4, <2>5 DEF Puts
<1>8. \A u \in TxIds \ {t} :
        /\ Fate[u] = "applied" <=> Archived(u, {"completed"})
        /\ Fate[u] = "undone" <=> Archived(u, {"undone"})
        /\ Fate[u] \in {"applied", "undone"} => Rank[u] = archive[u].order
  <2> SUFFICES ASSUME NEW u \in TxIds \ {t}
               PROVE  /\ FateOf(u) = "applied" <=> Archived(u, {"completed"})
                      /\ FateOf(u) = "undone" <=> Archived(u, {"undone"})
                      /\ FateOf(u) \in {"applied", "undone"} => RankOf(u) = archive[u].order
    BY DEF Fate, Rank
  <2>1. ~Reverting(u) /\ (Settled(u) <=> archive[u] # None)
    BY <1>2, <1>3 DEF Reverting, Settled
  <2>2. archive[u] # None => archive[u].state \in {"completed", "undone", "aborted"}
    BY DEF Known, AllEnded
  <2> QED
    BY <2>1, <2>2 DEF FateOf, RankOf, Ranked, Archived
<1>9. /\ Fate' = [Fate EXCEPT ![t] = FateOf(t)']
      /\ Rank' = [Rank EXCEPT ![t] = RankOf(t)']
      /\ Change' = [Change EXCEPT ![t] = ChangeOf(t)']
  BY <1>6 DEF Fate, Rank, Change, Same
<1>10. Settled(t)' /\ ~Reverting(t)'
  BY <1>1, <1>4 DEF Settled, Reverting
<1>11. ASSUME e.state = "prepared"
       PROVE  Fate[t] = "none" /\ Rank[t] = 0 /\ Change[t] = None
  BY <1>2, <1>3, <1>11 DEF Fate, Rank, Change, FateOf, RankOf, ChangeOf, Reverting, Settled, Ranked
<1>12. ASSUME e.state # "prepared"
       PROVE  /\ Fate[t] = IF e.state = "undoing" THEN "applied" ELSE "undone"
              /\ Rank[t] = archive[t].order /\ Change[t] = archive[t].plan
  BY <1>2, <1>3, <1>12 DEF Fate, Rank, Change, FateOf, RankOf, ChangeOf, Reverting, Ranked
<1>13. g # "abort" => RankOf(t)' = e.order /\ ChangeOf(t)' = e.plan
  BY <1>1, <1>3, <1>4, <1>10 DEF RankOf, ChangeOf, Ranked, Final
<1>14. CASE e.state = "prepared" /\ g = "after"
  <2>1. e.order \in 1..MaxOrder /\ e.plan \in Plan
    BY <1>5, <1>14, OrderAssumption DEF EntryOK, Entry
  <2>2. \A u \in TxIds : Fate[u] \in {"applied", "undone"} => Rank[u] < e.order
    BY <1>3, <1>5, <1>8, <1>11, <1>14 DEF EntryOK, OnTop, Archived
  <2>3. FateOf(t)' = "applied"
    BY <1>1, <1>4, <1>10, <1>14 DEF FateOf, Final
  <2>4. Held(e.plan.before) /\ Puts(e.plan.after)
    BY <1>7, <1>14 DEF Source, Goal
  <2> QED
    BY <1>9, <1>11, <1>13, <1>14, <2>1, <2>2, <2>3, <2>4, IsCommit DEF History!Next
<1>15. CASE g = "abort"
  <2>1. e.state = "prepared"
    BY <1>5, <1>15 DEF Heads
  <2>2. Content' = Content
    <3>1. Held(e.plan.before) /\ Puts(e.plan.before)
      BY <1>7, <1>15, <2>1 DEF Source, Goal
    <3>2. Content = [d \in Docs |-> Content[d]]
      BY <1>2, <1>3 DEF Content, With
    <3> QED
      BY <3>1, <3>2 DEF Held, Puts
  <2>3. FateOf(t)' = "aborted" /\ RankOf(t)' = 0 /\ ChangeOf(t)' = None
    BY <1>1, <1>4, <1>10, <1>15 DEF FateOf, RankOf, ChangeOf, Ranked, Final
  <2>4. Rank' = Rank /\ Change' = Change
    BY <1>9, <1>11, <2>1, <2>3 DEF Rank, Change
  <2> QED
    BY <1>9, <1>11, <2>1, <2>2, <2>3, <2>4, IsAbort DEF History!Next
<1>16. ASSUME e.state # "prepared"
       PROVE  Rank' = Rank /\ Change' = Change
  <2>1. g # "abort"
    BY <1>5, <1>16 DEF Heads
  <2> QED
    BY <1>4, <1>9, <1>12, <1>13, <1>16, <2>1 DEF Rank, Change
<1>17. CASE e.state = "undoing"
  <2>1. g = "before" /\ NewestApplied(e)
    BY <1>5, <1>17 DEF Heads, EntryOK
  <2>2. FateOf(t)' = "undone"
    BY <1>1, <1>4, <1>10, <2>1 DEF FateOf, Final
  <2>3. Held(Change[t].after) /\ Puts(Change[t].before)
    BY <1>4, <1>7, <1>12, <1>17, <2>1 DEF Source, Goal
  <2>4. Fate[t] = "applied" /\ Rank[t] = e.order /\ e.order \in Nat
    BY <1>4, <1>12, <1>17, <2>1, OrderAssumption DEF Entry
  <2>5. \A u \in TxIds : Fate[u] = "applied" => Rank[u] <= Rank[t]
    BY <1>3, <1>8, <2>1, <2>4 DEF NewestApplied
  <2> QED
    BY <1>9, <1>16, <1>17, <2>2, <2>3, <2>4, <2>5, IsUndo DEF History!Next
<1>18. CASE e.state = "redoing"
  <2>1. g = "after" /\ NearestUndone(e)
    BY <1>3, <1>5, <1>18 DEF Heads, EntryOK
  <2>2. FateOf(t)' = "applied"
    BY <1>1, <1>4, <1>10, <2>1 DEF FateOf, Final
  <2>3. Held(Change[t].before) /\ Puts(Change[t].after)
    BY <1>4, <1>7, <1>12, <1>18, <2>1 DEF Source, Goal
  <2>4. Fate[t] = "undone" /\ Rank[t] = e.order /\ e.order \in Nat
    BY <1>4, <1>12, <1>18, <2>1, OrderAssumption DEF Entry
  <2>5. \A u \in TxIds : Fate[u] = "applied" => Rank[u] < Rank[t]
    BY <1>3, <1>8, <2>1, <2>4 DEF NearestUndone
  <2>6. ASSUME NEW u \in TxIds, Fate[u] = "undone", Rank[u] < Rank[t]
        PROVE  \E v \in TxIds : Fate[v] = "applied" /\ Rank[u] < Rank[v]
    <3>1. u # t /\ Archived(u, {"undone"}) /\ archive[u].order < e.order
      BY <1>8, <2>4, <2>6
    <3>2. PICK v \in TxIds \ {t} :
            Archived(v, {"completed"}) /\ archive[u].order < archive[v].order
      BY <1>3, <2>1, <3>1 DEF NearestUndone
    <3> QED
      BY <1>8, <2>6, <3>1, <3>2
  <2> QED
    BY <1>9, <1>16, <1>18, <2>2, <2>3, <2>4, <2>5, <2>6, IsRedo DEF History!Next
<1> QED
  BY <1>3, <1>5, <1>14, <1>15, <1>17, <1>18 DEF EntryOK, Heads

LEMMA StepHistory ==
  ASSUME "stuck" \notin Faults, Known, [Next]_vars
  PROVE  [History!Next]_(History!hvars)
<1>1. CASE \/ Propose \/ Discard \/ Begin \/ Crash \/ DamageSequence
           \/ NothingToRecover \/ RecoveryRefused \/ RecoverEntry \/ ApplyVerify
           \/ Reserve \/ ReserveFails \/ Undo \/ Redo \/ Committed
           \/ ActivateFails \/ ArchiveFails \/ ClearFails \/ UNCHANGED vars
  <2>1. UNCHANGED <<docs, active, archive>>
    BY <1>1, AfterCleanFailure
       DEF Propose, Discard, Begin, Crash, DamageSequence, NothingToRecover,
       RecoveryRefused, RecoverEntry, ApplyVerify, Reserve, ReserveFails, Undo, Redo,
       Committed, ActivateFails, ArchiveFails, ClearFails, vars, disk
  <2> QED
    BY <2>1, WritesStutter
<1>2. CASE LeftPartial
  BY <1>2 DEF LeftPartial
<1> QED
  BY <1>1, <1>2, ActivateStutters, ArchiveStutters, CommitStutters, ForeignWrites,
     ClearHappens DEF Next, Step, Fault

LEMMA InitHistory == Init => History!Init
<1> SUFFICES ASSUME Init PROVE History!Init
  OBVIOUS
<1>1. Content \in [Docs -> Contents]
  BY DEF Init, Content
<1>2. /\ [t \in TxIds |-> FateOf(t)] = [t \in TxIds |-> "none"]
      /\ [t \in TxIds |-> RankOf(t)] = [t \in TxIds |-> 0]
      /\ [t \in TxIds |-> ChangeOf(t)] = [t \in TxIds |-> None]
  BY DEF Init, FateOf, RankOf, ChangeOf, Reverting, Settled, Ranked
<1> QED
  BY <1>1, <1>2 DEF History!Init, Content, FateOf, RankOf, ChangeOf

\* Through every crash, every rollback, every failed write that restores the
\* old bytes and every recovery, the documents change by whole transactions:
\* undo takes back exactly the newest applied one, redo brings back exactly
\* the nearest undone one, and an aborted one leaves no trace.
THEOREM HistoryIsImplemented ==
  ASSUME "stuck" \notin Faults
  PROVE  Spec => ImplementsHistory
<1>1. Init => Known
  BY KnownInit
<1>2. Known /\ [Next]_vars => Known'
  BY KnownNext
<1>3. Known /\ [Next]_vars => [History!Next]_(History!hvars)
  BY StepHistory
<1>4. Init => History!Init
  BY InitHistory
<1> QED
  BY <1>1, <1>2, <1>3, <1>4, PTL DEF Spec, ImplementsHistory, History!Spec
=============================================================================
