------------------------------ MODULE LockFile ------------------------------
(***************************************************************************)
(* The lock-file protocol of packages/authoring-core/src/atomic-write.ts   *)
(* for ONE lock path: acquireLocks, removeStaleLock, clearStaleReclaimWork,*)
(* releaseLocks.  One action per file-system call the code makes on a      *)
(* shared path, so that calls of different processes interleave as they do *)
(* on disk; any process may die between two of its calls.                  *)
(*                                                                         *)
(* An inode is <<owner, token>>: the candidate file an acquire call writes *)
(* and links carries its process identity and a random token.  `lock`,     *)
(* `claim` (lockPath.reclaim) and `work` (the reclaimer's renamed claim,   *)
(* one name per process) are directory entries pointing at inodes.         *)
(* Candidate names are unique to a call and seen by no one else.           *)
(* Not modelled: failures of fsync or unlink other than ENOENT and EEXIST. *)
(***************************************************************************)
EXTENDS Naturals, FiniteSets

CONSTANTS
  Procs,        \* process identities (a restarted process is a new one)
  Departed,     \* processes that died before the behaviour begins
  Tokens,       \* random tokens an acquire call may draw
  None,         \* no directory entry
  MaxCrashes    \* bound: processes that may die during the behaviour

Inodes == Procs \X Tokens
Slot   == Inodes \cup {None}

ASSUME DepartedAssumption == Departed \subseteq Procs
ASSUME NoneAssumption == None \notin Procs /\ None \notin Inodes
ASSUME CrashAssumption == MaxCrashes \in Nat

VARIABLES
  alive,    \* processes that still run
  lock,     \* the lock file
  claim,    \* the reclaim claim: a hard link to the lock a reclaimer saw
  work,     \* [Procs -> Slot]: the claim a reclaimer renamed to its own name
  pc,       \* where each process stands
  mine,     \* the candidate inode of the current acquire call
  seen,     \* reclaim-working names read by the last readdir
  attempt,  \* loop counter of acquireLocks
  via,      \* which of its two call sites entered removeStaleLock
  swept,    \* what removeStaleLock will return after its finally block
  raced     \* history: a reclaim met one of the two windows of removeStaleLock

files == <<lock, claim, work>>
local == <<mine, seen, attempt, via, swept, raced>>
vars  == <<alive, files, pc, local>>

Labels == {"idle", "scan", "judge", "claimed", "link",
           "rscan", "rjudge", "rclaim", "rlink", "rrename", "rstat",
           "rowner", "runlink", "rclean", "held", "commit", "release", "unlink"}

TypeOK ==
  /\ alive \subseteq Procs
  /\ lock \in Slot /\ claim \in Slot
  /\ work \in [Procs -> Slot]
  /\ pc \in [Procs -> Labels]
  /\ mine \in [Procs -> Slot]
  /\ seen \in [Procs -> SUBSET Procs]
  /\ attempt \in [Procs -> 0..1]
  /\ via \in [Procs -> {"claim", "exists"}]
  /\ swept \in [Procs -> BOOLEAN]
  /\ raced \in BOOLEAN

\* A departed process may have left the lock it held behind.
Init ==
  /\ alive = Procs \ Departed
  /\ lock \in {None} \cup (Departed \X Tokens)
  /\ claim = None
  /\ work = [p \in Procs |-> None]
  /\ pc = [p \in Procs |-> "idle"]
  /\ mine = [p \in Procs |-> None]
  /\ seen = [p \in Procs |-> {}]
  /\ attempt = [p \in Procs |-> 0]
  /\ via = [p \in Procs |-> "exists"]
  /\ swept = [p \in Procs |-> FALSE]
  /\ raced = FALSE

-----------------------------------------------------------------------------

Stale(inode) == inode[1] \notin alive

At(p, label)  == p \in alive /\ pc[p] = label
Goto(p, label) == pc' = [pc EXCEPT ![p] = label]

\* A random token is new: no directory entry still points at its inode.
Linked(inode) == inode \in {lock, claim} \cup {work[q] : q \in Procs}

\* acquireLocks writes its candidate file and enters the attempt loop.
StartAcquire(p) ==
  /\ At(p, "idle")
  /\ \E t \in Tokens :
       /\ ~Linked(<<p, t>>)
       /\ mine' = [mine EXCEPT ![p] = <<p, t>>]
  /\ attempt' = [attempt EXCEPT ![p] = 0]
  /\ Goto(p, "scan")
  /\ UNCHANGED <<alive, files, seen, via, swept, raced>>

\* clearStaleReclaimWork lists the directory ...
Scan(p, from, to) ==
  /\ At(p, from)
  /\ seen' = [seen EXCEPT ![p] = {q \in Procs : work[q] # None}]
  /\ Goto(p, to)
  /\ UNCHANGED <<alive, files, mine, attempt, via, swept, raced>>

\* Mutant of Judge: a leftover of a dead reclaimer blocks like a live one.
JudgeKeepsDead(p, from, to) ==
  /\ At(p, from)
  /\ Goto(p, IF seen[p] = {} THEN to ELSE "idle")
  /\ UNCHANGED <<alive, files, local>>

\* ... then removes the listed files of dead reclaimers one by one and gives
\* up at the first whose reclaimer lives: either caller then fails.
Judge(p, from, to) ==
  /\ At(p, from)
  /\ LET live == seen[p] \cap alive
         dead == seen[p] \ alive
     IN \E gone \in IF live = {} THEN {dead} ELSE SUBSET dead :
          /\ work' = [q \in Procs |-> IF q \in gone THEN None ELSE work[q]]
          /\ Goto(p, IF live = {} THEN to ELSE "idle")
  /\ UNCHANGED <<alive, lock, claim, local>>

\* A leftover claim is reclaimed before the link is tried.
CheckClaim(p) ==
  /\ At(p, "claimed")
  /\ via' = [via EXCEPT ![p] = "claim"]
  /\ Goto(p, IF claim = None THEN "link" ELSE "rscan")
  /\ UNCHANGED <<alive, files, mine, seen, attempt, swept, raced>>

\* linkSync(candidatePath, lockPath): atomic create, EEXIST when locked.
Link(p) ==
  /\ At(p, "link")
  /\ \/ /\ lock = None
        /\ lock' = mine[p]
        /\ Goto(p, "held")
        /\ UNCHANGED via
     \/ /\ lock # None
        /\ via' = [via EXCEPT ![p] = "exists"]
        /\ Goto(p, "rscan")
        /\ UNCHANGED lock
  /\ UNCHANGED <<alive, claim, work, mine, seen, attempt, swept, raced>>

-----------------------------------------------------------------------------
\* removeStaleLock: existsSync(claimPath).
ReclaimExists(p) ==
  /\ At(p, "rclaim")
  /\ Goto(p, IF claim = None THEN "rlink" ELSE "rrename")
  /\ UNCHANGED <<alive, files, local>>

\* linkSync(lockPath, claimPath): EEXIST goes on, ENOENT returns false.
ReclaimLink(p) ==
  /\ At(p, "rlink")
  /\ claim' = IF claim = None THEN lock ELSE claim
  /\ Goto(p, IF lock = None THEN "idle" ELSE "rrename")
  /\ UNCHANGED <<alive, lock, work, local>>

\* renameSync(claimPath, workPath): only one reclaimer gets a given claim.  A
\* second claim of the same inode can exist, though: first window.
ReclaimRename(p) ==
  /\ At(p, "rrename")
  /\ work' = [work EXCEPT ![p] = claim]
  /\ claim' = None
  /\ raced' = (raced \/ \E q \in Procs \ {p} : work[q] = claim /\ claim # None)
  /\ Goto(p, IF claim = None THEN "idle" ELSE "rstat")
  /\ UNCHANGED <<alive, lock, mine, seen, attempt, via, swept>>

\* Mutant of ReclaimStat: the claim is taken for the lock without comparing.
ReclaimStatBlind(p) ==
  /\ At(p, "rstat")
  /\ swept' = [swept EXCEPT ![p] = TRUE]
  /\ Goto(p, IF lock # None THEN "rowner" ELSE "rclean")
  /\ UNCHANGED <<alive, files, mine, seen, attempt, via, raced>>

\* statSync of both names: a lock that is gone or replaced needs no removal.
ReclaimStat(p) ==
  /\ At(p, "rstat")
  /\ swept' = [swept EXCEPT ![p] = TRUE]
  /\ Goto(p, IF lock = work[p] THEN "rowner" ELSE "rclean")
  /\ UNCHANGED <<alive, files, mine, seen, attempt, via, raced>>

\* readLockOwner and lockOwnerIsStale on the renamed claim.
ReclaimOwner(p) ==
  /\ At(p, "rowner")
  /\ swept' = [swept EXCEPT ![p] = Stale(work[p])]
  /\ Goto(p, IF Stale(work[p]) THEN "runlink" ELSE "rclean")
  /\ UNCHANGED <<alive, files, mine, seen, attempt, via, raced>>

\* unlinkSync(lockPath) removes whatever file has that name by now.
ReclaimUnlink(p) ==
  /\ At(p, "runlink")
  /\ swept' = [swept EXCEPT ![p] = lock # None]
  /\ lock' = None
  /\ Goto(p, "rclean")
  /\ UNCHANGED <<alive, claim, work, mine, seen, attempt, via, raced>>

\* Mutants of ReclaimClean: the working file is removed only after a removal;
\* the retry loop has no end.
ReclaimCleanPartial(p) ==
  /\ At(p, "rclean")
  /\ work' = [work EXCEPT ![p] = IF swept[p] THEN None ELSE work[p]]
  /\ Goto(p, IF swept[p] /\ via[p] = "claim" THEN "link" ELSE "idle")
  /\ UNCHANGED <<alive, lock, claim, local>>

ReclaimCleanEndless(p) ==
  /\ At(p, "rclean")
  /\ work' = [work EXCEPT ![p] = None]
  /\ attempt' = [attempt EXCEPT ![p] = @ + 1]
  /\ Goto(p, IF swept[p] THEN "scan" ELSE "idle")
  /\ UNCHANGED <<alive, lock, claim, mine, seen, via, swept, raced>>

\* The finally block unlinks the working file; the caller then links, starts
\* its second attempt, or gives up.
ReclaimClean(p) ==
  /\ At(p, "rclean")
  /\ work' = [work EXCEPT ![p] = None]
  /\ \/ /\ ~swept[p] \/ (via[p] = "exists" /\ attempt[p] = 1)
        /\ Goto(p, "idle")
        /\ UNCHANGED attempt
     \/ /\ swept[p] /\ via[p] = "claim"
        /\ Goto(p, "link")
        /\ UNCHANGED attempt
     \/ /\ swept[p] /\ via[p] = "exists" /\ attempt[p] = 0
        /\ attempt' = [attempt EXCEPT ![p] = 1]
        /\ Goto(p, "scan")
  /\ UNCHANGED <<alive, lock, claim, mine, seen, via, swept, raced>>

-----------------------------------------------------------------------------
\* requireActiveLockSet: the write goes on only while the lock file still
\* carries this call's token.
Verify(p) ==
  /\ At(p, "held")
  /\ Goto(p, IF lock = mine[p] THEN "commit" ELSE "release")
  /\ UNCHANGED <<alive, files, local>>

\* The writes are done, or were refused: releaseLocks reads the token and
\* leaves a lock that is gone or another call's alone ...
ReadToken(p) ==
  /\ At(p, "commit") \/ At(p, "release")
  /\ Goto(p, IF lock = mine[p] THEN "unlink" ELSE "idle")
  /\ UNCHANGED <<alive, files, local>>

\* ... and otherwise unlinks the name, whatever it points at by now.
Unlink(p) ==
  /\ At(p, "unlink")
  /\ lock' = None
  /\ Goto(p, "idle")
  /\ UNCHANGED <<alive, claim, work, local>>

\* The process dies; what it left on disk stays.  Second window: a reclaimer
\* compared inodes while the owner lived and will find it dead.
Crash(p) ==
  /\ p \in alive
  /\ Cardinality(Procs \ (alive \cup Departed)) < MaxCrashes
  /\ alive' = alive \ {p}
  /\ raced' = (raced \/ \E q \in alive' :
                 /\ pc[q] = "rowner"
                 /\ work[q] \in {p} \X Tokens)
  /\ UNCHANGED <<files, pc, mine, seen, attempt, via, swept>>

-----------------------------------------------------------------------------
Acquiring(p) ==
  \/ Scan(p, "scan", "judge")
  \/ Judge(p, "judge", "claimed")
  \/ CheckClaim(p)
  \/ Link(p)

Reclaiming(p) ==
  \/ Scan(p, "rscan", "rjudge")
  \/ Judge(p, "rjudge", "rclaim")
  \/ ReclaimExists(p)
  \/ ReclaimLink(p)
  \/ ReclaimRename(p)
  \/ ReclaimStat(p)
  \/ ReclaimOwner(p)
  \/ ReclaimUnlink(p)
  \/ ReclaimClean(p)

\* A process that has started a call runs it to its end.
Continue(p) ==
  \/ Acquiring(p)
  \/ Reclaiming(p)
  \/ Verify(p)
  \/ ReadToken(p)
  \/ Unlink(p)

Next == \E p \in Procs : StartAcquire(p) \/ Continue(p) \/ Crash(p)

Spec == Init /\ [][Next]_vars

\* The calls are synchronous: a live process does not stop inside one.
FairSpec == Spec /\ \A p \in Procs : WF_vars(Continue(p))

-----------------------------------------------------------------------------
Writing(p) == At(p, "commit")

\* Two live processes never both stand between a verified lock and its
\* release (acquireLocks, requireActiveLockSet).
MutualExclusion ==
  \A p, q \in Procs : Writing(p) /\ Writing(q) => p = q

\* The lock a live process verified stays until that process releases it:
\* removeStaleLock does not evict it, releaseLocks of another call neither.
LiveLockNotEvicted ==
  [][\A p \in Procs :
       Writing(p) /\ p \in alive' /\ lock = mine[p] =>
         lock' = lock \/ pc'[p] # "commit"]_vars

\* Whoever died before them and whatever stale lock, claim or working file
\* they reclaim, two live processes hold the lock together only if one of the
\* two windows of removeStaleLock was hit: inode comparison and exclusive
\* rename of the claim rule out every other interleaving.
ExclusiveUnlessRaced == ~raced => MutualExclusion

\* A call that lost its race leaves nothing behind: while nobody has died
\* during the behaviour, directory entries exist only inside calls, except
\* the lock of a departed owner.
NoResidue ==
  Procs \ Departed = alive /\ (\A p \in Procs : pc[p] = "idle") =>
    /\ lock \in {None} \cup (Departed \X Tokens)
    /\ claim = None
    /\ \A p \in Procs : work[p] = None

\* No leftover of dead processes locks a path for ever: a process that starts
\* to acquire it once all others have died gets it, in that same call.
SoloProgress ==
  \A p \in Procs :
    alive = {p} /\ pc[p] = "scan" /\ attempt[p] = 0
      ~> p \notin alive \/ Writing(p)
=============================================================================
