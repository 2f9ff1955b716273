--------------------------- MODULE LockFileProofs ---------------------------
(***************************************************************************)
(* Theorems about LockFile for any set of processes, any departed ones and *)
(* any number of crashes.                                                  *)
(***************************************************************************)
EXTENDS LockFile, TLAPS

\* An acquire call's candidate carries its own identity.
OwnCandidate ==
  \A p \in Procs : /\ mine[p] # None => mine[p][1] = p
                   /\ pc[p] # "idle" => mine[p] # None

\* Between its rename and its finally block a live reclaimer has a working
\* file: only files of dead reclaimers are swept.
HasWork ==
  \A p \in alive : pc[p] \in {"rstat", "rowner", "runlink"} => work[p] # None

\* No two reclaimers renamed claims of one inode.
DistinctWork ==
  \A p, q \in Procs : work[p] = work[q] /\ work[p] # None => p = q

\* A verified lock is still the verifier's.
Held == \A p \in alive : pc[p] \in {"commit", "unlink"} => lock = mine[p]

\* The lock a reclaimer found dead, or will find dead, is the one it claimed.
Judged ==
  \A p \in alive :
    /\ pc[p] = "rowner" /\ Stale(work[p]) => lock = work[p]
    /\ pc[p] = "runlink" => Stale(work[p]) /\ lock = work[p]

IInv ==
  /\ TypeOK
  /\ OwnCandidate
  /\ HasWork
  /\ ~raced => DistinctWork /\ Held /\ Judged

-----------------------------------------------------------------------------
LEMMA InitIInv == Init => IInv
<1> SUFFICES ASSUME Init PROVE IInv
  OBVIOUS
<1>1. TypeOK
  <2>1. Departed \X Tokens \subseteq Inodes
    BY DepartedAssumption DEF Inodes
  <2>2. lock \in Slot /\ None \in Slot
    BY <2>1 DEF Init, Slot
  <2>3. alive \subseteq Procs /\ claim \in Slot /\ raced \in BOOLEAN
    BY <2>2, DepartedAssumption DEF Init
  <2>4. work \in [Procs -> Slot] /\ mine \in [Procs -> Slot]
    BY <2>2 DEF Init
  <2>5. pc \in [Procs -> Labels] /\ seen \in [Procs -> SUBSET Procs]
    BY DEF Init, Labels
  <2>6. attempt \in [Procs -> 0..1]
    BY DEF Init
  <2>7. via \in [Procs -> {"claim", "exists"}] /\ swept \in [Procs -> BOOLEAN]
    BY DEF Init
  <2> QED
    BY <2>2, <2>3, <2>4, <2>5, <2>6, <2>7 DEF TypeOK
<1>2. OwnCandidate
  BY DEF Init, OwnCandidate
<1>3. HasWork /\ DistinctWork /\ Held /\ Judged
  BY DepartedAssumption DEF Init, HasWork, DistinctWork, Held, Judged
<1> QED
  BY <1>1, <1>2, <1>3 DEF IInv

\* Types are preserved by every action.
LEMMA NextTypeOK == TypeOK /\ [Next]_vars => TypeOK'
<1> SUFFICES ASSUME TypeOK, [Next]_vars PROVE TypeOK'
  OBVIOUS
<1> USE DEF TypeOK, Slot, Inodes, Labels, At, Goto, files, local
<1>1. CASE UNCHANGED vars
  BY <1>1 DEF vars
<1>2. ASSUME NEW p \in Procs, StartAcquire(p) PROVE TypeOK'
  BY <1>2 DEF StartAcquire
<1>3. ASSUME NEW p \in Procs, Acquiring(p) PROVE TypeOK'
  <2>1. CASE Scan(p, "scan", "judge")
    BY <2>1 DEF Scan
  <2>2. CASE Judge(p, "judge", "claimed")
    BY <2>2 DEF Judge
  <2>3. CASE CheckClaim(p)
    BY <2>3 DEF CheckClaim
  <2>4. CASE Link(p)
    BY <2>4 DEF Link
  <2> QED
    BY <1>3, <2>1, <2>2, <2>3, <2>4 DEF Acquiring
<1>4. ASSUME NEW p \in Procs, Reclaiming(p) PROVE TypeOK'
  <2>1. CASE Scan(p, "rscan", "rjudge")
    BY <2>1 DEF Scan
  <2>2. CASE Judge(p, "rjudge", "rclaim")
    BY <2>2 DEF Judge
  <2>3. CASE ReclaimExists(p)
    BY <2>3 DEF ReclaimExists
  <2>4. CASE ReclaimLink(p)
    BY <2>4 DEF ReclaimLink
  <2>5. CASE ReclaimRename(p)
    BY <2>5 DEF ReclaimRename
  <2>6. CASE ReclaimStat(p)
    BY <2>6 DEF ReclaimStat
  <2>7. CASE ReclaimOwner(p)
    BY <2>7 DEF ReclaimOwner, Stale
  <2>8. CASE ReclaimUnlink(p)
    BY <2>8 DEF ReclaimUnlink
  <2>9. CASE ReclaimClean(p)
    BY <2>9 DEF ReclaimClean
  <2> QED
    BY <1>4, <2>1, <2>2, <2>3, <2>4, <2>5, <2>6, <2>7, <2>8, <2>9 DEF Reclaiming
<1>5. ASSUME NEW p \in Procs, Verify(p) \/ ReadToken(p) \/ Unlink(p)
      PROVE TypeOK'
  BY <1>5 DEF Verify, ReadToken, Unlink
<1>6. ASSUME NEW p \in Procs, Crash(p) PROVE TypeOK'
  BY <1>6 DEF Crash
<1> QED
  BY <1>1, <1>2, <1>3, <1>4, <1>5, <1>6 DEF Next, Continue

\* A directory entry that exists is an inode, whose first part is its owner.
LEMMA OwnerOfInode == ASSUME NEW x \in Slot, x # None PROVE x[1] \in Procs
  BY DEF Slot, Inodes

\* Candidates stay their owner's: `mine` changes only when a call starts.
LEMMA NextOwnCandidate ==
  TypeOK /\ OwnCandidate /\ [Next]_vars => OwnCandidate'
<1> SUFFICES ASSUME TypeOK, OwnCandidate, [Next]_vars PROVE OwnCandidate'
  OBVIOUS
<1> USE DEF TypeOK, OwnCandidate, At, Goto, files, local
<1>1. CASE UNCHANGED vars
  BY <1>1 DEF vars
<1>2. ASSUME NEW p \in Procs, StartAcquire(p) PROVE OwnCandidate'
  <2>1. PICK t \in Tokens : mine' = [mine EXCEPT ![p] = <<p, t>>]
    BY <1>2 DEF StartAcquire
  <2>2. <<p, t>> # None
    BY NoneAssumption DEF Inodes
  <2> QED
    BY <1>2, <2>1, <2>2 DEF StartAcquire
<1>3. ASSUME NEW p \in Procs, Continue(p) PROVE OwnCandidate'
  <2>1. mine' = mine
    BY <1>3 DEF Continue, Acquiring, Reclaiming, Scan, Judge, CheckClaim, Link,
         ReclaimExists, ReclaimLink, ReclaimRename, ReclaimStat, ReclaimOwner,
         ReclaimUnlink, ReclaimClean, Verify, ReadToken, Unlink
  <2>2. pc[p] # "idle" /\ \A q \in Procs : q # p => pc'[q] = pc[q]
    BY <1>3 DEF Continue, Acquiring, Reclaiming, Scan, Judge, CheckClaim, Link,
         ReclaimExists, ReclaimLink, ReclaimRename, ReclaimStat, ReclaimOwner,
         ReclaimUnlink, ReclaimClean, Verify, ReadToken, Unlink
  <2> QED
    BY <2>1, <2>2
<1>4. ASSUME NEW p \in Procs, Crash(p) PROVE OwnCandidate'
  BY <1>4 DEF Crash
<1> QED
  BY <1>1, <1>2, <1>3, <1>4 DEF Next

\* Only a reclaimer's own rename and clean-up, and the sweep of dead ones,
\* touch working files.
LEMMA NextHasWork == TypeOK /\ HasWork /\ [Next]_vars => HasWork'
<1> SUFFICES ASSUME TypeOK, HasWork, [Next]_vars PROVE HasWork'
  OBVIOUS
<1> USE DEF TypeOK, HasWork, At, Goto, files, local
<1>1. CASE UNCHANGED vars
  BY <1>1 DEF vars
<1>2. ASSUME NEW p \in Procs, StartAcquire(p) PROVE HasWork'
  BY <1>2 DEF StartAcquire
<1>3. ASSUME NEW p \in Procs, Continue(p) PROVE HasWork'
  <2>1. CASE Scan(p, "scan", "judge") \/ Scan(p, "rscan", "rjudge")
    BY <2>1 DEF Scan
  <2>2. CASE Judge(p, "judge", "claimed") \/ Judge(p, "rjudge", "rclaim")
    BY <2>2 DEF Judge
  <2>3. CASE CheckClaim(p) \/ Link(p) \/ ReclaimExists(p) \/ ReclaimLink(p)
    BY <2>3 DEF CheckClaim, Link, ReclaimExists, ReclaimLink
  <2>4. CASE ReclaimRename(p)
    BY <2>4 DEF ReclaimRename
  <2>5. CASE ReclaimStat(p) \/ ReclaimOwner(p) \/ ReclaimUnlink(p)
    BY <2>5 DEF ReclaimStat, ReclaimOwner, ReclaimUnlink
  <2>6. CASE ReclaimClean(p)
    BY <2>6 DEF ReclaimClean
  <2>7. CASE Verify(p) \/ ReadToken(p) \/ Unlink(p)
    BY <2>7 DEF Verify, ReadToken, Unlink
  <2> QED
    BY <1>3, <2>1, <2>2, <2>3, <2>4, <2>5, <2>6, <2>7
    DEF Continue, Acquiring, Reclaiming
<1>4. ASSUME NEW p \in Procs, Crash(p) PROVE HasWork'
  BY <1>4 DEF Crash
<1> QED
  BY <1>1, <1>2, <1>3, <1>4 DEF Next

\* The history variable only grows, and working files of different reclaimers
\* differ until ReclaimRename records that they do not.
LEMMA NextDistinctWork ==
  /\ TypeOK /\ [Next]_vars => (raced => raced')
  /\ TypeOK /\ DistinctWork /\ [Next]_vars /\ ~raced' => DistinctWork'
<1> SUFFICES ASSUME TypeOK, [Next]_vars
             PROVE /\ raced => raced'
                   /\ DistinctWork /\ ~raced' => DistinctWork'
  OBVIOUS
<1> USE DEF TypeOK, DistinctWork, At, files, local
<1>1. CASE UNCHANGED vars
  BY <1>1 DEF vars
<1>2. ASSUME NEW p \in Procs, StartAcquire(p) \/ Crash(p)
      PROVE /\ raced => raced'
            /\ DistinctWork /\ ~raced' => DistinctWork'
  BY <1>2 DEF StartAcquire, Crash
<1>3. ASSUME NEW p \in Procs, Continue(p)
      PROVE /\ raced => raced'
            /\ DistinctWork /\ ~raced' => DistinctWork'
  <2>1. CASE ReclaimRename(p)
    BY <2>1 DEF ReclaimRename
  <2>2. CASE Judge(p, "judge", "claimed") \/ Judge(p, "rjudge", "rclaim")
    BY <2>2 DEF Judge
  <2>3. CASE ReclaimClean(p)
    BY <2>3 DEF ReclaimClean
  <2>4. CASE work' = work /\ raced' = raced
    BY <2>4
  <2> QED
    BY <1>3, <2>1, <2>2, <2>3, <2>4
    DEF Continue, Acquiring, Reclaiming, Scan, CheckClaim, Link, ReclaimExists,
        ReclaimLink, ReclaimStat, ReclaimOwner, ReclaimUnlink, Verify,
        ReadToken, Unlink
<1> QED
  BY <1>1, <1>2, <1>3 DEF Next

\* The step of the argument that matters: what a live process verified, or a
\* reclaimer judged, is still there after any step that meets no race.
LEMMA NextHeldJudged ==
  IInv /\ [Next]_vars /\ ~raced' => Held' /\ Judged'
<1> SUFFICES ASSUME IInv, [Next]_vars, ~raced' PROVE Held' /\ Judged'
  OBVIOUS
<1>1. CASE UNCHANGED vars
  <2>1. ~raced
    BY NextDistinctWork DEF IInv
  <2> QED
    BY <1>1, <2>1 DEF vars, files, local, IInv, Held, Judged, Stale
<1>2. CASE Next
  <2>1. ~raced
    BY NextDistinctWork DEF IInv
  <2>2. TypeOK /\ OwnCandidate /\ HasWork /\ DistinctWork /\ Held /\ Judged
    BY <2>1 DEF IInv
  <2> USE DEF TypeOK, At, Goto, files, local, Stale
  <2>3. ASSUME NEW p \in Procs, StartAcquire(p) PROVE Held' /\ Judged'
    BY <2>2, <2>3 DEF StartAcquire, Held, Judged
  <2>4. ASSUME NEW p \in Procs, Continue(p) PROVE Held' /\ Judged'
    <3>1. CASE Scan(p, "scan", "judge") \/ Scan(p, "rscan", "rjudge")
      BY <2>2, <3>1 DEF Scan, Held, Judged
    <3>2. CASE Judge(p, "judge", "claimed") \/ Judge(p, "rjudge", "rclaim")
      BY <2>2, <3>2 DEF Judge, Held, Judged
    <3>3. CASE CheckClaim(p)
      BY <2>2, <3>3 DEF CheckClaim, Held, Judged
    <3>4. CASE Link(p)
      BY <2>2, <3>4 DEF Link, Held, Judged, OwnCandidate, HasWork
    <3>5. CASE ReclaimExists(p) \/ ReclaimLink(p)
      BY <2>2, <3>5 DEF ReclaimExists, ReclaimLink, Held, Judged
    <3>6. CASE ReclaimRename(p)
      BY <2>2, <3>6 DEF ReclaimRename, Held, Judged
    <3>7. CASE ReclaimStat(p)
      BY <2>2, <3>7 DEF ReclaimStat, Held, Judged
    <3>8. CASE ReclaimOwner(p)
      BY <2>2, <3>8 DEF ReclaimOwner, Held, Judged
    <3>9. CASE ReclaimUnlink(p)
      <4>1. work[p] # None /\ lock = work[p] /\ work[p][1] \notin alive
        BY <2>2, <3>9 DEF ReclaimUnlink, HasWork, Judged
      <4>2. \A q \in alive : pc[q] \notin {"commit", "unlink"}
        BY <2>2, <4>1 DEF Held, OwnCandidate
      <4>3. \A q \in alive \ {p} : /\ pc[q] # "runlink"
                                   /\ pc[q] = "rowner" => ~Stale(work[q])
        BY <2>2, <4>1 DEF Judged, DistinctWork
      <4> QED
        BY <2>2, <3>9, <4>2, <4>3 DEF ReclaimUnlink, Held, Judged
    <3>10. CASE ReclaimClean(p)
      BY <2>2, <3>10 DEF ReclaimClean, Held, Judged
    <3>11. CASE Verify(p) \/ ReadToken(p)
      BY <2>2, <3>11 DEF Verify, ReadToken, Held, Judged
    <3>12. CASE Unlink(p)
      <4>1. lock = mine[p] /\ mine[p] # None /\ mine[p][1] = p /\ p \in alive
        BY <2>2, <3>12 DEF Unlink, Held, OwnCandidate
      <4>2. \A q \in alive \ {p} : pc[q] \notin {"commit", "unlink"}
        BY <2>2, <4>1 DEF Held, OwnCandidate
      <4>3. \A q \in alive : /\ pc[q] # "runlink"
                             /\ pc[q] = "rowner" => ~Stale(work[q])
        BY <2>2, <4>1 DEF Judged
      <4> QED
        BY <2>2, <3>12, <4>2, <4>3 DEF Unlink, Held, Judged
    <3> QED
      BY <2>4, <3>1, <3>2, <3>3, <3>4, <3>5, <3>6, <3>7, <3>8, <3>9, <3>10,
         <3>11, <3>12 DEF Continue, Acquiring, Reclaiming
  <2>5. ASSUME NEW p \in Procs, Crash(p) PROVE Held' /\ Judged'
    <3>1. Held'
      BY <2>2, <2>5 DEF Crash, Held
    <3>2. ASSUME NEW q \in alive', pc'[q] = "rowner", work'[q][1] \notin alive'
          PROVE lock' = work'[q]
      <4>1. work[q] \in Slot /\ work[q] # None /\ work[q] \notin {p} \X Tokens
        BY <2>2, <2>5, <3>2 DEF Crash, HasWork
      <4>2. work[q][1] # p
        BY <4>1 DEF Slot, Inodes
      <4> QED
        BY <2>2, <2>5, <3>2, <4>2 DEF Crash, Judged
    <3>3. ASSUME NEW q \in alive', pc'[q] = "runlink"
          PROVE work'[q][1] \notin alive' /\ lock' = work'[q]
      BY <2>2, <2>5, <3>3 DEF Crash, Judged
    <3> QED
      BY <3>1, <3>2, <3>3 DEF Judged
  <2> QED
    BY <1>2, <2>3, <2>4, <2>5 DEF Next
<1> QED
  BY <1>1, <1>2

LEMMA NextIInv == IInv /\ [Next]_vars => IInv'
<1> SUFFICES ASSUME IInv, [Next]_vars PROVE IInv'
  OBVIOUS
<1>1. raced => raced'
  BY NextDistinctWork DEF IInv
<1>2. TypeOK' /\ OwnCandidate' /\ HasWork'
  BY NextTypeOK, NextOwnCandidate, NextHasWork DEF IInv
<1>3. ~raced' => DistinctWork' /\ Held' /\ Judged'
  BY <1>1, NextDistinctWork, NextHeldJudged DEF IInv
<1> QED
  BY <1>2, <1>3 DEF IInv

\* The variables keep their types: in particular the attempt counter of
\* acquireLocks never leaves 0..1 and every directory entry is an inode.
THEOREM TypeCorrect == Spec => []TypeOK
<1>1. IInv => TypeOK
  BY DEF IInv
<1> QED
  BY <1>1, InitIInv, NextIInv, PTL DEF Spec

\* The lock excludes any number of processes as long as no reclaim meets one
\* of the two windows of removeStaleLock.
THEOREM ExclusionUnlessRaced == Spec => []ExclusiveUnlessRaced
<1>1. IInv => ExclusiveUnlessRaced
  BY DEF IInv, Held, OwnCandidate, ExclusiveUnlessRaced, MutualExclusion,
         Writing, At, TypeOK
<1> QED
  BY <1>1, InitIInv, NextIInv, PTL DEF Spec

-----------------------------------------------------------------------------
(* What is left behind.  Every directory entry that exists has a process,  *)
(* alive or dead, that stands where it has still to remove it.             *)

WorkOwned == \A p \in Procs : work[p] # None => pc[p] \in {"rstat", "rowner", "runlink", "rclean"}

ClaimOwned == claim # None => \E p \in Procs : pc[p] = "rrename"

LockOwned ==
  lock \notin {None} \cup (Departed \X Tokens) =>
    \E p \in Procs : lock = mine[p] /\ pc[p] \in {"held", "commit", "release", "unlink"}

LEMMA NextWorkOwned == TypeOK /\ WorkOwned /\ [Next]_vars => WorkOwned'
<1> SUFFICES ASSUME TypeOK, WorkOwned, [Next]_vars PROVE WorkOwned'
  OBVIOUS
<1> USE DEF WorkOwned, TypeOK, At, Goto, files, local
<1>1. CASE UNCHANGED vars
  BY <1>1 DEF vars
<1>2. ASSUME NEW p \in Procs, StartAcquire(p) \/ Crash(p) PROVE WorkOwned'
  BY <1>2 DEF StartAcquire, Crash
<1>3. ASSUME NEW p \in Procs,
             \/ Scan(p, "scan", "judge") \/ Judge(p, "judge", "claimed")
             \/ CheckClaim(p) \/ Link(p)
             \/ Scan(p, "rscan", "rjudge") \/ Judge(p, "rjudge", "rclaim")
      PROVE  WorkOwned'
  BY <1>3 DEF Scan, Judge, CheckClaim, Link
<1>4. ASSUME NEW p \in Procs, ReclaimExists(p) \/ ReclaimLink(p) \/ ReclaimRename(p)
      PROVE  WorkOwned'
  BY <1>4 DEF ReclaimExists, ReclaimLink, ReclaimRename
<1>5. ASSUME NEW p \in Procs,
             ReclaimStat(p) \/ ReclaimOwner(p) \/ ReclaimUnlink(p) \/ ReclaimClean(p)
      PROVE  WorkOwned'
  BY <1>5 DEF ReclaimStat, ReclaimOwner, ReclaimUnlink, ReclaimClean
<1>6. ASSUME NEW p \in Procs, Verify(p) \/ ReadToken(p) \/ Unlink(p) PROVE WorkOwned'
  BY <1>6 DEF Verify, ReadToken, Unlink
<1> QED
  BY <1>1, <1>2, <1>3, <1>4, <1>5, <1>6 DEF Next, Continue, Acquiring, Reclaiming

\* A claim goes with the first rename after the link that made it.
LEMMA NextClaimOwned == TypeOK /\ ClaimOwned /\ [Next]_vars => ClaimOwned'
<1> SUFFICES ASSUME TypeOK, ClaimOwned, [Next]_vars PROVE ClaimOwned'
  OBVIOUS
<1> USE DEF ClaimOwned, TypeOK, At, Goto, files, local
<1>1. CASE UNCHANGED vars
  BY <1>1 DEF vars
<1>2. ASSUME NEW p \in Procs, pc[p] # "rrename", UNCHANGED claim,
             \E label : pc' = [pc EXCEPT ![p] = label]
      PROVE  ClaimOwned'
  BY <1>2
<1>3. ASSUME NEW p \in Procs, Crash(p) PROVE ClaimOwned'
  BY <1>3 DEF Crash
<1>4. ASSUME NEW p \in Procs,
             \/ StartAcquire(p)
             \/ Scan(p, "scan", "judge") \/ Judge(p, "judge", "claimed")
             \/ CheckClaim(p) \/ Link(p)
             \/ Scan(p, "rscan", "rjudge") \/ Judge(p, "rjudge", "rclaim")
             \/ ReclaimExists(p) \/ ReclaimStat(p) \/ ReclaimOwner(p)
             \/ ReclaimUnlink(p) \/ ReclaimClean(p)
             \/ Verify(p) \/ ReadToken(p) \/ Unlink(p)
      PROVE  ClaimOwned'
  <2>1. pc[p] # "rrename" /\ UNCHANGED claim /\ \E label : pc' = [pc EXCEPT ![p] = label]
    BY <1>4 DEF StartAcquire, Scan, Judge, CheckClaim, Link, ReclaimExists, ReclaimStat,
                ReclaimOwner, ReclaimUnlink, ReclaimClean, Verify, ReadToken, Unlink
  <2> QED
    BY <1>2, <2>1
<1>5. ASSUME NEW p \in Procs, ReclaimLink(p) PROVE ClaimOwned'
  BY <1>5 DEF ReclaimLink
<1>6. ASSUME NEW p \in Procs, ReclaimRename(p) PROVE ClaimOwned'
  BY <1>6 DEF ReclaimRename
<1> QED
  BY <1>1, <1>3, <1>4, <1>5, <1>6 DEF Next, Continue, Acquiring, Reclaiming

\* A lock stays with the call that linked it until that call removes it.
LEMMA NextLockOwned == TypeOK /\ LockOwned /\ [Next]_vars => LockOwned'
<1> SUFFICES ASSUME TypeOK, LockOwned, [Next]_vars PROVE LockOwned'
  OBVIOUS
<1> USE DEF LockOwned, TypeOK, At, Goto, files, local
<1>1. CASE UNCHANGED vars
  BY <1>1 DEF vars
<1>2. ASSUME NEW p \in Procs, Crash(p) PROVE LockOwned'
  BY <1>2 DEF Crash
<1>3. ASSUME NEW p \in Procs, pc[p] \notin {"held", "commit", "release", "unlink"},
             UNCHANGED lock, \E label : pc' = [pc EXCEPT ![p] = label],
             \A q \in Procs \ {p} : mine'[q] = mine[q]
      PROVE  LockOwned'
  BY <1>3
<1>4. ASSUME NEW p \in Procs,
             \/ StartAcquire(p)
             \/ Scan(p, "scan", "judge") \/ Judge(p, "judge", "claimed") \/ CheckClaim(p)
             \/ Scan(p, "rscan", "rjudge") \/ Judge(p, "rjudge", "rclaim")
             \/ ReclaimExists(p) \/ ReclaimLink(p) \/ ReclaimRename(p) \/ ReclaimStat(p)
             \/ ReclaimOwner(p) \/ ReclaimClean(p)
      PROVE  LockOwned'
  <2>1. /\ pc[p] \notin {"held", "commit", "release", "unlink"} /\ UNCHANGED lock
        /\ \E label : pc' = [pc EXCEPT ![p] = label]
        /\ \A q \in Procs \ {p} : mine'[q] = mine[q]
    BY <1>4 DEF StartAcquire, Scan, Judge, CheckClaim, ReclaimExists, ReclaimLink,
                ReclaimRename, ReclaimStat, ReclaimOwner, ReclaimClean
  <2> QED
    BY <1>3, <2>1
<1>5. ASSUME NEW p \in Procs, Link(p) PROVE LockOwned'
  BY <1>5 DEF Link
<1>6. ASSUME NEW p \in Procs, ReclaimUnlink(p) \/ Unlink(p) PROVE LockOwned'
  BY <1>6 DEF ReclaimUnlink, Unlink
<1>7. ASSUME NEW p \in Procs, Verify(p) \/ ReadToken(p) PROVE LockOwned'
  BY <1>7 DEF Verify, ReadToken
<1> QED
  BY <1>1, <1>2, <1>4, <1>5, <1>6, <1>7 DEF Next, Continue, Acquiring, Reclaiming

\* However calls race for a lock and its reclaim (removeStaleLock and its finally
\* block, releaseLocks), when none is under way no claim, no working file and no
\* lock is left, but that of a departed owner.
THEOREM NothingLeftBehind == Spec => []NoResidue
<1> DEFINE Owned == WorkOwned /\ ClaimOwned /\ LockOwned
<1>1. Init => Owned
  BY DEF Init, WorkOwned, ClaimOwned, LockOwned
<1>2. TypeOK /\ Owned /\ [Next]_vars => Owned'
  BY NextWorkOwned, NextClaimOwned, NextLockOwned
<1>3. Owned => NoResidue
  BY DEF NoResidue, WorkOwned, ClaimOwned, LockOwned
<1> QED
  BY <1>1, <1>2, <1>3, TypeCorrect, PTL DEF Spec
=============================================================================
