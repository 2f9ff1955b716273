----------------------------- MODULE MCLockFile -----------------------------
(***************************************************************************)
(* Small instances of LockFile.  Live processes are interchangeable; two   *)
(* tokens let a process acquire again while its previous lock is still     *)
(* linked under another name.                                              *)
(***************************************************************************)
EXTENDS LockFile, TLC

CONSTANTS p1, p2, p3, d1, t1, t2

\* The live processes may be exchanged, the departed one may not.
Symmetry == Permutations(Procs \ Departed) \cup Permutations(Tokens)
=============================================================================
