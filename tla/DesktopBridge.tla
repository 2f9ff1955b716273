---------------------------- MODULE DesktopBridge ----------------------------
(***************************************************************************)
(* The host's side of a desktop session (desktop/linux, bridge.ts): the    *)
(* authoring operations of the renderer, and asset imports that a worker   *)
(* prepares while the user goes on.  A preparation belongs to a generation *)
(* and is retired with it by cancelling, rejecting, restarting, changing   *)
(* the profile or closing; its answer comes later all the same.            *)
(*                                                                         *)
(* Other programs and other sessions work on the same projects.            *)
(***************************************************************************)
EXTENDS DesktopSession

VARIABLES
  preparation,    \* what each preparation is doing
  current,        \* currentPreparation
  pendingImport,  \* the proposal of pendingAssetImport
  closed          \* preparationClosed

bvars == <<preparation, current, pendingImport, closed>>
vars  == <<svars, bvars>>

\* Worker: started, has read the document, was handed to the session, over.
Preparation == [at : {"unused", "worker", "read", "staging", "over"},
                base : Contents]

TypeOK ==
  /\ SessionTypeOK
  /\ preparation \in [Preps -> Preparation]
  /\ current \in Preps \cup {None}
  /\ pendingImport \in Proposal \cup {None}
  /\ closed \in BOOLEAN

Init ==
  /\ SessionInit
  /\ preparation = [p \in Preps |-> [at |-> "unused", base |-> 0]]
  /\ current = None
  /\ pendingImport = None
  /\ closed = FALSE

-----------------------------------------------------------------------------
\* Mutant of RetirePreparation: nothing may be under way.
RetireAnyway ==
  /\ aborted' = aborted \cup {current}
  /\ current' = None

\* retirePreparation.
RetirePreparation ==
  /\ aborted' = aborted \cup ({current} \ {None})
  /\ current' = None

\* reconcilePendingAssetImport: the evidence of an import goes with its proposal.
Reconciled ==
  IF session'.proposal = pendingImport THEN pendingImport ELSE None

\* Once close has let go of the session, the host calls nothing more.
Propose ==
  /\ ~closed
  /\ \E r \in Roots : ProposeEdit(r, None)
  /\ pendingImport' = Reconciled
  /\ UNCHANGED <<aborted, detached, preparation, current, closed>>

\* assetImport: an import prepared at once goes through proposeEdit ...
ImportAsset ==
  /\ ~closed
  /\ \E p \in Preps :
       /\ preparation[p].at = "unused"
       /\ ProposeEdit(Home, p)
       /\ preparation' = [preparation EXCEPT ![p].at = "over"]
       /\ pendingImport' = IF ~Reviewing /\ session'.phase = "reviewing"
                           THEN session'.proposal ELSE Reconciled
  /\ UNCHANGED <<aborted, detached, current, closed>>

\* ... unless it is refused, or a replay of one the document has: no edit then,
\* and the files the document names are copied at once.
ImportReplayed(p) ==
  /\ ~closed
  /\ preparation[p].at = "unused"
  /\ preparation' = [preparation EXCEPT ![p].at = "over"]
  /\ UNCHANGED <<svars, current, pendingImport, closed>>

\* Mutant of Materialize: the import is published while recovery may still
\* take the edit back.
MaterializeEarly ==
  pendingImport' = IF session'.phase = "applied" THEN None ELSE Reconciled

\* After accept and recover: once the edit is applied and nothing is left to
\* recover, the evidence of the import is given away with the answer, and the
\* files the document names are copied.
Materialize ==
  pendingImport' =
    IF session'.phase = "applied" /\ ~session'.recovering THEN None ELSE Reconciled

AcceptOp ==
  /\ ~closed
  /\ Accept
  /\ Materialize
  /\ UNCHANGED <<aborted, detached, preparation, current, closed>>

RecoverOp ==
  /\ ~closed
  /\ RefreshRecovery
  /\ Materialize
  /\ UNCHANGED <<aborted, detached, preparation, current, closed>>

RejectOp ==
  /\ ~closed
  /\ RetirePreparation
  /\ Reject
  /\ pendingImport' = Reconciled
  /\ UNCHANGED <<detached, preparation, closed>>

\* Success clears the import under way, whatever transaction was undone.
UndoRedoOp ==
  /\ ~closed
  /\ Undo \/ Redo
  /\ pendingImport' = IF session' = session THEN pendingImport ELSE None
  /\ UNCHANGED <<aborted, detached, preparation, current, closed>>

\* restart and close let go of the session, unless its lease cannot be
\* released; the next operation creates a new one.
Replace ==
  /\ ~closed
  /\ RetirePreparation
  /\ \/ UNCHANGED <<session, detached, own, strayed, pendingImport, closed>>
     \/ /\ session' = NewSession
        /\ detached' = detached \cup {p \in Preps : staging[p] # None}
        /\ own' = <<>> /\ strayed' = "nothing"
        /\ \/ pendingImport' = None /\ UNCHANGED closed
           \/ closed' = TRUE /\ UNCHANGED pendingImport
  /\ UNCHANGED <<project, nextTx, staging, troubles, preparation>>

-----------------------------------------------------------------------------
\* prepareAssetImport starts a worker, one at a time: a worker that was retired
\* counts until it is gone.
Prepare(p) ==
  /\ ~closed /\ current = None
  /\ \A q \in Preps : preparation[q].at \notin {"worker", "read"}
  /\ preparation[p].at = "unused"
  /\ session.phase # "reviewing" /\ ~session.recovering
  /\ preparation' = [preparation EXCEPT ![p].at = "worker"]
  /\ current' = p
  /\ UNCHANGED <<svars, pendingImport, closed>>

WorkerReads(p) ==
  /\ preparation[p].at = "worker"
  /\ preparation' = [preparation EXCEPT ![p] = [at |-> "read", base |-> project[Home].content]]
  /\ UNCHANGED <<svars, current, pendingImport, closed>>

Over(p) ==
  /\ preparation' = [preparation EXCEPT ![p] = [at |-> "over", base |-> 0]]
  /\ current' = IF current = p THEN None ELSE current
  /\ aborted' = aborted \ {p} /\ detached' = detached \ {p}

\* Cancelled by the caller, or its profile changed: the answer is awaited still.
Cancel ==
  /\ current # None
  /\ RetirePreparation
  /\ UNCHANGED <<project, nextTx, session, staging, detached, troubles, own, strayed,
                 preparation, pendingImport, closed>>

\* The worker's answer is refused, or a replay, for which files are copied at
\* once, or was retired meanwhile ...
WorkerRefused(p) ==
  /\ preparation[p].at \in {"worker", "read"}
  /\ Over(p)
  /\ UNCHANGED <<project, nextTx, session, staging, troubles, own, strayed,
                 pendingImport, closed>>

\* ... or is handed to the session.
WorkerAnswers(p) ==
  /\ preparation[p].at = "read"
  /\ p \notin aborted
  /\ Stage(p, preparation[p].base)
  /\ IF Refused THEN Over(p)
     ELSE /\ preparation' = [preparation EXCEPT ![p].at = "staging"]
          /\ UNCHANGED <<current, aborted, detached>>
  /\ UNCHANGED <<project, nextTx, session, troubles, own, strayed,
                 pendingImport, closed>>

\* The review installed by the session is published with the import's evidence.
Admit(p) ==
  /\ StageRead(p) \/ StageInstall(p)
  /\ IF staging'[p] = None THEN Over(p)
     ELSE UNCHANGED <<preparation, current, aborted, detached>>
  /\ pendingImport' = IF session' # session THEN session'.proposal ELSE pendingImport
  /\ UNCHANGED <<project, nextTx, troubles, own, strayed, closed>>

-----------------------------------------------------------------------------
\* Other programs on the same project: apply, undo, finish what was left, or
\* write a document, and may die half way.
Elsewhere(r) ==
  /\ troubles < MaxTroubles
  /\ troubles' = troubles + 1
  /\ LET p    == Settle(project[r])
         open == [tx |-> nextTx, from |-> p.content, goal |-> "apply"]
     IN \/ /\ p.open = None /\ nextTx <= MaxTx
           /\ \E after \in Through(p, open) \cup Halfway(p, open) :
                project' = [project EXCEPT ![r] = after]
           /\ nextTx' = nextTx + 1
           /\ Strays("list")
        \/ /\ p.open = None
           /\ \E i \in TopDone(p) :
                /\ p.content = p.log[i].tx
                /\ \E after \in Through(p, Entry(p, i, "undo")) :
                     project' = [project EXCEPT ![r] = after]
           /\ Strays("list")
           /\ UNCHANGED nextTx
        \/ /\ project' = [project EXCEPT ![r] = p]
           /\ UNCHANGED <<nextTx, strayed>>
        \/ /\ project' = [project EXCEPT ![r].content = Foreign]
           /\ UNCHANGED <<nextTx, strayed>>
  /\ UNCHANGED <<session, staging, aborted, detached, own, bvars>>

Next ==
  \/ Propose \/ ImportAsset \/ AcceptOp \/ RecoverOp \/ RejectOp
  \/ UndoRedoOp \/ Replace \/ Cancel
  \/ \E p \in Preps :
       \/ ImportReplayed(p) \/ Prepare(p) \/ WorkerReads(p) \/ WorkerRefused(p)
       \/ WorkerAnswers(p) \/ Admit(p)
  \/ \E r \in Roots : Elsewhere(r)

Spec == Init /\ [][Next]_vars

-----------------------------------------------------------------------------
\* What the user has under review is what accept will apply: it is never
\* exchanged for another proposal, least of all by one that was prepared in
\* the background.
ReviewIsKept ==
  [][Reviewing /\ session'.phase = "reviewing" =>
       session'.proposal = session.proposal]_vars

\* A preparation that was retired never becomes the review.
RetiredStaysRetired ==
  [][\A p \in aborted :
       session'.proposal # None /\ session'.proposal.prep = p =>
         session'.proposal = session.proposal]_vars

\* Undo works on the roots this session applied to, last first: the list is
\* that of its transactions still in effect, unless someone else changed their
\* journals, the session redid one, an undo came before a recovery, or an undo
\* or an apply was carried out by a recovery after it had been refused.
InEffect(entry) ==
  LET p == Recovered(project[entry.root])
  IN \E i \in DOMAIN p.log : p.log[i].tx = entry.tx /\ IsDone(p, i)

Kept == {k \in DOMAIN own : InEffect(own[k])}

\* The list names the roots of these transactions, in their order.
Lists(roots, kept) ==
  \E at \in [DOMAIN roots -> kept] :
    /\ \A k, l \in DOMAIN roots : k < l => at[k] < at[l]
    /\ \A i \in kept : \E k \in DOMAIN roots : at[k] = i
    /\ \A k \in DOMAIN roots : roots[k] = own[at[k]].root

AppliedIsExact ==
  strayed = "nothing" /\ ~session.recovering => Lists(session.applied, Kept)

\* An apply whose outcome is open is not forgotten: while its entry waits for
\* recovery, the session waits for it too, unless undo or redo went before.  Not
\* so an apply that was answered rejected though its entry had been written: it
\* is reviewed on, and carried out by the next recovery.
NoApplyForgotten ==
  strayed # "pending" =>
    \A i \in DOMAIN own :
      LET open == project[own[i].root].open
      IN /\ ~own[i].rejected
         /\ open # None /\ open.tx = own[i].tx /\ open.goal = "apply"
         => session.recovering /\ session.pendingTx = own[i].tx

\* The evidence of an import is kept as long as its edit is under review or may
\* still be taken back by recovery, through accepting, recovering and undoing:
\* neither lost nor given away before, and not left to a later edit.
Unsettled == session.proposal # None /\ (session.phase = "applied" => session.recovering)

EvidenceFollowsImport ==
  ~closed =>
    pendingImport =
      IF Unsettled /\ session.proposal.prep # None THEN session.proposal ELSE None
=============================================================================
