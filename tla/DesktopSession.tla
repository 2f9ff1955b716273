--------------------------- MODULE DesktopSession ---------------------------
(***************************************************************************)
(* createDesktopSession (apps/desktop-shell): one edit at a time is staged *)
(* for review, accepted or rejected, and what the session applied can be   *)
(* undone, over projects whose journal may be left for recovery and which  *)
(* others change meanwhile.  The methods are synchronous, each an action,  *)
(* except stagePreparedProposal, which reads the document between awaits.  *)
(*                                                                         *)
(* A project is what ProjectHistory promises of it, one document each: its *)
(* bytes, the transactions applied or undone in order, and the entry that  *)
(* waits for recovery.  A transaction is numbered when it is applied and   *)
(* its number stands for the bytes it writes; 0 for those found at first,  *)
(* Foreign for those some editor wrote past the journal.                   *)
(***************************************************************************)
EXTENDS Naturals, Sequences

CONSTANTS
  Roots,   \* canonical project roots the session may be asked to edit
  Home,    \* the root it was created for
  Preps,   \* prepared proposals being staged
  None,
  MaxTx,   \* bound: transactions
  MaxTroubles \* bound: entries left open by failed writes, changes by others

ASSUME HomeAssumption == Home \in Roots
ASSUME BoundsAssumption == MaxTx \in Nat \ {0} /\ MaxTroubles \in Nat

VARIABLES
  project,  \* per root: content, log, open
  nextTx,   \* the next transaction
  session,  \* the state in the closure of createDesktopSession
  staging,  \* calls of stagePreparedProposal that wait for a read, or None
  aborted,  \* those whose signal was aborted
  detached, \* those called on a session that was replaced since
  troubles, \* bound: troubles so far
  own,      \* history: the transactions this session began, in order
  strayed   \* history: what of the session may be off, see Strays

svars == <<project, nextTx, session, staging, aborted, detached, troubles,
           own, strayed>>

Txs == 1..MaxTx
Foreign == MaxTx + 1
Contents == 0..Foreign

Logged == [tx : Txs, from : Contents, done : BOOLEAN]
Open   == [tx : Txs, from : Contents, goal : {"apply", "undo", "redo"}]
Proposal == [root : Roots, base : Contents, prep : Preps \cup {None}]
\* rejected: accept answered that it was not applied.
Began == [root : Roots, tx : Txs, rejected : BOOLEAN]
Session ==
  [phase : {"idle", "reviewing", "applied", "pending", "rejected"},
   proposal : Proposal \cup {None}, pendingTx : Txs \cup {None},
   recovering : BOOLEAN, applied : Seq(Roots), started : BOOLEAN]

\* superseded: the revision has moved on since the call.
Staging == [at : {"reading", "closing"}, base : Contents, superseded : BOOLEAN]

ASSUME NoneAssumption ==
  None \notin Proposal \cup Txs \cup Preps \cup Open \cup Staging

SessionTypeOK ==
  /\ project \in [Roots -> [content : Contents, log : Seq(Logged),
                            open : Open \cup {None}]]
  /\ nextTx \in 1..MaxTx + 1
  /\ session \in Session
  /\ staging \in [Preps -> Staging \cup {None}]
  /\ aborted \subseteq Preps /\ detached \subseteq Preps
  /\ troubles \in 0..MaxTroubles
  /\ own \in Seq(Began)
  /\ strayed \in {"nothing", "list", "pending"}

NewSession == [phase |-> "idle", proposal |-> None, pendingTx |-> None,
               recovering |-> FALSE, applied |-> <<>>, started |-> FALSE]

\* The home project may hold a transaction of an earlier session.
SessionInit ==
  /\ \E earlier \in BOOLEAN :
       /\ project = [r \in Roots |->
            IF earlier /\ r = Home
            THEN [content |-> 1, open |-> None,
                  log |-> <<[tx |-> 1, from |-> 0, done |-> TRUE]>>]
            ELSE [content |-> 0, open |-> None, log |-> <<>>]]
       /\ nextTx = IF earlier THEN 2 ELSE 1
  /\ session = NewSession
  /\ staging = [p \in Preps |-> None]
  /\ aborted = {} /\ detached = {}
  /\ troubles = 0
  /\ own = <<>>
  /\ strayed = "nothing"

-----------------------------------------------------------------------------
\* The journal of a project.
IsDone(p, i) == p.log[i].done
TopDone(p) ==
  {i \in DOMAIN p.log : IsDone(p, i) /\ \A j \in DOMAIN p.log : IsDone(p, j) => j <= i}
NextUndone(p) ==
  {i \in DOMAIN p.log :
     /\ ~IsDone(p, i)
     /\ \A j \in DOMAIN p.log : IsDone(p, j) => j < i
     /\ \A j \in 1..(i - 1) : ~IsDone(p, j) => \E k \in (j + 1)..(i - 1) : IsDone(p, k)}

Mark(log, tx, done) ==
  [i \in DOMAIN log |-> IF log[i].tx = tx THEN [log[i] EXCEPT !.done = done] ELSE log[i]]
HasTx(log, tx) == \E i \in DOMAIN log : log[i].tx = tx
Filed(log, open) ==
  IF HasTx(log, open.tx) THEN Mark(log, open.tx, open.goal # "undo")
  ELSE Append(log, [tx |-> open.tx, from |-> open.from, done |-> TRUE])

\* recoverIncompleteApplies: the entry is finished unless the bytes are neither
\* of its images.
Recoverable(p) == p.open # None => p.content \in {p.open.from, p.open.tx}
Recovered(p) ==
  IF p.open = None THEN p
  ELSE [content |-> IF p.open.goal = "undo" THEN p.open.from ELSE p.open.tx,
        log |-> Filed(p.log, p.open), open |-> None]
Settle(p) == IF Recoverable(p) THEN Recovered(p) ELSE p

\* An entry that went through: closed, or left active by a failed write, with
\* its archived form in place or not.
Through(p, open) ==
  LET done == [p EXCEPT !.content = IF open.goal = "undo" THEN open.from ELSE open.tx]
  IN {[done EXCEPT !.log = Filed(p.log, open)]}
     \cup {[done EXCEPT !.log = l, !.open = open] : l \in {p.log, Filed(p.log, open)}}

\* An entry left active with the document holding either image.
Halfway(p, open) ==
  {[p EXCEPT !.content = c, !.open = open] : c \in {open.from, open.tx}}

\* The project of r is left as `after`.
Leave(r, after) ==
  /\ project' = [project EXCEPT ![r] = after]
  /\ IF after.open = None THEN UNCHANGED troubles
     ELSE troubles < MaxTroubles /\ troubles' = troubles + 1

Entry(p, i, goal) == [tx |-> p.log[i].tx, from |-> p.log[i].from, goal |-> goal]

-----------------------------------------------------------------------------
\* From here on the list of applied roots, or the transaction waited for as
\* well, need not agree with the journals.
Strays(what) == strayed' = IF strayed = "pending" THEN strayed ELSE what

Reviewing == session.phase = "reviewing" /\ session.proposal # None

\* clearProposal: the revision moves on.
Cleared(phase) ==
  [session EXCEPT !.phase = phase, !.proposal = None, !.pendingTx = None,
                  !.recovering = FALSE]
Supersede ==
  staging' = [p \in Preps |->
    IF staging[p] # None /\ p \notin detached
    THEN [staging[p] EXCEPT !.superseded = TRUE] ELSE staging[p]]

Clear(phase) == session' = Cleared(phase) /\ Supersede
Install(proposal) ==
  /\ session' = [Cleared("reviewing") EXCEPT !.proposal = proposal]
  /\ Supersede

\* proposeEdit, on any root; `mark` names an asset import.  propose recovers
\* first.  While an edit is under review another is refused, and clears it only
\* when the caller's hash shows that the document has changed.
ProposeEdit(r, mark) ==
  /\ ~session.recovering
  /\ project' = [project EXCEPT ![r] = Settle(@)]
  /\ \/ /\ Reviewing
        /\ \/ UNCHANGED <<session, staging>>
           \/ Recoverable(project[r]) /\ Clear("idle")
     \/ ~Reviewing /\ Clear("idle")
     \/ /\ ~Reviewing
        /\ Recoverable(project[r])
        /\ Install([root |-> r, base |-> project'[r].content, prep |-> mark])
  /\ UNCHANGED <<nextTx, troubles, own, strayed>>

\* Mutant of Accept: every apply that was carried through or half way is taken
\* for done, and its recovery is not waited for.
AcceptUnwatched ==
  /\ ~session.recovering
  /\ Reviewing
  /\ LET r    == session.proposal.root
         p    == Settle(project[r])
         open == [tx |-> nextTx, from |-> p.content, goal |-> "apply"]
     IN \/ /\ project' = [project EXCEPT ![r] = p]
           /\ UNCHANGED <<nextTx, session, own, troubles>>
        \/ /\ p.open = None /\ p.content = session.proposal.base /\ nextTx <= MaxTx
           /\ nextTx' = nextTx + 1
           /\ own' = Append(own, [root |-> r, tx |-> nextTx, rejected |-> FALSE])
           /\ \E after \in Through(p, open) \cup Halfway(p, open) :
                /\ Leave(r, after)
                /\ session' =
                     [session EXCEPT !.phase = "applied", !.pendingTx = nextTx,
                        !.applied = Append(@, r), !.started = TRUE]
  /\ UNCHANGED <<staging, strayed>>

\* accept: apply recovers, then checks the hash the proposal was read at.  It is
\* rejected with nothing written; or with its entry left in place, when the
\* write of the entry reported a failure: the next recovery carries it out.
\* Or it is applied, perhaps with recovery pending, the entry being there still
\* or not; or indeterminate.
Accept ==
  /\ ~session.recovering
  /\ Reviewing
  /\ LET r    == session.proposal.root
         p    == Settle(project[r])
         open == [tx |-> nextTx, from |-> p.content, goal |-> "apply"]
         Begins(rejected) ==
           /\ p.open = None /\ p.content = session.proposal.base /\ nextTx <= MaxTx
           /\ nextTx' = nextTx + 1
           /\ own' = Append(own, [root |-> r, tx |-> nextTx, rejected |-> rejected])
     IN \/ /\ project' = [project EXCEPT ![r] = p]
           /\ UNCHANGED <<nextTx, session, own, troubles, strayed>>
        \/ /\ Begins(TRUE)
           /\ Leave(r, [p EXCEPT !.open = open])
           /\ Strays("list")
           /\ UNCHANGED session
        \/ /\ Begins(FALSE)
           /\ \/ \E after \in Through(p, open), waits \in BOOLEAN :
                   /\ after.open # None => waits
                   /\ Leave(r, after)
                   /\ session' =
                        [session EXCEPT !.phase = "applied", !.pendingTx = nextTx,
                           !.recovering = waits,
                           !.applied = Append(@, r), !.started = TRUE]
              \/ \E after \in Halfway(p, open) :
                   /\ Leave(r, after)
                   /\ session' =
                        [session EXCEPT !.phase = "pending", !.pendingTx = nextTx,
                           !.recovering = TRUE]
           /\ UNCHANGED strayed
  /\ UNCHANGED staging

\* Refused while recovery is pending.
Reject ==
  /\ IF session.recovering THEN UNCHANGED <<session, staging>> ELSE Clear("rejected")
  /\ UNCHANGED <<project, nextTx, troubles, own, strayed>>

\* Mutant of RefreshRecovery: an apply already on the list is put there again.
RefreshRecoveryTwice ==
  /\ session.recovering
  /\ LET r == session.proposal.root
         p == Settle(project[r])
         resolved == p.open = None /\ HasTx(p.log, session.pendingTx)
     IN /\ project' = [project EXCEPT ![r] = p]
        /\ session' =
             IF ~resolved THEN session
             ELSE [session EXCEPT !.phase = "applied", !.applied = Append(@, r),
                     !.started = TRUE, !.recovering = FALSE, !.pendingTx = None]
  /\ UNCHANGED <<nextTx, staging, troubles, own, strayed>>

\* refreshRecovery: resolveApplyTransaction recovers, then reads the entry.
RefreshRecovery ==
  /\ session.recovering
  /\ LET r == session.proposal.root
         p == Settle(project[r])
         completed == \E i \in DOMAIN p.log : p.log[i].tx = session.pendingTx /\ IsDone(p, i)
     IN /\ project' = [project EXCEPT ![r] = p]
        /\ session' =
             CASE p.open # None -> session
               [] p.open = None /\ completed ->
                    LET fresh == session.phase = "pending"
                    IN [session EXCEPT
                          !.phase = "applied", !.recovering = FALSE, !.pendingTx = None,
                          !.applied = IF fresh THEN Append(@, r) ELSE @,
                          !.started = @ \/ fresh]
               [] p.open = None /\ ~completed ->
                    [session EXCEPT !.phase = "reviewing", !.recovering = FALSE,
                                    !.pendingTx = None]
  /\ UNCHANGED <<nextTx, staging, troubles, own, strayed>>

\* The root undo works on: the last on the list, the session's own when it has
\* applied nothing yet, none once its list is used up.
UndoRoots ==
  IF session.applied # <<>> THEN {session.applied[Len(session.applied)]}
  ELSE IF session.started THEN {} ELSE {Home}

Popped(s) ==
  IF s.applied = <<>> THEN s
  ELSE [s EXCEPT !.applied = SubSeq(@, 1, Len(@) - 1)]

\* The transaction undo or redo picks, and the bytes it must find.
Reversible(p, goal) == IF goal = "undo" THEN TopDone(p) ELSE NextUndone(p)
Image(logged, goal) == IF goal = "undo" THEN logged.tx ELSE logged.from

\* undoLastApply and redoLastApply recover first and need the exact bytes.
\* "late": the call reports a failure but leaves its entry, so that the next
\* recovery carries it out.
Reversal(r, goal, success) ==
  LET p == Settle(project[r])
  IN \/ /\ project' = [project EXCEPT ![r] = p]
        /\ UNCHANGED <<session, staging, troubles, strayed>>
     \/ /\ p.open = None
        /\ \E i \in Reversible(p, goal) :
             /\ p.content = Image(p.log[i], goal)
             /\ \/ /\ \E after \in Through(p, Entry(p, i, goal)) : Leave(r, after)
                   /\ session' = success
                   /\ Supersede
                   /\ IF session.recovering THEN Strays("pending")
                      ELSE IF goal = "redo" THEN Strays("list") ELSE UNCHANGED strayed
                \/ /\ \E after \in Halfway(p, Entry(p, i, goal)) : Leave(r, after)
                   /\ Strays("list")
                   /\ UNCHANGED <<session, staging>>

\* undo and redo are refused during a review, and are not refused while
\* recovery is pending; success forgets the pending transaction.
Undo ==
  /\ ~Reviewing
  /\ \E r \in UndoRoots :
       Reversal(r, "undo",
         [Popped(session) EXCEPT !.phase = "idle", !.proposal = None,
            !.pendingTx = None, !.recovering = FALSE])
  /\ UNCHANGED <<nextTx, own>>

Redo ==
  /\ ~Reviewing
  /\ Reversal(Home, "redo", Cleared("idle"))
  /\ UNCHANGED <<nextTx, own>>

-----------------------------------------------------------------------------
\* stagePreparedProposal, on the home root: refused at once, or it starts to
\* read the document.
Refused == session.recovering \/ Reviewing
Stage(p, base) ==
  staging' = [staging EXCEPT ![p] =
    IF Refused THEN None
    ELSE [at |-> "reading", base |-> base, superseded |-> FALSE]]

Waits(p, label) == staging[p] # None /\ staging[p].at = label
Stopped(p) == p \in aborted \/ staging[p].superseded

\* The reads are done, and the file is closed unless the review was cancelled or
\* superseded, or the bytes are not those it was prepared for.
StageRead(p) ==
  /\ Waits(p, "reading")
  /\ staging' =
       IF \/ Stopped(p)
          \/ p \notin detached /\ session.recovering
          \/ project[Home].content # staging[p].base
       THEN [staging EXCEPT ![p] = None]
       ELSE [staging EXCEPT ![p].at = "closing"]
  /\ UNCHANGED session

Prepared(p) ==
  [Cleared("reviewing") EXCEPT
     !.proposal = [root |-> Home, base |-> staging[p].base, prep |-> p]]

\* Mutants of StageInstall: what happened while the file was closed is not
\* looked at.
StageInstallUnchecked(p) ==
  /\ Waits(p, "closing")
  /\ IF p \in aborted THEN UNCHANGED session ELSE session' = Prepared(p)
  /\ staging' = [staging EXCEPT ![p] = None]

StageInstallUncancelled(p) ==
  /\ Waits(p, "closing")
  /\ IF staging[p].superseded \/ p \in detached
     THEN UNCHANGED session ELSE session' = Prepared(p)
  /\ staging' = [staging EXCEPT ![p] = None]

\* The file is closed; the review is installed unless something came between.
StageInstall(p) ==
  /\ Waits(p, "closing")
  /\ IF Stopped(p)
     THEN staging' = [staging EXCEPT ![p] = None] /\ UNCHANGED session
     ELSE /\ session' = Prepared(p)
          /\ staging' = [q \in Preps |->
               IF q = p \/ staging[q] = None THEN None
               ELSE [staging[q] EXCEPT !.superseded = @ \/ q \notin detached]]
=============================================================================
