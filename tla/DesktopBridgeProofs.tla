------------------------ MODULE DesktopBridgeProofs ------------------------
(***************************************************************************)
(* Theorems about DesktopBridge, for any projects, preparations and number *)
(* of transactions and troubles.                                           *)
(*                                                                         *)
(* Whatever is done to a project, by the session or by others, either      *)
(* leaves the journal it has once recovered as it is, adds the next        *)
(* transaction to it, or marks one done or undone.  So the journals are in *)
(* the order of the transactions' numbers, and the last one done, which    *)
(* undo picks, is the last root on the session's list.                     *)
(***************************************************************************)
EXTENDS DesktopBridge, SequenceTheorems, TLAPS

\* Who waits for what: a preparation under way is the current one or was
\* retired, and none that is not detached can still become the review while
\* another edit is under review or waits for recovery.
UnderWay(p) == preparation[p].at \in {"worker", "read", "staging"}
PreparationsOK ==
  /\ \A p \in Preps : UnderWay(p) <=> p \in aborted \/ current = p
  /\ \A p \in Preps : staging[p] # None => preparation[p].at = "staging"
  /\ detached \subseteq aborted
HeldOff ==
  Refused =>
    \A p \in Preps : staging[p] # None => p \in detached \/ staging[p].superseded

\* What the session waits for is the last transaction it applied.
SessionOK ==
  /\ session.phase = "reviewing" => session.proposal # None /\ ~session.recovering
  /\ session.phase = "pending" => session.recovering
  /\ session.recovering =>
       /\ session.phase \in {"applied", "pending"}
       /\ session.proposal # None
       /\ own # <<>>
       /\ own[Len(own)] = [root |-> session.proposal.root, tx |-> session.pendingTx,
                           rejected |-> FALSE]
  /\ pendingImport # None => pendingImport.root = Home

\* Transactions are in the journals in the order of their numbers, and those of
\* the session where it applied them.
LogOf(r) == Recovered(project[r]).log
LogOK(r) ==
  /\ \A i, j \in DOMAIN LogOf(r) : i < j => LogOf(r)[i].tx < LogOf(r)[j].tx
  /\ \A i \in DOMAIN LogOf(r) : LogOf(r)[i].tx < nextTx
  /\ \A i \in DOMAIN LogOf(r) : \A k \in DOMAIN own :
       LogOf(r)[i].tx = own[k].tx => r = own[k].root
LogsOK == \A r \in Roots : LogOK(r)
OwnOK ==
  /\ \A k \in DOMAIN own : own[k].tx < nextTx
  /\ \A k, l \in DOMAIN own : k < l => own[k].tx < own[l].tx

\* While nothing strayed the transactions after the session's first are its
\* own, and the list is exact but for the one waited for.
OthersAreOlder ==
  \A r \in Roots : \A i \in DOMAIN LogOf(r) : \A k \in DOMAIN own :
    own[k].tx < LogOf(r)[i].tx => \E l \in DOMAIN own : own[l].tx = LogOf(r)[i].tx
Listed == IF session.phase = "pending" THEN Kept \ {Len(own)} ELSE Kept
ListOK == strayed = "nothing" => OthersAreOlder /\ Lists(session.applied, Listed)

IInv ==
  /\ TypeOK /\ PreparationsOK /\ HeldOff /\ SessionOK
  /\ LogsOK /\ OwnOK /\ NoApplyForgotten /\ ListOK /\ EvidenceFollowsImport

-----------------------------------------------------------------------------
(* A project and its journal.                                              *)

Project == [content : Contents, log : Seq(Logged), open : Open \cup {None}]

LEMMA NoneIsNoOpen == None \notin Open
BY NoneAssumption

LEMMA LastOne ==
  ASSUME NEW S, NEW s \in Seq(S), s # <<>>
  PROVE  Len(s) \in DOMAIN s /\ s[Len(s)] \in S
<1>1. Len(s) \in Nat /\ DOMAIN s = 1..Len(s)
  BY LenProperties
<1>2. Len(s) # 0
  BY <1>1, EmptySeq
<1> QED
  BY <1>1, <1>2, ElementOfSeq

LEMMA LastOwn ==
  ASSUME NEW s \in Seq(Began), s # <<>>
  PROVE  Len(s) \in DOMAIN s /\ s[Len(s)].tx \in Txs
<1>1. Len(s) \in DOMAIN s /\ s[Len(s)] \in Began
  BY LastOne
<1> QED
  BY <1>1 DEF Began

Entries == Seq(Began)

LEMMA OwnRows ==
  ASSUME NEW s \in Entries, NEW k \in DOMAIN s
  PROVE  /\ s[k].root \in Roots /\ s[k].tx \in Txs /\ s[k].tx \in Nat
         /\ k \in Nat /\ k \in 1..Len(s) /\ DOMAIN s = 1..Len(s) /\ Len(s) \in Nat
<1>1. s \in Seq(Began)
  BY DEF Entries
<1>2. s[k] \in Began /\ k \in 1..Len(s) /\ DOMAIN s = 1..Len(s) /\ Len(s) \in Nat
  BY <1>1, ElementOfSeq, LenProperties
<1> QED
  BY <1>2, BoundsAssumption DEF Began, Txs

LEMMA OneMoreRow ==
  ASSUME NEW old \in Entries, NEW row \in Began
  PROVE  /\ Append(old, row) \in Entries /\ Append(old, row) # <<>>
         /\ Len(old) \in Nat /\ DOMAIN old = 1..Len(old)
         /\ Len(Append(old, row)) = Len(old) + 1
         /\ DOMAIN Append(old, row) = 1..(Len(old) + 1)
         /\ Append(old, row)[Len(old) + 1] = row
         /\ \A k \in DOMAIN old : Append(old, row)[k] = old[k]
<1>1. old \in Seq(Began)
  BY DEF Entries
<1> QED
  BY <1>1, AppendProperties, LenProperties DEF Entries

LEMMA LogRows ==
  ASSUME NEW log \in Seq(Logged), NEW i \in DOMAIN log
  PROVE  /\ log[i] \in Logged /\ log[i].tx \in Txs /\ log[i].tx \in Nat
         /\ i \in 1..Len(log) /\ DOMAIN log = 1..Len(log) /\ Len(log) \in Nat
<1>1. log[i] \in Logged /\ i \in 1..Len(log) /\ DOMAIN log = 1..Len(log) /\ Len(log) \in Nat
  BY ElementOfSeq, LenProperties
<1> QED
  BY <1>1, BoundsAssumption DEF Logged, Txs

LEMMA MarkedLog ==
  ASSUME NEW log \in Seq(Logged), NEW tx, NEW done \in BOOLEAN
  PROVE  /\ Mark(log, tx, done) \in Seq(Logged)
         /\ DOMAIN Mark(log, tx, done) = DOMAIN log
         /\ \A i \in DOMAIN log :
              /\ Mark(log, tx, done)[i].tx = log[i].tx
              /\ Mark(log, tx, done)[i].done = IF log[i].tx = tx THEN done ELSE log[i].done
<1> DEFINE m == Mark(log, tx, done)
<1>1. DOMAIN m = 1..Len(log)
  BY LenProperties DEF Mark
<1>2. \A i \in 1..Len(log) : log[i] \in Logged
  BY ElementOfSeq
<1>3. \A i \in 1..Len(log) :
        /\ m[i] \in Logged /\ m[i].tx = log[i].tx
        /\ m[i].done = IF log[i].tx = tx THEN done ELSE log[i].done
  BY <1>2, LenProperties DEF Mark, Logged
<1>4. m = [i \in 1..Len(log) |-> m[i]]
  BY LenProperties DEF Mark
<1>5. m \in Seq(Logged)
  BY <1>3, <1>4, LenProperties, IsASeq
<1> QED
  BY <1>1, <1>3, <1>5, LenProperties

LEMMA FiledLog ==
  ASSUME NEW log \in Seq(Logged), NEW open \in Open
  PROVE  /\ Filed(log, open) \in Seq(Logged)
         /\ HasTx(log, open.tx) => Filed(log, open) = Mark(log, open.tx, open.goal # "undo")
         /\ ~HasTx(log, open.tx) =>
              Filed(log, open) = Append(log, [tx |-> open.tx, from |-> open.from, done |-> TRUE])
         /\ HasTx(log, open.tx) \/ open.goal # "undo" =>
              Filed(Filed(log, open), open) = Filed(log, open)
<1> DEFINE row == [tx |-> open.tx, from |-> open.from, done |-> TRUE]
<1>0. PICK d \in BOOLEAN : d = (open.goal # "undo")
  OBVIOUS
<1>1. row \in Logged
  BY DEF Open, Logged
<1>2. CASE HasTx(log, open.tx)
  <2> DEFINE m == Mark(log, open.tx, d)
  <2>1. /\ m \in Seq(Logged) /\ DOMAIN m = DOMAIN log
        /\ \A i \in DOMAIN log : m[i].tx = log[i].tx
    BY MarkedLog
  <2>2. Filed(log, open) = m
    BY <1>0, <1>2 DEF Filed
  <2>3. HasTx(m, open.tx)
    BY <1>2, <2>1 DEF HasTx
  <2>4. Mark(m, open.tx, d) = m
    BY <2>1 DEF Mark
  <2>5. Filed(m, open) = m
    BY <1>0, <2>3, <2>4 DEF Filed
  <2> QED
    BY <1>0, <1>2, <2>1, <2>2, <2>5
<1>3. CASE ~HasTx(log, open.tx)
  <2> DEFINE a == Append(log, row)
  <2>1. /\ a \in Seq(Logged) /\ DOMAIN a = 1..(Len(log) + 1)
        /\ a[Len(log) + 1] = row
    BY <1>1, LenProperties, AppendProperties
  <2>2. Filed(log, open) = a
    BY <1>3 DEF Filed
  <2>3. Len(log) + 1 \in DOMAIN a
    BY <2>1, LenProperties
  <2>4. HasTx(a, open.tx)
    BY <2>1, <2>3 DEF HasTx
  <2>5. ASSUME open.goal # "undo"  PROVE Filed(a, open) = a
    <3>1. \A i \in DOMAIN a : a[i].tx = open.tx => a[i].done = TRUE /\ a[i] \in Logged
      BY <1>1, <1>3, <2>1, LenProperties, AppendProperties, ElementOfSeq DEF HasTx
    <3>2. \A i \in DOMAIN a : a[i].tx = open.tx => [a[i] EXCEPT !.done = TRUE] = a[i]
      BY <3>1 DEF Logged
    <3>3. a = [i \in DOMAIN a |-> a[i]]
      BY <2>1, LenProperties
    <3>4. Mark(a, open.tx, TRUE) = a
      BY <3>2, <3>3 DEF Mark
    <3> QED
      BY <2>4, <2>5, <3>4 DEF Filed
  <2> QED
    BY <1>3, <2>1, <2>2, <2>5
<1> QED
  BY <1>2, <1>3

LEMMA SettledProject ==
  ASSUME NEW p \in Project
  PROVE  /\ Recovered(p) \in Project /\ Recovered(p).open = None
         /\ Settle(p) \in Project
         /\ Recovered(Settle(p)) = Recovered(p)
         /\ Settle(p).open = None => Settle(p) = Recovered(p)
         /\ Settle(p).open # None => Settle(p) = p
         /\ Recoverable(p) => Settle(p).open = None
         /\ p.open = None => Recovered(p) = p
<1>1. CASE p.open = None
  BY <1>1 DEF Recovered, Settle, Recoverable
<1>2. CASE p.open # None
  <2>1. p.open \in Open /\ p.log \in Seq(Logged)
    BY <1>2 DEF Project
  <2>2. Filed(p.log, p.open) \in Seq(Logged)
    BY <2>1, FiledLog
  <2>3. p.open.from \in Contents /\ p.open.tx \in Contents
    BY <2>1, BoundsAssumption DEF Open, Contents, Txs, Foreign
  <2>4. Recovered(p) \in Project /\ Recovered(p).open = None
    BY <1>2, <2>2, <2>3 DEF Recovered, Project
  <2> QED
    BY <1>2, <2>4 DEF Recovered, Settle, Recoverable
<1> QED
  BY <1>1, <1>2

\* Whatever becomes of a transaction that was begun, once recovered it is filed.
LEMMA Carried ==
  ASSUME NEW p \in Project, p.open = None, NEW open \in Open,
         HasTx(p.log, open.tx) \/ open.goal # "undo",
         NEW after \in Through(p, open) \cup Halfway(p, open)
  PROVE  /\ after \in Project
         /\ after.open \in {None, open}
         /\ Recovered(after).log = Filed(p.log, open)
         /\ after \in Halfway(p, open) => after.open = open
         /\ after.open = None => after.log = Filed(p.log, open)
<1>1. /\ p.log \in Seq(Logged) /\ Filed(p.log, open) \in Seq(Logged)
      /\ Filed(Filed(p.log, open), open) = Filed(p.log, open)
  BY FiledLog DEF Project
<1>2. open.from \in Contents /\ open.tx \in Contents
  BY BoundsAssumption DEF Open, Contents, Txs, Foreign
<1>3. \E c \in {open.from, open.tx} : \E l \in {p.log, Filed(p.log, open)} :
        \/ after = [p EXCEPT !.content = c, !.log = l, !.open = open]
        \/ after = [p EXCEPT !.content = c, !.log = Filed(p.log, open)]
  <2>1. CASE after \in Halfway(p, open)
    BY <2>1 DEF Halfway, Project
  <2>2. CASE after \in Through(p, open)
    BY <2>2 DEF Through, Project
  <2> QED
    BY <2>1, <2>2
<1>4. open # None
  BY NoneIsNoOpen
<1>5. after \in Halfway(p, open) => after.open = open
  BY DEF Halfway, Project
<1>6. PICK c \in {open.from, open.tx}, l \in {p.log, Filed(p.log, open)} :
        \/ after = [p EXCEPT !.content = c, !.log = l, !.open = open]
        \/ after = [p EXCEPT !.content = c, !.log = Filed(p.log, open)]
  BY <1>3
<1>7. CASE after = [p EXCEPT !.content = c, !.log = l, !.open = open]
  <2>1. after.content = c /\ after.log = l /\ after.open = open /\ after \in Project
    BY <1>1, <1>2, <1>7 DEF Project
  <2>2. Recovered(after).log = Filed(l, open)
    BY <1>4, <2>1 DEF Recovered
  <2> QED
    BY <1>1, <1>4, <2>1, <2>2
<1>8. CASE after = [p EXCEPT !.content = c, !.log = Filed(p.log, open)]
  <2>1. after.log = Filed(p.log, open) /\ after.open = None /\ after \in Project
    BY <1>1, <1>2, <1>8 DEF Project
  <2> QED
    BY <1>4, <1>5, <2>1 DEF Recovered
<1> QED
  BY <1>6, <1>7, <1>8

\* What undo and redo take up is in the journal.
LEMMA TakenUp ==
  ASSUME NEW p \in Project, NEW goal \in {"undo", "redo"}, NEW i \in Reversible(p, goal)
  PROVE  /\ Entry(p, i, goal) \in Open
         /\ HasTx(p.log, Entry(p, i, goal).tx)
         /\ Filed(p.log, Entry(p, i, goal)) = Mark(p.log, p.log[i].tx, goal # "undo")
<1>1. i \in DOMAIN p.log
  BY DEF Reversible, TopDone, NextUndone
<1>2. p.log[i] \in Logged
  BY <1>1, ElementOfSeq, LenProperties DEF Project
<1>3. Entry(p, i, goal) \in Open /\ Entry(p, i, goal).tx = p.log[i].tx
      /\ Entry(p, i, goal).goal = goal
  BY <1>2 DEF Entry, Open, Logged
<1>4. HasTx(p.log, Entry(p, i, goal).tx)
  BY <1>1, <1>3 DEF HasTx
<1> QED
  BY <1>3, <1>4 DEF Filed

-----------------------------------------------------------------------------
(* Types.                                                                  *)

Phases == {"idle", "reviewing", "applied", "pending", "rejected"}

LEMMA Types ==
  ASSUME TypeOK
  PROVE  /\ project \in [Roots -> Project] /\ session \in Session
         /\ \A r \in Roots : Settle(project[r]) \in Project
         /\ Settle(project[Home]) \in Project
BY SettledProject, HomeAssumption DEF TypeOK, SessionTypeOK, Project

LEMMA ClearedSession ==
  ASSUME session \in Session, NEW phase \in Phases
  PROVE  /\ Cleared(phase) \in Session
         /\ Cleared(phase).phase = phase /\ Cleared(phase).recovering = FALSE
         /\ Cleared(phase).proposal = None
         /\ Cleared(phase).applied = session.applied
         /\ \A proposal \in Proposal :
              /\ [Cleared(phase) EXCEPT !.proposal = proposal] \in Session
              /\ [Cleared(phase) EXCEPT !.proposal = proposal].phase = phase
              /\ [Cleared(phase) EXCEPT !.proposal = proposal].recovering = FALSE
              /\ [Cleared(phase) EXCEPT !.proposal = proposal].proposal = proposal
              /\ [Cleared(phase) EXCEPT !.proposal = proposal].applied = session.applied
BY DEF Cleared, Session, Phases

LEMMA SupersedeType ==
  ASSUME staging \in [Preps -> Staging \cup {None}], Supersede
  PROVE  /\ staging' \in [Preps -> Staging \cup {None}]
         /\ \A p \in Preps : staging[p] # None =>
              staging'[p] = [staging[p] EXCEPT !.superseded = @ \/ p \notin detached]
<1>1. \A p \in Preps : staging[p] # None =>
        /\ [staging[p] EXCEPT !.superseded = TRUE] \in Staging
        /\ p \notin detached =>
             [staging[p] EXCEPT !.superseded = TRUE]
               = [staging[p] EXCEPT !.superseded = @ \/ p \notin detached]
        /\ p \in detached =>
             staging[p] = [staging[p] EXCEPT !.superseded = @ \/ p \notin detached]
  BY DEF Staging
<1> QED
  BY <1>1 DEF Supersede

LEMMA ProposeEffect ==
  ASSUME TypeOK, NEW r \in Roots, NEW mark \in Preps \cup {None}, ProposeEdit(r, mark)
  PROVE  /\ project' \in [Roots -> Project]
         /\ \/ UNCHANGED <<session, staging>>
            \/ session' = Cleared("idle") /\ Supersede
            \/ /\ ~Reviewing /\ Supersede
               /\ \E proposal \in Proposal :
                    /\ proposal.root = r /\ proposal.prep = mark
                    /\ session' = [Cleared("reviewing") EXCEPT !.proposal = proposal]
<1>1. project' \in [Roots -> Project]
  BY Types DEF ProposeEdit
<1> DEFINE proposal == [root |-> r, base |-> project'[r].content, prep |-> mark]
<1>2. proposal \in Proposal /\ proposal.root = r /\ proposal.prep = mark
  BY <1>1 DEF Proposal, Project
<1> QED
  BY <1>1, <1>2 DEF ProposeEdit, Clear, Install

LEMMA ProposeType ==
  ASSUME TypeOK, NEW r \in Roots, NEW mark \in Preps \cup {None}, ProposeEdit(r, mark)
  PROVE  session' \in Session /\ staging' \in [Preps -> Staging \cup {None}]
<1>1. staging \in [Preps -> Staging \cup {None}] /\ session \in Session
  BY DEF TypeOK, SessionTypeOK
<1>2. CASE UNCHANGED <<session, staging>>
  BY <1>1, <1>2
<1>3. CASE session' = Cleared("idle") /\ Supersede
  BY <1>1, <1>3, ClearedSession, SupersedeType DEF Phases
<1>4. CASE /\ Supersede
           /\ \E proposal \in Proposal :
                session' = [Cleared("reviewing") EXCEPT !.proposal = proposal]
  <2>1. "reviewing" \in Phases
    BY DEF Phases
  <2> QED
    BY <1>1, <1>4, <2>1, ClearedSession, SupersedeType
<1> QED
  BY <1>2, <1>3, <1>4, ProposeEffect

\* A project that is left open is a trouble.
LEMMA LeaveType ==
  ASSUME TypeOK, NEW r \in Roots, NEW after \in Project, Leave(r, after)
  PROVE  project' \in [Roots -> Project] /\ troubles' \in 0..MaxTroubles
<1>1. project' \in [Roots -> Project]
  BY Types DEF Leave
<1>2. troubles \in Nat /\ troubles <= MaxTroubles
  BY BoundsAssumption DEF TypeOK, SessionTypeOK
<1>3. troubles' \in 0..MaxTroubles
  BY <1>2, BoundsAssumption DEF Leave
<1> QED
  BY <1>1, <1>3

-----------------------------------------------------------------------------
(* What an operation may do to a project.                                  *)

\* Nothing but recovery, an apply, or an undo or redo.
Quiet(r, after) ==
  /\ Recovered(after).log = LogOf(r)
  /\ after.open \in {None, project[r].open}

Begun(r) == [tx |-> nextTx, from |-> Settle(project[r]).content, goal |-> "apply"]
Applies(r, after) ==
  /\ Settle(project[r]).open = None
  /\ nextTx \in Txs
  /\ Recovered(after).log = Append(LogOf(r), [tx |-> nextTx, from |-> Begun(r).from, done |-> TRUE])
  /\ after.open \in {None, Begun(r)}

Reverses(r, goal, after) ==
  /\ Settle(project[r]).open = None
  /\ \E i \in Reversible(Recovered(project[r]), goal) :
       /\ Recovered(after).log = Mark(LogOf(r), LogOf(r)[i].tx, goal # "undo")
       /\ after.open \in {None, Entry(Recovered(project[r]), i, goal)}

LEMMA SettlesQuietly ==
  ASSUME TypeOK, NEW r \in Roots
  PROVE  Settle(project[r]) \in Project /\ Quiet(r, Settle(project[r]))
<1>1. project[r] \in Project
  BY Types
<1> QED
  BY <1>1, SettledProject DEF Quiet, LogOf

LEMMA AppliesWhenCarried ==
  ASSUME TypeOK, LogsOK, NEW r \in Roots, Settle(project[r]).open = None, nextTx \in Txs,
         NEW after \in Through(Settle(project[r]), Begun(r))
                         \cup Halfway(Settle(project[r]), Begun(r))
  PROVE  /\ after \in Project /\ Applies(r, after)
         /\ after \in Halfway(Settle(project[r]), Begun(r)) => after.open = Begun(r)
<1> DEFINE q == Settle(project[r])
           open == Begun(r)
<1>1. project[r] \in Project /\ q \in Project /\ q = Recovered(project[r])
  BY Types, SettledProject
<1>2. open \in Open /\ open.goal # "undo" /\ open.tx = nextTx
  BY <1>1 DEF Begun, Open, Project
<1>3. /\ after \in Project /\ after.open \in {None, open}
      /\ Recovered(after).log = Filed(q.log, open)
      /\ after \in Halfway(q, open) => after.open = open
      /\ after.open = None => after.log = Filed(q.log, open)
  BY <1>1, <1>2, Carried
<1>4. q.log \in Seq(Logged) /\ q.log = LogOf(r)
  BY <1>1 DEF Project, LogOf
<1>5. ~HasTx(q.log, nextTx)
  <2>1. \A i \in DOMAIN q.log : q.log[i].tx < nextTx /\ q.log[i].tx \in Nat
    BY <1>4, LogRows DEF LogsOK, LogOK
  <2> QED
    BY <2>1 DEF HasTx, Txs
<1>6. Filed(q.log, open) = Append(LogOf(r), [tx |-> nextTx, from |-> open.from, done |-> TRUE])
  BY <1>2, <1>4, <1>5, FiledLog
<1> QED
  BY <1>3, <1>6 DEF Applies

LEMMA ReversesWhenCarried ==
  ASSUME TypeOK, NEW r \in Roots, NEW goal \in {"undo", "redo"},
         Settle(project[r]).open = None,
         NEW i \in Reversible(Settle(project[r]), goal),
         NEW after \in Through(Settle(project[r]), Entry(Settle(project[r]), i, goal))
                         \cup Halfway(Settle(project[r]), Entry(Settle(project[r]), i, goal))
  PROVE  after \in Project /\ Reverses(r, goal, after)
<1> DEFINE q == Settle(project[r])
           open == Entry(q, i, goal)
<1>1. project[r] \in Project /\ q \in Project /\ q = Recovered(project[r])
  BY Types, SettledProject
<1>2. /\ open \in Open /\ HasTx(q.log, open.tx)
      /\ Filed(q.log, open) = Mark(q.log, q.log[i].tx, goal # "undo")
  BY <1>1, TakenUp
<1>3. /\ after \in Project /\ after.open \in {None, open}
      /\ Recovered(after).log = Filed(q.log, open)
  BY <1>1, <1>2, Carried
<1> QED
  BY <1>1, <1>2, <1>3 DEF Reverses, LogOf

\* What accept makes of the session.

Row(r, rejected) == [root |-> r, tx |-> nextTx, rejected |-> rejected]

AcceptRefused(r) ==
  /\ project' = [project EXCEPT ![r] = Settle(project[r])]
  /\ UNCHANGED <<nextTx, session, own, troubles, strayed>>

AcceptLeft(r) ==
  /\ nextTx' = nextTx + 1
  /\ own' = Append(own, Row(r, TRUE))
  /\ \E after \in Project :
       project' = [project EXCEPT ![r] = after] /\ Applies(r, after)
  /\ Strays("list") /\ UNCHANGED session

AcceptCarried(r) ==
  /\ nextTx' = nextTx + 1
  /\ own' = Append(own, Row(r, FALSE))
  /\ \E after \in Project :
       /\ project' = [project EXCEPT ![r] = after]
       /\ Applies(r, after)
       /\ after.open # None => session'.recovering
  /\ session'.pendingTx = nextTx /\ session'.proposal = session.proposal
  /\ \/ session'.phase = "applied" /\ session'.applied = Append(session.applied, r)
     \/ /\ session'.phase = "pending" /\ session'.recovering
        /\ session'.applied = session.applied
  /\ UNCHANGED strayed

AcceptMove(r) == AcceptRefused(r) \/ AcceptLeft(r) \/ AcceptCarried(r)

LEMMA AcceptEffect ==
  ASSUME TypeOK, SessionOK, LogsOK, Accept
  PROVE  /\ ~session.recovering /\ session.phase = "reviewing"
         /\ session.proposal \in Proposal /\ session.proposal.root \in Roots
         /\ UNCHANGED staging
         /\ session' \in Session /\ project' \in [Roots -> Project]
         /\ nextTx' \in 1..MaxTx + 1 /\ troubles' \in 0..MaxTroubles
         /\ AcceptMove(session.proposal.root)
<1>1. /\ ~session.recovering /\ session.phase = "reviewing" /\ session.proposal # None
      /\ UNCHANGED staging
  BY DEF Accept, Reviewing
<1>2. session \in Session /\ nextTx \in 1..MaxTx + 1 /\ troubles \in 0..MaxTroubles
      /\ session.applied \in Seq(Roots)
  BY DEF TypeOK, SessionTypeOK, Session
<1>3. session.proposal \in Proposal
  BY <1>1, <1>2 DEF Session
<1>4. PICK r \in Roots : r = session.proposal.root
  BY <1>3 DEF Proposal
<1> DEFINE q == Settle(project[r])
           open == Begun(r)
<1>5. /\ project \in [Roots -> Project] /\ q \in Project
  BY Types
<1>6. CASE AcceptRefused(r)
  BY <1>1, <1>2, <1>3, <1>4, <1>5, <1>6 DEF AcceptRefused, AcceptMove
<1>7. ASSUME q.open = None, nextTx <= MaxTx, nextTx' = nextTx + 1,
             NEW after \in Through(q, open) \cup Halfway(q, open), Leave(r, after)
      PROVE  /\ nextTx \in Txs /\ nextTx' \in 1..MaxTx + 1
             /\ after \in Project /\ Applies(r, after)
             /\ after \in Halfway(q, open) => after.open = open
             /\ project' \in [Roots -> Project] /\ troubles' \in 0..MaxTroubles
             /\ project' = [project EXCEPT ![r] = after]
  <2>1. nextTx \in Txs /\ nextTx' \in 1..MaxTx + 1
    BY <1>2, <1>7, BoundsAssumption DEF Txs
  <2>2. /\ after \in Project /\ Applies(r, after)
        /\ after \in Halfway(q, open) => after.open = open
    BY <1>7, <2>1, AppliesWhenCarried
  <2> QED
    BY <1>7, <2>1, <2>2, LeaveType DEF Leave
<1>8. CASE /\ q.open = None /\ nextTx <= MaxTx /\ nextTx' = nextTx + 1
           /\ own' = Append(own, Row(r, TRUE))
           /\ Leave(r, [q EXCEPT !.open = open])
           /\ Strays("list") /\ UNCHANGED session
  <2>1. PICK after : after = [q EXCEPT !.open = open]
    OBVIOUS
  <2>2. after \in Halfway(q, open)
    <3>1. after = [q EXCEPT !.content = open.from, !.open = open]
      BY <1>5, <2>1 DEF Begun, Project
    <3> QED
      BY <3>1 DEF Halfway
  <2>3. q.open = None /\ nextTx <= MaxTx /\ nextTx' = nextTx + 1 /\ Leave(r, after)
    BY <1>8, <2>1
  <2>4. /\ nextTx' \in 1..MaxTx + 1 /\ after \in Project /\ Applies(r, after)
        /\ project' \in [Roots -> Project] /\ troubles' \in 0..MaxTroubles
        /\ project' = [project EXCEPT ![r] = after]
    BY <1>7, <2>2, <2>3
  <2>5. AcceptLeft(r) /\ session' \in Session
    BY <1>2, <1>8, <2>4 DEF AcceptLeft
  <2> QED
    BY <1>1, <1>3, <1>4, <2>4, <2>5 DEF AcceptMove
<1>9. CASE /\ q.open = None /\ nextTx <= MaxTx /\ nextTx' = nextTx + 1
           /\ own' = Append(own, Row(r, FALSE))
           /\ \/ \E after \in Through(q, open), waits \in BOOLEAN :
                   /\ after.open # None => waits
                   /\ Leave(r, after)
                   /\ session' =
                        [session EXCEPT !.phase = "applied", !.pendingTx = nextTx,
                           !.recovering = waits,
                           !.applied = Append(@, r), !.started = TRUE]
              \/ \E after \in Halfway(q, open) :
                   /\ Leave(r, after)
                   /\ session' =
                        [session EXCEPT !.phase = "pending", !.pendingTx = nextTx,
                           !.recovering = TRUE]
           /\ UNCHANGED strayed
  <2>1. q.open = None /\ nextTx <= MaxTx /\ nextTx' = nextTx + 1
    BY <1>9, Zenon
  <2>2. PICK after \in Through(q, open) \cup Halfway(q, open), waits \in BOOLEAN :
          /\ after.open # None => waits
          /\ Leave(r, after)
          /\ \/ session' =
                  [session EXCEPT !.phase = "applied", !.pendingTx = nextTx,
                     !.recovering = waits,
                     !.applied = Append(@, r), !.started = TRUE]
             \/ /\ waits
                /\ session' =
                     [session EXCEPT !.phase = "pending", !.pendingTx = nextTx,
                        !.recovering = TRUE]
    BY <1>9
  <2>3. /\ nextTx \in Txs /\ nextTx' \in 1..MaxTx + 1
        /\ after \in Project /\ Applies(r, after)
        /\ project' \in [Roots -> Project] /\ troubles' \in 0..MaxTroubles
        /\ project' = [project EXCEPT ![r] = after]
    BY <1>7, <2>1, <2>2
  <2>4. Append(session.applied, r) \in Seq(Roots)
    BY <1>2, AppendProperties
  <2>5. /\ session' \in Session /\ session'.recovering = waits
        /\ session'.pendingTx = nextTx /\ session'.proposal = session.proposal
        /\ \/ session'.phase = "applied" /\ session'.applied = Append(session.applied, r)
           \/ /\ session'.phase = "pending" /\ session'.recovering
              /\ session'.applied = session.applied
    <3>1. CASE session' =
                  [session EXCEPT !.phase = "applied", !.pendingTx = nextTx,
                     !.recovering = waits,
                     !.applied = Append(@, r), !.started = TRUE]
      BY <1>2, <2>3, <2>4, <3>1 DEF Session
    <3>2. CASE /\ waits
               /\ session' =
                     [session EXCEPT !.phase = "pending", !.pendingTx = nextTx,
                        !.recovering = TRUE]
      BY <1>2, <2>3, <3>2 DEF Session
    <3> QED
      BY <2>2, <3>1, <3>2
  <2>6. AcceptCarried(r)
    BY <1>9, <2>2, <2>3, <2>5 DEF AcceptCarried
  <2> QED
    BY <1>1, <1>3, <1>4, <2>3, <2>5, <2>6 DEF AcceptMove
<1> QED
  BY <1>4, <1>6, <1>8, <1>9 DEF Accept, AcceptRefused, Begun, Row

\* What refreshRecovery makes of a session that waits for its last transaction.
Resolved(r) ==
  LET q == Settle(project[r])
      completed == \E i \in DOMAIN q.log : q.log[i].tx = session.pendingTx /\ q.log[i].done
  IN \/ q.open # None /\ session' = session
     \/ /\ q.open = None /\ completed
        /\ session'.phase = "applied" /\ ~session'.recovering
        /\ session'.proposal = session.proposal
        /\ session'.applied = IF session.phase = "pending" THEN Append(session.applied, r)
                              ELSE session.applied
     \/ /\ q.open = None /\ ~completed
        /\ session'.phase = "reviewing" /\ ~session'.recovering
        /\ session'.proposal = session.proposal
        /\ session'.applied = session.applied

LEMMA RefreshEffect ==
  ASSUME TypeOK, SessionOK, RefreshRecovery
  PROVE  LET r == session.proposal.root
         IN /\ session.recovering /\ session.proposal \in Proposal /\ r \in Roots
            /\ UNCHANGED <<nextTx, staging, troubles, own, strayed>>
            /\ project' = [project EXCEPT ![r] = Settle(project[r])]
            /\ session' \in Session /\ project' \in [Roots -> Project]
            /\ Resolved(r)
<1>1. /\ session \in Session /\ session.recovering /\ session.proposal \in Proposal
      /\ session.applied \in Seq(Roots)
  BY DEF RefreshRecovery, TypeOK, SessionTypeOK, SessionOK, Session
<1>2. PICK r \in Roots : r = session.proposal.root
  BY <1>1 DEF Proposal
<1> DEFINE q == Settle(project[r])
           completed == \E i \in DOMAIN q.log :
                          q.log[i].tx = session.pendingTx /\ q.log[i].done
<1>3. project \in [Roots -> Project] /\ q \in Project
  BY Types
<1>4. /\ project' = [project EXCEPT ![r] = q]
      /\ UNCHANGED <<nextTx, staging, troubles, own, strayed>>
  BY <1>2 DEF RefreshRecovery
<1>5. project' \in [Roots -> Project]
  BY <1>3, <1>4
<1>6. session' =
        CASE q.open # None -> session
          [] q.open = None /\ completed ->
               LET fresh == session.phase = "pending"
               IN [session EXCEPT
                     !.phase = "applied", !.recovering = FALSE, !.pendingTx = None,
                     !.applied = IF fresh THEN Append(@, r) ELSE @,
                     !.started = @ \/ fresh]
          [] q.open = None /\ ~completed ->
               [session EXCEPT !.phase = "reviewing", !.recovering = FALSE,
                               !.pendingTx = None]
  BY <1>2 DEF RefreshRecovery, IsDone
<1>7. session' \in Session /\ Resolved(r)
  <2>1. CASE q.open # None
    BY <1>1, <1>6, <2>1 DEF Resolved
  <2>2. CASE q.open = None /\ completed
    <3>1. PICK started \in BOOLEAN : started = (session.started \/ session.phase = "pending")
      OBVIOUS
    <3>2. PICK roots \in Seq(Roots) :
            roots = IF session.phase = "pending" THEN Append(session.applied, r)
                    ELSE session.applied
      BY <1>1, AppendProperties
    <3>3. session' = [session EXCEPT
                        !.phase = "applied", !.recovering = FALSE, !.pendingTx = None,
                        !.applied = roots, !.started = started]
      BY <1>6, <2>2, <3>1, <3>2
    <3>4. /\ session' \in Session
          /\ session'.phase = "applied" /\ ~session'.recovering
          /\ session'.proposal = session.proposal /\ session'.applied = roots
      BY <1>1, <3>3 DEF Session
    <3> QED
      BY <2>2, <3>2, <3>4 DEF Resolved
  <2>3. CASE q.open = None /\ ~completed
    <3>1. session' = [session EXCEPT !.phase = "reviewing", !.recovering = FALSE,
                                     !.pendingTx = None]
      BY <1>6, <2>3
    <3>2. /\ session' \in Session
          /\ session'.phase = "reviewing" /\ ~session'.recovering
          /\ session'.proposal = session.proposal /\ session'.applied = session.applied
      BY <1>1, <3>1 DEF Session
    <3> QED
      BY <2>3, <3>2 DEF Resolved
  <2> QED
    BY <2>1, <2>2, <2>3
<1> QED
  BY <1>1, <1>2, <1>4, <1>5, <1>7

LEMMA ReversalEffect ==
  ASSUME TypeOK, NEW r \in Roots, NEW goal \in {"undo", "redo"}, NEW success,
         Reversal(r, goal, success)
  PROVE  /\ project' \in [Roots -> Project] /\ troubles' \in 0..MaxTroubles
         /\ \E after \in Project :
              /\ project' = [project EXCEPT ![r] = after]
              /\ \/ Quiet(r, after) /\ UNCHANGED <<session, staging, strayed>>
                 \/ /\ Reverses(r, goal, after)
                    /\ \/ /\ session' = success /\ Supersede
                          /\ IF session.recovering THEN Strays("pending")
                             ELSE IF goal = "redo" THEN Strays("list")
                                  ELSE UNCHANGED strayed
                       \/ Strays("list") /\ UNCHANGED <<session, staging>>
<1> DEFINE q == Settle(project[r])
<1>1. q \in Project /\ Quiet(r, q) /\ project \in [Roots -> Project]
  BY Types, SettlesQuietly
<1>2. CASE project' = [project EXCEPT ![r] = q] /\ UNCHANGED <<session, staging, troubles, strayed>>
  BY <1>1, <1>2 DEF TypeOK, SessionTypeOK
<1>3. ASSUME q.open = None, NEW i \in Reversible(q, goal),
             NEW after \in Through(q, Entry(q, i, goal)) \cup Halfway(q, Entry(q, i, goal)),
             Leave(r, after),
             \/ /\ session' = success /\ Supersede
                /\ IF session.recovering THEN Strays("pending")
                   ELSE IF goal = "redo" THEN Strays("list") ELSE UNCHANGED strayed
             \/ Strays("list") /\ UNCHANGED <<session, staging>>
      PROVE  /\ project' \in [Roots -> Project] /\ troubles' \in 0..MaxTroubles
             /\ after \in Project /\ project' = [project EXCEPT ![r] = after]
             /\ Reverses(r, goal, after)
  <2>1. after \in Project /\ Reverses(r, goal, after)
    BY <1>3, ReversesWhenCarried
  <2> QED
    BY <1>3, <2>1, LeaveType DEF Leave
<1> QED
  BY <1>1, <1>2, <1>3 DEF Reversal

LEMMA ElsewhereEffect ==
  ASSUME TypeOK, LogsOK, NEW r \in Roots, Elsewhere(r)
  PROVE  /\ project' \in [Roots -> Project] /\ troubles' \in 0..MaxTroubles
         /\ nextTx' \in 1..MaxTx + 1
         /\ \E after \in Project :
              /\ project' = [project EXCEPT ![r] = after]
              /\ \/ Quiet(r, after) /\ UNCHANGED <<nextTx, strayed>>
                 \/ Applies(r, after) /\ nextTx' = nextTx + 1 /\ Strays("list")
                 \/ Reverses(r, "undo", after) /\ Strays("list") /\ UNCHANGED nextTx
<1> DEFINE q == Settle(project[r])
<1>1. /\ q \in Project /\ Quiet(r, q)
      /\ project \in [Roots -> Project] /\ project[r] \in Project
      /\ nextTx \in 1..MaxTx + 1
  BY Types, SettlesQuietly DEF TypeOK, SessionTypeOK
<1>2. troubles' \in 0..MaxTroubles
  BY BoundsAssumption DEF Elsewhere, TypeOK, SessionTypeOK
<1>3. CASE /\ q.open = None /\ nextTx <= MaxTx
           /\ \E after \in Through(q, Begun(r)) \cup Halfway(q, Begun(r)) :
                project' = [project EXCEPT ![r] = after]
           /\ nextTx' = nextTx + 1
           /\ Strays("list")
  <2>0. nextTx <= MaxTx /\ nextTx' = nextTx + 1
    BY <1>3, Zenon
  <2>1. nextTx \in Txs /\ nextTx' \in 1..MaxTx + 1
    BY <1>1, <2>0, BoundsAssumption DEF Txs
  <2>2. PICK after \in Through(q, Begun(r)) \cup Halfway(q, Begun(r)) :
          project' = [project EXCEPT ![r] = after]
    BY <1>3
  <2>3. q.open = None
    BY <1>3
  <2>4. after \in Project /\ Applies(r, after)
    BY <2>1, <2>2, <2>3, AppliesWhenCarried
  <2>5. project' \in [Roots -> Project]
    BY <1>1, <2>2, <2>4
  <2> QED
    BY <1>2, <1>3, <2>1, <2>2, <2>4, <2>5
<1>4. CASE /\ q.open = None
           /\ \E i \in TopDone(q) :
                /\ q.content = q.log[i].tx
                /\ \E after \in Through(q, Entry(q, i, "undo")) :
                     project' = [project EXCEPT ![r] = after]
           /\ Strays("list")
           /\ UNCHANGED nextTx
  <2>0. PICK i \in Reversible(q, "undo") :
          \E after \in Through(q, Entry(q, i, "undo")) :
            project' = [project EXCEPT ![r] = after]
    BY <1>4 DEF Reversible
  <2>1. PICK after \in Through(q, Entry(q, i, "undo")) \cup Halfway(q, Entry(q, i, "undo")) :
          project' = [project EXCEPT ![r] = after]
    BY <2>0
  <2>2. q.open = None
    BY <1>4
  <2>3. after \in Project /\ Reverses(r, "undo", after)
    BY <2>1, <2>2, ReversesWhenCarried
  <2>4. project' \in [Roots -> Project]
    BY <1>1, <2>1, <2>3
  <2> QED
    BY <1>1, <1>2, <1>4, <2>1, <2>3, <2>4
<1>5. CASE project' = [project EXCEPT ![r] = q] /\ UNCHANGED <<nextTx, strayed>>
  BY <1>1, <1>2, <1>5
<1>6. CASE project' = [project EXCEPT ![r].content = Foreign] /\ UNCHANGED <<nextTx, strayed>>
  <2> DEFINE after == [project[r] EXCEPT !.content = Foreign]
  <2>1. after \in Project /\ after.open = project[r].open /\ after.log = project[r].log
    BY <1>1, BoundsAssumption DEF Project, Foreign, Contents
  <2>2. Quiet(r, after)
    BY <2>1 DEF Quiet, LogOf, Recovered
  <2>3. project' = [project EXCEPT ![r] = after] /\ project' \in [Roots -> Project]
    BY <1>1, <1>6, <2>1
  <2> QED
    BY <1>1, <1>2, <1>6, <2>1, <2>2, <2>3
<1> QED
  BY <1>3, <1>4, <1>5, <1>6 DEF Elsewhere, Begun

\* What undo makes of the session.
Undone ==
  [Popped(session) EXCEPT !.phase = "idle", !.proposal = None,
     !.pendingTx = None, !.recovering = FALSE]

LEMMA UndoneSession ==
  ASSUME session \in Session
  PROVE  /\ Undone \in Session /\ Undone.phase = "idle" /\ ~Undone.recovering
         /\ Undone.proposal = None
         /\ session.applied = <<>> => Undone.applied = <<>>
         /\ session.applied # <<>> =>
              Undone.applied = SubSeq(session.applied, 1, Len(session.applied) - 1)
<1>1. session.applied \in Seq(Roots)
  BY DEF Session
<1>2. session.applied # <<>> =>
        SubSeq(session.applied, 1, Len(session.applied) - 1) \in Seq(Roots)
  BY <1>1, LenProperties, SubSeqProperties
<1>3. CASE session.applied = <<>>
  BY <1>3 DEF Undone, Popped, Session
<1>4. CASE session.applied # <<>>
  <2>1. PICK roots \in Seq(Roots) :
          roots = SubSeq(session.applied, 1, Len(session.applied) - 1)
    BY <1>2, <1>4
  <2>2. Undone = [session EXCEPT !.applied = roots, !.phase = "idle", !.proposal = None,
                    !.pendingTx = None, !.recovering = FALSE]
    BY <1>4, <2>1 DEF Undone, Popped, Session
  <2> QED
    BY <1>4, <2>1, <2>2 DEF Session
<1> QED
  BY <1>3, <1>4

LEMMA UndoRootsAreRoots ==
  ASSUME TypeOK
  PROVE  UndoRoots \subseteq Roots
<1>1. session.applied \in Seq(Roots)
  BY DEF TypeOK, SessionTypeOK, Session
<1>2. session.applied # <<>> => session.applied[Len(session.applied)] \in Roots
  BY <1>1, LenProperties, ElementOfSeq
<1> QED
  BY <1>2, HomeAssumption DEF UndoRoots

\* An undo or a redo, and what the session is when it succeeds.
UndoRedoMove(r, goal, after) ==
  \/ Quiet(r, after) /\ UNCHANGED <<session, staging, strayed>>
  \/ /\ Reverses(r, goal, after)
     /\ session'.phase = "idle" /\ ~session'.recovering /\ session'.proposal = None
     /\ \/ session.recovering /\ Strays("pending")
        \/ ~session.recovering /\ goal = "redo" /\ Strays("list")
        \/ /\ ~session.recovering /\ goal = "undo" /\ UNCHANGED strayed
           /\ r \in UndoRoots /\ session' = Undone
  \/ Reverses(r, goal, after) /\ Strays("list") /\ UNCHANGED <<session, staging>>

LEMMA UndoRedoEffect ==
  ASSUME TypeOK, Undo \/ Redo
  PROVE  /\ ~Reviewing /\ UNCHANGED <<nextTx, own>>
         /\ project' \in [Roots -> Project] /\ troubles' \in 0..MaxTroubles
         /\ session' \in Session /\ staging' \in [Preps -> Staging \cup {None}]
         /\ UNCHANGED staging \/ Supersede
         /\ \E r \in Roots, goal \in {"undo", "redo"}, after \in Project :
              /\ project' = [project EXCEPT ![r] = after]
              /\ UndoRedoMove(r, goal, after)
<1>1. /\ session \in Session /\ staging \in [Preps -> Staging \cup {None}]
  BY DEF TypeOK, SessionTypeOK
<1>2. /\ Cleared("idle") \in Session /\ Cleared("idle").phase = "idle"
      /\ ~Cleared("idle").recovering /\ Cleared("idle").proposal = None
  BY <1>1, ClearedSession DEF Phases
<1>3. PICK r \in Roots, goal \in {"undo", "redo"} :
        \/ goal = "undo" /\ r \in UndoRoots /\ Undo /\ Reversal(r, goal, Undone)
        \/ goal = "redo" /\ Redo /\ Reversal(r, goal, Cleared("idle"))
  BY UndoRootsAreRoots, HomeAssumption DEF Undo, Redo, Undone
<1>4. ~Reviewing /\ UNCHANGED <<nextTx, own>>
  BY DEF Undo, Redo
<1>5. PICK success :
        /\ Reversal(r, goal, success)
        /\ success \in Session /\ success.phase = "idle" /\ ~success.recovering
        /\ success.proposal = None
        /\ goal = "undo" => r \in UndoRoots /\ success = Undone
  BY <1>1, <1>2, <1>3, UndoneSession
<1>6. /\ project' \in [Roots -> Project] /\ troubles' \in 0..MaxTroubles
      /\ \E after \in Project :
              /\ project' = [project EXCEPT ![r] = after]
              /\ \/ Quiet(r, after) /\ UNCHANGED <<session, staging, strayed>>
                 \/ /\ Reverses(r, goal, after)
                    /\ \/ /\ session' = success /\ Supersede
                          /\ IF session.recovering THEN Strays("pending")
                             ELSE IF goal = "redo" THEN Strays("list")
                                  ELSE UNCHANGED strayed
                       \/ Strays("list") /\ UNCHANGED <<session, staging>>
  BY <1>5, ReversalEffect
<1>7. session' \in Session /\ (UNCHANGED staging \/ Supersede)
  BY <1>1, <1>5, <1>6
<1>8. staging' \in [Preps -> Staging \cup {None}]
  BY <1>1, <1>7, SupersedeType
<1>9. PICK after \in Project :
        /\ project' = [project EXCEPT ![r] = after]
        /\ \/ Quiet(r, after) /\ UNCHANGED <<session, staging, strayed>>
           \/ /\ Reverses(r, goal, after)
              /\ \/ /\ session' = success /\ Supersede
                    /\ IF session.recovering THEN Strays("pending")
                       ELSE IF goal = "redo" THEN Strays("list")
                            ELSE UNCHANGED strayed
                 \/ Strays("list") /\ UNCHANGED <<session, staging>>
  BY <1>6
<1>10. UndoRedoMove(r, goal, after)
  BY <1>5, <1>9 DEF UndoRedoMove
<1> QED
  BY <1>4, <1>6, <1>7, <1>8, <1>9, <1>10

\* A step of a staged review, and what it leaves staged.
LEMMA AdmitEffect ==
  ASSUME TypeOK, NEW p \in Preps, StageRead(p) \/ StageInstall(p)
  PROVE  /\ staging[p] # None
         /\ session' \in Session /\ staging' \in [Preps -> Staging \cup {None}]
         /\ \A q \in Preps : staging'[q] # None =>
              /\ staging[q] # None
              /\ staging[q].superseded => staging'[q].superseded
         /\ \/ UNCHANGED session
            \/ /\ p \notin aborted /\ ~staging[p].superseded
               /\ session'.phase = "reviewing" /\ ~session'.recovering
               /\ session'.proposal \in Proposal
               /\ session'.proposal.root = Home /\ session'.proposal.prep = p
               /\ session'.applied = session.applied
               /\ staging'[p] = None
               /\ \A q \in Preps : staging'[q] # None =>
                    staging'[q].superseded \/ q \in detached
<1>1. session \in Session /\ staging \in [Preps -> Staging \cup {None}]
      /\ project \in [Roots -> Project]
  BY Types DEF TypeOK, SessionTypeOK
<1>2. staging[p] # None /\ staging[p] \in Staging
  BY <1>1 DEF StageRead, StageInstall, Waits
<1>3. CASE StageRead(p)
  <2>1. UNCHANGED session
    BY <1>3 DEF StageRead
  <2>2. \/ staging' = [staging EXCEPT ![p] = None]
        \/ staging' = [staging EXCEPT ![p].at = "closing"]
    BY <1>3 DEF StageRead
  <2>3. [staging[p] EXCEPT !.at = "closing"] \in Staging
        /\ [staging[p] EXCEPT !.at = "closing"].superseded = staging[p].superseded
    BY <1>2 DEF Staging
  <2> QED
    BY <1>1, <1>2, <2>1, <2>2, <2>3
<1>4. CASE StageInstall(p)
  <2>1. CASE Stopped(p)
    <3>1. UNCHANGED session /\ staging' = [staging EXCEPT ![p] = None]
      BY <1>4, <2>1 DEF StageInstall
    <3> QED
      BY <1>1, <1>2, <3>1
  <2>2. CASE ~Stopped(p)
    <3>1. /\ session' = Prepared(p)
          /\ staging' = [q \in Preps |->
               IF q = p \/ staging[q] = None THEN None
               ELSE [staging[q] EXCEPT !.superseded = @ \/ q \notin detached]]
      BY <1>4, <2>2 DEF StageInstall
    <3>2. p \notin aborted /\ ~staging[p].superseded
      BY <2>2 DEF Stopped
    <3> DEFINE proposal == [root |-> Home, base |-> staging[p].base, prep |-> p]
    <3>3. proposal \in Proposal
      BY <1>2, HomeAssumption DEF Proposal, Staging
    <3>4. session' = [Cleared("reviewing") EXCEPT !.proposal = proposal]
      BY <3>1 DEF Prepared
    <3>5. /\ session' \in Session
          /\ session'.phase = "reviewing" /\ ~session'.recovering
          /\ session'.proposal = proposal /\ session'.applied = session.applied
      BY <1>1, <3>3, <3>4, ClearedSession DEF Phases
    <3>6. ASSUME NEW q \in Preps
          PROVE  /\ staging'[q] \in Staging \cup {None}
                 /\ staging'[q] # None =>
                      /\ staging[q] # None
                      /\ staging[q].superseded => staging'[q].superseded
                      /\ staging'[q].superseded \/ q \in detached
      <4>1. CASE q = p \/ staging[q] = None
        BY <3>1, <4>1
      <4>2. CASE ~(q = p \/ staging[q] = None)
        <5>1. staging[q] \in Staging
          BY <1>1, <4>2
        <5>2. PICK gone \in BOOLEAN : gone = (staging[q].superseded \/ q \notin detached)
          OBVIOUS
        <5>3. staging'[q] = [staging[q] EXCEPT !.superseded = gone]
          BY <3>1, <4>2, <5>2
        <5> QED
          BY <4>2, <5>1, <5>2, <5>3 DEF Staging
      <4> QED
        BY <4>1, <4>2
    <3>7. staging' \in [Preps -> Staging \cup {None}] /\ staging'[p] = None
      BY <3>1, <3>6
    <3> QED
      BY <1>2, <3>2, <3>3, <3>5, <3>6, <3>7
  <2> QED
    BY <2>1, <2>2
<1> QED
  BY <1>3, <1>4

\* TypeOK by parts.
TypedSession ==
  /\ project \in [Roots -> Project] /\ session \in Session
  /\ staging \in [Preps -> Staging \cup {None}]
  /\ nextTx \in 1..MaxTx + 1 /\ troubles \in 0..MaxTroubles
  /\ own \in Entries /\ strayed \in {"nothing", "list", "pending"}
TypedBridge ==
  /\ aborted \subseteq Preps /\ detached \subseteq Preps
  /\ preparation \in [Preps -> Preparation]
  /\ current \in Preps \cup {None}
  /\ pendingImport \in Proposal \cup {None}
  /\ closed \in BOOLEAN

LEMMA TypesByParts == TypeOK <=> TypedSession /\ TypedBridge
BY DEF TypeOK, SessionTypeOK, TypedSession, TypedBridge, Project, Entries

LEMMA TypeInit == Init => TypeOK
<1> SUFFICES ASSUME Init PROVE TypeOK
  OBVIOUS
<1>1. /\ 0 \in Contents /\ 1 \in Contents /\ 1 \in Txs
      /\ 1 \in 1..MaxTx + 1 /\ 2 \in 1..MaxTx + 1
  BY BoundsAssumption DEF Contents, Txs, Foreign
<1>1a. nextTx \in {1, 2}
  BY DEF Init, SessionInit
<1>2. <<>> \in Seq(Logged) /\ <<[tx |-> 1, from |-> 0, done |-> TRUE]>> \in Seq(Logged)
  BY <1>1 DEF Logged
<1>3. project \in [Roots -> Project]
  BY <1>1, <1>2 DEF Init, SessionInit, Project
<1>4. session \in Session
  BY DEF Init, SessionInit, NewSession, Session
<1>4a. own \in Entries /\ staging \in [Preps -> Staging \cup {None}]
       /\ troubles \in 0..MaxTroubles /\ strayed = "nothing"
  BY BoundsAssumption DEF Init, SessionInit, Entries
<1>5. TypedSession
  BY <1>1, <1>1a, <1>3, <1>4, <1>4a DEF TypedSession
<1>6. TypedBridge
  BY <1>1 DEF Init, SessionInit, TypedBridge, Preparation
<1> QED
  BY <1>5, <1>6, TypesByParts

LEMMA TypeStep ==
  ASSUME TypeOK, SessionOK, LogsOK, [Next]_vars
  PROVE  TypeOK'
<1> SUFFICES TypedSession' /\ TypedBridge'
  BY TypesByParts, PTL
<1>0. TypedSession /\ TypedBridge
  BY TypesByParts
<1>1. CASE UNCHANGED vars
  BY <1>0, <1>1 DEF vars, svars, bvars, TypedSession, TypedBridge
<1>2. session' \in Session => Reconciled \in Proposal \cup {None}
  BY <1>0 DEF Reconciled, Session, TypedBridge
<1>3. aborted \cup ({current} \ {None}) \subseteq Preps /\ None \in Preps \cup {None}
  BY <1>0 DEF TypedBridge
<1>4. CASE Propose
  <2>1. PICK r \in Roots : ProposeEdit(r, None)
    BY <1>4 DEF Propose
  <2>2. /\ project' \in [Roots -> Project] /\ session' \in Session
        /\ staging' \in [Preps -> Staging \cup {None}]
    BY <2>1, ProposeType, ProposeEffect
  <2> QED
    BY <1>0, <1>2, <1>4, <2>1, <2>2 DEF Propose, ProposeEdit, TypedSession, TypedBridge
<1>5. CASE ImportAsset
  <2>1. PICK p \in Preps :
          /\ ProposeEdit(Home, p)
          /\ preparation' = [preparation EXCEPT ![p].at = "over"]
          /\ pendingImport' = IF ~Reviewing /\ session'.phase = "reviewing"
                              THEN session'.proposal ELSE Reconciled
    BY <1>5 DEF ImportAsset
  <2>2. /\ project' \in [Roots -> Project] /\ session' \in Session
        /\ staging' \in [Preps -> Staging \cup {None}]
    BY <2>1, ProposeType, ProposeEffect, HomeAssumption
  <2>3. preparation' \in [Preps -> Preparation]
    BY <1>0, <2>1 DEF TypedBridge, Preparation
  <2>4. pendingImport' \in Proposal \cup {None}
    BY <1>2, <2>1, <2>2 DEF Session
  <2> QED
    BY <1>0, <1>5, <2>1, <2>2, <2>3, <2>4
       DEF ImportAsset, ProposeEdit, TypedSession, TypedBridge
<1>6. CASE AcceptOp
  <2>1. /\ UNCHANGED staging
        /\ session' \in Session /\ project' \in [Roots -> Project]
        /\ nextTx' \in 1..MaxTx + 1 /\ troubles' \in 0..MaxTroubles
        /\ session.proposal.root \in Roots /\ AcceptMove(session.proposal.root)
    BY <1>6, AcceptEffect DEF AcceptOp
  <2>2. strayed' \in {strayed, "list"}
    BY <2>1 DEF AcceptMove, AcceptRefused, AcceptLeft, AcceptCarried, Strays
  <2>3. own' \in Entries
    <3>1. UNCHANGED own \/ \E rejected \in BOOLEAN :
            nextTx \in Txs /\ own' = Append(own, Row(session.proposal.root, rejected))
      BY <2>1 DEF AcceptMove, AcceptRefused, AcceptLeft, AcceptCarried, Applies
    <3>2. \A rejected \in BOOLEAN :
            nextTx \in Txs => Row(session.proposal.root, rejected) \in Began
      BY <2>1 DEF Row, Began
    <3> QED
      BY <1>0, <3>1, <3>2, AppendProperties DEF TypedSession, Entries
  <2>4. pendingImport' \in Proposal \cup {None}
    BY <1>0, <1>2, <1>6, <2>1 DEF AcceptOp, Materialize, TypedBridge
  <2> QED
    BY <1>0, <1>6, <2>1, <2>2, <2>3, <2>4 DEF AcceptOp, TypedSession, TypedBridge
<1>7. CASE RecoverOp
  <2>1. /\ UNCHANGED <<nextTx, staging, troubles, own, strayed>>
        /\ session' \in Session /\ project' \in [Roots -> Project]
    BY <1>7, RefreshEffect DEF RecoverOp
  <2>2. pendingImport' \in Proposal \cup {None}
    BY <1>0, <1>2, <1>7, <2>1 DEF RecoverOp, Materialize, TypedBridge
  <2> QED
    BY <1>0, <1>7, <2>1, <2>2 DEF RecoverOp, TypedSession, TypedBridge
<1>8. CASE RejectOp
  <2>1. session' \in Session /\ staging' \in [Preps -> Staging \cup {None}]
    BY <1>0, <1>8, ClearedSession, SupersedeType
       DEF RejectOp, Reject, Clear, TypedSession, Phases
  <2> QED
    BY <1>0, <1>2, <1>3, <1>8, <2>1
       DEF RejectOp, RetirePreparation, Reject, TypedSession, TypedBridge
<1>9. CASE UndoRedoOp
  <2>1. /\ UNCHANGED <<nextTx, own>>
        /\ project' \in [Roots -> Project] /\ troubles' \in 0..MaxTroubles
        /\ session' \in Session /\ staging' \in [Preps -> Staging \cup {None}]
        /\ strayed' \in {strayed, "list", "pending"}
    BY <1>9, UndoRedoEffect DEF UndoRedoOp, UndoRedoMove, Strays
  <2> QED
    BY <1>0, <1>9, <2>1 DEF UndoRedoOp, TypedSession, TypedBridge
<1>10. CASE Replace
  <2>1. NewSession \in Session /\ <<>> \in Entries
    BY DEF NewSession, Session, Entries
  <2>2. session' \in Session /\ own' \in Entries /\ strayed' \in {strayed, "nothing"}
        /\ detached' \subseteq Preps
    BY <1>0, <1>10, <2>1 DEF Replace, TypedSession, TypedBridge
  <2> QED
    BY <1>0, <1>3, <1>10, <2>2 DEF Replace, RetirePreparation, TypedSession, TypedBridge
<1>11. CASE Cancel
  BY <1>0, <1>3, <1>11 DEF Cancel, RetirePreparation, TypedSession, TypedBridge
<1>12. ASSUME NEW p \in Preps, ImportReplayed(p) \/ Prepare(p) \/ WorkerReads(p)
       PROVE  TypedSession' /\ TypedBridge'
  <2>1. project[Home].content \in Contents
    BY <1>0, HomeAssumption DEF TypedSession, Project
  <2> QED
    BY <1>0, <1>12, <2>1
       DEF ImportReplayed, Prepare, WorkerReads, svars, TypedSession, TypedBridge, Preparation
<1>13. ASSUME NEW p \in Preps, Over(p)
       PROVE  /\ preparation' \in [Preps -> Preparation] /\ current' \in Preps \cup {None}
              /\ aborted' \subseteq Preps /\ detached' \subseteq Preps
  <2>1. [at |-> "over", base |-> 0] \in Preparation
    BY BoundsAssumption DEF Preparation, Contents, Foreign
  <2> QED
    BY <1>0, <1>13, <2>1 DEF Over, TypedBridge
<1>14. ASSUME NEW p \in Preps, WorkerRefused(p) PROVE TypedSession' /\ TypedBridge'
  BY <1>0, <1>13, <1>14 DEF WorkerRefused, TypedSession, TypedBridge
<1>15. ASSUME NEW p \in Preps, WorkerAnswers(p) PROVE TypedSession' /\ TypedBridge'
  <2>1. staging' \in [Preps -> Staging \cup {None}]
    BY <1>0, <1>15 DEF WorkerAnswers, Stage, Staging, TypedSession, TypedBridge, Preparation
  <2>2. /\ preparation' \in [Preps -> Preparation] /\ current' \in Preps \cup {None}
        /\ aborted' \subseteq Preps /\ detached' \subseteq Preps
    BY <1>0, <1>13, <1>15 DEF WorkerAnswers, TypedBridge, Preparation
  <2> QED
    BY <1>0, <1>15, <2>1, <2>2 DEF WorkerAnswers, TypedSession, TypedBridge
<1>16. ASSUME NEW p \in Preps, Admit(p) PROVE TypedSession' /\ TypedBridge'
  <2>1. session' \in Session /\ staging' \in [Preps -> Staging \cup {None}]
    BY <1>16, AdmitEffect DEF Admit
  <2>2. /\ preparation' \in [Preps -> Preparation] /\ current' \in Preps \cup {None}
        /\ aborted' \subseteq Preps /\ detached' \subseteq Preps
    BY <1>0, <1>13, <1>16 DEF Admit, TypedBridge
  <2>3. pendingImport' \in Proposal \cup {None}
    BY <1>0, <1>16, <2>1 DEF Admit, Session, TypedBridge
  <2> QED
    BY <1>0, <1>16, <2>1, <2>2, <2>3 DEF Admit, TypedSession, TypedBridge
<1>17. ASSUME NEW r \in Roots, Elsewhere(r) PROVE TypedSession' /\ TypedBridge'
  <2>1. /\ project' \in [Roots -> Project] /\ troubles' \in 0..MaxTroubles
        /\ nextTx' \in 1..MaxTx + 1 /\ strayed' \in {strayed, "list", "pending"}
    BY <1>0, <1>17, ElsewhereEffect DEF Strays, TypedSession
  <2> QED
    BY <1>0, <1>17, <2>1 DEF Elsewhere, bvars, TypedSession, TypedBridge
<1> QED
  BY <1>1, <1>4, <1>5, <1>6, <1>7, <1>8, <1>9, <1>10, <1>11, <1>12, <1>14, <1>15, <1>16, <1>17
     DEF Next

-----------------------------------------------------------------------------
(* Preparations.                                                           *)

LEMMA SupersedeHoldsOff ==
  ASSUME staging \in [Preps -> Staging \cup {None}], Supersede
  PROVE  \A p \in Preps : staging'[p] # None =>
           staging[p] # None /\ (p \in detached \/ staging'[p].superseded)
BY DEF Supersede, Staging

LEMMA PreparationsStep ==
  ASSUME TypeOK, PreparationsOK, [Next]_vars
  PROVE  PreparationsOK'
<1>0. /\ preparation \in [Preps -> Preparation] /\ staging \in [Preps -> Staging \cup {None}]
      /\ detached \subseteq Preps /\ aborted \subseteq Preps /\ None \notin Preps
      /\ current \in Preps \cup {None} /\ session \in Session
  BY NoneAssumption DEF TypeOK, SessionTypeOK
<1>1. CASE UNCHANGED vars
  BY <1>1 DEF vars, svars, bvars, PreparationsOK, UnderWay
<1>2. ASSUME \A p \in Preps : staging'[p] # None => staging[p] # None,
             UNCHANGED <<preparation, current, aborted, detached>>
      PROVE  PreparationsOK'
  BY <1>2 DEF PreparationsOK, UnderWay
<1>3. ASSUME UNCHANGED staging \/ Supersede
      PROVE  \A p \in Preps : staging'[p] # None => staging[p] # None
  BY <1>0, <1>3, SupersedeHoldsOff
<1>4. CASE Propose
  BY <1>2, <1>3, <1>4 DEF Propose, ProposeEdit, Clear, Install
<1>5. CASE ImportAsset
  <2>1. PICK p \in Preps :
          /\ preparation[p].at = "unused" /\ ProposeEdit(Home, p)
          /\ preparation' = [preparation EXCEPT ![p].at = "over"]
    BY <1>5 DEF ImportAsset
  <2>2. \A q \in Preps : staging'[q] # None => staging[q] # None
    BY <1>3, <2>1 DEF ProposeEdit, Clear, Install
  <2>3. UNCHANGED <<current, aborted, detached>>
    BY <1>5 DEF ImportAsset
  <2>4. \A q \in Preps : q # p => preparation'[q] = preparation[q]
    BY <1>0, <2>1
  <2>5. preparation'[p].at = "over"
    BY <1>0, <2>1 DEF Preparation
  <2> QED
    BY <2>1, <2>2, <2>3, <2>4, <2>5 DEF PreparationsOK, UnderWay
<1>6. CASE AcceptOp
  BY <1>2, <1>6 DEF AcceptOp, Accept
<1>7. CASE RecoverOp
  BY <1>2, <1>7 DEF RecoverOp, RefreshRecovery
<1>8. CASE RejectOp
  <2>1. \A q \in Preps : staging'[q] # None => staging[q] # None
    BY <1>3, <1>8 DEF RejectOp, Reject, Clear
  <2> QED
    BY <1>0, <1>8, <2>1 DEF RejectOp, RetirePreparation, PreparationsOK, UnderWay
<1>9. CASE UndoRedoOp
  BY <1>2, <1>3, <1>9, UndoRedoEffect DEF UndoRedoOp
<1>10. CASE Replace
  BY <1>0, <1>10 DEF Replace, RetirePreparation, PreparationsOK, UnderWay
<1>11. CASE Cancel
  BY <1>0, <1>11 DEF Cancel, RetirePreparation, PreparationsOK, UnderWay
<1>12. ASSUME NEW p \in Preps, ImportReplayed(p) \/ Prepare(p) PROVE PreparationsOK'
  BY <1>0, <1>12 DEF ImportReplayed, Prepare, svars, PreparationsOK, UnderWay, Preparation
<1>13. ASSUME NEW p \in Preps, WorkerReads(p) PROVE PreparationsOK'
  BY <1>0, <1>13 DEF WorkerReads, svars, PreparationsOK, UnderWay, Preparation
<1>14. ASSUME NEW p \in Preps, Over(p), staging'[p] = None,
              \A q \in Preps : staging'[q] # None => staging[q] # None
       PROVE  PreparationsOK'
  BY <1>0, <1>14 DEF Over, PreparationsOK, UnderWay, Preparation
<1>15. ASSUME NEW p \in Preps, WorkerRefused(p) PROVE PreparationsOK'
  <2>1. staging'[p] = None
    BY <1>15 DEF WorkerRefused, PreparationsOK
  <2> QED
    BY <1>14, <1>15, <2>1 DEF WorkerRefused
<1>16. ASSUME NEW p \in Preps, WorkerAnswers(p) PROVE PreparationsOK'
  <2>1. CASE Refused
    <3>1. staging' = [staging EXCEPT ![p] = None] /\ Over(p)
      BY <1>16, <2>1 DEF WorkerAnswers, Stage
    <3> QED
      BY <1>0, <1>14, <3>1
  <2>2. CASE ~Refused
    <3>1. /\ staging' = [staging EXCEPT ![p] =
                           [at |-> "reading", base |-> preparation[p].base, superseded |-> FALSE]]
          /\ preparation' = [preparation EXCEPT ![p].at = "staging"]
          /\ UNCHANGED <<current, aborted, detached>> /\ preparation[p].at = "read"
      BY <1>16, <2>2 DEF WorkerAnswers, Stage
    <3> QED
      BY <1>0, <3>1 DEF PreparationsOK, UnderWay, Preparation
  <2> QED
    BY <2>1, <2>2
<1>17. ASSUME NEW p \in Preps, Admit(p) PROVE PreparationsOK'
  <2>1. \A q \in Preps : staging'[q] # None => staging[q] # None
    BY <1>17, AdmitEffect DEF Admit
  <2>2. CASE staging'[p] = None
    BY <1>14, <1>17, <2>1, <2>2 DEF Admit
  <2>3. CASE staging'[p] # None
    BY <1>2, <1>17, <2>1, <2>3 DEF Admit
  <2> QED
    BY <2>2, <2>3
<1>18. ASSUME NEW r \in Roots, Elsewhere(r) PROVE PreparationsOK'
  BY <1>2, <1>18 DEF Elsewhere, bvars
<1> QED
  BY <1>1, <1>4, <1>5, <1>6, <1>7, <1>8, <1>9, <1>10, <1>11, <1>12, <1>13, <1>15, <1>16,
     <1>17, <1>18 DEF Next

LEMMA HeldOffStep ==
  ASSUME TypeOK, PreparationsOK, SessionOK, LogsOK, HeldOff, [Next]_vars
  PROVE  HeldOff'
<1>0. /\ staging \in [Preps -> Staging \cup {None}] /\ session \in Session
      /\ None \notin Preps
  BY NoneAssumption DEF TypeOK, SessionTypeOK
<1>1. CASE UNCHANGED vars
  BY <1>1 DEF vars, svars, bvars, HeldOff, Refused, Reviewing
<1>2. ASSUME UNCHANGED <<staging, detached>>, Refused' => Refused
      PROVE  HeldOff'
  BY <1>2 DEF HeldOff
<1>3. ASSUME Supersede, UNCHANGED detached
      PROVE  HeldOff'
  BY <1>0, <1>3, SupersedeHoldsOff DEF HeldOff
<1>4. ASSUME UNCHANGED <<session, staging>>, UNCHANGED detached
      PROVE  HeldOff'
  BY <1>2, <1>4 DEF Refused, Reviewing
<1>5. ASSUME NEW r \in Roots, NEW mark \in Preps \cup {None}, ProposeEdit(r, mark),
             UNCHANGED detached
      PROVE  HeldOff'
  BY <1>3, <1>4, <1>5, ProposeEffect
<1>6. CASE Propose
  BY <1>5, <1>6 DEF Propose
<1>7. CASE ImportAsset
  BY <1>5, <1>7, HomeAssumption DEF ImportAsset
<1>8. CASE AcceptOp
  BY <1>2, <1>8 DEF AcceptOp, Accept, Refused
<1>9. CASE RecoverOp
  BY <1>2, <1>9 DEF RecoverOp, RefreshRecovery, Refused
<1>10. CASE RejectOp
  <2>1. Supersede \/ UNCHANGED <<session, staging>>
    BY <1>10 DEF RejectOp, Reject, Clear
  <2> QED
    BY <1>3, <1>4, <1>10, <2>1 DEF RejectOp
<1>11. CASE UndoRedoOp
  <2>1. (UNCHANGED staging \/ Supersede) /\ UNCHANGED detached
    BY <1>11, UndoRedoEffect DEF UndoRedoOp
  <2>2. ~Refused' \/ UNCHANGED session
    BY <1>11, UndoRedoEffect DEF UndoRedoOp, UndoRedoMove, Refused, Reviewing
  <2> QED
    BY <1>2, <1>3, <2>1, <2>2 DEF Refused, Reviewing
<1>12. CASE Replace
  <2>1. CASE UNCHANGED <<session, detached>>
    BY <1>4, <1>12, <2>1 DEF Replace
  <2>2. CASE session' = NewSession
    <3>1. ~Refused'
      BY <2>2 DEF NewSession, Refused, Reviewing
    <3> QED
      BY <3>1 DEF HeldOff
  <2> QED
    BY <1>12, <2>1, <2>2 DEF Replace
<1>13. CASE Cancel
  BY <1>4, <1>13 DEF Cancel
<1>14. ASSUME NEW p \in Preps, ImportReplayed(p) \/ Prepare(p) \/ WorkerReads(p) PROVE HeldOff'
  BY <1>4, <1>14 DEF ImportReplayed, Prepare, WorkerReads, svars
<1>15. ASSUME NEW p \in Preps, Over(p), staging'[p] = None,
              \A q \in Preps : staging'[q] # None =>
                staging[q] # None /\ (staging[q].superseded => staging'[q].superseded),
              Refused' => Refused
       PROVE  HeldOff'
  BY <1>15 DEF Over, HeldOff
<1>16. ASSUME NEW p \in Preps, WorkerRefused(p) PROVE HeldOff'
  <2>1. staging'[p] = None
    BY <1>16 DEF WorkerRefused, PreparationsOK
  <2> QED
    BY <1>15, <1>16, <2>1 DEF WorkerRefused, Refused, Reviewing
<1>17. ASSUME NEW p \in Preps, WorkerAnswers(p) PROVE HeldOff'
  <2>1. Refused' <=> Refused
    BY <1>17 DEF WorkerAnswers, Refused, Reviewing
  <2>2. CASE Refused
    <3>1. staging' = [staging EXCEPT ![p] = None] /\ Over(p)
      BY <1>17, <2>2 DEF WorkerAnswers, Stage
    <3> QED
      BY <1>0, <1>15, <2>1, <3>1
  <2>3. CASE ~Refused
    BY <2>1, <2>3 DEF HeldOff
  <2> QED
    BY <2>2, <2>3
<1>18. ASSUME NEW p \in Preps, Admit(p) PROVE HeldOff'
  <2>1. /\ \A q \in Preps : staging'[q] # None =>
             staging[q] # None /\ (staging[q].superseded => staging'[q].superseded)
        /\ \/ UNCHANGED session
           \/ /\ staging'[p] = None
              /\ \A q \in Preps : staging'[q] # None =>
                   staging'[q].superseded \/ q \in detached
    BY <1>18, AdmitEffect DEF Admit
  <2>2. CASE UNCHANGED session
    <3>1. Refused' <=> Refused
      BY <2>2 DEF Refused, Reviewing
    <3>2. CASE staging'[p] = None
      BY <1>15, <1>18, <2>1, <3>1, <3>2 DEF Admit
    <3>3. CASE staging'[p] # None
      BY <1>18, <2>1, <3>1, <3>3 DEF Admit, HeldOff
    <3> QED
      BY <3>2, <3>3
  <2>3. CASE /\ staging'[p] = None
             /\ \A q \in Preps : staging'[q] # None =>
                  staging'[q].superseded \/ q \in detached
    BY <1>18, <2>3 DEF Admit, Over, HeldOff
  <2> QED
    BY <2>1, <2>2, <2>3
<1>19. ASSUME NEW r \in Roots, Elsewhere(r) PROVE HeldOff'
  BY <1>4, <1>19 DEF Elsewhere, bvars
<1> QED
  BY <1>1, <1>6, <1>7, <1>8, <1>9, <1>10, <1>11, <1>12, <1>13, <1>14, <1>16, <1>17, <1>18,
     <1>19 DEF Next

-----------------------------------------------------------------------------
(* The session.                                                            *)

LEMMA SessionStep ==
  ASSUME TypeOK, PreparationsOK, HeldOff, SessionOK, LogsOK, [Next]_vars
  PROVE  SessionOK'
<1>0. /\ session \in Session /\ own \in Entries /\ None \notin Preps
      /\ pendingImport # None => pendingImport.root = Home
  BY TypesByParts, NoneAssumption DEF TypedSession, SessionOK
<1>1. CASE UNCHANGED vars
  BY <1>1 DEF vars, svars, bvars, SessionOK
<1>2. ASSUME UNCHANGED <<session, own>>, pendingImport' \in {None, pendingImport}
      PROVE  SessionOK'
  BY <1>2 DEF SessionOK
<1>3. ASSUME ~session'.recovering, session'.phase # "pending",
             session'.phase = "reviewing" => session'.proposal # None,
             pendingImport' # None => pendingImport'.root = Home
      PROVE  SessionOK'
  BY <1>3 DEF SessionOK
<1>4. Reconciled \in {None, pendingImport}
  BY DEF Reconciled
<1>5. ASSUME Materialize PROVE pendingImport' \in {None, pendingImport}
  BY <1>4, <1>5 DEF Materialize
<1>6. ASSUME NEW r \in Roots, NEW mark \in Preps \cup {None}, ProposeEdit(r, mark)
      PROVE  \/ UNCHANGED <<session, own>>
             \/ /\ ~session'.recovering /\ session'.phase = "idle"
                /\ session'.proposal = None
             \/ /\ ~session'.recovering /\ session'.phase = "reviewing"
                /\ session'.proposal # None /\ session'.proposal.root = r
  <2>1. UNCHANGED own
    BY <1>6 DEF ProposeEdit
  <2>2. /\ Cleared("idle").phase = "idle" /\ ~Cleared("idle").recovering
        /\ Cleared("idle").proposal = None
    BY <1>0, ClearedSession DEF Phases
  <2>3. ASSUME NEW proposal \in Proposal
        PROVE  /\ proposal # None
               /\ [Cleared("reviewing") EXCEPT !.proposal = proposal].phase = "reviewing"
               /\ ~[Cleared("reviewing") EXCEPT !.proposal = proposal].recovering
               /\ [Cleared("reviewing") EXCEPT !.proposal = proposal].proposal = proposal
    BY <1>0, ClearedSession, NoneAssumption DEF Phases
  <2>4. \/ UNCHANGED session
        \/ session' = Cleared("idle")
        \/ \E proposal \in Proposal :
             /\ proposal.root = r
             /\ session' = [Cleared("reviewing") EXCEPT !.proposal = proposal]
    BY <1>6, ProposeEffect
  <2>5. CASE \E proposal \in Proposal :
               /\ proposal.root = r
               /\ session' = [Cleared("reviewing") EXCEPT !.proposal = proposal]
    BY <2>3, <2>5
  <2> QED
    BY <2>1, <2>2, <2>4, <2>5
<1>7. CASE Propose
  <2>1. PICK r \in Roots : ProposeEdit(r, None)
    BY <1>7 DEF Propose
  <2>2. pendingImport' \in {None, pendingImport}
    BY <1>4, <1>7 DEF Propose
  <2> QED
    BY <1>0, <1>2, <1>3, <1>6, <2>1, <2>2
<1>8. CASE ImportAsset
  <2>1. PICK p \in Preps : ProposeEdit(Home, p)
    BY <1>8 DEF ImportAsset
  <2>2. pendingImport' = IF ~Reviewing /\ session'.phase = "reviewing"
                         THEN session'.proposal ELSE Reconciled
    BY <1>8 DEF ImportAsset
  <2>4. UNCHANGED session => pendingImport' \in {None, pendingImport}
    BY <1>4, <2>2 DEF Reviewing, SessionOK
  <2>3. pendingImport' # None => pendingImport'.root = Home
    <3>1. pendingImport' = session'.proposal \/ pendingImport' \in {None, pendingImport}
      BY <1>4, <2>2
    <3> QED
      BY <1>0, <1>6, <2>1, <2>4, <3>1, HomeAssumption
  <2> QED
    BY <1>2, <1>3, <1>6, <2>1, <2>3, <2>4, HomeAssumption
<1>9. CASE AcceptOp
  <2>1. pendingImport' \in {None, pendingImport}
    BY <1>5, <1>9 DEF AcceptOp
  <2>2. /\ ~session.recovering /\ session.phase = "reviewing"
        /\ session.proposal \in Proposal /\ session.proposal.root \in Roots
        /\ AcceptMove(session.proposal.root)
    BY <1>9, AcceptEffect DEF AcceptOp
  <2>3. CASE AcceptRefused(session.proposal.root)
    BY <1>2, <2>1, <2>3 DEF AcceptRefused
  <2>4. CASE AcceptLeft(session.proposal.root)
    <3>1. session.proposal # None
      BY <2>2, NoneAssumption
    <3> QED
      BY <1>0, <1>3, <2>1, <2>2, <2>4, <3>1 DEF AcceptLeft
  <2>5. CASE AcceptCarried(session.proposal.root)
    <3>1. PICK entry \in Began :
            entry = Row(session.proposal.root, FALSE) /\ own' = Append(own, entry)
      BY <2>2, <2>5 DEF AcceptCarried, Applies, Row, Began
    <3>2. own' \in Entries /\ own' # <<>> /\ Len(own') = Len(own) + 1
          /\ own'[Len(own) + 1] = entry
      BY <1>0, <3>1, OneMoreRow
    <3>3. own'[Len(own')] = [root |-> session'.proposal.root, tx |-> session'.pendingTx,
                             rejected |-> FALSE]
      BY <2>5, <3>1, <3>2 DEF AcceptCarried, Row
    <3>4. /\ session'.proposal = session.proposal
          /\ session'.phase \in {"applied", "pending"}
          /\ session'.phase = "pending" => session'.recovering
      BY <2>5 DEF AcceptCarried
    <3>5. session'.proposal # None
      BY <2>2, <3>4, NoneAssumption
    <3> QED
      BY <1>0, <2>1, <3>2, <3>3, <3>4, <3>5 DEF SessionOK
  <2> QED
    BY <2>2, <2>3, <2>4, <2>5 DEF AcceptMove
<1>10. CASE RecoverOp
  <2>1. pendingImport' \in {None, pendingImport}
    BY <1>5, <1>10 DEF RecoverOp
  <2>2. session.recovering /\ UNCHANGED own /\ Resolved(session.proposal.root)
    BY <1>10, RefreshEffect DEF RecoverOp
  <2>3. \/ session' = session
        \/ /\ session'.phase \in {"applied", "reviewing"} /\ ~session'.recovering
           /\ session'.proposal = session.proposal
    BY <2>2 DEF Resolved
  <2>4. session.proposal # None
    BY <2>2 DEF SessionOK
  <2> QED
    BY <1>0, <1>2, <1>3, <2>1, <2>2, <2>3, <2>4
<1>11. CASE RejectOp
  <2>1. pendingImport' \in {None, pendingImport} /\ UNCHANGED own
    BY <1>4, <1>11 DEF RejectOp, Reject
  <2>2. /\ Cleared("rejected").phase = "rejected" /\ ~Cleared("rejected").recovering
    BY <1>0, ClearedSession DEF Phases
  <2>3. UNCHANGED session \/ session' = Cleared("rejected")
    BY <1>11 DEF RejectOp, Reject, Clear
  <2> QED
    BY <1>0, <1>2, <1>3, <2>1, <2>2, <2>3
<1>12. CASE UndoRedoOp
  <2>1. pendingImport' \in {None, pendingImport}
    BY <1>12 DEF UndoRedoOp
  <2>2. /\ UNCHANGED own
        /\ \/ UNCHANGED session
           \/ session'.phase = "idle" /\ ~session'.recovering
    BY <1>12, UndoRedoEffect DEF UndoRedoOp, UndoRedoMove
  <2> QED
    BY <1>0, <1>2, <1>3, <2>1, <2>2
<1>13. CASE Replace
  <2>1. CASE session' = NewSession /\ pendingImport' \in {None, pendingImport}
    BY <1>0, <1>3, <2>1 DEF NewSession
  <2>2. CASE UNCHANGED <<session, own, pendingImport>>
    BY <1>2, <2>2
  <2> QED
    BY <1>13, <2>1, <2>2 DEF Replace
<1>14. CASE Cancel
  BY <1>2, <1>14 DEF Cancel
<1>15. ASSUME NEW p \in Preps,
              \/ ImportReplayed(p) \/ Prepare(p) \/ WorkerReads(p)
              \/ WorkerRefused(p) \/ WorkerAnswers(p)
       PROVE  SessionOK'
  BY <1>2, <1>15 DEF ImportReplayed, Prepare, WorkerReads, WorkerRefused, WorkerAnswers, svars
<1>16. ASSUME NEW p \in Preps, Admit(p) PROVE SessionOK'
  <2>1. /\ UNCHANGED own
        /\ pendingImport' = IF session' # session THEN session'.proposal ELSE pendingImport
    BY <1>16 DEF Admit
  <2>2. \/ UNCHANGED session
        \/ /\ session'.phase = "reviewing" /\ ~session'.recovering
           /\ session'.proposal \in Proposal /\ session'.proposal.root = Home
    BY <1>16, AdmitEffect DEF Admit
  <2> QED
    BY <1>0, <1>2, <1>3, <2>1, <2>2, NoneAssumption
<1>17. ASSUME NEW r \in Roots, Elsewhere(r) PROVE SessionOK'
  BY <1>2, <1>17 DEF Elsewhere, bvars
<1> QED
  BY <1>1, <1>7, <1>8, <1>9, <1>10, <1>11, <1>12, <1>13, <1>14, <1>15, <1>16, <1>17 DEF Next

-----------------------------------------------------------------------------
(* The journals.                                                           *)

\* What a step does to the journal of one project and to the transactions of
\* the session.
JournalMove(r, after) ==
  \/ Quiet(r, after) /\ UNCHANGED nextTx /\ own' \in {own, <<>>}
  \/ /\ \E goal \in {"undo", "redo"} : Reverses(r, goal, after)
     /\ UNCHANGED <<nextTx, own>>
  \/ /\ Applies(r, after) /\ nextTx' = nextTx + 1
     /\ own' = own \/ \E rejected \in BOOLEAN : own' = Append(own, Row(r, rejected))

LEMMA JournalStep ==
  ASSUME TypeOK, SessionOK, LogsOK, [Next]_vars
  PROVE  \E r \in Roots, after \in Project :
           project' = [project EXCEPT ![r] = after] /\ JournalMove(r, after)
<1>0. project \in [Roots -> Project]
  BY Types
<1>1. ASSUME UNCHANGED <<project, nextTx>>, own' \in {own, <<>>}
      PROVE  \E r \in Roots, after \in Project :
               project' = [project EXCEPT ![r] = after] /\ JournalMove(r, after)
  <2>1. /\ project' = [project EXCEPT ![Home] = project[Home]] /\ project[Home] \in Project
    BY <1>0, <1>1, HomeAssumption
  <2>2. JournalMove(Home, project[Home])
    BY <1>1 DEF JournalMove, Quiet, LogOf
  <2> QED
    BY <2>1, <2>2, HomeAssumption
<1>2. ASSUME NEW r \in Roots, project' = [project EXCEPT ![r] = Settle(project[r])],
             UNCHANGED <<nextTx, own>>
      PROVE  \E s \in Roots, after \in Project :
               project' = [project EXCEPT ![s] = after] /\ JournalMove(s, after)
  BY <1>2, SettlesQuietly DEF JournalMove
<1>3. CASE UNCHANGED vars
  BY <1>1, <1>3 DEF vars, svars
<1>4. CASE Propose \/ ImportAsset
  <2>1. PICK r \in Roots : project' = [project EXCEPT ![r] = Settle(project[r])]
    BY <1>4, HomeAssumption DEF Propose, ImportAsset, ProposeEdit
  <2>2. UNCHANGED <<nextTx, own>>
    BY <1>4 DEF Propose, ImportAsset, ProposeEdit
  <2> QED
    BY <1>2, <2>1, <2>2
<1>5. CASE AcceptOp
  <2>1. PICK r \in Roots : AcceptMove(r)
    BY <1>5, AcceptEffect DEF AcceptOp
  <2>2. CASE AcceptRefused(r)
    BY <1>2, <2>2 DEF AcceptRefused
  <2>3. CASE AcceptLeft(r) \/ AcceptCarried(r)
    <3>1. /\ nextTx' = nextTx + 1
          /\ \E rejected \in BOOLEAN : own' = Append(own, Row(r, rejected))
          /\ \E after \in Project :
               project' = [project EXCEPT ![r] = after] /\ Applies(r, after)
      BY <2>3 DEF AcceptLeft, AcceptCarried
    <3> QED
      BY <3>1 DEF JournalMove
  <2> QED
    BY <2>1, <2>2, <2>3 DEF AcceptMove
<1>6. CASE RecoverOp
  <2>1. PICK r \in Roots : project' = [project EXCEPT ![r] = Settle(project[r])]
    BY <1>6, RefreshEffect DEF RecoverOp
  <2>2. UNCHANGED <<nextTx, own>>
    BY <1>6 DEF RecoverOp, RefreshRecovery
  <2> QED
    BY <1>2, <2>1, <2>2
<1>7. CASE RejectOp
  BY <1>1, <1>7 DEF RejectOp, Reject
<1>8. CASE UndoRedoOp
  <2>1. UNCHANGED <<nextTx, own>>
    BY <1>8, UndoRedoEffect DEF UndoRedoOp
  <2>2. PICK r \in Roots, goal \in {"undo", "redo"}, after \in Project :
          project' = [project EXCEPT ![r] = after] /\ UndoRedoMove(r, goal, after)
    BY <1>8, UndoRedoEffect DEF UndoRedoOp
  <2>3. JournalMove(r, after)
    BY <2>1, <2>2 DEF UndoRedoMove, JournalMove
  <2> QED
    BY <2>2, <2>3
<1>9. CASE Replace
  BY <1>1, <1>9 DEF Replace
<1>10. CASE Cancel
  BY <1>1, <1>10 DEF Cancel
<1>11. ASSUME NEW p \in Preps,
              \/ ImportReplayed(p) \/ Prepare(p) \/ WorkerReads(p)
              \/ WorkerRefused(p) \/ WorkerAnswers(p)
              \/ Admit(p)
       PROVE  UNCHANGED <<project, nextTx, own>>
  BY <1>11 DEF ImportReplayed, Prepare, WorkerReads, WorkerRefused, WorkerAnswers, Admit, svars
<1>12. ASSUME NEW r \in Roots, Elsewhere(r)
       PROVE  \E after \in Project :
                project' = [project EXCEPT ![r] = after] /\ JournalMove(r, after)
  <2>1. UNCHANGED own
    BY <1>12 DEF Elsewhere
  <2>2. PICK after \in Project :
          /\ project' = [project EXCEPT ![r] = after]
          /\ \/ Quiet(r, after) /\ UNCHANGED <<nextTx, strayed>>
             \/ Applies(r, after) /\ nextTx' = nextTx + 1 /\ Strays("list")
             \/ Reverses(r, "undo", after) /\ Strays("list") /\ UNCHANGED nextTx
    BY <1>12, ElsewhereEffect
  <2> QED
    BY <2>1, <2>2 DEF JournalMove
<1> QED
  BY <1>1, <1>3, <1>4, <1>5, <1>6, <1>7, <1>8, <1>9, <1>10, <1>11, <1>12 DEF Next

LEMMA LogOfMoves ==
  ASSUME project \in [Roots -> Project], NEW r \in Roots, NEW after \in Project,
         project' = [project EXCEPT ![r] = after]
  PROVE  /\ LogOf(r)' = Recovered(after).log
         /\ \A s \in Roots : s # r => LogOf(s)' = LogOf(s)
         /\ \A s \in Roots : LogOf(s) \in Seq(Logged) /\ LogOf(s)' \in Seq(Logged)
<1>1. project' \in [Roots -> Project]
  OBVIOUS
<1>2. \A p \in Project : Recovered(p).log \in Seq(Logged)
  BY SettledProject DEF Project
<1> QED
  BY <1>1, <1>2 DEF LogOf

\* A journal keeps its transactions, or one of the next number is added.
SameTxs(old, new) ==
  DOMAIN new = DOMAIN old /\ \A i \in DOMAIN old : new[i].tx = old[i].tx
OneMore(old, new, tx) ==
  /\ DOMAIN new = 1..(Len(old) + 1)
  /\ \A i \in DOMAIN old : new[i] = old[i]
  /\ new[Len(old) + 1].tx = tx /\ new[Len(old) + 1].done

LEMMA LogMoves ==
  ASSUME TypeOK, LogsOK, NEW r \in Roots, NEW after \in Project,
         project' = [project EXCEPT ![r] = after], JournalMove(r, after), NEW s \in Roots
  PROVE  \/ SameTxs(LogOf(s), LogOf(s)') /\ nextTx' \in {nextTx, nextTx + 1}
         \/ s = r /\ OneMore(LogOf(s), LogOf(s)', nextTx) /\ nextTx' = nextTx + 1
<1>1. project \in [Roots -> Project]
  BY Types
<1>2. PICK old \in Seq(Logged), new \in Seq(Logged) : old = LogOf(s) /\ new = LogOf(s)'
  BY <1>1, LogOfMoves
<1>3. nextTx' \in {nextTx, nextTx + 1}
  BY DEF JournalMove
<1>4. CASE s # r
  BY <1>1, <1>2, <1>3, <1>4, LogOfMoves DEF SameTxs
<1>5. CASE s = r
  <2>1. new = Recovered(after).log
    BY <1>1, <1>2, <1>5, LogOfMoves
  <2>2. CASE Quiet(r, after)
    BY <1>2, <1>3, <1>5, <2>1, <2>2 DEF Quiet, SameTxs
  <2>3. ASSUME NEW goal \in {"undo", "redo"}, Reverses(r, goal, after)
        PROVE  SameTxs(old, new)
    <3>1. PICK i \in Reversible(Recovered(project[r]), goal) :
            new = Mark(old, old[i].tx, goal # "undo")
      BY <1>2, <1>5, <2>1, <2>3 DEF Reverses
    <3>2. PICK done \in BOOLEAN : new = Mark(old, old[i].tx, done)
      BY <3>1
    <3> QED
      BY <1>2, <3>2, MarkedLog DEF SameTxs
  <2>4. CASE Applies(r, after) /\ nextTx' = nextTx + 1
    <3> DEFINE row == [tx |-> nextTx, from |-> Begun(r).from, done |-> TRUE]
    <3>1. new = Append(old, row) /\ nextTx \in Txs
      BY <1>2, <1>5, <2>1, <2>4 DEF Applies
    <3>2. Settle(project[r]) \in Project
      BY Types
    <3>3. row \in Logged
      BY <3>1, <3>2 DEF Logged, Begun, Project
    <3>4. OneMore(old, new, nextTx)
      BY <1>2, <3>1, <3>3, AppendProperties, LenProperties DEF OneMore
    <3> QED
      BY <1>2, <1>5, <2>4, <3>4
  <2> QED
    BY <1>2, <1>3, <2>2, <2>3, <2>4 DEF JournalMove
<1> QED
  BY <1>4, <1>5

\* An entry of the session's after a step is one of before, or the one applied.
LEMMA OwnMoves ==
  ASSUME TypeOK, NEW r \in Roots, NEW after \in Project, JournalMove(r, after)
  PROVE  \A k \in DOMAIN own' :
           \/ k \in DOMAIN own /\ own'[k] = own[k]
           \/ /\ k = Len(own) + 1 /\ nextTx' = nextTx + 1
              /\ own'[k].root = r /\ own'[k].tx = nextTx
              /\ own' = Append(own, Row(r, own'[k].rejected))
<1>1. own \in Seq(Began)
  BY DEF TypeOK, SessionTypeOK
<1>2. CASE own' = own \/ own' = <<>>
  BY <1>2
<1>3. ASSUME NEW rejected \in BOOLEAN, own' = Append(own, Row(r, rejected)),
             nextTx' = nextTx + 1, nextTx \in Txs
      PROVE  \A k \in DOMAIN own' :
               \/ k \in DOMAIN own /\ own'[k] = own[k]
               \/ /\ k = Len(own) + 1 /\ nextTx' = nextTx + 1
                  /\ own'[k].root = r /\ own'[k].tx = nextTx
                  /\ own' = Append(own, Row(r, own'[k].rejected))
  <2>1. PICK entry \in Began : entry = Row(r, rejected) /\ own' = Append(own, entry)
    BY <1>3 DEF Row, Began
  <2>2. entry.root = r /\ entry.tx = nextTx /\ entry.rejected = rejected
    BY <2>1 DEF Row
  <2> QED
    BY <1>1, <1>3, <2>1, <2>2, AppendProperties, LenProperties
<1> QED
  BY <1>2, <1>3 DEF JournalMove, Applies

LEMMA LogsStep ==
  ASSUME TypeOK, SessionOK, LogsOK, OwnOK, [Next]_vars
  PROVE  LogsOK' /\ OwnOK'
<1>1. PICK r \in Roots, after \in Project :
        project' = [project EXCEPT ![r] = after] /\ JournalMove(r, after)
  BY JournalStep
<1>2. own \in Entries /\ nextTx \in Nat /\ project \in [Roots -> Project]
  BY Types, BoundsAssumption DEF TypeOK, SessionTypeOK, Entries
<1>3. \A k \in DOMAIN own : own[k].tx \in Nat /\ k \in Nat /\ k <= Len(own)
  BY <1>2, OwnRows
<1>4. nextTx' \in {nextTx, nextTx + 1}
  BY <1>1 DEF JournalMove
<1>5. \A k \in DOMAIN own' :
        \/ k \in DOMAIN own /\ own'[k] = own[k]
        \/ /\ k = Len(own) + 1 /\ nextTx' = nextTx + 1
           /\ own'[k].root = r /\ own'[k].tx = nextTx
  BY <1>1, OwnMoves
<1>6. OwnOK'
  BY <1>2, <1>3, <1>4, <1>5, LenProperties DEF OwnOK, Entries
<1>7. ASSUME NEW s \in Roots PROVE LogOK(s)'
  <2>1. PICK old \in Seq(Logged), new \in Seq(Logged) : old = LogOf(s) /\ new = LogOf(s)'
    BY <1>1, <1>2, LogOfMoves
  <2>2. \/ SameTxs(old, new)
        \/ s = r /\ OneMore(old, new, nextTx) /\ nextTx' = nextTx + 1
    BY <1>1, <2>1, LogMoves
  <2>3. \A i \in DOMAIN old :
          /\ old[i].tx \in Nat /\ old[i].tx < nextTx /\ i \in 1..Len(old)
          /\ \A j \in DOMAIN old : i < j => old[i].tx < old[j].tx
          /\ \A k \in DOMAIN own : old[i].tx = own[k].tx => s = own[k].root
    BY <2>1, LogRows DEF LogsOK, LogOK
  <2>4. Len(old) \in Nat /\ DOMAIN old = 1..Len(old)
    BY LenProperties
  <2>5. \A i \in DOMAIN new :
          \/ i \in DOMAIN old /\ new[i].tx = old[i].tx
          \/ /\ i = Len(old) + 1 /\ i \notin DOMAIN old
             /\ s = r /\ new[i].tx = nextTx /\ nextTx' = nextTx + 1
    BY <2>2, <2>4 DEF SameTxs, OneMore
  <2>6. \A i, j \in DOMAIN new : i < j => new[i].tx < new[j].tx
    BY <1>2, <2>3, <2>4, <2>5
  <2>7. \A i \in DOMAIN new : new[i].tx < nextTx'
    BY <1>2, <1>4, <2>3, <2>5
  <2>8. \A i \in DOMAIN new : \A k \in DOMAIN own' :
          new[i].tx = own'[k].tx => s = own'[k].root
    BY <1>2, <1>3, <1>5, <2>3, <2>5 DEF OwnOK
  <2> QED
    BY <2>1, <2>6, <2>7, <2>8 DEF LogOK
<1> QED
  BY <1>6, <1>7 DEF LogsOK

-----------------------------------------------------------------------------
(* No apply is forgotten.                                                  *)

\* Entry k of the session's, whose apply waits for recovery.
IsWaiting(k) ==
  LET open == project[own[k].root].open
  IN ~own[k].rejected /\ open # None /\ open.tx = own[k].tx /\ open.goal = "apply"

\* No step leaves an old transaction of the session to be applied anew.
LEMMA NoneWaitsAnew ==
  ASSUME TypeOK, SessionOK, LogsOK, OwnOK, [Next]_vars,
         NEW k \in DOMAIN own, k \in DOMAIN own', own'[k] = own[k], IsWaiting(k)'
  PROVE  IsWaiting(k)
<1>1. PICK r \in Roots, after \in Project :
        project' = [project EXCEPT ![r] = after] /\ JournalMove(r, after)
  BY JournalStep
<1>2. project \in [Roots -> Project] /\ own[k].root \in Roots /\ own[k].tx < nextTx
      /\ own[k].tx \in Nat
  BY Types, OwnRows DEF TypeOK, SessionTypeOK, Entries, OwnOK
<1>3. PICK s \in Roots, tx \in Nat : s = own[k].root /\ tx = own[k].tx
  BY <1>2
<1>4. project'[s].open # None /\ project'[s].open.tx = tx /\ project'[s].open.goal = "apply"
  BY <1>3 DEF IsWaiting
<1>5. CASE s # r
  BY <1>1, <1>2, <1>3, <1>4, <1>5 DEF IsWaiting
<1>6. CASE s = r
  <2>1. project'[r] = after
    BY <1>1, <1>2
  <2>2. CASE Quiet(r, after)
    BY <1>3, <1>4, <1>6, <2>1, <2>2 DEF Quiet, IsWaiting
  <2>3. ASSUME NEW goal \in {"undo", "redo"}, Reverses(r, goal, after) PROVE FALSE
    BY <1>4, <1>6, <2>1, <2>3 DEF Reverses, Entry
  <2>4. CASE Applies(r, after)
    <3>1. tx = nextTx
      BY <1>4, <1>6, <2>1, <2>4 DEF Applies, Begun
    <3> QED
      BY <1>2, <1>3, <3>1
  <2> QED
    BY <1>1, <2>2, <2>3, <2>4 DEF JournalMove
<1> QED
  BY <1>5, <1>6

\* Who lets go of a session that waits.
LEMMA WaitingSession ==
  ASSUME TypeOK, PreparationsOK, HeldOff, SessionOK, LogsOK, [Next]_vars,
         session.recovering
  PROVE  \/ UNCHANGED <<session, own>>
         \/ own' = <<>>
         \/ strayed' = "pending"
         \/ /\ UNCHANGED own /\ project'[session.proposal.root].open = None
            /\ session.proposal.root \in Roots
<1>1. CASE UNCHANGED vars
  BY <1>1 DEF vars, svars
<1>2. ~(Propose \/ ImportAsset \/ AcceptOp)
  BY DEF Propose, ImportAsset, ProposeEdit, AcceptOp, Accept
<1>3. CASE RecoverOp
  <2>1. PICK r \in Roots :
          /\ r = session.proposal.root /\ UNCHANGED own /\ Resolved(r)
          /\ project' = [project EXCEPT ![r] = Settle(project[r])]
    BY <1>3, RefreshEffect DEF RecoverOp
  <2>2. project'[r] = Settle(project[r])
    BY <2>1, Types
  <2>3. session' = session \/ Settle(project[r]).open = None
    BY <2>1 DEF Resolved
  <2> QED
    BY <2>1, <2>2, <2>3
<1>4. CASE RejectOp
  BY <1>4 DEF RejectOp, Reject
<1>5. CASE UndoRedoOp
  BY <1>5, UndoRedoEffect DEF UndoRedoOp, UndoRedoMove, Strays
<1>6. CASE Replace
  BY <1>6 DEF Replace
<1>7. ASSUME NEW p \in Preps, Admit(p) PROVE UNCHANGED <<session, own>>
  <2>1. staging[p] # None /\ Refused
    BY <1>7, AdmitEffect DEF Admit, Refused
  <2>2. p \in aborted \/ staging[p].superseded
    BY <2>1 DEF HeldOff, PreparationsOK
  <2> QED
    BY <1>7, <2>2, AdmitEffect DEF Admit
<1>8. ASSUME \/ Cancel
             \/ \E p \in Preps :
                  \/ ImportReplayed(p) \/ Prepare(p) \/ WorkerReads(p)
                  \/ WorkerRefused(p) \/ WorkerAnswers(p)
             \/ \E r \in Roots : Elsewhere(r)
      PROVE  UNCHANGED <<session, own>>
  BY <1>8 DEF Cancel, ImportReplayed, Prepare, WorkerReads,
          WorkerRefused, WorkerAnswers, Elsewhere, svars
<1> QED
  BY <1>1, <1>2, <1>3, <1>4, <1>5, <1>6, <1>7, <1>8 DEF Next

LEMMA StrayedStays ==
  ASSUME TypeOK, SessionOK, LogsOK, [Next]_vars, strayed = "pending"
  PROVE  strayed' = "pending" \/ own' = <<>>
<1>1. CASE UNCHANGED vars
  BY <1>1 DEF vars, svars
<1>2. CASE UndoRedoOp
  BY <1>2, UndoRedoEffect DEF UndoRedoOp, UndoRedoMove, Strays
<1>3. CASE Replace
  BY <1>3 DEF Replace
<1>4. ASSUME NEW r \in Roots, Elsewhere(r) PROVE strayed' = "pending"
  BY <1>4, ElsewhereEffect DEF Strays
<1>5. CASE AcceptOp
  BY <1>5, AcceptEffect
     DEF AcceptOp, AcceptMove, AcceptRefused, AcceptLeft, AcceptCarried, Strays
<1>6. CASE \/ Propose \/ ImportAsset \/ RecoverOp \/ RejectOp \/ Cancel
           \/ \E p \in Preps :
                \/ ImportReplayed(p) \/ Prepare(p) \/ WorkerReads(p)
                \/ WorkerRefused(p) \/ WorkerAnswers(p)
                \/ Admit(p)
  BY <1>6 DEF Propose, ImportAsset, ProposeEdit, RecoverOp, RefreshRecovery,
       RejectOp, Reject, Cancel, ImportReplayed, Prepare, WorkerReads, WorkerRefused,
       WorkerAnswers, Admit, svars
<1> QED
  BY <1>1, <1>2, <1>3, <1>4, <1>5, <1>6 DEF Next

\* Only accept adds to what the session applied.
LEMMA OwnGrows ==
  ASSUME TypeOK, SessionOK, LogsOK, [Next]_vars
  PROVE  \/ own' \in {own, <<>>}
         \/ /\ AcceptOp
            /\ AcceptLeft(session.proposal.root) \/ AcceptCarried(session.proposal.root)
<1>1. CASE UNCHANGED vars
  BY <1>1 DEF vars, svars
<1>2. CASE AcceptOp
  BY <1>2, AcceptEffect DEF AcceptOp, AcceptMove, AcceptRefused
<1>3. CASE UndoRedoOp
  BY <1>3, UndoRedoEffect DEF UndoRedoOp
<1>4. CASE Replace
  BY <1>4 DEF Replace
<1>5. CASE \/ Propose \/ ImportAsset \/ RecoverOp \/ RejectOp \/ Cancel
           \/ \E p \in Preps :
                \/ ImportReplayed(p) \/ Prepare(p) \/ WorkerReads(p)
                \/ WorkerRefused(p) \/ WorkerAnswers(p)
                \/ Admit(p)
           \/ \E r \in Roots : Elsewhere(r)
  BY <1>5 DEF Propose, ImportAsset, ProposeEdit, RecoverOp, RefreshRecovery,
       RejectOp, Reject, Cancel, ImportReplayed, Prepare, WorkerReads, WorkerRefused,
       WorkerAnswers, Admit,
       Elsewhere, svars
<1> QED
  BY <1>1, <1>2, <1>3, <1>4, <1>5 DEF Next

NoneForgotten ==
  strayed # "pending" =>
    \A k \in DOMAIN own : IsWaiting(k) => session.recovering /\ session.pendingTx = own[k].tx

LEMMA NoApplyForgottenStep ==
  ASSUME TypeOK, PreparationsOK, HeldOff, SessionOK, LogsOK, OwnOK, NoneForgotten,
         [Next]_vars
  PROVE  NoneForgotten'
<1> SUFFICES ASSUME strayed' # "pending", NEW k \in DOMAIN own', IsWaiting(k)'
             PROVE  session'.recovering /\ session'.pendingTx = own'[k].tx
  BY DEF NoneForgotten
<1>1. own' # <<>> /\ strayed # "pending"
  BY StrayedStays
<1>2. ASSUME k \in DOMAIN own, own'[k] = own[k]
      PROVE  session.recovering /\ session.pendingTx = own[k].tx
  BY <1>1, <1>2, NoneWaitsAnew DEF NoneForgotten
<1>3. CASE own' = own
  <2>1. session.recovering /\ session.pendingTx = own[k].tx /\ k \in DOMAIN own
    BY <1>2, <1>3
  <2>2. CASE UNCHANGED session
    BY <1>3, <2>1, <2>2
  <2>3. CASE project'[session.proposal.root].open = None /\ session.proposal.root \in Roots
    <3>1. /\ own[Len(own)].root = session.proposal.root
          /\ own[Len(own)].tx = session.pendingTx
      BY <2>1 DEF SessionOK
    <3>2. own \in Entries /\ own # <<>>
      BY <1>1, <1>3 DEF TypeOK, SessionTypeOK, Entries
    <3>3. Len(own) \in DOMAIN own /\ k \in 1..Len(own) /\ Len(own) \in Nat
          /\ own[k].tx \in Nat
      BY <2>1, <3>2, OwnRows, LastOwn DEF Entries
    <3>4. own[k].tx = own[Len(own)].tx
      BY <2>1, <3>1
    <3>5. k = Len(own)
      BY <2>1, <3>3, <3>4 DEF OwnOK
    <3>6. own'[k].root = session.proposal.root
      BY <1>3, <3>1, <3>5
    <3> QED
      BY <2>3, <3>6 DEF IsWaiting
  <2> QED
    BY <1>1, <2>1, <2>2, <2>3, WaitingSession
<1>4. ASSUME k \notin DOMAIN own \/ own'[k] # own[k], NEW r \in Roots, NEW after \in Project,
             project' = [project EXCEPT ![r] = after], JournalMove(r, after)
      PROVE  /\ own'[k].root = r /\ own'[k].tx = nextTx /\ after.open # None
             /\ own' = Append(own, Row(r, own'[k].rejected)) /\ ~own'[k].rejected
  <2>1. /\ own'[k].root = r /\ own'[k].tx = nextTx
        /\ own' = Append(own, Row(r, own'[k].rejected))
    BY <1>4, OwnMoves
  <2>2. project'[r] = after
    BY <1>4, Types
  <2> QED
    BY <2>1, <2>2 DEF IsWaiting
<1>5. ASSUME AcceptOp, NEW r \in Roots, r = session.proposal.root, NEW rejected \in BOOLEAN,
             nextTx' = nextTx + 1, own' = Append(own, Row(r, rejected)),
             NEW after \in Project, project' = [project EXCEPT ![r] = after],
             Applies(r, after)
      PROVE  ~rejected /\ after.open # None /\ own'[k].tx = nextTx
  <2>1. ~session.recovering
    BY <1>5, AcceptEffect DEF AcceptOp
  <2>2. JournalMove(r, after)
    BY <1>5 DEF JournalMove
  <2>3. k \notin DOMAIN own \/ own'[k] # own[k]
    BY <1>2, <2>1
  <2>4. /\ own'[k].tx = nextTx /\ after.open # None
        /\ own' = Append(own, Row(r, own'[k].rejected)) /\ ~own'[k].rejected
    BY <1>4, <1>5, <2>2, <2>3
  <2>5. own \in Entries /\ nextTx \in Txs
    BY <1>5 DEF TypeOK, SessionTypeOK, Entries, Applies
  <2>6. k = Len(own) + 1 /\ own'[k] = Row(r, rejected)
    <3>1. PICK entry \in Began : entry = Row(r, rejected) /\ own' = Append(own, entry)
      BY <1>5, <2>5 DEF Row, Began
    <3> QED
      BY <2>3, <2>5, <3>1, AppendProperties, LenProperties DEF Entries
  <2> QED
    BY <2>4, <2>6 DEF Row
<1>6. CASE AcceptOp /\ AcceptLeft(session.proposal.root)
  <2>1. PICK r \in Roots : r = session.proposal.root
    BY <1>6, AcceptEffect DEF AcceptOp
  <2>2. /\ nextTx' = nextTx + 1 /\ own' = Append(own, Row(r, TRUE))
        /\ \E after \in Project :
             project' = [project EXCEPT ![r] = after] /\ Applies(r, after)
    BY <1>6, <2>1 DEF AcceptLeft
  <2> QED
    BY <1>5, <1>6, <2>1, <2>2
<1>7. CASE AcceptOp /\ AcceptCarried(session.proposal.root)
  <2>1. PICK r \in Roots : r = session.proposal.root
    BY <1>7, AcceptEffect DEF AcceptOp
  <2>2. PICK after \in Project :
          /\ project' = [project EXCEPT ![r] = after]
          /\ after.open # None => session'.recovering
          /\ Applies(r, after)
    BY <1>7, <2>1 DEF AcceptCarried
  <2>3. /\ nextTx' = nextTx + 1 /\ own' = Append(own, Row(r, FALSE))
        /\ session'.pendingTx = nextTx
    BY <1>7, <2>1 DEF AcceptCarried
  <2>4. after.open # None /\ own'[k].tx = nextTx
    BY <1>5, <1>7, <2>1, <2>2, <2>3
  <2> QED
    BY <2>2, <2>3, <2>4
<1>8. CASE own' = <<>>
  BY <1>1, <1>8
<1> QED
  BY <1>3, <1>6, <1>7, <1>8, OwnGrows

-----------------------------------------------------------------------------
(* The list of applied roots.                                              *)

ListsOf(entries, roots, kept) ==
  \E at \in [DOMAIN roots -> kept] :
    /\ \A k, l \in DOMAIN roots : k < l => at[k] < at[l]
    /\ \A i \in kept : \E k \in DOMAIN roots : at[k] = i
    /\ \A k \in DOMAIN roots : roots[k] = entries[at[k]].root

LEMMA ListSame ==
  ASSUME NEW old, NEW new, NEW roots, NEW kept, ListsOf(old, roots, kept),
         \A k \in kept : new[k] = old[k]
  PROVE  ListsOf(new, roots, kept)
<1>1. PICK at \in [DOMAIN roots -> kept] :
        /\ \A k, l \in DOMAIN roots : k < l => at[k] < at[l]
        /\ \A i \in kept : \E k \in DOMAIN roots : at[k] = i
        /\ \A k \in DOMAIN roots : roots[k] = old[at[k]].root
  BY DEF ListsOf
<1>2. \A k \in DOMAIN roots : roots[k] = new[at[k]].root
  BY <1>1
<1> QED
  BY <1>1, <1>2 DEF ListsOf

LEMMA ListAppended ==
  ASSUME NEW old, NEW new, NEW roots \in Seq(Roots), NEW kept \in SUBSET Nat,
         ListsOf(old, roots, kept), \A k \in kept : new[k] = old[k],
         NEW n \in Nat, \A k \in kept : k < n, NEW r \in Roots, new[n].root = r
  PROVE  ListsOf(new, Append(roots, r), kept \cup {n})
<1>1. PICK at \in [DOMAIN roots -> kept] :
        /\ \A k, l \in DOMAIN roots : k < l => at[k] < at[l]
        /\ \A i \in kept : \E k \in DOMAIN roots : at[k] = i
        /\ \A k \in DOMAIN roots : roots[k] = old[at[k]].root
  BY DEF ListsOf
<1> DEFINE more == Append(roots, r)
           to   == [k \in DOMAIN more |-> IF k \in DOMAIN roots THEN at[k] ELSE n]
<1>2. /\ Len(roots) \in Nat /\ DOMAIN roots = 1..Len(roots)
      /\ DOMAIN more = 1..(Len(roots) + 1)
      /\ \A k \in DOMAIN roots : more[k] = roots[k]
      /\ more[Len(roots) + 1] = r
  BY AppendProperties, LenProperties
<1>3. to \in [DOMAIN more -> kept \cup {n}]
  BY <1>1
<1>3a. to[Len(roots) + 1] = n /\ Len(roots) + 1 \in DOMAIN more
  BY <1>2
<1>3b. \A k \in DOMAIN roots :
         /\ k \in DOMAIN more /\ to[k] = at[k] /\ at[k] \in kept /\ at[k] \in Nat /\ at[k] < n
         /\ k \in Nat /\ k < Len(roots) + 1
  <2> SUFFICES ASSUME NEW k \in DOMAIN roots
               PROVE  /\ k \in DOMAIN more /\ to[k] = at[k] /\ at[k] \in kept
                      /\ at[k] \in Nat /\ at[k] < n
                      /\ k \in Nat /\ k < Len(roots) + 1
    OBVIOUS
  <2>1. k \in DOMAIN more /\ k \in Nat /\ k < Len(roots) + 1
    BY <1>2
  <2>2. to[k] = at[k]
    BY <2>1
  <2>3. at[k] \in kept
    BY <1>1
  <2> QED
    BY <2>1, <2>2, <2>3
<1>3c. \A k \in DOMAIN more : k \in DOMAIN roots \/ k = Len(roots) + 1
  BY <1>2
<1> HIDE DEF more, to
<1>4. \A k, l \in DOMAIN more : k < l => to[k] < to[l]
  BY <1>1, <1>2, <1>3a, <1>3b, <1>3c
<1>5. \A i \in kept \cup {n} : \E k \in DOMAIN more : to[k] = i
  BY <1>1, <1>3a, <1>3b
<1>6. \A k \in DOMAIN more : more[k] = new[to[k]].root
  BY <1>1, <1>2, <1>3a, <1>3b, <1>3c
<1>7. ListsOf(new, more, kept \cup {n})
  BY <1>3, <1>4, <1>5, <1>6 DEF ListsOf
<1> QED
  BY <1>7 DEF more

LEMMA ListShortened ==
  ASSUME NEW entries, NEW roots \in Seq(Roots), NEW kept \in SUBSET Nat,
         ListsOf(entries, roots, kept), roots # <<>>
  PROVE  \E n \in kept :
           /\ \A k \in kept : k <= n
           /\ entries[n].root = roots[Len(roots)]
           /\ ListsOf(entries, SubSeq(roots, 1, Len(roots) - 1), kept \ {n})
<1>1. PICK at \in [DOMAIN roots -> kept] :
        /\ \A k, l \in DOMAIN roots : k < l => at[k] < at[l]
        /\ \A i \in kept : \E k \in DOMAIN roots : at[k] = i
        /\ \A k \in DOMAIN roots : roots[k] = entries[at[k]].root
  BY DEF ListsOf
<1>2. /\ Len(roots) \in Nat /\ Len(roots) # 0 /\ DOMAIN roots = 1..Len(roots)
  BY LenProperties, EmptySeq
<1> DEFINE m     == Len(roots)
           n     == at[m]
           fewer == SubSeq(roots, 1, m - 1)
           to    == [k \in DOMAIN fewer |-> at[k]]
           rest  == kept \ {n}
<1>3. m \in DOMAIN roots /\ n \in kept /\ n \in Nat
  <2>1. m \in DOMAIN roots
    BY <1>2
  <2>2. n \in kept
    BY <1>1, <2>1
  <2> QED
    BY <2>1, <2>2
<1>4. /\ DOMAIN fewer = 1..(m - 1)
      /\ \A k \in 1..(m - 1) : fewer[k] = roots[k] /\ k \in DOMAIN roots /\ k < m
  BY <1>2, SubSeqProperties, LenProperties
<1>5. \A k \in 1..(m - 1) : at[k] < n /\ at[k] \in kept /\ at[k] \in Nat
  BY <1>1, <1>3, <1>4
<1>6. \A k \in kept : k <= n
  BY <1>1, <1>2, <1>3, <1>5
<1>7. to \in [DOMAIN fewer -> rest]
  BY <1>3, <1>4, <1>5
<1>8. \A k, l \in DOMAIN fewer : k < l => to[k] < to[l]
  BY <1>1, <1>4
<1>9. \A i \in rest : \E k \in DOMAIN fewer : to[k] = i
  <2> SUFFICES ASSUME NEW i \in rest PROVE \E k \in DOMAIN fewer : to[k] = i
    OBVIOUS
  <2>1. PICK k \in DOMAIN roots : at[k] = i
    BY <1>1
  <2>2. k \in 1..(m - 1)
    BY <1>2, <2>1
  <2> QED
    BY <1>4, <2>1, <2>2
<1>10. \A k \in DOMAIN fewer : fewer[k] = entries[to[k]].root
  BY <1>1, <1>4
<1>11. entries[n].root = roots[m]
  BY <1>1, <1>3
<1> HIDE DEF fewer, to, rest, n
<1>12. ListsOf(entries, fewer, rest)
  BY <1>7, <1>8, <1>9, <1>10 DEF ListsOf
<1> QED
  BY <1>3, <1>6, <1>11, <1>12 DEF fewer, rest

LEMMA ListEmpty ==
  ASSUME NEW entries, NEW kept
  PROVE  ListsOf(entries, <<>>, kept) <=> kept = {}
<1>1. DOMAIN << >> = {}
  OBVIOUS
<1>2. ASSUME kept = {} PROVE ListsOf(entries, <<>>, kept)
  <2> DEFINE at == [k \in {} |-> k]
  <2>1. at \in [DOMAIN << >> -> kept]
    BY <1>1
  <2> QED
    BY <1>1, <1>2, <2>1 DEF ListsOf
<1>3. ASSUME ListsOf(entries, <<>>, kept) PROVE kept = {}
  BY <1>1, <1>3 DEF ListsOf
<1> QED
  BY <1>2, <1>3

SameLogs == \A s \in Roots : LogOf(s)' = LogOf(s)
SameList ==
  /\ session'.applied = session.applied
  /\ session'.phase = "pending" <=> session.phase = "pending"

LEMMA QuietLogs ==
  ASSUME TypeOK, NEW r \in Roots, NEW after \in Project, Quiet(r, after),
         project' = [project EXCEPT ![r] = after]
  PROVE  SameLogs
<1>1. project \in [Roots -> Project]
  BY Types
<1> QED
  BY <1>1, LogOfMoves DEF Quiet, SameLogs

LEMMA SettledLogs ==
  ASSUME TypeOK, NEW r \in Roots, project' = [project EXCEPT ![r] = Settle(project[r])]
  PROVE  SameLogs
BY SettlesQuietly, QuietLogs

\* The steps after which nothing has strayed.
UndoneInOrder ==
  /\ UNCHANGED own /\ ~session.recovering /\ session' = Undone
  /\ \E r \in UndoRoots, after \in Project :
       project' = [project EXCEPT ![r] = after] /\ Reverses(r, "undo", after)

LEMMA ListCases ==
  ASSUME TypeOK, PreparationsOK, HeldOff, SessionOK, LogsOK, [Next]_vars,
         strayed' = "nothing"
  PROVE  \/ own' = <<>> /\ session' = NewSession
         \/ /\ strayed = "nothing"
            /\ \/ UNCHANGED own /\ SameLogs /\ SameList
               \/ /\ UNCHANGED own /\ SameLogs /\ session.recovering
                  /\ session.proposal.root \in Roots /\ Resolved(session.proposal.root)
               \/ /\ ~session.recovering /\ session.phase = "reviewing"
                  /\ session.proposal.root \in Roots /\ AcceptCarried(session.proposal.root)
               \/ UndoneInOrder
<1>0. session \in Session /\ project \in [Roots -> Project]
  BY Types
<1>1. ASSUME UNCHANGED <<project, session>> PROVE SameLogs /\ SameList
  BY <1>1 DEF SameLogs, SameList, LogOf
<1>2. CASE UNCHANGED vars
  BY <1>1, <1>2 DEF vars, svars
<1>3. ASSUME session'.applied = session.applied, ~session.recovering,
             session'.phase # "pending"
      PROVE  SameList
  BY <1>3 DEF SameList, SessionOK
<1>4. CASE Propose \/ ImportAsset
  <2>1. PICK r \in Roots : \E mark \in Preps \cup {None} : ProposeEdit(r, mark)
    BY <1>4, HomeAssumption DEF Propose, ImportAsset
  <2>2. UNCHANGED <<own, strayed>> /\ SameLogs /\ ~session.recovering
    BY <2>1, SettledLogs DEF ProposeEdit
  <2>3. /\ Cleared("idle").phase = "idle" /\ Cleared("idle").applied = session.applied
        /\ \A proposal \in Proposal :
             /\ [Cleared("reviewing") EXCEPT !.proposal = proposal].phase = "reviewing"
             /\ [Cleared("reviewing") EXCEPT !.proposal = proposal].applied = session.applied
    BY <1>0, ClearedSession DEF Phases
  <2>4. \/ UNCHANGED session
        \/ session' = Cleared("idle")
        \/ \E proposal \in Proposal :
             session' = [Cleared("reviewing") EXCEPT !.proposal = proposal]
    BY <2>1, ProposeEffect
  <2>5. SameList
    BY <1>3, <2>2, <2>3, <2>4 DEF SameList
  <2> QED
    BY <2>2, <2>5
<1>5. CASE AcceptOp
  <2>1. /\ ~session.recovering /\ session.phase = "reviewing"
        /\ session.proposal.root \in Roots /\ AcceptMove(session.proposal.root)
    BY <1>5, AcceptEffect DEF AcceptOp
  <2>2. CASE AcceptRefused(session.proposal.root)
    BY <2>1, <2>2, SettledLogs DEF AcceptRefused, SameList
  <2>3. CASE AcceptLeft(session.proposal.root)
    BY <2>3 DEF AcceptLeft, Strays
  <2>4. CASE AcceptCarried(session.proposal.root)
    BY <2>1, <2>4 DEF AcceptCarried
  <2> QED
    BY <2>1, <2>2, <2>3, <2>4 DEF AcceptMove
<1>6. CASE RecoverOp
  BY <1>6, RefreshEffect, SettledLogs DEF RecoverOp
<1>7. CASE RejectOp
  <2>1. UNCHANGED <<own, strayed, project>> /\ SameLogs
    BY <1>7 DEF RejectOp, Reject, SameLogs, LogOf
  <2>2. UNCHANGED session \/ (session' = Cleared("rejected") /\ ~session.recovering)
    BY <1>7 DEF RejectOp, Reject, Clear
  <2>3. /\ Cleared("rejected").phase = "rejected"
        /\ Cleared("rejected").applied = session.applied
    BY <1>0, ClearedSession DEF Phases
  <2>4. SameList
    BY <1>3, <2>2, <2>3 DEF SameList
  <2> QED
    BY <2>1, <2>4
<1>8. CASE UndoRedoOp
  <2>1. UNCHANGED own
    BY <1>8, UndoRedoEffect DEF UndoRedoOp
  <2>2. PICK r \in Roots, goal \in {"undo", "redo"}, after \in Project :
          project' = [project EXCEPT ![r] = after] /\ UndoRedoMove(r, goal, after)
    BY <1>8, UndoRedoEffect DEF UndoRedoOp
  <2>3. CASE Quiet(r, after) /\ UNCHANGED <<session, staging, strayed>>
    BY <2>1, <2>2, <2>3, QuietLogs DEF SameList
  <2>4. CASE /\ Reverses(r, goal, after)
             /\ ~session.recovering /\ goal = "undo" /\ UNCHANGED strayed
             /\ r \in UndoRoots /\ session' = Undone
    BY <2>1, <2>2, <2>4 DEF UndoneInOrder
  <2>5. ASSUME Strays("pending") \/ Strays("list") PROVE FALSE
    BY <2>5 DEF Strays
  <2> QED
    BY <2>2, <2>3, <2>4, <2>5 DEF UndoRedoMove
<1>9. CASE Replace
  <2>1. CASE UNCHANGED <<session, own, strayed>>
    BY <1>1, <1>9, <2>1 DEF Replace
  <2>2. CASE session' = NewSession /\ own' = <<>>
    BY <2>2
  <2> QED
    BY <1>9, <2>1, <2>2 DEF Replace
<1>10. CASE Cancel
  BY <1>1, <1>10 DEF Cancel
<1>11. ASSUME NEW p \in Preps,
              \/ ImportReplayed(p) \/ Prepare(p) \/ WorkerReads(p)
              \/ WorkerRefused(p) \/ WorkerAnswers(p)
       PROVE  UNCHANGED <<project, session, own, strayed>>
  BY <1>11 DEF ImportReplayed, Prepare, WorkerReads, WorkerRefused, WorkerAnswers, svars
<1>12. ASSUME NEW p \in Preps, Admit(p)
       PROVE  UNCHANGED <<own, strayed>> /\ SameLogs /\ SameList
  <2>1. UNCHANGED <<own, strayed, project>> /\ SameLogs
    BY <1>12 DEF Admit, SameLogs, LogOf
  <2>2. \/ UNCHANGED session
        \/ /\ p \notin aborted /\ ~staging[p].superseded /\ staging[p] # None
           /\ session'.phase = "reviewing" /\ session'.applied = session.applied
    BY <1>12, AdmitEffect DEF Admit
  <2>3. UNCHANGED session \/ ~session.recovering
    BY <2>2 DEF HeldOff, PreparationsOK, Refused
  <2>4. SameList
    BY <1>3, <2>2, <2>3 DEF SameList
  <2> QED
    BY <2>1, <2>4
<1>13. ASSUME NEW r \in Roots, Elsewhere(r)
       PROVE  UNCHANGED <<own, strayed>> /\ SameLogs /\ SameList
  <2>1. UNCHANGED <<session, own>>
    BY <1>13 DEF Elsewhere
  <2>2. PICK after \in Project :
          /\ project' = [project EXCEPT ![r] = after]
          /\ (Quiet(r, after) /\ UNCHANGED strayed) \/ Strays("list")
    BY <1>13, ElsewhereEffect
  <2>3. ~Strays("list")
    BY DEF Strays
  <2> QED
    BY <2>1, <2>2, <2>3, QuietLogs DEF SameList
<1>14. \/ Propose \/ ImportAsset \/ AcceptOp \/ RecoverOp \/ RejectOp
       \/ UndoRedoOp \/ Replace \/ Cancel
       \/ \E p \in Preps :
            \/ ImportReplayed(p) \/ Prepare(p) \/ WorkerReads(p)
            \/ WorkerRefused(p) \/ WorkerAnswers(p)
            \/ Admit(p)
       \/ \E r \in Roots : Elsewhere(r)
       \/ UNCHANGED vars
  BY DEF Next
<1> QED
  BY <1>1, <1>2, <1>4, <1>5, <1>6, <1>7, <1>8, <1>9, <1>10, <1>11, <1>12, <1>13, <1>14

InEffectIn(log, tx) == \E i \in DOMAIN log : log[i].tx = tx /\ log[i].done

LEMMA KeptIs ==
  Kept = {k \in DOMAIN own : InEffectIn(LogOf(own[k].root), own[k].tx)}
BY DEF Kept, InEffect, InEffectIn, LogOf, IsDone

LEMMA KeptAfter ==
  ASSUME NEW k \in DOMAIN own', NEW s, s = own'[k].root
  PROVE  k \in Kept' <=> InEffectIn(LogOf(s)', own'[k].tx)
BY DEF Kept, InEffect, InEffectIn, LogOf, IsDone

LEMMA KeptStays ==
  ASSUME TypeOK, UNCHANGED own, SameLogs
  PROVE  Kept' = Kept /\ (OthersAreOlder => OthersAreOlder')
<1>1. \A k \in DOMAIN own : own[k].root \in Roots
  BY OwnRows DEF TypeOK, SessionTypeOK, Entries
<1>2. Kept' = {k \in DOMAIN own : InEffectIn(LogOf(own[k].root), own[k].tx)}
  <2>1. \A k \in DOMAIN own : InEffect(own[k])' <=> InEffectIn(LogOf(own[k].root)', own[k].tx)
    BY DEF InEffect, InEffectIn, LogOf, IsDone
  <2>2. \A k \in DOMAIN own : LogOf(own[k].root)' = LogOf(own[k].root)
    BY <1>1 DEF SameLogs, LogOf
  <2> QED
    BY <2>1, <2>2 DEF Kept
<1> QED
  BY <1>2, KeptIs DEF OthersAreOlder, SameLogs

Exact == OthersAreOlder /\ ListsOf(own, session.applied, Listed)

LEMMA ExactList == ListOK <=> (strayed = "nothing" => Exact)
BY DEF ListOK, Exact, Lists, ListsOf

LEMMA KeptAreOwn ==
  ASSUME own \in Entries
  PROVE  /\ Kept \in SUBSET Nat /\ Listed \subseteq Kept
         /\ \A k \in Kept : k \in DOMAIN own /\ k \in 1..Len(own)
         /\ Len(own) \in Nat
<1>1. \A k \in DOMAIN own : k \in Nat /\ k \in 1..Len(own)
  BY OwnRows
<1>2. Len(own) \in Nat
  BY LenProperties DEF Entries
<1> QED
  BY <1>1, <1>2 DEF Kept, Listed

LEMMA ExactWhenQuiet ==
  ASSUME TypeOK, Exact, UNCHANGED own, SameLogs, SameList
  PROVE  Exact'
<1>1. Kept' = Kept /\ OthersAreOlder'
  BY KeptStays DEF Exact
<1>2. Listed' = Listed
  BY <1>1 DEF Listed, SameList
<1> QED
  BY <1>1, <1>2 DEF Exact, SameList

\* An apply that was waited for is listed when it turns out to be done.
LEMMA ExactWhenResolved ==
  ASSUME TypeOK, SessionOK, Exact, UNCHANGED own, SameLogs, session.recovering,
         session.proposal.root \in Roots, Resolved(session.proposal.root)
  PROVE  Exact'
<1>1. Kept' = Kept /\ OthersAreOlder'
  BY KeptStays DEF Exact
<1>2. PICK r \in Roots : r = session.proposal.root
  OBVIOUS
<1>3. /\ own[Len(own)].root = r /\ own[Len(own)].tx = session.pendingTx
      /\ own # <<>> /\ session.phase \in {"applied", "pending"}
  BY <1>2 DEF SessionOK
<1>4. own \in Entries /\ session.applied \in Seq(Roots)
  BY DEF TypeOK, SessionTypeOK, Entries, Session
<1>5. /\ Len(own) \in DOMAIN own /\ Kept \in SUBSET Nat /\ Len(own) \in Nat
      /\ \A k \in Kept : k \in 1..Len(own)
  BY <1>3, <1>4, KeptAreOwn, LastOwn DEF Entries
<1> DEFINE q == Settle(project[r])
<1>6. CASE session' = session
  BY <1>1, <1>6 DEF Exact, Listed
<1>7. ASSUME q.open = None
      PROVE  Len(own) \in Kept
               <=> \E i \in DOMAIN q.log : q.log[i].tx = session.pendingTx /\ q.log[i].done
  <2>1. q = Recovered(project[r])
    BY <1>7, Types, SettledProject
  <2>2. q.log = LogOf(own[Len(own)].root)
    BY <1>3, <2>1 DEF LogOf
  <2> QED
    BY <1>3, <1>5, <2>2, KeptIs DEF InEffectIn
<1>8. CASE q.open = None /\ Len(own) \in Kept
  <2>1. /\ session'.phase = "applied"
        /\ session'.applied = IF session.phase = "pending" THEN Append(session.applied, r)
                              ELSE session.applied
    BY <1>2, <1>7, <1>8 DEF Resolved
  <2>2. Listed' = Kept
    BY <1>1, <2>1 DEF Listed
  <2>3. CASE session.phase = "pending"
    <3>1. PICK rest \in SUBSET Nat :
            /\ rest = Kept \ {Len(own)} /\ rest = Listed
            /\ rest \cup {Len(own)} = Kept
      BY <1>5, <1>8, <2>3 DEF Listed
    <3>2. \A k \in rest : k < Len(own)
      BY <1>5, <3>1
    <3>3. ListsOf(own, session.applied, rest)
      BY <3>1 DEF Exact
    <3>4. ListsOf(own, Append(session.applied, r), rest \cup {Len(own)})
      BY <1>3, <1>4, <1>5, <3>2, <3>3, ListAppended
    <3> QED
      BY <1>1, <2>1, <2>2, <2>3, <3>1, <3>4 DEF Exact
  <2>4. CASE session.phase # "pending"
    BY <1>1, <2>1, <2>2, <2>4 DEF Exact, Listed
  <2> QED
    BY <2>3, <2>4
<1>9. CASE q.open = None /\ Len(own) \notin Kept
  <2>1. session'.phase = "reviewing" /\ session'.applied = session.applied
    BY <1>2, <1>7, <1>9 DEF Resolved
  <2>2. Listed' = Kept /\ Listed = Kept
    BY <1>1, <1>9, <2>1 DEF Listed
  <2> QED
    BY <1>1, <2>1, <2>2 DEF Exact
<1> QED
  BY <1>2, <1>6, <1>7, <1>8, <1>9 DEF Resolved

LEMMA ExactWhenAccepted ==
  ASSUME TypeOK, LogsOK, OwnOK, Exact, session.phase = "reviewing",
         NEW r \in Roots, AcceptCarried(r)
  PROVE  Exact'
<1>1. /\ own \in Entries /\ session.applied \in Seq(Roots)
      /\ project \in [Roots -> Project] /\ nextTx \in Nat
  BY Types, BoundsAssumption DEF TypeOK, SessionTypeOK, Entries, Session
<1>2. PICK after \in Project :
        /\ project' = [project EXCEPT ![r] = after] /\ Applies(r, after)
  BY DEF AcceptCarried
<1>3. JournalMove(r, after)
  BY <1>2 DEF AcceptCarried, JournalMove
<1>4. PICK n \in Nat : n = Len(own) + 1
  BY <1>1, KeptAreOwn
<1>5. own' = Append(own, Row(r, FALSE)) /\ Row(r, FALSE) \in Began
  BY <1>2 DEF AcceptCarried, Applies, Row, Began
<1>6. /\ n \in DOMAIN own' /\ own'[n].root = r /\ own'[n].tx = nextTx
      /\ DOMAIN own' = DOMAIN own \cup {n} /\ n \notin DOMAIN own
      /\ Len(own') = n
      /\ \A k \in DOMAIN own : own'[k] = own[k]
  <2>1. PICK entry \in Began :
          entry = Row(r, FALSE) /\ own' = Append(own, entry)
    BY <1>5
  <2>2. entry.root = r /\ entry.tx = nextTx
    BY <2>1 DEF Row
  <2>3. /\ Len(own) \in Nat /\ DOMAIN own = 1..Len(own) /\ Len(own') = n
        /\ DOMAIN own' = 1..n /\ own'[n] = entry
        /\ \A k \in DOMAIN own : own'[k] = own[k]
    BY <1>1, <1>4, <2>1, OneMoreRow
  <2> QED
    BY <1>4, <2>2, <2>3
<1>7. \A s \in Roots : s # r => LogOf(s)' = LogOf(s)
  BY <1>1, <1>2, LogOfMoves
<1>8. PICK old \in Seq(Logged), new \in Seq(Logged) :
        /\ old = LogOf(r) /\ new = LogOf(r)' /\ OneMore(old, new, nextTx)
  <2>1. LogOf(r) \in Seq(Logged) /\ LogOf(r)' \in Seq(Logged)
    BY <1>1, <1>2, LogOfMoves
  <2> DEFINE row == [tx |-> nextTx, from |-> Begun(r).from, done |-> TRUE]
  <2>2. LogOf(r)' = Append(LogOf(r), row) /\ nextTx \in Txs
    BY <1>1, <1>2, LogOfMoves DEF Applies
  <2>3. Settle(project[r]) \in Project
    BY Types
  <2>4. row \in Logged
    BY <2>2, <2>3 DEF Logged, Begun, Project
  <2>5. OneMore(LogOf(r), LogOf(r)', nextTx)
    BY <2>1, <2>2, <2>4, AppendProperties, LenProperties DEF OneMore
  <2> QED
    BY <2>1, <2>5
<1>9. /\ DOMAIN old = 1..Len(old) /\ Len(old) \in Nat
      /\ DOMAIN new = DOMAIN old \cup {Len(old) + 1}
      /\ \A i \in DOMAIN old : new[i] = old[i] /\ old[i].tx < nextTx /\ old[i].tx \in Nat
      /\ new[Len(old) + 1].tx = nextTx /\ new[Len(old) + 1].done
  BY <1>8, LenProperties, LogRows DEF OneMore, LogsOK, LogOK
<1>10. \A k \in DOMAIN own : own[k].tx < nextTx /\ own[k].tx \in Nat /\ own[k].root \in Roots
  BY <1>1, OwnRows DEF OwnOK
<1>11. OthersAreOlder'
  <2> SUFFICES ASSUME NEW s \in Roots, NEW i \in DOMAIN LogOf(s)', NEW k \in DOMAIN own',
                      own'[k].tx < LogOf(s)'[i].tx
               PROVE  \E l \in DOMAIN own' : own'[l].tx = LogOf(s)'[i].tx
    BY DEF OthersAreOlder
  <2>1. CASE LogOf(s)'[i].tx = nextTx
    BY <1>6, <2>1
  <2>2. CASE i \in DOMAIN LogOf(s) /\ LogOf(s)'[i].tx = LogOf(s)[i].tx
    <3>1. LogOf(s)[i].tx < nextTx /\ LogOf(s)[i].tx \in Nat
      <4>1. LogOf(s) \in Seq(Logged)
        BY <1>1, <1>2, LogOfMoves
      <4> QED
        BY <2>2, <4>1, LogRows DEF LogsOK, LogOK
    <3>2. k # n
      BY <1>1, <1>6, <2>2, <3>1
    <3>3. k \in DOMAIN own /\ own[k].tx < LogOf(s)[i].tx
      BY <1>6, <2>2, <3>2
    <3>4. PICK l \in DOMAIN own : own[l].tx = LogOf(s)[i].tx
      BY <2>2, <3>3 DEF Exact, OthersAreOlder
    <3> QED
      BY <1>6, <2>2, <3>4
  <2> QED
    BY <1>7, <1>8, <1>9, <2>1, <2>2
<1>12. Kept' = Kept \cup {n}
  <2>1. InEffectIn(new, nextTx)
    BY <1>9 DEF InEffectIn
  <2>2. n \in Kept'
    BY <1>6, <1>8, <2>1, KeptAfter
  <2>3. \A tx \in Nat : tx < nextTx => (InEffectIn(new, tx) <=> InEffectIn(old, tx))
    BY <1>1, <1>9 DEF InEffectIn
  <2>4. ASSUME NEW k \in DOMAIN own
        PROVE  k \in Kept' <=> k \in Kept
    <3>1. PICK s \in Roots, tx \in Nat : s = own[k].root /\ tx = own[k].tx /\ tx < nextTx
      BY <1>10
    <3>2. InEffectIn(LogOf(s)', tx) <=> InEffectIn(LogOf(s), tx)
      BY <1>7, <1>8, <2>3, <3>1
    <3>3. k \in Kept' <=> InEffectIn(LogOf(s)', tx)
      BY <1>6, <3>1, KeptAfter
    <3> QED
      BY <3>1, <3>2, <3>3, KeptIs
  <2>5. Kept' \subseteq DOMAIN own' /\ Kept \subseteq DOMAIN own
    BY DEF Kept
  <2> QED
    BY <1>6, <2>2, <2>4, <2>5
<1>13. Listed = Kept /\ Kept \in SUBSET Nat /\ \A k \in Kept : k < n /\ k \in DOMAIN own
  BY <1>1, <1>4, KeptAreOwn DEF Listed
<1>14. \A k \in Kept : own'[k] = own[k]
  BY <1>6, <1>13
<1>15. ListsOf(own, session.applied, Kept)
  BY <1>13 DEF Exact
<1>16. CASE session'.phase = "applied" /\ session'.applied = Append(session.applied, r)
  <2>1. Listed' = Kept \cup {n}
    BY <1>12, <1>16 DEF Listed
  <2>2. ListsOf(own', Append(session.applied, r), Kept \cup {n})
    BY <1>1, <1>6, <1>13, <1>14, <1>15, ListAppended
  <2> QED
    BY <1>11, <1>16, <2>1, <2>2 DEF Exact
<1>17. CASE session'.phase = "pending" /\ session'.applied = session.applied
  <2>1. Listed' = Kept
    BY <1>6, <1>12, <1>13, <1>17 DEF Listed
  <2>2. ListsOf(own', session.applied, Kept)
    BY <1>14, <1>15, ListSame
  <2> QED
    BY <1>11, <1>17, <2>1, <2>2 DEF Exact
<1> QED
  BY <1>16, <1>17 DEF AcceptCarried

\* Undo takes back the last transaction on the list: those after it in the
\* journal are the session's own, and would be listed.
LEMMA ExactWhenUndone ==
  ASSUME TypeOK, SessionOK, LogsOK, OwnOK, Exact, UndoneInOrder
  PROVE  Exact'
<1>1. /\ own \in Entries /\ session.applied \in Seq(Roots) /\ session \in Session
      /\ project \in [Roots -> Project] /\ own' = own
  BY Types DEF TypeOK, SessionTypeOK, Entries, Session, UndoneInOrder
<1>2. PICK r \in UndoRoots, after \in Project :
        project' = [project EXCEPT ![r] = after] /\ Reverses(r, "undo", after)
  BY DEF UndoneInOrder
<1>3. r \in Roots
  BY <1>2, UndoRootsAreRoots
<1>4. PICK old \in Seq(Logged), new \in Seq(Logged) : old = LogOf(r) /\ new = LogOf(r)'
  BY <1>1, <1>2, <1>3, LogOfMoves
<1>5. \A s \in Roots : s # r => LogOf(s)' = LogOf(s)
  BY <1>1, <1>2, <1>3, LogOfMoves
<1>6. PICK i \in Reversible(Recovered(project[r]), "undo") :
        Recovered(after).log = Mark(LogOf(r), LogOf(r)[i].tx, FALSE)
  BY <1>2 DEF Reverses
<1>7. /\ i \in DOMAIN old /\ old[i].done
      /\ \A j \in DOMAIN old : old[j].done => j <= i
  BY <1>4, <1>6 DEF Reversible, TopDone, IsDone, LogOf
<1>8. PICK t \in Nat : t = old[i].tx
  BY <1>4, <1>7, LogRows
<1>9. /\ DOMAIN new = DOMAIN old
      /\ \A j \in DOMAIN old :
           new[j].tx = old[j].tx /\ new[j].done = IF old[j].tx = t THEN FALSE ELSE old[j].done
  <2>1. new = Mark(old, t, FALSE)
    BY <1>1, <1>2, <1>3, <1>4, <1>6, <1>8, LogOfMoves
  <2>2. PICK done \in BOOLEAN : done = FALSE
    OBVIOUS
  <2>3. new = Mark(old, t, done)
    BY <2>1, <2>2
  <2>4. /\ DOMAIN new = DOMAIN old
        /\ \A j \in DOMAIN old :
             new[j].tx = old[j].tx /\ new[j].done = IF old[j].tx = t THEN done ELSE old[j].done
    BY <2>3, MarkedLog
  <2> QED
    BY <2>2, <2>4
<1>10. /\ \A j \in DOMAIN old : old[j].tx \in Nat /\ j \in Nat
       /\ \A j, l \in DOMAIN old : j < l => old[j].tx < old[l].tx
       /\ \A j \in DOMAIN old : \A k \in DOMAIN own : old[j].tx = own[k].tx => own[k].root = r
  BY <1>3, <1>4, LogRows DEF LogsOK, LogOK
<1>11. /\ \A k \in DOMAIN own : own[k].tx \in Nat /\ k \in Nat /\ own[k].root \in Roots
       /\ \A k, l \in DOMAIN own : k < l => own[k].tx < own[l].tx
  BY <1>1, OwnRows DEF OwnOK
<1>12. ASSUME NEW k \in DOMAIN own
       PROVE  k \in Kept' <=> k \in Kept /\ own[k].tx # t
  <2>1. PICK s \in Roots, tx \in Nat : s = own[k].root /\ tx = own[k].tx
    BY <1>11
  <2>2. k \in Kept' <=> InEffectIn(LogOf(s)', tx)
    BY <1>1, <2>1, KeptAfter
  <2>3. k \in Kept <=> InEffectIn(LogOf(s), tx)
    BY <2>1, KeptIs
  <2>4. CASE s = r
    <3>1. InEffectIn(new, tx) <=> InEffectIn(old, tx) /\ tx # t
      BY <1>9 DEF InEffectIn
    <3> QED
      BY <1>4, <2>1, <2>2, <2>3, <2>4, <3>1
  <2>5. CASE s # r
    <3>1. tx # t
      BY <1>7, <1>8, <1>10, <2>1, <2>5
    <3> QED
      BY <1>5, <2>1, <2>2, <2>3, <2>5, <3>1
  <2> QED
    BY <2>4, <2>5
<1>13. Kept' \subseteq DOMAIN own /\ Kept \subseteq DOMAIN own
  BY <1>1 DEF Kept
<1>14. OthersAreOlder'
  <2> SUFFICES ASSUME NEW s \in Roots, NEW j \in DOMAIN LogOf(s)', NEW k \in DOMAIN own',
                      own'[k].tx < LogOf(s)'[j].tx
               PROVE  \E l \in DOMAIN own' : own'[l].tx = LogOf(s)'[j].tx
    BY DEF OthersAreOlder
  <2>1. j \in DOMAIN LogOf(s) /\ LogOf(s)'[j].tx = LogOf(s)[j].tx
    BY <1>4, <1>5, <1>9
  <2> QED
    BY <1>1, <2>1 DEF Exact, OthersAreOlder
<1>15. Listed = Kept /\ Listed' = Kept' /\ session' = Undone
  BY <1>1, UndoneSession DEF Listed, UndoneInOrder, SessionOK
<1>16. ListsOf(own, session.applied, Kept)
  BY <1>15 DEF Exact
<1>17. CASE session.applied = <<>>
  <2>1. Kept = {}
    BY <1>16, <1>17, ListEmpty
  <2>2. Kept' = {}
    BY <1>12, <1>13, <2>1
  <2>3. session'.applied = <<>>
    BY <1>1, <1>15, <1>17, UndoneSession
  <2>4. ListsOf(own', session'.applied, Listed')
    BY <1>15, <2>2, <2>3, ListEmpty
  <2> QED
    BY <1>14, <2>4 DEF Exact
<1>18. CASE session.applied # <<>>
  <2>1. r = session.applied[Len(session.applied)]
    BY <1>2, <1>18 DEF UndoRoots
  <2>2. Kept \in SUBSET Nat
    BY <1>1, KeptAreOwn
  <2>3. PICK n \in Kept :
          /\ \A k \in Kept : k <= n
          /\ own[n].root = session.applied[Len(session.applied)]
          /\ ListsOf(own, SubSeq(session.applied, 1, Len(session.applied) - 1), Kept \ {n})
    BY <1>1, <1>16, <1>18, <2>2, ListShortened
  <2>4. n \in DOMAIN own /\ n \in Nat /\ own[n].root = r
    BY <1>11, <1>13, <2>1, <2>3
  <2>5. PICK j \in DOMAIN old : old[j].tx = own[n].tx /\ old[j].done
    BY <1>4, <2>3, <2>4, KeptIs DEF InEffectIn
  <2>6. own[n].tx <= t
    BY <1>7, <1>8, <1>10, <2>5
  <2>7. own[n].tx = t
    <3> SUFFICES ASSUME own[n].tx < t PROVE FALSE
      BY <1>8, <1>11, <2>4, <2>6
    <3>1. PICK l \in DOMAIN own : own[l].tx = t
      BY <1>3, <1>4, <1>7, <1>8, <2>4 DEF Exact, OthersAreOlder
    <3>2. own[l].root = r
      BY <1>7, <1>8, <1>10, <3>1
    <3>3. l \in Kept
      BY <1>4, <1>7, <1>8, <3>1, <3>2, KeptIs DEF InEffectIn
    <3>4. l <= n
      BY <2>3, <3>3
    <3> QED
      BY <1>11, <2>4, <3>1, <3>4
  <2>8. \A k \in DOMAIN own : own[k].tx = t => k = n
    BY <1>11, <2>4, <2>7
  <2>9. Kept' = Kept \ {n}
    BY <1>12, <1>13, <2>7, <2>8
  <2>10. session'.applied = SubSeq(session.applied, 1, Len(session.applied) - 1)
    BY <1>1, <1>15, <1>18, UndoneSession
  <2> QED
    BY <1>1, <1>14, <1>15, <2>3, <2>9, <2>10 DEF Exact
<1> QED
  BY <1>17, <1>18

LEMMA ListStep ==
  ASSUME TypeOK, PreparationsOK, HeldOff, SessionOK, LogsOK, OwnOK, ListOK, [Next]_vars
  PROVE  ListOK'
<1>1. CASE own' = <<>> /\ session' = NewSession
  <2>1. DOMAIN own' = {}
    BY <1>1
  <2>2. Listed' = {} /\ OthersAreOlder' /\ session'.applied = <<>>
    BY <1>1, <2>1 DEF Listed, Kept, OthersAreOlder, NewSession
  <2>3. ListsOf(own', session'.applied, Listed')
    BY <2>2, ListEmpty
  <2> QED
    BY <2>2, <2>3 DEF ListOK, Lists, ListsOf
<1>2. ASSUME strayed = "nothing" PROVE Exact
  BY <1>2, ExactList
<1>3. ASSUME Exact' PROVE ListOK'
  BY <1>3 DEF ListOK, Exact, Lists, ListsOf
<1>4. CASE strayed' # "nothing"
  BY <1>4 DEF ListOK
<1> QED
  BY <1>1, <1>2, <1>3, <1>4, ListCases, ExactWhenQuiet, ExactWhenResolved, ExactWhenAccepted,
     ExactWhenUndone

-----------------------------------------------------------------------------
(* The evidence of an import.                                              *)

\* The proposal of an import that a session has under review, or waits for.
Wanted(s) ==
  IF s.proposal # None /\ (s.phase = "applied" => s.recovering) /\ s.proposal.prep # None
  THEN s.proposal ELSE None

LEMMA EvidenceIs ==
  /\ EvidenceFollowsImport <=> (~closed => pendingImport = Wanted(session))
  /\ EvidenceFollowsImport' <=> (~closed' => pendingImport' = Wanted(session'))
BY DEF EvidenceFollowsImport, Unsettled, Wanted

LEMMA EvidenceStep ==
  ASSUME TypeOK, PreparationsOK, HeldOff, SessionOK, LogsOK, EvidenceFollowsImport,
         [Next]_vars
  PROVE  EvidenceFollowsImport'
<1> SUFFICES ASSUME ~closed' PROVE pendingImport' = Wanted(session')
  BY EvidenceIs
<1>0. /\ session \in Session /\ None \notin Preps /\ None \notin Proposal
      /\ pendingImport = None => Reconciled = None
  BY Types, NoneAssumption DEF Reconciled
<1>1. ~closed /\ pendingImport = Wanted(session)
  <2>1. ~closed
    BY DEF Next, vars, bvars, Propose, ImportAsset, AcceptOp, RecoverOp, RejectOp, UndoRedoOp,
         Replace, Cancel, ImportReplayed, Prepare, WorkerReads, WorkerRefused, WorkerAnswers,
         Admit, Elsewhere
  <2> QED
    BY <2>1, EvidenceIs
<1>2. ASSUME UNCHANGED <<session, pendingImport>> PROVE pendingImport' = Wanted(session')
  BY <1>1, <1>2
<1>3. ASSUME session'.proposal = None, pendingImport' \in {None, Reconciled}
      PROVE  pendingImport' = Wanted(session')
  BY <1>3 DEF Wanted, Reconciled
<1>4. ASSUME UNCHANGED session, pendingImport' = Reconciled
      PROVE  pendingImport' = Wanted(session')
  BY <1>1, <1>4 DEF Wanted, Reconciled
<1>5. ASSUME session'.proposal = session.proposal, session.phase # "applied" \/ session.recovering,
             Materialize
      PROVE  pendingImport' = Wanted(session')
  BY <1>1, <1>5 DEF Wanted, Reconciled, Materialize
<1>6. ASSUME NEW r \in Roots, NEW mark \in Preps \cup {None}, ProposeEdit(r, mark)
      PROVE  \/ UNCHANGED session
             \/ session'.phase = "idle" /\ session'.proposal = None
             \/ /\ ~Reviewing /\ session'.phase = "reviewing"
                /\ session'.proposal \in Proposal /\ session'.proposal.prep = mark
  <2>1. /\ Cleared("idle").phase = "idle" /\ Cleared("idle").proposal = None
        /\ \A proposal \in Proposal :
             /\ [Cleared("reviewing") EXCEPT !.proposal = proposal].phase = "reviewing"
             /\ [Cleared("reviewing") EXCEPT !.proposal = proposal].proposal = proposal
    BY <1>0, ClearedSession DEF Phases
  <2>2. \/ UNCHANGED session
        \/ session' = Cleared("idle")
        \/ ~Reviewing /\ \E proposal \in Proposal :
             /\ proposal.prep = mark
             /\ session' = [Cleared("reviewing") EXCEPT !.proposal = proposal]
    BY <1>6, ProposeEffect
  <2> QED
    BY <2>1, <2>2
<1>7. CASE UNCHANGED vars
  BY <1>2, <1>7 DEF vars, svars, bvars
<1>8. CASE Propose
  <2>1. PICK r \in Roots : ProposeEdit(r, None)
    BY <1>8 DEF Propose
  <2>2. pendingImport' = Reconciled
    BY <1>8 DEF Propose
  <2>3. CASE session'.proposal \in Proposal /\ session'.proposal.prep = None
    BY <1>0, <1>1, <2>2, <2>3 DEF Wanted, Reconciled
  <2> QED
    BY <1>3, <1>4, <1>6, <2>1, <2>2, <2>3
<1>9. CASE ImportAsset
  <2>1. PICK p \in Preps :
          /\ ProposeEdit(Home, p)
          /\ pendingImport' = IF ~Reviewing /\ session'.phase = "reviewing"
                              THEN session'.proposal ELSE Reconciled
    BY <1>9 DEF ImportAsset
  <2>2. CASE UNCHANGED session
    <3>1. pendingImport' = Reconciled
      BY <2>1, <2>2 DEF Reviewing, SessionOK
    <3> QED
      BY <1>4, <2>2, <3>1
  <2>3. CASE session'.phase = "idle" /\ session'.proposal = None
    BY <1>3, <2>1, <2>3
  <2>4. CASE /\ ~Reviewing /\ session'.phase = "reviewing"
             /\ session'.proposal \in Proposal /\ session'.proposal.prep = p
    BY <1>0, <2>1, <2>4 DEF Wanted
  <2> QED
    BY <1>6, <2>1, <2>2, <2>3, <2>4, HomeAssumption
<1>10. CASE AcceptOp
  <2>1. session.phase = "reviewing" /\ session'.proposal = session.proposal
    BY <1>10, AcceptEffect
       DEF AcceptOp, AcceptMove, AcceptRefused, AcceptLeft, AcceptCarried
  <2> QED
    BY <1>5, <1>10, <2>1 DEF AcceptOp
<1>11. CASE RecoverOp
  <2>1. session.recovering /\ session'.proposal = session.proposal
    BY <1>11, RefreshEffect DEF RecoverOp, Resolved
  <2> QED
    BY <1>5, <1>11, <2>1 DEF RecoverOp
<1>12. CASE RejectOp
  <2>1. UNCHANGED session \/ session'.proposal = None
    BY <1>0, <1>12, ClearedSession DEF RejectOp, Reject, Clear, Phases
  <2> QED
    BY <1>3, <1>4, <1>12, <2>1 DEF RejectOp
<1>13. CASE UndoRedoOp
  <2>1. UNCHANGED session \/ session'.proposal = None
    BY <1>13, UndoRedoEffect DEF UndoRedoOp, UndoRedoMove
  <2> QED
    BY <1>2, <1>3, <1>13, <2>1 DEF UndoRedoOp
<1>14. CASE Replace
  BY <1>2, <1>3, <1>14 DEF Replace, NewSession
<1>15. ASSUME NEW p \in Preps, Admit(p) PROVE pendingImport' = Wanted(session')
  <2>1. pendingImport' = IF session' # session THEN session'.proposal ELSE pendingImport
    BY <1>15 DEF Admit
  <2>2. \/ UNCHANGED session
        \/ /\ session'.phase = "reviewing" /\ session'.proposal \in Proposal
           /\ session'.proposal.prep = p
    BY <1>15, AdmitEffect DEF Admit
  <2>3. CASE UNCHANGED session
    BY <1>2, <2>1, <2>3
  <2>4. CASE session' # session
    BY <1>0, <2>1, <2>2, <2>4 DEF Wanted
  <2> QED
    BY <2>3, <2>4
<1>16. ASSUME \/ Cancel
              \/ \E p \in Preps :
                   \/ ImportReplayed(p) \/ Prepare(p) \/ WorkerReads(p)
                   \/ WorkerRefused(p) \/ WorkerAnswers(p)
              \/ \E r \in Roots : Elsewhere(r)
       PROVE  UNCHANGED <<session, pendingImport>>
  BY <1>16 DEF Cancel, ImportReplayed, Prepare, WorkerReads, WorkerRefused, WorkerAnswers,
       Elsewhere, svars, bvars
<1> QED
  BY <1>2, <1>7, <1>8, <1>9, <1>10, <1>11, <1>12, <1>13, <1>14, <1>15, <1>16 DEF Next

-----------------------------------------------------------------------------
(* The theorems.                                                           *)

LEMMA InitInductive == Init => IInv
<1> SUFFICES ASSUME Init PROVE IInv
  OBVIOUS
<1>1. TypeOK
  BY TypeInit
<1>2. own = <<>> /\ DOMAIN own = {} /\ session = NewSession /\ strayed = "nothing"
  BY DEF Init, SessionInit
<1>3. PreparationsOK /\ HeldOff
  BY NoneAssumption DEF Init, SessionInit, PreparationsOK, UnderWay, HeldOff
<1>4. SessionOK
  BY <1>2 DEF Init, NewSession, SessionOK
<1>5. LogsOK
  <2> SUFFICES ASSUME NEW r \in Roots PROVE LogOK(r)
    BY DEF LogsOK
  <2>0. PICK first : first = <<[tx |-> 1, from |-> 0, done |-> TRUE]>>
    OBVIOUS
  <2>1. \/ project[r] = [content |-> 1, open |-> None, log |-> first] /\ nextTx = 2
        \/ project[r] = [content |-> 0, open |-> None, log |-> <<>>]
    BY <2>0 DEF Init, SessionInit
  <2>2. LogOf(r) = project[r].log
    BY <2>1 DEF LogOf, Recovered
  <2>3. CASE project[r].log = <<[tx |-> 1, from |-> 0, done |-> TRUE]>> /\ nextTx = 2
    <3>1. DOMAIN LogOf(r) = {1} /\ LogOf(r)[1].tx = 1
      BY <2>2, <2>3
    <3> QED
      BY <1>2, <2>3, <3>1 DEF LogOK
  <2>4. CASE project[r].log = <<>>
    <3>1. DOMAIN LogOf(r) = {}
      BY <2>2, <2>4
    <3> QED
      BY <3>1 DEF LogOK
  <2>5. \/ project[r].log = first /\ nextTx = 2
        \/ project[r].log = <<>>
    BY <2>1
  <2> QED
    BY <2>0, <2>3, <2>4, <2>5
<1>6. OwnOK /\ NoApplyForgotten
  BY <1>2 DEF OwnOK, NoApplyForgotten
<1>7. ListOK
  <2>1. Listed = {} /\ OthersAreOlder /\ session.applied = <<>>
    BY <1>2 DEF Listed, Kept, OthersAreOlder, NewSession
  <2>2. ListsOf(own, session.applied, Listed)
    BY <2>1, ListEmpty
  <2> QED
    BY <2>1, <2>2 DEF ListOK, Lists, ListsOf
<1>8. EvidenceFollowsImport
  BY <1>2 DEF Init, NewSession, EvidenceFollowsImport, Unsettled
<1> QED
  BY <1>1, <1>3, <1>4, <1>5, <1>6, <1>7, <1>8 DEF IInv

LEMMA NoneForgottenIs == NoApplyForgotten <=> NoneForgotten
BY DEF NoApplyForgotten, NoneForgotten, IsWaiting

LEMMA StepInductive == IInv /\ [Next]_vars => IInv'
<1> SUFFICES ASSUME IInv, [Next]_vars PROVE IInv'
  OBVIOUS
<1>1. /\ TypeOK /\ PreparationsOK /\ HeldOff /\ SessionOK /\ LogsOK /\ OwnOK
      /\ NoneForgotten /\ ListOK /\ EvidenceFollowsImport
  BY NoneForgottenIs DEF IInv
<1>2. TypeOK' /\ PreparationsOK' /\ HeldOff' /\ SessionOK' /\ LogsOK' /\ OwnOK'
  BY <1>1, TypeStep, PreparationsStep, HeldOffStep, SessionStep, LogsStep
<1>3. NoneForgotten' /\ ListOK' /\ EvidenceFollowsImport'
  BY <1>1, NoApplyForgottenStep, ListStep, EvidenceStep
<1>4. NoApplyForgotten'
  BY <1>3 DEF NoApplyForgotten, NoneForgotten, IsWaiting
<1> QED
  BY <1>2, <1>3, <1>4 DEF IInv

\* IInv is an invariant of the bridge and its session.
THEOREM Inductive == Spec => []IInv
BY InitInductive, StepInductive, PTL DEF Spec

\* The state of the bridge and of the session is well formed.
THEOREM TypeCorrect == Spec => []TypeOK
<1>1. IInv => TypeOK
  BY DEF IInv
<1> QED
  BY <1>1, Inductive, PTL

\* An apply whose outcome is open is waited for by the session that began it,
\* unless it was answered that it was rejected.
THEOREM AppliesAreWaitedFor == Spec => []NoApplyForgotten
<1>1. IInv => NoApplyForgotten
  BY DEF IInv
<1> QED
  BY <1>1, Inductive, PTL

\* The list of applied roots is that of the session's transactions in effect.
THEOREM AppliedListIsExact == Spec => []AppliedIsExact
<1>1. IInv => AppliedIsExact
  <2> SUFFICES ASSUME IInv, strayed = "nothing", ~session.recovering
               PROVE  Lists(session.applied, Kept)
    BY DEF AppliedIsExact
  <2>1. session.phase # "pending" /\ Lists(session.applied, Listed)
    BY DEF IInv, SessionOK, ListOK
  <2> QED
    BY <2>1 DEF Listed
<1> QED
  BY <1>1, Inductive, PTL

LEMMA ReviewStep ==
  ASSUME IInv, [Next]_vars, Reviewing, session'.phase = "reviewing"
  PROVE  session'.proposal = session.proposal
<1>0. /\ TypeOK /\ PreparationsOK /\ HeldOff /\ SessionOK /\ LogsOK
      /\ session \in Session
  BY Types DEF IInv
<1>1. CASE UNCHANGED vars
  BY <1>1 DEF vars, svars
<1>2. ASSUME NEW r \in Roots, NEW mark \in Preps \cup {None}, ProposeEdit(r, mark)
      PROVE  session'.proposal = session.proposal
  <2>1. Cleared("idle").phase = "idle"
    BY <1>0, ClearedSession DEF Phases
  <2> QED
    BY <1>0, <1>2, <2>1, ProposeEffect
<1>3. CASE Propose \/ ImportAsset
  BY <1>2, <1>3, HomeAssumption DEF Propose, ImportAsset
<1>4. CASE AcceptOp
  BY <1>0, <1>4, AcceptEffect
     DEF AcceptOp, AcceptMove, AcceptRefused, AcceptLeft, AcceptCarried
<1>5. CASE RecoverOp
  BY <1>0, <1>5, RefreshEffect DEF RecoverOp, Resolved
<1>6. CASE RejectOp
  <2>1. Cleared("rejected").phase = "rejected"
    BY <1>0, ClearedSession DEF Phases
  <2> QED
    BY <1>6, <2>1 DEF RejectOp, Reject, Clear
<1>7. CASE UndoRedoOp
  BY <1>0, <1>7, UndoRedoEffect DEF UndoRedoOp
<1>8. CASE Replace
  BY <1>8 DEF Replace, NewSession
<1>9. ASSUME NEW p \in Preps, Admit(p) PROVE UNCHANGED session
  <2>1. staging[p] # None /\ Refused
    BY <1>0, <1>9, AdmitEffect DEF Admit, Refused
  <2>2. p \in aborted \/ staging[p].superseded
    BY <1>0, <2>1 DEF HeldOff, PreparationsOK
  <2> QED
    BY <1>0, <1>9, <2>2, AdmitEffect DEF Admit
<1>10. ASSUME \/ Cancel
              \/ \E p \in Preps :
                   \/ ImportReplayed(p) \/ Prepare(p) \/ WorkerReads(p)
                   \/ WorkerRefused(p) \/ WorkerAnswers(p)
              \/ \E r \in Roots : Elsewhere(r)
       PROVE  UNCHANGED session
  BY <1>10 DEF Cancel, ImportReplayed, Prepare, WorkerReads,
           WorkerRefused, WorkerAnswers, Elsewhere, svars
<1> QED
  BY <1>1, <1>3, <1>4, <1>5, <1>6, <1>7, <1>8, <1>9, <1>10 DEF Next

\* A proposal under review is never exchanged for another.
THEOREM ReviewKept == Spec => ReviewIsKept
<1>1. IInv /\ [Next]_vars =>
        [Reviewing /\ session'.phase = "reviewing" =>
           session'.proposal = session.proposal]_vars
  BY ReviewStep
<1> QED
  BY <1>1, Inductive, PTL DEF Spec, ReviewIsKept

LEMMA RetiredStep ==
  ASSUME IInv, [Next]_vars, NEW p \in aborted,
         session'.proposal # None, session'.proposal.prep = p
  PROVE  session'.proposal = session.proposal
<1>0. /\ TypeOK /\ PreparationsOK /\ SessionOK /\ LogsOK
      /\ session \in Session /\ p \in Preps /\ None \notin Preps
  BY Types, NoneAssumption DEF IInv, TypeOK, SessionTypeOK
<1>1. CASE UNCHANGED vars
  BY <1>1 DEF vars, svars
<1>2. ASSUME NEW r \in Roots, NEW mark \in Preps \cup {None}, ProposeEdit(r, mark), mark # p
      PROVE  session'.proposal = session.proposal
  <2>1. Cleared("idle").proposal = None
    BY <1>0, ClearedSession DEF Phases
  <2>2. \A proposal \in Proposal :
          [Cleared("reviewing") EXCEPT !.proposal = proposal].proposal = proposal
    BY <1>0, ClearedSession DEF Phases
  <2>3. \/ UNCHANGED session
        \/ session' = Cleared("idle")
        \/ \E proposal \in Proposal :
             /\ proposal.prep = mark
             /\ session' = [Cleared("reviewing") EXCEPT !.proposal = proposal]
    BY <1>0, <1>2, ProposeEffect
  <2>4. ASSUME NEW proposal \in Proposal, proposal.prep = mark,
               session' = [Cleared("reviewing") EXCEPT !.proposal = proposal]
        PROVE  FALSE
    BY <1>2, <2>2, <2>4
  <2> QED
    BY <2>1, <2>3, <2>4
<1>3. CASE Propose
  BY <1>0, <1>2, <1>3 DEF Propose
<1>4. CASE ImportAsset
  <2>1. PICK q \in Preps : preparation[q].at = "unused" /\ ProposeEdit(Home, q)
    BY <1>4 DEF ImportAsset
  <2>2. UnderWay(p)
    BY <1>0 DEF PreparationsOK
  <2>3. p # q
    BY <2>1, <2>2 DEF UnderWay
  <2> QED
    BY <1>2, <2>1, <2>3, HomeAssumption
<1>5. CASE AcceptOp
  BY <1>0, <1>5, AcceptEffect
     DEF AcceptOp, AcceptMove, AcceptRefused, AcceptLeft, AcceptCarried
<1>6. CASE RecoverOp
  BY <1>0, <1>6, RefreshEffect DEF RecoverOp, Resolved
<1>7. CASE RejectOp
  <2>1. Cleared("rejected").proposal = None
    BY <1>0, ClearedSession DEF Phases
  <2> QED
    BY <1>7, <2>1 DEF RejectOp, Reject, Clear
<1>8. CASE UndoRedoOp
  BY <1>0, <1>8, UndoRedoEffect DEF UndoRedoOp, UndoRedoMove
<1>9. CASE Replace
  BY <1>9 DEF Replace, NewSession
<1>10. ASSUME NEW q \in Preps, Admit(q) PROVE UNCHANGED session
  BY <1>0, <1>10, AdmitEffect DEF Admit
<1>11. ASSUME \/ Cancel
              \/ \E q \in Preps :
                   \/ ImportReplayed(q) \/ Prepare(q) \/ WorkerReads(q)
                   \/ WorkerRefused(q) \/ WorkerAnswers(q)
              \/ \E r \in Roots : Elsewhere(r)
       PROVE  UNCHANGED session
  BY <1>11 DEF Cancel, ImportReplayed, Prepare, WorkerReads,
           WorkerRefused, WorkerAnswers, Elsewhere, svars
<1> QED
  BY <1>1, <1>3, <1>4, <1>5, <1>6, <1>7, <1>8, <1>9, <1>10, <1>11 DEF Next

\* A preparation that was retired never becomes the review.
THEOREM RetiredNeverReviewed == Spec => RetiredStaysRetired
<1>1. IInv /\ [Next]_vars =>
        [\A p \in aborted :
           session'.proposal # None /\ session'.proposal.prep = p =>
             session'.proposal = session.proposal]_vars
  BY RetiredStep
<1> QED
  BY <1>1, Inductive, PTL DEF Spec, RetiredStaysRetired

\* The evidence of an import is held exactly as long as its edit is under review
\* or waits for recovery.
THEOREM EvidenceKept == Spec => []EvidenceFollowsImport
<1>1. IInv => EvidenceFollowsImport
  BY DEF IInv
<1> QED
  BY <1>1, Inductive, PTL
=============================================================================
