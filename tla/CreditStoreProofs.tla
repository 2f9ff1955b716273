--------------------------- MODULE CreditStoreProofs ---------------------------
(***************************************************************************)
(* What every program over the credit store relies on: the credits held are*)
(* a sum over reservations, each statement changes it by what it says, and *)
(* the ledger only grows by rows its trigger accepts.                      *)
(*                                                                         *)
(* Sums are folds, defined by recursion over finite sets.  Their equation  *)
(* and the freedom to take any element first are proved here by induction  *)
(* on cardinality, with sets of numbers in the place of predicates.  The   *)
(* keys of hosted calls need not be finite in number: the reservations are.*)
(***************************************************************************)
EXTENDS CreditStore, FiniteSetTheorems, TLAPS

-----------------------------------------------------------------------------
(* Sums over finite sets.                                                  *)

\* Induction: a set of numbers with 0 and all successors is Nat.
LEMMA NatBySuccessors ==
  ASSUME NEW N \in SUBSET Nat, 0 \in N, \A n \in N : n + 1 \in N
  PROVE  N = Nat
<1> DEFINE T == Nat \ N
<1>1. SUFFICES ASSUME T # {} PROVE FALSE
  OBVIOUS
<1> HIDE DEF T
<1>2. T \subseteq Nat
  BY DEF T
<1>3. PICK x \in T : \A y \in T : ~ (<<y, x>> \in OpToRel(<, Nat))
  BY <1>1, <1>2, NatLessThanWellFounded, WFMin
<1>4. x \in Nat /\ x # 0 /\ x - 1 \in Nat
  BY DEF T
<1>5. <<x - 1, x>> \in OpToRel(<, Nat)
  BY <1>4 DEF OpToRel
<1>6. x - 1 \in N
  BY <1>3, <1>4, <1>5 DEF T
<1> QED
  BY <1>4, <1>6 DEF T

\* The amounts of the keys S, as Reserved adds them; one unfolding of the fold.
Total(h, S)   == MapThenSumSet(LAMBDA k : h[k].amount, S)
Chosen(s)     == CHOOSE x \in s : TRUE
Adds(h, f, s) == IF s = {} THEN 0 ELSE h[Chosen(s)].amount + f[s \ {Chosen(s)}]
Iterates(h, f, S) == f = [s \in SUBSET S |-> Adds(h, f, s)]

\* The fold is the function its recursion chooses.
LEMMA TotalIsIterated ==
  ASSUME NEW h, NEW S
  PROVE  Total(h, S) = (CHOOSE f : Iterates(h, f, S))[S]
  BY DEF Iterates, Total, Adds, Chosen, MapThenSumSet, MapThenFoldSet

\* What the fold takes first is in the set.
LEMMA ChosenIn == \A s : s # {} => Chosen(s) \in s
  BY DEF Chosen

\* What is left of a finite set is one smaller.
LEMMA OneLess ==
  ASSUME NEW s, IsFiniteSet(s), NEW x \in s
  PROVE  /\ IsFiniteSet(s \ {x}) /\ Cardinality(s) \in Nat \ {0}
         /\ Cardinality(s \ {x}) \in Nat /\ Cardinality(s \ {x}) = Cardinality(s) - 1
<1>1. Cardinality(s) \in Nat /\ Cardinality(s) # 0
  BY FS_CardinalityType, FS_EmptySet
<1> QED
  BY <1>1, FS_RemoveElement, FS_CardinalityType

\* There is a function that satisfies the recursion over a finite set.
LEMMA IterationExists ==
  ASSUME NEW h, NEW S, IsFiniteSet(S)
  PROVE  \E f : Iterates(h, f, S)
<1> DEFINE Good(g, n) == \A s \in SUBSET S : Cardinality(s) <= n => g[s] = Adds(h, g, s)
           N == {n \in Nat : \E g : Good(g, n)}
<1>1. \A s \in SUBSET S : IsFiniteSet(s) /\ Cardinality(s) \in Nat /\ (Cardinality(s) = 0 <=> s = {})
  BY FS_Subset, FS_CardinalityType, FS_EmptySet
<1>2. 0 \in N
  <2>1. Good([s \in SUBSET S |-> 0], 0)
    BY <1>1 DEF Adds
  <2> QED
    BY <2>1
<1>3. ASSUME NEW n \in N PROVE n + 1 \in N
  <2>1. n \in Nat
    OBVIOUS
  <2>2. PICK g : Good(g, n)
    OBVIOUS
  <2> DEFINE e == [s \in SUBSET S |-> IF Cardinality(s) <= n THEN g[s] ELSE Adds(h, g, s)]
  <2>3. ASSUME NEW s \in SUBSET S, Cardinality(s) <= n + 1 PROVE e[s] = Adds(h, g, s)
    BY <2>2, <2>3
  <2>4. ASSUME NEW s \in SUBSET S, Cardinality(s) <= n + 1 PROVE Adds(h, e, s) = Adds(h, g, s)
    <3>1. CASE s = {}
      BY <3>1 DEF Adds
    <3>2. CASE s # {}
      <4>1. Chosen(s) \in s
        BY <3>2, ChosenIn
      <4>2. s \ {Chosen(s)} \in SUBSET S /\ Cardinality(s \ {Chosen(s)}) <= n
        BY <1>1, <2>1, <2>4, <4>1, OneLess
      <4>3. e[s \ {Chosen(s)}] = g[s \ {Chosen(s)}]
        BY <4>2
      <4> HIDE DEF e
      <4> QED
        BY <4>3 DEF Adds
    <3> QED
      BY <3>1, <3>2
  <2>5. Good(e, n + 1)
    BY <2>3, <2>4
  <2>6. \E d : Good(d, n + 1)
    BY <2>5
  <2> HIDE DEF Good
  <2> QED
    BY <2>1, <2>6
<1>4. Cardinality(S) \in N
  <2> HIDE DEF N
  <2>1. N \in SUBSET Nat
    BY DEF N
  <2> QED
    BY <1>2, <1>3, <2>1, NatBySuccessors, FS_CardinalityType
<1>5. PICK g : Good(g, Cardinality(S))
  BY <1>4
<1>6. \A s \in SUBSET S : g[s] = Adds(h, g, s)
  BY <1>5, FS_Subset
<1> DEFINE f == [s \in SUBSET S |-> g[s]]
<1>7. ASSUME NEW s \in SUBSET S PROVE Adds(h, f, s) = Adds(h, g, s)
  <2>1. s # {} => f[s \ {Chosen(s)}] = g[s \ {Chosen(s)}]
    OBVIOUS
  <2> HIDE DEF f
  <2> QED
    BY <2>1 DEF Adds
<1>8. f = [s \in SUBSET S |-> Adds(h, f, s)]
  BY <1>6, <1>7
<1> QED
  BY <1>8 DEF Iterates

\* Over a subset it is the same function.
LEMMA IterationUnique ==
  ASSUME NEW h, NEW S, IsFiniteSet(S), NEW T \in SUBSET S,
         NEW f, Iterates(h, f, S), NEW g, Iterates(h, g, T)
  PROVE  \A s \in SUBSET T : f[s] = g[s]
<1> DEFINE Agree(n) == \A s \in SUBSET T : Cardinality(s) = n => f[s] = g[s]
           N == {n \in Nat : Agree(n)}
<1>1. \A s \in SUBSET T : IsFiniteSet(s) /\ Cardinality(s) \in Nat /\ (Cardinality(s) = 0 <=> s = {})
  BY FS_Subset, FS_CardinalityType, FS_EmptySet
<1>2. \A s \in SUBSET T : f[s] = Adds(h, f, s) /\ g[s] = Adds(h, g, s)
  BY DEF Iterates
<1>3. 0 \in N
  BY <1>1, <1>2 DEF Adds
<1>4. ASSUME NEW n \in N PROVE n + 1 \in N
  <2>1. ASSUME NEW s \in SUBSET T, Cardinality(s) = n + 1 PROVE f[s] = g[s]
    <3>1. s # {} /\ Chosen(s) \in s
      BY <1>1, <2>1, ChosenIn
    <3>2. s \ {Chosen(s)} \in SUBSET T /\ Cardinality(s \ {Chosen(s)}) = n
      BY <1>1, <2>1, <3>1, OneLess
    <3>3. f[s \ {Chosen(s)}] = g[s \ {Chosen(s)}]
      BY <3>2
    <3> QED
      BY <1>2, <3>3 DEF Adds
  <2>2. Agree(n + 1)
    BY <2>1
  <2> HIDE DEF Agree
  <2> QED
    BY <2>2
<1> HIDE DEF N
<1>5. N = Nat
  <2>1. N \in SUBSET Nat
    BY DEF N
  <2> QED
    BY <1>3, <1>4, <2>1, NatBySuccessors
<1> QED
  BY <1>1, <1>5 DEF N

\* So the sum satisfies its recursion.
LEMMA TotalEquation ==
  ASSUME NEW h, NEW S, IsFiniteSet(S)
  PROVE  Total(h, S) = IF S = {} THEN 0 ELSE h[Chosen(S)].amount + Total(h, S \ {Chosen(S)})
<1> DEFINE F(s) == CHOOSE f : Iterates(h, f, s)
<1>1. \A s \in SUBSET S : IsFiniteSet(s)
  BY FS_Subset
<1>2. \A s \in SUBSET S : Iterates(h, F(s), s)
  BY <1>1, IterationExists
<1>3. \A s \in SUBSET S : Total(h, s) = F(s)[s]
  BY TotalIsIterated
<1> HIDE DEF F
<1>4. F(S)[S] = Adds(h, F(S), S)
  BY <1>2 DEF Iterates
<1>5. CASE S = {}
  BY <1>3, <1>4, <1>5 DEF Adds
<1>6. CASE S # {}
  <2> DEFINE r == S \ {Chosen(S)}
  <2>1. r \in SUBSET S
    OBVIOUS
  <2>2. F(S)[r] = F(r)[r]
    <3> HIDE DEF r
    <3> QED
      BY <1>2, <2>1, IterationUnique
  <2> QED
    BY <1>3, <1>4, <1>6, <2>1, <2>2 DEF Adds
<1> QED
  BY <1>5, <1>6

\* A sum of naturals is one.
LEMMA TotalNat ==
  ASSUME NEW h, NEW S, IsFiniteSet(S), \A k \in S : h[k].amount \in Nat
  PROVE  Total(h, S) \in Nat
<1> DEFINE N == {n \in Nat : \A s \in SUBSET S : Cardinality(s) = n => Total(h, s) \in Nat}
<1>1. \A s \in SUBSET S : IsFiniteSet(s) /\ Cardinality(s) \in Nat /\ (Cardinality(s) = 0 <=> s = {})
  BY FS_Subset, FS_CardinalityType, FS_EmptySet
<1>2. 0 \in N
  BY <1>1, TotalEquation
<1>3. ASSUME NEW n \in N PROVE n + 1 \in N
  <2>1. ASSUME NEW s \in SUBSET S, Cardinality(s) = n + 1 PROVE Total(h, s) \in Nat
    <3>1. s # {} /\ Chosen(s) \in s
      BY <1>1, <2>1, ChosenIn
    <3>2. s \ {Chosen(s)} \in SUBSET S /\ Cardinality(s \ {Chosen(s)}) = n
      BY <1>1, <2>1, <3>1, OneLess
    <3>3. Total(h, s \ {Chosen(s)}) \in Nat /\ h[Chosen(s)].amount \in Nat
      BY <3>1, <3>2
    <3>4. Total(h, s) = h[Chosen(s)].amount + Total(h, s \ {Chosen(s)})
      BY <1>1, <3>1, TotalEquation
    <3> QED
      BY <3>3, <3>4
  <2> QED
    BY <2>1
<1> HIDE DEF N
<1>4. N = Nat
  <2>1. N \in SUBSET Nat
    BY DEF N
  <2> QED
    BY <1>2, <1>3, <2>1, NatBySuccessors
<1> QED
  BY <1>1, <1>4 DEF N

\* Any element may be taken first.
LEMMA TotalRemove ==
  ASSUME NEW h, NEW S, IsFiniteSet(S), \A k \in S : h[k].amount \in Nat, NEW k \in S
  PROVE  Total(h, S) = h[k].amount + Total(h, S \ {k})
<1> DEFINE N == {n \in Nat : \A s \in SUBSET S : Cardinality(s) = n =>
                   \A x \in s : Total(h, s) = h[x].amount + Total(h, s \ {x})}
<1>1. \A s \in SUBSET S : IsFiniteSet(s) /\ Cardinality(s) \in Nat /\ (Cardinality(s) = 0 <=> s = {})
  BY FS_Subset, FS_CardinalityType, FS_EmptySet
<1>2. 0 \in N
  BY <1>1
<1>3. ASSUME NEW n \in N PROVE n + 1 \in N
  <2>1. ASSUME NEW s \in SUBSET S, Cardinality(s) = n + 1, NEW x \in s
        PROVE  Total(h, s) = h[x].amount + Total(h, s \ {x})
    <3> DEFINE y == Chosen(s)
    <3>1. s # {} /\ y \in s
      BY ChosenIn
    <3>2. Total(h, s) = h[y].amount + Total(h, s \ {y})
      BY <1>1, <3>1, TotalEquation
    <3> HIDE DEF y
    <3>3. CASE x = y
      BY <3>2, <3>3
    <3>4. CASE x # y
      <4>1. /\ s \ {x} \in SUBSET S /\ Cardinality(s \ {x}) = n
            /\ s \ {y} \in SUBSET S /\ Cardinality(s \ {y}) = n
        BY <1>1, <2>1, <3>1, OneLess
      <4>2. Total(h, s \ {y}) = h[x].amount + Total(h, (s \ {y}) \ {x})
        BY <3>4, <4>1
      <4>3. Total(h, s \ {x}) = h[y].amount + Total(h, (s \ {x}) \ {y})
        BY <3>1, <3>4, <4>1
      <4>4. (s \ {y}) \ {x} = (s \ {x}) \ {y}
        OBVIOUS
      <4> DEFINE z == (s \ {x}) \ {y}
      <4>5. z \in SUBSET S /\ IsFiniteSet(z) /\ \A e \in z : h[e].amount \in Nat
        BY <1>1
      <4>6. Total(h, z) \in Nat
        <5> HIDE DEF z
        <5> QED
          BY <4>5, TotalNat
      <4>7. h[x].amount \in Nat /\ h[y].amount \in Nat
        BY <3>1
      <4>8. /\ Total(h, s \ {y}) = h[x].amount + Total(h, z)
            /\ Total(h, s \ {x}) = h[y].amount + Total(h, z)
        BY <4>2, <4>3, <4>4
      <4> HIDE DEF z
      <4> QED
        BY <3>2, <4>6, <4>7, <4>8
    <3> QED
      BY <3>3, <3>4
  <2> QED
    BY <2>1
<1> HIDE DEF N
<1>4. N = Nat
  <2>1. N \in SUBSET Nat
    BY DEF N
  <2> QED
    BY <1>2, <1>3, <2>1, NatBySuccessors
<1> QED
  BY <1>1, <1>4 DEF N

\* The sum depends on nothing but the amounts.
LEMMA TotalSame ==
  ASSUME NEW h, NEW g, NEW S, IsFiniteSet(S), \A k \in S : h[k].amount = g[k].amount
  PROVE  Total(h, S) = Total(g, S)
<1> DEFINE N == {n \in Nat : \A s \in SUBSET S : Cardinality(s) = n => Total(h, s) = Total(g, s)}
<1>1. \A s \in SUBSET S : IsFiniteSet(s) /\ Cardinality(s) \in Nat /\ (Cardinality(s) = 0 <=> s = {})
  BY FS_Subset, FS_CardinalityType, FS_EmptySet
<1>2. 0 \in N
  BY <1>1, TotalEquation
<1>3. ASSUME NEW n \in N PROVE n + 1 \in N
  <2>1. ASSUME NEW s \in SUBSET S, Cardinality(s) = n + 1 PROVE Total(h, s) = Total(g, s)
    <3>1. s # {} /\ Chosen(s) \in s
      BY <1>1, <2>1, ChosenIn
    <3>2. s \ {Chosen(s)} \in SUBSET S /\ Cardinality(s \ {Chosen(s)}) = n
      BY <1>1, <2>1, <3>1, OneLess
    <3>3. Total(h, s \ {Chosen(s)}) = Total(g, s \ {Chosen(s)})
      BY <3>2
    <3>4. /\ Total(h, s) = h[Chosen(s)].amount + Total(h, s \ {Chosen(s)})
          /\ Total(g, s) = g[Chosen(s)].amount + Total(g, s \ {Chosen(s)})
      BY <1>1, <3>1, TotalEquation
    <3>5. h[Chosen(s)].amount = g[Chosen(s)].amount
      BY <3>1
    <3> QED
      BY <3>3, <3>4, <3>5
  <2> QED
    BY <2>1
<1> HIDE DEF N
<1>4. N = Nat
  <2>1. N \in SUBSET Nat
    BY DEF N
  <2> QED
    BY <1>2, <1>3, <2>1, NatBySuccessors
<1> QED
  BY <1>1, <1>4 DEF N

Summable(h, S) == IsFiniteSet(S) /\ \A k \in S : h[k].amount \in Nat

\* A sum with and without one key, in it or not.
LEMMA TotalWith ==
  ASSUME NEW h, NEW S, Summable(h, S), NEW k, NEW rest, rest = S \ {k}
  PROVE  /\ Total(h, rest) \in Nat
         /\ k \in S => Total(h, S) = Total(h, rest) + h[k].amount
         /\ k \notin S => Total(h, S) = Total(h, rest)
<1>1. IsFiniteSet(S) /\ \A x \in S : h[x].amount \in Nat
  BY DEF Summable
<1>2. Total(h, rest) \in Nat
  <2>1. IsFiniteSet(rest) /\ \A x \in rest : h[x].amount \in Nat
    BY <1>1, FS_RemoveElement
  <2> QED
    BY <2>1, TotalNat
<1>3. ASSUME k \in S PROVE Total(h, S) = Total(h, rest) + h[k].amount
  BY <1>1, <1>2, <1>3, TotalRemove
<1>4. k \notin S => rest = S
  OBVIOUS
<1> QED
  BY <1>2, <1>3, <1>4

-----------------------------------------------------------------------------
(* The credits held.                                                       *)

StoreOK ==
  /\ StoreTypeOK
  /\ IsFiniteSet({k \in UsageKeys : holds[k] # None})
  /\ FundsCovered

\* Reserved is such a sum, before a step and after it.
LEMMA ReservedIsTotal ==
  /\ \A own : Reserved(own) = Total(holds, Outstanding(own))
  /\ (\A own : Reserved(own) = Total(holds, Outstanding(own)))'
BY DEF Reserved, Total

\* What is outstanding is a finite set of reservations.
LEMMA OutstandingOf ==
  ASSUME StoreTypeOK, IsFiniteSet({k \in UsageKeys : holds[k] # None}), NEW own
  PROVE  /\ IsFiniteSet(Outstanding(own))
         /\ \A k \in Outstanding(own) : holds[k] \in Hold /\ holds[k].amount \in Nat
         /\ Outstanding(own) = Outstanding(None) \ {own}
<1>1. \A k \in Outstanding(own) : holds[k] \in Hold
  BY DEF Outstanding, StoreTypeOK
<1>2. Outstanding(own) \in SUBSET {k \in UsageKeys : holds[k] # None}
  BY DEF Outstanding
<1>3. IsFiniteSet(Outstanding(own))
  BY <1>2, FS_Subset
<1>4. Outstanding(own) = Outstanding(None) \ {own}
  BY MarkersAssumption DEF Outstanding
<1>5. \A k \in Outstanding(own) : holds[k].amount \in Nat
  BY <1>1, BalanceAssumption DEF Hold
<1> QED
  BY <1>1, <1>3, <1>4, <1>5

\* The share of one key in what is reserved.
LEMMA ReservedOf ==
  ASSUME StoreTypeOK, IsFiniteSet({k \in UsageKeys : holds[k] # None}), NEW own
  PROVE  /\ Reserved(own) \in Nat
         /\ own \in Outstanding(None) => Reserved(None) = Reserved(own) + holds[own].amount
         /\ own \notin Outstanding(None) => Reserved(None) = Reserved(own)
<1>1. Summable(holds, Outstanding(None))
  BY OutstandingOf DEF Summable
<1>2. Outstanding(own) = Outstanding(None) \ {own}
  BY OutstandingOf
<1> QED
  BY <1>1, <1>2, ReservedIsTotal, TotalWith

\* Only the key own changes: what the others hold is what it was.
LEMMA ReservedKept ==
  ASSUME StoreTypeOK, IsFiniteSet({k \in UsageKeys : holds[k] # None}), StoreTypeOK',
         NEW own, \A k \in UsageKeys \ {own} : holds'[k] = holds[k] /\ (Committed(k)' <=> Committed(k))
  PROVE  /\ IsFiniteSet({k \in UsageKeys : holds'[k] # None})
         /\ Reserved(own)' = Reserved(own)
         /\ own \in Outstanding(None)' => Reserved(None)' = Reserved(own) + holds'[own].amount
         /\ own \notin Outstanding(None)' => Reserved(None)' = Reserved(own)
<1>1. IsFiniteSet({k \in UsageKeys : holds'[k] # None})
  <2>1. {k \in UsageKeys : holds'[k] # None} \in SUBSET ({k \in UsageKeys : holds[k] # None} \cup {own})
    OBVIOUS
  <2>2. IsFiniteSet({k \in UsageKeys : holds[k] # None} \cup {own})
    BY FS_AddElement
  <2> QED
    BY <2>1, <2>2, FS_Subset
<1>2. Outstanding(own)' = Outstanding(own)
  BY DEF Outstanding
<1>3. /\ IsFiniteSet(Outstanding(own)) 
      /\ \A k \in Outstanding(own) : holds'[k].amount = holds[k].amount
  BY OutstandingOf DEF Outstanding
<1>4. Reserved(own)' = Total(holds', Outstanding(own)) /\ Reserved(own) = Total(holds, Outstanding(own))
  BY <1>2, ReservedIsTotal
<1>5. Reserved(own)' = Reserved(own)
  BY <1>3, <1>4, TotalSame
<1>6. /\ Outstanding(None)' \in SUBSET {k \in UsageKeys : holds'[k] # None}
      /\ Outstanding(own)' = Outstanding(None)' \ {own}
  BY MarkersAssumption DEF Outstanding
<1>7. Summable(holds', Outstanding(None)')
  <2>1. \A k \in Outstanding(None)' : holds'[k] \in Hold
    BY <1>6 DEF StoreTypeOK
  <2> QED
    BY <1>1, <1>6, <2>1, FS_Subset, BalanceAssumption DEF Hold, Summable
<1>8. Reserved(None)' = Total(holds', Outstanding(None)')
  BY ReservedIsTotal
<1>9. Reserved(own)' = Total(holds', Outstanding(own)')
  BY ReservedIsTotal
<1> QED
  BY <1>1, <1>5, <1>6, <1>7, <1>8, <1>9, TotalWith

-----------------------------------------------------------------------------
(* The ledger.                                                             *)

\* A row commits its own key and no other.
LEMMA CommittedAppend ==
  ASSUME ledger \in Seq(Row), NEW row \in Row, NEW k, ledger' = Append(ledger, row)
  PROVE  Committed(k)' <=> Committed(k) \/ k = row.key
<1>1. Len(ledger') = Len(ledger) + 1 /\ Len(ledger) \in Nat
  OBVIOUS
<1>2. \A i \in 1..Len(ledger) : ledger'[i] = ledger[i]
  OBVIOUS
<1>3. ledger'[Len(ledger) + 1] = row
  OBVIOUS
<1>4. Committed(k) <=> \E i \in 1..Len(ledger) : ledger[i].key = k
  BY DEF Committed, RowOf
<1>5. Committed(k)' <=> \E i \in 1..Len(ledger') : ledger'[i].key = k
  BY DEF Committed, RowOf
<1> QED
  BY <1>1, <1>2, <1>3, <1>4, <1>5

\* What an append does: nothing, or a row the trigger accepted.
LEMMA AppendEffect ==
  ASSUME ledger \in Seq(Row), NEW key \in Keys, NEW delta \in -MaxBalance..MaxBalance,
         NEW n, AppendOrReplay(Extending(key, delta, n))
  PROVE  /\ ledger' \in Seq(Row)
         /\ \/ ledger' = ledger
            \/ /\ ledger' = Append(ledger, Extending(key, delta, n))
               /\ Extending(key, delta, n) \in Row
               /\ ChainAccepts(Extending(key, delta, n))
               /\ ~Committed(key)
<1> DEFINE row == Extending(key, delta, n)
<1>1. CASE AppendAnswer(row) # "appended"
  BY <1>1 DEF AppendOrReplay
<1>2. CASE AppendAnswer(row) = "appended"
  <2>1. ledger' = Append(ledger, row) /\ ChainAccepts(row) /\ ~Committed(key)
    BY <1>2 DEF AppendOrReplay, AppendAnswer, Extending
  <2>2. row.sequence \in Nat \ {0} /\ row.balanceAfter \in 0..MaxBalance
    BY <2>1 DEF ChainAccepts
  <2>3. row \in Row
    BY <2>2 DEF Extending, Row
  <2> QED
    BY <2>1, <2>3
<1> QED
  BY <1>1, <1>2

\* A row the trigger accepted, under a key nobody used, keeps the history valid.
LEMMA ChainAppend ==
  ASSUME ledger \in Seq(Row), ChainValid, NEW row \in Row, ChainAccepts(row),
         ~Committed(row.key), ledger' = Append(ledger, row)
  PROVE  ChainValid'
<1> DEFINE n == Len(ledger)
<1>1. /\ n \in Nat /\ Len(ledger') = n + 1 /\ ledger'[n + 1] = row
      /\ \A i \in 1..n : ledger'[i] = ledger[i]
  OBVIOUS
<1>2. \A i \in 0..n : BalanceAt(i)' = BalanceAt(i)
  BY <1>1 DEF BalanceAt
<1>3. \A i \in 1..n : ledger[i].key # row.key
  BY DEF Committed, RowOf
<1>4. row.sequence = n + 1 /\ row.balanceAfter = BalanceAt(n) + row.delta /\ row.balanceAfter >= 0
  BY BalanceAssumption DEF ChainAccepts, Balance
<1> HIDE DEF n
<1>5. ASSUME NEW i \in 1..(n + 1)
      PROVE  /\ ledger'[i].sequence = i
             /\ ledger'[i].balanceAfter = BalanceAt(i - 1)' + ledger'[i].delta
             /\ ledger'[i].balanceAfter >= 0
             /\ \A j \in 1..(n + 1) : ledger'[i].key = ledger'[j].key => i = j
  <2>1. CASE i = n + 1
    <3>1. i - 1 \in 0..n /\ i - 1 = n
      BY <1>1, <2>1
    <3>2. \A j \in 1..(n + 1) : j = n + 1 \/ j \in 1..n
      BY <1>1
    <3> QED
      BY <1>1, <1>2, <1>3, <1>4, <2>1, <3>1, <3>2
  <2>2. CASE i \in 1..n
    <3>1. i - 1 \in 0..n
      BY <1>1, <2>2
    <3>2. /\ ledger[i].sequence = i
          /\ ledger[i].balanceAfter = BalanceAt(i - 1) + ledger[i].delta
          /\ ledger[i].balanceAfter >= 0
          /\ \A j \in 1..n : ledger[i].key = ledger[j].key => i = j
      BY <2>2 DEF ChainValid, n
    <3>3. \A j \in 1..(n + 1) : j = n + 1 \/ j \in 1..n
      BY <1>1
    <3> QED
      BY <1>1, <1>2, <1>3, <2>2, <3>1, <3>2, <3>3
  <2> QED
    BY <1>1, <2>1, <2>2
<1> QED
  BY <1>1, <1>5 DEF ChainValid

\* The balance is that of the last row, or zero.
LEMMA BalanceType ==
  ASSUME StoreTypeOK
  PROVE  Balance \in 0..MaxBalance
<1>1. CASE Len(ledger) = 0
  BY <1>1, BalanceAssumption DEF Balance, BalanceAt
<1>2. CASE Len(ledger) # 0
  <2>1. ledger[Len(ledger)] \in Row
    BY <1>2 DEF StoreTypeOK
  <2> QED
    BY <1>2, <2>1 DEF Balance, BalanceAt, Row
<1> QED
  BY <1>1, <1>2

\* A row's balance is the account's.
LEMMA BalanceAppend ==
  ASSUME ledger \in Seq(Row), NEW row \in Row, ledger' = Append(ledger, row)
  PROVE  Balance' = row.balanceAfter
<1>1. /\ Len(ledger) \in Nat /\ Len(ledger') = Len(ledger) + 1
      /\ ledger'[Len(ledger) + 1] = row
  OBVIOUS
<1> QED
  BY <1>1 DEF Balance, BalanceAt

-----------------------------------------------------------------------------
(* What each statement does to the account.                                *)

PromisesKept  == \A u \in UsageKeys : PromiseTo(u)' = PromiseTo(u)
OthersKept(k) == \A u \in UsageKeys \ {k} : PromiseTo(u)' = PromiseTo(u)

\* A movement under a key of its own.
LEMMA MovementRow ==
  ASSUME StoreOK, NEW row \in Row, row.key \in OtherKeys, ChainAccepts(row),
         ~Committed(row.key), ledger' = Append(ledger, row), UNCHANGED holds
  PROVE  /\ StoreOK'
         /\ Free' = Free + row.delta /\ Free' >= 0
         /\ row.key \notin Moved /\ Moved' = Moved \cup {row.key}
         /\ PromisesKept
<1>1. StoreTypeOK'
  BY DEF StoreOK, StoreTypeOK
<1>2. row.key \notin UsageKeys
  BY KeysAssumption
<1>3. \A k : Committed(k)' <=> Committed(k) \/ k = row.key
  BY CommittedAppend DEF StoreOK, StoreTypeOK
<1>4. \A k \in UsageKeys \ {row.key} : holds'[k] = holds[k] /\ (Committed(k)' <=> Committed(k))
  BY <1>2, <1>3
<1>5. row.key \notin Outstanding(None) /\ row.key \notin Outstanding(None)'
  BY <1>2 DEF Outstanding
<1>6. /\ IsFiniteSet({k \in UsageKeys : holds'[k] # None})
      /\ Reserved(None)' = Reserved(row.key)
      /\ Reserved(None) = Reserved(row.key) /\ Reserved(row.key) \in Nat
  BY <1>1, <1>4, <1>5, ReservedKept, ReservedOf DEF StoreOK
<1>7. /\ Balance \in 0..MaxBalance /\ Balance' = row.balanceAfter
      /\ row.balanceAfter = Balance + row.delta
      /\ row.balanceAfter >= Reserved(row.key)
  BY BalanceType, BalanceAppend DEF StoreOK, StoreTypeOK, ChainAccepts
<1>8. row.delta \in Int
  BY BalanceAssumption DEF Row
<1>9. Free' = Free + row.delta /\ Free' >= 0 /\ FundsCovered'
  BY <1>6, <1>7, <1>8, BalanceAssumption DEF Free, FundsCovered
<1>10. row.key \notin Moved /\ Moved' = Moved \cup {row.key}
  BY <1>3 DEF Moved
<1>11. PromisesKept
  BY <1>4, <1>2 DEF PromisesKept, OthersKept, PromiseTo
<1> QED
  BY <1>1, <1>6, <1>9, <1>10, <1>11 DEF StoreOK

\* The debit of a call, of exactly what was held for it.
LEMMA DebitRow ==
  ASSUME StoreOK, NEW row \in Row, row.key \in Outstanding(None),
         row.balanceAfter = Balance + row.delta, row.delta = -holds[row.key].amount,
         ledger' = Append(ledger, row), holds' \in [UsageKeys -> Hold \cup {None}],
         \A k \in UsageKeys \ {row.key} : holds'[k] = holds[k]
  PROVE  /\ StoreOK'
         /\ UNCHANGED <<Free, Moved>>
         /\ PromiseTo(row.key) = holds[row.key].amount /\ PromiseTo(row.key)' = Spent
         /\ OthersKept(row.key)
<1>1. StoreTypeOK'
  BY DEF StoreOK, StoreTypeOK
<1>2. row.key \in UsageKeys /\ holds[row.key] # None /\ ~Committed(row.key)
  BY DEF Outstanding
<1>3. \A k : Committed(k)' <=> Committed(k) \/ k = row.key
  BY CommittedAppend DEF StoreOK, StoreTypeOK
<1>4. \A k \in UsageKeys \ {row.key} : holds'[k] = holds[k] /\ (Committed(k)' <=> Committed(k))
  BY <1>3
<1>5. row.key \notin Outstanding(None)'
  BY <1>3 DEF Outstanding
<1>6. /\ IsFiniteSet({k \in UsageKeys : holds'[k] # None})
      /\ Reserved(None)' = Reserved(row.key)
      /\ Reserved(None) = Reserved(row.key) + holds[row.key].amount /\ Reserved(row.key) \in Nat
  BY <1>1, <1>4, <1>5, ReservedKept, ReservedOf DEF StoreOK
<1>7. /\ Balance \in 0..MaxBalance /\ Balance' = Balance - holds[row.key].amount
      /\ holds[row.key].amount \in Nat
  <2>1. holds[row.key].amount \in Nat
    BY OutstandingOf DEF StoreOK
  <2> QED
    BY <2>1, BalanceType, BalanceAppend, BalanceAssumption DEF StoreOK, StoreTypeOK
<1>8. Free' = Free /\ FundsCovered'
  BY <1>6, <1>7, BalanceAssumption DEF StoreOK, Free, FundsCovered
<1>9. Moved' = Moved
  BY <1>2, <1>3, KeysAssumption DEF Moved
<1>10. OthersKept(row.key)
  BY <1>4 DEF PromisesKept, OthersKept, PromiseTo
<1>11. PromiseTo(row.key) = holds[row.key].amount /\ PromiseTo(row.key)' = Spent
  BY <1>2, <1>3 DEF PromiseTo
<1> QED
  BY <1>1, <1>6, <1>8, <1>9, <1>10, <1>11 DEF StoreOK

\* What is held for a call can be charged.
LEMMA Chargeable ==
  ASSUME StoreOK, NEW k \in Outstanding(None)
  PROVE  Balance - holds[k].amount \in 0..MaxBalance
<1>1. Reserved(None) = Reserved(k) + holds[k].amount /\ Reserved(k) \in Nat
  BY ReservedOf DEF StoreOK
<1>2. holds[k].amount \in Nat /\ Balance \in 0..MaxBalance
  BY OutstandingOf, BalanceType DEF StoreOK
<1> QED
  BY <1>1, <1>2, BalanceAssumption DEF StoreOK, FundsCovered

\* A reservation taken.  Under a key that was charged already it holds nothing.
LEMMA HoldTaken ==
  ASSUME StoreOK, NEW k \in UsageKeys, NEW amount \in 1..MaxBalance, UNCHANGED ledger,
         ReserveAnswer(k, amount) = "acquired",
         SetHold(k, [amount |-> amount, status |-> "pending"])
  PROVE  /\ StoreOK'
         /\ Moved' = Moved
         /\ OthersKept(k)
         /\ \/ Free' = Free /\ PromiseTo(k)' = PromiseTo(k)
            \/ /\ PromiseTo(k) = None /\ PromiseTo(k)' = amount
               /\ amount \in 1..Free /\ Free' = Free - amount
<1> DEFINE hold == [amount |-> amount, status |-> "pending"]
<1>1. hold \in Hold /\ hold # None /\ hold.amount = amount /\ hold.status = "pending"
  BY NoneAssumption DEF Hold
<1>2. holds' = [holds EXCEPT ![k] = hold]
  BY DEF SetHold
<1> HIDE DEF hold
<1>3. holds[k] = None /\ Balance - Reserved(None) >= amount
  <2>1. holds[k] = None
    BY DEF ReserveAnswer, StoreOK, StoreTypeOK, Hold
  <2>2. Reserved(None) \in Nat /\ Balance \in 0..MaxBalance
    BY ReservedOf, BalanceType DEF StoreOK
  <2> QED
    BY <2>1, <2>2, BalanceAssumption DEF ReserveAnswer
<1>4. StoreTypeOK' /\ holds'[k] = hold
  BY <1>1, <1>2 DEF StoreOK, StoreTypeOK
<1>5. \A u : Committed(u)' <=> Committed(u)
  BY DEF Committed, RowOf
<1>6. \A u \in UsageKeys \ {k} : holds'[u] = holds[u] /\ (Committed(u)' <=> Committed(u))
  BY <1>2, <1>5 DEF StoreOK, StoreTypeOK
<1>7. k \notin Outstanding(None) /\ (k \in Outstanding(None)' <=> ~Committed(k))
  BY <1>1, <1>3, <1>4, <1>5, MarkersAssumption DEF Outstanding
<1>8. /\ IsFiniteSet({u \in UsageKeys : holds'[u] # None})
      /\ Reserved(k)' = Reserved(k) /\ Reserved(None) = Reserved(k) /\ Reserved(k) \in Nat
      /\ ~Committed(k) => Reserved(None)' = Reserved(k) + amount
      /\ Committed(k) => Reserved(None)' = Reserved(k)
  BY <1>1, <1>4, <1>6, <1>7, ReservedKept, ReservedOf DEF StoreOK
<1>9. Balance' = Balance /\ Balance \in 0..MaxBalance
  BY BalanceType DEF StoreOK, Balance, BalanceAt
<1>10. Moved' = Moved /\ OthersKept(k)
  BY <1>5, <1>6 DEF Moved, PromisesKept, OthersKept, PromiseTo
<1>11. CASE Committed(k)
  <2>1. Free' = Free /\ FundsCovered'
    BY <1>8, <1>9, <1>11, BalanceAssumption DEF StoreOK, Free, FundsCovered
  <2>2. PromiseTo(k)' = PromiseTo(k)
    BY <1>5, <1>11 DEF PromisesKept, OthersKept, PromiseTo
  <2> QED
    BY <1>4, <1>8, <1>10, <2>1, <2>2 DEF StoreOK
<1>12. CASE ~Committed(k)
  <2>1. /\ Free' = Free - amount /\ amount \in 1..Free /\ FundsCovered'
    BY <1>3, <1>8, <1>9, <1>12, BalanceAssumption DEF StoreOK, Free, FundsCovered
  <2>2. PromiseTo(k) = None /\ PromiseTo(k)' = amount
    BY <1>1, <1>3, <1>4, <1>5, <1>12 DEF PromiseTo
  <2> QED
    BY <1>4, <1>8, <1>10, <2>1, <2>2 DEF StoreOK
<1> QED
  BY <1>11, <1>12

\* A reservation marked: it still holds what it held.
LEMMA HoldMarked ==
  ASSUME StoreOK, NEW k \in UsageKeys, UNCHANGED ledger, holds[k] # None,
         NEW status \in {"response-ready", "completed"},
         SetHold(k, [holds[k] EXCEPT !.status = status]),
         \/ Committed(k)
         \/ holds[k].status # "completed" /\ status # "completed"
  PROVE  StoreOK' /\ UNCHANGED <<Free, Moved>> /\ PromisesKept
<1> DEFINE hold == [holds[k] EXCEPT !.status = status]
<1>1. /\ hold \in Hold /\ hold # None /\ hold.amount = holds[k].amount /\ hold.status = status
      /\ holds[k] \in Hold
  BY NoneAssumption DEF StoreOK, StoreTypeOK, Hold
<1>2. holds' = [holds EXCEPT ![k] = hold]
  BY DEF SetHold
<1> HIDE DEF hold
<1>3. StoreTypeOK' /\ holds'[k] = hold
  BY <1>1, <1>2 DEF StoreOK, StoreTypeOK
<1>4. \A u : Committed(u)' <=> Committed(u)
  BY DEF Committed, RowOf
<1>5. \A u \in UsageKeys \ {k} : holds'[u] = holds[u] /\ (Committed(u)' <=> Committed(u))
  BY <1>2, <1>4 DEF StoreOK, StoreTypeOK
<1>6. k \in Outstanding(None)' <=> k \in Outstanding(None)
  BY <1>1, <1>3, <1>4 DEF Outstanding, Hold
<1>7. /\ IsFiniteSet({u \in UsageKeys : holds'[u] # None})
      /\ Reserved(None)' = Reserved(None)
  BY <1>1, <1>3, <1>5, <1>6, ReservedKept, ReservedOf DEF StoreOK
<1>8. Balance' = Balance
  BY DEF Balance, BalanceAt
<1>9. Moved' = Moved /\ PromisesKept
  BY <1>1, <1>3, <1>4, <1>5 DEF Moved, PromisesKept, OthersKept, PromiseTo
<1> QED
  BY <1>3, <1>7, <1>8, <1>9 DEF StoreOK, Free, FundsCovered

\* A reservation given back.
LEMMA HoldReleased ==
  ASSUME StoreOK, NEW k \in UsageKeys, NEW amount, UNCHANGED ledger,
         ReleaseAccepted(k, amount), SetHold(k, None)
  PROVE  /\ StoreOK'
         /\ Moved' = Moved
         /\ OthersKept(k)
         /\ PromiseTo(k) = amount /\ PromiseTo(k)' = None
         /\ amount \in Nat /\ Free' = Free + amount
<1>1. /\ holds[k] # None /\ holds[k].amount = amount /\ holds[k].status = "pending"
      /\ ~Committed(k)
  BY DEF ReleaseAccepted, Held
<1>2. StoreTypeOK' /\ holds'[k] = None
  BY DEF StoreOK, StoreTypeOK, SetHold
<1>3. \A u : Committed(u)' <=> Committed(u)
  BY DEF Committed, RowOf
<1>4. \A u \in UsageKeys \ {k} : holds'[u] = holds[u] /\ (Committed(u)' <=> Committed(u))
  BY <1>3 DEF StoreOK, StoreTypeOK, SetHold
<1>5. k \in Outstanding(None) /\ k \notin Outstanding(None)'
  BY <1>1, <1>2, MarkersAssumption DEF Outstanding
<1>6. /\ IsFiniteSet({u \in UsageKeys : holds'[u] # None})
      /\ Reserved(None)' = Reserved(k)
      /\ Reserved(None) = Reserved(k) + amount /\ Reserved(k) \in Nat
  BY <1>1, <1>2, <1>4, <1>5, ReservedKept, ReservedOf DEF StoreOK
<1>7. amount \in Nat /\ Balance' = Balance /\ Balance \in 0..MaxBalance
  BY <1>1, <1>5, OutstandingOf, BalanceType DEF StoreOK, Balance, BalanceAt
<1>8. Free' = Free + amount /\ FundsCovered'
  BY <1>6, <1>7, BalanceAssumption DEF StoreOK, Free, FundsCovered
<1>9. Moved' = Moved /\ OthersKept(k)
  BY <1>3, <1>4 DEF Moved, PromisesKept, OthersKept, PromiseTo
<1>10. PromiseTo(k) = amount /\ PromiseTo(k)' = None
  BY <1>1, <1>2, <1>3 DEF PromiseTo
<1> QED
  BY <1>2, <1>6, <1>7, <1>8, <1>9, <1>10 DEF StoreOK

\* A step of the program that touches neither rows nor reservations.
LEMMA StoreUnchanged ==
  ASSUME StoreOK, UNCHANGED <<ledger, holds>>
  PROVE  StoreOK' /\ UNCHANGED <<Free, Moved>> /\ PromisesKept
<1>1. \A k : Committed(k)' <=> Committed(k)
  BY DEF Committed, RowOf
<1>2. Balance' = Balance /\ Outstanding(None)' = Outstanding(None)
  BY <1>1 DEF Balance, BalanceAt, Outstanding
<1>3. Reserved(None)' = Reserved(None)
  BY <1>2, ReservedIsTotal
<1>4. UNCHANGED <<Free, Moved>> /\ PromisesKept
  BY <1>1, <1>2, <1>3 DEF Free, Moved, PromisesKept, PromiseTo
<1>5. StoreOK'
  BY <1>2, <1>3 DEF StoreOK, StoreTypeOK, FundsCovered
<1> QED
  BY <1>4, <1>5

\* An account without rows and reservations.
LEMMA StoreStarts ==
  ASSUME StoreInit
  PROVE  StoreOK /\ Free = 0 /\ Moved = {} /\ \A k \in UsageKeys : PromiseTo(k) = None /\ ~Committed(k)
<1>1. ledger = <<>> /\ holds = [k \in UsageKeys |-> None]
  BY DEF StoreInit
<1>2. StoreTypeOK /\ {k \in UsageKeys : holds[k] # None} = {} /\ Outstanding(None) = {}
  BY <1>1 DEF StoreTypeOK, Outstanding
<1>3. Balance = 0 /\ \A k : ~Committed(k)
  BY <1>1 DEF Balance, BalanceAt, Committed, RowOf
<1>4. IsFiniteSet({})
  BY FS_EmptySet
<1>5. Reserved(None) = 0
  BY <1>2, <1>4, ReservedIsTotal, TotalEquation
<1>6. StoreOK
  BY <1>2, <1>3, <1>4, <1>5 DEF StoreOK, FundsCovered
<1>7. Free = 0 /\ Moved = {} /\ \A k \in UsageKeys : PromiseTo(k) = None
  BY <1>1, <1>3, <1>5 DEF Free, PromiseTo, Moved
<1> QED
  BY <1>3, <1>6, <1>7
=============================================================================
