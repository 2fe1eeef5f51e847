------------------------- MODULE SpendLedgerProofs -------------------------
(* Proofs about SpendLedger, for any finite number of calls, any replicas,  *)
(* permits, estimates and ceiling.                                          *)
EXTENDS SpendLedger, FiniteSetTheorems, TLAPS

-----------------------------------------------------------------------------
(* Sums over the rows of the ledger (_totals).  MapThenSumSet is recursive; *)
(* facts about it follow from minimal counterexamples.                      *)

Sum(f, S) == MapThenSumSet(LAMBDA a : f[a], S)
(* What MapThenSumSet unfolds to: the recursion that h must satisfy.        *)
Pick(s) == CHOOSE x \in s : TRUE
Sums(h, f, S) ==
  h = [s \in SUBSET S |-> IF s = {} THEN 0 ELSE f[Pick(s)] + h[s \ {Pick(s)}]]

(* A set of subsets of a finite set has a minimal member: the induction     *)
(* principle behind the lemmas below.                                       *)
LEMMA Minimal ==
  ASSUME NEW A, IsFiniteSet(A), NEW Bad, Bad \subseteq SUBSET A, Bad # {}
  PROVE  \E m \in Bad : \A s \in Bad : ~(s \subseteq m /\ s # m)
  <1> DEFINE R == StrictSubsetOrdering(A)
  <1>1. IsWellFoundedOn(R, FiniteSubsetsOf(A))
    BY FS_StrictSubsetOrderingWellFounded
  <1>2. Bad \subseteq FiniteSubsetsOf(A)
    BY FS_FiniteSubsetsOfFinite
  <1> HIDE DEF R
  <1>3. \E m \in Bad : \A s \in Bad : ~(<<s, m>> \in R)
    BY <1>1, <1>2, WFMin
  <1>4. PICK m \in Bad : \A s \in Bad : ~(<<s, m>> \in R)
    BY <1>3
  <1> USE DEF R
  <1>5. ASSUME NEW s \in Bad, s \subseteq m, s # m
        PROVE  <<s, m>> \in R
    BY <1>5 DEF StrictSubsetOrdering
  <1> HIDE DEF R
  <1>6. \A s \in Bad : ~(s \subseteq m /\ s # m)
    BY <1>4, <1>5
  <1> QED
    BY <1>6

(* What MapThenSumSet takes out of a set makes it smaller.                  *)
LEMMA Picked ==
  ASSUME NEW s, s # {}
  PROVE  Pick(s) \in s /\ s \ {Pick(s)} \subseteq s /\ s \ {Pick(s)} # s
  BY DEF Pick

(* The recursion at one set.                                               *)
LEMMA SumsAt ==
  ASSUME NEW f, NEW S, NEW h, Sums(h, f, S), NEW s, s \subseteq S
  PROVE  /\ s = {} => h[s] = 0
         /\ s # {} => h[s] = f[Pick(s)] + h[s \ {Pick(s)}]
  BY DEF Sums

(* Two functions that satisfy the recursion agree where both are defined.   *)
LEMMA SumsUnique ==
  ASSUME NEW A, IsFiniteSet(A), NEW f, NEW S, S \subseteq A, NEW T, T \subseteq A,
         NEW g, Sums(g, f, S), NEW h, Sums(h, f, T),
         NEW s, s \subseteq S, s \subseteq T
  PROVE  g[s] = h[s]
  <1> DEFINE Bad == {t \in SUBSET s : g[t] # h[t]}
  <1> SUFFICES ASSUME Bad # {}
               PROVE  FALSE
    OBVIOUS
  <1>1. PICK m \in Bad : \A t \in Bad : ~(t \subseteq m /\ t # m)
    <2>1. Bad \subseteq SUBSET A
      OBVIOUS
    <2> HIDE DEF Bad
    <2> QED
      BY <2>1, Minimal
  <1>2. m \subseteq s /\ g[m] # h[m]
    OBVIOUS
  <1>3. m = {} => g[m] = 0 /\ h[m] = 0
    BY <1>2, SumsAt
  <1>4. m # {} => /\ g[m] = f[Pick(m)] + g[m \ {Pick(m)}]
                  /\ h[m] = f[Pick(m)] + h[m \ {Pick(m)}]
    BY <1>2, SumsAt
  <1>5. m # {} => m \ {Pick(m)} \notin Bad
    BY <1>1, Picked
  <1>6. m # {} => g[m \ {Pick(m)}] = h[m \ {Pick(m)}]
    BY <1>2, <1>5
  <1> QED
    BY <1>2, <1>3, <1>4, <1>6

(* The recursion holds on a smaller set too.                                *)
LEMMA SumsRestricted ==
  ASSUME NEW f, NEW S, NEW g, Sums(g, f, S), NEW T, T \subseteq S
  PROVE  Sums([s \in SUBSET T |-> g[s]], f, T)
  <1> DEFINE h == [s \in SUBSET T |-> g[s]]
  <1>1. ASSUME NEW s \in SUBSET T
        PROVE  h[s] = IF s = {} THEN 0 ELSE f[Pick(s)] + h[s \ {Pick(s)}]
    BY <1>1, Picked DEF Sums
  <1> QED
    BY <1>1 DEF Sums

(* Some function satisfies the recursion: the definition is not vacuous.    *)
LEMMA SumsExist ==
  ASSUME NEW A, IsFiniteSet(A), NEW f
  PROVE  \A S \in SUBSET A : \E h : Sums(h, f, S)
  <1> DEFINE Bad == {S \in SUBSET A : ~ \E h : Sums(h, f, S)}
  <1> SUFFICES ASSUME Bad # {}
               PROVE  FALSE
    OBVIOUS
  <1>1. PICK m \in Bad : \A t \in Bad : ~(t \subseteq m /\ t # m)
    <2>1. Bad \subseteq SUBSET A
      OBVIOUS
    <2> HIDE DEF Bad
    <2> QED
      BY <2>1, Minimal
  <1> DEFINE H(t) == CHOOSE h : Sums(h, f, t)
  <1>2. ASSUME NEW t, t \subseteq m, t # m
        PROVE  Sums(H(t), f, t)
    <2>1. t \notin Bad /\ t \in SUBSET A
      BY <1>1, <1>2
    <2>2. \E h : Sums(h, f, t)
      BY <2>1
    <2> QED
      BY <2>2
  <1> HIDE DEF H
  <1> DEFINE low == [t \in SUBSET m |-> IF t = {} THEN 0 ELSE H(t)[t]]
             g == [t \in SUBSET m |-> IF t = {} THEN 0 ELSE
                     IF t = m THEN f[Pick(m)] + low[m \ {Pick(m)}] ELSE H(t)[t]]
  <1>3. ASSUME NEW t, t \subseteq m, t # m, t # {}
        PROVE  H(t)[t] = f[Pick(t)] + low[t \ {Pick(t)}]
    <2> DEFINE u == t \ {Pick(t)}
    <2>1. u \subseteq t /\ u # t /\ u \subseteq m /\ u # m
      BY <1>3, Picked
    <2>6. Sums(H(t), f, t)
      BY <1>2, <1>3
    <2>2. H(t)[t] = f[Pick(t)] + H(t)[u]
      <3> HIDE DEF Bad, low, g
      <3> QED
        BY <1>3, <2>6, SumsAt
    <2>3. u # {} => H(t)[u] = H(u)[u]
      <3>1. Sums(H(t), f, t) /\ Sums(H(u), f, u)
        BY <1>2, <1>3, <2>1
      <3>2. t \subseteq A /\ u \subseteq A
        BY <1>3, <2>1
      <3> HIDE DEF u
      <3> QED
        BY <2>1, <3>1, <3>2, SumsUnique
    <2>4. u = {} => H(t)[u] = 0
      <3> HIDE DEF Bad, low, g
      <3> QED
        BY <2>1, <2>6, SumsAt
    <2>5. low[u] = H(t)[u]
      BY <2>1, <2>3, <2>4
    <2> QED
      BY <2>2, <2>5
  <1>4. ASSUME NEW t \in SUBSET m
        PROVE  g[t] = IF t = {} THEN 0 ELSE f[Pick(t)] + g[t \ {Pick(t)}]
    <2>1. CASE t = {}
      BY <2>1
    <2>2. CASE t # {}
      <3>1. /\ t \ {Pick(t)} \in SUBSET m /\ t \ {Pick(t)} # m
        BY <2>2, Picked
      <3>2. g[t \ {Pick(t)}] = low[t \ {Pick(t)}]
        BY <3>1
      <3>3. t # m => g[t] = f[Pick(t)] + low[t \ {Pick(t)}]
        BY <1>3, <2>2
      <3>4. t = m => g[t] = f[Pick(t)] + low[t \ {Pick(t)}]
        BY <2>2
      <3> QED
        BY <2>2, <3>2, <3>3, <3>4
    <2> QED
      BY <2>1, <2>2
  <1>5. g = [t \in SUBSET m |-> g[t]]
    OBVIOUS
  <1> HIDE DEF g
  <1>6. Sums(g, f, m)
    BY <1>4, <1>5 DEF Sums
  <1> QED
    BY <1>6

(* MapThenSumSet is the value of any such function.                         *)
LEMMA SumIsFold ==
  ASSUME NEW A, IsFiniteSet(A), NEW f
  PROVE  \A S \in SUBSET A : \A h : Sums(h, f, S) => Sum(f, S) = h[S]
  <1> SUFFICES ASSUME NEW S \in SUBSET A, NEW h, Sums(h, f, S)
               PROVE  Sum(f, S) = h[S]
    OBVIOUS
  <1> DEFINE g == CHOOSE k : Sums(k, f, S)
  <1>1. Sum(f, S) = g[S]
    BY DEF Sum, MapThenSumSet, MapThenFoldSet, Sums, Pick
  <1>2. Sums(g, f, S)
    OBVIOUS
  <1> HIDE DEF g
  <1> QED
    BY <1>1, <1>2, SumsUnique

(* One step of the recursion.                                               *)
LEMMA SumStep ==
  ASSUME NEW A, IsFiniteSet(A), NEW f, NEW S, S \subseteq A
  PROVE  Sum(f, S) = IF S = {} THEN 0 ELSE f[Pick(S)] + Sum(f, S \ {Pick(S)})
  <1>1. PICK h : Sums(h, f, S)
    BY SumsExist
  <1>2. Sum(f, S) = h[S]
    BY <1>1, SumIsFold
  <1>3. CASE S = {}
    BY <1>1, <1>2, <1>3 DEF Sums
  <1>4. CASE S # {}
    <2> DEFINE T == S \ {Pick(S)}
               g == [s \in SUBSET T |-> h[s]]
    <2>1. T \subseteq S /\ T \in SUBSET A
      OBVIOUS
    <2>2. Sums(g, f, T)
      BY <1>1, <2>1, SumsRestricted
    <2>3. Sum(f, T) = g[T]
      <3> HIDE DEF g, T
      <3> QED
        BY <2>1, <2>2, SumIsFold
    <2>4. g[T] = h[T]
      OBVIOUS
    <2> QED
      BY <1>1, <1>2, <1>4, <2>3, <2>4 DEF Sums
  <1> QED
    BY <1>3, <1>4

(* Token counts add up to a token count.                                    *)
LEMMA SumNat ==
  ASSUME NEW A, IsFiniteSet(A), NEW f \in [A -> Nat]
  PROVE  \A S \in SUBSET A : Sum(f, S) \in Nat
  <1> DEFINE Bad == {S \in SUBSET A : Sum(f, S) \notin Nat}
  <1> SUFFICES ASSUME Bad # {}
               PROVE  FALSE
    OBVIOUS
  <1>1. PICK m \in Bad : \A t \in Bad : ~(t \subseteq m /\ t # m)
    <2>1. Bad \subseteq SUBSET A
      OBVIOUS
    <2> HIDE DEF Bad
    <2> QED
      BY <2>1, Minimal
  <1>2. Sum(f, m) = IF m = {} THEN 0 ELSE f[Pick(m)] + Sum(f, m \ {Pick(m)})
    BY SumStep
  <1>3. m # {} => Pick(m) \in A /\ Sum(f, m \ {Pick(m)}) \in Nat
    BY <1>1, Picked
  <1>4. m # {} => f[Pick(m)] \in Nat
    BY <1>3
  <1>5. Sum(f, m) \notin Nat
    OBVIOUS
  <1> HIDE DEF Bad
  <1> QED
    BY <1>2, <1>3, <1>4, <1>5

(* The order of summation does not matter: any member may be taken first.   *)
LEMMA SumRemove ==
  ASSUME NEW A, IsFiniteSet(A), NEW f \in [A -> Nat]
  PROVE  \A S \in SUBSET A : \A x \in S : Sum(f, S) = f[x] + Sum(f, S \ {x})
  <1> DEFINE Bad == {S \in SUBSET A : ~ \A x \in S : Sum(f, S) = f[x] + Sum(f, S \ {x})}
  <1> SUFFICES ASSUME Bad # {}
               PROVE  FALSE
    OBVIOUS
  <1>1. PICK m \in Bad : \A t \in Bad : ~(t \subseteq m /\ t # m)
    <2>1. Bad \subseteq SUBSET A
      OBVIOUS
    <2> HIDE DEF Bad
    <2> QED
      BY <2>1, Minimal
  <1>2. PICK x \in m : Sum(f, m) # f[x] + Sum(f, m \ {x})
    OBVIOUS
  <1>3. m \subseteq A
    OBVIOUS
  <1> DEFINE y == Pick(m)
  <1>4. y \in m /\ Sum(f, m) = f[y] + Sum(f, m \ {y})
    BY <1>3, SumStep, Picked
  <1>5. ASSUME NEW t, t \subseteq m, t # m, NEW z \in t
        PROVE  Sum(f, t) = f[z] + Sum(f, t \ {z})
    BY <1>1, <1>3, <1>5
  <1> HIDE DEF Bad, y
  <1>6. x # y
    BY <1>2, <1>4
  <1>7. Sum(f, m \ {y}) = f[x] + Sum(f, (m \ {y}) \ {x})
    BY <1>4, <1>5, <1>6
  <1>8. Sum(f, m \ {x}) = f[y] + Sum(f, (m \ {x}) \ {y})
    BY <1>4, <1>5, <1>6
  <1>9. (m \ {x}) \ {y} = (m \ {y}) \ {x}
    OBVIOUS
  <1>10. f[x] \in Nat /\ f[y] \in Nat /\ Sum(f, (m \ {x}) \ {y}) \in Nat
    BY <1>3, <1>4, SumNat
  <1> DEFINE rest == Sum(f, (m \ {x}) \ {y})
  <1>11. Sum(f, m) = f[y] + (f[x] + rest) /\ Sum(f, m \ {x}) = f[y] + rest
    BY <1>4, <1>7, <1>8, <1>9
  <1>12. f[x] \in Nat /\ f[y] \in Nat /\ rest \in Nat
    BY <1>10
  <1> HIDE DEF rest
  <1>13. f[y] + (f[x] + rest) = f[x] + (f[y] + rest)
    BY <1>12
  <1> QED
    BY <1>2, <1>11, <1>13

(* The same within a part S of the rows.                                    *)
Peels(f, A, S) ==
  \A m \in SUBSET A : \A x \in m :
    Sum(f, m \cap S) = IF x \in S THEN f[x] + Sum(f, (m \ {x}) \cap S)
                                 ELSE Sum(f, (m \ {x}) \cap S)

(* Any member may be taken out of any part first.                           *)
LEMMA SumWithout ==
  ASSUME NEW A, IsFiniteSet(A), NEW f \in [A -> Nat], NEW S \in SUBSET A
  PROVE  Peels(f, A, S)
  <1> SUFFICES ASSUME NEW m \in SUBSET A, NEW x \in m
               PROVE  Sum(f, m \cap S) = IF x \in S THEN f[x] + Sum(f, (m \ {x}) \cap S)
                                                   ELSE Sum(f, (m \ {x}) \cap S)
    BY DEF Peels
  <1>1. m \cap S \in SUBSET A
    OBVIOUS
  <1>2. CASE x \in S
    <2>1. (m \ {x}) \cap S = (m \cap S) \ {x} /\ x \in m \cap S
      BY <1>2
    <2> QED
      BY <1>1, <1>2, <2>1, SumRemove
  <1>3. CASE x \notin S
    <2>1. (m \ {x}) \cap S = m \cap S
      BY <1>3
    <2> QED
      BY <1>3, <2>1
  <1> QED
    BY <1>2, <1>3

(* A sum whose terms split between two parts is the sum over the parts.     *)
LEMMA SumSplit ==
  ASSUME NEW A, IsFiniteSet(A), NEW f \in [A -> Nat], NEW g \in [A -> Nat],
         NEW h \in [A -> Nat], NEW S \in SUBSET A, NEW T \in SUBSET A,
         \A a \in A : f[a] = (IF a \in S THEN g[a] ELSE 0) + (IF a \in T THEN h[a] ELSE 0)
  PROVE  Sum(f, A) = Sum(g, S) + Sum(h, T)
  <1>5. Peels(g, A, S) /\ Peels(h, A, T)
    BY SumWithout
  <1> DEFINE Bad == {u \in SUBSET A : Sum(f, u) # Sum(g, u \cap S) + Sum(h, u \cap T)}
  <1>0. SUFFICES ASSUME Bad # {}
               PROVE  FALSE
    <2>1. A \cap S = S /\ A \cap T = T
      OBVIOUS
    <2>2. A \notin Bad => Sum(f, A) = Sum(g, A \cap S) + Sum(h, A \cap T)
      OBVIOUS
    <2> QED
      BY <2>1, <2>2
  <1>1. PICK m \in Bad : \A t \in Bad : ~(t \subseteq m /\ t # m)
    <2>1. Bad \subseteq SUBSET A
      OBVIOUS
    <2> HIDE DEF Bad
    <2> QED
      BY <1>0, <2>1, Minimal
  <1>2. m \subseteq A /\ Sum(f, m) # Sum(g, m \cap S) + Sum(h, m \cap T)
    OBVIOUS
  <1>3. CASE m = {}
    <2>1. m \cap S = {} /\ m \cap T = {}
      BY <1>3
    <2>2. Sum(f, {}) = 0 /\ Sum(g, {}) = 0 /\ Sum(h, {}) = 0
      BY SumStep
    <2> QED
      BY <1>2, <1>3, <2>1, <2>2
  <1>4. CASE m # {}
    <2>1. PICK x \in m : TRUE
      BY <1>4
    <2> DEFINE u == m \ {x}
    <2>2. u \subseteq A /\ u \subseteq m /\ u # m /\ x \in A
      BY <1>2
    <2>3. Sum(f, u) = Sum(g, u \cap S) + Sum(h, u \cap T)
      BY <1>1, <2>2
    <2>4. Sum(f, m) = f[x] + Sum(f, u)
      BY <1>2, SumRemove
    <2>5. Sum(g, m \cap S) = IF x \in S THEN g[x] + Sum(g, u \cap S) ELSE Sum(g, u \cap S)
      BY <1>2, <1>5 DEF Peels
    <2>6. Sum(h, m \cap T) = IF x \in T THEN h[x] + Sum(h, u \cap T) ELSE Sum(h, u \cap T)
      BY <1>2, <1>5 DEF Peels
    <2>7. /\ Sum(f, u) \in Nat /\ Sum(g, u \cap S) \in Nat /\ Sum(h, u \cap T) \in Nat
          /\ f[x] \in Nat /\ g[x] \in Nat /\ h[x] \in Nat
      BY <2>2, SumNat
    <2>8. f[x] = (IF x \in S THEN g[x] ELSE 0) + (IF x \in T THEN h[x] ELSE 0)
      BY <2>2
    <2> HIDE DEF u, Bad
    <2> QED
      BY <1>2, <2>3, <2>4, <2>5, <2>6, <2>7, <2>8
  <1> QED
    BY <1>3, <1>4

(* Smaller terms have the smaller sum.                                      *)
LEMMA SumMonotone ==
  ASSUME NEW A, IsFiniteSet(A), NEW f \in [A -> Nat], NEW g \in [A -> Nat],
         \A a \in A : f[a] <= g[a]
  PROVE  Sum(f, A) <= Sum(g, A)
  <1> DEFINE d == [a \in A |-> g[a] - f[a]]
  <1>1. \A a \in A : f[a] \in Nat /\ g[a] \in Nat
    OBVIOUS
  <1>2. d \in [A -> Nat] /\ \A a \in A : d[a] = g[a] - f[a]
    BY <1>1
  <1> HIDE DEF d
  <1>3. \A a \in A : g[a] = (IF a \in A THEN f[a] ELSE 0) + (IF a \in A THEN d[a] ELSE 0)
    BY <1>1, <1>2
  <1>4. Sum(g, A) = Sum(f, A) + Sum(d, A)
    BY <1>2, <1>3, SumSplit
  <1>5. Sum(f, A) \in Nat /\ Sum(d, A) \in Nat
    BY <1>2, SumNat
  <1> QED
    BY <1>4, <1>5

(* The sum over two parts without a common row.                             *)
LEMMA SumUnion ==
  ASSUME NEW A, IsFiniteSet(A), NEW f \in [A -> Nat], NEW g \in [A -> Nat],
         NEW h \in [A -> Nat], NEW S \in SUBSET A, NEW T \in SUBSET A, S \cap T = {},
         \A a \in S : f[a] = g[a], \A a \in T : f[a] = h[a]
  PROVE  Sum(f, S \cup T) = Sum(g, S) + Sum(h, T)
  <1> DEFINE F == [a \in A |-> IF a \in S \cup T THEN f[a] ELSE 0]
  <1>1. F \in [A -> Nat] /\ \A a \in A : F[a] = IF a \in S \cup T THEN f[a] ELSE 0
    OBVIOUS
  <1>2. \A a \in A : f[a] \in Nat /\ g[a] \in Nat /\ h[a] \in Nat
    OBVIOUS
  <1> HIDE DEF F
  <1>3. \A a \in A :
          F[a] = (IF a \in S \cup T THEN f[a] ELSE 0) + (IF a \in {} THEN f[a] ELSE 0)
    BY <1>1, <1>2
  <1>4. \A a \in A : F[a] = (IF a \in S THEN g[a] ELSE 0) + (IF a \in T THEN h[a] ELSE 0)
    BY <1>1, <1>2
  <1>5. Sum(F, A) = Sum(f, S \cup T) + Sum(f, {})
    <2>1. S \cup T \in SUBSET A /\ {} \in SUBSET A
      OBVIOUS
    <2> QED
      BY <1>1, <1>3, <2>1, SumSplit
  <1>6. Sum(F, A) = Sum(g, S) + Sum(h, T)
    BY <1>1, <1>4, SumSplit
  <1>7. Sum(f, {}) = 0
    BY SumStep
  <1>8. S \cup T \in SUBSET A
    OBVIOUS
  <1>9. Sum(f, S \cup T) \in Nat
    BY <1>8, SumNat
  <1> QED
    BY <1>5, <1>6, <1>7, <1>9

-----------------------------------------------------------------------------
(* The inductive invariant.                                                 *)

(* A call has a row from its reservation on.  The row of a call under way   *)
(* is still reserved unless reconcile settled it, so a bill that grows is   *)
(* never one already charged; a call without a row was never billed.        *)
RowsFollow ==
  \A a \in Attempts :
    /\ pc[a] \in {"idle", "admitted"} => state[a] = "none"
    /\ pc[a] = "running" => state[a] = "reserved" \/ a \in reconciled
    /\ state[a] = "none" => estimate[a] = 0 /\ spent[a] = 0

(* What is left of each reservation, and its sum.                           *)
Left == [a \in Attempts |-> Outstanding(a)]
LeftUnderCeiling == Sum(Left, Attempts) <= Ceiling

(* The calls that hold a permit of replica r.                               *)
Holding(r) == {a \in Attempts : replica[a] = r /\ pc[a] \in InFlight}

LedgerInv == TypeOK /\ RowsFollow /\ Charged /\ PermitsConserved /\ LeftUnderCeiling

(* An empty ledger satisfies it.                                            *)
LEMMA LedgerStart == Init => LedgerInv
  <1> SUFFICES ASSUME Init
               PROVE  LedgerInv
    OBVIOUS
  <1> USE LedgerAssumption DEF Init
  <1>1. TypeOK
    BY DEF TypeOK, InFlight
  <1>2. RowsFollow /\ Charged
    BY DEF RowsFollow, Charged
  <1>3. PermitsConserved
    <2>1. \A r \in Replicas : {a \in Attempts : replica[a] = r /\ pc[a] \in InFlight} = {}
      BY DEF InFlight
    <2> QED
      BY <2>1, FS_EmptySet DEF PermitsConserved
  <1>4. LeftUnderCeiling
    <2>1. Left = [a \in Attempts |-> 0]
      BY DEF Left, Outstanding
    <2>2. \A a \in Attempts : Left[a] = (IF a \in {} THEN 0 ELSE 0) + (IF a \in {} THEN 0 ELSE 0)
      BY <2>1
    <2>3. Left \in [Attempts -> Nat] /\ {} \in SUBSET Attempts
      BY <2>1
    <2>4. Sum(Left, {}) = 0
      BY SumStep
    <2>5. Sum(Left, Attempts) = Sum(Left, {}) + Sum(Left, {})
      <3>1. \A a \in Attempts :
              Left[a] = (IF a \in {} THEN Left[a] ELSE 0) + (IF a \in {} THEN Left[a] ELSE 0)
        BY <2>1
      <3> HIDE DEF Init
      <3> QED
        BY <2>3, <3>1, SumSplit
    <2> QED
      BY <2>4, <2>5 DEF LeftUnderCeiling
  <1> QED
    BY <1>1, <1>2, <1>3, <1>4 DEF LedgerInv

(* Every step keeps the rows in line with their calls, and their charges.   *)
LEMMA RowsStep ==
  ASSUME LedgerInv, [Next]_vars
  PROVE  RowsFollow' /\ Charged'
  <1> USE LedgerAssumption DEF LedgerInv, TypeOK, RowsFollow, Charged, InFlight, row, call
  <1>1. ASSUME NEW a \in Attempts, AcquireSlot(a)
        PROVE  RowsFollow' /\ Charged'
    BY <1>1 DEF AcquireSlot
  <1>2. ASSUME NEW a \in Attempts, refuse(a)
        PROVE  RowsFollow' /\ Charged'
    BY <1>2 DEF refuse
  <1>3. ASSUME NEW a \in Attempts, settle(a)
        PROVE  RowsFollow' /\ Charged'
    BY <1>3 DEF settle
  <1>4. ASSUME NEW a \in Attempts, SettleFails(a)
        PROVE  RowsFollow' /\ Charged'
    BY <1>4 DEF SettleFails
  <1>5. ASSUME NEW a \in Attempts, ReleaseSlot(a)
        PROVE  RowsFollow' /\ Charged'
    BY <1>5 DEF ReleaseSlot
  <1>6. ASSUME NEW a \in Attempts, GrowStale(a)
        PROVE  RowsFollow' /\ Charged'
    BY <1>6 DEF GrowStale
  <1>7. ASSUME NEW a \in Attempts, NEW tokens \in Estimates, reserve(a, tokens)
        PROVE  RowsFollow' /\ Charged'
    BY <1>7 DEF reserve
  <1>8. ASSUME NEW a \in Attempts, NEW use \in 1 .. MaxSpend, Bill(a, use)
        PROVE  RowsFollow' /\ Charged'
    BY <1>8 DEF Bill
  <1>9. ASSUME NEW r \in Replicas, Crash(r)
        PROVE  RowsFollow' /\ Charged'
    BY <1>9 DEF Crash
  <1>10. CASE reconcile
    BY <1>10 DEF reconcile, Expired
  <1>11. CASE UNCHANGED vars
    BY <1>11 DEF vars
  <1> QED
    BY <1>1, <1>2, <1>3, <1>4, <1>5, <1>6, <1>7, <1>8, <1>9, <1>10, <1>11 DEF Next

(* The calls in flight are finitely many.                                   *)
LEMMA Counted ==
  ASSUME LedgerInv, NEW r \in Replicas
  PROVE  /\ IsFiniteSet(Holding(r)) /\ Cardinality(Holding(r)) \in Nat
         /\ slots[r] \in Nat /\ slots[r] + Cardinality(Holding(r)) = MaxInflight
  <1>1. IsFiniteSet(Holding(r))
    BY LedgerAssumption, FS_Subset DEF Holding
  <1>2. Cardinality(Holding(r)) \in Nat
    BY <1>1, FS_CardinalityType
  <1>3. slots[r] + Cardinality(Holding(r)) = MaxInflight
    BY DEF LedgerInv, PermitsConserved, Holding
  <1> QED
    BY <1>1, <1>2, <1>3, LedgerAssumption DEF LedgerInv, TypeOK

PermitsKept ==
  /\ slots \in [Replicas -> 0 .. MaxInflight]
  /\ \A r \in Replicas : slots[r] + Cardinality(Holding(r)) = MaxInflight

(* Only taking and releasing a permit, and a crash, change who holds one.   *)
LEMMA PermitsStep ==
  ASSUME LedgerInv, [Next]_vars
  PROVE  PermitsKept'
  <1> USE DEF LedgerInv, TypeOK
  <1>1. ASSUME UNCHANGED <<slots, replica>>, \A a \in Attempts : pc'[a] \in InFlight <=> pc[a] \in InFlight
        PROVE  PermitsKept'
    <2>1. \A r \in Replicas : Holding(r)' = Holding(r)
      BY <1>1 DEF Holding
    <2> QED
      BY <1>1, <2>1, Counted DEF PermitsKept
  <1>2. ASSUME NEW a \in Attempts, AcquireSlot(a)
        PROVE  PermitsKept'
    <2>0. PICK r \in Replicas : r = replica[a]
      OBVIOUS
    <2>1. /\ Holding(r)' = Holding(r) \cup {a} /\ a \notin Holding(r)
          /\ \A o \in Replicas \ {r} : Holding(o)' = Holding(o)
      BY <1>2, <2>0 DEF AcquireSlot, Holding, InFlight
    <2>2. Cardinality(Holding(r)') = Cardinality(Holding(r)) + 1
      BY <2>1, Counted, FS_AddElement
    <2>3. slots' = [slots EXCEPT ![r] = @ - 1] /\ slots[r] > 0
      BY <1>2, <2>0 DEF AcquireSlot
    <2>4. slots' \in [Replicas -> 0 .. MaxInflight]
      BY <2>1, <2>3, LedgerAssumption
    <2>5. slots'[r] + Cardinality(Holding(r)') = MaxInflight
      <3> DEFINE n == Cardinality(Holding(r))
      <3>1. n \in Nat /\ slots[r] \in Nat /\ slots[r] + n = MaxInflight
        BY <2>1, Counted
      <3>2. slots'[r] = slots[r] - 1 /\ Cardinality(Holding(r)') = n + 1
        BY <2>1, <2>2, <2>3
      <3> HIDE DEF n
      <3> QED
        BY <2>3, <3>1, <3>2
    <2>6. \A o \in Replicas \ {r} : slots'[o] + Cardinality(Holding(o)') = MaxInflight
      BY <2>1, <2>3, Counted
    <2> QED
      BY <2>4, <2>5, <2>6 DEF PermitsKept
  <1>3. ASSUME NEW a \in Attempts, ReleaseSlot(a)
        PROVE  PermitsKept'
    <2>0. PICK r \in Replicas : r = replica[a]
      OBVIOUS
    <2>1. /\ Holding(r)' = Holding(r) \ {a} /\ a \in Holding(r)
          /\ \A o \in Replicas \ {r} : Holding(o)' = Holding(o)
      BY <1>3, <2>0 DEF ReleaseSlot, Holding, InFlight
    <2>2. /\ Cardinality(Holding(r)') = Cardinality(Holding(r)) - 1
          /\ Cardinality(Holding(r)') \in Nat
      BY <2>1, Counted, FS_RemoveElement, FS_CardinalityType
    <2>3. slots' = [slots EXCEPT ![r] = @ + 1]
      BY <1>3, <2>0 DEF ReleaseSlot
    <2>4. slots'[r] + Cardinality(Holding(r)') = MaxInflight /\ slots'[r] = slots[r] + 1
      <3> DEFINE n == Cardinality(Holding(r))
      <3>1. n \in Nat /\ slots[r] \in Nat /\ slots[r] + n = MaxInflight
        BY <2>1, Counted
      <3>2. slots'[r] = slots[r] + 1 /\ Cardinality(Holding(r)') = n - 1
        BY <2>1, <2>2, <2>3
      <3> HIDE DEF n
      <3> QED
        BY <3>1, <3>2
    <2>5. slots[r] + 1 \in 0 .. MaxInflight
      BY <2>1, <2>2, <2>4, Counted, LedgerAssumption
    <2>6. slots' \in [Replicas -> 0 .. MaxInflight]
      BY <2>1, <2>3, <2>5
    <2>7. \A o \in Replicas \ {r} : slots'[o] + Cardinality(Holding(o)') = MaxInflight
      BY <2>1, <2>3, Counted
    <2> QED
      BY <2>4, <2>6, <2>7 DEF PermitsKept
  <1>4. ASSUME NEW r \in Replicas, Crash(r)
        PROVE  PermitsKept'
    <2>1. /\ Holding(r)' = {}
          /\ \A o \in Replicas \ {r} : Holding(o)' = Holding(o)
      BY <1>4 DEF Crash, Holding, InFlight
    <2>2. slots' = [slots EXCEPT ![r] = MaxInflight]
      BY <1>4 DEF Crash
    <2>3. slots' \in [Replicas -> 0 .. MaxInflight]
      BY <2>2, LedgerAssumption
    <2>4. slots'[r] + Cardinality(Holding(r)') = MaxInflight
      BY <2>1, <2>2, FS_EmptySet, LedgerAssumption
    <2>5. \A o \in Replicas \ {r} : slots'[o] + Cardinality(Holding(o)') = MaxInflight
      BY <2>1, <2>2, Counted
    <2> QED
      BY <2>3, <2>4, <2>5 DEF PermitsKept
  <1>5. ASSUME NEW a \in Attempts, refuse(a) \/ settle(a) \/ SettleFails(a)
        PROVE  PermitsKept'
    BY <1>1, <1>5 DEF refuse, settle, SettleFails, InFlight
  <1>6. ASSUME NEW a \in Attempts, GrowStale(a)
        PROVE  PermitsKept'
    BY <1>1, <1>6 DEF GrowStale, call
  <1>7. ASSUME NEW a \in Attempts, NEW tokens \in Estimates, reserve(a, tokens)
        PROVE  PermitsKept'
    BY <1>1, <1>7 DEF reserve, InFlight
  <1>8. ASSUME NEW a \in Attempts, NEW use \in 1 .. MaxSpend, Bill(a, use)
        PROVE  PermitsKept'
    BY <1>1, <1>8 DEF Bill
  <1>9. CASE reconcile
    BY <1>1, <1>9 DEF reconcile, call
  <1>10. CASE UNCHANGED vars
    BY <1>1, <1>10 DEF vars, call
  <1> QED
    BY <1>2, <1>3, <1>4, <1>5, <1>6, <1>7, <1>8, <1>9, <1>10 DEF Next

(* Every step keeps the types.                                              *)
LEMMA LedgerTypedStep ==
  ASSUME LedgerInv, [Next]_vars
  PROVE  TypeOK'
  <1>1. slots' \in [Replicas -> 0 .. MaxInflight]
    BY PermitsStep DEF PermitsKept
  <1> USE LedgerAssumption, <1>1 DEF LedgerInv, TypeOK, InFlight, row, call
  <1>2. ASSUME NEW a \in Attempts, AcquireSlot(a)
        PROVE  TypeOK'
    BY <1>2 DEF AcquireSlot
  <1>3. ASSUME NEW a \in Attempts, ReleaseSlot(a)
        PROVE  TypeOK'
    BY <1>3 DEF ReleaseSlot
  <1>4. ASSUME NEW r \in Replicas, Crash(r)
        PROVE  TypeOK'
    BY <1>4 DEF Crash
  <1>5. ASSUME NEW a \in Attempts, refuse(a) \/ settle(a) \/ SettleFails(a)
        PROVE  TypeOK'
    BY <1>5 DEF refuse, settle, SettleFails
  <1>6. ASSUME NEW a \in Attempts, GrowStale(a)
        PROVE  TypeOK'
    BY <1>6 DEF GrowStale
  <1>7. ASSUME NEW a \in Attempts, NEW tokens \in Estimates, reserve(a, tokens)
        PROVE  TypeOK'
    BY <1>7 DEF reserve
  <1>8. ASSUME NEW a \in Attempts, NEW use \in 1 .. MaxSpend, Bill(a, use)
        PROVE  TypeOK'
    BY <1>8 DEF Bill
  <1>9. CASE reconcile
    BY <1>9 DEF reconcile, Expired
  <1>10. CASE UNCHANGED vars
    BY <1>10 DEF vars
  <1> QED
    BY <1>2, <1>3, <1>4, <1>5, <1>6, <1>7, <1>8, <1>9, <1>10 DEF Next

-----------------------------------------------------------------------------
(* Admission.                                                               *)

LEMMA MinOf ==
  ASSUME NEW x \in Nat, NEW y \in Nat
  PROVE  Min({x, y}) = IF x <= y THEN x ELSE y
  <1>1. \E z \in {x, y} : \A w \in {x, y} : z <= w
    OBVIOUS
  <1> QED
    BY <1>1 DEF Min

(* What is left of a reservation is a number of tokens, and never more than *)
(* what the ledger counts for its row.                                      *)
LEMMA LeftOf ==
  ASSUME TypeOK
  PROVE  /\ Left \in [Attempts -> Nat]
         /\ \A a \in Attempts :
              Left[a] = IF state[a] = "settled" /\ actual[a] <= estimate[a]
                          THEN actual[a] ELSE estimate[a]
  <1> SUFFICES ASSUME NEW a \in Attempts
               PROVE  /\ Outstanding(a) \in Nat
                      /\ Outstanding(a) = IF state[a] = "settled" /\ actual[a] <= estimate[a]
                                            THEN actual[a] ELSE estimate[a]
    BY DEF Left
  <1>1. actual[a] \in Nat /\ estimate[a] \in Nat
    BY DEF TypeOK
  <1> QED
    BY <1>1, MinOf DEF Outstanding

(* The same in the next state.                                              *)
LEMMA LeftOfNext ==
  ASSUME TypeOK'
  PROVE  /\ Left' \in [Attempts -> Nat]
         /\ \A a \in Attempts :
              Left'[a] = IF state'[a] = "settled" /\ actual'[a] <= estimate'[a]
                           THEN actual'[a] ELSE estimate'[a]
  <1> SUFFICES ASSUME NEW a \in Attempts
               PROVE  /\ Outstanding(a)' \in Nat
                      /\ Outstanding(a)' = IF state'[a] = "settled" /\ actual'[a] <= estimate'[a]
                                             THEN actual'[a] ELSE estimate'[a]
    BY DEF Left
  <1>1. actual'[a] \in Nat /\ estimate'[a] \in Nat
    BY DEF TypeOK
  <1> QED
    BY <1>1, MinOf DEF Outstanding

(* The totals that reserve reads are sums over the rows.                    *)
LEMMA Totals ==
  /\ Reserved = Sum(estimate, InState("reserved"))
  /\ Committed = Sum(actual, InState("settled"))
  BY DEF Reserved, Committed, Sum

(* They count at least what is left.                                        *)
LEMMA TotalsCover ==
  ASSUME LedgerInv
  PROVE  /\ Sum(Left, Attempts) <= Committed + Reserved
         /\ Sum(Left, Attempts) \in Nat /\ Committed \in Nat /\ Reserved \in Nat
  <1> DEFINE counted == [a \in Attempts |->
               IF state[a] = "settled" THEN actual[a]
               ELSE IF state[a] = "reserved" THEN estimate[a] ELSE 0]
             C == InState("settled")
             R == InState("reserved")
  <1>1. /\ actual \in [Attempts -> Nat] /\ estimate \in [Attempts -> Nat]
        /\ C \in SUBSET Attempts /\ R \in SUBSET Attempts /\ IsFiniteSet(Attempts)
    BY LedgerAssumption DEF LedgerInv, TypeOK, InState
  <1>2. \A a \in Attempts : actual[a] \in Nat /\ estimate[a] \in Nat
    BY <1>1
  <1>3. counted \in [Attempts -> Nat]
    BY <1>2
  <1>4. \A a \in Attempts :
          counted[a] = (IF a \in C THEN actual[a] ELSE 0) + (IF a \in R THEN estimate[a] ELSE 0)
    BY <1>2 DEF InState
  <1>5. Left \in [Attempts -> Nat] /\ \A a \in Attempts : Left[a] <= counted[a]
    BY <1>2, LeftOf DEF LedgerInv, TypeOK, RowsFollow
  <1> HIDE DEF counted, C, R
  <1>6. Sum(counted, Attempts) = Sum(actual, C) + Sum(estimate, R)
    BY <1>1, <1>3, <1>4, SumSplit
  <1>7. Sum(Left, Attempts) <= Sum(counted, Attempts)
    BY <1>1, <1>3, <1>5, SumMonotone
  <1>8. Sum(Left, Attempts) \in Nat /\ Sum(actual, C) \in Nat /\ Sum(estimate, R) \in Nat
    BY <1>1, <1>5, SumNat
  <1> QED
    BY <1>6, <1>7, <1>8, Totals DEF C, R

(* A step after which nothing more is left of any row.                      *)
LEMMA LeftShrinks ==
  ASSUME LedgerInv, TypeOK', \A a \in Attempts : Left'[a] <= Left[a]
  PROVE  LeftUnderCeiling'
  <1>1. Left \in [Attempts -> Nat] /\ Left' \in [Attempts -> Nat]
    BY LeftOf, LeftOfNext DEF LedgerInv
  <1>2. Sum(Left', Attempts) <= Sum(Left, Attempts)
    BY <1>1, LedgerAssumption, SumMonotone
  <1>3. Sum(Left, Attempts) \in Nat /\ Sum(Left', Attempts) \in Nat
    BY <1>1, LedgerAssumption, SumNat
  <1> QED
    BY <1>2, <1>3, LedgerAssumption DEF LedgerInv, LeftUnderCeiling

(* An admission adds its estimate, which fits under the ceiling.            *)
LEMMA ReserveFits ==
  ASSUME LedgerInv, TypeOK', NEW a \in Attempts, NEW tokens \in Estimates, reserve(a, tokens)
  PROVE  LeftUnderCeiling'
  <1> DEFINE one == [b \in Attempts |-> tokens]
  <1>1. tokens \in Nat /\ one \in [Attempts -> Nat] /\ one[a] = tokens
    BY LedgerAssumption
  <1>2. Left \in [Attempts -> Nat] /\ Left' \in [Attempts -> Nat]
    BY LeftOf, LeftOfNext DEF LedgerInv
  <1>3. \A b \in Attempts : Left'[b] = IF b = a THEN tokens ELSE Left[b]
    BY LeftOf, LeftOfNext DEF LedgerInv, TypeOK, reserve
  <1>4. Left[a] = 0
    BY LeftOf DEF LedgerInv, RowsFollow, reserve
  <1>5. \A b \in Attempts : Left[b] \in Nat
    BY <1>2
  <1>6. \A b \in Attempts :
          Left'[b] = (IF b \in Attempts THEN Left[b] ELSE 0) + (IF b \in {a} THEN one[b] ELSE 0)
    BY <1>1, <1>3, <1>4, <1>5
  <1> HIDE DEF one
  <1>7. Sum(Left', Attempts) = Sum(Left, Attempts) + Sum(one, {a})
    <2>1. Attempts \in SUBSET Attempts /\ {a} \in SUBSET Attempts
      OBVIOUS
    <2> QED
      BY <1>1, <1>2, <1>6, <2>1, LedgerAssumption, SumSplit
  <1>8. Sum(one, {a}) = tokens
    <2>1. {a} \in SUBSET Attempts /\ {} \in SUBSET Attempts /\ {a} \ {a} = {}
      OBVIOUS
    <2>2. Sum(one, {a}) = one[a] + Sum(one, {a} \ {a})
      BY <1>1, <2>1, LedgerAssumption, SumRemove
    <2>3. Sum(one, {}) = 0
      BY LedgerAssumption, SumStep
    <2> QED
      BY <1>1, <2>1, <2>2, <2>3
  <1>9. Committed + Reserved + tokens <= Ceiling
    BY DEF reserve
  <1> QED
    BY <1>1, <1>7, <1>8, <1>9, TotalsCover, LedgerAssumption DEF LeftUnderCeiling

(* Every step keeps what is left under the ceiling.                         *)
LEMMA LeftStep ==
  ASSUME LedgerInv, [Next]_vars
  PROVE  LeftUnderCeiling'
  <1>1. TypeOK' /\ TypeOK /\ RowsFollow
    BY LedgerTypedStep DEF LedgerInv
  <1>2. ASSUME UNCHANGED <<state, estimate, actual>>
        PROVE  LeftUnderCeiling'
    <2>1. Left' = Left
      BY <1>2 DEF Left, Outstanding
    <2>2. Left \in [Attempts -> Nat]
      BY <1>1, LeftOf
    <2>3. \A a \in Attempts : Left'[a] <= Left[a]
      BY <2>1, <2>2
    <2> QED
      BY <1>1, <2>3, LeftShrinks
  <1>3. ASSUME NEW a \in Attempts, settle(a)
        PROVE  LeftUnderCeiling'
    <2>1. CASE state[a] = "reserved"
      <3>1. \A b \in Attempts : Left'[b] <= Left[b]
        BY <1>1, <1>3, <2>1, LeftOf, LeftOfNext DEF settle, TypeOK
      <3> QED
        BY <1>1, <3>1, LeftShrinks
    <2>2. CASE state[a] # "reserved"
      BY <1>2, <1>3, <2>2 DEF settle
    <2> QED
      BY <2>1, <2>2
  <1>4. CASE reconcile
    <2>1. \A b \in Attempts : Left'[b] <= Left[b]
      BY <1>1, <1>4, LeftOf, LeftOfNext DEF reconcile, Expired, TypeOK
    <2> QED
      BY <1>1, <2>1, LeftShrinks
  <1>5. ASSUME NEW a \in Attempts, NEW tokens \in Estimates, reserve(a, tokens)
        PROVE  LeftUnderCeiling'
    BY <1>1, <1>5, ReserveFits
  <1>6. ASSUME NEW a \in Attempts,
               AcquireSlot(a) \/ refuse(a) \/ SettleFails(a) \/ ReleaseSlot(a) \/ GrowStale(a)
        PROVE  LeftUnderCeiling'
    BY <1>2, <1>6 DEF AcquireSlot, refuse, SettleFails, ReleaseSlot, GrowStale, row
  <1>7. ASSUME NEW a \in Attempts, NEW use \in 1 .. MaxSpend, Bill(a, use)
        PROVE  LeftUnderCeiling'
    BY <1>2, <1>7 DEF Bill, row
  <1>8. ASSUME NEW r \in Replicas, Crash(r)
        PROVE  LeftUnderCeiling'
    BY <1>2, <1>8 DEF Crash, row
  <1>9. CASE UNCHANGED vars
    BY <1>2, <1>9 DEF vars, row
  <1> QED
    BY <1>3, <1>4, <1>5, <1>6, <1>7, <1>8, <1>9 DEF Next

(* Every behaviour of the ledger keeps the invariant.                       *)
LEMMA LedgerSafe == Spec => []LedgerInv
  <1>1. LedgerInv /\ [Next]_vars => LedgerInv'
    <2> SUFFICES ASSUME LedgerInv, [Next]_vars
                 PROVE  LedgerInv'
      OBVIOUS
    <2>1. PermitsConserved'
      BY PermitsStep DEF PermitsKept, PermitsConserved, Holding
    <2> QED
      BY <2>1, LedgerTypedStep, RowsStep, LeftStep DEF LedgerInv
  <1> QED
    BY <1>1, LedgerStart, PTL DEF Spec

(* AdmissionHolds adds up the same numbers.                                 *)
LEMMA AdmissionSum ==
  ASSUME TypeOK
  PROVE  MapThenSumSet(Outstanding, Attempts) = Sum(Left, Attempts)
  <1> DEFINE Adds(h) == h = [s \in SUBSET Attempts |->
               IF s = {} THEN 0 ELSE Outstanding(Pick(s)) + h[s \ {Pick(s)}]]
  <1>1. MapThenSumSet(Outstanding, Attempts) = (CHOOSE h : Adds(h))[Attempts]
    BY DEF MapThenSumSet, MapThenFoldSet, Pick
  <1>2. ASSUME NEW h
        PROVE  Adds(h) <=> Sums(h, Left, Attempts)
    <2>1. \A s \in SUBSET Attempts : s # {} => Left[Pick(s)] = Outstanding(Pick(s))
      BY Picked DEF Left
    <2> HIDE DEF Outstanding, Left
    <2> QED
      BY <2>1 DEF Sums
  <1>3. PICK h : Sums(h, Left, Attempts)
    BY SumsExist, LedgerAssumption
  <1> DEFINE g == CHOOSE k : Adds(k)
  <1>4. Adds(g)
    <2>1. \E k : Adds(k)
      BY <1>2, <1>3
    <2> HIDE DEF Adds
    <2> QED
      BY <2>1
  <1>5. Sums(g, Left, Attempts)
    <2> HIDE DEF g, Adds
    <2> QED
      BY <1>2, <1>4
  <1> HIDE DEF g, Adds
  <1>6. Sum(Left, Attempts) = g[Attempts]
    BY <1>5, SumIsFold, LedgerAssumption
  <1> QED
    BY <1>1, <1>6 DEF g

-----------------------------------------------------------------------------
(* Every variable keeps its type.                                           *)
THEOREM LedgerTyped == Spec => []TypeOK
  <1>1. LedgerInv => TypeOK
    BY DEF LedgerInv
  <1> QED
    BY <1>1, LedgerSafe, PTL

(* However calls, crashes and reconciliations interleave over any number of *)
(* replicas, what was admitted stays under the ceiling (reserve).           *)
THEOREM LedgerAdmission == Spec => []AdmissionHolds
  <1>1. LedgerInv => AdmissionHolds
    BY AdmissionSum DEF LedgerInv, LeftUnderCeiling, AdmissionHolds
  <1> QED
    BY <1>1, LedgerSafe, PTL

(* Each attempt is charged once: by its own settlement exactly what was     *)
(* billed, or its full reservation if reconcile came first, even while the  *)
(* call was running; the late settlement changes nothing (settle,           *)
(* reconcile).                                                              *)
THEOREM LedgerCharges == Spec => []Charged
  <1>1. LedgerInv => Charged
    BY DEF LedgerInv
  <1> QED
    BY <1>1, LedgerSafe, PTL

(* No way out of complete keeps a permit of its replica, and none gives it  *)
(* back twice.                                                              *)
THEOREM LedgerPermits == Spec => []PermitsConserved
  <1>1. LedgerInv => PermitsConserved
    BY DEF LedgerInv
  <1> QED
    BY <1>1, LedgerSafe, PTL

-----------------------------------------------------------------------------
(* The refinement of one governor.                                          *)

(* The totals after the step.                                               *)
LEMMA TotalsNext ==
  /\ Reserved' = Sum(estimate', {a \in Attempts : state'[a] = "reserved"})
  /\ Committed' = Sum(actual', {a \in Attempts : state'[a] = "settled"})
  BY DEF Reserved, Committed, Sum, InState, MapThenSumSet, MapThenFoldSet

(* What is reserved was admitted, so it is under the ceiling.               *)
LEMMA ReservedAdmitted ==
  ASSUME LedgerInv
  PROVE  Reserved <= Ceiling
  <1> DEFINE R == InState("reserved")
             low == [a \in Attempts |-> IF a \in R THEN estimate[a] ELSE 0]
  <1>1. R \in SUBSET Attempts /\ {} \in SUBSET Attempts /\ estimate \in [Attempts -> Nat]
    BY DEF InState, LedgerInv, TypeOK
  <1>2. \A a \in Attempts : estimate[a] \in Nat
    BY <1>1
  <1>3. low \in [Attempts -> Nat]
    BY <1>2
  <1>4. \A a \in Attempts :
          low[a] = (IF a \in R THEN estimate[a] ELSE 0) + (IF a \in {} THEN estimate[a] ELSE 0)
    BY <1>2
  <1>5. Left \in [Attempts -> Nat] /\ \A a \in Attempts : low[a] <= Left[a]
    BY <1>2, LeftOf DEF LedgerInv, TypeOK, InState
  <1> HIDE DEF low, R
  <1>6. Sum(low, Attempts) = Sum(estimate, R) + Sum(estimate, {})
    BY <1>1, <1>3, <1>4, LedgerAssumption, SumSplit
  <1>7. Sum(estimate, {}) = 0
    BY LedgerAssumption, SumStep
  <1>8. Sum(low, Attempts) <= Sum(Left, Attempts)
    BY <1>3, <1>5, LedgerAssumption, SumMonotone
  <1>9. Sum(low, Attempts) \in Nat /\ Sum(Left, Attempts) \in Nat /\ Sum(estimate, R) \in Nat
    BY <1>1, <1>3, <1>5, LedgerAssumption, SumNat
  <1>10. Sum(Left, Attempts) <= Ceiling
    BY DEF LedgerInv, LeftUnderCeiling
  <1>11. Reserved = Sum(estimate, R)
    BY Totals DEF R
  <1> QED
    BY <1>6, <1>7, <1>8, <1>9, <1>10, <1>11, LedgerAssumption

(* The reservations E become committed spend, each charged as charge says.  *)
Converts(E, charge) ==
  /\ state' = [a \in Attempts |-> IF a \in E THEN "settled" ELSE state[a]]
  /\ actual' = [a \in Attempts |-> IF a \in E THEN charge[a] ELSE actual[a]]
  /\ UNCHANGED estimate

(* Such a step is one settlement of the governor.                           *)
LEMMA Conversion ==
  ASSUME LedgerInv, NEW E, E \subseteq InState("reserved"),
         NEW charge \in [Attempts -> Nat], Converts(E, charge),
         Sum(charge, E) <= Ceiling + MaxSpend
  PROVE  Governor!Next
  <1> DEFINE R == InState("reserved")
             C == InState("settled")
  <1>1. /\ R \in SUBSET Attempts /\ C \in SUBSET Attempts /\ E \in SUBSET Attempts
        /\ R \ E \in SUBSET Attempts /\ (R \ E) \cap E = {} /\ C \cap E = {}
        /\ (R \ E) \cup E = R
    BY DEF InState
  <1>2. estimate \in [Attempts -> Nat] /\ actual \in [Attempts -> Nat]
    BY DEF LedgerInv, TypeOK
  <1>3. /\ \A a \in Attempts : actual[a] \in Nat /\ charge[a] \in Nat
        /\ \A a \in Attempts : actual'[a] = IF a \in E THEN charge[a] ELSE actual[a]
    BY <1>2 DEF Converts
  <1>4. actual' \in [Attempts -> Nat]
    BY <1>3 DEF Converts
  <1>5. {a \in Attempts : state'[a] = "reserved"} = R \ E
    BY DEF Converts, InState
  <1>6. {a \in Attempts : state'[a] = "settled"} = C \cup E
    BY <1>1 DEF Converts, InState
  <1> HIDE DEF R, C
  <1>7. Sum(estimate, R) = Sum(estimate, R \ E) + Sum(estimate, E)
    <2>1. Sum(estimate, (R \ E) \cup E) = Sum(estimate, R \ E) + Sum(estimate, E)
      BY <1>1, <1>2, LedgerAssumption, SumUnion
    <2> QED
      BY <1>1, <2>1
  <1>8. Sum(actual', C \cup E) = Sum(actual, C) + Sum(charge, E)
    <2>1. (\A a \in C : actual'[a] = actual[a]) /\ (\A a \in E : actual'[a] = charge[a])
      BY <1>1, <1>3
    <2> QED
      BY <1>1, <1>2, <1>4, <2>1, LedgerAssumption, SumUnion
  <1>9. /\ Reserved = Sum(estimate, R) /\ Committed = Sum(actual, C)
        /\ Reserved' = Sum(estimate, R \ E) /\ Committed' = Sum(actual', C \cup E)
    BY <1>5, <1>6, Totals, TotalsNext DEF R, C, Converts
  <1>10. /\ Sum(estimate, R \ E) \in Nat /\ Sum(estimate, E) \in Nat /\ Sum(charge, E) \in Nat
         /\ Sum(actual, C) \in Nat
    BY <1>1, <1>2, LedgerAssumption, SumNat
  <1> DEFINE n == Sum(estimate, E)
             k == Sum(charge, E)
  <1>11. /\ n \in 0 .. Reserved /\ Reserved - n = Reserved' /\ Reserved' \in Nat
         /\ Committed' = Committed + k /\ k \in 0 .. (Ceiling + MaxSpend)
    BY <1>7, <1>8, <1>9, <1>10, LedgerAssumption
  <1> HIDE DEF n, k
  <1>12. Governor!Max({0, Reserved - n}) = Reserved'
    <2>1. \A x \in Nat : Governor!Max({0, x}) = x
      BY DEF Governor!Max
    <2> QED
      BY <1>11, <2>1
  <1>13. Governor!settle(n, k)
    BY <1>11, <1>12 DEF Governor!settle
  <1> QED
    BY <1>11, <1>13 DEF Governor!Next

(* An admission is one reservation of the governor.                         *)
LEMMA Admission ==
  ASSUME LedgerInv, NEW a \in Attempts, NEW tokens \in Estimates, reserve(a, tokens)
  PROVE  Governor!Next
  <1> DEFINE R == InState("reserved")
             C == InState("settled")
  <1>1. /\ R \in SUBSET Attempts /\ {a} \in SUBSET Attempts /\ {} \in SUBSET Attempts
        /\ R \cap {a} = {} /\ {a} \ {a} = {}
    BY DEF InState, LedgerInv, RowsFollow, reserve
  <1>2. estimate \in [Attempts -> Nat] /\ tokens \in Nat
    BY LedgerAssumption DEF LedgerInv, TypeOK
  <1>3. estimate' \in [Attempts -> Nat] /\ estimate'[a] = tokens
        /\ \A b \in R : estimate'[b] = estimate[b]
    BY <1>1, <1>2 DEF reserve
  <1>4. {b \in Attempts : state'[b] = "reserved"} = R \cup {a}
    BY DEF InState, reserve, LedgerInv, TypeOK
  <1>5. {b \in Attempts : state'[b] = "settled"} = C
    BY DEF InState, reserve, LedgerInv, TypeOK, RowsFollow
  <1> HIDE DEF R, C
  <1>6. Sum(estimate', R \cup {a}) = Sum(estimate, R) + Sum(estimate', {a})
    BY <1>1, <1>2, <1>3, LedgerAssumption, SumUnion
  <1>7. Sum(estimate', {a}) = tokens
    <2>1. Sum(estimate', {a}) = estimate'[a] + Sum(estimate', {a} \ {a})
      BY <1>1, <1>3, LedgerAssumption, SumRemove
    <2>2. Sum(estimate', {}) = 0
      BY LedgerAssumption, SumStep
    <2> QED
      BY <1>1, <1>2, <1>3, <2>1, <2>2
  <1>8. Reserved' = Reserved + tokens /\ Committed' = Committed
    BY <1>4, <1>5, <1>6, <1>7, Totals, TotalsNext DEF R, C, reserve
  <1>9. Committed + Reserved + tokens <= Ceiling
    BY DEF reserve
  <1>10. Governor!reserve(tokens)
    BY <1>8, <1>9 DEF Governor!reserve
  <1> QED
    BY <1>10 DEF Governor!Next

(* Every step of the ledger is a step of the governor, or none.             *)
LEMMA GovernorStep ==
  ASSUME LedgerInv, [Next]_vars
  PROVE  [Governor!Next]_(Governor!vars)
  <1>1. ASSUME UNCHANGED <<state, estimate, actual>>
        PROVE  UNCHANGED Governor!vars
    BY <1>1, Totals, TotalsNext DEF Governor!vars, InState
  <1>2. ASSUME NEW a \in Attempts, settle(a), state[a] = "reserved"
        PROVE  Governor!Next
    <2>1. {a} \subseteq InState("reserved") /\ {a} \in SUBSET Attempts /\ {a} \ {a} = {}
      BY <1>2 DEF InState
    <2>2. spent \in [Attempts -> Nat] /\ spent[a] \in 0 .. MaxSpend
      BY LedgerAssumption DEF LedgerInv, TypeOK
    <2>3. Converts({a}, spent)
      BY <1>2 DEF settle, Converts, LedgerInv, TypeOK
    <2>4. Sum(spent, {a}) = spent[a]
      <3>1. Sum(spent, {a}) = spent[a] + Sum(spent, {a} \ {a})
        BY <2>1, <2>2, LedgerAssumption, SumRemove
      <3>2. Sum(spent, {}) = 0
        BY LedgerAssumption, SumStep
      <3> QED
        BY <2>1, <2>2, <3>1, <3>2
    <2>5. Sum(spent, {a}) <= Ceiling + MaxSpend
      BY <2>2, <2>4, LedgerAssumption
    <2> QED
      BY <2>1, <2>2, <2>3, <2>5, Conversion
  <1>3. ASSUME reconcile
        PROVE  Governor!Next
    <2>1. Expired \subseteq InState("reserved") /\ Expired \in SUBSET Attempts
          /\ InState("reserved") \in SUBSET Attempts
      BY DEF Expired, InState
    <2>2. estimate \in [Attempts -> Nat]
      BY DEF LedgerInv, TypeOK
    <2>3. Converts(Expired, estimate)
      BY <1>3 DEF reconcile, Converts
    <2>4. Sum(estimate, Expired) <= Ceiling + MaxSpend
      <3> DEFINE R == InState("reserved")
      <3>1. (R \ Expired) \cup Expired = R /\ (R \ Expired) \cap Expired = {}
            /\ R \ Expired \in SUBSET Attempts
        BY <2>1
      <3>2. Sum(estimate, (R \ Expired) \cup Expired) =
              Sum(estimate, R \ Expired) + Sum(estimate, Expired)
        BY <2>1, <2>2, <3>1, LedgerAssumption, SumUnion
      <3>3. Sum(estimate, R \ Expired) \in Nat /\ Sum(estimate, Expired) \in Nat
        BY <2>1, <2>2, <3>1, LedgerAssumption, SumNat
      <3>4. Reserved = Sum(estimate, R \ Expired) + Sum(estimate, Expired)
        BY <3>1, <3>2, Totals
      <3> QED
        BY <3>3, <3>4, ReservedAdmitted, LedgerAssumption
    <2> QED
      BY <2>1, <2>2, <2>3, <2>4, Conversion
  <1>4. ASSUME NEW a \in Attempts, NEW tokens \in Estimates, reserve(a, tokens)
        PROVE  Governor!Next
    BY <1>4, Admission
  <1>5. ASSUME NEW a \in Attempts,
               AcquireSlot(a) \/ refuse(a) \/ SettleFails(a) \/ ReleaseSlot(a) \/ GrowStale(a)
        PROVE  UNCHANGED Governor!vars
    BY <1>1, <1>5 DEF AcquireSlot, refuse, SettleFails, ReleaseSlot, GrowStale, row
  <1>6. ASSUME NEW a \in Attempts, NEW use \in 1 .. MaxSpend, Bill(a, use)
        PROVE  UNCHANGED Governor!vars
    BY <1>1, <1>6 DEF Bill, row
  <1>7. ASSUME NEW r \in Replicas, Crash(r)
        PROVE  UNCHANGED Governor!vars
    BY <1>1, <1>7 DEF Crash, row
  <1>8. ASSUME UNCHANGED vars
        PROVE  UNCHANGED Governor!vars
    BY <1>1, <1>8 DEF vars, row
  <1>9. ASSUME NEW a \in Attempts, settle(a), state[a] # "reserved"
        PROVE  UNCHANGED Governor!vars
    BY <1>1, <1>9 DEF settle
  <1> QED
    BY <1>2, <1>3, <1>4, <1>5, <1>6, <1>7, <1>8, <1>9 DEF Next

(* The shared file behaves as one governor: the replicas, their crashes and *)
(* their failed transactions cannot be seen in its totals.                  *)
THEOREM LedgerRefines == Spec => OneGovernor
  <1>1. Init => Governor!Init
    <2> SUFFICES ASSUME Init
                 PROVE  Governor!Init
      OBVIOUS
    <2>1. InState("reserved") = {} /\ InState("settled") = {}
      BY DEF Init, InState
    <2>2. Sum(estimate, {}) = 0 /\ Sum(actual, {}) = 0
      BY LedgerAssumption, SumStep
    <2> QED
      BY <2>1, <2>2, Totals DEF Governor!Init
  <1>2. LedgerInv /\ [Next]_vars => [Governor!Next]_(Governor!vars)
    BY GovernorStep
  <1> QED
    BY <1>1, <1>2, LedgerSafe, PTL DEF Spec, OneGovernor, Governor!Spec
=============================================================================
