-------------------------------- MODULE Sums --------------------------------
(***************************************************************************)
(* Sums over finite sets, as the reports of the system take them: one row  *)
(* after another, in whatever order the database returns them.  The        *)
(* lemmas say that the order does not matter, that a sum may be taken      *)
(* group by group, and that counting is adding ones.                       *)
(*                                                                         *)
(* SumFunctionOnSet chooses a function on the subsets of its set.  That    *)
(* such a function exists, and that two of them agree, is shown with the   *)
(* smallest set for which it would not be so.                              *)
(***************************************************************************)
EXTENDS Integers, Functions, FiniteSetTheorems, WellFoundedInduction, TLAPS

Pick(s) == CHOOSE x \in s : TRUE

\* The function that the definition of SumFunctionOnSet(g, S) chooses.
Totals(f, g, S) == f = [s \in SUBSET S |-> IF s = {} THEN 0 ELSE g[Pick(s)] + f[s \ {Pick(s)}]]

LEMMA SumIs == ASSUME NEW g, NEW S PROVE SumFunctionOnSet(g, S) = (CHOOSE f : Totals(f, g, S))[S]
  BY Zenon DEF SumFunctionOnSet, FoldFunctionOnSet, MapThenFoldSet, Totals, Pick

\* Of some subsets of a finite set, one is the smallest: induction over finite sets, for one
\* set of counterexamples at a time.
LEMMA Smallest ==
  ASSUME NEW S, IsFiniteSet(S), NEW C \in SUBSET (SUBSET S), C # {}
  PROVE  \E T \in C : \A U \in C : U \subseteq T => U = T
<1>1. IsWellFoundedOn(StrictSubsetOrdering(S), FiniteSubsetsOf(S))
  BY FS_StrictSubsetOrderingWellFounded
<1>2. C \subseteq FiniteSubsetsOf(S)  BY FS_Subset DEF FiniteSubsetsOf
<1>3. PICK T \in C : \A U \in C : <<U, T>> \notin StrictSubsetOrdering(S)
  BY <1>1, <1>2, WFMin
<1>4. ASSUME NEW U \in C, U \subseteq T PROVE U = T
  <2>1. <<U, T>> \notin StrictSubsetOrdering(S)  BY <1>3, <1>4
  <2> QED BY <1>4, <2>1 DEF StrictSubsetOrdering
<1> QED BY <1>4

LEMMA TotalsStep ==
  ASSUME NEW f, NEW g, NEW S, Totals(f, g, S), NEW s \in SUBSET S, s # {}
  PROVE  Pick(s) \in s /\ f[s] = g[Pick(s)] + f[s \ {Pick(s)}]
<1>1. Pick(s) \in s  BY DEF Pick
<1>2. f[s] = IF s = {} THEN 0 ELSE g[Pick(s)] + f[s \ {Pick(s)}]  BY Zenon DEF Totals
<1> QED BY <1>1, <1>2

LEMMA TotalsEmpty ==
  ASSUME NEW f, NEW g, NEW S, Totals(f, g, S)
  PROVE  f[{}] = 0
<1>1. {} \in SUBSET S  OBVIOUS
<1>2. f[{}] = IF {} = {} THEN 0 ELSE g[Pick({})] + f[{} \ {Pick({})}]  BY <1>1, Zenon DEF Totals
<1> QED BY <1>2

\* Two such functions agree where both are defined.
LEMMA TotalsAgree ==
  ASSUME NEW f, NEW g, NEW U, Totals(f, g, U), NEW e, NEW h, NEW V, Totals(e, h, V),
         NEW W, IsFiniteSet(W), W \subseteq U, W \subseteq V, \A x \in W : g[x] = h[x]
  PROVE  f[W] = e[W]
<1> SUFFICES ASSUME f[W] # e[W] PROVE FALSE  OBVIOUS
<1> DEFINE C == {t \in SUBSET W : f[t] # e[t]}
<1>1. C # {} /\ C \in SUBSET (SUBSET W)  OBVIOUS
<1>2. PICK t \in C : \A u \in C : u \subseteq t => u = t
  <2> HIDE DEF C
  <2> QED BY <1>1, Smallest
<1>3. t \in SUBSET U /\ t \in SUBSET V /\ t \in SUBSET W /\ f[t] # e[t]  OBVIOUS
<1>4. t # {}  BY <1>3, TotalsEmpty
<1>5. Pick(t) \in t /\ f[t] = g[Pick(t)] + f[t \ {Pick(t)}]
  <2>1. Pick(t) \in t  BY <1>4 DEF Pick
  <2>2. f[t] = g[Pick(t)] + f[t \ {Pick(t)}]  BY <1>3, <1>4, TotalsStep
  <2> QED BY <2>1, <2>2
<1>6. e[t] = h[Pick(t)] + e[t \ {Pick(t)}]  BY <1>3, <1>4, TotalsStep
<1>7. t \ {Pick(t)} \notin C  BY <1>2, <1>5
<1>8. f[t \ {Pick(t)}] = e[t \ {Pick(t)}]  BY <1>3, <1>7
<1>9. g[Pick(t)] = h[Pick(t)]  BY <1>3, <1>5
<1> QED BY <1>3, <1>5, <1>6, <1>8, <1>9

\* ... and there is one for every finite set.
LEMMA TotalsExist ==
  ASSUME NEW S, IsFiniteSet(S), NEW g
  PROVE  \E f : Totals(f, g, S)
<1> SUFFICES ASSUME ~ \E f : Totals(f, g, S) PROVE FALSE  OBVIOUS
<1> DEFINE C == {T \in SUBSET S : ~ \E f : Totals(f, g, T)}
<1>1. C # {} /\ C \in SUBSET (SUBSET S)  OBVIOUS
<1>2. PICK T \in C : \A U \in C : U \subseteq T => U = T
  <2> HIDE DEF C
  <2> QED BY <1>1, Smallest
<1>3. T \in SUBSET S /\ ~ \E f : Totals(f, g, T)  OBVIOUS
<1> DEFINE F(u) == CHOOSE f : Totals(f, g, u)
<1>4. ASSUME NEW u \in SUBSET T, u # T PROVE Totals(F(u), g, u)
  <2>1. u \notin C /\ u \in SUBSET S  BY <1>2, <1>3, <1>4
  <2>2. \E f : Totals(f, g, u)  BY <2>1
  <2> QED BY <2>2
<1> HIDE DEF C, F
<1> DEFINE rest(s) == s \ {Pick(s)}
           f == [s \in SUBSET T |-> IF s = {} THEN 0 ELSE g[Pick(s)] + F(rest(s))[rest(s)]]
<1>5. ASSUME NEW u \in SUBSET T, u # T PROVE f[u] = F(u)[u]
  <2>0. Totals(F(u), g, u)  BY <1>4, <1>5
  <2>1. CASE u = {}
    <3>1. F(u)[u] = 0  BY <2>0, <2>1, TotalsEmpty
    <3> QED BY <2>1, <3>1
  <2>2. CASE u # {}
    <3>1. Pick(u) \in u /\ F(u)[u] = g[Pick(u)] + F(u)[rest(u)]  BY <2>0, <2>2, TotalsStep
    <3>2. rest(u) \in SUBSET u /\ rest(u) \in SUBSET T /\ rest(u) # T  BY <1>5, <3>1
    <3>3. Totals(F(rest(u)), g, rest(u))  BY <1>4, <3>2
    <3>4. IsFiniteSet(rest(u)) /\ rest(u) \subseteq u /\ rest(u) \subseteq rest(u)
      BY <1>3, <3>2, FS_Subset
    <3> HIDE DEF rest
    <3>5. F(u)[rest(u)] = F(rest(u))[rest(u)]  BY <2>0, <3>3, <3>4, TotalsAgree
    <3>6. f[u] = g[Pick(u)] + F(rest(u))[rest(u)]  BY <2>2
    <3> QED BY <3>1, <3>5, <3>6
  <2> QED BY <2>1, <2>2
<1>6. Totals(f, g, T)
  <2>1. ASSUME NEW s \in SUBSET T
        PROVE  f[s] = IF s = {} THEN 0 ELSE g[Pick(s)] + f[s \ {Pick(s)}]
    <3>1. CASE s = {}  BY <3>1
    <3>2. CASE s # {}
      <4>1. Pick(s) \in s  BY <3>2 DEF Pick
      <4>2. rest(s) \in SUBSET T /\ rest(s) # T  BY <4>1
      <4>3. f[rest(s)] = F(rest(s))[rest(s)]
        <5> HIDE DEF rest, f
        <5> QED BY <1>5, <4>2
      <4>4. f[s] = g[Pick(s)] + F(rest(s))[rest(s)]  BY <3>2
      <4> HIDE DEF f
      <4> QED BY <3>2, <4>3, <4>4
    <3> QED BY <3>1, <3>2
  <2>2. f = [s \in SUBSET T |-> f[s]]  OBVIOUS
  <2> HIDE DEF f
  <2>3. f = [s \in SUBSET T |-> IF s = {} THEN 0 ELSE g[Pick(s)] + f[s \ {Pick(s)}]]  BY <2>1, <2>2
  <2> QED BY <2>3 DEF Totals
<1> QED BY <1>3, <1>6

----------------------------------------------------------------------------
(* What is needed of a sum: the values of g at the members of S.           *)

LEMMA SumEmpty == ASSUME NEW g PROVE SumFunctionOnSet(g, {}) = 0
<1>1. PICK f : f = CHOOSE e : Totals(e, g, {})  OBVIOUS
<1>2. Totals(f, g, {})  BY <1>1, TotalsExist, FS_EmptySet
<1> QED BY <1>1, <1>2, SumIs, TotalsEmpty

\* Equal values have equal sums.
LEMMA SumSame ==
  ASSUME NEW S, IsFiniteSet(S), NEW g, NEW h, \A x \in S : g[x] = h[x]
  PROVE  SumFunctionOnSet(g, S) = SumFunctionOnSet(h, S)
<1>1. PICK f, e : f = (CHOOSE k : Totals(k, g, S)) /\ e = (CHOOSE k : Totals(k, h, S))  OBVIOUS
<1>2. Totals(f, g, S) /\ Totals(e, h, S)  BY <1>1, TotalsExist
<1>3. f[S] = e[S]  BY <1>2, TotalsAgree
<1> QED BY <1>1, <1>3, SumIs

LEMMA SumStep ==
  ASSUME NEW S, IsFiniteSet(S), S # {}, NEW g
  PROVE  Pick(S) \in S /\ SumFunctionOnSet(g, S) = g[Pick(S)] + SumFunctionOnSet(g, S \ {Pick(S)})
<1>1. PICK T : T = S \ {Pick(S)}  OBVIOUS
<1>2. PICK f, e : f = (CHOOSE k : Totals(k, g, S)) /\ e = (CHOOSE k : Totals(k, g, T))  OBVIOUS
<1>3. IsFiniteSet(T) /\ T \in SUBSET S  BY <1>1, FS_Subset
<1>4. Totals(f, g, S) /\ Totals(e, g, T)  BY <1>2, <1>3, TotalsExist
<1>5. S \in SUBSET S /\ T \subseteq S /\ T \subseteq T  BY <1>1
<1>6. f[T] = e[T]  BY <1>3, <1>4, <1>5, TotalsAgree
<1>7. Pick(S) \in S /\ f[S] = g[Pick(S)] + f[T]  BY <1>1, <1>4, <1>5, TotalsStep
<1>8. SumFunctionOnSet(g, S) = f[S] /\ SumFunctionOnSet(g, T) = e[T]  BY <1>2, SumIs
<1> QED BY <1>1, <1>6, <1>7, <1>8

\* A set of numbers that is closed under sums.
LEMMA SumClosed ==
  ASSUME NEW N, 0 \in N, \A a, b \in N : a + b \in N,
         NEW S, IsFiniteSet(S), NEW g, \A x \in S : g[x] \in N
  PROVE  SumFunctionOnSet(g, S) \in N
<1> SUFFICES ASSUME SumFunctionOnSet(g, S) \notin N PROVE FALSE  OBVIOUS
<1> DEFINE C == {T \in SUBSET S : SumFunctionOnSet(g, T) \notin N}
<1>1. C # {} /\ C \in SUBSET (SUBSET S)  OBVIOUS
<1>2. PICK T \in C : \A U \in C : U \subseteq T => U = T
  <2> HIDE DEF C
  <2> QED BY <1>1, Smallest
<1>3. T \in SUBSET S /\ SumFunctionOnSet(g, T) \notin N  OBVIOUS
<1>4. IsFiniteSet(T) /\ T # {}  BY <1>3, FS_Subset, SumEmpty
<1>5. Pick(T) \in T /\ SumFunctionOnSet(g, T) = g[Pick(T)] + SumFunctionOnSet(g, T \ {Pick(T)})
  BY <1>4, SumStep
<1>6. T \ {Pick(T)} \notin C /\ T \ {Pick(T)} \in SUBSET S  BY <1>2, <1>3, <1>5
<1>7. SumFunctionOnSet(g, T \ {Pick(T)}) \in N  BY <1>6
<1> QED BY <1>3, <1>5, <1>7

LEMMA SumInt ==
  ASSUME NEW S, IsFiniteSet(S), NEW g, \A x \in S : g[x] \in Int
  PROVE  SumFunctionOnSet(g, S) \in Int
<1>1. 0 \in Int /\ \A a, b \in Int : a + b \in Int  OBVIOUS
<1> QED BY <1>1, SumClosed

LEMMA SumNat ==
  ASSUME NEW S, IsFiniteSet(S), NEW g, \A x \in S : g[x] \in Nat
  PROVE  SumFunctionOnSet(g, S) \in Nat
<1>1. 0 \in Nat /\ \A a, b \in Nat : a + b \in Nat  OBVIOUS
<1> QED BY <1>1, SumClosed

\* Whatever the order: any member may be the one that is added last.
LEMMA SumRemove ==
  ASSUME NEW S, IsFiniteSet(S), NEW g, \A x \in S : g[x] \in Int, NEW x \in S
  PROVE  SumFunctionOnSet(g, S) = g[x] + SumFunctionOnSet(g, S \ {x})
<1> DEFINE Right(T) == \A y \in T : SumFunctionOnSet(g, T) = g[y] + SumFunctionOnSet(g, T \ {y})
<1> SUFFICES ASSUME ~Right(S) PROVE FALSE  OBVIOUS
<1> DEFINE C == {T \in SUBSET S : ~Right(T)}
<1>1. C # {} /\ C \in SUBSET (SUBSET S)  OBVIOUS
<1>2. PICK T \in C : \A U \in C : U \subseteq T => U = T
  <2> HIDE DEF C
  <2> QED BY <1>1, Smallest
<1>3. T \in SUBSET S /\ ~Right(T)  OBVIOUS
<1>4. PICK y \in T : SumFunctionOnSet(g, T) # g[y] + SumFunctionOnSet(g, T \ {y})  BY <1>3
<1>5. ASSUME NEW U \in SUBSET T, U # T, NEW z \in U
      PROVE  SumFunctionOnSet(g, U) = g[z] + SumFunctionOnSet(g, U \ {z})
  <2>1. U \notin C /\ U \in SUBSET S  BY <1>2, <1>3, <1>5
  <2> QED BY <1>5, <2>1
<1> HIDE DEF C, Right
<1>6. PICK p : p = Pick(T)  OBVIOUS
<1>7. IsFiniteSet(T) /\ T # {}  BY <1>3, <1>4, FS_Subset
<1>8. p \in T /\ SumFunctionOnSet(g, T) = g[p] + SumFunctionOnSet(g, T \ {p})  BY <1>6, <1>7, SumStep
<1>9. p # y  BY <1>4, <1>8
<1>10. SumFunctionOnSet(g, T \ {p}) = g[y] + SumFunctionOnSet(g, (T \ {p}) \ {y})
  <2>1. T \ {p} \in SUBSET T /\ T \ {p} # T /\ y \in T \ {p}  BY <1>4, <1>8, <1>9
  <2> QED BY <1>5, <2>1
<1>11. SumFunctionOnSet(g, T \ {y}) = g[p] + SumFunctionOnSet(g, (T \ {y}) \ {p})
  <2>1. T \ {y} \in SUBSET T /\ T \ {y} # T /\ p \in T \ {y}  BY <1>4, <1>8, <1>9
  <2> QED BY <1>5, <2>1
<1>12. PICK U : U = (T \ {p}) \ {y}  OBVIOUS
<1>13. (T \ {y}) \ {p} = U /\ U \in SUBSET S  BY <1>3, <1>12
<1>14. g[p] \in Int /\ g[y] \in Int /\ SumFunctionOnSet(g, U) \in Int
  <2>1. IsFiniteSet(U) /\ \A z \in U : g[z] \in Int  BY <1>13, FS_Subset
  <2> QED BY <1>3, <1>4, <1>8, <2>1, SumInt
<1>15. SumFunctionOnSet(g, T) = g[p] + (g[y] + SumFunctionOnSet(g, U))  BY <1>8, <1>10, <1>12
<1>16. g[y] + SumFunctionOnSet(g, T \ {y}) = g[y] + (g[p] + SumFunctionOnSet(g, U))  BY <1>11, <1>13
<1> QED BY <1>4, <1>14, <1>15, <1>16

LEMMA SumAdd ==
  ASSUME NEW S, IsFiniteSet(S), NEW x, x \notin S, NEW g, \A y \in S \cup {x} : g[y] \in Int
  PROVE  SumFunctionOnSet(g, S \cup {x}) = SumFunctionOnSet(g, S) + g[x]
<1>1. IsFiniteSet(S \cup {x}) /\ x \in S \cup {x} /\ (S \cup {x}) \ {x} = S  BY FS_AddElement
<1>2. SumFunctionOnSet(g, S \cup {x}) = g[x] + SumFunctionOnSet(g, S)  BY <1>1, SumRemove
<1>3. SumFunctionOnSet(g, S) \in Int /\ g[x] \in Int  BY SumInt
<1> QED BY <1>2, <1>3

LEMMA SumUnion ==
  ASSUME NEW S, IsFiniteSet(S), NEW T, IsFiniteSet(T), S \cap T = {},
         NEW g, \A x \in S \cup T : g[x] \in Int
  PROVE  SumFunctionOnSet(g, S \cup T) = SumFunctionOnSet(g, S) + SumFunctionOnSet(g, T)
<1> DEFINE Right(U) == SumFunctionOnSet(g, S \cup U) = SumFunctionOnSet(g, S) + SumFunctionOnSet(g, U)
<1> SUFFICES ASSUME ~Right(T) PROVE FALSE  OBVIOUS
<1> DEFINE C == {U \in SUBSET T : ~Right(U)}
<1>1. C # {} /\ C \in SUBSET (SUBSET T)  OBVIOUS
<1>2. PICK U \in C : \A V \in C : V \subseteq U => V = U
  <2> HIDE DEF C
  <2> QED BY <1>1, Smallest
<1>3. U \in SUBSET T /\ ~Right(U)  OBVIOUS
<1>4. SumFunctionOnSet(g, S) \in Int  BY SumInt
<1>5. U # {}
  <2>1. ASSUME U = {} PROVE FALSE
    <3>1. S \cup U = S /\ SumFunctionOnSet(g, U) = 0  BY <2>1, SumEmpty
    <3> QED BY <1>3, <1>4, <3>1
  <2> QED BY <2>1
<1>6. PICK x \in U : TRUE  BY <1>5
<1>7. PICK V : V = U \ {x}  OBVIOUS
<1>8. V \notin C /\ V \in SUBSET T /\ U = V \cup {x} /\ x \notin V /\ x \in T /\ x \notin S
  BY <1>2, <1>3, <1>6, <1>7
<1>9. SumFunctionOnSet(g, S \cup V) = SumFunctionOnSet(g, S) + SumFunctionOnSet(g, V)  BY <1>8
<1> HIDE DEF C
<1>10. IsFiniteSet(V) /\ IsFiniteSet(S \cup V)  BY <1>8, FS_Subset, FS_Union
<1>11. SumFunctionOnSet(g, U) = SumFunctionOnSet(g, V) + g[x]
  <2>1. \A y \in V \cup {x} : g[y] \in Int  BY <1>8
  <2> QED BY <1>8, <1>10, <2>1, SumAdd
<1>12. SumFunctionOnSet(g, S \cup U) = SumFunctionOnSet(g, S \cup V) + g[x]
  <2>1. \A y \in (S \cup V) \cup {x} : g[y] \in Int  BY <1>8
  <2>2. (S \cup V) \cup {x} = S \cup U /\ x \notin S \cup V  BY <1>8
  <2> QED BY <1>10, <2>1, <2>2, SumAdd
<1>13. SumFunctionOnSet(g, V) \in Int /\ g[x] \in Int
  <2>1. \A y \in V : g[y] \in Int  BY <1>8
  <2> QED BY <1>8, <1>10, <2>1, SumInt
<1>14. SumFunctionOnSet(g, S \cup U) = SumFunctionOnSet(g, S) + SumFunctionOnSet(g, U)
  BY <1>4, <1>9, <1>11, <1>12, <1>13
<1> QED BY <1>3, <1>14

\* The sets that part assigns to the members of T divide S among them.
Divides(part, T, S) ==
  /\ \A t \in T : part[t] \subseteq S
  /\ \A x \in S : \E t \in T : x \in part[t]
  /\ \A t, u \in T : t # u => part[t] \cap part[u] = {}

\* A sum may be taken group by group: h[t] is the sum of the group of t.
LEMMA SumByGroup ==
  ASSUME NEW S, IsFiniteSet(S), NEW T, IsFiniteSet(T), NEW part, Divides(part, T, S),
         NEW g, \A x \in S : g[x] \in Int,
         NEW h, \A t \in T : h[t] = SumFunctionOnSet(g, part[t])
  PROVE  SumFunctionOnSet(g, S) = SumFunctionOnSet(h, T)
<1> USE DEF Divides
<1> DEFINE In(U) == {x \in S : \E t \in U : x \in part[t]}
           Right(U) == SumFunctionOnSet(g, In(U)) = SumFunctionOnSet(h, U)
<1>0. In(T) = S  OBVIOUS
<1> SUFFICES ASSUME ~Right(T) PROVE FALSE  BY <1>0
<1> DEFINE C == {U \in SUBSET T : ~Right(U)}
<1>1. C # {} /\ C \in SUBSET (SUBSET T)  OBVIOUS
<1>2. PICK U \in C : \A V \in C : V \subseteq U => V = U
  <2> HIDE DEF C
  <2> QED BY <1>1, Smallest
<1>3. U \in SUBSET T /\ ~Right(U)  OBVIOUS
<1>4. U # {}
  <2>1. ASSUME U = {} PROVE FALSE
    <3>1. In(U) = {} /\ SumFunctionOnSet(h, U) = 0  BY <2>1, SumEmpty
    <3>2. SumFunctionOnSet(g, In(U)) = 0  BY <3>1, SumEmpty
    <3> QED BY <1>3, <3>1, <3>2
  <2> QED BY <2>1
<1>5. PICK t \in U : TRUE  BY <1>4
<1>6. PICK V : V = U \ {t}  OBVIOUS
<1>7. V \notin C /\ V \in SUBSET T /\ U = V \cup {t} /\ t \notin V /\ t \in T
  BY <1>2, <1>3, <1>5, <1>6
<1>8. SumFunctionOnSet(g, In(V)) = SumFunctionOnSet(h, V)  BY <1>7
<1> HIDE DEF C
<1>9. PICK A, B : A = In(V) /\ B = part[t]  OBVIOUS
<1>10. A \cap B = {} /\ In(U) = A \cup B /\ A \subseteq S /\ B \subseteq S
  <2>1. A \subseteq S /\ B \subseteq S  BY <1>7, <1>9
  <2>2. \A u \in V : part[u] \cap part[t] = {}  BY <1>7
  <2>3. A \cap B = {}  BY <1>9, <2>2
  <2>4. In(U) = A \cup B  BY <1>7, <1>9, <2>1
  <2> QED BY <2>1, <2>3, <2>4
<1>11. IsFiniteSet(A) /\ IsFiniteSet(B) /\ \A x \in A \cup B : g[x] \in Int  BY <1>10, FS_Subset
<1>12. SumFunctionOnSet(g, A \cup B) = SumFunctionOnSet(g, A) + SumFunctionOnSet(g, B)
  BY <1>10, <1>11, SumUnion
<1>13. h[t] = SumFunctionOnSet(g, B)  BY <1>7, <1>9
<1>14. SumFunctionOnSet(h, U) = SumFunctionOnSet(h, V) + h[t]
  <2>1. IsFiniteSet(V)  BY <1>7, FS_Subset
  <2>2. ASSUME NEW y \in T PROVE h[y] \in Int
    <3>1. IsFiniteSet(part[y]) /\ \A x \in part[y] : g[x] \in Int  BY FS_Subset
    <3> QED BY <3>1, SumInt
  <2>3. \A y \in V \cup {t} : h[y] \in Int  BY <1>7, <2>2
  <2> QED BY <1>7, <2>1, <2>3, SumAdd
<1>15. SumFunctionOnSet(g, In(U)) = SumFunctionOnSet(h, U)
  BY <1>8, <1>9, <1>10, <1>12, <1>13, <1>14
<1> QED BY <1>3, <1>15

\* What is 1 everywhere adds up to the number of members.
LEMMA SumOfOnes ==
  ASSUME NEW S, IsFiniteSet(S), NEW g, \A x \in S : g[x] = 1
  PROVE  SumFunctionOnSet(g, S) = Cardinality(S)
<1> DEFINE Right(U) == SumFunctionOnSet(g, U) = Cardinality(U)
<1> SUFFICES ASSUME ~Right(S) PROVE FALSE  OBVIOUS
<1> DEFINE C == {U \in SUBSET S : ~Right(U)}
<1>1. C # {} /\ C \in SUBSET (SUBSET S)  OBVIOUS
<1>2. PICK U \in C : \A V \in C : V \subseteq U => V = U
  <2> HIDE DEF C
  <2> QED BY <1>1, Smallest
<1>3. U \in SUBSET S /\ ~Right(U)  OBVIOUS
<1>4. U # {}  BY <1>3, SumEmpty, FS_EmptySet
<1>5. PICK x \in U : TRUE  BY <1>4
<1>6. PICK V : V = U \ {x}  OBVIOUS
<1>7. V \notin C /\ V \in SUBSET S /\ U = V \cup {x} /\ x \notin V /\ x \in S
  BY <1>2, <1>3, <1>5, <1>6
<1>8. SumFunctionOnSet(g, V) = Cardinality(V)  BY <1>7
<1>9. IsFiniteSet(V) /\ \A y \in V \cup {x} : g[y] \in Int  BY <1>7, FS_Subset
<1>10. SumFunctionOnSet(g, U) = SumFunctionOnSet(g, V) + 1  BY <1>7, <1>9, SumAdd
<1>11. Cardinality(U) = Cardinality(V) + 1  BY <1>7, <1>9, FS_AddElement
<1> QED BY <1>3, <1>8, <1>10, <1>11

\* Members may be counted group by group.
LEMMA CountByGroup ==
  ASSUME NEW S, IsFiniteSet(S), NEW T, IsFiniteSet(T), NEW part, Divides(part, T, S),
         NEW h, \A t \in T : h[t] = Cardinality(part[t])
  PROVE  Cardinality(S) = SumFunctionOnSet(h, T)
<1>1. PICK g : g = [x \in S |-> 1]  OBVIOUS
<1>2. \A x \in S : g[x] = 1 /\ g[x] \in Int  BY <1>1
<1>3. ASSUME NEW t \in T PROVE h[t] = SumFunctionOnSet(g, part[t])
  <2>1. IsFiniteSet(part[t]) /\ \A x \in part[t] : g[x] = 1  BY <1>2, FS_Subset DEF Divides
  <2> QED BY <2>1, SumOfOnes
<1>4. SumFunctionOnSet(g, S) = SumFunctionOnSet(h, T)  BY <1>2, <1>3, SumByGroup
<1> QED BY <1>2, <1>4, SumOfOnes

\* The sum of sums.
LEMMA SumPlus ==
  ASSUME NEW S, IsFiniteSet(S), NEW f, NEW g, NEW h,
         \A x \in S : f[x] \in Int /\ g[x] \in Int /\ h[x] = f[x] + g[x]
  PROVE  SumFunctionOnSet(h, S) = SumFunctionOnSet(f, S) + SumFunctionOnSet(g, S)
<1> DEFINE Right(U) == SumFunctionOnSet(h, U) = SumFunctionOnSet(f, U) + SumFunctionOnSet(g, U)
<1> SUFFICES ASSUME ~Right(S) PROVE FALSE  OBVIOUS
<1> DEFINE C == {U \in SUBSET S : ~Right(U)}
<1>1. C # {} /\ C \in SUBSET (SUBSET S)  OBVIOUS
<1>2. PICK U \in C : \A V \in C : V \subseteq U => V = U
  <2> HIDE DEF C
  <2> QED BY <1>1, Smallest
<1>3. U \in SUBSET S /\ ~Right(U)  OBVIOUS
<1>4. U # {}
  <2>1. ASSUME U = {} PROVE FALSE
    <3>1. SumFunctionOnSet(f, U) = 0 /\ SumFunctionOnSet(g, U) = 0 /\ SumFunctionOnSet(h, U) = 0
      BY <2>1, SumEmpty
    <3> QED BY <1>3, <3>1
  <2> QED BY <2>1
<1>5. PICK x \in U : TRUE  BY <1>4
<1>6. PICK V : V = U \ {x}  OBVIOUS
<1>7. V \notin C /\ V \in SUBSET S /\ U = V \cup {x} /\ x \notin V /\ x \in S
  BY <1>2, <1>3, <1>5, <1>6
<1>8. SumFunctionOnSet(h, V) = SumFunctionOnSet(f, V) + SumFunctionOnSet(g, V)  BY <1>7
<1> HIDE DEF C
<1>9. IsFiniteSet(V) /\ \A y \in V \cup {x} : f[y] \in Int /\ g[y] \in Int /\ h[y] \in Int
  BY <1>7, FS_Subset
<1>10. SumFunctionOnSet(h, U) = SumFunctionOnSet(h, V) + h[x]  BY <1>7, <1>9, SumAdd
<1>11. SumFunctionOnSet(f, U) = SumFunctionOnSet(f, V) + f[x]  BY <1>7, <1>9, SumAdd
<1>12. SumFunctionOnSet(g, U) = SumFunctionOnSet(g, V) + g[x]  BY <1>7, <1>9, SumAdd
<1>13. SumFunctionOnSet(f, V) \in Int /\ SumFunctionOnSet(g, V) \in Int  BY <1>9, SumInt
<1>14. f[x] \in Int /\ g[x] \in Int /\ h[x] = f[x] + g[x]  BY <1>7
<1>15. SumFunctionOnSet(h, U) = SumFunctionOnSet(f, U) + SumFunctionOnSet(g, U)
  BY <1>8, <1>10, <1>11, <1>12, <1>13, <1>14
<1> QED BY <1>3, <1>15

\* A part of a sum of naturals.
LEMMA SumOfPart ==
  ASSUME NEW S, IsFiniteSet(S), NEW T \in SUBSET S, NEW g, \A x \in S : g[x] \in Nat
  PROVE  SumFunctionOnSet(g, T) <= SumFunctionOnSet(g, S)
<1>1. PICK D : D = S \ T  OBVIOUS
<1>2. IsFiniteSet(T) /\ IsFiniteSet(D) /\ S = T \cup D /\ T \cap D = {} /\ \A x \in T \cup D : g[x] \in Int
  BY <1>1, FS_Subset
<1>3. SumFunctionOnSet(g, S) = SumFunctionOnSet(g, T) + SumFunctionOnSet(g, D)  BY <1>2, SumUnion
<1>4. (\A x \in T : g[x] \in Nat) /\ \A x \in D : g[x] \in Nat  BY <1>1
<1>5. SumFunctionOnSet(g, T) \in Nat /\ SumFunctionOnSet(g, D) \in Nat  BY <1>2, <1>4, SumNat
<1> QED BY <1>3, <1>5

LEMMA SumOne == ASSUME NEW x, NEW g, g[x] \in Int PROVE SumFunctionOnSet(g, {x}) = g[x]
<1>1. IsFiniteSet({}) /\ x \notin {} /\ {} \cup {x} = {x}  BY FS_EmptySet
<1>2. SumFunctionOnSet(g, {}) = 0  BY SumEmpty
<1>3. \A y \in {} \cup {x} : g[y] \in Int  OBVIOUS
<1>4. SumFunctionOnSet(g, {} \cup {x}) = SumFunctionOnSet(g, {}) + g[x]  BY <1>1, <1>3, SumAdd
<1> QED BY <1>1, <1>2, <1>4

\* The sum over S and the sum over T, whose members b pairs with those of S.
Pairs(b, S, T) ==
  /\ \A x \in S : b[x] \in T
  /\ \A y \in T : \E x \in S : y = b[x]
  /\ \A x, y \in S : b[x] = b[y] => x = y

LEMMA SumImage ==
  ASSUME NEW S, IsFiniteSet(S), NEW T, IsFiniteSet(T), NEW b, Pairs(b, S, T),
         NEW f, \A y \in T : f[y] \in Int, NEW g, \A x \in S : g[x] = f[b[x]]
  PROVE  SumFunctionOnSet(f, T) = SumFunctionOnSet(g, S)
<1> USE DEF Pairs
<1>1. PICK part : part = [x \in S |-> {b[x]}]  OBVIOUS
<1>2. Divides(part, S, T)  BY <1>1 DEF Divides
<1>3. ASSUME NEW x \in S PROVE g[x] = SumFunctionOnSet(f, part[x])
  <2>1. f[b[x]] \in Int  OBVIOUS
  <2>2. SumFunctionOnSet(f, {b[x]}) = f[b[x]]  BY <2>1, SumOne
  <2> QED BY <1>1, <2>2
<1> QED BY <1>2, <1>3, SumByGroup

LEMMA CountImage ==
  ASSUME NEW S, IsFiniteSet(S), NEW T, IsFiniteSet(T), NEW b, Pairs(b, S, T)
  PROVE  Cardinality(S) = Cardinality(T)
<1>1. PICK f, g : f = [y \in T |-> 1] /\ g = [x \in S |-> 1]  OBVIOUS
<1>2. (\A y \in T : f[y] = 1 /\ f[y] \in Int) /\ (\A x \in S : g[x] = 1 /\ g[x] = f[b[x]])
  BY <1>1 DEF Pairs
<1>3. SumFunctionOnSet(f, T) = SumFunctionOnSet(g, S)  BY <1>2, SumImage
<1> QED BY <1>2, <1>3, SumOfOnes

LEMMA FiniteImage ==
  ASSUME NEW S, IsFiniteSet(S), NEW f, NEW T, \A x \in S : f[x] \in T, \A y \in T : \E x \in S : y = f[x]
  PROVE  IsFiniteSet(T)
<1>1. PICK g : g = [x \in S |-> f[x]]  OBVIOUS
<1>2. g \in [S -> T] /\ \A y \in T : \E x \in S : g[x] = y  BY <1>1
<1>3. g \in Surjection(S, T)  BY <1>2 DEF Surjection
<1> QED BY <1>3, FS_Surjection
=============================================================================
