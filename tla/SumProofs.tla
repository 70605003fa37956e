------------------------------ MODULE SumProofs ------------------------------
(***************************************************************************)
(* The laws of sums that proofs about balances rest on: a sum is that over *)
(* the other elements plus the value of one element, and depends on the    *)
(* values it sums only.                                                    *)
(***************************************************************************)
EXTENDS Sums, FiniteSetTheorems, FunctionTheorems, TLAPS

\* A sum has finitely many units: those of each element are an interval.
LEMMA UnitsFinite ==
  ASSUME NEW S, IsFiniteSet(S), NEW f, \A x \in S : f[x] \in Nat
  PROVE  IsFiniteSet(Units(f, S))
<1> DEFINE Of(x) == {x} \X (1..f[x])
           T == {Of(x) : x \in S}
           g == [x \in S |-> Of(x)]
<1>1. ASSUME NEW x \in S PROVE IsFiniteSet(Of(x))
  <2>1. IsFiniteSet({x})
    BY FS_Singleton
  <2>2. IsFiniteSet(1..f[x])
    <3>1. 1 \in Int /\ f[x] \in Int
      OBVIOUS
    <3> QED BY <3>1, FS_Interval
  <2> QED BY <2>1, <2>2, FS_Product
<1>2. g \in Surjection(S, T)
  BY DEF Surjection
<1>3. IsFiniteSet(T)
  <2> HIDE DEF g, T
  <2> QED BY <1>2, FS_Surjection
<1>4. \A U \in T : IsFiniteSet(U)
  BY <1>1
<1>5. IsFiniteSet(UNION T)
  <2> HIDE DEF T
  <2> QED BY <1>3, <1>4, FS_UNION
<1> QED BY <1>5 DEF Units

\* A sum of naturals is a natural.
LEMMA TotalType ==
  ASSUME NEW S, IsFiniteSet(S), NEW f, \A x \in S : f[x] \in Nat
  PROVE  Total(f, S) \in Nat
BY UnitsFinite, FS_CardinalityType DEF Total

\* The empty sum is zero.
LEMMA TotalEmpty ==
  ASSUME NEW f
  PROVE  Total(f, {}) = 0
BY FS_EmptySet DEF Total, Units

\* A sum of zeros is zero.
LEMMA TotalZero ==
  ASSUME NEW S, NEW f, \A x \in S : f[x] = 0
  PROVE  Total(f, S) = 0
<1>1. Units(f, S) = {}
  BY SMT DEF Units
<1> QED BY <1>1, FS_EmptySet DEF Total

\* A sum depends on the values of the elements it ranges over.
LEMMA TotalSame ==
  ASSUME NEW S, NEW f, NEW g, \A x \in S : f[x] = g[x]
  PROVE  Total(f, S) = Total(g, S)
<1>1. Units(f, S) = Units(g, S)
  BY DEF Units
<1> QED BY <1>1 DEF Total

\* An element contributes its value.
LEMMA TotalSplit ==
  ASSUME NEW S, IsFiniteSet(S), NEW f, \A y \in S : f[y] \in Nat, NEW x \in S
  PROVE  /\ Total(f, S) = Total(f, S \ {x}) + f[x]
         /\ Total(f, S \ {x}) \in Nat
<1> DEFINE Rest == Units(f, S \ {x})
           Own  == {x} \X (1..f[x])
<1>1. IsFiniteSet(S \ {x})
  BY FS_RemoveElement
<1>2. IsFiniteSet(Rest)
  BY <1>1, UnitsFinite
<1>3. IsFiniteSet({x}) /\ Cardinality({x}) = 1
  BY FS_Singleton
<1>4. IsFiniteSet(1..f[x]) /\ Cardinality(1..f[x]) = f[x]
  BY FS_Interval
<1>5. IsFiniteSet(Own) /\ Cardinality(Own) = f[x]
  <2>1. IsFiniteSet(Own) /\ Cardinality(Own) = Cardinality({x}) * Cardinality(1..f[x])
    BY <1>3, <1>4, FS_Product
  <2> QED BY <2>1, <1>3, <1>4
<1>6. Units(f, S) = Rest \cup Own
  BY DEF Units
<1>7. Rest \cap Own = {}
  BY DEF Units
<1>8. Cardinality(Rest \cup Own) = Cardinality(Rest) + Cardinality(Own) - Cardinality({})
  <2> HIDE DEF Rest, Own
  <2> QED BY <1>2, <1>5, <1>7, FS_Union
<1>9. Cardinality(Rest) \in Nat
  BY <1>2, FS_CardinalityType
<1> QED BY <1>5, <1>6, <1>8, <1>9, FS_EmptySet DEF Total

\* A value that changes changes the sum by as much.
LEMMA TotalChange ==
  ASSUME NEW S, IsFiniteSet(S), NEW x \in S, NEW f, NEW g,
         \A y \in S : f[y] \in Nat /\ g[y] \in Nat,
         \A y \in S \ {x} : g[y] = f[y]
  PROVE  /\ Total(f, S) \in Nat
         /\ Total(g, S) \in Nat
         /\ f[x] <= Total(f, S)
         /\ Total(g, S) = Total(f, S) - f[x] + g[x]
<1>1. Total(f, S \ {x}) = Total(g, S \ {x})
  BY TotalSame
<1>2. Total(f, S) = Total(f, S \ {x}) + f[x] /\ Total(f, S \ {x}) \in Nat
  BY TotalSplit
<1>3. Total(g, S) = Total(g, S \ {x}) + g[x]
  BY TotalSplit
<1> QED BY <1>1, <1>2, <1>3

\* A new element adds its value.
LEMMA TotalAdd ==
  ASSUME NEW S, IsFiniteSet(S), NEW x, x \notin S, NEW f, NEW g,
         \A y \in S : f[y] \in Nat /\ g[y] = f[y], g[x] \in Nat
  PROVE  /\ Total(f, S) \in Nat
         /\ Total(g, S \cup {x}) = Total(f, S) + g[x]
<1>1. IsFiniteSet(S \cup {x})
  BY FS_AddElement
<1>2. (S \cup {x}) \ {x} = S
  OBVIOUS
<1>3. Total(g, S \cup {x}) = Total(g, S) + g[x]
  <2>1. \A y \in S \cup {x} : g[y] \in Nat
    OBVIOUS
  <2> QED BY <1>1, <1>2, <2>1, TotalSplit
<1>4. Total(g, S) = Total(f, S)
  BY TotalSame
<1> QED BY <1>3, <1>4, TotalType
\* The sum over two sets without a common element is the sum of the two sums.
LEMMA TotalUnion ==
  ASSUME NEW S, IsFiniteSet(S), NEW T, IsFiniteSet(T), S \cap T = {},
         NEW f, \A x \in S \cup T : f[x] \in Nat
  PROVE  Total(f, S \cup T) = Total(f, S) + Total(f, T)
<1> DEFINE U == Units(f, S)
           V == Units(f, T)
<1>1. IsFiniteSet(U) /\ IsFiniteSet(V)
  BY UnitsFinite
<1>2. Units(f, S \cup T) = U \cup V /\ U \cap V = {}
  BY DEF Units
<1>3. Cardinality(U \cup V) = Cardinality(U) + Cardinality(V) - Cardinality({})
  <2> HIDE DEF U, V
  <2> QED BY <1>1, <1>2, FS_Union
<1>4. Cardinality(U) \in Nat /\ Cardinality(V) \in Nat /\ Cardinality({}) = 0
  BY <1>1, FS_CardinalityType, FS_EmptySet
<1>5. /\ Total(f, S \cup T) = Cardinality(U \cup V)
      /\ Total(f, S) = Cardinality(U) /\ Total(f, T) = Cardinality(V)
  BY <1>2 DEF Total
<1> HIDE DEF U, V
<1> QED BY <1>3, <1>4, <1>5

\* The sum of sums of values is the sum of the two sums.
LEMMA TotalPlus ==
  ASSUME NEW S, IsFiniteSet(S), NEW f, NEW g, NEW h,
         \A x \in S : f[x] \in Nat /\ g[x] \in Nat /\ h[x] = f[x] + g[x]
  PROVE  Total(h, S) = Total(f, S) + Total(g, S)
<1> DEFINE U == Units(f, S)
           V == Units(g, S)
           W == Units(h, S) \ U
           shift == [v \in V |-> <<v[1], f[v[1]] + v[2]>>]
<1>1. IsFiniteSet(U) /\ IsFiniteSet(V)
  BY UnitsFinite
<1>2. \A x, k : /\ <<x, k>> \in U <=> x \in S /\ k \in 1..f[x]
                /\ <<x, k>> \in V <=> x \in S /\ k \in 1..g[x]
                /\ <<x, k>> \in Units(h, S) <=> x \in S /\ k \in 1..h[x]
  BY DEF Units
<1>3. \A u \in U \cup V \cup Units(h, S) : u = <<u[1], u[2]>>
  BY DEF Units
<1> HIDE DEF U, V
<1>4. Units(h, S) = U \cup W /\ U \cap W = {}
  <2>1. \A u \in U : u \in Units(h, S)
    BY <1>2, <1>3
  <2> QED BY <2>1
<1>5. \A x, k : <<x, k>> \in W <=> x \in S /\ k \in (f[x] + 1) .. (f[x] + g[x])
  <2> SUFFICES ASSUME NEW x, NEW k
               PROVE  <<x, k>> \in W <=> x \in S /\ k \in (f[x] + 1) .. (f[x] + g[x])
    OBVIOUS
  <2>1. <<x, k>> \in W <=> x \in S /\ k \in 1..h[x] /\ ~(k \in 1..f[x])
    BY <1>2
  <2>2. x \in S => f[x] \in Nat /\ g[x] \in Nat /\ h[x] = f[x] + g[x]
    OBVIOUS
  <2> QED BY <2>1, <2>2
<1>6. shift \in Bijection(V, W)
  <2>1. ASSUME NEW v \in V PROVE shift[v] \in W
    <3>1. v[1] \in S /\ v[2] \in 1..g[v[1]]
      BY <1>2, <1>3
    <3>2. f[v[1]] + v[2] \in (f[v[1]] + 1) .. (f[v[1]] + g[v[1]])
      BY <3>1
    <3> QED BY <1>5, <3>1, <3>2
  <2>2. ASSUME NEW v \in V, NEW w \in V, shift[v] = shift[w] PROVE v = w
    <3>1. /\ v = <<v[1], v[2]>> /\ v[1] \in S /\ v[2] \in Nat
          /\ w = <<w[1], w[2]>> /\ w[1] \in S /\ w[2] \in Nat
      BY <1>2, <1>3
    <3>2. v[1] = w[1] /\ f[v[1]] + v[2] = f[w[1]] + w[2]
      BY <2>2
    <3>3. f[v[1]] \in Nat
      BY <3>1
    <3>4. v[2] = w[2]
      BY <3>1, <3>2, <3>3
    <3> QED BY <3>1, <3>2, <3>4
  <2>3. ASSUME NEW w \in W PROVE \E v \in V : shift[v] = w
    <3>1. w = <<w[1], w[2]>> /\ w[1] \in S /\ w[2] \in (f[w[1]] + 1) .. (f[w[1]] + g[w[1]])
      BY <1>3, <1>5
    <3>2. w[2] - f[w[1]] \in 1..g[w[1]] /\ f[w[1]] + (w[2] - f[w[1]]) = w[2]
      BY <3>1
    <3>3. <<w[1], w[2] - f[w[1]]>> \in V
      BY <1>2, <3>1, <3>2
    <3>4. shift[<<w[1], w[2] - f[w[1]]>>] = w
      BY <3>1, <3>2, <3>3
    <3> QED BY <3>3, <3>4
  <2>4. shift \in [V -> W]
    BY <2>1
  <2> HIDE DEF shift, W
  <2> QED BY <2>2, <2>3, <2>4, Fun_IsBij
<1>7. IsFiniteSet(W) /\ Cardinality(W) = Cardinality(V)
  <2>1. ExistsBijection(V, W)
    BY <1>6 DEF ExistsBijection
  <2> HIDE DEF W
  <2> QED BY <1>1, <2>1, FS_Bijection
<1>8. Cardinality(U \cup W) = Cardinality(U) + Cardinality(W) - Cardinality({})
  <2> HIDE DEF W
  <2> QED BY <1>1, <1>4, <1>7, FS_Union
<1>9. Cardinality(U) \in Nat /\ Cardinality(V) \in Nat /\ Cardinality({}) = 0
  BY <1>1, FS_CardinalityType, FS_EmptySet
<1>10. /\ Total(h, S) = Cardinality(U \cup W)
       /\ Total(f, S) = Cardinality(U) /\ Total(g, S) = Cardinality(V)
  BY <1>4 DEF Total, U, V
<1> HIDE DEF W
<1> QED BY <1>7, <1>8, <1>9, <1>10

\* A bijection maps into its target, different elements to different ones, and onto it.
LEMMA BijectionParts ==
  ASSUME NEW A, NEW B, NEW b \in Bijection(A, B)
  PROVE  /\ b \in [A -> B]
         /\ \A i, j \in A : b[i] = b[j] => i = j
         /\ \A y \in B : \E i \in A : b[i] = y
BY DEF Bijection, Injection, Surjection, IsInjective

\* E splits S into finite sets without common elements, one for each element of R.
IsPartition(E, R, S) ==
  /\ E \in [R -> SUBSET S]
  /\ \A r \in R : IsFiniteSet(E[r])
  /\ \A x \in S : \E r \in R : x \in E[r]
  /\ \A r, q \in R : r # q => E[r] \cap E[q] = {}

\* A sum is that of its parts.
LEMMA TotalPartition ==
  ASSUME NEW R, IsFiniteSet(R), NEW S, NEW E, IsPartition(E, R, S), NEW f, NEW h,
         \A x \in S : f[x] \in Nat,
         \A r \in R : h[r] = Total(f, E[r])
  PROVE  Total(h, R) = Total(f, S)
<1> SUFFICES ASSUME E \in [R -> SUBSET S],
                    \A r \in R : IsFiniteSet(E[r]),
                    \A x \in S : \E r \in R : x \in E[r],
                    \A r, q \in R : r # q => E[r] \cap E[q] = {}
             PROVE  Total(h, R) = Total(f, S)
  BY DEF IsPartition
<1> DEFINE Count(r) == CHOOSE b : b \in Bijection(1..h[r], Units(f, E[r]))
           U == Units(h, R)
           V == Units(f, S)
           spread == [u \in U |-> Count(u[1])[u[2]]]
<1>1. ASSUME NEW r \in R
      PROVE  /\ h[r] \in Nat
             /\ Count(r) \in [1..h[r] -> Units(f, E[r])]
             /\ \A i, j \in 1..h[r] : Count(r)[i] = Count(r)[j] => i = j
             /\ \A v \in Units(f, E[r]) : \E i \in 1..h[r] : Count(r)[i] = v
  <2>1. \A x \in E[r] : f[x] \in Nat
    OBVIOUS
  <2>2. IsFiniteSet(Units(f, E[r]))
    BY <2>1, UnitsFinite
  <2>3. h[r] \in Nat /\ ExistsBijection(1..h[r], Units(f, E[r]))
    BY <2>2, FS_CardinalityType DEF Total
  <2>4. Count(r) \in Bijection(1..h[r], Units(f, E[r]))
    BY <2>3 DEF ExistsBijection
  <2> HIDE DEF Count
  <2> QED BY <2>3, <2>4, BijectionParts
<1>2. \A u \in U : u = <<u[1], u[2]>> /\ u[1] \in R /\ u[2] \in 1..h[u[1]]
  BY DEF Units
<1>3. \A r \in R : \A k \in 1..h[r] : <<r, k>> \in U
  BY DEF Units
<1>4. \A r \in R : \A v \in Units(f, E[r]) : v[1] \in E[r] /\ v \in V
  BY DEF Units
<1>5. \A v \in V : \E r \in R : v \in Units(f, E[r])
  BY DEF Units
<1> HIDE DEF U, V, Count
<1>6. spread \in Bijection(U, V)
  <2>1. ASSUME NEW u \in U
        PROVE  spread[u] \in Units(f, E[u[1]]) /\ spread[u] \in V
    <3>1. u[1] \in R /\ u[2] \in 1..h[u[1]]
      BY <1>2
    <3>2. Count(u[1]) \in [1..h[u[1]] -> Units(f, E[u[1]])]
      BY <1>1, <3>1
    <3>3. spread[u] = Count(u[1])[u[2]]
      OBVIOUS
    <3>4. Count(u[1])[u[2]] \in Units(f, E[u[1]])
      BY <3>1, <3>2
    <3> QED BY <1>4, <3>1, <3>3, <3>4
  <2>2. ASSUME NEW u \in U, NEW w \in U, spread[u] = spread[w] PROVE u = w
    <3>1. /\ u = <<u[1], u[2]>> /\ u[1] \in R /\ u[2] \in 1..h[u[1]]
          /\ w = <<w[1], w[2]>> /\ w[1] \in R /\ w[2] \in 1..h[w[1]]
      BY <1>2
    <3>2. u[1] = w[1]
      <4>1. spread[u][1] \in E[u[1]] /\ spread[u][1] \in E[w[1]]
        BY <1>4, <2>1, <2>2, <3>1
      <4> QED BY <3>1, <4>1
    <3>3. Count(u[1])[u[2]] = Count(u[1])[w[2]]
      BY <2>2, <3>2
    <3>4. \A i, j \in 1..h[u[1]] : Count(u[1])[i] = Count(u[1])[j] => i = j
      BY <1>1, <3>1
    <3>5. u[2] = w[2]
      BY <3>1, <3>2, <3>3, <3>4
    <3> QED BY <3>1, <3>2, <3>5
  <2>3. ASSUME NEW v \in V PROVE \E u \in U : spread[u] = v
    <3>1. PICK r \in R : v \in Units(f, E[r])
      BY <1>5
    <3>2. PICK k \in 1..h[r] : Count(r)[k] = v
      BY <1>1, <3>1
    <3>3. <<r, k>> \in U /\ spread[<<r, k>>] = v
      BY <1>3, <3>2
    <3> QED BY <3>3
  <2>4. spread \in [U -> V]
    BY <2>1
  <2> HIDE DEF spread
  <2> QED BY <2>2, <2>3, <2>4, Fun_IsBij
<1>7. IsFiniteSet(U)
  BY <1>1, UnitsFinite DEF U
<1>8. Cardinality(V) = Cardinality(U)
  <2>1. ExistsBijection(U, V)
    BY <1>6 DEF ExistsBijection
  <2> QED BY <1>7, <2>1, FS_Bijection
<1> QED BY <1>8 DEF Total, U, V
=============================================================================
