------------------------- MODULE TokenTransferProofs -------------------------
(***************************************************************************)
(* Theorems about TokenTransfer, for any remotes, decimals and amounts.    *)
(***************************************************************************)
EXTENDS TokenTransfer, SumProofs

-----------------------------------------------------------------------------
\* Rounding.

\* Quotient and remainder, as the provers use them.
LEMMA Division ==
  ASSUME NEW a \in Nat, NEW m \in Nat \ {0}
  PROVE  /\ a \div m \in Nat /\ a % m \in Nat
         /\ a = m * (a \div m) + (a % m)
         /\ a % m < m
OBVIOUS

\* Comparing multiples compares factors.
LEMMA Cancel ==
  ASSUME NEW q \in Int, NEW k \in Int, NEW m \in Nat \ {0}
  PROVE  /\ m * q <= m * k => q <= k
         /\ m * q < m * k => q < k
OBVIOUS

\* The scale of a remote, computed by either side, multiplies or divides by a positive number.
LEMMA ScaleType ==
  ASSUME NEW r \in Remotes
  PROVE  /\ HomeScale(r).multiplyOnRemote \in BOOLEAN
         /\ HomeScale(r).tokenMultiplier \in Nat \ {0}
         /\ OwnScale(r).multiplyOnRemote \in BOOLEAN
         /\ OwnScale(r).tokenMultiplier \in Nat \ {0}
         /\ ClaimedHomeDecimals[r] = HomeDecimals => OwnScale(r) = HomeScale(r)
<1> DEFINE d(h) == IF Decimals[r] > h THEN Decimals[r] - h ELSE h - Decimals[r]
<1>1. /\ HomeDecimals \in 0..MAX_TOKEN_DECIMALS /\ ClaimedHomeDecimals[r] \in 0..MAX_TOKEN_DECIMALS
      /\ Decimals[r] \in 0..MAX_TOKEN_DECIMALS
  BY RemoteAssumption
<1>2. \A h \in 0..MAX_TOKEN_DECIMALS : d(h) \in 0..MAX_TOKEN_DECIMALS
  BY <1>1 DEF MAX_TOKEN_DECIMALS
<1>3. \A h \in 0..MAX_TOKEN_DECIMALS : Base ^ d(h) \in Nat \ {0}
  <2> HIDE DEF d
  <2> QED BY <1>2, BaseAssumption
<1>4. /\ HomeScale(r).tokenMultiplier = Base ^ d(HomeDecimals)
      /\ OwnScale(r).tokenMultiplier = Base ^ d(ClaimedHomeDecimals[r])
  BY DEF HomeScale, OwnScale, deriveTokenMultiplierValues
<1>5. /\ HomeScale(r).multiplyOnRemote \in BOOLEAN
      /\ OwnScale(r).multiplyOnRemote \in BOOLEAN
      /\ ClaimedHomeDecimals[r] = HomeDecimals => OwnScale(r) = HomeScale(r)
  BY DEF HomeScale, OwnScale, deriveTokenMultiplierValues
<1> QED BY <1>1, <1>3, <1>4, <1>5

\* Scaled amounts are naturals.
LEMMA ScaledType ==
  ASSUME NEW s, s.multiplyOnRemote \in BOOLEAN, s.tokenMultiplier \in Nat \ {0}, NEW a \in Nat
  PROVE  applyTokenScale(s, a) \in Nat /\ removeTokenScale(s, a) \in Nat
<1>1. a * s.tokenMultiplier \in Nat
  OBVIOUS
<1>2. a \div s.tokenMultiplier \in Nat
  BY Division
<1> QED BY <1>1, <1>2 DEF applyTokenScale, removeTokenScale, ScaleTokens

\* Backing is the least number of home tokens whose remote tokens are enough, if they are fewer.
LEMMA BackingMultiply ==
  ASSUME NEW r \in Remotes, HomeScale(r).multiplyOnRemote, NEW x \in Nat
  PROVE  LET m == HomeScale(r).tokenMultiplier
         IN  /\ Backing(r, x) \in Nat
             /\ x <= m * Backing(r, x)
             /\ \A k \in Nat : x <= m * k => Backing(r, x) <= k
<1> DEFINE m == HomeScale(r).tokenMultiplier
           q == x \div m
           t == x % m
<1>1. m \in Nat \ {0}
  BY ScaleType
<1>2. q \in Nat /\ t \in Nat /\ x = m * q + t /\ t < m
  BY <1>1, Division
<1>3. Backing(r, x) = IF t # 0 THEN q + 1 ELSE q
  <2>1. Backing(r, x) = q + IF t # 0 THEN 1 ELSE 0
    BY ScaleType DEF Backing, removeTokenScale, ScaleTokens
  <2> QED BY <2>1, <1>2
<1> HIDE DEF m, q, t
<1>4. Backing(r, x) \in Nat
  BY <1>2, <1>3
<1>5. x <= m * Backing(r, x)
  <2>1. m * (q + 1) = m * q + m
    BY <1>1, <1>2
  <2> QED BY <2>1, <1>1, <1>2, <1>3
<1>6. ASSUME NEW k \in Nat, x <= m * k PROVE Backing(r, x) <= k
  <2>1. CASE t = 0
    <3>1. m * q <= m * k
      BY <2>1, <1>6, <1>1, <1>2
    <3> QED BY <3>1, <2>1, <1>1, <1>2, <1>3, Cancel
  <2>2. CASE t # 0
    <3>1. m * q < m * k
      BY <2>2, <1>6, <1>1, <1>2
    <3> QED BY <3>1, <2>2, <1>1, <1>2, <1>3, Cancel
  <2> QED BY <2>1, <2>2
<1> QED BY <1>4, <1>5, <1>6 DEF m

\* Backing is exact where a remote token is worth several home tokens.
LEMMA BackingDivide ==
  ASSUME NEW r \in Remotes, ~HomeScale(r).multiplyOnRemote, NEW x \in Nat
  PROVE  Backing(r, x) = x * HomeScale(r).tokenMultiplier /\ Backing(r, x) \in Nat
<1>1. Backing(r, x) = x * HomeScale(r).tokenMultiplier + 0
  BY ScaleType DEF Backing, removeTokenScale, ScaleTokens
<1>2. HomeScale(r).tokenMultiplier \in Nat \ {0}
  BY ScaleType
<1>3. x * HomeScale(r).tokenMultiplier \in Nat
  BY <1>2
<1> QED BY <1>1, <1>3

\* Backing is a natural, and nothing needs none.
LEMMA BackingType ==
  ASSUME NEW r \in Remotes
  PROVE  Backing(r, 0) = 0 /\ \A x \in Nat : Backing(r, x) \in Nat
<1>1. HomeScale(r).tokenMultiplier \in Nat \ {0} /\ HomeScale(r).multiplyOnRemote \in BOOLEAN
  BY ScaleType
<1>2. CASE HomeScale(r).multiplyOnRemote
  <2>1. \A x \in Nat : Backing(r, x) \in Nat
    BY <1>2, BackingMultiply
  <2>2. 0 <= HomeScale(r).tokenMultiplier * 0
    BY <1>1
  <2>3. Backing(r, 0) <= 0
    BY <1>2, <2>2, BackingMultiply
  <2> QED BY <2>1, <2>3
<1>3. CASE ~HomeScale(r).multiplyOnRemote
  <2>1. \A x \in Nat : Backing(r, x) \in Nat
    BY <1>3, BackingDivide
  <2>2. Backing(r, 0) = 0 * HomeScale(r).tokenMultiplier
    BY <1>3, BackingDivide
  <2> QED BY <2>1, <2>2, <1>1
<1> QED BY <1>1, <1>2, <1>3

\* What is locked for remote tokens backs them.
LEMMA LockedBacks ==
  ASSUME NEW r \in Remotes, NEW x \in Nat, NEW a \in Nat
  PROVE  Backing(r, x + applyTokenScale(HomeScale(r), a)) <= Backing(r, x) + a
<1> DEFINE m == HomeScale(r).tokenMultiplier
           s == applyTokenScale(HomeScale(r), a)
<1>1. m \in Nat \ {0} /\ HomeScale(r).multiplyOnRemote \in BOOLEAN
  BY ScaleType
<1>2. s \in Nat
  BY ScaleType, ScaledType
<1>3. CASE HomeScale(r).multiplyOnRemote
  <2>1. s = a * m
    BY <1>3, ScaleType DEF applyTokenScale, ScaleTokens
  <2> HIDE DEF m, s
  <2>2. Backing(r, x) \in Nat /\ x <= m * Backing(r, x)
    BY <1>3, BackingMultiply DEF m
  <2>3. m * (Backing(r, x) + a) = m * Backing(r, x) + a * m
    BY <1>1, <2>2
  <2>4. x + s <= m * (Backing(r, x) + a)
    BY <1>1, <1>2, <2>1, <2>2, <2>3
  <2>5. Backing(r, x) + a \in Nat /\ x + s \in Nat
    BY <2>2, <1>2
  <2>6. Backing(r, x + s) <= Backing(r, x) + a
    BY <1>3, <2>4, <2>5, BackingMultiply DEF m
  <2> QED BY <2>6 DEF s
<1>4. CASE ~HomeScale(r).multiplyOnRemote
  <2>1. s = a \div m
    BY <1>4, ScaleType DEF applyTokenScale, ScaleTokens
  <2>2. m * s <= a
    BY <2>1, <1>1, Division
  <2> HIDE DEF m, s
  <2>3. Backing(r, x + s) = (x + s) * m /\ Backing(r, x) = x * m
    BY <1>4, <1>2, BackingDivide DEF m
  <2>4. (x + s) * m = x * m + m * s
    BY <1>1, <1>2
  <2>5. Backing(r, x + s) <= Backing(r, x) + a
    <3>1. x * m \in Nat /\ m * s \in Nat
      BY <1>1, <1>2
    <3> QED BY <2>2, <2>3, <2>4, <3>1
  <2> QED BY <2>5 DEF s
<1> QED BY <1>1, <1>3, <1>4

\* What comes back is paid out of its own backing.
LEMMA RedeemedBacked ==
  ASSUME NEW r \in Remotes, NEW x \in Nat, NEW s \in 0..x
  PROVE  /\ removeTokenScale(HomeScale(r), s) \in Nat
         /\ Backing(r, x - s) + removeTokenScale(HomeScale(r), s) <= Backing(r, x)
<1> DEFINE m == HomeScale(r).tokenMultiplier
           h == removeTokenScale(HomeScale(r), s)
<1>1. m \in Nat \ {0} /\ HomeScale(r).multiplyOnRemote \in BOOLEAN
  BY ScaleType
<1>2. h \in Nat
  BY ScaleType, ScaledType
<1>3. CASE HomeScale(r).multiplyOnRemote
  <2>1. h = s \div m
    BY <1>3, ScaleType DEF removeTokenScale, ScaleTokens
  <2>2. m * h <= s
    BY <2>1, <1>1, Division
  <2> HIDE DEF m, h
  <2>3. Backing(r, x) \in Nat /\ x <= m * Backing(r, x)
    BY <1>3, BackingMultiply DEF m
  <2>4. m * h \in Nat /\ m * Backing(r, x) \in Nat
    BY <1>1, <1>2, <2>3
  <2>5. h <= Backing(r, x)
    <3>1. m * h <= m * Backing(r, x)
      BY <2>2, <2>3, <2>4
    <3> QED BY <3>1, <1>1, <1>2, <2>3, Cancel
  <2>6. m * (Backing(r, x) - h) = m * Backing(r, x) - m * h
    BY <1>1, <1>2, <2>3
  <2>7. x - s <= m * (Backing(r, x) - h)
    BY <2>2, <2>3, <2>4, <2>6
  <2>8. x - s \in Nat /\ Backing(r, x) - h \in Nat
    BY <2>3, <2>5, <1>2
  <2>9. Backing(r, x - s) <= Backing(r, x) - h /\ Backing(r, x - s) \in Nat
    BY <1>3, <2>7, <2>8, BackingMultiply DEF m
  <2>10. Backing(r, x - s) + h <= Backing(r, x)
    BY <2>9, <2>3, <1>2
  <2> QED BY <2>10, <1>2 DEF h
<1>4. CASE ~HomeScale(r).multiplyOnRemote
  <2>1. h = s * m
    BY <1>4, ScaleType DEF removeTokenScale, ScaleTokens
  <2> HIDE DEF m, h
  <2>2. x - s \in Nat
    OBVIOUS
  <2>3. Backing(r, x - s) = (x - s) * m /\ Backing(r, x) = x * m
    BY <1>4, <2>2, BackingDivide DEF m
  <2>4. (x - s) * m + s * m = x * m
    BY <1>1
  <2> QED BY <1>2, <2>1, <2>3, <2>4, <1>1 DEF h
<1> QED BY <1>1, <1>3, <1>4
-----------------------------------------------------------------------------
\* Messages under way.

\* One more copy of a message.
LEMMA BagAddFacts ==
  ASSUME NEW B, B \in [DOMAIN B -> Nat \ {0}], NEW m
  PROVE  /\ BagAdd(B, m) \in [DOMAIN BagAdd(B, m) -> Nat \ {0}]
         /\ DOMAIN BagAdd(B, m) = DOMAIN B \cup {m}
         /\ BagAdd(B, m)[m] = IF m \in DOMAIN B THEN B[m] + 1 ELSE 1
         /\ \A n \in DOMAIN B \ {m} : BagAdd(B, m)[n] = B[n]
         /\ IsFiniteSet(DOMAIN B) => IsFiniteSet(DOMAIN BagAdd(B, m))
<1>1. DOMAIN BagAdd(B, m) = DOMAIN B \cup {m}
  BY DEF BagAdd
<1>2. BagAdd(B, m)[m] = IF m \in DOMAIN B THEN B[m] + 1 ELSE 1
  BY DEF BagAdd
<1>3. \A n \in DOMAIN B \ {m} : BagAdd(B, m)[n] = B[n]
  BY DEF BagAdd
<1>4. \A n \in DOMAIN B : B[n] \in Nat /\ B[n] > 0
  OBVIOUS
<1>5. BagAdd(B, m) \in [DOMAIN BagAdd(B, m) -> Nat \ {0}]
  <2>1. \A n \in DOMAIN B \cup {m} : BagAdd(B, m)[n] \in Nat \ {0}
    BY <1>2, <1>3, <1>4
  <2>2. BagAdd(B, m) = [n \in DOMAIN B \cup {m} |-> BagAdd(B, m)[n]]
    BY DEF BagAdd
  <2> QED BY <1>1, <2>1, <2>2
<1>6. IsFiniteSet(DOMAIN B) => IsFiniteSet(DOMAIN BagAdd(B, m))
  BY <1>1, FS_AddElement
<1> QED BY <1>1, <1>2, <1>3, <1>5, <1>6

\* One copy of a message less.
LEMMA BagRemoveFacts ==
  ASSUME NEW B, B \in [DOMAIN B -> Nat \ {0}], NEW m \in DOMAIN B
  PROVE  /\ BagRemove(B, m) \in [DOMAIN BagRemove(B, m) -> Nat \ {0}]
         /\ DOMAIN BagRemove(B, m) = IF B[m] = 1 THEN DOMAIN B \ {m} ELSE DOMAIN B
         /\ B[m] # 1 => BagRemove(B, m)[m] = B[m] - 1
         /\ \A n \in DOMAIN B \ {m} : BagRemove(B, m)[n] = B[n]
         /\ IsFiniteSet(DOMAIN B) => IsFiniteSet(DOMAIN BagRemove(B, m))
<1>1. DOMAIN BagRemove(B, m) = IF B[m] = 1 THEN DOMAIN B \ {m} ELSE DOMAIN B
  BY DEF BagRemove
<1>2. B[m] # 1 => BagRemove(B, m)[m] = B[m] - 1
  BY DEF BagRemove
<1>3. \A n \in DOMAIN B \ {m} : BagRemove(B, m)[n] = B[n]
  BY DEF BagRemove
<1>4. \A n \in DOMAIN B : B[n] \in Nat /\ B[n] > 0
  OBVIOUS
<1>5. BagRemove(B, m) \in [DOMAIN BagRemove(B, m) -> Nat \ {0}]
  <2>1. \A n \in DOMAIN BagRemove(B, m) : BagRemove(B, m)[n] \in Nat \ {0}
    BY <1>1, <1>2, <1>3, <1>4
  <2>2. BagRemove(B, m) = [n \in DOMAIN BagRemove(B, m) |-> BagRemove(B, m)[n]]
    BY DEF BagRemove
  <2> QED BY <2>1, <2>2
<1>6. IsFiniteSet(DOMAIN B) => IsFiniteSet(DOMAIN BagRemove(B, m))
  BY <1>1, FS_RemoveElement
<1> QED BY <1>1, <1>2, <1>3, <1>5, <1>6

\* Amounts in a bag are naturals.
LEMMA AmountType ==
  ASSUME NEW B, B \in [DOMAIN B -> Nat \ {0}], IsFiniteSet(DOMAIN B), NEW K, \A n \in K : n.amount \in Nat
  PROVE  AmountIn(B, K) \in Nat
<1> DEFINE S == DOMAIN B \cap K
           f == [n \in S |-> B[n] * n.amount]
<1>1. IsFiniteSet(S)
  BY FS_Intersection
<1>2. \A n \in S : f[n] \in Nat
  <2>1. \A n \in S : B[n] \in Nat /\ n.amount \in Nat
    OBVIOUS
  <2>2. ASSUME NEW n \in S PROVE B[n] * n.amount \in Nat
    BY <2>1
  <2> QED BY <2>2
<1>3. Total(f, S) \in Nat
  <2> HIDE DEF f, S
  <2> QED BY <1>1, <1>2, TotalType
<1> QED BY <1>3 DEF AmountIn

\* No amount is in an empty bag.
LEMMA AmountEmpty ==
  ASSUME NEW K
  PROVE  AmountIn(NoMessages, K) = 0
<1>1. DOMAIN NoMessages \cap K = {}
  BY DEF NoMessages
<1> QED BY <1>1, TotalEmpty DEF AmountIn

\* A message adds its amount to those of its kind.
LEMMA AmountAdd ==
  ASSUME NEW B, B \in [DOMAIN B -> Nat \ {0}], IsFiniteSet(DOMAIN B), NEW K, \A n \in K : n.amount \in Nat, NEW m
  PROVE  AmountIn(BagAdd(B, m), K) = AmountIn(B, K) + IF m \in K THEN m.amount ELSE 0
<1> DEFINE C == BagAdd(B, m)
           S == DOMAIN B \cap K
           T == DOMAIN C \cap K
           f == [n \in S |-> B[n] * n.amount]
           g == [n \in T |-> C[n] * n.amount]
<1>1. /\ T = IF m \in K THEN S \cup {m} ELSE S
      /\ \A n \in S \ {m} : C[n] = B[n]
      /\ C[m] = IF m \in DOMAIN B THEN B[m] + 1 ELSE 1
      /\ C \in [DOMAIN C -> Nat \ {0}]
  <2>1. DOMAIN C = DOMAIN B \cup {m}
    BY BagAddFacts
  <2>2. T = IF m \in K THEN S \cup {m} ELSE S
    BY <2>1
  <2>3. /\ \A n \in DOMAIN B \ {m} : C[n] = B[n]
        /\ C[m] = IF m \in DOMAIN B THEN B[m] + 1 ELSE 1
        /\ C \in [DOMAIN C -> Nat \ {0}]
    BY BagAddFacts
  <2>4. \A n \in S \ {m} : C[n] = B[n]
    <3> HIDE DEF C
    <3> QED BY <2>3
  <2> HIDE DEF S, T, C
  <2> QED BY <2>2, <2>3, <2>4
<1>2. IsFiniteSet(S)
  BY FS_Intersection
<1>3. \A n \in S : B[n] \in Nat /\ n.amount \in Nat /\ f[n] = B[n] * n.amount
  OBVIOUS
<1>4. \A n \in S : f[n] \in Nat
  <2>1. ASSUME NEW n \in S PROVE B[n] * n.amount \in Nat
    BY <1>3
  <2> HIDE DEF f, S
  <2> QED BY <1>3, <2>1
<1>5. \A n \in S \ {m} : g[n] = f[n]
  <2>1. S \subseteq T
    BY <1>1
  <2> QED BY <1>1, <2>1
<1>6. AmountIn(B, K) = Total(f, S) /\ AmountIn(C, K) = Total(g, T)
  BY DEF AmountIn
<1>7. CASE m \notin K
  <2>1. T = S /\ m \notin S
    BY <1>1, <1>7
  <2>2. \A n \in S : g[n] = f[n]
    BY <1>5, <2>1
  <2>3. Total(g, T) = Total(f, S)
    <3> HIDE DEF f, g, S, T
    <3> QED BY <2>1, <2>2, TotalSame
  <2>4. Total(f, S) \in Nat
    <3> HIDE DEF f, S
    <3> QED BY <1>2, <1>4, TotalType
  <2> QED BY <1>6, <1>7, <2>3, <2>4
<1>8. CASE m \in S
  <2>1. T = S /\ m \in K /\ m \in DOMAIN B
    BY <1>1, <1>8
  <2>2. g[m] = f[m] + m.amount
    <3>1. g[m] = (B[m] + 1) * m.amount
      BY <1>1, <2>1, <1>8
    <3>2. B[m] \in Nat /\ m.amount \in Nat /\ f[m] = B[m] * m.amount
      BY <1>3, <1>8
    <3>3. \A b, a \in Nat : (b + 1) * a = b * a + a
      OBVIOUS
    <3> HIDE DEF f, g
    <3> QED BY <3>1, <3>2, <3>3
  <2>3. \A n \in S : f[n] \in Nat /\ g[n] \in Nat
    <3>1. m.amount \in Nat /\ f[m] \in Nat
      BY <1>3, <1>4, <1>8
    <3>2. g[m] \in Nat
      BY <2>2, <3>1
    <3> HIDE DEF f, g, S
    <3> QED BY <1>4, <1>5, <3>2
  <2>4. /\ Total(f, S) \in Nat /\ Total(g, S) = Total(f, S) - f[m] + g[m]
    <3> HIDE DEF f, g, S
    <3> QED BY <1>2, <1>5, <1>8, <2>3, TotalChange
  <2>5. m.amount \in Nat /\ f[m] \in Nat
    BY <1>3, <1>4, <1>8
  <2> HIDE DEF f, g, S, T
  <2> QED BY <1>6, <2>1, <2>2, <2>4, <2>5 DEF C
<1>9. CASE m \in K /\ m \notin S
  <2>1. T = S \cup {m} /\ m \notin DOMAIN B
    BY <1>1, <1>9
  <2>2. g[m] = m.amount /\ m.amount \in Nat
    <3>1. m \in T /\ C[m] = 1
      BY <1>1, <2>1
    <3>2. g[m] = 1 * m.amount
      BY <3>1
    <3> QED BY <1>9, <3>2
  <2>3. \A n \in S : f[n] \in Nat /\ g[n] = f[n]
    BY <1>4, <1>5, <1>9
  <2>4. Total(f, S) \in Nat /\ Total(g, S \cup {m}) = Total(f, S) + g[m]
    <3>1. g[m] \in Nat
      BY <2>2
    <3> HIDE DEF f, g, S, T
    <3> QED BY <1>2, <1>9, <2>3, <3>1, TotalAdd
  <2> HIDE DEF f, g, S, T
  <2> QED BY <1>6, <1>9, <2>1, <2>2, <2>4 DEF C
<1> QED BY <1>7, <1>8, <1>9

\* Taking a message out takes its amount off those of its kind.
LEMMA AmountRemove ==
  ASSUME NEW B, B \in [DOMAIN B -> Nat \ {0}], IsFiniteSet(DOMAIN B), NEW K, \A n \in K : n.amount \in Nat,
         NEW m \in DOMAIN B
  PROVE  AmountIn(B, K) = AmountIn(BagRemove(B, m), K) + IF m \in K THEN m.amount ELSE 0
<1> DEFINE C == BagRemove(B, m)
<1>1. C \in [DOMAIN C -> Nat \ {0}] /\ IsFiniteSet(DOMAIN C)
  BY BagRemoveFacts
<1>2. BagAdd(C, m) = B
  <2>1. B = [n \in DOMAIN B |-> B[n]] /\ B[m] \in Nat
    OBVIOUS
  <2>2. /\ DOMAIN C = IF B[m] = 1 THEN DOMAIN B \ {m} ELSE DOMAIN B
        /\ B[m] # 1 => C[m] = B[m] - 1
        /\ \A n \in DOMAIN B \ {m} : C[n] = B[n]
    BY BagRemoveFacts
  <2>3. CASE B[m] = 1
    <3> HIDE DEF C
    <3>1. DOMAIN C = DOMAIN B \ {m} /\ \A n \in DOMAIN C : C[n] = B[n]
      BY <2>3, <2>2
    <3>2. BagAdd(C, m) = [n \in DOMAIN C \cup {m} |-> IF n = m THEN 1 ELSE C[n]]
      BY <3>1 DEF BagAdd
    <3>3. DOMAIN C \cup {m} = DOMAIN B
      BY <3>1
    <3> QED BY <2>1, <2>3, <3>1, <3>2, <3>3
  <2>4. CASE B[m] # 1
    <3> HIDE DEF C
    <3>1. DOMAIN C = DOMAIN B /\ C[m] = B[m] - 1 /\ \A n \in DOMAIN B \ {m} : C[n] = B[n]
      BY <2>2, <2>4
    <3>2. BagAdd(C, m) = [n \in DOMAIN C |-> IF n = m THEN C[n] + 1 ELSE C[n]]
      BY <3>1 DEF BagAdd
    <3>3. C[m] + 1 = B[m]
      BY <2>1, <3>1
    <3> QED BY <2>1, <3>1, <3>2, <3>3
  <2> QED BY <2>3, <2>4
<1>3. AmountIn(BagAdd(C, m), K) = AmountIn(C, K) + IF m \in K THEN m.amount ELSE 0
  <2> HIDE DEF C
  <2> QED BY <1>1, AmountAdd
<1> QED BY <1>2, <1>3
-----------------------------------------------------------------------------
\* The inductive invariant.

InTransit == IsFiniteSet(DOMAIN toHome) /\ IsFiniteSet(DOMAIN toRemotes)

\* What the home knows, what follows from it, and what a message from it says.
HomeKnows ==
  /\ \A r \in Remotes :
       /\ registered[r] => ClaimedHomeDecimals[r] = HomeDecimals
       /\ collateralNeeded[r] <= Backing(r, InitialReserve[r])
       /\ transferredBalances[r] > 0 => Open(r)
  /\ \A m \in DOMAIN toRemotes : Open(m.to)
  /\ CollateralKnown

\* A transfer under way is worth more than the fee of its second hop.
FeesCovered ==
  \A m \in DOMAIN toHome : m.messageType # "REGISTER_REMOTE" /\ m.from \in OurRemotes =>
    removeTokenScale(OwnScale(m.from), m.amount)
      > IF m.messageType = "MULTI_HOP"
        THEN removeTokenScale(OwnScale(m.from), m.secondaryFee) ELSE 0

Inv == TypeOK /\ InTransit /\ HomeKnows /\ FeesCovered /\ FullyBacked /\ Conserved

AllMessages == Registrations \cup TransfersFrom(Remotes)
Outgoing(r) == AmountIn(toHome, TransfersFrom({r}))
Incoming(r) == AmountIn(toRemotes, PayoutsTo({r}))

\* What kind of message each constructor makes.
LEMMA Kinds ==
  ASSUME NEW r \in Remotes, NEW a \in Nat, NEW fee \in Nat, NEW q \in Remotes
  PROVE  /\ RegisterRemote(r) \in AllMessages
         /\ SingleHop(r, a) \in AllMessages /\ SingleHop(r, a).amount = a
         /\ MultiHop(r, a, fee, q) \in AllMessages /\ MultiHop(r, a, fee, q).amount = a
         /\ Payout(r, a) \in PayoutsTo(Remotes) /\ Payout(r, a).amount = a /\ Payout(r, a).to = r
         /\ \A x : /\ RegisterRemote(r) \notin TransfersFrom({x})
                   /\ SingleHop(r, a) \in TransfersFrom({x}) <=> x = r
                   /\ MultiHop(r, a, fee, q) \in TransfersFrom({x}) <=> x = r
                   /\ Payout(r, a) \in PayoutsTo({x}) <=> x = r
BY DEF AllMessages, Registrations, TransfersFrom, PayoutsTo, RegisterRemote, SingleHop, MultiHop,
       Payout

\* What a message of each kind is made of.
LEMMA Contents ==
  /\ \A m \in AllMessages :
       /\ m.from \in Remotes
       /\ m.messageType \in {"REGISTER_REMOTE", "SINGLE_HOP", "MULTI_HOP"}
       /\ m.messageType # "REGISTER_REMOTE" => m.amount \in Nat
       /\ m.messageType = "MULTI_HOP" => m.secondaryFee \in Nat /\ m.destination \in Remotes
       /\ \A x : m \in TransfersFrom({x}) <=> m.messageType # "REGISTER_REMOTE" /\ m.from = x
  /\ \A m \in PayoutsTo(Remotes) :
       m.to \in Remotes /\ m.amount \in Nat /\ \A x : m \in PayoutsTo({x}) <=> m.to = x
  /\ \A x : \A m \in TransfersFrom({x}) : m.amount \in Nat
  /\ \A x : \A m \in PayoutsTo({x}) : m.amount \in Nat
<1>1. \A m \in Registrations :
        /\ m.from \in Remotes /\ m.messageType = "REGISTER_REMOTE"
        /\ \A x : m \notin TransfersFrom({x})
  BY DEF Registrations, TransfersFrom
<1>2. \A m \in TransfersFrom(Remotes) :
        /\ m.from \in Remotes
        /\ m.messageType \in {"SINGLE_HOP", "MULTI_HOP"}
        /\ m.amount \in Nat
        /\ m.messageType = "MULTI_HOP" => m.secondaryFee \in Nat /\ m.destination \in Remotes
        /\ \A x : m \in TransfersFrom({x}) <=> m.from = x
  BY DEF TransfersFrom
<1>3. \A m \in PayoutsTo(Remotes) :
        m.to \in Remotes /\ m.amount \in Nat /\ \A x : m \in PayoutsTo({x}) <=> m.to = x
  BY DEF PayoutsTo
<1>4. /\ \A x : \A m \in TransfersFrom({x}) : m.amount \in Nat
      /\ \A x : \A m \in PayoutsTo({x}) : m.amount \in Nat
  BY DEF TransfersFrom, PayoutsTo
<1> QED BY <1>1, <1>2, <1>3, <1>4 DEF AllMessages
-----------------------------------------------------------------------------
\* What an action does to the messages and to the books.

\* A message is sent to the home.
LEMMA PostHome ==
  ASSUME TypeOK, InTransit, NEW m \in AllMessages, toHome' = BagAdd(toHome, m)
  PROVE  /\ toHome' \in [DOMAIN toHome' -> Nat \ {0}]
         /\ DOMAIN toHome' = DOMAIN toHome \cup {m}
         /\ DOMAIN toHome' \subseteq AllMessages
         /\ IsFiniteSet(DOMAIN toHome')
         /\ \A r \in Remotes :
              /\ Outgoing(r) \in Nat
              /\ Outgoing(r)' = Outgoing(r) + IF m \in TransfersFrom({r}) THEN m.amount ELSE 0
<1>1. /\ toHome \in [DOMAIN toHome -> Nat \ {0}] /\ DOMAIN toHome \subseteq AllMessages
      /\ IsFiniteSet(DOMAIN toHome)
  BY DEF TypeOK, InTransit, AllMessages
<1>2. /\ toHome' \in [DOMAIN toHome' -> Nat \ {0}]
      /\ DOMAIN toHome' = DOMAIN toHome \cup {m}
      /\ IsFiniteSet(DOMAIN toHome')
  BY <1>1, BagAddFacts
<1>3. ASSUME NEW r \in Remotes
      PROVE  /\ Outgoing(r) \in Nat
             /\ Outgoing(r)' = Outgoing(r) + IF m \in TransfersFrom({r}) THEN m.amount ELSE 0
  <2>1. \A n \in TransfersFrom({r}) : n.amount \in Nat
    BY Contents
  <2>2. Outgoing(r) \in Nat
    BY <1>1, <2>1, AmountType DEF Outgoing
  <2>3. AmountIn(BagAdd(toHome, m), TransfersFrom({r}))
          = AmountIn(toHome, TransfersFrom({r})) + IF m \in TransfersFrom({r}) THEN m.amount ELSE 0
    BY <1>1, <2>1, AmountAdd
  <2> QED BY <2>2, <2>3 DEF Outgoing
<1> QED BY <1>1, <1>2, <1>3

\* A message is executed at the home.
LEMMA TakeHome ==
  ASSUME TypeOK, InTransit, NEW m \in DOMAIN toHome, toHome' = BagRemove(toHome, m)
  PROVE  /\ m \in AllMessages
         /\ toHome' \in [DOMAIN toHome' -> Nat \ {0}]
         /\ DOMAIN toHome' \subseteq DOMAIN toHome
         /\ DOMAIN toHome' \subseteq AllMessages
         /\ IsFiniteSet(DOMAIN toHome')
         /\ \A r \in Remotes :
              /\ Outgoing(r)' \in Nat
              /\ Outgoing(r) = Outgoing(r)' + IF m \in TransfersFrom({r}) THEN m.amount ELSE 0
<1>1. /\ toHome \in [DOMAIN toHome -> Nat \ {0}] /\ DOMAIN toHome \subseteq AllMessages
      /\ IsFiniteSet(DOMAIN toHome)
  BY DEF TypeOK, InTransit, AllMessages
<1>2. /\ toHome' \in [DOMAIN toHome' -> Nat \ {0}]
      /\ DOMAIN toHome' = IF toHome[m] = 1 THEN DOMAIN toHome \ {m} ELSE DOMAIN toHome
      /\ IsFiniteSet(DOMAIN toHome')
  BY <1>1, BagRemoveFacts
<1>3. DOMAIN toHome' \subseteq DOMAIN toHome
  BY <1>2
<1>4. ASSUME NEW r \in Remotes
      PROVE  /\ Outgoing(r)' \in Nat
             /\ Outgoing(r) = Outgoing(r)' + IF m \in TransfersFrom({r}) THEN m.amount ELSE 0
  <2>1. \A n \in TransfersFrom({r}) : n.amount \in Nat
    BY Contents
  <2>2. Outgoing(r)' \in Nat
    BY <1>2, <2>1, AmountType DEF Outgoing
  <2>3. AmountIn(toHome, TransfersFrom({r}))
          = AmountIn(BagRemove(toHome, m), TransfersFrom({r}))
              + IF m \in TransfersFrom({r}) THEN m.amount ELSE 0
    <3>1. toHome \in [DOMAIN toHome -> Nat \ {0}] /\ IsFiniteSet(DOMAIN toHome)
      BY <1>1
    <3> QED BY <3>1, <2>1, AmountRemove
  <2> QED BY <2>2, <2>3 DEF Outgoing
<1> QED BY <1>1, <1>2, <1>3, <1>4

\* The home sends a message.
LEMMA PostRemotes ==
  ASSUME TypeOK, InTransit, NEW m \in PayoutsTo(Remotes), toRemotes' = BagAdd(toRemotes, m)
  PROVE  /\ toRemotes' \in [DOMAIN toRemotes' -> Nat \ {0}]
         /\ DOMAIN toRemotes' = DOMAIN toRemotes \cup {m}
         /\ DOMAIN toRemotes' \subseteq PayoutsTo(Remotes)
         /\ IsFiniteSet(DOMAIN toRemotes')
         /\ \A r \in Remotes :
              /\ Incoming(r) \in Nat
              /\ Incoming(r)' = Incoming(r) + IF m \in PayoutsTo({r}) THEN m.amount ELSE 0
<1>1. /\ toRemotes \in [DOMAIN toRemotes -> Nat \ {0}] /\ DOMAIN toRemotes \subseteq PayoutsTo(Remotes)
      /\ IsFiniteSet(DOMAIN toRemotes)
  BY DEF TypeOK, InTransit
<1>2. /\ toRemotes' \in [DOMAIN toRemotes' -> Nat \ {0}]
      /\ DOMAIN toRemotes' = DOMAIN toRemotes \cup {m}
      /\ IsFiniteSet(DOMAIN toRemotes')
  BY <1>1, BagAddFacts
<1>3. ASSUME NEW r \in Remotes
      PROVE  /\ Incoming(r) \in Nat
             /\ Incoming(r)' = Incoming(r) + IF m \in PayoutsTo({r}) THEN m.amount ELSE 0
  <2>1. \A n \in PayoutsTo({r}) : n.amount \in Nat
    BY Contents
  <2>2. Incoming(r) \in Nat
    BY <1>1, <2>1, AmountType DEF Incoming
  <2>3. AmountIn(BagAdd(toRemotes, m), PayoutsTo({r}))
          = AmountIn(toRemotes, PayoutsTo({r})) + IF m \in PayoutsTo({r}) THEN m.amount ELSE 0
    BY <1>1, <2>1, AmountAdd
  <2> QED BY <2>2, <2>3 DEF Incoming
<1> QED BY <1>1, <1>2, <1>3

\* A message of the home is executed.
LEMMA TakeRemotes ==
  ASSUME TypeOK, InTransit, NEW m \in DOMAIN toRemotes, toRemotes' = BagRemove(toRemotes, m)
  PROVE  /\ m \in PayoutsTo(Remotes)
         /\ toRemotes' \in [DOMAIN toRemotes' -> Nat \ {0}]
         /\ DOMAIN toRemotes' \subseteq DOMAIN toRemotes
         /\ DOMAIN toRemotes' \subseteq PayoutsTo(Remotes)
         /\ IsFiniteSet(DOMAIN toRemotes')
         /\ \A r \in Remotes :
              /\ Incoming(r)' \in Nat
              /\ Incoming(r) = Incoming(r)' + IF m \in PayoutsTo({r}) THEN m.amount ELSE 0
<1>1. /\ toRemotes \in [DOMAIN toRemotes -> Nat \ {0}] /\ DOMAIN toRemotes \subseteq PayoutsTo(Remotes)
      /\ IsFiniteSet(DOMAIN toRemotes)
  BY DEF TypeOK, InTransit
<1>2. /\ toRemotes' \in [DOMAIN toRemotes' -> Nat \ {0}]
      /\ DOMAIN toRemotes' = IF toRemotes[m] = 1 THEN DOMAIN toRemotes \ {m} ELSE DOMAIN toRemotes
      /\ IsFiniteSet(DOMAIN toRemotes')
  BY <1>1, BagRemoveFacts
<1>3. DOMAIN toRemotes' \subseteq DOMAIN toRemotes
  BY <1>2
<1>4. ASSUME NEW r \in Remotes
      PROVE  /\ Incoming(r)' \in Nat
             /\ Incoming(r) = Incoming(r)' + IF m \in PayoutsTo({r}) THEN m.amount ELSE 0
  <2>1. \A n \in PayoutsTo({r}) : n.amount \in Nat
    BY Contents
  <2>2. Incoming(r)' \in Nat
    BY <1>2, <2>1, AmountType DEF Incoming
  <2>3. AmountIn(toRemotes, PayoutsTo({r}))
          = AmountIn(BagRemove(toRemotes, m), PayoutsTo({r}))
              + IF m \in PayoutsTo({r}) THEN m.amount ELSE 0
    <3> DEFINE K == PayoutsTo({r})
    <3>1. \A n \in K : n.amount \in Nat
      BY <2>1
    <3>2. toRemotes \in [DOMAIN toRemotes -> Nat \ {0}] /\ IsFiniteSet(DOMAIN toRemotes)
      BY <1>1
    <3> HIDE DEF K
    <3>3. AmountIn(toRemotes, K) = AmountIn(BagRemove(toRemotes, m), K) + IF m \in K THEN m.amount ELSE 0
      BY <3>1, <3>2, AmountRemove
    <3> QED BY <3>3 DEF K
  <2> QED BY <2>2, <2>3 DEF Incoming
<1> QED BY <1>1, <1>2, <1>3, <1>4

\* The amounts under way are naturals.
LEMMA WayTypes ==
  ASSUME TypeOK, InTransit, NEW r \in Remotes
  PROVE  Outgoing(r) \in Nat /\ Incoming(r) \in Nat
<1>1. /\ \A n \in TransfersFrom({r}) : n.amount \in Nat
      /\ \A n \in PayoutsTo({r}) : n.amount \in Nat
  BY Contents
<1>2. /\ toHome \in [DOMAIN toHome -> Nat \ {0}] /\ IsFiniteSet(DOMAIN toHome)
      /\ toRemotes \in [DOMAIN toRemotes -> Nat \ {0}] /\ IsFiniteSet(DOMAIN toRemotes)
  BY DEF TypeOK, InTransit
<1> QED BY <1>1, <1>2, AmountType DEF Outgoing, Incoming

\* Nothing is worth nothing.
LEMMA NothingScaled ==
  ASSUME NEW s, s.multiplyOnRemote \in BOOLEAN, s.tokenMultiplier \in Nat \ {0}
  PROVE  removeTokenScale(s, 0) = 0
<1>1. 0 * s.tokenMultiplier = 0 /\ 0 \div s.tokenMultiplier = 0
  OBVIOUS
<1> QED BY <1>1 DEF removeTokenScale, ScaleTokens
-----------------------------------------------------------------------------
\* The invariant, step by step: steps that leave the books of the home alone.

\* What remains to be shown of a step that the home takes no part in.
LEMMA RemoteSide ==
  ASSUME Inv, UNCHANGED homeVars, TypeOK', InTransit', DOMAIN toRemotes' \subseteq DOMAIN toRemotes,
         CollateralKnown', FeesCovered',
         \A r \in OurRemotes : Notes(r)' = Notes(r)
  PROVE  Inv'
<1>1. /\ registered' = registered /\ collateralNeeded' = collateralNeeded
      /\ transferredBalances' = transferredBalances /\ homeBalance' = homeBalance
  BY DEF homeVars
<1>2. \A r : (Open(r))' <=> Open(r)
  BY <1>1 DEF Open
<1>3. HomeKnows'
  <2>1. HomeKnows
    BY DEF Inv
  <2>2. ASSUME NEW r \in Remotes
        PROVE  /\ registered'[r] => ClaimedHomeDecimals[r] = HomeDecimals
               /\ collateralNeeded'[r] <= Backing(r, InitialReserve[r])
               /\ transferredBalances'[r] > 0 => (Open(r))'
    BY <1>1, <1>2, <2>1 DEF HomeKnows
  <2>3. \A m \in DOMAIN toRemotes' : (Open(m.to))'
    BY <1>2, <2>1 DEF HomeKnows
  <2> QED BY <2>2, <2>3 DEF HomeKnows
<1>4. FullyBacked'
  <2>1. FullyBacked
    BY DEF Inv
  <2>2. \A r \in Remotes : HeldFor(r)' = HeldFor(r)
    BY <1>1 DEF HeldFor, Posted
  <2>3. Total([r \in Remotes |-> HeldFor(r)'], Remotes) = Total([r \in Remotes |-> HeldFor(r)], Remotes)
    <3> DEFINE f == [r \in Remotes |-> HeldFor(r)]
               g == [r \in Remotes |-> HeldFor(r)']
    <3>1. \A r \in Remotes : g[r] = f[r]
      BY <2>2
    <3>2. Total(g, Remotes) = Total(f, Remotes)
      <4> HIDE DEF f, g
      <4> QED BY <3>1, TotalSame
    <3> QED BY <3>2
  <2> QED BY <1>1, <2>1, <2>3 DEF FullyBacked
<1>5. Conserved'
  BY <1>1 DEF Inv, Conserved
<1> QED BY <1>3, <1>4, <1>5 DEF Inv

\* The notes of a remote, with what is under way by name.
LEMMA NotesIs ==
  \A r : /\ Notes(r) = circulating[r] + Unreported(r) + Outgoing(r) + Incoming(r)
         /\ Notes(r)' = circulating'[r] + Unreported(r)' + Outgoing(r)' + Incoming(r)'
BY DEF Notes, Outgoing, Incoming

\* Any contract may ask to be registered, again and again.
LEMMA RegisterWithHomeStep ==
  ASSUME Inv, NEW r \in Remotes, RegisterWithHome(r)
  PROVE  Inv'
<1> DEFINE m == RegisterRemote(r)
<1>1. TypeOK /\ InTransit /\ HomeKnows /\ FeesCovered
  BY DEF Inv
<1>2. /\ toHome' = BagAdd(toHome, m)
      /\ UNCHANGED <<homeVars, remoteVars, toRemotes>>
  BY DEF RegisterWithHome
<1>3. m \in AllMessages /\ m.messageType = "REGISTER_REMOTE" /\ \A x : m \notin TransfersFrom({x})
  BY DEF RegisterRemote, AllMessages, Registrations, TransfersFrom
<1> HIDE DEF m
<1>4. TypeOK' /\ InTransit'
  BY <1>1, <1>2, <1>3, PostHome DEF TypeOK, InTransit, homeVars, remoteVars, AllMessages
<1>5. CollateralKnown'
  BY <1>1, <1>2 DEF HomeKnows, CollateralKnown, homeVars, remoteVars
<1>6. FeesCovered'
  <2>1. DOMAIN toHome' = DOMAIN toHome \cup {m}
    BY <1>1, <1>2, <1>3, PostHome
  <2> QED BY <1>1, <1>3, <2>1 DEF FeesCovered
<1>7. ASSUME NEW x \in OurRemotes PROVE Notes(x)' = Notes(x)
  <2>1. x \in Remotes
    BY DEF OurRemotes
  <2>2. Outgoing(x) \in Nat /\ Outgoing(x)' = Outgoing(x) + 0
    BY <1>1, <1>2, <1>3, <2>1, PostHome
  <2>3. Incoming(x)' = Incoming(x)
    BY <1>2 DEF Incoming
  <2>4. circulating'[x] = circulating[x] /\ Unreported(x)' = Unreported(x)
    BY <1>2 DEF remoteVars, Unreported
  <2> QED BY <2>2, <2>3, <2>4, NotesIs
<1> QED BY <1>2, <1>4, <1>5, <1>6, <1>7, RemoteSide

\* A transfer leaves a remote: what is burned there is under way.
LEMMA TransferStep ==
  ASSUME Inv, NEW r \in OurRemotes, NEW amount \in Nat, NEW secondaryFee \in Nat,
         PrepareSend(r, amount, secondaryFee),
         NEW m \in AllMessages, m.messageType # "REGISTER_REMOTE", m.from = r, m.amount = amount,
         m.messageType = "MULTI_HOP" => m.secondaryFee = secondaryFee,
         toHome' = BagAdd(toHome, m)
  PROVE  Inv'
<1>1. TypeOK /\ InTransit /\ HomeKnows /\ FeesCovered
  BY DEF Inv
<1>2. /\ amount <= circulating[r]
      /\ CoversSecondaryFee(r, amount, secondaryFee)
      /\ circulating' = [circulating EXCEPT ![r] = @ - amount]
      /\ UNCHANGED <<homeVars, isRegistered, isCollateralized, burnedTxFees,
                     latestBurnedFeesReported, toRemotes>>
  BY DEF PrepareSend
<1>3. r \in Remotes
  BY DEF OurRemotes
<1>4. TypeOK' /\ InTransit'
  <2>1. circulating' \in [Remotes -> Nat]
    BY <1>1, <1>2, <1>3 DEF TypeOK
  <2> QED BY <1>1, <1>2, <2>1, PostHome DEF TypeOK, InTransit, homeVars, AllMessages
<1>5. CollateralKnown'
  BY <1>1, <1>2 DEF HomeKnows, CollateralKnown, homeVars
<1>6. FeesCovered'
  <2>1. DOMAIN toHome' = DOMAIN toHome \cup {m}
    BY <1>1, PostHome
  <2>2. removeTokenScale(OwnScale(r), amount) > removeTokenScale(OwnScale(r), secondaryFee)
    BY <1>2 DEF CoversSecondaryFee
  <2>3. /\ removeTokenScale(OwnScale(r), secondaryFee) \in Nat
        /\ removeTokenScale(OwnScale(r), amount) \in Nat
    BY <1>3, ScaleType, ScaledType
  <2>4. removeTokenScale(OwnScale(m.from), m.amount)
          > IF m.messageType = "MULTI_HOP" THEN removeTokenScale(OwnScale(m.from), m.secondaryFee)
            ELSE 0
    BY <2>2, <2>3
  <2> QED BY <1>1, <2>1, <2>4 DEF FeesCovered
<1>7. ASSUME NEW x \in OurRemotes PROVE Notes(x)' = Notes(x)
  <2>1. x \in Remotes
    BY DEF OurRemotes
  <2>2. m \in TransfersFrom({x}) <=> x = r
    BY Contents
  <2>3. Outgoing(x) \in Nat /\ Outgoing(x)' = Outgoing(x) + IF x = r THEN amount ELSE 0
    BY <1>1, <2>1, <2>2, PostHome
  <2>4. Incoming(x)' = Incoming(x) /\ Incoming(x) \in Nat
    BY <1>1, <1>2, <2>1, WayTypes DEF Incoming
  <2>5. circulating'[x] = circulating[x] - IF x = r THEN amount ELSE 0
    BY <1>1, <1>2, <2>1 DEF TypeOK
  <2>6. Unreported(x)' = Unreported(x) /\ Unreported(x) \in Nat /\ circulating[x] \in Nat
    BY <1>1, <1>2, <2>1 DEF Unreported, TypeOK
  <2> QED BY <2>3, <2>4, <2>5, <2>6, NotesIs
<1> QED BY <1>2, <1>4, <1>5, <1>6, <1>7, RemoteSide

\* Sends of both kinds leave a remote.
LEMMA SendStep ==
  ASSUME Inv, NEW r \in OurRemotes, NEW amount \in Nat, Send(r, amount)
  PROVE  Inv'
<1> DEFINE m == SingleHop(r, amount)
<1>1. r \in Remotes /\ PrepareSend(r, amount, 0) /\ toHome' = BagAdd(toHome, m)
  BY DEF Send, OurRemotes
<1>2. /\ m \in AllMessages /\ m.messageType = "SINGLE_HOP" /\ m.from = r /\ m.amount = amount
  BY <1>1, Kinds DEF SingleHop
<1> HIDE DEF m
<1> QED BY <1>1, <1>2, TransferStep

\* Likewise with a second hop.
LEMMA SendMultiHopStep ==
  ASSUME Inv, NEW r \in OurRemotes, NEW amount \in Nat, NEW secondaryFee \in Nat,
         NEW destination \in Remotes, SendMultiHop(r, amount, secondaryFee, destination)
  PROVE  Inv'
<1> DEFINE m == MultiHop(r, amount, secondaryFee, destination)
<1>1. r \in Remotes /\ PrepareSend(r, amount, secondaryFee) /\ toHome' = BagAdd(toHome, m)
  BY DEF SendMultiHop, OurRemotes
<1>2. /\ m \in AllMessages /\ m.messageType = "MULTI_HOP" /\ m.from = r /\ m.amount = amount
      /\ m.secondaryFee = secondaryFee
  BY <1>1, Kinds DEF MultiHop
<1> HIDE DEF m
<1> QED BY <1>1, <1>2, TransferStep

\* A remote mints what the home paid: it was under way, and it comes from an open home.
LEMMA ReceiveFromHomeStep ==
  ASSUME Inv, NEW m \in DOMAIN toRemotes, ReceiveFromHome(m)
  PROVE  Inv'
<1>1. TypeOK /\ InTransit /\ HomeKnows /\ FeesCovered
  BY DEF Inv
<1>2. /\ m.to \in OurRemotes
      /\ isRegistered' = [isRegistered EXCEPT ![m.to] = TRUE]
      /\ isCollateralized' = [isCollateralized EXCEPT ![m.to] = TRUE]
      /\ circulating' = [circulating EXCEPT ![m.to] = @ + m.amount]
      /\ toRemotes' = BagRemove(toRemotes, m)
      /\ UNCHANGED <<homeVars, burnedTxFees, latestBurnedFeesReported, toHome>>
  BY DEF ReceiveFromHome
<1>3. /\ m \in PayoutsTo(Remotes)
      /\ DOMAIN toRemotes' \subseteq DOMAIN toRemotes
      /\ m.to \in Remotes /\ m.amount \in Nat
  BY <1>1, <1>2, TakeRemotes, Contents
<1>4. TypeOK' /\ InTransit'
  <2>1. /\ circulating' \in [Remotes -> Nat]
        /\ isRegistered' \in [Remotes -> BOOLEAN]
        /\ isCollateralized' \in [Remotes -> BOOLEAN]
    BY <1>1, <1>2, <1>3 DEF TypeOK
  <2> QED BY <1>1, <1>2, <2>1, TakeRemotes DEF TypeOK, InTransit, homeVars
<1>5. CollateralKnown'
  <2>1. Open(m.to)
    BY <1>1 DEF HomeKnows
  <2>2. CollateralKnown /\ OurRemotes \subseteq Remotes
    BY <1>1 DEF HomeKnows, OurRemotes
  <2> QED BY <1>1, <1>2, <1>3, <2>1, <2>2 DEF CollateralKnown, Open, TypeOK, homeVars
<1>6. FeesCovered'
  BY <1>1, <1>2 DEF FeesCovered
<1>7. ASSUME NEW x \in OurRemotes PROVE Notes(x)' = Notes(x)
  <2>1. x \in Remotes
    BY DEF OurRemotes
  <2>2. m \in PayoutsTo({x}) <=> x = m.to
    BY <1>3, Contents
  <2>3. Incoming(x)' \in Nat /\ Incoming(x) = Incoming(x)' + IF x = m.to THEN m.amount ELSE 0
    BY <1>1, <1>2, <2>1, <2>2, TakeRemotes
  <2>4. Outgoing(x)' = Outgoing(x) /\ Outgoing(x) \in Nat
    BY <1>1, <1>2, <2>1, WayTypes DEF Outgoing
  <2>5. circulating'[x] = circulating[x] + IF x = m.to THEN m.amount ELSE 0
    BY <1>1, <1>2, <1>3, <2>1 DEF TypeOK
  <2>6. Unreported(x)' = Unreported(x) /\ Unreported(x) \in Nat /\ circulating[x] \in Nat
    BY <1>1, <1>2, <2>1 DEF Unreported, TypeOK
  <2> QED BY <1>3, <2>3, <2>4, <2>5, <2>6, NotesIs
<1> QED BY <1>2, <1>3, <1>4, <1>5, <1>6, <1>7, RemoteSide

\* The chain of a remote burns fees.
LEMMA BurnTxFeesStep ==
  ASSUME Inv, NEW r \in OurRemotes, NEW amount \in Nat, BurnTxFees(r, amount)
  PROVE  Inv'
<1>1. TypeOK /\ InTransit /\ HomeKnows /\ FeesCovered
  BY DEF Inv
<1>2. /\ amount \in 1..circulating[r]
      /\ circulating' = [circulating EXCEPT ![r] = @ - amount]
      /\ burnedTxFees' = [burnedTxFees EXCEPT ![r] = @ + amount]
      /\ UNCHANGED <<homeVars, isRegistered, isCollateralized, latestBurnedFeesReported, toHome,
                     toRemotes>>
  BY DEF BurnTxFees
<1>3. r \in Remotes
  BY DEF OurRemotes
<1>4. TypeOK' /\ InTransit'
  <2>1. /\ circulating' \in [Remotes -> Nat]
        /\ burnedTxFees' \in [Remotes -> Nat]
        /\ \A x \in Remotes : latestBurnedFeesReported[x] <= burnedTxFees'[x]
    BY <1>1, <1>2, <1>3 DEF TypeOK
  <2> QED BY <1>1, <1>2, <2>1 DEF TypeOK, InTransit, homeVars
<1>5. CollateralKnown'
  BY <1>1, <1>2 DEF HomeKnows, CollateralKnown, homeVars
<1>6. FeesCovered'
  BY <1>1, <1>2 DEF FeesCovered
<1>7. ASSUME NEW x \in OurRemotes PROVE Notes(x)' = Notes(x)
  <2>1. x \in Remotes
    BY DEF OurRemotes
  <2>2. Outgoing(x)' = Outgoing(x) /\ Incoming(x)' = Incoming(x)
    BY <1>2 DEF Outgoing, Incoming
  <2>3. circulating'[x] + Unreported(x)' = circulating[x] + Unreported(x)
    BY <1>1, <1>2, <1>3, <2>1 DEF Unreported, TypeOK
  <2> QED BY <2>2, <2>3, NotesIs
<1> QED BY <1>2, <1>4, <1>5, <1>6, <1>7, RemoteSide

\* Burned fees are reported: part is minted again as the reward, the rest is under way.
LEMMA ReportBurnedTxFeesStep ==
  ASSUME Inv, NEW r \in OurRemotes, ReportBurnedTxFees(r)
  PROVE  Inv'
<1> DEFINE m == SingleHop(r, Reported(r))
<1>1. TypeOK /\ InTransit /\ HomeKnows /\ FeesCovered /\ r \in Remotes
  BY DEF Inv, OurRemotes
<1>2. /\ removeTokenScale(OwnScale(r), Reported(r)) > 0
      /\ latestBurnedFeesReported' = [latestBurnedFeesReported EXCEPT ![r] = burnedTxFees[r]]
      /\ circulating' = [circulating EXCEPT ![r] = @ + ReportReward(r)]
      /\ toHome' = BagAdd(toHome, m)
      /\ UNCHANGED <<homeVars, isRegistered, isCollateralized, burnedTxFees, toRemotes>>
  BY DEF ReportBurnedTxFees
<1>3. /\ Unreported(r) \in Nat /\ ReportReward(r) \in Nat /\ Reported(r) \in Nat
      /\ Reported(r) + ReportReward(r) = Unreported(r)
  <2>1. Unreported(r) \in Nat
    BY <1>1 DEF TypeOK, Unreported
  <2>2. ReportingRewardPercentage \in 0..99
    BY RemoteAssumption
  <2>3. \A u \in Nat, p \in 0..99 : u * p \in Nat /\ u * p <= u * 100
    OBVIOUS
  <2>4. ReportReward(r) \in Nat /\ Unreported(r) * ReportingRewardPercentage >= 100 * ReportReward(r)
    <3>1. Unreported(r) * ReportingRewardPercentage \in Nat
      BY <2>1, <2>2, <2>3
    <3> QED BY <3>1, Division DEF ReportReward
  <2>5. Unreported(r) * ReportingRewardPercentage <= Unreported(r) * 100
    BY <2>1, <2>2, <2>3
  <2>6. ReportReward(r) <= Unreported(r)
    BY <2>1, <2>2, <2>3, <2>4, <2>5
  <2> QED BY <2>1, <2>4, <2>6 DEF Reported
<1>4. /\ m \in AllMessages /\ m.messageType = "SINGLE_HOP" /\ m.from = r /\ m.amount = Reported(r)
  BY <1>1, <1>3, Kinds DEF SingleHop
<1> HIDE DEF m
<1>5. TypeOK' /\ InTransit'
  <2>1. /\ circulating' \in [Remotes -> Nat]
        /\ latestBurnedFeesReported' \in [Remotes -> Nat]
        /\ \A x \in Remotes : latestBurnedFeesReported'[x] <= burnedTxFees[x]
    BY <1>1, <1>2, <1>3 DEF TypeOK
  <2> QED BY <1>1, <1>2, <1>4, <2>1, PostHome DEF TypeOK, InTransit, homeVars, AllMessages
<1>6. CollateralKnown'
  BY <1>1, <1>2 DEF HomeKnows, CollateralKnown, homeVars
<1>7. FeesCovered'
  <2>1. DOMAIN toHome' = DOMAIN toHome \cup {m}
    BY <1>1, <1>2, <1>4, PostHome
  <2> QED BY <1>1, <1>2, <1>4, <2>1 DEF FeesCovered
<1>8. ASSUME NEW x \in OurRemotes PROVE Notes(x)' = Notes(x)
  <2>1. x \in Remotes
    BY DEF OurRemotes
  <2>2. m \in TransfersFrom({x}) <=> x = r
    BY <1>4, Contents
  <2>3. Outgoing(x) \in Nat /\ Outgoing(x)' = Outgoing(x) + IF x = r THEN Reported(r) ELSE 0
    BY <1>1, <1>2, <1>4, <2>1, <2>2, PostHome
  <2>4. Incoming(x)' = Incoming(x) /\ Incoming(x) \in Nat
    BY <1>1, <1>2, <2>1, WayTypes DEF Incoming
  <2>5. circulating'[x] = circulating[x] + IF x = r THEN ReportReward(r) ELSE 0
    BY <1>1, <1>2, <2>1 DEF TypeOK
  <2>6. Unreported(x)' = IF x = r THEN 0 ELSE Unreported(x)
    BY <1>1, <1>2, <2>1 DEF Unreported, TypeOK
  <2>7. Unreported(x) \in Nat /\ circulating[x] \in Nat
    BY <1>1, <2>1 DEF Unreported, TypeOK
  <2> QED BY <1>3, <2>3, <2>4, <2>5, <2>6, <2>7, NotesIs
<1> QED BY <1>2, <1>5, <1>6, <1>7, <1>8, RemoteSide

\* A contract of other code takes a message.
LEMMA ForeignReceiveStep ==
  ASSUME Inv, NEW m \in DOMAIN toRemotes, ForeignReceive(m)
  PROVE  Inv'
<1>1. TypeOK /\ InTransit /\ HomeKnows /\ FeesCovered
  BY DEF Inv
<1>2. /\ m.to \in ForeignRemotes
      /\ toRemotes' = BagRemove(toRemotes, m)
      /\ UNCHANGED <<homeVars, remoteVars, toHome>>
  BY DEF ForeignReceive
<1>3. m \in PayoutsTo(Remotes) /\ DOMAIN toRemotes' \subseteq DOMAIN toRemotes
  BY <1>1, <1>2, TakeRemotes
<1>4. TypeOK' /\ InTransit'
  BY <1>1, <1>2, TakeRemotes DEF TypeOK, InTransit, homeVars, remoteVars
<1>5. CollateralKnown' /\ FeesCovered'
  BY <1>1, <1>2 DEF HomeKnows, CollateralKnown, FeesCovered, homeVars, remoteVars
<1>6. ASSUME NEW x \in OurRemotes PROVE Notes(x)' = Notes(x)
  <2>1. x \in Remotes /\ x # m.to
    BY <1>2 DEF OurRemotes
  <2>2. m \notin PayoutsTo({x})
    BY <1>3, <2>1, Contents
  <2>3. Incoming(x)' \in Nat /\ Incoming(x) = Incoming(x)' + 0
    BY <1>1, <1>2, <2>1, <2>2, TakeRemotes
  <2>4. /\ Outgoing(x)' = Outgoing(x) /\ circulating'[x] = circulating[x]
        /\ Unreported(x)' = Unreported(x)
    BY <1>2 DEF Outgoing, Unreported, remoteVars
  <2> QED BY <2>3, <2>4, NotesIs
<1> QED BY <1>2, <1>3, <1>4, <1>5, <1>6, RemoteSide

\* A contract of other code sends a transfer.
LEMMA ForeignSendStep ==
  ASSUME Inv, NEW m \in AllMessages, m.from \in ForeignRemotes, ForeignSend(m)
  PROVE  Inv'
<1>1. TypeOK /\ InTransit /\ HomeKnows /\ FeesCovered
  BY DEF Inv
<1>2. /\ toHome' = BagAdd(toHome, m)
      /\ UNCHANGED <<homeVars, remoteVars, toRemotes>>
  BY DEF ForeignSend
<1>3. TypeOK' /\ InTransit'
  BY <1>1, <1>2, PostHome DEF TypeOK, InTransit, homeVars, remoteVars, AllMessages
<1>4. CollateralKnown' /\ FeesCovered'
  <2>1. DOMAIN toHome' = DOMAIN toHome \cup {m} /\ m.from \notin OurRemotes
    BY <1>1, <1>2, PostHome DEF OurRemotes
  <2> QED BY <1>1, <1>2, <2>1 DEF HomeKnows, CollateralKnown, FeesCovered, homeVars, remoteVars
<1>5. ASSUME NEW x \in OurRemotes PROVE Notes(x)' = Notes(x)
  <2>1. x \in Remotes /\ x # m.from
    BY DEF OurRemotes
  <2>2. m \notin TransfersFrom({x})
    BY <2>1, Contents
  <2>3. Outgoing(x) \in Nat /\ Outgoing(x)' = Outgoing(x) + 0
    BY <1>1, <1>2, <2>1, <2>2, PostHome
  <2>4. /\ Incoming(x)' = Incoming(x) /\ circulating'[x] = circulating[x]
        /\ Unreported(x)' = Unreported(x)
    BY <1>2 DEF Incoming, Unreported, remoteVars
  <2> QED BY <2>3, <2>4, NotesIs
<1> QED BY <1>2, <1>3, <1>4, <1>5, RemoteSide
-----------------------------------------------------------------------------
\* The invariant, step by step: steps of the home.

\* What remains to be shown of a step of the home.
LEMMA HomeSide ==
  ASSUME Inv, UNCHANGED remoteVars, TypeOK', InTransit', DOMAIN toHome' \subseteq DOMAIN toHome,
         \A r \in Remotes :
           /\ Open(r) => (Open(r))'
           /\ registered'[r] => ClaimedHomeDecimals[r] = HomeDecimals
           /\ collateralNeeded'[r] <= Backing(r, InitialReserve[r])
           /\ transferredBalances'[r] > 0 => (Open(r))',
         \A m \in DOMAIN toRemotes' \ DOMAIN toRemotes : (Open(m.to))',
         FullyBacked', Conserved'
  PROVE  Inv'
<1>1. TypeOK /\ HomeKnows /\ FeesCovered
  BY DEF Inv
<1>2. FeesCovered'
  BY <1>1 DEF FeesCovered
<1>3. \A m \in DOMAIN toRemotes' : (Open(m.to))'
  <2>1. \A m \in DOMAIN toRemotes : Open(m.to) /\ m.to \in Remotes
    BY <1>1, Contents DEF HomeKnows, TypeOK
  <2> QED BY <2>1
<1>4. CollateralKnown'
  <2>1. \A r \in OurRemotes :
          isRegistered'[r] \/ (isCollateralized'[r] /\ InitialReserve[r] > 0) => Open(r)
    BY <1>1 DEF HomeKnows, CollateralKnown, Open, remoteVars
  <2>2. \A r \in OurRemotes :
          isRegistered'[r] \/ (isCollateralized'[r] /\ InitialReserve[r] > 0) => (Open(r))'
    BY <2>1 DEF OurRemotes
  <2> QED BY <2>2 DEF CollateralKnown, Open
<1>5. HomeKnows'
  BY <1>3, <1>4 DEF HomeKnows
<1> QED BY <1>2, <1>5 DEF Inv

\* The books change at one remote.
LEMMA OneBook ==
  ASSUME NEW r \in Remotes, NEW f, NEW g,
         \A x \in Remotes : f[x] \in Nat, g[r] \in Nat, \A x \in Remotes \ {r} : g[x] = f[x]
  PROVE  /\ Total(f, Remotes) \in Nat /\ Total(g, Remotes) \in Nat /\ f[r] <= Total(f, Remotes)
         /\ Total(g, Remotes) = Total(f, Remotes) - f[r] + g[r]
<1>1. IsFiniteSet(Remotes)
  BY RemoteAssumption
<1>2. \A x \in Remotes : f[x] \in Nat /\ g[x] \in Nat
  OBVIOUS
<1> QED BY <1>1, <1>2, TotalChange

\* What is held for each remote, before a step.
LEMMA HeldNow ==
  ASSUME TypeOK, HomeKnows, NEW r \in Remotes
  PROVE  /\ HeldFor(r) \in Nat /\ Posted(r) \in Nat
         /\ Backing(r, transferredBalances[r]) \in Nat
         /\ Backing(r, InitialReserve[r]) \in Nat
         /\ HeldFor(r) = Backing(r, transferredBalances[r]) + Posted(r)
<1>1. /\ transferredBalances[r] \in Nat /\ collateralNeeded[r] \in Nat
      /\ registered[r] \in BOOLEAN
      /\ collateralNeeded[r] <= Backing(r, InitialReserve[r])
  BY DEF TypeOK, HomeKnows
<1>2. Backing(r, transferredBalances[r]) \in Nat /\ Backing(r, InitialReserve[r]) \in Nat
  BY <1>1, BackingType, RemoteAssumption
<1> QED BY <1>1, <1>2 DEF HeldFor, Posted

\* A remote is registered: nothing has been sent to it, and nothing is posted yet.
LEMMA ReceiveRegisterRemoteStep ==
  ASSUME Inv, NEW m \in DOMAIN toHome, ReceiveRegisterRemote(m)
  PROVE  Inv'
<1> DEFINE r == m.from
<1>1. TypeOK /\ InTransit /\ HomeKnows /\ FullyBacked /\ Conserved
  BY DEF Inv
<1>2. /\ m.messageType = "REGISTER_REMOTE"
      /\ ~registered[r] /\ ClaimedHomeDecimals[r] = HomeDecimals
      /\ registered' = [registered EXCEPT ![r] = TRUE]
      /\ collateralNeeded' = [collateralNeeded EXCEPT ![r] = Backing(r, InitialReserve[r])]
      /\ toHome' = BagRemove(toHome, m)
      /\ UNCHANGED <<transferredBalances, homeBalance, remoteVars, toRemotes>>
  BY DEF ReceiveRegisterRemote, MayRegister
<1>3. m \in AllMessages /\ r \in Remotes /\ DOMAIN toHome' \subseteq DOMAIN toHome
  BY <1>1, <1>2, TakeHome, Contents
<1> HIDE DEF r
<1>4. \A x \in Remotes : HeldFor(x) \in Nat /\ Backing(x, InitialReserve[x]) \in Nat
  BY <1>1, HeldNow
<1>5. TypeOK' /\ InTransit'
  <2>1. registered' \in [Remotes -> BOOLEAN] /\ collateralNeeded' \in [Remotes -> Nat]
    BY <1>1, <1>2, <1>3, <1>4 DEF TypeOK
  <2> QED BY <1>1, <1>2, <2>1, TakeHome DEF TypeOK, InTransit, remoteVars, AllMessages
<1>6. ~Open(r) /\ \A x \in Remotes : Open(x) => (Open(x))'
  BY <1>1, <1>2, <1>3 DEF Open, TypeOK
<1>7. ASSUME NEW x \in Remotes
      PROVE  /\ registered'[x] => ClaimedHomeDecimals[x] = HomeDecimals
             /\ collateralNeeded'[x] <= Backing(x, InitialReserve[x])
             /\ transferredBalances'[x] > 0 => (Open(x))'
  BY <1>1, <1>2, <1>3, <1>4, <1>6 DEF HomeKnows, TypeOK
<1>8. FullyBacked'
  <2> DEFINE f == [x \in Remotes |-> HeldFor(x)]
             g == [x \in Remotes |-> HeldFor(x)']
  <2>1. \A x \in Remotes : HeldFor(x)' = HeldFor(x)
    <3>1. \A x \in Remotes : Posted(x) \in Nat /\ Posted(x)' = Posted(x)
      BY <1>1, <1>2, <1>3, <1>4, HeldNow DEF Posted, TypeOK
    <3> QED BY <1>2, <3>1 DEF HeldFor
  <2>2. \A x \in Remotes : g[x] = f[x]
    BY <2>1
  <2>3. Total(g, Remotes) = Total(f, Remotes)
    <3> HIDE DEF f, g
    <3> QED BY <2>2, TotalSame
  <2> QED BY <1>1, <1>2, <2>3 DEF FullyBacked
<1>9. Conserved'
  <2>1. ASSUME NEW x \in OurRemotes PROVE Notes(x)' = Notes(x)
    <3>1. x \in Remotes /\ m \notin TransfersFrom({x})
      BY <1>2, <1>3, Contents DEF OurRemotes
    <3>2. Outgoing(x)' \in Nat /\ Outgoing(x) = Outgoing(x)' + 0
      BY <1>1, <1>2, <3>1, TakeHome
    <3>3. /\ Incoming(x)' = Incoming(x) /\ circulating'[x] = circulating[x]
          /\ Unreported(x)' = Unreported(x)
      BY <1>2 DEF Incoming, Unreported, remoteVars
    <3> QED BY <3>2, <3>3, NotesIs
  <2> QED BY <1>1, <1>2, <2>1 DEF Conserved
<1>10. \A n \in DOMAIN toRemotes' \ DOMAIN toRemotes : (Open(n.to))'
  BY <1>2
<1> QED BY <1>2, <1>3, <1>5, <1>6, <1>7, <1>8, <1>9, <1>10, HomeSide

\* Collateral is added: the home holds more, for the reserve.
LEMMA AddCollateralStep ==
  ASSUME Inv, NEW r \in Remotes, NEW amount \in Nat, AddCollateral(r, amount)
  PROVE  Inv'
<1> DEFINE added == IF amount >= collateralNeeded[r] THEN collateralNeeded[r] ELSE amount
<1>1. TypeOK /\ InTransit /\ HomeKnows /\ FullyBacked /\ Conserved
  BY DEF Inv
<1>2. /\ registered[r] /\ collateralNeeded[r] > 0
      /\ collateralNeeded' = [collateralNeeded EXCEPT ![r] = @ - added]
      /\ homeBalance' = homeBalance + added
      /\ UNCHANGED <<registered, transferredBalances, remoteVars, toHome, toRemotes>>
  BY DEF AddCollateral
<1>3. added \in Nat /\ added <= collateralNeeded[r] /\ collateralNeeded[r] \in Nat
  BY <1>1 DEF TypeOK
<1> HIDE DEF added
<1>4. TypeOK' /\ InTransit'
  <2>1. collateralNeeded' \in [Remotes -> Nat] /\ homeBalance' \in Nat
    BY <1>1, <1>2, <1>3 DEF TypeOK
  <2> QED BY <1>1, <1>2, <2>1 DEF TypeOK, InTransit, remoteVars
<1>5. ~Open(r) /\ \A x \in Remotes : Open(x) => (Open(x))'
  BY <1>1, <1>2 DEF Open, TypeOK
<1>6. \A x \in Remotes : Backing(x, InitialReserve[x]) \in Nat /\ HeldFor(x) \in Nat
  BY <1>1, HeldNow
<1>7. ASSUME NEW x \in Remotes
      PROVE  /\ registered'[x] => ClaimedHomeDecimals[x] = HomeDecimals
             /\ collateralNeeded'[x] <= Backing(x, InitialReserve[x])
             /\ transferredBalances'[x] > 0 => (Open(x))'
  BY <1>1, <1>2, <1>3, <1>5, <1>6 DEF HomeKnows, TypeOK
<1>8. FullyBacked'
  <2> DEFINE f == [x \in Remotes |-> HeldFor(x)]
             g == [x \in Remotes |-> HeldFor(x)']
  <2>1. \A x \in Remotes : f[x] \in Nat
    BY <1>6
  <2>2. g[r] = f[r] + added
    <3>1. Posted(r)' = Posted(r) + added
      BY <1>1, <1>2, <1>3, <1>6 DEF Posted, TypeOK
    <3>2. Posted(r) \in Nat /\ Backing(r, transferredBalances[r]) \in Nat
      BY <1>1, HeldNow
    <3>3. HeldFor(r)' = HeldFor(r) + added
      BY <1>2, <1>3, <3>1, <3>2 DEF HeldFor
    <3> QED BY <3>3
  <2>3. \A x \in Remotes \ {r} : g[x] = f[x]
    BY <1>1, <1>2 DEF HeldFor, Posted, TypeOK
  <2>4. homeBalance >= Total(f, Remotes) /\ homeBalance \in Nat
    BY <1>1 DEF FullyBacked, TypeOK
  <2>5. homeBalance' >= Total(g, Remotes)
    <3> HIDE DEF f, g
    <3>1. f[r] \in Nat /\ g[r] \in Nat
      BY <1>3, <2>1, <2>2
    <3>2. /\ Total(f, Remotes) \in Nat /\ Total(g, Remotes) \in Nat
          /\ Total(g, Remotes) = Total(f, Remotes) - f[r] + g[r]
      BY <2>1, <2>3, <3>1, OneBook
    <3> QED BY <1>2, <1>3, <2>2, <2>4, <3>1, <3>2
  <2> QED BY <2>5 DEF FullyBacked
<1>9. Conserved'
  BY <1>1, <1>2 DEF Conserved, Notes, Unreported, remoteVars
<1>10. \A n \in DOMAIN toRemotes' \ DOMAIN toRemotes : (Open(n.to))'
  BY <1>2
<1> QED BY <1>2, <1>4, <1>5, <1>7, <1>8, <1>9, <1>10, HomeSide

\* Tokens are sent from the home: locked there, counted, and under way.
LEMMA HomeSendStep ==
  ASSUME Inv, NEW r \in Remotes, NEW amount \in Nat, HomeSend(r, amount)
  PROVE  Inv'
<1> DEFINE s == applyTokenScale(HomeScale(r), amount)
           m == Payout(r, s)
<1>1. TypeOK /\ InTransit /\ HomeKnows /\ FullyBacked /\ Conserved
  BY DEF Inv
<1>2. /\ Open(r)
      /\ homeBalance' = homeBalance + amount
      /\ transferredBalances' = [transferredBalances EXCEPT ![r] = @ + s]
      /\ toRemotes' = BagAdd(toRemotes, m)
      /\ UNCHANGED <<registered, collateralNeeded, remoteVars, toHome>>
  BY DEF HomeSend, PayAt
<1>3. s \in Nat
  BY ScaleType, ScaledType
<1>4. /\ m \in PayoutsTo(Remotes) /\ m.amount = s /\ m.to = r
      /\ \A x : m \in PayoutsTo({x}) <=> x = r
  BY <1>3, RemoteAssumption DEF Payout, PayoutsTo
<1>5. Backing(r, transferredBalances[r] + s) <= Backing(r, transferredBalances[r]) + amount
  BY <1>1, LockedBacks DEF TypeOK
<1> HIDE DEF s, m
<1>6. TypeOK' /\ InTransit'
  <2>1. transferredBalances' \in [Remotes -> Nat] /\ homeBalance' \in Nat
    BY <1>1, <1>2, <1>3 DEF TypeOK
  <2> QED BY <1>1, <1>2, <1>4, <2>1, PostRemotes DEF TypeOK, InTransit, remoteVars
<1>7. \A x \in Remotes : (Open(x))' <=> Open(x)
  BY <1>2 DEF Open
<1>8. ASSUME NEW x \in Remotes
      PROVE  /\ registered'[x] => ClaimedHomeDecimals[x] = HomeDecimals
             /\ collateralNeeded'[x] <= Backing(x, InitialReserve[x])
             /\ transferredBalances'[x] > 0 => (Open(x))'
  BY <1>1, <1>2, <1>7 DEF HomeKnows, TypeOK
<1>9. FullyBacked'
  <2> DEFINE f == [x \in Remotes |-> HeldFor(x)]
             g == [x \in Remotes |-> HeldFor(x)']
  <2>1. \A x \in Remotes : f[x] \in Nat
    BY <1>1, HeldNow
  <2>2. g[r] \in Nat /\ g[r] <= f[r] + amount
    <3>1. /\ Posted(r) \in Nat /\ Backing(r, transferredBalances[r]) \in Nat
          /\ HeldFor(r) = Backing(r, transferredBalances[r]) + Posted(r)
      BY <1>1, HeldNow
    <3>2. Posted(r)' = Posted(r)
      BY <1>2 DEF Posted
    <3>3. transferredBalances'[r] = transferredBalances[r] + s /\ transferredBalances[r] \in Nat
      BY <1>1, <1>2 DEF TypeOK
    <3>4. Backing(r, transferredBalances[r] + s) \in Nat
      BY <1>3, <3>3, BackingType
    <3>5. HeldFor(r)' = Backing(r, transferredBalances[r] + s) + Posted(r)
      BY <3>2, <3>3 DEF HeldFor
    <3> QED BY <1>5, <3>1, <3>4, <3>5
  <2>3. \A x \in Remotes \ {r} : g[x] = f[x]
    BY <1>1, <1>2 DEF HeldFor, Posted, TypeOK
  <2>4. homeBalance >= Total(f, Remotes) /\ homeBalance \in Nat
    BY <1>1 DEF FullyBacked, TypeOK
  <2>5. homeBalance' >= Total(g, Remotes)
    <3> HIDE DEF f, g
    <3>1. /\ Total(f, Remotes) \in Nat /\ Total(g, Remotes) \in Nat
          /\ Total(g, Remotes) = Total(f, Remotes) - f[r] + g[r]
      BY <2>1, <2>2, <2>3, OneBook
    <3> QED BY <1>2, <2>1, <2>2, <2>4, <3>1
  <2> QED BY <2>5 DEF FullyBacked
<1>10. Conserved'
  <2>1. ASSUME NEW x \in OurRemotes
        PROVE  Notes(x)' = transferredBalances'[x] + InitialReserve[x]
    <3>1. x \in Remotes /\ Notes(x) = transferredBalances[x] + InitialReserve[x]
      BY <1>1 DEF OurRemotes, Conserved
    <3>2. Incoming(x) \in Nat /\ Incoming(x)' = Incoming(x) + IF x = r THEN s ELSE 0
      BY <1>1, <1>2, <1>4, <3>1, PostRemotes
    <3>3. /\ Outgoing(x)' = Outgoing(x) /\ circulating'[x] = circulating[x]
          /\ Unreported(x)' = Unreported(x)
      BY <1>2 DEF Outgoing, Unreported, remoteVars
    <3>4. Outgoing(x) \in Nat /\ circulating[x] \in Nat /\ Unreported(x) \in Nat
      BY <1>1, <3>1, WayTypes DEF TypeOK, Unreported
    <3>5. /\ transferredBalances'[x] = transferredBalances[x] + IF x = r THEN s ELSE 0
          /\ transferredBalances[x] \in Nat /\ InitialReserve[x] \in Nat
      <4>1. transferredBalances \in [Remotes -> Nat] /\ InitialReserve[x] \in Nat
        BY <1>1, <3>1, RemoteAssumption DEF TypeOK
      <4> QED BY <1>2, <1>3, <3>1, <4>1
    <3> QED BY <1>3, <3>1, <3>2, <3>3, <3>4, <3>5, NotesIs
  <2> QED BY <2>1 DEF Conserved
<1>11. \A n \in DOMAIN toRemotes' \ DOMAIN toRemotes : (Open(n.to))'
  <2>1. DOMAIN toRemotes' = DOMAIN toRemotes \cup {m}
    BY <1>1, <1>2, <1>4, PostRemotes
  <2> QED BY <1>2, <1>4, <1>7, <2>1
<1>12. \A x \in Remotes :
         /\ Open(x) => (Open(x))'
         /\ registered'[x] => ClaimedHomeDecimals[x] = HomeDecimals
         /\ collateralNeeded'[x] <= Backing(x, InitialReserve[x])
         /\ transferredBalances'[x] > 0 => (Open(x))'
  BY <1>7, <1>8
<1> QED BY <1>2, <1>6, <1>9, <1>10, <1>11, <1>12, HomeSide

\* What is held for each remote when a transfer has been taken off the book of its sender.
Remaining(m) == [x \in Remotes |-> Backing(x, Deduct(m)[x]) + Posted(x)]

\* The home can pay for a transfer that it accepts, and keep what backs the rest.
LEMMA Accepted ==
  ASSUME TypeOK, HomeKnows, FullyBacked,
         NEW m \in AllMessages, m.messageType # "REGISTER_REMOTE",
         transferredBalances[m.from] >= m.amount
  PROVE  /\ m.from \in Remotes /\ m.amount \in Nat /\ HomeAmount(m) \in Nat
         /\ Deduct(m) \in [Remotes -> Nat]
         /\ \A x \in Remotes :
              Deduct(m)[x] = transferredBalances[x] - IF x = m.from THEN m.amount ELSE 0
         /\ \A x \in Remotes : Remaining(m)[x] \in Nat
         /\ Total(Remaining(m), Remotes) \in Nat
         /\ Total(Remaining(m), Remotes) + HomeAmount(m) <= homeBalance
<1> DEFINE r == m.from
           s == m.amount
           f == [x \in Remotes |-> HeldFor(x)]
           g == Remaining(m)
<1>1. r \in Remotes /\ s \in Nat
  BY Contents
<1>2. transferredBalances \in [Remotes -> Nat] /\ s \in 0..transferredBalances[r]
  BY <1>1 DEF TypeOK
<1>3. /\ Deduct(m) \in [Remotes -> Nat]
      /\ \A x \in Remotes : Deduct(m)[x] = transferredBalances[x] - IF x = r THEN s ELSE 0
  BY <1>1, <1>2 DEF Deduct
<1>4. HomeAmount(m) \in Nat
  BY <1>1, ScaleType, ScaledType DEF HomeAmount
<1>5. Backing(r, transferredBalances[r] - s) + HomeAmount(m) <= Backing(r, transferredBalances[r])
  BY <1>1, <1>2, RedeemedBacked DEF HomeAmount
<1>6. \A x \in Remotes : g[x] = Backing(x, Deduct(m)[x]) + Posted(x) /\ g[x] \in Nat
  <2>1. \A x \in Remotes : Backing(x, Deduct(m)[x]) \in Nat /\ Posted(x) \in Nat
    BY <1>3, BackingType, HeldNow
  <2> QED BY <2>1 DEF Remaining
<1>7. \A x \in Remotes : f[x] \in Nat
  BY HeldNow
<1>8. g[r] + HomeAmount(m) <= f[r]
  <2>1. g[r] = Backing(r, transferredBalances[r] - s) + Posted(r)
    BY <1>1, <1>3, <1>6
  <2>2. f[r] = Backing(r, transferredBalances[r]) + Posted(r)
    BY <1>1, HeldNow
  <2>3. Backing(r, transferredBalances[r] - s) \in Nat /\ Backing(r, transferredBalances[r]) \in Nat
    BY <1>1, <1>2, BackingType
  <2>4. Posted(r) \in Nat
    BY <1>1, HeldNow
  <2> HIDE DEF f, g, r, s
  <2> QED BY <1>4, <1>5, <2>1, <2>2, <2>3, <2>4
<1>9. \A x \in Remotes \ {r} : g[x] = f[x]
  <2>1. \A x \in Remotes \ {r} : Deduct(m)[x] = transferredBalances[x]
    BY <1>2, <1>3
  <2>2. \A x \in Remotes : f[x] = Backing(x, transferredBalances[x]) + Posted(x)
    BY HeldNow
  <2> HIDE DEF f, g
  <2> QED BY <1>6, <2>1, <2>2
<1>10. homeBalance >= Total(f, Remotes) /\ homeBalance \in Nat
  BY DEF FullyBacked, TypeOK
<1>11. Total(g, Remotes) \in Nat /\ Total(g, Remotes) + HomeAmount(m) <= homeBalance
  <2> HIDE DEF f, g, r, s
  <2>1. g[r] \in Nat /\ f[r] \in Nat
    BY <1>1, <1>6, <1>7
  <2>2. /\ Total(f, Remotes) \in Nat /\ Total(g, Remotes) \in Nat
        /\ Total(g, Remotes) = Total(f, Remotes) - f[r] + g[r]
    BY <1>1, <1>7, <1>9, <2>1, OneBook
  <2> QED BY <1>4, <1>8, <1>10, <2>1, <2>2
<1> HIDE DEF g
<1> QED BY <1>1, <1>3, <1>4, <1>6, <1>11 DEF g

\* A step that takes a transfer off a book and the tokens of it from the home.
LEMMA RedeemStep ==
  ASSUME Inv, NEW m \in DOMAIN toHome, m.messageType # "REGISTER_REMOTE", AcceptsTransfer(m),
         transferredBalances' = Deduct(m), Withdraw(HomeAmount(m)), toHome' = BagRemove(toHome, m),
         UNCHANGED <<registered, collateralNeeded, remoteVars, toRemotes>>
  PROVE  Inv'
<1>1. TypeOK /\ InTransit /\ HomeKnows /\ FullyBacked /\ Conserved
  BY DEF Inv
<1>2. m \in AllMessages /\ transferredBalances[m.from] >= m.amount /\ Open(m.from)
  BY <1>1, TakeHome DEF AcceptsTransfer
<1>3. /\ m.from \in Remotes /\ m.amount \in Nat /\ HomeAmount(m) \in Nat
      /\ transferredBalances' \in [Remotes -> Nat]
      /\ \A x \in Remotes :
           transferredBalances'[x] = transferredBalances[x] - IF x = m.from THEN m.amount ELSE 0
  BY <1>1, <1>2, Accepted
<1>4. homeBalance' = homeBalance - HomeAmount(m) /\ HomeAmount(m) <= homeBalance
  BY DEF Withdraw
<1>5. TypeOK' /\ InTransit' /\ DOMAIN toHome' \subseteq DOMAIN toHome
  <2>1. homeBalance' \in Nat
    BY <1>1, <1>3, <1>4 DEF TypeOK
  <2> QED BY <1>1, <1>3, <2>1, TakeHome DEF TypeOK, InTransit, remoteVars, AllMessages
<1>6. \A x \in Remotes : (Open(x))' <=> Open(x)
  BY DEF Open
<1>7. \A x \in Remotes :
        /\ Open(x) => (Open(x))'
        /\ registered'[x] => ClaimedHomeDecimals[x] = HomeDecimals
        /\ collateralNeeded'[x] <= Backing(x, InitialReserve[x])
        /\ transferredBalances'[x] > 0 => (Open(x))'
  <2>1. \A x \in Remotes : transferredBalances'[x] <= transferredBalances[x]
    BY <1>1, <1>3 DEF TypeOK
  <2>2. \A x \in Remotes : transferredBalances'[x] > 0 => transferredBalances[x] > 0
    BY <1>1, <1>3, <2>1 DEF TypeOK
  <2> QED BY <1>1, <1>6, <2>2 DEF HomeKnows
<1>8. FullyBacked'
  <2>1. [x \in Remotes |-> HeldFor(x)'] = Remaining(m)
    BY DEF HeldFor, Posted, Remaining
  <2>2. Total(Remaining(m), Remotes) \in Nat /\ Total(Remaining(m), Remotes) + HomeAmount(m) <= homeBalance
    BY <1>1, <1>2, Accepted
  <2>3. homeBalance' >= Total(Remaining(m), Remotes)
    BY <1>1, <1>3, <1>4, <2>2 DEF TypeOK
  <2> QED BY <2>1, <2>3 DEF FullyBacked
<1>9. Conserved'
  <2>1. ASSUME NEW x \in OurRemotes
        PROVE  Notes(x)' = transferredBalances'[x] + InitialReserve[x]
    <3>1. x \in Remotes /\ Notes(x) = transferredBalances[x] + InitialReserve[x]
      BY <1>1 DEF OurRemotes, Conserved
    <3>2. m \in TransfersFrom({x}) <=> x = m.from
      BY <1>2, Contents
    <3>3. Outgoing(x)' \in Nat /\ Outgoing(x) = Outgoing(x)' + IF x = m.from THEN m.amount ELSE 0
      BY <1>1, <3>1, <3>2, TakeHome
    <3>4. /\ Incoming(x)' = Incoming(x) /\ circulating'[x] = circulating[x]
          /\ Unreported(x)' = Unreported(x)
      BY DEF Incoming, Unreported, remoteVars
    <3>5. Incoming(x) \in Nat /\ circulating[x] \in Nat /\ Unreported(x) \in Nat
      BY <1>1, <3>1, WayTypes DEF TypeOK, Unreported
    <3>6. transferredBalances[x] \in Nat /\ InitialReserve[x] \in Nat
      BY <1>1, <3>1, RemoteAssumption DEF TypeOK
    <3>7. /\ transferredBalances'[x] = transferredBalances[x] - IF x = m.from THEN m.amount ELSE 0
          /\ m.amount \in Nat
      BY <1>3, <3>1
    <3>8. /\ Notes(x) = circulating[x] + Unreported(x) + Outgoing(x) + Incoming(x)
          /\ Notes(x)' = circulating[x] + Unreported(x) + Outgoing(x)' + Incoming(x)
      BY <3>4, NotesIs
    <3> QED BY <3>1, <3>3, <3>5, <3>6, <3>7, <3>8
  <2> QED BY <2>1 DEF Conserved
<1>10. \A n \in DOMAIN toRemotes' \ DOMAIN toRemotes : (Open(n.to))'
  OBVIOUS
<1> QED BY <1>5, <1>7, <1>8, <1>9, <1>10, HomeSide

\* A transfer is paid out at the home.
LEMMA ReceiveSingleHopStep ==
  ASSUME Inv, NEW m \in DOMAIN toHome, ReceiveSingleHop(m)
  PROVE  Inv'
BY RedeemStep DEF ReceiveSingleHop

\* A transfer hops on: what it leaves at its sender's book, less the fee, backs what is sent on.
LEMMA ReceiveMultiHopStep ==
  ASSUME Inv, NEW m \in DOMAIN toHome, ReceiveMultiHop(m)
  PROVE  Inv'
<1> DEFINE d == m.destination
           s == Routed(m)
           p == Payout(d, s)
           Hops == Open(d) /\ s > 0
<1>1. TypeOK /\ InTransit /\ HomeKnows /\ FullyBacked /\ Conserved
  BY DEF Inv
<1>2. /\ m.messageType = "MULTI_HOP"
      /\ AcceptsTransfer(m) /\ CoversFee(m)
      /\ toHome' = BagRemove(toHome, m)
      /\ UNCHANGED <<registered, collateralNeeded, remoteVars>>
  BY DEF ReceiveMultiHop
<1>3. m \in AllMessages /\ transferredBalances[m.from] >= m.amount /\ d \in Remotes
      /\ m.secondaryFee \in Nat /\ Open(m.from)
  BY <1>1, <1>2, TakeHome, Contents DEF AcceptsTransfer
<1>4. CASE ~Hops
  <2>1. transferredBalances' = Deduct(m) /\ Withdraw(HomeAmount(m)) /\ UNCHANGED toRemotes
    BY <1>4 DEF ReceiveMultiHop
  <2> QED BY <1>2, <2>1, RedeemStep
<1>5. CASE Hops
  <2>1. /\ transferredBalances' = [Deduct(m) EXCEPT ![d] = @ + s]
        /\ toRemotes' = BagAdd(toRemotes, p)
        /\ Withdraw(HomeFee(m))
        /\ Open(d) /\ s > 0
    BY <1>5 DEF ReceiveMultiHop, PayAt
  <2>2. /\ m.from \in Remotes /\ m.amount \in Nat /\ HomeAmount(m) \in Nat
        /\ Deduct(m) \in [Remotes -> Nat]
        /\ \A x \in Remotes :
             Deduct(m)[x] = transferredBalances[x] - IF x = m.from THEN m.amount ELSE 0
        /\ \A x \in Remotes : Remaining(m)[x] \in Nat
        /\ Total(Remaining(m), Remotes) \in Nat
        /\ Total(Remaining(m), Remotes) + HomeAmount(m) <= homeBalance
    BY <1>1, <1>2, <1>3, Accepted
  <2>3. HomeFee(m) \in Nat /\ HomeAmount(m) - HomeFee(m) \in Nat
    <3>1. HomeFee(m) \in Nat
      BY <1>3, <2>2, ScaleType, ScaledType DEF HomeFee
    <3>2. HomeAmount(m) > HomeFee(m)
      BY <1>2, <2>1 DEF CoversFee
    <3> QED BY <2>2, <3>1, <3>2
  <2>4. s \in Nat /\ Backing(d, Deduct(m)[d] + s) <= Backing(d, Deduct(m)[d]) + (HomeAmount(m) - HomeFee(m))
    <3>1. Deduct(m)[d] \in Nat
      BY <1>3, <2>2
    <3> QED BY <1>3, <2>3, <3>1, LockedBacks, ScaleType, ScaledType DEF Routed
  <2>5. /\ p \in PayoutsTo(Remotes) /\ p.amount = s /\ p.to = d
        /\ \A x : p \in PayoutsTo({x}) <=> x = d
    BY <1>3, <2>4 DEF Payout, PayoutsTo
  <2> HIDE DEF s, d, p, Hops
  <2>6. homeBalance' = homeBalance - HomeFee(m) /\ HomeFee(m) <= homeBalance
    BY <2>1 DEF Withdraw
  <2>7. transferredBalances' \in [Remotes -> Nat]
    BY <1>3, <2>1, <2>2, <2>4
  <2>8. TypeOK' /\ InTransit' /\ DOMAIN toHome' \subseteq DOMAIN toHome
    <3>1. homeBalance' \in Nat
      BY <1>1, <2>3, <2>6 DEF TypeOK
    <3> QED BY <1>1, <1>2, <2>1, <2>5, <2>7, <3>1, TakeHome, PostRemotes
            DEF TypeOK, InTransit, remoteVars, AllMessages
  <2>9. \A x \in Remotes : (Open(x))' <=> Open(x)
    BY <1>2 DEF Open
  <2>10. \A x \in Remotes :
           /\ Open(x) => (Open(x))'
           /\ registered'[x] => ClaimedHomeDecimals[x] = HomeDecimals
           /\ collateralNeeded'[x] <= Backing(x, InitialReserve[x])
           /\ transferredBalances'[x] > 0 => (Open(x))'
    <3>1. ASSUME NEW x \in Remotes, transferredBalances'[x] > 0, x # d PROVE transferredBalances[x] > 0
      <4>1. transferredBalances'[x] = Deduct(m)[x]
        BY <2>1, <2>2, <3>1
      <4>2. Deduct(m)[x] \in Nat /\ transferredBalances[x] \in Nat /\ m.amount \in Nat
        BY <1>1, <2>2 DEF TypeOK
      <4>3. Deduct(m)[x] = transferredBalances[x] - IF x = m.from THEN m.amount ELSE 0
        BY <2>2
      <4> QED BY <3>1, <4>1, <4>2, <4>3
    <3>2. \A x \in Remotes : transferredBalances'[x] > 0 => Open(x)
      BY <1>1, <2>1, <3>1 DEF HomeKnows
    <3> QED BY <1>1, <1>2, <2>9, <3>2 DEF HomeKnows
  <2>11. FullyBacked'
    <3> DEFINE f == Remaining(m)
               g == [x \in Remotes |-> HeldFor(x)']
    <3>1. \A x \in Remotes : g[x] = Backing(x, transferredBalances'[x]) + Posted(x)
      BY <1>2 DEF HeldFor, Posted
    <3>2. g[d] \in Nat /\ g[d] <= f[d] + (HomeAmount(m) - HomeFee(m))
      <4>1. transferredBalances'[d] = Deduct(m)[d] + s /\ Deduct(m)[d] \in Nat
        BY <1>3, <2>1, <2>2
      <4>2. f[d] = Backing(d, Deduct(m)[d]) + Posted(d)
        BY <1>3 DEF Remaining
      <4>3. Posted(d) \in Nat
        BY <1>1, <1>3, HeldNow
      <4>4. Backing(d, Deduct(m)[d]) \in Nat /\ Backing(d, Deduct(m)[d] + s) \in Nat
        BY <1>3, <2>4, <4>1, BackingType
      <4>5. g[d] = Backing(d, Deduct(m)[d] + s) + Posted(d)
        BY <1>3, <3>1, <4>1
      <4> HIDE DEF f, g
      <4> QED BY <2>3, <2>4, <4>2, <4>3, <4>4, <4>5
    <3>3. \A x \in Remotes \ {d} : g[x] = f[x]
      <4>1. \A x \in Remotes \ {d} : transferredBalances'[x] = Deduct(m)[x]
        BY <2>1, <2>2
      <4>2. \A x \in Remotes : f[x] = Backing(x, Deduct(m)[x]) + Posted(x)
        BY DEF Remaining
      <4> HIDE DEF f, g
      <4> QED BY <3>1, <4>1, <4>2
    <3>4. homeBalance' >= Total(g, Remotes)
      <4>1. \A x \in Remotes : f[x] \in Nat
        BY <2>2
      <4>2. Total(f, Remotes) \in Nat /\ Total(f, Remotes) + HomeAmount(m) <= homeBalance
        BY <2>2
      <4>3. homeBalance \in Nat
        BY <1>1 DEF TypeOK
      <4> HIDE DEF f, g
      <4>4. /\ Total(g, Remotes) \in Nat
            /\ Total(g, Remotes) = Total(f, Remotes) - f[d] + g[d]
        BY <1>3, <3>2, <3>3, <4>1, OneBook
      <4>5. f[d] \in Nat
        BY <1>3, <4>1
      <4> QED BY <2>2, <2>3, <2>6, <3>2, <4>2, <4>3, <4>4, <4>5
    <3> QED BY <3>4 DEF FullyBacked
  <2>12. Conserved'
    <3>1. ASSUME NEW x \in OurRemotes
          PROVE  Notes(x)' = transferredBalances'[x] + InitialReserve[x]
      <4>1. x \in Remotes /\ Notes(x) = transferredBalances[x] + InitialReserve[x]
        BY <1>1 DEF OurRemotes, Conserved
      <4>2. m \in TransfersFrom({x}) <=> x = m.from
        BY <1>2, <1>3, Contents
      <4>3. Outgoing(x)' \in Nat /\ Outgoing(x) = Outgoing(x)' + IF x = m.from THEN m.amount ELSE 0
        BY <1>1, <1>2, <4>1, <4>2, TakeHome
      <4>4. Incoming(x) \in Nat /\ Incoming(x)' = Incoming(x) + IF x = d THEN s ELSE 0
        BY <1>1, <2>1, <2>5, <4>1, PostRemotes
      <4>5. circulating'[x] = circulating[x] /\ Unreported(x)' = Unreported(x)
        BY <1>2 DEF Unreported, remoteVars
      <4>6. circulating[x] \in Nat /\ Unreported(x) \in Nat
        BY <1>1, <4>1 DEF TypeOK, Unreported
      <4>7. transferredBalances[x] \in Nat /\ InitialReserve[x] \in Nat
        BY <1>1, <4>1, RemoteAssumption DEF TypeOK
      <4>8. /\ Deduct(m)[x] = transferredBalances[x] - IF x = m.from THEN m.amount ELSE 0
            /\ Deduct(m)[x] \in Nat
        BY <2>2, <4>1
      <4>9. transferredBalances'[x] = Deduct(m)[x] + IF x = d THEN s ELSE 0
        BY <2>1, <2>2, <4>1, <4>8
      <4>10. /\ Notes(x) = circulating[x] + Unreported(x) + Outgoing(x) + Incoming(x)
             /\ Notes(x)' = circulating[x] + Unreported(x) + Outgoing(x)' + Incoming(x)'
        BY <4>5, NotesIs
      <4> QED BY <2>2, <2>4, <4>1, <4>3, <4>4, <4>6, <4>7, <4>8, <4>9, <4>10
    <3> QED BY <3>1 DEF Conserved
  <2>13. \A n \in DOMAIN toRemotes' \ DOMAIN toRemotes : (Open(n.to))'
    <3>1. DOMAIN toRemotes' = DOMAIN toRemotes \cup {p}
      BY <1>1, <2>1, <2>5, PostRemotes
    <3> QED BY <1>3, <2>1, <2>5, <2>9, <3>1
  <2> QED BY <1>2, <2>8, <2>10, <2>11, <2>12, <2>13, HomeSide
<1> QED BY <1>4, <1>5

\* At first nothing is registered, sent or held, and the holders of a remote have its reserve.
LEMMA InitInv == Init => Inv
<1> SUFFICES ASSUME Init PROVE Inv
  OBVIOUS
<1> USE DEF Init
<1>1. InitialReserve \in [Remotes -> Nat]
  BY RemoteAssumption
<1>2. DOMAIN toHome = {} /\ DOMAIN toRemotes = {}
  BY DEF NoMessages
<1>3. TypeOK
  BY <1>1, <1>2 DEF TypeOK, NoMessages
<1>4. InTransit
  BY <1>2, FS_EmptySet DEF InTransit
<1>5. HomeKnows
  <2>1. \A r \in Remotes : Backing(r, InitialReserve[r]) \in Nat
    BY <1>1, BackingType
  <2>2. \A r \in Remotes : ~isRegistered[r] /\ (isCollateralized[r] => InitialReserve[r] = 0)
    BY Zenon
  <2>3. CollateralKnown
    BY <1>1, <2>2 DEF CollateralKnown, OurRemotes
  <2> QED BY <1>2, <2>1, <2>3 DEF HomeKnows
<1>6. FeesCovered
  BY <1>2 DEF FeesCovered
<1>7. FullyBacked
  <2> DEFINE f == [r \in Remotes |-> HeldFor(r)]
  <2>1. \A r \in Remotes : f[r] = 0
    BY BackingType DEF HeldFor, Posted
  <2>2. Total(f, Remotes) = 0
    <3> HIDE DEF f
    <3> QED BY <2>1, TotalZero
  <2> QED BY <2>2 DEF FullyBacked
<1>8. Conserved
  <2>1. ASSUME NEW r \in OurRemotes PROVE Notes(r) = transferredBalances[r] + InitialReserve[r]
    <3>1. r \in Remotes /\ Outgoing(r) = 0 /\ Incoming(r) = 0
      BY AmountEmpty DEF Outgoing, Incoming, OurRemotes
    <3>2. Unreported(r) = 0 /\ circulating[r] = InitialReserve[r] /\ transferredBalances[r] = 0
      BY <3>1 DEF Unreported
    <3> QED BY <1>1, <3>1, <3>2, NotesIs
  <2> QED BY <2>1 DEF Conserved
<1> QED BY <1>3, <1>4, <1>5, <1>6, <1>7, <1>8 DEF Inv

\* Every step keeps the invariant.
LEMMA NextInv == Inv /\ [Next]_vars => Inv'
<1> SUFFICES ASSUME Inv, [Next]_vars PROVE Inv'
  OBVIOUS
<1>1. Amounts \subseteq Nat /\ SecondaryFees \subseteq Nat /\ ForeignRemotes \subseteq Remotes
      /\ OurRemotes \subseteq Remotes
  BY RemoteAssumption DEF OurRemotes
<1>2. CASE HomeStep
  BY <1>1, <1>2, HomeSendStep, AddCollateralStep, ReceiveRegisterRemoteStep, ReceiveSingleHopStep,
     ReceiveMultiHopStep DEF HomeStep
<1>3. ASSUME NEW r \in OurRemotes, RemoteStep(r) PROVE Inv'
  <2>1. CASE RegisterWithHome(r)
    BY <1>1, <2>1, RegisterWithHomeStep
  <2>2. CASE ReportBurnedTxFees(r)
    BY <2>2, ReportBurnedTxFeesStep
  <2>3. ASSUME NEW amount \in Amounts, Send(r, amount) \/ BurnTxFees(r, amount) PROVE Inv'
    BY <1>1, <2>3, SendStep, BurnTxFeesStep
  <2>4. ASSUME NEW amount \in Amounts, NEW fee \in SecondaryFees, NEW destination \in Remotes,
               SendMultiHop(r, amount, fee, destination)
        PROVE Inv'
    BY <1>1, <2>4, SendMultiHopStep
  <2> QED BY <1>3, <2>1, <2>2, <2>3, <2>4 DEF RemoteStep
<1>4. ASSUME NEW r \in ForeignRemotes, ForeignStep(r) PROVE Inv'
  <2>1. CASE RegisterWithHome(r)
    BY <1>1, <2>1, RegisterWithHomeStep
  <2>2. ASSUME NEW amount \in Amounts, ForeignSend(SingleHop(r, amount)) PROVE Inv'
    <3> DEFINE m == SingleHop(r, amount)
    <3>1. m \in AllMessages /\ m.from = r
      BY <1>1, Kinds DEF SingleHop
    <3> HIDE DEF m
    <3>2. ForeignSend(m)
      BY <2>2 DEF m
    <3> QED BY <3>1, <3>2, ForeignSendStep
  <2>3. ASSUME NEW amount \in Amounts, NEW fee \in SecondaryFees, NEW destination \in Remotes,
               ForeignSend(MultiHop(r, amount, fee, destination))
        PROVE Inv'
    <3> DEFINE m == MultiHop(r, amount, fee, destination)
    <3>1. m \in AllMessages /\ m.from = r
      BY <1>1, Kinds DEF MultiHop
    <3> HIDE DEF m
    <3>2. ForeignSend(m)
      BY <2>3 DEF m
    <3> QED BY <3>1, <3>2, ForeignSendStep
  <2> QED BY <1>4, <2>1, <2>2, <2>3 DEF ForeignStep
<1>5. ASSUME NEW m \in DOMAIN toRemotes, ReceiveFromHome(m) \/ ForeignReceive(m) PROVE Inv'
  BY <1>5, ReceiveFromHomeStep, ForeignReceiveStep
<1>6. CASE UNCHANGED vars
  <2>1. /\ UNCHANGED homeVars /\ UNCHANGED remoteVars
        /\ toHome' = toHome /\ toRemotes' = toRemotes
    BY <1>6 DEF vars
  <2>2. TypeOK' /\ InTransit' /\ CollateralKnown' /\ FeesCovered'
    BY <2>1 DEF Inv, TypeOK, InTransit, HomeKnows, CollateralKnown, FeesCovered, homeVars, remoteVars
  <2>3. \A r \in OurRemotes : Notes(r)' = Notes(r)
    BY <2>1 DEF Notes, Unreported, remoteVars
  <2> QED BY <2>1, <2>2, <2>3, RemoteSide
<1> QED BY <1>2, <1>3, <1>4, <1>5, <1>6 DEF Next
-----------------------------------------------------------------------------
\* The theorems.

\* The inductive invariant holds in every reachable state.
THEOREM Invariance == Spec => []Inv
<1>1. Init => Inv
  BY InitInv
<1>2. Inv /\ [Next]_vars => Inv'
  BY NextInv
<1> QED BY <1>1, <1>2, PTL DEF Spec

\* No balance of the home or of a remote is ever negative, whatever is sent, hops or is invented.
THEOREM TypeCorrect == Spec => []TypeOK
<1>1. Inv => TypeOK
  BY DEF Inv
<1> QED BY <1>1, Invariance, PTL

\* The home always holds what backs the tokens it sent to remotes and their reserves.
THEOREM Backed == Spec => []FullyBacked
<1>1. Inv => FullyBacked
  BY DEF Inv
<1> QED BY <1>1, Invariance, PTL

\* The book of the home on a remote and the supply of the remote always agree.
THEOREM Conservation == Spec => []Conserved
<1>1. Inv => Conserved
  BY DEF Inv
<1> QED BY <1>1, Invariance, PTL

\* A remote that takes itself for registered or collateralized is.
THEOREM CollateralKnowledge == Spec => []CollateralKnown
<1>1. Inv => CollateralKnown
  BY DEF Inv, HomeKnows
<1> QED BY <1>1, Invariance, PTL

\* A transfer of a remote without a reserve can always be executed at the home.
THEOREM AcceptedAtHome == Spec => []HomeAccepts
<1>1. Inv => HomeAccepts
  <2> SUFFICES ASSUME Inv, NEW m \in DOMAIN toHome, m.from \in OurRemotes,
                      m.messageType # "REGISTER_REMOTE",
                      InitialReserve[m.from] > 0 =>
                        Open(m.from) /\ m.amount <= transferredBalances[m.from]
               PROVE  /\ AcceptsTransfer(m)
                      /\ HomeAmount(m) <= homeBalance
                      /\ m.messageType = "MULTI_HOP" => CoversFee(m)
    BY DEF HomeAccepts
  <2> DEFINE r == m.from
  <2>1. TypeOK /\ InTransit /\ HomeKnows /\ FeesCovered /\ FullyBacked /\ Conserved
    BY DEF Inv
  <2>2. m \in AllMessages /\ r \in Remotes /\ m.amount \in Nat
        /\ (m.messageType = "MULTI_HOP" => m.secondaryFee \in Nat)
    BY <2>1, Contents DEF TypeOK, AllMessages
  <2>3. transferredBalances[r] \in Nat /\ InitialReserve[r] \in Nat
    BY <2>1, <2>2, RemoteAssumption DEF TypeOK
  <2>4. m.amount <= transferredBalances[r]
    <3>1. CASE InitialReserve[r] > 0
      BY <3>1
    <3>2. CASE InitialReserve[r] = 0
      <4>1. Notes(r) = transferredBalances[r]
        BY <2>1, <2>3, <3>2 DEF Conserved
      <4>2. /\ Incoming(r) \in Nat /\ Outgoing(r) \in Nat
            /\ circulating[r] \in Nat /\ Unreported(r) \in Nat
        BY <2>1, <2>2, WayTypes DEF TypeOK, Unreported
      <4>3. Outgoing(r) <= transferredBalances[r]
        BY <2>3, <4>1, <4>2, NotesIs
      <4>4. Outgoing(r) >= m.amount
        <5> DEFINE K == TransfersFrom({r})
                   C == BagRemove(toHome, m)
        <5>1. /\ toHome \in [DOMAIN toHome -> Nat \ {0}] /\ IsFiniteSet(DOMAIN toHome)
              /\ \A n \in K : n.amount \in Nat
          BY <2>1, Contents DEF TypeOK, InTransit
        <5>2. m \in K
          BY <2>2, Contents
        <5> HIDE DEF K
        <5>3. AmountIn(toHome, K) = AmountIn(C, K) + m.amount
          BY <5>1, <5>2, AmountRemove
        <5>4. C \in [DOMAIN C -> Nat \ {0}] /\ IsFiniteSet(DOMAIN C)
          BY <5>1, BagRemoveFacts
        <5> HIDE DEF C
        <5>5. AmountIn(C, K) \in Nat
          BY <5>1, <5>4, AmountType
        <5> QED BY <2>2, <5>3, <5>5 DEF Outgoing, K
      <4> QED BY <2>2, <2>3, <4>2, <4>3, <4>4
    <3> QED BY <2>3, <3>1, <3>2
  <2>5. /\ removeTokenScale(OwnScale(r), m.amount) \in Nat
        /\ m.messageType = "MULTI_HOP" => removeTokenScale(OwnScale(r), m.secondaryFee) \in Nat
        /\ removeTokenScale(OwnScale(r), m.amount)
             > IF m.messageType = "MULTI_HOP" THEN removeTokenScale(OwnScale(r), m.secondaryFee) ELSE 0
    <3>1. /\ removeTokenScale(OwnScale(r), m.amount) \in Nat
          /\ m.messageType = "MULTI_HOP" => removeTokenScale(OwnScale(r), m.secondaryFee) \in Nat
      BY <2>2, ScaleType, ScaledType
    <3> QED BY <2>1, <3>1 DEF FeesCovered
  <2>6. m.amount # 0
    <3>1. removeTokenScale(OwnScale(r), m.amount) # 0
      BY <2>5
    <3> QED BY <2>2, <3>1, ScaleType, NothingScaled
  <2>7. Open(r) /\ OwnScale(r) = HomeScale(r)
    <3>1. transferredBalances[r] > 0
      BY <2>2, <2>3, <2>4, <2>6
    <3>2. Open(r)
      BY <2>1, <2>2, <3>1 DEF HomeKnows
    <3>3. ClaimedHomeDecimals[r] = HomeDecimals
      BY <2>1, <2>2, <3>2 DEF HomeKnows, Open
    <3> QED BY <2>2, <3>2, <3>3, ScaleType
  <2>8. AcceptsTransfer(m) /\ (m.messageType = "MULTI_HOP" => CoversFee(m))
    <3>1. HomeAmount(m) > 0
      BY <2>5, <2>7 DEF HomeAmount
    <3>2. m.messageType = "MULTI_HOP" => HomeAmount(m) > HomeFee(m)
      BY <2>5, <2>7 DEF HomeAmount, HomeFee
    <3> QED BY <2>2, <2>3, <2>4, <2>7, <3>1, <3>2 DEF AcceptsTransfer, CoversFee
  <2>9. HomeAmount(m) <= homeBalance
    <3>1. HomeAmount(m) \in Nat /\ Total(Remaining(m), Remotes) \in Nat
          /\ Total(Remaining(m), Remotes) + HomeAmount(m) <= homeBalance
      BY <2>1, <2>2, <2>3, <2>4, Accepted
    <3>2. homeBalance \in Nat
      BY <2>1 DEF TypeOK
    <3> QED BY <3>1, <3>2
  <2> QED BY <2>8, <2>9
<1> QED BY <1>1, Invariance, PTL
-----------------------------------------------------------------------------
\* Refinement: together the contracts are a bridge.

\* The notes of the bridge are what the home's book says, at whatever contract.
BookNotes == [r \in Remotes |-> transferredBalances[r] + InitialReserve[r]]

\* With the supplies conserved, the mapping takes the notes from the home's book.
LEMMA NotesAreBooked ==
  /\ Conserved => [r \in Remotes |-> NotesOf(r)] = BookNotes
  /\ Conserved' => [r \in Remotes |-> NotesOf(r)]' = BookNotes'
BY DEF Conserved, NotesOf, BookNotes

\* A step that leaves the books of the home alone is one that the bridge does not see.
LEMMA BridgeStutters ==
  ASSUME Conserved, Conserved', UNCHANGED homeVars
  PROVE  UNCHANGED Bridge!bridgeVars
<1>1. BookNotes' = BookNotes
  BY DEF BookNotes, homeVars
<1> QED BY <1>1, NotesAreBooked DEF Bridge!bridgeVars, homeVars

\* A book that is taken down and paid for redeems notes.
LEMMA BridgeRedeems ==
  ASSUME TypeOK, TypeOK', Conserved, Conserved', UNCHANGED <<registered, collateralNeeded>>,
         NEW r \in Remotes, Open(r),
         transferredBalances'[r] < transferredBalances[r],
         \A x \in Remotes \ {r} : transferredBalances'[x] = transferredBalances[x],
         homeBalance' >= homeBalance - Backing(r, transferredBalances[r] - transferredBalances'[r]),
         homeBalance' < homeBalance
  PROVE  Bridge!BridgeNext
<1>1. BookNotes' = [BookNotes EXCEPT ![r] = BookNotes'[r]]
  BY DEF BookNotes
<1>2. InitialReserve[r] \in Nat /\ transferredBalances[r] \in Nat /\ transferredBalances'[r] \in Nat
  BY RemoteAssumption DEF TypeOK
<1>3. /\ BookNotes'[r] \in InitialReserve[r]..(BookNotes[r] - 1)
      /\ BookNotes[r] - BookNotes'[r] = transferredBalances[r] - transferredBalances'[r]
  BY <1>2 DEF BookNotes
<1>4. Bridge!Redeem(r)
  BY <1>1, <1>3, NotesAreBooked DEF Bridge!Redeem, Bridge!Usable, Open
<1> QED BY <1>4 DEF Bridge!BridgeNext

\* A book of a contract of other code that is taken down for nothing forfeits notes.
LEMMA BridgeForfeits ==
  ASSUME TypeOK, TypeOK', Conserved, Conserved', UNCHANGED <<registered, collateralNeeded, homeBalance>>,
         NEW r \in Remotes, r \in ForeignRemotes,
         transferredBalances'[r] < transferredBalances[r],
         \A x \in Remotes \ {r} : transferredBalances'[x] = transferredBalances[x]
  PROVE  Bridge!BridgeNext
<1>1. BookNotes' = [BookNotes EXCEPT ![r] = BookNotes'[r]]
  BY DEF BookNotes
<1>2. InitialReserve[r] \in Nat /\ transferredBalances[r] \in Nat /\ transferredBalances'[r] \in Nat
  BY RemoteAssumption DEF TypeOK
<1>3. BookNotes'[r] \in InitialReserve[r]..(BookNotes[r] - 1)
  BY <1>2 DEF BookNotes
<1>4. Bridge!Forfeit(r)
  BY <1>1, <1>3, NotesAreBooked DEF Bridge!Forfeit
<1> QED BY <1>4 DEF Bridge!BridgeNext

\* Registering makes a remote known.
LEMMA BridgeKnows ==
  ASSUME TypeOK, Conserved, Conserved', NEW m \in DOMAIN toHome, m.from \in Remotes,
         ReceiveRegisterRemote(m)
  PROVE  Bridge!BridgeNext
<1> DEFINE r == m.from
<1>1. /\ ~registered[r]
      /\ registered' = [registered EXCEPT ![r] = TRUE]
      /\ collateralNeeded' = [collateralNeeded EXCEPT ![r] = Backing(r, InitialReserve[r])]
      /\ UNCHANGED <<transferredBalances, homeBalance>>
  BY DEF ReceiveRegisterRemote, MayRegister
<1>2. /\ r \notin {x \in Remotes : registered[x]}
      /\ {x \in Remotes : registered'[x]} = {x \in Remotes : registered[x]} \cup {r}
  BY <1>1 DEF TypeOK
<1>3. BookNotes' = BookNotes
  BY <1>1 DEF BookNotes
<1>4. Bridge!Know(r)
  BY <1>1, <1>2, <1>3, NotesAreBooked DEF Bridge!Know
<1> QED BY <1>4 DEF Bridge!BridgeNext

\* Collateral backs a reserve; none of it is no step.
LEMMA BridgeBacks ==
  ASSUME TypeOK, Conserved, Conserved', NEW r \in Remotes, NEW amount \in Nat,
         AddCollateral(r, amount)
  PROVE  Bridge!BridgeNext \/ UNCHANGED Bridge!bridgeVars
<1> DEFINE added == IF amount >= collateralNeeded[r] THEN collateralNeeded[r] ELSE amount
<1>1. /\ registered[r] /\ collateralNeeded[r] > 0
      /\ collateralNeeded' = [collateralNeeded EXCEPT ![r] = @ - added]
      /\ homeBalance' = homeBalance + added
      /\ UNCHANGED <<registered, transferredBalances>>
  BY DEF AddCollateral
<1>2. /\ added \in Nat /\ added <= collateralNeeded[r]
      /\ collateralNeeded \in [Remotes -> Nat] /\ homeBalance \in Nat
  BY DEF TypeOK
<1> HIDE DEF added
<1>3. BookNotes' = BookNotes
  BY <1>1 DEF BookNotes
<1>4. CASE added = 0
  <2>1. collateralNeeded' = collateralNeeded /\ homeBalance' = homeBalance
    BY <1>1, <1>2, <1>4
  <2> QED BY <1>1, <2>1, BridgeStutters DEF homeVars
<1>5. CASE added # 0
  <2>1. /\ collateralNeeded'[r] \in 0..(collateralNeeded[r] - 1)
        /\ collateralNeeded' = [collateralNeeded EXCEPT ![r] = collateralNeeded'[r]]
        /\ homeBalance' = homeBalance + collateralNeeded[r] - collateralNeeded'[r]
    BY <1>1, <1>2, <1>5
  <2>2. Bridge!Back(r)
    BY <1>1, <1>3, <2>1, NotesAreBooked DEF Bridge!Back
  <2> QED BY <2>2 DEF Bridge!BridgeNext
<1> QED BY <1>4, <1>5

\* Sending from the home issues notes, which what it locks backs.
LEMMA BridgeIssues ==
  ASSUME TypeOK, Conserved, Conserved', NEW r \in Remotes, NEW amount \in Nat, HomeSend(r, amount)
  PROVE  Bridge!BridgeNext
<1> DEFINE s == applyTokenScale(HomeScale(r), amount)
<1>1. /\ Open(r) /\ s > 0
      /\ homeBalance' = homeBalance + amount
      /\ transferredBalances' = [transferredBalances EXCEPT ![r] = @ + s]
      /\ UNCHANGED <<registered, collateralNeeded>>
  BY DEF HomeSend, PayAt
<1>2. s \in Nat
  BY ScaleType, ScaledType
<1>3. Backing(r, s) <= amount
  <2>1. Backing(r, 0 + s) <= Backing(r, 0) + amount
    BY LockedBacks
  <2>2. 0 + s = s /\ Backing(r, 0) = 0
    BY <1>2, BackingType
  <2> HIDE DEF s
  <2> QED BY <2>1, <2>2
<1>4. Backing(r, s) \in Nat
  BY <1>2, BackingType
<1> HIDE DEF s
<1>5. /\ transferredBalances \in [Remotes -> Nat] /\ homeBalance \in Nat
      /\ InitialReserve \in [Remotes -> Nat]
  BY RemoteAssumption DEF TypeOK
<1>6. /\ BookNotes' = [BookNotes EXCEPT ![r] = BookNotes'[r]]
      /\ BookNotes'[r] = BookNotes[r] + s /\ BookNotes[r] \in Nat
  <2>1. /\ \A x \in Remotes \ {r} : transferredBalances'[x] = transferredBalances[x]
        /\ transferredBalances'[r] = transferredBalances[r] + s
    BY <1>1, <1>5
  <2>2. BookNotes' = [BookNotes EXCEPT ![r] = BookNotes'[r]]
    BY <2>1 DEF BookNotes
  <2>3. transferredBalances[r] \in Nat /\ InitialReserve[r] \in Nat
    BY <1>5
  <2> QED BY <1>2, <2>1, <2>2, <2>3 DEF BookNotes
<1>7. BookNotes'[r] > BookNotes[r] /\ BookNotes'[r] - BookNotes[r] = s
  BY <1>1, <1>2, <1>6
<1>8. homeBalance' >= homeBalance + Backing(r, BookNotes'[r] - BookNotes[r])
  BY <1>1, <1>3, <1>4, <1>5, <1>7
<1>9. Bridge!Issue(r)
  BY <1>1, <1>6, <1>7, <1>8, NotesAreBooked DEF Bridge!Issue, Bridge!Usable, Open
<1> QED BY <1>9 DEF Bridge!BridgeNext

\* What is paid for a transfer is at least something and at most its backing.
LEMMA Paid ==
  ASSUME NEW r \in Remotes, NEW a \in Nat, removeTokenScale(HomeScale(r), a) > 0
  PROVE  /\ a > 0
         /\ removeTokenScale(HomeScale(r), a) \in Nat /\ Backing(r, a) \in Nat
         /\ removeTokenScale(HomeScale(r), a) <= Backing(r, a)
<1>1. removeTokenScale(HomeScale(r), a) \in Nat
  BY ScaleType, ScaledType
<1>2. a # 0
  BY ScaleType, NothingScaled
<1>3. a \in 0..a /\ a - a = 0
  OBVIOUS
<1>4. Backing(r, a - a) + removeTokenScale(HomeScale(r), a) <= Backing(r, a)
  BY <1>3, RedeemedBacked
<1>5. Backing(r, 0) = 0 /\ Backing(r, a) \in Nat
  BY BackingType
<1> QED BY <1>1, <1>2, <1>3, <1>4, <1>5

\* A transfer that is paid out at the home is redeemed.
LEMMA BridgePaysOut ==
  ASSUME Inv, Inv', NEW m \in DOMAIN toHome, m.messageType # "REGISTER_REMOTE",
         AcceptsTransfer(m), transferredBalances' = Deduct(m), Withdraw(HomeAmount(m)),
         UNCHANGED <<registered, collateralNeeded>>
  PROVE  Bridge!BridgeNext
<1> DEFINE r == m.from
           t == transferredBalances[m.from] - m.amount
<1>1. /\ TypeOK /\ HomeKnows /\ FullyBacked /\ Conserved /\ TypeOK' /\ Conserved'
      /\ m \in AllMessages
  BY DEF Inv, TypeOK, AllMessages
<1>2. Open(r) /\ transferredBalances[r] >= m.amount /\ HomeAmount(m) > 0
  BY DEF AcceptsTransfer
<1>3. /\ r \in Remotes /\ m.amount \in Nat
      /\ \A x \in Remotes :
           transferredBalances'[x] = transferredBalances[x] - IF x = r THEN m.amount ELSE 0
  BY <1>1, <1>2, Accepted
<1>4. transferredBalances[r] \in Nat /\ homeBalance \in Nat /\ transferredBalances \in [Remotes -> Nat]
  BY <1>1, <1>3 DEF TypeOK
<1>5. m.amount > 0 /\ HomeAmount(m) \in Nat /\ HomeAmount(m) <= Backing(r, m.amount)
      /\ Backing(r, m.amount) \in Nat
  BY <1>2, <1>3, Paid DEF HomeAmount
<1>6. homeBalance' = homeBalance - HomeAmount(m)
  BY DEF Withdraw
<1>7. transferredBalances[r] - transferredBalances'[r] = m.amount
      /\ transferredBalances'[r] < transferredBalances[r]
  BY <1>3, <1>4, <1>5
<1>8. \A x \in Remotes \ {r} : transferredBalances'[x] = transferredBalances[x]
  BY <1>3, <1>4
<1>9. /\ homeBalance' >= homeBalance - Backing(r, transferredBalances[r] - transferredBalances'[r])
      /\ homeBalance' < homeBalance
  BY <1>2, <1>4, <1>5, <1>6, <1>7
<1> HIDE DEF r
<1> QED BY <1>1, <1>2, <1>3, <1>7, <1>8, <1>9, BridgeRedeems

\* A transfer that goes back to the remote it comes from, less a fee: no more comes back than was
\* sent, and the fee is paid out of the backing of what does not.
LEMMA BackAgain ==
  ASSUME NEW r \in Remotes, NEW a \in Nat, NEW fee \in Nat,
         removeTokenScale(HomeScale(r), a) > removeTokenScale(HomeScale(r), fee)
  PROVE  LET s == applyTokenScale(HomeScale(r), removeTokenScale(HomeScale(r), a)
                                                  - removeTokenScale(HomeScale(r), fee))
         IN  /\ s \in 0..a
             /\ removeTokenScale(HomeScale(r), fee) <= Backing(r, a - s)
<1> DEFINE m == HomeScale(r).tokenMultiplier
           h == removeTokenScale(HomeScale(r), a)
           f == removeTokenScale(HomeScale(r), fee)
           s == applyTokenScale(HomeScale(r), h - f)
<1>1. m \in Nat \ {0} /\ HomeScale(r).multiplyOnRemote \in BOOLEAN
  BY ScaleType
<1>2. h \in Nat /\ f \in Nat /\ h > f
  BY ScaleType, ScaledType
<1>3. h - f \in Nat
  BY <1>2
<1>4. s \in Nat
  BY <1>3, ScaleType, ScaledType
<1>5. CASE HomeScale(r).multiplyOnRemote
  <2>1. h = a \div m /\ s = (h - f) * m
    BY <1>5, ScaleType DEF removeTokenScale, applyTokenScale, ScaleTokens
  <2>2. m * h <= a
    BY <1>1, <2>1, Division
  <2> HIDE DEF m, h, f, s
  <2>3. (h - f) * m = m * h - m * f
    BY <1>1, <1>2
  <2>4. m * h \in Nat /\ m * f \in Nat
    BY <1>1, <1>2
  <2>5. s <= a /\ m * f <= a - s /\ a - s \in Nat
    BY <1>4, <2>1, <2>2, <2>3, <2>4
  <2>6. Backing(r, a - s) \in Nat /\ a - s <= m * Backing(r, a - s)
    BY <1>5, <2>5, BackingMultiply DEF m
  <2>7. m * f <= m * Backing(r, a - s)
    <3>1. m * Backing(r, a - s) \in Nat
      BY <1>1, <2>6
    <3> QED BY <2>4, <2>5, <2>6, <3>1
  <2>8. f <= Backing(r, a - s)
    BY <1>1, <1>2, <2>6, <2>7, Cancel
  <2> QED BY <1>4, <2>5, <2>8 DEF h, f, s
<1>6. CASE ~HomeScale(r).multiplyOnRemote
  <2>1. h = a * m /\ f = fee * m /\ s = (h - f) \div m
    BY <1>6, ScaleType DEF removeTokenScale, applyTokenScale, ScaleTokens
  <2> HIDE DEF m, h, f, s
  <2>2. m * s <= h - f
    BY <1>1, <1>3, <1>4, <2>1, Division
  <2>3. m * s <= m * a
    <3>1. m * s \in Nat /\ a * m = m * a /\ m * a \in Nat
      BY <1>1, <1>4
    <3> QED BY <1>2, <2>1, <2>2, <3>1
  <2>4. s <= a
    BY <1>1, <1>4, <2>3, Cancel
  <2>5. Backing(r, a - s) = (a - s) * m
    BY <1>4, <1>6, <2>4, BackingDivide DEF m
  <2>6. (a - s) * m = a * m - m * s
    BY <1>1, <1>4
  <2>7. f <= Backing(r, a - s)
    <3>1. m * s \in Nat
      BY <1>1, <1>4
    <3> QED BY <1>2, <2>1, <2>2, <2>5, <2>6, <3>1
  <2> QED BY <1>4, <2>4, <2>7 DEF h, f, s
<1> QED BY <1>1, <1>5, <1>6

\* Of what a transfer is worth, the fee stays out and the rest backs what is sent on.
LEMMA SentOn ==
  ASSUME NEW d \in Remotes, NEW h \in Nat
  PROVE  /\ applyTokenScale(HomeScale(d), h) \in Nat
         /\ Backing(d, applyTokenScale(HomeScale(d), h)) \in Nat
         /\ Backing(d, applyTokenScale(HomeScale(d), h)) <= h
<1> DEFINE s == applyTokenScale(HomeScale(d), h)
<1>1. s \in Nat
  BY ScaleType, ScaledType
<1>2. Backing(d, s) \in Nat /\ Backing(d, 0) = 0
  BY <1>1, BackingType
<1>3. Backing(d, 0 + s) <= Backing(d, 0) + h
  BY LockedBacks
<1> HIDE DEF s
<1>4. Backing(d, s) <= h
  <2>1. 0 + s = s
    BY <1>1
  <2> QED BY <1>2, <1>3, <2>1
<1> QED BY <1>1, <1>2, <1>4 DEF s

\* A remote of this code does not ask for a second hop to itself.
HopsOn ==
  \A m \in DOMAIN toHome :
    m.messageType = "MULTI_HOP" /\ m.from \in OurRemotes => m.destination # m.from

\* A second hop to another remote converts notes; one back to where it comes from redeems what the
\* fee takes, or, if the rounding took it, forfeits it.
LEMMA BridgeConverts ==
  ASSUME Inv, Inv', HopsOn, NEW m \in DOMAIN toHome, ReceiveMultiHop(m)
  PROVE  Bridge!BridgeNext \/ UNCHANGED Bridge!bridgeVars
<1> DEFINE r == m.from
           d == m.destination
           a == m.amount
           h == HomeAmount(m)
           f == HomeFee(m)
           s == Routed(m)
           Hops == Open(d) /\ s > 0
<1>1. /\ TypeOK /\ HomeKnows /\ FullyBacked /\ Conserved /\ TypeOK' /\ Conserved'
      /\ m \in AllMessages
  BY DEF Inv, TypeOK, AllMessages
<1>2. /\ m.messageType = "MULTI_HOP" /\ AcceptsTransfer(m) /\ CoversFee(m)
      /\ UNCHANGED <<registered, collateralNeeded>>
  BY DEF ReceiveMultiHop
<1>3. Open(r) /\ transferredBalances[r] >= a /\ h > 0
  BY <1>2 DEF AcceptsTransfer
<1>4. /\ r \in Remotes /\ a \in Nat /\ d \in Remotes /\ m.secondaryFee \in Nat
      /\ \A x \in Remotes : Deduct(m)[x] = transferredBalances[x] - IF x = r THEN a ELSE 0
      /\ Deduct(m) \in [Remotes -> Nat]
  BY <1>1, <1>2, <1>3, Accepted, Contents
<1>5. /\ transferredBalances \in [Remotes -> Nat] /\ transferredBalances' \in [Remotes -> Nat]
      /\ homeBalance \in Nat /\ InitialReserve \in [Remotes -> Nat]
  BY <1>1, RemoteAssumption DEF TypeOK
<1>6. a > 0 /\ h \in Nat /\ h <= Backing(r, a) /\ Backing(r, a) \in Nat
  BY <1>3, <1>4, Paid DEF HomeAmount
<1>7. f \in Nat
  BY <1>4, ScaleType, ScaledType DEF HomeFee
<1>8. CASE ~Hops
  <2>1. transferredBalances' = Deduct(m) /\ Withdraw(HomeAmount(m))
    BY <1>8 DEF ReceiveMultiHop
  <2> QED BY <1>2, <2>1, BridgePaysOut
<1>9. CASE Hops
  <2>1. /\ transferredBalances' = [Deduct(m) EXCEPT ![d] = @ + s]
        /\ homeBalance' = homeBalance - f
        /\ Open(d) /\ s > 0
    BY <1>9 DEF ReceiveMultiHop, PayAt, Withdraw
  <2>2. h > f /\ h - f \in Nat
    <3>1. h > f
      BY <1>2, <2>1 DEF CoversFee
    <3> HIDE DEF h, f
    <3> QED BY <1>6, <1>7, <3>1
  <2>3. s \in Nat /\ Backing(d, s) \in Nat /\ Backing(d, s) <= h - f
    BY <1>4, <2>2, SentOn DEF Routed
  <2>4. CASE d # r
    <3> HIDE DEF r, d, a, h, f, s, Hops
    <3>1. /\ transferredBalances'[r] = transferredBalances[r] - a
          /\ transferredBalances'[d] = transferredBalances[d] + s
          /\ \A x \in Remotes \ {r, d} : transferredBalances'[x] = transferredBalances[x]
      BY <1>4, <1>5, <2>1, <2>4
    <3>2. BookNotes' = [BookNotes EXCEPT ![r] = BookNotes'[r], ![d] = BookNotes'[d]]
      BY <3>1 DEF BookNotes
    <3>3. /\ transferredBalances[r] \in Nat /\ InitialReserve[r] \in Nat
          /\ transferredBalances[d] \in Nat /\ InitialReserve[d] \in Nat
      BY <1>4, <1>5
    <3>4. /\ BookNotes'[r] \in InitialReserve[r]..(BookNotes[r] - 1)
          /\ BookNotes[r] - BookNotes'[r] = a
          /\ BookNotes'[d] > BookNotes[d]
          /\ BookNotes'[d] - BookNotes[d] = s
      BY <1>3, <1>4, <1>6, <2>1, <2>3, <3>1, <3>3 DEF BookNotes
    <3>5. /\ homeBalance' <= homeBalance
          /\ homeBalance' >= homeBalance - Backing(r, BookNotes[r] - BookNotes'[r])
                               + Backing(d, BookNotes'[d] - BookNotes[d])
      BY <1>5, <1>6, <1>7, <2>1, <2>2, <2>3, <3>4
    <3>6. Bridge!Convert(r, d)
      BY <1>2, <1>3, <1>4, <2>1, <2>4, <3>2, <3>4, <3>5, NotesAreBooked, <1>1
      DEF Bridge!Convert, Bridge!Usable, Open
    <3> QED BY <1>4, <3>6 DEF Bridge!BridgeNext
  <2>5. CASE d = r
    <3>1. s \in 0..a /\ f <= Backing(r, a - s)
      BY <1>4, <2>2, <2>5, BackAgain DEF Routed, HomeAmount, HomeFee
    <3>2. r \in ForeignRemotes
      BY <1>2, <1>4, <2>5 DEF HopsOn, OurRemotes
    <3>3. a - s \in Nat /\ Backing(r, a - s) \in Nat /\ Backing(r, 0) = 0
      BY <1>4, <3>1, BackingType
    <3> HIDE DEF r, d, a, h, f, s, Hops
    <3>4. /\ transferredBalances'[r] = transferredBalances[r] - a + s
          /\ \A x \in Remotes \ {r} : transferredBalances'[x] = transferredBalances[x]
      BY <1>4, <1>5, <2>1, <2>5
    <3>5. transferredBalances[r] \in Nat
          /\ transferredBalances[r] - transferredBalances'[r] = a - s
      BY <1>4, <1>5, <2>3, <3>4
    <3>6. CASE s = a
      <4>1. f = 0
        BY <1>4, <1>7, <3>1, <3>3, <3>6
      <4>2. homeBalance' = homeBalance
        BY <1>5, <2>1, <4>1
      <4>3. transferredBalances' = transferredBalances
        <5>1. \A x \in Remotes : transferredBalances'[x] = transferredBalances[x]
          BY <1>4, <3>4, <3>5, <3>6
        <5> QED BY <1>5, <5>1
      <4> QED BY <1>1, <1>2, <4>2, <4>3, BridgeStutters DEF homeVars
    <3>7. CASE s # a /\ f > 0
      <4>1. transferredBalances'[r] < transferredBalances[r]
        BY <1>4, <2>3, <3>1, <3>4, <3>5, <3>7
      <4>2. homeBalance' >= homeBalance - Backing(r, transferredBalances[r] - transferredBalances'[r])
            /\ homeBalance' < homeBalance
        BY <1>5, <1>7, <2>1, <3>1, <3>3, <3>5, <3>7
      <4> QED BY <1>1, <1>2, <1>3, <1>4, <3>4, <4>1, <4>2, BridgeRedeems
    <3>8. CASE s # a /\ f = 0
      <4>1. transferredBalances'[r] < transferredBalances[r]
        BY <1>4, <2>3, <3>1, <3>4, <3>5, <3>8
      <4>2. homeBalance' = homeBalance
        BY <1>5, <2>1, <3>8
      <4> QED BY <1>1, <1>2, <1>4, <3>2, <3>4, <4>1, <4>2, BridgeForfeits
    <3> QED BY <1>7, <3>6, <3>7, <3>8
  <2> QED BY <2>4, <2>5
<1> QED BY <1>8, <1>9

\* Only a send of a remote itself puts a second hop of it under way, and it goes elsewhere.
LEMMA HopsOnKept ==
  ASSUME Inv, HopsOn, [Next]_vars
  PROVE  HopsOn'
<1>1. /\ toHome \in [DOMAIN toHome -> Nat \ {0}]
      /\ OurRemotes = Remotes \ ForeignRemotes
  BY DEF Inv, TypeOK, OurRemotes
<1>2. SUFFICES ASSUME NEW m \in DOMAIN toHome' \ DOMAIN toHome,
                      m.messageType = "MULTI_HOP", m.from \in OurRemotes
               PROVE  m.destination # m.from
  BY DEF HopsOn
<1>3. \A n : toHome' = BagAdd(toHome, n) => m = n
  <2> SUFFICES ASSUME NEW n, toHome' = BagAdd(toHome, n) PROVE m = n
    OBVIOUS
  <2>1. DOMAIN toHome' = DOMAIN toHome \cup {n}
    BY <1>1, BagAddFacts
  <2> QED BY <2>1, <1>2
<1>4. \A n \in DOMAIN toHome : toHome' # BagRemove(toHome, n)
  <2> SUFFICES ASSUME NEW n \in DOMAIN toHome, toHome' = BagRemove(toHome, n) PROVE FALSE
    OBVIOUS
  <2>1. DOMAIN toHome' \subseteq DOMAIN toHome
    BY <1>1, BagRemoveFacts
  <2> QED BY <2>1, <1>2
<1>5. toHome' # toHome
  BY <1>2
<1>6. \A r : toHome' # BagAdd(toHome, RegisterRemote(r))
  BY <1>2, <1>3 DEF RegisterRemote
<1>7. \A r, amount : toHome' # BagAdd(toHome, SingleHop(r, amount))
  BY <1>2, <1>3 DEF SingleHop
<1>8. CASE HomeStep
  BY <1>4, <1>5, <1>8
  DEF HomeStep, HomeSend, AddCollateral, ReceiveRegisterRemote, ReceiveSingleHop, ReceiveMultiHop
<1>9. ASSUME NEW r \in OurRemotes, RemoteStep(r) PROVE m.destination # m.from
  <2>1. ~RegisterWithHome(r) /\ ~ReportBurnedTxFees(r)
    BY <1>6, <1>7 DEF RegisterWithHome, ReportBurnedTxFees
  <2>2. \A amount : ~Send(r, amount) /\ ~BurnTxFees(r, amount)
    BY <1>5, <1>7 DEF Send, BurnTxFees
  <2>3. PICK amount \in Amounts, fee \in SecondaryFees, destination \in Remotes :
          SendMultiHop(r, amount, fee, destination)
    BY <1>9, <2>1, <2>2 DEF RemoteStep
  <2>4. destination # r /\ m = MultiHop(r, amount, fee, destination)
    BY <1>3, <2>3 DEF SendMultiHop
  <2> QED BY <2>4 DEF MultiHop
<1>10. ASSUME NEW r \in ForeignRemotes, ForeignStep(r) PROVE FALSE
  <2>1. ~RegisterWithHome(r)
    BY <1>6 DEF RegisterWithHome
  <2>2. \A amount : ~ForeignSend(SingleHop(r, amount))
    BY <1>7 DEF ForeignSend
  <2>3. PICK amount \in Amounts, fee \in SecondaryFees, destination \in Remotes :
          ForeignSend(MultiHop(r, amount, fee, destination))
    BY <1>10, <2>1, <2>2 DEF ForeignStep
  <2>4. m = MultiHop(r, amount, fee, destination)
    BY <1>3, <2>3 DEF ForeignSend
  <2> QED BY <1>1, <1>2, <2>4 DEF MultiHop
<1>11. ASSUME NEW n \in DOMAIN toRemotes, ReceiveFromHome(n) \/ ForeignReceive(n) PROVE FALSE
  BY <1>5, <1>11 DEF ReceiveFromHome, ForeignReceive
<1>12. CASE UNCHANGED vars
  BY <1>5, <1>12 DEF vars
<1> QED BY <1>8, <1>9, <1>10, <1>11, <1>12 DEF Next

\* At first the home knows nobody, holds nothing, and the notes are the reserves.
LEMMA BridgeStarts == Init => Bridge!BridgeInit
<1> SUFFICES ASSUME Init PROVE Bridge!BridgeInit
  OBVIOUS
<1>1. Conserved
  BY InitInv DEF Inv
<1>2. BookNotes = InitialReserve
  <2>1. InitialReserve \in [Remotes -> Nat] /\ \A r \in Remotes : transferredBalances[r] = 0
    BY RemoteAssumption DEF Init
  <2>2. \A r \in Remotes : BookNotes[r] = InitialReserve[r]
    BY <2>1 DEF BookNotes
  <2> QED BY <2>1, <2>2 DEF BookNotes
<1>3. /\ homeBalance = 0 /\ collateralNeeded = [r \in Remotes |-> 0]
      /\ {r \in Remotes : registered[r]} = {}
  BY DEF Init
<1> QED BY <1>1, <1>2, <1>3, NotesAreBooked DEF Bridge!BridgeInit

\* Every step is a step of the bridge or one that it does not see.
LEMMA BridgeSteps ==
  ASSUME Inv, Inv', HopsOn, [Next]_vars
  PROVE  [Bridge!BridgeNext]_Bridge!bridgeVars
<1> DEFINE Goal == Bridge!BridgeNext \/ UNCHANGED Bridge!bridgeVars
<1>1. /\ TypeOK /\ Conserved /\ Conserved' /\ Amounts \subseteq Nat
      /\ \A m \in DOMAIN toHome : m.from \in Remotes
  BY Contents, RemoteAssumption DEF Inv, TypeOK, AllMessages
<1>2. CASE UNCHANGED homeVars
  BY <1>1, <1>2, BridgeStutters
<1>3. ASSUME NEW r \in Remotes, NEW amount \in Amounts, HomeSend(r, amount) PROVE Goal
  BY <1>1, <1>3, BridgeIssues
<1>4. ASSUME NEW r \in Remotes, NEW amount \in Amounts, AddCollateral(r, amount) PROVE Goal
  BY <1>1, <1>4, BridgeBacks
<1>5. ASSUME NEW m \in DOMAIN toHome, ReceiveRegisterRemote(m) PROVE Goal
  BY <1>1, <1>5, BridgeKnows
<1>6. ASSUME NEW m \in DOMAIN toHome, ReceiveSingleHop(m) PROVE Goal
  BY <1>6, BridgePaysOut DEF ReceiveSingleHop
<1>7. ASSUME NEW m \in DOMAIN toHome, ReceiveMultiHop(m) PROVE Goal
  BY <1>7, BridgeConverts
<1>8. HomeStep \/ UNCHANGED homeVars
  BY DEF Next, RemoteStep, ForeignStep, RegisterWithHome, ReportBurnedTxFees, Send, SendMultiHop,
         PrepareSend, BurnTxFees, ForeignSend, ReceiveFromHome, ForeignReceive, vars
<1>9. Goal
  <2> HIDE DEF Goal
  <2> QED BY <1>2, <1>3, <1>4, <1>5, <1>6, <1>7, <1>8 DEF HomeStep, Goal
<1> QED BY <1>9

\* Together the contracts are a bridge: they implement TokenBridge.
THEOREM Refinement == Spec => BridgeSpec
<1> DEFINE Strong == Inv /\ HopsOn
<1>1. Init => Strong
  BY InitInv DEF Init, HopsOn, NoMessages
<1>2. Strong /\ [Next]_vars => Strong'
  BY NextInv, HopsOnKept
<1>3. Init => Bridge!BridgeInit
  BY BridgeStarts
<1>4. Strong /\ Strong' /\ [Next]_vars => [Bridge!BridgeNext]_Bridge!bridgeVars
  BY BridgeSteps
<1> QED BY <1>1, <1>2, <1>3, <1>4, PTL DEF Spec, BridgeSpec, Bridge!Bridge
=============================================================================
