-------------------------- MODULE ArithmeticProofs --------------------------
(***************************************************************************)
(* Facts about numbers that the proofs share: least elements, remainders,  *)
(* powers of two, finite sums, the bytes of framed records and functions   *)
(* defined by recursion.                                                   *)
(***************************************************************************)
EXTENDS PowersOfTwo, Framing, FiniteSetTheorems, WellFoundedInduction, TLAPS

(* A set of natural numbers has a least element. *)
LEMMA LeastNat ==
  ASSUME NEW T \in SUBSET Nat, T # {}
  PROVE  \E x \in T : \A y \in T : x <= y
<1> DEFINE R == OpToRel(<, Nat)
<1>1. IsWellFoundedOn(R, Nat)
  BY NatLessThanWellFounded
<1>2. PICK x \in T : \A y \in T : ~(<<y, x>> \in R)
  <2> HIDE DEF R
  <2> QED BY <1>1, WFMin
<1>3. \A y \in T : ~(y < x)
  <2> SUFFICES ASSUME NEW y \in T, y < x
               PROVE  <<y, x>> \in R
    BY <1>2
  <2> QED BY DEF OpToRel
<1> QED BY <1>3

-----------------------------------------------------------------------------
(* Division with remainder. *)
LEMMA DivMod ==
  ASSUME NEW x \in Int, NEW d \in Nat, d > 0
  PROVE  /\ x \div d \in Int
         /\ x % d \in 0 .. d - 1
         /\ x = d * (x \div d) + (x % d)
OBVIOUS

(* The remainder is unique. *)
LEMMA ModUnique ==
  ASSUME NEW x \in Int, NEW d \in Nat, d > 0,
         NEW q \in Int, NEW r \in 0 .. d - 1, x = d * q + r
  PROVE  x % d = r
OBVIOUS

(* A number that another divides, as a multiple of it. *)
LEMMA Divides ==
  ASSUME NEW x \in Nat, NEW d \in Nat, d > 0
  PROVE  x % d = 0 <=> \E q \in Nat : x = d * q
<1>1. ASSUME x % d = 0
      PROVE  \E q \in Nat : x = d * q
  <2>1. x = d * (x \div d) /\ x \div d \in Int
    BY <1>1, DivMod
  <2>2. x \div d >= 0
    BY <2>1
  <2> QED BY <2>1, <2>2
<1>2. ASSUME NEW q \in Nat, x = d * q
      PROVE  x % d = 0
  BY <1>2, ModUnique
<1> QED BY <1>1, <1>2

(* Where c divides s, a remainder by c survives a remainder by s: the slot *)
(* of an index does not change when the index wraps.                       *)
LEMMA ModOfMod ==
  ASSUME NEW c \in Nat, NEW s \in Nat, c > 0, s > 0, s % c = 0, NEW x \in Int
  PROVE  (x % s) % c = x % c
<1>1. PICK k \in Nat : s = c * k
  BY Divides
<1> DEFINE q == x \div s
           p == (x % s) \div c
<1>2. q \in Int /\ x % s \in Int /\ x = s * q + (x % s)
  BY DivMod
<1>3. p \in Int /\ (x % s) % c \in 0 .. c - 1
      /\ x % s = c * p + ((x % s) % c)
  BY <1>2, DivMod
<1> HIDE DEF q, p
<1>4. s * q = c * (k * q)
  BY <1>1, <1>2
<1>5. c * (k * q) + c * p = c * (k * q + p)
  BY <1>1, <1>2, <1>3
<1>6. x = c * (k * q + p) + ((x % s) % c)
  BY <1>2, <1>3, <1>4, <1>5
<1> DEFINE z == k * q + p
           r == (x % s) % c
<1>7. z \in Int /\ r \in 0 .. c - 1 /\ x = c * z + r
  BY <1>1, <1>2, <1>3, <1>6
<1> HIDE DEF z, r
<1>8. x % c = r
  BY <1>7, ModUnique
<1> QED BY <1>8 DEF r

(* Numbers less than c apart have different remainders. *)
LEMMA ModApart ==
  ASSUME NEW c \in Nat, c > 0, NEW x \in Int, NEW k \in 1 .. c - 1
  PROVE  (x + k) % c # x % c
<1> SUFFICES ASSUME (x + k) % c = x % c
             PROVE  FALSE
  OBVIOUS
<1> DEFINE p == (x + k) \div c
           q == x \div c
<1>1. p \in Int /\ x % c \in Int /\ x + k = c * p + (x % c)
  BY DivMod
<1>2. q \in Int /\ x = c * q + (x % c)
  BY DivMod
<1> HIDE DEF p, q
<1>3. k = c * p - c * q
  BY <1>1, <1>2
<1>4. k = c * (p - q)
  BY <1>1, <1>2, <1>3
<1>5. CASE p - q >= 1
  BY <1>1, <1>2, <1>4, <1>5
<1>6. CASE p - q <= 0
  BY <1>1, <1>2, <1>4, <1>6
<1> QED BY <1>1, <1>2, <1>5, <1>6

-----------------------------------------------------------------------------
(* Powers of two. *)

(* Half of a power of two other than 1 is a whole power of two. *)
LEMMA HalfOfPower ==
  ASSUME NEW a \in Nat, IsPowerOfTwo(a), a # 1
  PROVE  \E h \in Nat : a = 2 * h /\ IsPowerOfTwo(h)
<1>1. a % 2 = 0
  <2>1. a % a = 0
    BY DEF IsPowerOfTwo
  <2> QED BY <2>1 DEF IsPowerOfTwo
<1>2. PICK h \in Nat : a = 2 * h
  BY <1>1
<1>3. h >= 1
  BY <1>2 DEF IsPowerOfTwo
<1>4. ASSUME NEW d \in 1 .. h, h % d = 0
      PROVE  d = 1 \/ d % 2 = 0
  <2>1. PICK q \in Nat : h = d * q
    BY <1>4, Divides
  <2>2. a = d * (2 * q)
    BY <1>2, <2>1
  <2>3. a % d = 0
    BY <2>2, ModUnique
  <2> QED BY <1>2, <2>3 DEF IsPowerOfTwo
<1> QED BY <1>2, <1>3, <1>4 DEF IsPowerOfTwo

(* The double of a power of two is one. *)
LEMMA DoubleOfPower ==
  ASSUME NEW h \in Nat, IsPowerOfTwo(h)
  PROVE  IsPowerOfTwo(2 * h)
<1> SUFFICES ASSUME NEW d \in 1 .. 2 * h, (2 * h) % d = 0, d % 2 # 0
             PROVE  d = 1
  BY DEF IsPowerOfTwo
<1>1. PICK q \in Nat : 2 * h = d * q
  <2>1. 2 * h \in Nat /\ d \in Nat /\ d > 0
    OBVIOUS
  <2> DEFINE x == 2 * h
  <2>2. x \in Nat /\ x % d = 0
    BY <2>1
  <2> HIDE DEF x
  <2>3. \E q \in Nat : x = d * q
    BY <2>1, <2>2, Divides
  <2> QED BY <2>3 DEF x
<1>2. PICK e \in Nat : d = 2 * e + 1
  OBVIOUS
<1>3. 2 * h = 2 * (e * q) + q
  BY <1>1, <1>2
<1>4. e * q \in Nat /\ q = 2 * (h - e * q)
  BY <1>1, <1>2, <1>3
<1>5. PICK m \in Nat : q = 2 * m
  <2>1. h - e * q \in Nat
    BY <1>4
  <2> QED BY <1>4, <2>1
<1>6. h = d * m
  BY <1>1, <1>5
<1>7. h % d = 0
  <2>1. d \in Nat /\ d > 0
    OBVIOUS
  <2> QED BY <1>5, <1>6, <2>1, Divides
<1>8. d <= h
  <2>1. m # 0
    BY <1>6 DEF IsPowerOfTwo
  <2> QED BY <1>5, <1>6, <2>1
<1> QED BY <1>7, <1>8 DEF IsPowerOfTwo

(* Among n and the numbers below its double there is a power of two. *)
LEMMA PowerAtLeast ==
  ASSUME NEW n \in Nat, n >= 1
  PROVE  \E c \in n .. 2 * n - 1 : IsPowerOfTwo(c)
<1> DEFINE P(m) == \E c \in m .. 2 * m - 1 : IsPowerOfTwo(c)
           T == {m \in Nat : m >= 1 /\ ~P(m)}
<1>1. SUFFICES T = {}
  OBVIOUS
<1>2. SUFFICES ASSUME T # {}
               PROVE  FALSE
  OBVIOUS
<1>3. PICK m \in T : \A y \in T : m <= y
  BY <1>2, LeastNat
<1>4. m # 1
  BY DEF IsPowerOfTwo
<1>5. PICK c \in m - 1 .. 2 * (m - 1) - 1 : IsPowerOfTwo(c)
  BY <1>3, <1>4
<1>6. CASE c >= m
  BY <1>5, <1>6
<1>7. CASE c = m - 1
  BY <1>4, <1>5, <1>7, DoubleOfPower
<1> QED BY <1>5, <1>6, <1>7

(* A power of two divides every larger one. *)
LEMMA PowersDivide ==
  ASSUME NEW a \in Nat, NEW b \in Nat, IsPowerOfTwo(a), IsPowerOfTwo(b),
         a <= b
  PROVE  b % a = 0
<1> DEFINE T == {x \in Nat : /\ IsPowerOfTwo(x)
                             /\ \E y \in Nat : /\ IsPowerOfTwo(y) /\ x <= y
                                               /\ y % x # 0}
<1>1. SUFFICES T = {}
  OBVIOUS
<1>2. SUFFICES ASSUME T # {}
               PROVE  FALSE
  OBVIOUS
<1>3. PICK x \in T : \A z \in T : x <= z
  BY <1>2, LeastNat
<1>4. PICK y \in Nat : IsPowerOfTwo(y) /\ x <= y /\ y % x # 0
  BY <1>3
<1>5. x \in Nat /\ x >= 1 /\ IsPowerOfTwo(x)
  BY DEF IsPowerOfTwo
<1>6. x # 1 /\ y # 1
  BY <1>4, <1>5
<1>7. PICK h \in Nat : x = 2 * h /\ IsPowerOfTwo(h)
  BY <1>5, <1>6, HalfOfPower
<1>8. PICK g \in Nat : y = 2 * g /\ IsPowerOfTwo(g)
  BY <1>4, <1>6, HalfOfPower
<1>9. h >= 1 /\ h <= g /\ h < x
  BY <1>4, <1>5, <1>7, <1>8 DEF IsPowerOfTwo
<1>10. g % h = 0
  BY <1>3, <1>7, <1>8, <1>9
<1>11. PICK q \in Nat : g = h * q
  <2>1. h > 0
    BY <1>9
  <2> QED BY ONLY <1>7, <1>8, <1>10, <2>1, Divides
<1>12. y = x * q
  BY <1>7, <1>8, <1>11
<1>13. y % x = 0
  BY <1>5, <1>12, ModUnique
<1> QED BY <1>4, <1>13

-----------------------------------------------------------------------------
(* The recursion of a sum: g adds up f over every subset of S. *)
SumsUp(g, f, S) ==
  /\ g \in [SUBSET S -> Int]
  /\ \A T \in SUBSET S :
       g[T] = IF T = {} THEN 0
              ELSE LET x == CHOOSE x \in T : TRUE IN f[x] + g[T \ {x}]

(* What the sum's definition unfolds to. *)
LEMMA SumDef ==
  ASSUME NEW f, NEW S
  PROVE SumFunctionOnSet(f, S) =
    (CHOOSE g : g = [T \in SUBSET S |-> IF T = {} THEN 0
              ELSE LET x == CHOOSE x \in T : TRUE IN f[x] + g[T \ {x}]])[S]
BY DEF SumFunctionOnSet, FoldFunctionOnSet, MapThenFoldSet

(* Such a g exists: it can be given for the subsets of at most n elements, *)
(* for every n.                                                            *)
LEMMA SumsExist ==
  ASSUME NEW S, IsFiniteSet(S), NEW f, \A x \in S : f[x] \in Int
  PROVE  \E g : SumsUp(g, f, S)
<1> DEFINE D(n) == {T \in SUBSET S : Cardinality(T) <= n}
           Rec(g, T) == IF T = {} THEN 0
                        ELSE LET x == CHOOSE x \in T : TRUE IN f[x] + g[T \ {x}]
           P(n) == \E g \in [D(n) -> Int] : \A T \in D(n) : g[T] = Rec(g, T)
           B == {n \in Nat : ~P(n)}
<1>1. \A T \in SUBSET S : /\ IsFiniteSet(T) /\ Cardinality(T) \in Nat
                          /\ Cardinality(T) <= Cardinality(S)
                          /\ Cardinality(T) = 0 <=> T = {}
  BY FS_Subset, FS_CardinalityType, FS_EmptySet
<1>2. P(0)
  <2> DEFINE g == [T \in D(0) |-> 0]
  <2>1. \A T \in D(0) : T = {} /\ g[T] = 0
    BY <1>1
  <2>2. g \in [D(0) -> Int]
    <3> HIDE DEF D
    <3> QED OBVIOUS
  <2> HIDE DEF g, D
  <2>3. \A T \in D(0) : g[T] = Rec(g, T)
    BY <2>1
  <2> QED BY <2>2, <2>3
<1>3. ASSUME NEW n \in Nat, P(n)
      PROVE  P(n + 1)
  <2>1. PICK g \in [D(n) -> Int] : \A T \in D(n) : g[T] = Rec(g, T)
    BY <1>3
  <2> DEFINE h == [T \in D(n + 1) |-> Rec(g, T)]
  <2>2. ASSUME NEW T \in D(n + 1), T # {}, NEW x, x = CHOOSE y \in T : TRUE
        PROVE  x \in S /\ T \ {x} \in D(n)
    <3>1. x \in T
      BY <2>2
    <3>2. T \in SUBSET S /\ IsFiniteSet(T) /\ Cardinality(T) <= n + 1 /\ Cardinality(T) \in Nat
      BY <1>1
    <3>3. Cardinality(T \ {x}) = Cardinality(T) - 1
      BY <3>1, <3>2, FS_RemoveElement
    <3> QED BY <3>1, <3>2, <3>3
  <2>3. ASSUME NEW T \in D(n + 1)
        PROVE  Rec(g, T) \in Int
    <3>1. CASE T = {}
      BY <3>1
    <3>2. CASE T # {}
      <4> DEFINE x == CHOOSE x \in T : TRUE
      <4>1. x \in S /\ T \ {x} \in D(n)
        BY <2>2, <3>2
      <4>2. Rec(g, T) = f[x] + g[T \ {x}]
        BY <3>2
      <4> HIDE DEF x, D, Rec
      <4>3. f[x] \in Int /\ g[T \ {x}] \in Int
        BY <4>1
      <4> QED BY <4>2, <4>3
    <3> QED BY <3>1, <3>2
  <2>4. h \in [D(n + 1) -> Int]
    BY <2>3
  <2>5. D(n) \subseteq D(n + 1)
    BY <1>1
  <2>6. \A T \in D(n) : h[T] = g[T]
    BY <2>1, <2>5
  <2>7. ASSUME NEW T \in D(n + 1)
        PROVE  h[T] = Rec(h, T)
    <3>1. h[T] = Rec(g, T)
      OBVIOUS
    <3>2. CASE T = {}
      BY <3>1, <3>2
    <3>3. CASE T # {}
      <4> DEFINE x == CHOOSE x \in T : TRUE
      <4>1. T \ {x} \in D(n)
        BY <2>2, <3>3
      <4>2. h[T \ {x}] = g[T \ {x}]
        BY <2>6, <4>1
      <4> HIDE DEF h, D
      <4> QED BY <3>1, <3>3, <4>2
    <3> QED BY <3>2, <3>3
  <2> HIDE DEF h, D, Rec
  <2> QED BY <2>4, <2>7
<1>4. B = {}
  <2> SUFFICES ASSUME B # {} PROVE FALSE
    OBVIOUS
  <2> HIDE DEF P
  <2>1. PICK n \in B : \A m \in B : n <= m
    BY LeastNat
  <2>2. n # 0 /\ n \in Nat
    BY <1>2
  <2>3. P(n - 1)
    BY <2>1, <2>2
  <2>4. P((n - 1) + 1)
    BY <2>2, <2>3, <1>3
  <2> QED BY <2>2, <2>4
<1>5. Cardinality(S) \in Nat
  BY FS_CardinalityType
<1>6. P(Cardinality(S))
  <2> HIDE DEF P
  <2> QED BY <1>4, <1>5
<1>7. D(Cardinality(S)) = SUBSET S
  BY <1>1
<1> QED BY <1>6, <1>7 DEF SumsUp

(* The sum is a value of such a g. *)
LEMMA SumIsSum ==
  ASSUME NEW S, IsFiniteSet(S), NEW f, \A x \in S : f[x] \in Int
  PROVE  \E g : SumsUp(g, f, S) /\ SumFunctionOnSet(f, S) = g[S]
<1> DEFINE R(g) == [T \in SUBSET S |-> IF T = {} THEN 0
              ELSE LET x == CHOOSE x \in T : TRUE IN f[x] + g[T \ {x}]]
           h == CHOOSE g : g = R(g)
<1>1. PICK g : SumsUp(g, f, S)
  BY SumsExist
<1>2. g = R(g)
  <2>1. g = [T \in SUBSET S |-> g[T]]
    BY <1>1 DEF SumsUp
  <2>2. \A T \in SUBSET S : g[T] = R(g)[T]
    BY <1>1 DEF SumsUp
  <2> QED BY <2>1, <2>2
<1>3. h = R(h)
  <2> HIDE DEF R
  <2> QED BY <1>2
<1>4. SumFunctionOnSet(f, S) = h[S]
  BY SumDef
<1> HIDE DEF h
<1>5. \A T \in SUBSET S : 
       h[T] = IF T = {} THEN 0
              ELSE LET x == CHOOSE x \in T : TRUE IN f[x] + h[T \ {x}]
  BY <1>3
<1>6. \A T \in SUBSET S : h[T] = g[T]
  <2> DEFINE B == {n \in Nat : \E T \in SUBSET S : Cardinality(T) = n /\ h[T] # g[T]}
  <2>1. SUFFICES ASSUME B # {} PROVE FALSE
    BY FS_Subset, FS_CardinalityType
  <2>2. PICK n \in B : \A m \in B : n <= m
    BY <2>1, LeastNat
  <2>3. PICK T \in SUBSET S : Cardinality(T) = n /\ h[T] # g[T]
    BY <2>2
  <2> DEFINE x == CHOOSE x \in T : TRUE
  <2>4. T # {}
    BY <1>1, <1>5, <2>3 DEF SumsUp
  <2>5. x \in T /\ IsFiniteSet(T) /\ n \in Nat
    BY <2>4, FS_Subset
  <2>6. Cardinality(T \ {x}) = n - 1 /\ Cardinality(T \ {x}) \in Nat
    BY <2>3, <2>5, FS_RemoveElement, FS_CardinalityType
  <2>7. h[T \ {x}] = g[T \ {x}]
    BY <2>2, <2>5, <2>6
  <2>8. h[T] = f[x] + h[T \ {x}] /\ g[T] = f[x] + g[T \ {x}]
    BY <1>1, <1>5, <2>4 DEF SumsUp
  <2> QED BY <2>3, <2>7, <2>8
<1> QED BY <1>1, <1>4, <1>6

(* A sum's recursion, at the set itself. *)
LEMMA SumRec ==
  ASSUME NEW S, IsFiniteSet(S), NEW f, \A x \in S : f[x] \in Int
  PROVE  /\ SumFunctionOnSet(f, S) \in Int
         /\ S = {} => SumFunctionOnSet(f, S) = 0
         /\ S # {} => LET x == CHOOSE x \in S : TRUE
                      IN  SumFunctionOnSet(f, S)
                            = f[x] + SumFunctionOnSet(f, S \ {x})
<1>1. PICK g : SumsUp(g, f, S) /\ SumFunctionOnSet(f, S) = g[S]
  BY SumIsSum
<1>2. SumFunctionOnSet(f, S) \in Int /\ (S = {} => SumFunctionOnSet(f, S) = 0)
  BY <1>1 DEF SumsUp
<1>3. ASSUME S # {}, NEW x, x = CHOOSE y \in S : TRUE
      PROVE  SumFunctionOnSet(f, S) = f[x] + SumFunctionOnSet(f, S \ {x})
  <2> DEFINE U == S \ {x}
  <2>1. IsFiniteSet(U) /\ U \subseteq S
    BY FS_Subset
  <2>2. PICK h : SumsUp(h, f, U) /\ SumFunctionOnSet(f, U) = h[U]
    BY <2>1, SumIsSum
  <2>3. \A T \in SUBSET U : g[T] = h[T]
    <3> DEFINE B == {n \in Nat : \E T \in SUBSET U :
                                   Cardinality(T) = n /\ h[T] # g[T]}
    <3>1. SUFFICES ASSUME B # {} PROVE FALSE
      BY <2>1, FS_Subset, FS_CardinalityType
    <3>2. PICK n \in B : \A m \in B : n <= m
      BY <3>1, LeastNat
    <3>3. PICK T \in SUBSET U : Cardinality(T) = n /\ h[T] # g[T]
      BY <3>2
    <3> DEFINE y == CHOOSE y \in T : TRUE
    <3>4. T \in SUBSET S /\ T # {}
      BY <1>1, <2>2, <3>3 DEF SumsUp
    <3>5. y \in T /\ IsFiniteSet(T) /\ n \in Nat
      BY <3>4, FS_Subset
    <3>6. Cardinality(T \ {y}) = n - 1 /\ Cardinality(T \ {y}) \in Nat
      <4> HIDE DEF y
      <4>1. IsFiniteSet(T \ {y}) /\ Cardinality(T \ {y}) = Cardinality(T) - 1
        BY ONLY <3>5, FS_RemoveElement
      <4>2. Cardinality(T \ {y}) \in Nat
        BY ONLY <4>1, FS_CardinalityType
      <4> QED BY ONLY <4>1, <4>2, <3>3
    <3>7. h[T \ {y}] = g[T \ {y}]
      BY <3>2, <3>5, <3>6
    <3>8. h[T] = f[y] + h[T \ {y}] /\ g[T] = f[y] + g[T \ {y}]
      BY <1>1, <2>2, <3>4 DEF SumsUp
    <3> QED BY <3>3, <3>7, <3>8
  <2>4. g[S] = f[x] + g[U]
    BY <1>1, <1>3 DEF SumsUp
  <2> QED BY <1>1, <2>2, <2>3, <2>4
<1> QED BY <1>2, <1>3

(* The sum over no index is 0. *)
LEMMA SumEmpty == ASSUME NEW f PROVE SumFunctionOnSet(f, {}) = 0
BY FS_EmptySet, SumRec

(* The sum of integers is one. *)
LEMMA SumType ==
  ASSUME NEW S, IsFiniteSet(S), NEW f, \A x \in S : f[x] \in Int
  PROVE  SumFunctionOnSet(f, S) \in Int
BY SumRec

(* Any index can be taken out of a sum. *)
LEMMA SumTake ==
  ASSUME NEW S, IsFiniteSet(S), NEW f, \A y \in S : f[y] \in Int, NEW x \in S
  PROVE  SumFunctionOnSet(f, S) = f[x] + SumFunctionOnSet(f, S \ {x})
<1> DEFINE Sum(T) == SumFunctionOnSet(f, T)
           B == {n \in Nat : \E T \in SUBSET S : \E y \in T :
                   Cardinality(T) = n /\ Sum(T) # f[y] + Sum(T \ {y})}
<1> HIDE DEF Sum
<1>1. SUFFICES ASSUME B # {} PROVE FALSE
  BY FS_CardinalityType DEF Sum
<1>2. PICK n \in B : \A m \in B : n <= m
  BY <1>1, LeastNat
<1>3. PICK T \in SUBSET S : \E y \in T :
        Cardinality(T) = n /\ Sum(T) # f[y] + Sum(T \ {y})
  BY <1>2
<1>4. PICK y \in T : Cardinality(T) = n /\ Sum(T) # f[y] + Sum(T \ {y})
  BY <1>3
<1> DEFINE c == CHOOSE c \in T : TRUE
<1>5. c \in T
  BY <1>4
<1>6. IsFiniteSet(T) /\ IsFiniteSet(T \ {y}) /\ IsFiniteSet(T \ {c})
  BY FS_Subset
<1>7. Sum(T) = f[c] + Sum(T \ {c})
  BY <1>4, <1>6, SumRec DEF Sum
<1>8. c # y
  BY <1>4, <1>7
<1> HIDE DEF c
<1>9. Cardinality(T \ {y}) = n - 1 /\ Cardinality(T \ {y}) \in Nat
      /\ Cardinality(T \ {c}) = n - 1 /\ Cardinality(T \ {c}) \in Nat
  BY <1>4, <1>5, <1>6, FS_RemoveElement, FS_CardinalityType
<1>10. n - 1 \notin B /\ n - 1 \in Nat
  BY <1>2, <1>9
<1>11. Sum(T \ {y}) = f[c] + Sum((T \ {y}) \ {c})
  <2>1. T \ {y} \in SUBSET S /\ c \in T \ {y}
    BY <1>5, <1>8
  <2> QED BY <1>9, <1>10, <2>1
<1>12. Sum(T \ {c}) = f[y] + Sum((T \ {c}) \ {y})
  <2>1. T \ {c} \in SUBSET S /\ y \in T \ {c}
    BY <1>4, <1>8
  <2> QED BY <1>9, <1>10, <2>1
<1>13. (T \ {c}) \ {y} = (T \ {y}) \ {c}
  OBVIOUS
<1>14. IsFiniteSet((T \ {y}) \ {c}) /\ Sum((T \ {y}) \ {c}) \in Int
  BY <1>6, FS_Subset, SumType DEF Sum
<1>15. f[c] \in Int /\ f[y] \in Int
  BY <1>5
<1> DEFINE z == Sum((T \ {y}) \ {c})
           fc == f[c]
           fy == f[y]
<1>16. z \in Int /\ fc \in Int /\ fy \in Int
  BY <1>14, <1>15
<1>17. /\ Sum(T) # fy + Sum(T \ {y})
       /\ Sum(T) = fc + Sum(T \ {c})
       /\ Sum(T \ {y}) = fc + z
       /\ Sum(T \ {c}) = fy + z
  BY <1>4, <1>7, <1>11, <1>12, <1>13
<1> HIDE DEF z, fc, fy
<1> QED BY ONLY <1>16, <1>17

(* Adding an index. *)
LEMMA SumAdd ==
  ASSUME NEW S, IsFiniteSet(S), NEW f, NEW x, x \notin S,
         \A y \in S \cup {x} : f[y] \in Int
  PROVE  SumFunctionOnSet(f, S \cup {x}) = f[x] + SumFunctionOnSet(f, S)
<1>1. IsFiniteSet(S \cup {x}) /\ (S \cup {x}) \ {x} = S
  BY FS_AddElement
<1> QED BY <1>1, SumTake

(* A sum depends only on the values it adds up. *)
LEMMA SumSame ==
  ASSUME NEW S, IsFiniteSet(S), NEW f, NEW g,
         \A x \in S : f[x] \in Int /\ g[x] = f[x]
  PROVE  SumFunctionOnSet(f, S) = SumFunctionOnSet(g, S)
<1> DEFINE F(T) == SumFunctionOnSet(f, T)
           G(T) == SumFunctionOnSet(g, T)
           B == {n \in Nat : \E T \in SUBSET S : Cardinality(T) = n /\ F(T) # G(T)}
<1> HIDE DEF F, G
<1>1. SUFFICES ASSUME B # {} PROVE FALSE
  BY FS_CardinalityType DEF F, G
<1>2. PICK n \in B : \A m \in B : n <= m
  BY <1>1, LeastNat
<1>3. PICK T \in SUBSET S : Cardinality(T) = n /\ F(T) # G(T)
  BY <1>2
<1>4. IsFiniteSet(T)
  BY FS_Subset
<1>5. T # {}
  BY <1>3, SumEmpty DEF F, G
<1>6. PICK x : x \in T
  BY <1>5
<1>7. F(T) = f[x] + F(T \ {x}) /\ G(T) = g[x] + G(T \ {x})
  BY <1>4, <1>6, SumTake DEF F, G
<1>8. Cardinality(T \ {x}) = n - 1 /\ Cardinality(T \ {x}) \in Nat
  BY <1>3, <1>4, <1>6, FS_RemoveElement, FS_CardinalityType
<1>9. F(T \ {x}) = G(T \ {x})
  BY <1>2, <1>8
<1>10. f[x] = g[x]
  BY <1>3, <1>6
<1> QED BY <1>3, <1>7, <1>9, <1>10

(* A sum of natural numbers is one, and no less than any of them. *)
LEMMA SumNat ==
  ASSUME NEW S, IsFiniteSet(S), NEW f, \A x \in S : f[x] \in Nat
  PROVE  /\ SumFunctionOnSet(f, S) \in Nat
         /\ \A x \in S : f[x] <= SumFunctionOnSet(f, S)
<1> DEFINE F(T) == SumFunctionOnSet(f, T)
           B == {n \in Nat : \E T \in SUBSET S : Cardinality(T) = n /\ F(T) \notin Nat}
<1> HIDE DEF F
<1>1. ASSUME B # {} PROVE FALSE
  <2>2. PICK n \in B : \A m \in B : n <= m
    BY <1>1, LeastNat
  <2>3. PICK T \in SUBSET S : Cardinality(T) = n /\ F(T) \notin Nat
    BY <2>2
  <2>4. IsFiniteSet(T)
    BY FS_Subset
  <2>5. T # {}
    BY <2>3, SumEmpty DEF F
  <2>6. PICK x : x \in T
    BY <2>5
  <2>7. F(T) = f[x] + F(T \ {x})
    BY <2>4, <2>6, SumTake DEF F
  <2>8. Cardinality(T \ {x}) = n - 1 /\ Cardinality(T \ {x}) \in Nat
    BY <2>3, <2>4, <2>6, FS_RemoveElement, FS_CardinalityType
  <2>9. F(T \ {x}) \in Nat
    BY <2>2, <2>8
  <2>10. f[x] \in Nat
    BY <2>6
  <2> QED BY <2>3, <2>7, <2>9, <2>10
<1>2. \A T \in SUBSET S : F(T) \in Nat
  BY <1>1, FS_Subset, FS_CardinalityType
<1>3. ASSUME NEW x \in S PROVE f[x] <= F(S)
  <2>1. F(S) = f[x] + F(S \ {x})
    BY SumTake DEF F
  <2>2. F(S \ {x}) \in Nat
    BY <1>2
  <2> QED BY <2>1, <2>2
<1> QED BY <1>2, <1>3 DEF F

(* The sum over two sets with no common element. *)
LEMMA SumUnion ==
  ASSUME NEW R, IsFiniteSet(R), NEW S, IsFiniteSet(S), R \cap S = {},
         NEW f, \A x \in R \cup S : f[x] \in Int
  PROVE  SumFunctionOnSet(f, R \cup S)
           = SumFunctionOnSet(f, R) + SumFunctionOnSet(f, S)
<1> DEFINE F(T) == SumFunctionOnSet(f, T)
           B == {n \in Nat : \E T \in SUBSET S :
                   Cardinality(T) = n /\ F(R \cup T) # F(R) + F(T)}
<1>0. \A T \in SUBSET S : /\ IsFiniteSet(T) /\ Cardinality(T) \in Nat
                          /\ IsFiniteSet(R \cup T)
                          /\ F(T) \in Int /\ F(R) \in Int
  BY FS_Subset, FS_CardinalityType, FS_Union, SumType
<1> HIDE DEF F
<1>1. SUFFICES ASSUME B # {} PROVE FALSE
  BY <1>0 DEF F
<1>2. PICK n \in B : \A m \in B : n <= m
  BY <1>1, LeastNat
<1>3. PICK T \in SUBSET S : Cardinality(T) = n /\ F(R \cup T) # F(R) + F(T)
  BY <1>2
<1>4. T # {}
  <2>1. R \cup {} = R /\ F({}) = 0
    BY SumEmpty DEF F
  <2>2. F(R) \in Int
    BY <1>0
  <2>3. F(R) + 0 = F(R)
    BY <2>2
  <2>4. ASSUME T = {} PROVE F(R \cup T) = F(R) + F(T)
    BY <2>1, <2>3, <2>4
  <2> QED BY <1>3, <2>4
<1>5. PICK x : x \in T
  BY <1>4
<1>6. /\ x \notin R /\ x \in R \cup T /\ (R \cup T) \ {x} = R \cup (T \ {x})
      /\ T \ {x} \in SUBSET S
  BY <1>5
<1>7. F(T) = f[x] + F(T \ {x})
  BY <1>0, <1>5, SumTake DEF F
<1>8. F(R \cup T) = f[x] + F(R \cup (T \ {x}))
  <2>1. \A y \in R \cup T : f[y] \in Int
    OBVIOUS
  <2> QED BY <1>0, <1>6, <2>1, SumTake DEF F
<1>9. Cardinality(T \ {x}) = n - 1 /\ Cardinality(T \ {x}) \in Nat
  BY <1>0, <1>3, <1>5, FS_RemoveElement
<1>10. F(R \cup (T \ {x})) = F(R) + F(T \ {x})
  <2>1. n \in Nat /\ ~(n <= n - 1)
    BY <1>2
  <2>2. n - 1 \notin B
    <3> HIDE DEF B
    <3> QED BY <1>2, <2>1
  <2> QED BY <2>2, <1>6, <1>9
<1>11. f[x] \in Int /\ F(R) \in Int /\ F(T \ {x}) \in Int
  BY <1>0, <1>5, <1>6
<1> DEFINE u == f[x]
           v == F(R)
           w == F(T \ {x})
<1>12. u \in Int /\ v \in Int /\ w \in Int /\ u + (v + w) # v + (u + w)
  BY <1>3, <1>7, <1>8, <1>10, <1>11
<1> HIDE DEF u, v, w
<1> QED BY <1>12

(* A sum of numbers up to M is at most M times their number. *)
LEMMA SumBound ==
  ASSUME NEW S, IsFiniteSet(S), NEW M \in Nat, NEW f, \A x \in S : f[x] \in 0 .. M
  PROVE  SumFunctionOnSet(f, S) <= M * Cardinality(S)
<1> DEFINE F(T) == SumFunctionOnSet(f, T)
           B == {n \in Nat : \E T \in SUBSET S : Cardinality(T) = n /\ ~(F(T) <= M * n)}
<1> HIDE DEF F
<1>1. SUFFICES ASSUME B # {} PROVE FALSE
  BY FS_CardinalityType DEF F
<1>2. PICK n \in B : \A m \in B : n <= m
  BY <1>1, LeastNat
<1>3. PICK T \in SUBSET S : Cardinality(T) = n /\ ~(F(T) <= M * n)
  BY <1>2
<1>4. IsFiniteSet(T) /\ n \in Nat
  BY FS_Subset
<1>5. T # {}
  <2>1. 0 <= M * n
    BY <1>4
  <2> QED BY <1>3, <2>1, SumEmpty DEF F
<1>6. PICK x : x \in T
  BY <1>5
<1>7. f[x] \in 0 .. M /\ \A y \in T : f[y] \in Int
  BY <1>6
<1>8. F(T) = f[x] + F(T \ {x})
  BY <1>4, <1>6, <1>7, SumTake DEF F
<1>9. Cardinality(T \ {x}) = n - 1 /\ Cardinality(T \ {x}) \in Nat
  BY <1>3, <1>4, <1>6, FS_RemoveElement, FS_CardinalityType
<1>10. F(T \ {x}) <= M * (n - 1)
  BY <1>2, <1>9
<1>11. F(T \ {x}) \in Int
  BY <1>4, <1>7, FS_Subset, SumType DEF F
<1> DEFINE y == F(T \ {x})
           z == f[x]
<1>12. y \in Int /\ y <= M * (n - 1) /\ z \in 0 .. M /\ ~(z + y <= M * n)
  BY <1>3, <1>7, <1>8, <1>10, <1>11
<1> HIDE DEF y, z
<1>13. M * (n - 1) = M * n - M /\ M * n \in Int
  BY <1>4
<1> QED BY <1>12, <1>13

-----------------------------------------------------------------------------
(* No records are no bytes. *)
LEMMA FramedNat ==
  ASSUME NEW f, IsFramed(f), NEW k \in 0 .. Len(f.frames)
  PROVE  BytesUpTo(f, 0) = 0 /\ BytesUpTo(f, k) \in Nat
<1> DEFINE B == [i \in 1 .. k |-> 2 + f.frames[i].len]
<1>1. Len(f.frames) \in Nat /\ \A i \in 1 .. Len(f.frames) : f.frames[i].len \in Nat
  BY DEF IsFramed
<1>2. BytesUpTo(f, k) = SumFunctionOnSet(B, 1 .. k)
  BY DEF BytesUpTo, SumFunction
<1>3. \A i \in 1 .. k : B[i] \in Nat
  BY <1>1
<1>4. IsFiniteSet(1 .. k)
  BY <1>1, FS_Interval
<1>5. BytesUpTo(f, 0) = 0
  <2>1. 1 .. 0 = {}
    OBVIOUS
  <2>2. BytesUpTo(f, 0) = SumFunctionOnSet([i \in 1 .. 0 |-> 2 + f.frames[i].len], 1 .. 0)
    BY DEF BytesUpTo, SumFunction
  <2> QED BY <2>1, <2>2, SumEmpty
<1> HIDE DEF B
<1> QED BY <1>2, <1>3, <1>4, <1>5, SumNat

(* Each record adds its prefix and its bytes. *)
LEMMA FramedStep ==
  ASSUME NEW f, IsFramed(f), NEW k \in 1 .. Len(f.frames)
  PROVE  BytesUpTo(f, k) = BytesUpTo(f, k - 1) + 2 + f.frames[k].len
<1> DEFINE B(n) == [i \in 1 .. n |-> 2 + f.frames[i].len]
<1>1. Len(f.frames) \in Nat /\ \A i \in 1 .. Len(f.frames) : f.frames[i].len \in Nat
  BY DEF IsFramed
<1>2. k \in Nat /\ k >= 1 /\ f.frames[k].len \in Nat /\ BytesUpTo(f, k - 1) \in Nat
  <2>1. k - 1 \in 0 .. Len(f.frames) /\ k \in Nat /\ k >= 1 /\ f.frames[k].len \in Nat
    BY <1>1
  <2> QED BY <2>1, FramedNat
<1>3. \A n \in 0 .. k : BytesUpTo(f, n) = SumFunctionOnSet(B(n), 1 .. n)
  BY DEF BytesUpTo, SumFunction
<1>5. \A i \in 1 .. k : B(k)[i] = 2 + f.frames[i].len /\ B(k)[i] \in Nat
  BY <1>1, <1>2
<1>6. \A i \in 1 .. k - 1 : B(k - 1)[i] = B(k)[i] /\ B(k - 1)[i] \in Nat
  BY <1>5, <1>2
<1>7. IsFiniteSet(1 .. k - 1) /\ 1 .. k = (1 .. k - 1) \cup {k} /\ k \notin 1 .. k - 1
  <2>1. IsFiniteSet(1 .. k - 1)
    <3>1. k - 1 \in Int /\ 1 \in Int
      BY <1>2
    <3> QED BY <3>1, FS_Interval
  <2>2. 1 .. k = (1 .. k - 1) \cup {k} /\ k \notin 1 .. k - 1
    BY <1>2
  <2> QED BY <2>1, <2>2
<1> HIDE DEF B
<1>8. SumFunctionOnSet(B(k), 1 .. k) = B(k)[k] + SumFunctionOnSet(B(k), 1 .. k - 1)
  <2>1. \A y \in (1 .. k - 1) \cup {k} : B(k)[y] \in Int
    BY <1>5, <1>7
  <2> DEFINE g == B(k)
             R == 1 .. k - 1
  <2>2. IsFiniteSet(R) /\ k \notin R /\ \A y \in R \cup {k} : g[y] \in Int
    BY <2>1, <1>7
  <2> HIDE DEF g, R
  <2>3. SumFunctionOnSet(g, R \cup {k}) = g[k] + SumFunctionOnSet(g, R)
    BY ONLY <2>2, SumAdd
  <2> QED BY <2>3, <1>7 DEF g, R
<1>9. SumFunctionOnSet(B(k - 1), 1 .. k - 1) = SumFunctionOnSet(B(k), 1 .. k - 1)
  <2>1. \A x \in 1 .. k - 1 : B(k - 1)[x] \in Int /\ B(k)[x] = B(k - 1)[x]
    BY <1>6
  <2>2. PICK g, h, R : g = B(k - 1) /\ h = B(k) /\ R = 1 .. k - 1
    OBVIOUS
  <2>3. IsFiniteSet(R) /\ \A x \in R : g[x] \in Int /\ h[x] = g[x]
    BY <2>1, <2>2, <1>7
  <2>4. SumFunctionOnSet(g, R) = SumFunctionOnSet(h, R)
    BY ONLY <2>3, SumSame
  <2> QED BY <2>2, <2>4
<1>11. k - 1 \in 0 .. k /\ k \in 0 .. k /\ B(k)[k] = 2 + f.frames[k].len
  BY <1>2, <1>5
<1>12. /\ BytesUpTo(f, k) = SumFunctionOnSet(B(k), 1 .. k)
       /\ BytesUpTo(f, k - 1) = SumFunctionOnSet(B(k - 1), 1 .. k - 1)
  BY <1>3, <1>11
<1> QED BY ONLY <1>2, <1>8, <1>9, <1>11, <1>12

(* Every record has its length prefix, so more records are more bytes. *)
LEMMA FramedGrow ==
  ASSUME NEW f, IsFramed(f), NEW j \in 0 .. Len(f.frames), NEW k \in 0 .. Len(f.frames),
         j < k
  PROVE  BytesUpTo(f, j) < BytesUpTo(f, k)
<1> DEFINE B(n) == BytesUpTo(f, n)
           T == {n \in Nat : j < n /\ n <= Len(f.frames) /\ ~(B(j) < B(n))}
<1>1. Len(f.frames) \in Nat
  BY DEF IsFramed
<1>2. \A n \in 1 .. Len(f.frames) : B(n - 1) \in Nat /\ B(n) \in Nat /\ B(n - 1) < B(n)
  <2> SUFFICES ASSUME NEW n \in 1 .. Len(f.frames)
               PROVE  B(n - 1) \in Nat /\ B(n) \in Nat /\ B(n - 1) < B(n)
    OBVIOUS
  <2>1. f.frames[n].len \in Nat
    BY DEF IsFramed
  <2>2. n - 1 \in 0 .. Len(f.frames)
    BY <1>1
  <2>3. B(n - 1) \in Nat /\ B(n) = B(n - 1) + 2 + f.frames[n].len
    BY <2>2, FramedStep, FramedNat
  <2> HIDE DEF B
  <2> QED BY <2>1, <2>3
<1> HIDE DEF B
<1>3. SUFFICES ASSUME T # {} PROVE FALSE
  BY <1>1 DEF B
<1>4. PICK n \in T : \A y \in T : n <= y
  BY <1>3, LeastNat
<1>5. n \in 1 .. Len(f.frames) /\ j \in Nat /\ j <= n - 1 /\ n - 1 \in Nat /\ n \in Nat
  BY <1>1
<1>7. B(j) \in Nat
  BY FramedNat DEF B
<1>8. CASE j = n - 1
  BY <1>2, <1>5, <1>8
<1>9. CASE j # n - 1
  <2>1. n - 1 \notin T
    BY <1>4, <1>5
  <2>2. B(j) < B(n - 1)
    BY <2>1, <1>5, <1>9, <1>1
  <2> QED BY <2>2, <1>2, <1>5, <1>7
<1> QED BY <1>8, <1>9

-----------------------------------------------------------------------------
(* A function that is a at 0 and follows from its last value at k. *)
Iterates(f, T, N, a, G) ==
  /\ f \in [0 .. N -> T]
  /\ f[0] = a
  /\ \A k \in 1 .. N : f[k] = G[<<f[k - 1], k>>]

LEMMA IterationExists ==
  ASSUME NEW T, NEW N \in Nat, NEW a \in T, NEW G \in [T \X (1 .. N) -> T]
  PROVE  \E f : Iterates(f, T, N, a, G)
<1> DEFINE Steps(f, n) == /\ f \in [0 .. n -> T] /\ f[0] = a
                          /\ \A k \in 1 .. n : f[k] = G[<<f[k - 1], k>>]
           U == {n \in Nat : n <= N /\ ~\E f : Steps(f, n)}
<1>1. ~Steps([k \in {0} |-> a], 0) => FALSE
  <2>1. 0 .. 0 = {0} /\ 1 .. 0 = {}
    OBVIOUS
  <2> QED BY <2>1
<1>2. ASSUME NEW n \in 1 .. N, NEW f, Steps(f, n - 1)
      PROVE  \E g : Steps(g, n)
  <2> DEFINE g == [k \in 0 .. n |-> IF k = n THEN G[<<f[n - 1], n>>] ELSE f[k]]
  <2>1. n \in Nat /\ n - 1 \in 0 .. n - 1 /\ f[n - 1] \in T
    BY <1>2
  <2>2. G[<<f[n - 1], n>>] \in T
    BY <2>1
  <2>3. \A k \in 0 .. n : k # n => k \in 0 .. n - 1
    BY <2>1
  <2>4. g \in [0 .. n -> T]
    BY <1>2, <2>2, <2>3
  <2>5. g[0] = a
    BY <1>2, <2>1
  <2>6. ASSUME NEW k \in 1 .. n
        PROVE  g[k] = G[<<g[k - 1], k>>]
    <3>1. k - 1 \in 0 .. n /\ k - 1 # n /\ k \in 0 .. n
      BY <2>1
    <3>2. g[k - 1] = f[k - 1]
      BY <3>1
    <3>3. CASE k = n
      BY <3>1, <3>2, <3>3
    <3>4. CASE k # n
      <4>1. k \in 1 .. n - 1 /\ g[k] = f[k]
        BY <3>1, <3>4, <2>1
      <4> QED BY <4>1, <3>2, <1>2
    <3> QED BY <3>3, <3>4
  <2> QED BY <2>4, <2>5, <2>6
<1> HIDE DEF Steps
<1>3. SUFFICES ASSUME U # {} PROVE FALSE
  <2>1. PICK f : Steps(f, N)
    BY <1>3
  <2> QED BY <2>1 DEF Steps, Iterates
<1>4. PICK n \in U : \A y \in U : n <= y
  BY <1>3, LeastNat
<1>5. n # 0
  BY <1>1
<1>6. n - 1 \in Nat /\ n - 1 \notin U /\ n \in 1 .. N
  BY <1>4, <1>5
<1>7. \E f : Steps(f, n - 1)
  BY <1>6
<1> QED BY <1>2, <1>6, <1>7

(* A function that is given on ends, and elsewhere follows from its value  *)
(* at a next element whose rank is smaller.                                *)
Descends(f, D, ends, a, next, G) ==
  \A x \in D : f[x] = IF x \in ends THEN a[x] ELSE G[<<f[next[x]], x>>]

(* It is what iterating the equation comes to: after k rounds the elements *)
(* of rank below k have their values.                                      *)
LEMMA DescentExists ==
  ASSUME NEW D, NEW T, NEW ends \in SUBSET D, NEW a \in [D -> T],
         NEW next \in [D -> D], NEW G \in [T \X D -> T],
         NEW N \in Nat, NEW rank \in [D -> 0 .. N],
         \A x \in D \ ends : rank[next[x]] < rank[x]
  PROVE  \E f \in [D -> T] : Descends(f, D, ends, a, next, G)
<1> DEFINE A == [D -> T]
           F(g) == [x \in D |-> IF x \in ends THEN a[x] ELSE G[<<g[next[x]], x>>]]
           M == N + 2
           H == [z \in A \X (1 .. M) |-> F(z[1])]
<1>1. ASSUME NEW g \in A PROVE F(g) \in A
  <2>1. \A x \in D : a[x] \in T /\ G[<<g[next[x]], x>>] \in T
    OBVIOUS
  <2> QED BY <2>1
<1>2. \A g \in A : \A x \in D :
        F(g)[x] = IF x \in ends THEN a[x] ELSE G[<<g[next[x]], x>>]
  OBVIOUS
<1> HIDE DEF F, A
<1>3. H \in [A \X (1 .. M) -> A]
  BY <1>1
<1>4. \A g \in A : \A k \in 1 .. M : H[<<g, k>>] = F(g)
  OBVIOUS
<1> HIDE DEF H
<1>5. M \in Nat /\ a \in A
  BY DEF A
<1> HIDE DEF M
<1>6. PICK h : Iterates(h, A, M, a, H)
  BY ONLY <1>3, <1>5, IterationExists
<1>7. /\ \A k \in 0 .. M : h[k] \in A
      /\ \A k \in 0 .. M - 1 : h[k + 1] = F(h[k])
  <2>1. h \in [0 .. M -> A] /\ \A k \in 1 .. M : h[k] = H[<<h[k - 1], k>>]
    BY <1>6 DEF Iterates
  <2>2. ASSUME NEW k \in 0 .. M - 1 PROVE h[k + 1] = F(h[k])
    <3>1. k + 1 \in 1 .. M /\ (k + 1) - 1 = k /\ k \in 0 .. M
      BY <1>5
    <3> QED BY <2>1, <3>1, <1>4
  <2> QED BY <2>1, <2>2
<1> DEFINE U == {k \in Nat : /\ k <= N + 1
                             /\ \E x \in D : rank[x] < k /\ h[k][x] # h[k + 1][x]}
<1>8. U = {}
  <2> SUFFICES ASSUME U # {} PROVE FALSE
    OBVIOUS
  <2>1. PICK k \in U : \A j \in U : k <= j
    BY LeastNat
  <2>2. PICK x \in D : rank[x] < k /\ h[k][x] # h[k + 1][x]
    BY <2>1
  <2>3. rank[x] \in Nat
    OBVIOUS
  <2>4. /\ k - 1 \in Nat /\ k - 1 <= N + 1 /\ k - 1 \in 0 .. M - 1 /\ k \in 0 .. M - 1
        /\ k - 1 \in 0 .. M /\ k \in 0 .. M /\ (k - 1) + 1 = k
    BY <2>1, <2>2, <2>3 DEF M
  <2>5. h[k] = F(h[k - 1]) /\ h[k + 1] = F(h[k]) /\ h[k] \in A /\ h[k - 1] \in A
    BY <1>7, <2>4
  <2>6. x \notin ends /\ h[k - 1][next[x]] # h[k][next[x]]
    <3>1. F(h[k - 1])[x] # F(h[k])[x]
      BY <2>2, <2>5
    <3>2. ASSUME h[k - 1][next[x]] = h[k][next[x]] \/ x \in ends
          PROVE  F(h[k - 1])[x] = F(h[k])[x]
      <4>1. F(h[k - 1])[x]
              = IF x \in ends THEN a[x] ELSE G[<<h[k - 1][next[x]], x>>]
        BY <1>2, <2>5
      <4>2. F(h[k])[x] = IF x \in ends THEN a[x] ELSE G[<<h[k][next[x]], x>>]
        BY <1>2, <2>5
      <4>3. CASE x \in ends
        BY <4>1, <4>2, <4>3
      <4>4. CASE x \notin ends
        BY <3>2, <4>1, <4>2, <4>4
      <4> QED BY <4>3, <4>4
    <3> QED BY <3>1, <3>2
  <2>7. next[x] \in D /\ rank[next[x]] \in Nat /\ rank[next[x]] < rank[x]
    BY <2>6
  <2>8. rank[next[x]] < k - 1
    BY <2>2, <2>3, <2>4, <2>7
  <2>9. k - 1 \in U
    BY <2>4, <2>6, <2>7, <2>8
  <2> QED BY <2>1, <2>4, <2>9
<1>9. N + 1 \in 0 .. M /\ N + 1 \in 0 .. M - 1 /\ N + 1 \in Nat
  BY DEF M
<1> DEFINE f == h[N + 1]
<1>10. f \in A /\ h[N + 1 + 1] = F(f)
  BY <1>7, <1>9
<1>11. ASSUME NEW x \in D
       PROVE  f[x] = IF x \in ends THEN a[x] ELSE G[<<f[next[x]], x>>]
  <2>1. rank[x] < N + 1
    OBVIOUS
  <2>2. h[N + 1][x] = h[N + 1 + 1][x]
    <3>1. N + 1 \notin U
      BY <1>8
    <3> QED BY <1>9, <2>1, <3>1
  <2> QED BY <1>2, <1>10, <2>2
<1> QED BY <1>10, <1>11 DEF A, Descends
=============================================================================
