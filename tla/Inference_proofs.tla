-------------------------- MODULE Inference_proofs --------------------------
(***************************************************************************)
(* Theorems about module Inference: for networks of every size, every      *)
(* weight and every prompt.                                                *)
(***************************************************************************)
EXTENDS Inference, SequenceTheorems, WellFoundedInduction, TLAPS

-----------------------------------------------------------------------------
(* Induction over natural numbers, as a statement about sets.              *)

(* Every set of natural numbers that is not empty has a least member.      *)
LEMMA LeastNumber ==
  ASSUME NEW T, T \subseteq Nat, T # {}
  PROVE  \E x \in T : \A y \in T : x <= y
<1> DEFINE R == {ss \in Nat \X Nat : ss[1] < ss[2]}
<1>1. IsWellFoundedOn(R, Nat)
  BY NatLessThanWellFounded, Zenon DEF OpToRel
<1>2. PICK x \in T : \A y \in T : ~(<<y, x>> \in R)
  <2> HIDE DEF R
  <2> QED BY <1>1, WFMin
<1>3. ASSUME NEW y \in T PROVE x <= y
  <2>1. <<y, x>> \notin R
    BY <1>2
  <2>2. y \in Nat /\ x \in Nat
    BY <1>2
  <2> QED BY <2>1, <2>2
<1> QED BY <1>2, <1>3

(* A set that holds 0, and with a number below n the next one, holds all   *)
(* numbers up to n.                                                        *)
LEMMA UpTo ==
  ASSUME NEW n \in Nat, NEW S, 0 \in S,
         \A k \in 0 .. n - 1 : k \in S => k + 1 \in S
  PROVE  0 .. n \subseteq S
<1> SUFFICES ASSUME ~(0 .. n \subseteq S) PROVE FALSE
  OBVIOUS
<1> DEFINE T == (0 .. n) \ S
<1>1. T # {} /\ T \subseteq Nat
  OBVIOUS
<1>2. PICK x \in T : \A y \in T : x <= y
  <2> HIDE DEF T
  <2> QED BY <1>1, LeastNumber
<1>3. x \in 1 .. n /\ x \notin S
  BY <1>2
<1>4. x - 1 \in 0 .. n - 1 /\ x - 1 \in S
  BY <1>2, <1>3
<1> QED BY <1>3, <1>4

(* Whatever the steps are, a function goes through them one by one.        *)
StepsOn(V, n) == [1 .. n -> [V -> V]]
Runs(V, n, a, step) ==
  {g \in [0 .. n -> V] : g[0] = a /\ \A k \in 1 .. n : g[k] = step[k][g[k - 1]]}

LEMMA Iterates ==
  ASSUME NEW V, NEW n \in Nat, NEW a \in V, NEW step \in StepsOn(V, n)
  PROVE  Runs(V, n, a, step) # {}
<1> DEFINE Goes(m, g) == g[0] = a /\ \A k \in 1 .. m : g[k] = step[k][g[k - 1]]
           S == {m \in 0 .. n : \E g \in [0 .. m -> V] : Goes(m, g)}
<1>1. 0 \in S
  <2> DEFINE g == [k \in 0 .. 0 |-> a]
  <2>1. g \in [0 .. 0 -> V] /\ Goes(0, g)
    OBVIOUS
  <2> HIDE DEF g, Goes
  <2> QED BY <2>1
<1>2. ASSUME NEW k \in 0 .. n - 1, k \in S PROVE k + 1 \in S
  <2>1. PICK g \in [0 .. k -> V] : Goes(k, g)
    BY <1>2
  <2> DEFINE h == [i \in 0 .. k + 1 |-> IF i = k + 1 THEN step[k + 1][g[k]] ELSE g[i]]
  <2>2. step[k + 1] \in [V -> V] /\ g[k] \in V
    BY DEF StepsOn
  <2>3. h \in [0 .. k + 1 -> V]
    BY <2>2
  <2>4. h[0] = a
    BY <2>1
  <2>5. ASSUME NEW i \in 1 .. k + 1 PROVE h[i] = step[i][h[i - 1]]
    <3>1. i - 1 \in 0 .. k /\ h[i - 1] = g[i - 1]
      OBVIOUS
    <3>2. CASE i = k + 1
      BY <3>1, <3>2
    <3>3. CASE i # k + 1
      <4>1. i \in 1 .. k /\ h[i] = g[i]
        BY <3>3
      <4> QED BY <4>1, <3>1, <2>1
    <3> QED BY <3>2, <3>3
  <2>6. Goes(k + 1, h)
    BY <2>4, <2>5
  <2> HIDE DEF h, Goes
  <2> QED BY <2>3, <2>6
<1>3. 0 .. n \subseteq S
  <2> HIDE DEF S
  <2> QED BY <1>1, <1>2, UpTo
<1>4. PICK g \in [0 .. n -> V] : Goes(n, g)
  BY <1>3
<1> QED BY <1>4 DEF Runs

-----------------------------------------------------------------------------
(* Places in arrays.                                                       *)

Place(n, t, c) == t * n + c + 1

(* The row and the column of a place in an array of m rows of n.           *)
LEMMA Split ==
  ASSUME NEW m \in Nat, NEW n \in Nat \ {0}, NEW k \in 0 .. m * n - 1
  PROVE  /\ k \div n \in 0 .. m - 1
         /\ k % n \in 0 .. n - 1
         /\ k = (k \div n) * n + (k % n)
<1>1. k \div n \in Int /\ k % n \in 0 .. n - 1 /\ k = (k \div n) * n + (k % n)
  OBVIOUS
<1> DEFINE d == k \div n
<1>2. d * n <= k /\ k < m * n /\ d * n > k - n
  BY <1>1
<1>3. d < m
  <2> HIDE DEF d
  <2>1. SUFFICES ASSUME d >= m PROVE FALSE
    BY <1>1 DEF d
  <2>2. d * n >= m * n
    BY <2>1, <1>1 DEF d
  <2> QED BY <2>2, <1>2, <1>1 DEF d
<1>4. d >= 0
  OBVIOUS
<1> QED BY <1>1, <1>3, <1>4

(* The place of a row and a column.                                        *)
LEMMA Join ==
  ASSUME NEW m \in Nat, NEW n \in Nat \ {0}, NEW t \in 0 .. m - 1, NEW c \in 0 .. n - 1
  PROVE  /\ t * n + c \in 0 .. m * n - 1
         /\ (t * n + c) \div n = t
         /\ (t * n + c) % n = c
<1>1. t * n \in Nat /\ m * n \in Nat
  OBVIOUS
<1>2. t * n + n <= m * n
  <2>1. (t + 1) * n <= m * n
    OBVIOUS
  <2> QED BY <2>1
<1>3. t * n + c \in 0 .. m * n - 1
  BY <1>1, <1>2
<1> DEFINE k == t * n + c
<1>4. k \in 0 .. m * n - 1
  BY <1>3
<1> HIDE DEF k
<1>5. k \div n \in 0 .. m - 1 /\ k % n \in 0 .. n - 1 /\ k = (k \div n) * n + (k % n)
  BY <1>4, Split
<1> DEFINE d == k \div n
           r == k % n
<1> HIDE DEF d, r
<1>6. d \in Int /\ r \in Int /\ 0 <= r /\ r < n /\ d * n + r = t * n + c
  BY <1>5 DEF k, d, r
<1>7. d = t
  <2>1. CASE d < t
    <3>1. (d + 1) * n <= t * n
      BY <2>1, <1>6
    <3> QED BY <3>1, <1>6
  <2>2. CASE d > t
    <3>1. (t + 1) * n <= d * n
      BY <2>2, <1>6
    <3> QED BY <3>1, <1>6
  <2> QED BY <2>1, <2>2, <1>6
<1> QED BY <1>3, <1>6, <1>7 DEF k, d, r

(* The same, of places in a sequence.                                      *)
LEMMA Places ==
  ASSUME NEW m \in Nat, NEW n \in Nat \ {0}, NEW j \in 1 .. m * n
  PROVE  /\ (j - 1) \div n \in 0 .. m - 1
         /\ (j - 1) % n \in 0 .. n - 1
         /\ j = Place(n, (j - 1) \div n, (j - 1) % n)
<1>1. m * n \in Nat /\ j - 1 \in 0 .. m * n - 1
  OBVIOUS
<1> DEFINE t == (j - 1) \div n
           c == (j - 1) % n
<1>2. t \in 0 .. m - 1 /\ c \in 0 .. n - 1 /\ j - 1 = t * n + c
  BY <1>1, Split
<1> HIDE DEF t, c
<1>3. j = Place(n, t, c)
  BY <1>2 DEF Place
<1> QED BY <1>2, <1>3 DEF t, c

LEMMA PlaceOf ==
  ASSUME NEW m \in Nat, NEW n \in Nat \ {0}, NEW t \in 0 .. m - 1, NEW c \in 0 .. n - 1
  PROVE  /\ Place(n, t, c) \in 1 .. m * n
         /\ (Place(n, t, c) - 1) \div n = t
         /\ (Place(n, t, c) - 1) % n = c
<1> DEFINE k == t * n + c
<1>1. k \in 0 .. m * n - 1 /\ k \div n = t /\ k % n = c
  BY Join
<1>2. Place(n, t, c) = k + 1 /\ m * n \in Nat
  BY DEF Place
<1> HIDE DEF k
<1>3. (k + 1) - 1 = k /\ k + 1 \in 1 .. m * n
  BY <1>1, <1>2
<1> QED BY <1>1, <1>2, <1>3

-----------------------------------------------------------------------------
(* Numbers.                                                                *)

LEMMA DivMod ==
  ASSUME NEW a \in Int, NEW b \in Nat, b > 0
  PROVE  /\ a \div b \in Int
         /\ a % b \in 0 .. b - 1
         /\ a = b * (a \div b) + (a % b)
OBVIOUS

LEMMA PositiveP == P \in Nat /\ P > 1
BY TransformerAssumption

(* Total is the last of the partial sums.                                  *)
LEMMA PartialSums ==
  ASSUME NEW n \in Nat, NEW s \in [1 .. n -> Int]
  PROVE  \E g \in [0 .. n -> Int] :
           /\ g[0] = 0
           /\ \A k \in 1 .. n : g[k] = g[k - 1] + s[k]
           /\ Total(s) = g[n] % P
<1> DEFINE step == [k \in 1 .. n |-> [v \in Int |-> v + s[k]]]
           Sums(g) == g = [k \in 0 .. n |-> IF k = 0 THEN 0 ELSE g[k - 1] + s[k]]
<1>1. step \in StepsOn(Int, n)
  BY DEF StepsOn
<1>2. PICK g \in [0 .. n -> Int] :
        g[0] = 0 /\ \A k \in 1 .. n : g[k] = step[k][g[k - 1]]
  <2> HIDE DEF step
  <2>0. 0 \in Int
    OBVIOUS
  <2>1. Runs(Int, n, 0, step) # {}
    BY <1>1, <2>0, Iterates, Zenon
  <2> QED BY <2>1 DEF Runs
<1>3. ASSUME NEW k \in 1 .. n PROVE g[k] = g[k - 1] + s[k]
  <2>1. g[k - 1] \in Int
    OBVIOUS
  <2> QED BY <1>2, <2>1
<1>4. Sums(g)
  BY <1>2, <1>3
<1> DEFINE f == CHOOSE x : Sums(x)
<1>5. Sums(f)
  <2> HIDE DEF Sums
  <2> QED BY <1>4
<1>6. Len(s) = n
  OBVIOUS
<1>7. Total(s) = f[n] % P
  BY <1>6 DEF Total
<1>8. f[0] = 0 /\ \A k \in 1 .. n : f[k] = f[k - 1] + s[k]
  <2> HIDE DEF f
  <2> QED BY <1>5
<1>9. \A k \in 0 .. n : f[k] = g[k]
  <2> DEFINE S == {k \in 0 .. n : f[k] = g[k]}
  <2> HIDE DEF f
  <2>1. 0 \in S
    BY <1>8, <1>2
  <2>2. ASSUME NEW k \in 0 .. n - 1, k \in S PROVE k + 1 \in S
    <3>1. k + 1 \in 1 .. n /\ (k + 1) - 1 = k
      OBVIOUS
    <3>2. f[k + 1] = f[k] + s[k + 1] /\ g[k + 1] = g[k] + s[k + 1]
      BY <3>1, <1>8, <1>3
    <3> QED BY <3>1, <3>2, <2>2
  <2>3. 0 .. n \subseteq S
    <3> HIDE DEF S
    <3> QED BY <2>1, <2>2, UpTo
  <2> QED BY <2>3
<1>10. Total(s) = g[n] % P
  <2> HIDE DEF f
  <2> QED BY <1>7, <1>9
<1> QED BY <1>2, <1>3, <1>10

LEMMA TotalType ==
  ASSUME NEW n \in Nat, NEW s \in [1 .. n -> Int]
  PROVE  Total(s) \in Num
<1>1. PICK g \in [0 .. n -> Int] : Total(s) = g[n] % P
  BY PartialSums
<1>2. g[n] \in Int /\ P \in Nat \ {0}
  BY TransformerAssumption
<1> QED BY <1>1, <1>2 DEF Num

(* Zeros at the end add nothing.                                           *)
Ints(n) == [1 .. n -> Int]

LEMMA TotalOfPrefix ==
  ASSUME NEW n \in Nat, NEW s \in Ints(n), NEW m \in 0 .. n,
         NEW r \in Ints(m), \A i \in 1 .. m : r[i] = s[i],
         \A i \in m + 1 .. n : s[i] = 0
  PROVE  Total(s) = Total(r)
<1> USE DEF Ints
<1>1. PICK g \in [0 .. n -> Int] :
           /\ g[0] = 0
           /\ \A k \in 1 .. n : g[k] = g[k - 1] + s[k]
           /\ Total(s) = g[n] % P
  BY PartialSums
<1>2. PICK h \in [0 .. m -> Int] :
           /\ h[0] = 0
           /\ \A k \in 1 .. m : h[k] = h[k - 1] + r[k]
           /\ Total(r) = h[m] % P
  <2>1. m \in Nat
    OBVIOUS
  <2> QED BY <2>1, PartialSums
<1> DEFINE S == {k \in 0 .. n : g[k] = IF k <= m THEN h[k] ELSE h[m]}
<1>3. 0 \in S
  BY <1>1, <1>2
<1>4. ASSUME NEW k \in 0 .. n - 1, k \in S PROVE k + 1 \in S
  <2>1. k + 1 \in 1 .. n /\ (k + 1) - 1 = k
    OBVIOUS
  <2>2. g[k + 1] = g[k] + s[k + 1]
    BY <1>1, <2>1
  <2>3. CASE k + 1 <= m
    <3>1. h[k + 1] = h[k] + r[k + 1]
      BY <1>2, <2>1, <2>3
    <3> QED BY <3>1, <2>2, <2>3, <1>4
  <2>4. CASE k + 1 > m
    <3>1. s[k + 1] = 0
      BY <2>4
    <3>2. g[k] = h[m] /\ h[m] \in Int
      BY <2>4, <1>4
    <3> QED BY <3>1, <3>2, <2>2, <2>4
  <2> QED BY <2>3, <2>4
<1>5. 0 .. n \subseteq S
  <2> HIDE DEF S
  <2> QED BY <1>3, <1>4, UpTo
<1>6. g[n] = h[m]
  BY <1>5
<1> QED BY <1>6, <1>1, <1>2

LEMMA ModType ==
  ASSUME NEW a \in Int
  PROVE  a % P \in Num
BY PositiveP, DivMod DEF Num

(* Numbers divide, as P is prime.                                          *)
LEMMA DivideType ==
  ASSUME NEW a \in Num, NEW b \in Num
  PROVE  Divide(a, b) \in Num
<1>1. CASE b = 0
  BY <1>1, TransformerAssumption DEF Divide, Num
<1>2. CASE b # 0
  <2>1. PICK d \in Num : (d * b) % P = 1
    BY <1>2, TransformerAssumption
  <2> DEFINE c == (a * d) % P
  <2>2. c \in Num
    BY ModType DEF Num
  <2>3. (c * b) % P = a
    <3>0. P \in Nat \ {0, 1} /\ a \in Int /\ b \in Int /\ d \in Int /\ 0 <= a /\ a < P
      BY TransformerAssumption DEF Num
    <3>1. PICK q \in Int : d * b = P * q + 1
      <4>1. d * b \in Int
        BY <3>0
      <4> QED BY <4>1, DivMod, PositiveP, <2>1
    <3>2. PICK r \in Int : a * d = P * r + c
      <4>1. a * d \in Int
        BY <3>0
      <4> DEFINE y == a * d
      <4>2. c = y % P /\ y \in Int
        BY <4>1
      <4> HIDE DEF y, c
      <4>3. y = P * (y \div P) + c /\ y \div P \in Int
        BY <4>2, DivMod, PositiveP
      <4> QED BY <4>3 DEF y
    <3>3. c \in Int
      BY <2>2 DEF Num
    <3> HIDE DEF c
    <3>4. c * b = P * (a * q - r * b) + a
      <4>1. c * b = (a * d - P * r) * b
        BY <3>0, <3>2, <3>3
      <4>2. (a * d - P * r) * b = a * (d * b) - P * (r * b)
        BY <3>0
      <4>3. a * (d * b) = a * (P * q + 1)
        BY <3>1
      <4>4. a * (P * q + 1) - P * (r * b) = P * (a * q - r * b) + a
        BY <3>0
      <4> QED BY <4>1, <4>2, <4>3, <4>4
    <3> DEFINE z == a * q - r * b
    <3>5. z \in Int
      BY <3>0
    <3>6. c * b = P * z + a
      BY <3>4
    <3> HIDE DEF z
    <3>7. (P * z + a) % P = a
      BY <3>0, <3>5
    <3> QED BY <3>6, <3>7
  <2> HIDE DEF c
  <2> QED BY <1>2, <2>2, <2>3 DEF Divide
<1> QED BY <1>1, <1>2

LEMMA NothingDivided ==
  ASSUME NEW b \in Num
  PROVE  Divide(0, b) = 0
<1>1. CASE b = 0
  BY <1>1 DEF Divide
<1>2. CASE b # 0
  <2>0. P \in Nat \ {0, 1} /\ b \in Int /\ 0 \in Num
    BY TransformerAssumption DEF Num
  <2>1. PICK d \in Num : (d * b) % P = 1
    BY <1>2, TransformerAssumption
  <2>2. (0 * b) % P = 0
    BY <2>0
  <2>3. ASSUME NEW c \in Num, (c * b) % P = 0 PROVE c = 0
    <3>0. c \in Int /\ d \in Int /\ 0 <= c /\ c < P
      BY PositiveP DEF Num
    <3>1. PICK q \in Int : d * b = P * q + 1
      <4>1. d * b \in Int
        BY <2>0, <3>0
      <4> QED BY <4>1, DivMod, PositiveP, <2>1
    <3>2. PICK r \in Int : c * b = P * r
      <4>1. c * b \in Int
        BY <2>0, <3>0
      <4> DEFINE y == c * b
      <4>2. y % P = 0 /\ y \in Int
        BY <4>1, <2>3
      <4> HIDE DEF y
      <4>3. y = P * (y \div P) + 0 /\ y \div P \in Int
        BY <4>2, DivMod, PositiveP
      <4>4. y = P * (y \div P)
        BY <4>3, PositiveP
      <4> QED BY <4>3, <4>4 DEF y
    <3>3. c = P * (d * r - c * q)
      <4>1. d * (c * b) = c * (d * b)
        BY <2>0, <3>0
      <4>2. d * (P * r) = c * (P * q + 1)
        BY <4>1, <3>1, <3>2
      <4>3. d * (P * r) = P * (d * r) /\ c * (P * q + 1) = P * (c * q) + c
        BY <2>0, <3>0
      <4>4. P * (d * r - c * q) = P * (d * r) - P * (c * q)
        BY <2>0, <3>0
      <4> QED BY <4>2, <4>3, <4>4, <3>0, <2>0
    <3> DEFINE z == d * r - c * q
    <3>4. z \in Int /\ c = P * z
      BY <3>3, <3>0
    <3> HIDE DEF z
    <3>5. z = 0
      <4>1. CASE z >= 1
        <5>1. P * z >= P
          BY <4>1, <3>4, <2>0
        <5> QED BY <5>1, <3>4, <3>0, <2>0
      <4>2. CASE z <= -1
        <5>1. P * z <= -P
          BY <4>2, <3>4, <2>0
        <5> QED BY <5>1, <3>4, <3>0, <2>0
      <4> QED BY <4>1, <4>2, <3>4
    <3> QED BY <3>4, <3>5, <2>0
  <2> QED BY <1>2, <2>0, <2>2, <2>3 DEF Divide
<1> QED BY <1>1, <1>2

(* The greatest of some numbers is one of them.                            *)
LEMMA MaxOf ==
  ASSUME NEW S, S # {}, NEW b \in Int, \A x \in S : x \in Int /\ x <= b
  PROVE  Max(S) \in S /\ \A x \in S : x <= Max(S)
<1> DEFINE T == {b - x : x \in S}
<1>1. T \subseteq Nat /\ T # {}
  OBVIOUS
<1>2. PICK y \in T : \A z \in T : y <= z
  <2> HIDE DEF T
  <2> QED BY <1>1, LeastNumber
<1>3. PICK x \in S : y = b - x
  BY <1>2
<1>4. ASSUME NEW z \in S PROVE x >= z
  <2>1. b - z \in T
    OBVIOUS
  <2>2. b - x <= b - z
    BY <2>1, <1>2, <1>3
  <2> QED BY <2>2, <1>3
<1>5. Max(S) \in S /\ \A z \in S : Max(S) >= z
  BY <1>3, <1>4 DEF Max
<1> QED BY <1>5

LEMMA MinOf ==
  ASSUME NEW S, S # {}, S \subseteq Nat
  PROVE  Min(S) \in S /\ \A x \in S : Min(S) <= x
<1>1. PICK x \in S : \A y \in S : x <= y
  BY LeastNumber
<1> QED BY <1>1 DEF Min

-----------------------------------------------------------------------------
(* Arrays and matrices.                                                    *)

Array(n) == [1 .. n -> Num]
Rows(S, m, n) == [1 .. m -> [1 .. n -> S]]
Mat(m, n) == Rows(Num, m, n)

(* The array a has the m rows of n numbers of the matrix A, one after the  *)
(* other: what the server has, and what the script has.                    *)
Flat(S, a, A, m, n) ==
  /\ a \in [1 .. m * n -> S]
  /\ A \in Rows(S, m, n)
  /\ \A t \in 0 .. m - 1, c \in 0 .. n - 1 : a[Place(n, t, c)] = A[t + 1][c + 1]
IsFlat(a, A, m, n) == Flat(Num, a, A, m, n)

(* Rows of the same length, appended to each other.                        *)
LEMMA FlattenRows ==
  ASSUME NEW S, NEW m \in Nat \ {0}, NEW n \in Nat \ {0},
         NEW M \in Rows(S, m, n)
  PROVE  Flat(S, FlattenSeq(M), M, m, n)
<1> DEFINE step == [k \in 1 .. m - 1 |-> [v \in Seq(S) |-> v \o M[k + 1]]]
           Rec(f) == f = [i \in 1 .. m |-> IF i = 1 THEN M[i] ELSE f[i - 1] \o M[i]]
           f == CHOOSE g : Rec(g)
<1>0. /\ \A i \in 1 .. m : M[i] \in Seq(S) /\ Len(M[i]) = n /\ M[i] \in [1 .. n -> S]
      /\ m - 1 \in Nat
  BY DEF Rows
<1>1. FlattenSeq(M) = f[m]
  <2>1. Len(M) = m
    BY DEF Rows
  <2> QED BY <2>1 DEF FlattenSeq
<1>2. step \in StepsOn(Seq(S), m - 1)
  BY <1>0 DEF StepsOn
<1>3. PICK g \in Runs(Seq(S), m - 1, M[1], step) : TRUE
  <2>1. M[1] \in Seq(S)
    BY <1>0
  <2> HIDE DEF step
  <2>2. Runs(Seq(S), m - 1, M[1], step) # {}
    BY <1>0, <1>2, <2>1, Iterates, Zenon
  <2> QED BY <2>2
<1>4. Rec([i \in 1 .. m |-> g[i - 1]])
  <2>1. /\ g \in [0 .. m - 1 -> Seq(S)]
        /\ g[0] = M[1]
        /\ \A k \in 1 .. m - 1 : g[k] = step[k][g[k - 1]]
    <3> HIDE DEF step
    <3> QED BY <1>3 DEF Runs
  <2>2. ASSUME NEW i \in 1 .. m, i # 1 PROVE g[i - 1] = g[i - 2] \o M[i]
    <3>1. i - 1 \in 1 .. m - 1 /\ (i - 1) - 1 = i - 2 /\ (i - 1) + 1 = i
      BY <2>2
    <3>2. g[i - 2] \in Seq(S)
      BY <2>1, <3>1
    <3>3. step[i - 1] = [v \in Seq(S) |-> v \o M[i]]
      BY <3>1
    <3>4. g[i - 1] = step[i - 1][g[i - 2]]
      <4> HIDE DEF step
      <4> QED BY <2>1, <3>1
    <3> QED BY <3>2, <3>3, <3>4
  <2> DEFINE h == [i \in 1 .. m |-> g[i - 1]]
  <2>3. ASSUME NEW i \in 1 .. m
        PROVE  h[i] = IF i = 1 THEN M[i] ELSE h[i - 1] \o M[i]
    <3>1. CASE i = 1
      BY <3>1, <2>1
    <3>2. CASE i # 1
      <4>1. i - 1 \in 1 .. m /\ (i - 1) - 1 = i - 2
        BY <3>2
      <4>2. h[i - 1] = g[i - 2] /\ h[i] = g[i - 1]
        BY <4>1
      <4> HIDE DEF h
      <4> QED BY <4>2, <2>2, <3>2
    <3> QED BY <3>1, <3>2
  <2> QED BY <2>3
<1>5. Rec(f)
  <2> HIDE DEF Rec
  <2> QED BY <1>4
<1>6. \A i \in 1 .. m : f[i] = IF i = 1 THEN M[i] ELSE f[i - 1] \o M[i]
  <2> HIDE DEF f
  <2> QED BY <1>5
<1> HIDE DEF f, Rec, step
<1> DEFINE Good(i) == /\ f[i + 1] \in [1 .. (i + 1) * n -> S]
                      /\ \A t \in 0 .. i, c \in 0 .. n - 1 :
                           f[i + 1][Place(n, t, c)] = M[t + 1][c + 1]
           G == {i \in 0 .. m - 1 : Good(i)}
<1>7. 0 \in G
  <2>1. f[1] = M[1]
    BY <1>6
  <2>2. f[0 + 1] \in [1 .. (0 + 1) * n -> S]
    BY <2>1, <1>0
  <2>3. ASSUME NEW t \in 0 .. 0, NEW c \in 0 .. n - 1
        PROVE  f[0 + 1][Place(n, t, c)] = M[t + 1][c + 1]
    <3>1. t = 0 /\ Place(n, t, c) = c + 1
      BY DEF Place
    <3> QED BY <3>1, <2>1
  <2>4. Good(0)
    BY <2>2, <2>3
  <2> HIDE DEF Good
  <2> QED BY <2>4
<1>8. ASSUME NEW i \in 0 .. (m - 1) - 1, i \in G PROVE i + 1 \in G
  <2>0. i + 1 \in 0 .. m - 1 /\ i + 2 \in 1 .. m /\ i + 2 # 1 /\ (i + 2) - 1 = i + 1
    OBVIOUS
  <2>1. f[i + 2] = f[i + 1] \o M[i + 2]
    BY <2>0, <1>6
  <2>2. Good(i)
    BY <1>8
  <2> DEFINE s == f[i + 1]
             r == M[i + 2]
             l == (i + 1) * n
  <2>3. l \in Nat /\ (i + 2) * n = l + n
    OBVIOUS
  <2>4. s \in [1 .. l -> S] /\ r \in [1 .. n -> S]
    BY <2>2, <1>0, <2>0
  <2> HIDE DEF l
  <2>5. s \in Seq(S) /\ Len(s) = l /\ r \in Seq(S) /\ Len(r) = n
    <3> HIDE DEF s, r
    <3> QED BY <2>4, <2>3
  <2> HIDE DEF s, r
  <2>6. /\ s \o r \in Seq(S)
        /\ Len(s \o r) = l + n
        /\ \A j \in 1 .. l + n : (s \o r)[j] = IF j <= l THEN s[j] ELSE r[j - l]
    <3>1. /\ s \o r \in Seq(S)
          /\ Len(s \o r) = Len(s) + Len(r)
          /\ \A j \in 1 .. Len(s) + Len(r) :
               (s \o r)[j] = IF j <= Len(s) THEN s[j] ELSE r[j - Len(s)]
      BY <2>5, ConcatProperties, Zenon
    <3> QED BY <2>5, <3>1, Zenon
  <2>7. s \o r \in [1 .. l + n -> S]
    <3> DEFINE q == s \o r
    <3>1. q \in Seq(S) /\ Len(q) = l + n
      BY <2>6
    <3> HIDE DEF q
    <3>2. q \in [1 .. Len(q) -> S]
      BY <3>1, LenProperties
    <3> QED BY <3>1, <3>2 DEF q
  <2>8. ASSUME NEW t \in 0 .. i + 1, NEW c \in 0 .. n - 1
        PROVE  (s \o r)[Place(n, t, c)] = M[t + 1][c + 1]
    <3>1. CASE t <= i
      <4>1. Place(n, t, c) \in 1 .. l
        <5>1. t \in 0 .. (i + 1) - 1 /\ i + 1 \in Nat
          BY <3>1
        <5> QED BY <5>1, PlaceOf DEF l
      <4>2. Place(n, t, c) \in 1 .. l + n /\ Place(n, t, c) <= l
        BY <4>1, <2>3
      <4>3. (s \o r)[Place(n, t, c)] = s[Place(n, t, c)]
        BY <4>2, <2>6
      <4>4. s[Place(n, t, c)] = M[t + 1][c + 1]
        BY <2>2, <3>1 DEF s
      <4> QED BY <4>3, <4>4
    <3>2. CASE t = i + 1
      <4>1. Place(n, t, c) = l + c + 1
        BY <3>2 DEF l, Place
      <4>2. l + c + 1 \in 1 .. l + n /\ ~(l + c + 1 <= l) /\ (l + c + 1) - l = c + 1
        BY <2>3
      <4>3. (s \o r)[l + c + 1] = r[c + 1]
        BY <4>2, <2>6
      <4>4. t + 1 = i + 2
        BY <3>2
      <4> QED BY <4>1, <4>3, <4>4 DEF r
    <3>3. t <= i \/ t = i + 1
      OBVIOUS
    <3> QED BY <3>1, <3>2, <3>3, Zenon
  <2>9. (i + 1) + 1 = i + 2 /\ f[i + 2] = s \o r
    BY <2>1 DEF s, r
  <2>10. Good(i + 1)
    <3>1. f[(i + 1) + 1] \in [1 .. ((i + 1) + 1) * n -> S]
      BY <2>7, <2>9, <2>3
    <3>2. \A t \in 0 .. i + 1, c \in 0 .. n - 1 :
            f[(i + 1) + 1][Place(n, t, c)] = M[t + 1][c + 1]
      <4>1. f[(i + 1) + 1] = s \o r
        BY <2>9
      <4> QED BY <2>8, <4>1, Zenon
    <3> QED BY <3>1, <3>2
  <2> HIDE DEF Good
  <2> QED BY <2>0, <2>10
<1>9. 0 .. m - 1 \subseteq G
  <2> HIDE DEF G
  <2> QED BY <1>0, <1>7, <1>8, UpTo
<1>10. Good(m - 1)
  <2>1. m - 1 \in G
    <3> HIDE DEF G
    <3> QED BY <1>0, <1>9
  <2> HIDE DEF Good
  <2> QED BY <2>1
<1>11. (m - 1) + 1 = m
  OBVIOUS
<1>12. FlattenSeq(M) \in [1 .. m * n -> S]
  BY <1>1, <1>10, <1>11
<1>13. \A t \in 0 .. m - 1, c \in 0 .. n - 1 :
         FlattenSeq(M)[Place(n, t, c)] = M[t + 1][c + 1]
  BY <1>1, <1>10, <1>11
<1> QED BY <1>12, <1>13 DEF Flat

(* An array that has the rows of a matrix is its rows, flattened.          *)
LEMMA FlatIsFlattened ==
  ASSUME NEW m \in Nat \ {0}, NEW n \in Nat \ {0}, NEW a, NEW A, IsFlat(a, A, m, n)
  PROVE  a = FlattenSeq(A)
<1> DEFINE b == FlattenSeq(A)
<1>1. Flat(Num, b, A, m, n) /\ Flat(Num, a, A, m, n)
  <2>1. A \in Rows(Num, m, n) /\ Flat(Num, a, A, m, n)
    BY DEF IsFlat, Flat
  <2> QED BY <2>1, FlattenRows, Zenon
<1> HIDE DEF b
<1>3. ASSUME NEW j \in 1 .. m * n PROVE a[j] = b[j]
  <2> DEFINE t == (j - 1) \div n
             c == (j - 1) % n
  <2>1. t \in 0 .. m - 1 /\ c \in 0 .. n - 1 /\ j = Place(n, t, c)
    BY Places
  <2> HIDE DEF t, c
  <2> QED BY <1>1, <2>1 DEF Flat
<1>4. a \in [1 .. m * n -> Num] /\ b \in [1 .. m * n -> Num]
  BY <1>1 DEF Flat
<1> QED BY <1>3, <1>4 DEF b

LEMMA FlatAt ==
  ASSUME NEW m \in Nat, NEW n \in Nat \ {0}, NEW a, NEW A, IsFlat(a, A, m, n),
         NEW t \in 0 .. m - 1, NEW c \in 0 .. n - 1
  PROVE  /\ a[Place(n, t, c)] = A[t + 1][c + 1]
         /\ a[Place(n, t, c)] \in Num
         /\ A[t + 1][c + 1] \in Num
<1>1. /\ A \in [1 .. m -> [1 .. n -> Num]]
      /\ a[Place(n, t, c)] = A[t + 1][c + 1]
  BY DEF IsFlat, Flat, Rows
<1>2. t + 1 \in 1 .. m /\ c + 1 \in 1 .. n
  OBVIOUS
<1>3. A[t + 1] \in [1 .. n -> Num]
  BY <1>1, <1>2
<1>4. A[t + 1][c + 1] \in Num
  BY <1>2, <1>3
<1> QED BY <1>1, <1>4

(* What a matrix is, said of its rows counted from 1.                      *)
LEMMA MatAt ==
  ASSUME NEW m \in Nat, NEW n \in Nat, NEW A \in Mat(m, n)
  PROVE  /\ Len(A) = m
         /\ \A t \in 1 .. m : Len(A[t]) = n /\ A[t] \in [1 .. n -> Num]
         /\ \A t \in 1 .. m, c \in 1 .. n : A[t][c] \in Num
BY DEF Mat, Rows

(* To be such an array, place by place.                                    *)
LEMMA FlatIntro ==
  ASSUME NEW m \in Nat, NEW n \in Nat \ {0}, NEW A \in Mat(m, n),
         NEW a, a = [j \in 1 .. m * n |-> a[j]],
         \A t \in 0 .. m - 1, c \in 0 .. n - 1 : a[Place(n, t, c)] = A[t + 1][c + 1]
  PROVE  IsFlat(a, A, m, n)
<1>1. ASSUME NEW j \in 1 .. m * n PROVE a[j] \in Num
  <2> DEFINE t == (j - 1) \div n
             c == (j - 1) % n
  <2>1. t \in 0 .. m - 1 /\ c \in 0 .. n - 1 /\ j = Place(n, t, c)
    BY Places
  <2> HIDE DEF t, c
  <2>2. t + 1 \in 1 .. m /\ c + 1 \in 1 .. n
    BY <2>1
  <2>3. A[t + 1][c + 1] \in Num
    BY <2>2, MatAt
  <2> QED BY <2>1, <2>3
<1>2. a \in [1 .. m * n -> Num]
  BY <1>1
<1> QED BY <1>2 DEF IsFlat, Flat, Mat

-----------------------------------------------------------------------------
(* Layer by layer: on an array that has the rows of a matrix, the server's *)
(* layer gives an array that has the rows of what the script's layer gives *)
(* for the matrix.                                                         *)

LEMMA NumsAreInts == Num \subseteq Int /\ 0 \in Num
BY PositiveP DEF Num

LEMMA Computed ==
  ASSUME NEW n \in Nat, NEW f, f = [k \in 1 .. n |-> f[k]]
  PROVE  SubSeq(f, 1, n) = f
OBVIOUS

LEMMA LinearRows ==
  ASSUME NEW T \in Nat, NEW in \in Nat \ {0}, NEW out \in Nat \ {0},
         NEW x, NEW X, IsFlat(x, X, T, in),
         NEW w, NEW W, IsFlat(w, W, out, in)
  PROVE  IsFlat(LinearForward(w, in, out, x, T), nn_Linear(W, X), T, out)
<1> DEFINE y == LinearForward(w, in, out, x, T)
           Y == nn_Linear(W, X)
           Prod(t, o) == [i \in 1 .. in |-> X[t][i] * W[o][i]]
<1>0. T * out \in Nat
  OBVIOUS
<1>1. y = [j \in 1 .. T * out |->
             Total([i \in 1 .. in |-> x[Place(in, (j - 1) \div out, i - 1)]
                                        * w[Place(in, (j - 1) % out, i - 1)]])]
  <2> DEFINE z == [j \in 1 .. T * out |->
                     Total([i \in 1 .. in |-> x[Place(in, (j - 1) \div out, i - 1)]
                                                * w[Place(in, (j - 1) % out, i - 1)]])]
  <2>1. y = SubSeq(z, 1, T * out)
    BY Zenon DEF LinearForward, Vector, SumOver, Item, Place
  <2>2. z = [j \in 1 .. T * out |-> z[j]]
    OBVIOUS
  <2> HIDE DEF z, y
  <2>3. SubSeq(z, 1, T * out) = z
    BY <1>0, <2>2, Computed
  <2> QED BY <2>1, <2>3 DEF z
<1>2. X \in Mat(T, in) /\ W \in Mat(out, in)
  BY DEF IsFlat, Flat, Mat
<1>3. Y = [t \in 1 .. T |-> [o \in 1 .. out |-> Total(Prod(t, o))]]
  <2>1. Len(X) = T /\ Len(W) = out /\ \A o \in 1 .. out : Len(W[o]) = in
    <3>1. Len(X) = T
      BY <1>2, MatAt, Zenon
    <3>2. in \in Nat /\ out \in Nat
      OBVIOUS
    <3>3. Len(W) = out /\ \A o \in 1 .. out : Len(W[o]) = in
      <4> HIDE DEF y, Y, Prod
      <4> QED BY <1>2, <3>2, MatAt
    <3> QED BY <3>1, <3>3, Zenon
  <2> DEFINE r(t) == [o \in 1 .. Len(W) |-> Total([i \in 1 .. Len(W[o]) |-> X[t][i] * W[o][i]])]
  <2>2. Y = SubSeq([t \in 1 .. Len(X) |-> SubSeq(r(t), 1, Len(W))], 1, Len(X))
    BY Zenon DEF nn_Linear, Matrix, Row, Over
  <2>3. ASSUME NEW t PROVE r(t) = [o \in 1 .. out |-> Total(Prod(t, o))]
    BY <2>1, Zenon
  <2> HIDE DEF r, Y, Prod
  <2> QED BY <2>1, <2>2, <2>3
<1>4. ASSUME NEW t \in 1 .. T, NEW o \in 1 .. out PROVE Total(Prod(t, o)) \in Num
  <2>1. \A i \in 1 .. in : X[t][i] \in Num /\ W[o][i] \in Num
    BY <1>2, MatAt
  <2>2. Prod(t, o) \in [1 .. in -> Int]
    <3>1. ASSUME NEW i \in 1 .. in PROVE X[t][i] * W[o][i] \in Int
      <4>1. X[t][i] \in Int /\ W[o][i] \in Int
        BY <2>1, NumsAreInts
      <4> QED BY <4>1
    <3> QED BY <3>1
  <2> HIDE DEF Prod
  <2> QED BY <2>2, TotalType
<1>5. Y \in Mat(T, out)
  <2> HIDE DEF Prod, Y
  <2> QED BY <1>3, <1>4 DEF Mat, Rows
<1>6. ASSUME NEW t \in 0 .. T - 1, NEW o \in 0 .. out - 1
      PROVE  y[Place(out, t, o)] = Y[t + 1][o + 1]
  <2>1. /\ Place(out, t, o) \in 1 .. T * out
        /\ (Place(out, t, o) - 1) \div out = t
        /\ (Place(out, t, o) - 1) % out = o
    BY PlaceOf
  <2> DEFINE F == [i \in 1 .. in |-> x[Place(in, t, i - 1)] * w[Place(in, o, i - 1)]]
  <2>2. y[Place(out, t, o)] = Total(F)
    <3> HIDE DEF y
    <3> QED BY <1>1, <2>1
  <2>3. ASSUME NEW i \in 1 .. in
        PROVE  x[Place(in, t, i - 1)] * w[Place(in, o, i - 1)] = X[t + 1][i] * W[o + 1][i]
    <3>1. i - 1 \in 0 .. in - 1 /\ (i - 1) + 1 = i
      OBVIOUS
    <3>2. x[Place(in, t, i - 1)] = X[t + 1][(i - 1) + 1]
      BY <3>1, FlatAt
    <3>3. w[Place(in, o, i - 1)] = W[o + 1][(i - 1) + 1]
      BY <3>1, FlatAt
    <3> QED BY <3>1, <3>2, <3>3
  <2>4. F = Prod(t + 1, o + 1)
    BY <2>3
  <2>5. t + 1 \in 1 .. T /\ o + 1 \in 1 .. out
    OBVIOUS
  <2>6. Y[t + 1][o + 1] = Total(Prod(t + 1, o + 1))
    <3> HIDE DEF Y, Prod
    <3> QED BY <1>3, <2>5
  <2> HIDE DEF y, Y, F, Prod
  <2> QED BY <2>2, <2>4, <2>6
<1>7. y = [j \in 1 .. T * out |-> y[j]]
  <2> HIDE DEF y
  <2> QED BY <1>1
<1> HIDE DEF y, Y
<1>8. IsFlat(y, Y, T, out)
  BY <1>5, <1>6, <1>7, FlatIntro
<1> QED BY <1>8 DEF y, Y

(* The mean and the deviation of a row.                                    *)
LEMMA LayerNormRows ==
  ASSUME NEW T \in Nat, NEW x, NEW X, IsFlat(x, X, T, n_embd),
         NEW ln, ln.gamma \in Array(n_embd), ln.beta \in Array(n_embd)
  PROVE  IsFlat(LayerNormForward(ln, x, T), nn_LayerNorm(ln.gamma, ln.beta, X), T, n_embd)
<1> DEFINE n == n_embd
           y == LayerNormForward(ln, x, T)
           Y == nn_LayerNorm(ln.gamma, ln.beta, X)
           Part(v) == Divide(v, n_embd % P)
           \* the server's, rows and columns from 0
           Mean(t) == Part(Total([i \in 1 .. n |-> Item(x, t * n + (i - 1))]))
           mean == SubSeq([k \in 1 .. T |-> Mean(k - 1)], 1, T)
           Diff(t, c) == (Item(x, t * n + c) - Item(mean, t)) % P
           Dev(t) == Sqrt[Part(Total([i \in 1 .. n |-> Diff(t, i - 1) * Diff(t, i - 1)]))]
           stddev == SubSeq([k \in 1 .. T |-> Dev(k - 1)], 1, T)
           z == [k \in 1 .. T * n |->
                   (Divide(Diff((k - 1) \div n, (k - 1) % n), Item(stddev, (k - 1) \div n))
                      * Item(ln.gamma, (k - 1) % n) + Item(ln.beta, (k - 1) % n)) % P]
           \* the script's, rows and columns from 1
           Average(r) == Part(Total([i \in 1 .. n |-> r[i]]))
           Centered(r) == SubSeq([c \in 1 .. n |-> (r[c] - Average(r)) % P], 1, n)
           Squares(d) == SubSeq([c \in 1 .. n |-> d[c] * d[c]], 1, n)
           Scaled(d) == [c \in 1 .. n |->
             (Divide(d[c], Sqrt[Average(Squares(d))]) * ln.gamma[c] + ln.beta[c]) % P]
           Z == [t \in 1 .. T |-> SubSeq(Scaled(Centered(X[t])), 1, n)]
<1>0. n \in Nat \ {0} /\ T * n \in Nat /\ X \in Mat(T, n) /\ P \in Nat \ {0} /\ n % P \in Num
  BY TransformerAssumption, ModType DEF IsFlat, Flat, Mat
<1>1. y = SubSeq(z, 1, T * n)
  BY Zenon DEF LayerNormForward, Vector, SumOver
<1>2. Y = SubSeq(Z, 1, T)
  <2>1. Len(X) = T
    BY <1>0, MatAt
  <2> QED BY <2>1, Zenon DEF nn_LayerNorm, Row, Over
<1> HIDE DEF y, Y
<1>3. y = z /\ Y = Z
  <2>1. z = [k \in 1 .. T * n |-> z[k]] /\ Z = [k \in 1 .. T |-> Z[k]]
    OBVIOUS
  <2> HIDE DEF z, Z
  <2>2. SubSeq(z, 1, T * n) = z /\ SubSeq(Z, 1, T) = Z
    BY <1>0, <2>1, Computed
  <2> QED BY <1>1, <1>2, <2>2
<1> HIDE DEF mean, stddev
<1>4. \A t \in 1 .. T : mean[t] = Mean(t - 1) /\ stddev[t] = Dev(t - 1)
  <2> HIDE DEF Mean, Dev
  <2> QED BY DEF mean, stddev
<1>5. ASSUME NEW r \in [1 .. n -> Num]
      PROVE  /\ Average(r) \in Num
             /\ Centered(r) = [c \in 1 .. n |-> (r[c] - Average(r)) % P]
             /\ Centered(r) \in [1 .. n -> Num]
  <2>1. [i \in 1 .. n |-> r[i]] \in [1 .. n -> Int]
    BY NumsAreInts
  <2>2. Average(r) \in Num
    BY <2>1, TotalType, DivideType, <1>0
  <2>3. \A c \in 1 .. n : (r[c] - Average(r)) % P \in Num
    <3> HIDE DEF Average
    <3>1. \A c \in 1 .. n : r[c] - Average(r) \in Int
      <4>1. Average(r) \in Int /\ \A c \in 1 .. n : r[c] \in Int
        BY <2>2, NumsAreInts
      <4> QED BY <4>1
    <3> QED BY <3>1, ModType
  <2> HIDE DEF Average
  <2>4. Centered(r) = [c \in 1 .. n |-> (r[c] - Average(r)) % P]
    BY <1>0
  <2> QED BY <2>2, <2>3, <2>4
<1>6. ASSUME NEW d \in [1 .. n -> Num]
      PROVE  /\ Average(Squares(d)) = Part(Total([i \in 1 .. n |-> d[i] * d[i]]))
             /\ Average(Squares(d)) \in Num
             /\ Scaled(d) \in [1 .. n -> Num]
             /\ SubSeq(Scaled(d), 1, n) = Scaled(d)
  <2> DEFINE s == [c \in 1 .. n |-> d[c] * d[c]]
  <2>1. s \in [1 .. n -> Int]
    <3>1. \A c \in 1 .. n : d[c] \in Int
      BY NumsAreInts
    <3> QED BY <3>1
  <2>2. Squares(d) = s
    <3>1. s = [c \in 1 .. n |-> s[c]]
      OBVIOUS
    <3> HIDE DEF s
    <3> QED BY <1>0, <3>1, Computed DEF s
  <2>3. [i \in 1 .. n |-> s[i]] = s
    OBVIOUS
  <2>4. Average(Squares(d)) = Part(Total(s))
    <3> HIDE DEF s, Squares, Part
    <3> QED BY <2>2, <2>3
  <2>5. Part(Total(s)) \in Num
    <3> HIDE DEF s
    <3> QED BY <2>1, TotalType, DivideType, <1>0
  <2>6. Sqrt[Average(Squares(d))] \in Num
    <3> HIDE DEF Average, Squares, s
    <3> QED BY <2>4, <2>5, TransformerAssumption
  <2>7. ASSUME NEW c \in 1 .. n
        PROVE  (Divide(d[c], Sqrt[Average(Squares(d))]) * ln.gamma[c] + ln.beta[c]) % P \in Num
    <3> DEFINE q == Divide(d[c], Sqrt[Average(Squares(d))])
    <3>1. q \in Num
      <4> HIDE DEF Average, Squares
      <4> QED BY <2>6, DivideType
    <3>2. q \in Int /\ ln.gamma[c] \in Int /\ ln.beta[c] \in Int
      BY <3>1, NumsAreInts DEF Array
    <3> HIDE DEF q
    <3>3. q * ln.gamma[c] + ln.beta[c] \in Int
      BY <3>2
    <3> QED BY <3>3, ModType DEF q
  <2>8. Scaled(d) \in [1 .. n -> Num]
    <3> HIDE DEF Average, Squares
    <3> QED BY <2>7
  <2>9. SubSeq(Scaled(d), 1, n) = Scaled(d)
    <3>1. Scaled(d) = [c \in 1 .. n |-> Scaled(d)[c]]
      <4> HIDE DEF Average, Squares
      <4> QED OBVIOUS
    <3> HIDE DEF Scaled
    <3> QED BY <1>0, <3>1, Computed
  <2> HIDE DEF Average, Squares, Scaled, Part, s
  <2> QED BY <2>4, <2>5, <2>8, <2>9 DEF s
<1> HIDE DEF Centered, Average, Squares, Scaled
<1>7. ASSUME NEW t \in 1 .. T, NEW c \in 1 .. n
      PROVE  Item(x, (t - 1) * n + (c - 1)) = X[t][c]
  <2>1. t - 1 \in 0 .. T - 1 /\ c - 1 \in 0 .. n - 1 /\ (t - 1) + 1 = t /\ (c - 1) + 1 = c
    BY <1>0
  <2>2. x[Place(n, t - 1, c - 1)] = X[(t - 1) + 1][(c - 1) + 1]
    BY <1>0, <2>1, FlatAt
  <2>3. Item(x, (t - 1) * n + (c - 1)) = x[Place(n, t - 1, c - 1)]
    BY Zenon DEF Item, Place
  <2> QED BY <2>1, <2>2, <2>3
<1>8. ASSUME NEW t \in 1 .. T PROVE X[t] \in [1 .. n -> Num] /\ Mean(t - 1) = Average(X[t])
  <2>1. X[t] \in [1 .. n -> Num]
    BY <1>0, MatAt
  <2>2. [i \in 1 .. n |-> Item(x, (t - 1) * n + (i - 1))] = [i \in 1 .. n |-> X[t][i]]
    BY <1>7
  <2> QED BY <2>1, <2>2, Zenon DEF Average
<1>9. ASSUME NEW t \in 1 .. T, NEW c \in 1 .. n
      PROVE  Diff(t - 1, c - 1) = Centered(X[t])[c]
  <2>1. Centered(X[t])[c] = (X[t][c] - Average(X[t])) % P
    <3> DEFINE r == X[t]
    <3>1. r \in [1 .. n -> Num]
      BY <1>8
    <3> HIDE DEF r
    <3>2. Centered(r) = [k \in 1 .. n |-> (r[k] - Average(r)) % P]
      BY <3>1, <1>5
    <3> QED BY <3>2 DEF r
  <2>2. Item(mean, t - 1) = Average(X[t])
    <3>1. Item(mean, t - 1) = mean[t]
      BY DEF Item
    <3> HIDE DEF Mean
    <3> QED BY <3>1, <1>4, <1>8
  <2> QED BY <1>7, <2>1, <2>2
<1>10. ASSUME NEW t \in 1 .. T
       PROVE  /\ Centered(X[t]) \in [1 .. n -> Num]
              /\ Item(stddev, t - 1) = Sqrt[Average(Squares(Centered(X[t])))]
  <2> DEFINE d == Centered(X[t])
  <2>1. d \in [1 .. n -> Num]
    BY <1>8, <1>5
  <2>2. [i \in 1 .. n |-> Diff(t - 1, i - 1) * Diff(t - 1, i - 1)] = [i \in 1 .. n |-> d[i] * d[i]]
    <3>1. \A i \in 1 .. n : Diff(t - 1, i - 1) = d[i]
      BY <1>9
    <3> HIDE DEF Diff, d
    <3> QED BY <3>1
  <2>3. Dev(t - 1) = Sqrt[Part(Total([i \in 1 .. n |-> d[i] * d[i]]))]
    <3> HIDE DEF d, Diff
    <3> QED BY <2>2, Zenon
  <2>4. Item(stddev, t - 1) = Dev(t - 1)
    <3>1. Item(stddev, t - 1) = stddev[t]
      BY DEF Item
    <3> HIDE DEF Dev
    <3> QED BY <3>1, <1>4
  <2>5. Average(Squares(d)) = Part(Total([i \in 1 .. n |-> d[i] * d[i]]))
    <3> HIDE DEF d, Part
    <3> QED BY <2>1, <1>6
  <2> HIDE DEF Dev, Part, d
  <2> QED BY <2>1, <2>3, <2>4, <2>5 DEF d
<1>11. Y \in Mat(T, n)
  <2>1. ASSUME NEW t \in 1 .. T PROVE Z[t] = Scaled(Centered(X[t])) /\ Z[t] \in [1 .. n -> Num]
    <3> DEFINE d == Centered(X[t])
    <3>1. Z[t] = SubSeq(Scaled(d), 1, n)
      OBVIOUS
    <3>2. d \in [1 .. n -> Num]
      BY <1>10
    <3> HIDE DEF d
    <3>3. SubSeq(Scaled(d), 1, n) = Scaled(d) /\ Scaled(d) \in [1 .. n -> Num]
      BY <3>2, <1>6
    <3> QED BY <3>1, <3>3 DEF d
  <2>2. Z = [t \in 1 .. T |-> Z[t]]
    OBVIOUS
  <2> HIDE DEF Z
  <2> QED BY <1>3, <2>1, <2>2 DEF Mat, Rows
<1>12. ASSUME NEW t \in 0 .. T - 1, NEW c \in 0 .. n - 1
       PROVE  y[Place(n, t, c)] = Y[t + 1][c + 1]
  <2>0. t + 1 \in 1 .. T /\ c + 1 \in 1 .. n /\ (t + 1) - 1 = t /\ (c + 1) - 1 = c
    BY <1>0
  <2>1. /\ Place(n, t, c) \in 1 .. T * n
        /\ (Place(n, t, c) - 1) \div n = t
        /\ (Place(n, t, c) - 1) % n = c
    <3> HIDE DEF n
    <3> QED BY <1>0, PlaceOf
  <2> DEFINE d == Centered(X[t + 1])
             D == Diff(t, c)
             S == Item(stddev, t)
  <2>2. z[Place(n, t, c)] = (Divide(D, S) * Item(ln.gamma, c) + Item(ln.beta, c)) % P
    BY <2>1
  <2>3. D = d[c + 1]
    <3>1. Diff((t + 1) - 1, (c + 1) - 1) = d[c + 1]
      BY <2>0, <1>9
    <3> QED BY <3>1, <2>0
  <2>4. d \in [1 .. n -> Num] /\ S = Sqrt[Average(Squares(d))]
    <3>1. Item(stddev, (t + 1) - 1) = Sqrt[Average(Squares(d))] /\ d \in [1 .. n -> Num]
      BY <2>0, <1>10
    <3> QED BY <3>1, <2>0
  <2>5. Z[t + 1] = Scaled(d)
    <3>1. Z[t + 1] = SubSeq(Scaled(d), 1, n)
      BY <2>0
    <3> HIDE DEF d, Z
    <3> QED BY <3>1, <2>4, <1>6
  <2>6. Scaled(d)[c + 1]
          = (Divide(d[c + 1], Sqrt[Average(Squares(d))]) * ln.gamma[c + 1] + ln.beta[c + 1]) % P
    BY <2>0 DEF Scaled
  <2> HIDE DEF z, Z, D, S, d
  <2>7. z[Place(n, t, c)] = Scaled(d)[c + 1]
    BY <2>2, <2>3, <2>4, <2>6 DEF Item
  <2> QED BY <2>5, <2>7, <1>3
<1>13. y = [j \in 1 .. T * n |-> y[j]]
  <2>1. z = [j \in 1 .. T * n |-> z[j]]
    OBVIOUS
  <2> HIDE DEF z
  <2> QED BY <1>3, <2>1
<1>14. IsFlat(y, Y, T, n)
  <2> HIDE DEF z, Z
  <2> QED BY <1>0, <1>11, <1>12, <1>13, FlatIntro
<1> QED BY <1>14 DEF y, Y

TokenRows(E, ids) == Row(Len(ids), LAMBDA t : E[ids[t] + 1])

LEMMA EmbeddingRows ==
  ASSUME NEW w, NEW E, IsFlat(w, E, vocab_size, n_embd), NEW ids \in Seq(Ids)
  PROVE  IsFlat(EmbeddingForward(w, ids), TokenRows(E, ids), Len(ids), n_embd)
<1> DEFINE n == n_embd
           T == Len(ids)
           y == EmbeddingForward(w, ids)
           R == TokenRows(E, ids)
           z == [k \in 1 .. T * n |-> Item(w, Item(ids, (k - 1) \div n) * n + ((k - 1) % n))]
           Z == [t \in 1 .. T |-> E[ids[t] + 1]]
<1>0. /\ n \in Nat \ {0} /\ T \in Nat /\ T * n \in Nat
      /\ E \in Mat(vocab_size, n) /\ vocab_size \in Nat
  <2>1. T \in Nat
    BY LenProperties
  <2>2. n \in Nat \ {0} /\ E \in Mat(vocab_size, n) /\ vocab_size \in Nat
    BY TransformerAssumption DEF IsFlat, Flat, Mat
  <2> HIDE DEF n, T
  <2> QED BY <2>1, <2>2
<1>1. \A t \in 1 .. T : ids[t] \in 0 .. vocab_size - 1 /\ ids[t] + 1 \in 1 .. vocab_size
  <2>1. \A t \in 1 .. T : ids[t] \in Ids
    BY ElementOfSeq
  <2> HIDE DEF T
  <2> QED BY <1>0, <2>1 DEF Ids
<1>2. y = z /\ R = Z
  <2>1. y = SubSeq(z, 1, T * n) /\ R = SubSeq(Z, 1, T)
    BY Zenon DEF EmbeddingForward, Vector, TokenRows, Row
  <2>2. z = [k \in 1 .. T * n |-> z[k]] /\ Z = [k \in 1 .. T |-> Z[k]]
    OBVIOUS
  <2> HIDE DEF z, Z, y, R, n, T
  <2> QED BY <1>0, <2>1, <2>2, Computed
<1>3. Z \in Mat(T, n)
  <2>1. \A t \in 1 .. T : E[ids[t] + 1] \in [1 .. n -> Num]
    BY <1>0, <1>1, MatAt
  <2> HIDE DEF n, T
  <2> QED BY <2>1 DEF Mat, Rows
<1>4. ASSUME NEW t \in 0 .. T - 1, NEW c \in 0 .. n - 1
      PROVE  z[Place(n, t, c)] = Z[t + 1][c + 1]
  <2>1. /\ Place(n, t, c) \in 1 .. T * n
        /\ (Place(n, t, c) - 1) \div n = t
        /\ (Place(n, t, c) - 1) % n = c
    <3> HIDE DEF n, T
    <3> QED BY <1>0, PlaceOf
  <2>2. t + 1 \in 1 .. T
    <3> HIDE DEF n, T
    <3> QED BY <1>0
  <2> DEFINE v == ids[t + 1]
  <2>3. z[Place(n, t, c)] = w[Place(n, v, c)]
    <3>1. z[Place(n, t, c)] = Item(w, Item(ids, t) * n + c)
      BY <2>1
    <3>2. Item(w, Item(ids, t) * n + c) = w[Place(n, v, c)]
      BY Zenon DEF Item, Place
    <3> QED BY <3>1, <3>2
  <2>4. v \in 0 .. vocab_size - 1
    BY <1>1, <2>2
  <2>5. Z[t + 1][c + 1] = E[v + 1][c + 1]
    BY <2>2
  <2> HIDE DEF z, Z, v, n, T
  <2>6. w[Place(n, v, c)] = E[v + 1][c + 1]
    BY <1>0, <2>4, FlatAt DEF n
  <2> QED BY <2>3, <2>5, <2>6
<1>5. y = [j \in 1 .. T * n |-> y[j]]
  <2>1. z = [j \in 1 .. T * n |-> z[j]]
    OBVIOUS
  <2> HIDE DEF z
  <2> QED BY <1>2, <2>1
<1>6. IsFlat(y, R, T, n)
  <2> HIDE DEF z, Z, y, R, n, T
  <2> QED BY <1>0, <1>2, <1>3, <1>4, <1>5, FlatIntro
<1> QED BY <1>6

(* The table of positions, of which a sequence meets the first rows.       *)
LEMMA PositionRows ==
  ASSUME NEW T \in 0 .. max_context
  PROVE  /\ sinusoidal_embeddings(T) \in Mat(T, n_embd)
         /\ \A t \in 0 .. T - 1, c \in 0 .. n_embd - 1 :
              SinusoidalGlobalPE[Place(n_embd, t, c)] = sinusoidal_embeddings(T)[t + 1][c + 1]
<1> DEFINE n == n_embd
           Y == sinusoidal_embeddings(T)
           Wave(t, c) == IF c % 2 = 1 THEN Sin[t - 1][(c - 1) \div 2] ELSE Cos[t - 1][(c - 2) \div 2]
           z == [k \in 1 .. max_context * n |->
                   LET pos == (k - 1) \div n
                       pair == ((k - 1) % n) \div 2
                   IN IF (k - 1) % 2 = 0 THEN Sin[pos][pair] ELSE Cos[pos][pair]]
<1>0. n \in Nat \ {0} /\ max_context \in Nat /\ T \in Nat /\ n % 2 = 0
      /\ max_context * n \in Nat
  <2>1. n \in Nat \ {0} /\ max_context \in Nat /\ n % 2 = 0
    BY TransformerAssumption
  <2> HIDE DEF n
  <2> QED BY <2>1
<1>1. SinusoidalGlobalPE = z
  <2>1. SinusoidalGlobalPE = SubSeq(z, 1, max_context * n)
    BY Zenon DEF SinusoidalGlobalPE, Vector
  <2>2. z = [k \in 1 .. max_context * n |-> z[k]]
    OBVIOUS
  <2> HIDE DEF z, n
  <2> QED BY <1>0, <2>1, <2>2, Computed
<1>2. Y = [t \in 1 .. T |-> [c \in 1 .. n |-> Wave(t, c)]]
  <2> DEFINE W == [t \in 1 .. T |-> SubSeq([c \in 1 .. n |-> Wave(t, c)], 1, n)]
  <2>1. Y = SubSeq(W, 1, T)
    BY Zenon DEF sinusoidal_embeddings, Matrix, Row
  <2>2. ASSUME NEW t \in 1 .. T
        PROVE  SubSeq([c \in 1 .. n |-> Wave(t, c)], 1, n) = [c \in 1 .. n |-> Wave(t, c)]
    <3> DEFINE r == [c \in 1 .. n |-> Wave(t, c)]
    <3>1. r = [c \in 1 .. n |-> r[c]]
      OBVIOUS
    <3> HIDE DEF r, n
    <3> QED BY <1>0, <3>1, Computed
  <2>3. W = [t \in 1 .. T |-> W[t]]
    OBVIOUS
  <2>4. Y = W
    <3> HIDE DEF W
    <3> QED BY <1>0, <2>1, <2>3, Computed
  <2> HIDE DEF Wave, Y
  <2> QED BY <2>2, <2>4
<1>3. ASSUME NEW t \in 0 .. T - 1, NEW c \in 0 .. n - 1
      PROVE  /\ c \div 2 \in 0 .. n \div 2 - 1
             /\ Wave(t + 1, c + 1) = IF c % 2 = 0 THEN Sin[t][c \div 2] ELSE Cos[t][c \div 2]
  <2>0. n \in Nat \ {0} /\ n % 2 = 0 /\ c \in Nat /\ c < n /\ (t + 1) - 1 = t /\ (c + 1) - 1 = c
    <3> HIDE DEF n
    <3> QED BY <1>0
  <2>1. c \div 2 \in 0 .. n \div 2 - 1
    <3> HIDE DEF n
    <3> QED BY <2>0
  <2>2. CASE c % 2 = 0
    <3>1. (c + 1) % 2 = 1
      BY <2>0, <2>2
    <3> QED BY <2>0, <2>1, <2>2, <3>1
  <2>3. CASE c % 2 = 1
    <3>1. (c + 1) % 2 = 0 /\ ((c + 1) - 2) \div 2 = c \div 2
      BY <2>0, <2>3
    <3> QED BY <2>0, <2>1, <2>3, <3>1
  <2>4. c % 2 = 0 \/ c % 2 = 1
    BY <2>0
  <2> HIDE DEF Wave
  <2> QED BY <2>1, <2>2, <2>3, <2>4
<1>4. ASSUME NEW t \in 0 .. T - 1, NEW c \in 0 .. n - 1
      PROVE  Wave(t + 1, c + 1) \in Num
  <2>1. t \in 0 .. max_context - 1
    BY <1>0
  <2>2. /\ Sin[t] \in [0 .. n \div 2 - 1 -> Num]
        /\ Cos[t] \in [0 .. n \div 2 - 1 -> Num]
    BY <2>1, TransformerAssumption
  <2> HIDE DEF Wave, n
  <2> QED BY <1>3, <2>2
<1>5. Y \in Mat(T, n)
  <2>1. ASSUME NEW t \in 1 .. T, NEW c \in 1 .. n PROVE Wave(t, c) \in Num
    <3>1. t - 1 \in 0 .. T - 1 /\ c - 1 \in 0 .. n - 1 /\ (t - 1) + 1 = t /\ (c - 1) + 1 = c
      <4> HIDE DEF n
      <4> QED BY <1>0
    <3> HIDE DEF Wave, n
    <3>2. Wave((t - 1) + 1, (c - 1) + 1) \in Num
      BY <3>1, <1>4
    <3> QED BY <3>1, <3>2
  <2> HIDE DEF Wave, Y, n
  <2> QED BY <1>2, <2>1 DEF Mat, Rows
<1>6. ASSUME NEW t \in 0 .. T - 1, NEW c \in 0 .. n - 1
      PROVE  SinusoidalGlobalPE[Place(n, t, c)] = Y[t + 1][c + 1]
  <2>0. t \in 0 .. max_context - 1 /\ t + 1 \in 1 .. T /\ c + 1 \in 1 .. n
    <3> HIDE DEF n
    <3> QED BY <1>0
  <2>1. /\ Place(n, t, c) \in 1 .. max_context * n
        /\ (Place(n, t, c) - 1) \div n = t
        /\ (Place(n, t, c) - 1) % n = c
    <3> HIDE DEF n
    <3> QED BY <1>0, <2>0, PlaceOf
  <2>2. (Place(n, t, c) - 1) % 2 = c % 2
    <3>1. PICK h \in Int : n = 2 * h
      <4> HIDE DEF n
      <4>1. n = 2 * (n \div 2) + 0 /\ n \div 2 \in Int
        BY <1>0
      <4> QED BY <4>1, <1>0
    <3>2. Place(n, t, c) - 1 = 2 * (t * h) + c /\ t * h \in Int
      <4>1. t * n = 2 * (t * h) /\ t * h \in Int
        BY <3>1
      <4> HIDE DEF n
      <4> DEFINE u == t * h
      <4>2. t * n = 2 * u /\ u \in Int
        BY <4>1
      <4>3. Place(n, t, c) - 1 = t * n + c
        <5>1. t * n \in Int
          BY <1>0
        <5> QED BY <5>1, <1>0 DEF Place
      <4> HIDE DEF u
      <4> QED BY <4>2, <4>3 DEF u
    <3> DEFINE u == t * h
    <3> HIDE DEF u
    <3>3. Place(n, t, c) - 1 = 2 * u + c /\ u \in Int
      BY <3>2 DEF u
    <3>4. (2 * u + c) % 2 = c % 2
      BY <3>3
    <3> QED BY <3>3, <3>4
  <2>3. z[Place(n, t, c)] = IF c % 2 = 0 THEN Sin[t][c \div 2] ELSE Cos[t][c \div 2]
    BY <2>1, <2>2
  <2> HIDE DEF z, Wave, Y, n
  <2>4. Y[t + 1][c + 1] = Wave(t + 1, c + 1)
    BY <1>2, <2>0
  <2> QED BY <1>1, <1>3, <2>3, <2>4
<1> QED BY <1>5, <1>6

LEMMA AddRows ==
  ASSUME NEW T \in Nat, NEW x, NEW X, IsFlat(x, X, T, n_embd), NEW Y \in Mat(T, n_embd),
         NEW y, \A t \in 0 .. T - 1, c \in 0 .. n_embd - 1 :
                  y[Place(n_embd, t, c)] = Y[t + 1][c + 1]
  PROVE  IsFlat(AddVectors(x, y), Plus(X, Y), T, n_embd)
<1> DEFINE n == n_embd
           a == AddVectors(x, y)
           A == Plus(X, Y)
           z == [k \in 1 .. T * n |-> (Item(x, k - 1) + Item(y, k - 1)) % P]
           Z == [t \in 1 .. T |-> [c \in 1 .. n |-> (X[t][c] + Y[t][c]) % P]]
<1>0. n \in Nat \ {0} /\ T * n \in Nat /\ X \in Mat(T, n) /\ Len(x) = T * n /\ Len(X) = T
  <2>1. n \in Nat \ {0} /\ X \in Mat(T, n) /\ x \in [1 .. T * n -> Num]
    BY TransformerAssumption DEF IsFlat, Flat, Mat
  <2>2. Len(X) = T
    BY <2>1, MatAt
  <2> HIDE DEF n
  <2>3. T * n \in Nat
    BY <2>1
  <2> DEFINE l == T * n
  <2> HIDE DEF l
  <2>4. Len(x) = l
    BY <2>1, <2>3 DEF l
  <2> QED BY <2>1, <2>2, <2>3, <2>4 DEF l
<1>1. a = z
  <2>1. a = SubSeq(z, 1, T * n)
    BY <1>0, Zenon DEF AddVectors, Vector
  <2>2. z = [k \in 1 .. T * n |-> z[k]]
    OBVIOUS
  <2> HIDE DEF z, n, a
  <2> QED BY <1>0, <2>1, <2>2, Computed
<1>2. A = Z
  <2> DEFINE W == [t \in 1 .. T |-> SubSeq([c \in 1 .. n |-> (X[t][c] + Y[t][c]) % P], 1, n)]
  <2>1. A = SubSeq(W, 1, T)
    BY <1>0, Zenon DEF Plus, Matrix, Row
  <2>2. ASSUME NEW t \in 1 .. T
        PROVE  SubSeq([c \in 1 .. n |-> (X[t][c] + Y[t][c]) % P], 1, n)
                 = [c \in 1 .. n |-> (X[t][c] + Y[t][c]) % P]
    <3> DEFINE r == [c \in 1 .. n |-> (X[t][c] + Y[t][c]) % P]
    <3>1. r = [c \in 1 .. n |-> r[c]]
      OBVIOUS
    <3> HIDE DEF r, n
    <3> QED BY <1>0, <3>1, Computed
  <2>3. W = [t \in 1 .. T |-> W[t]]
    OBVIOUS
  <2>4. A = W
    <3> HIDE DEF W, A
    <3> QED BY <2>1, <2>3, Computed
  <2> HIDE DEF A
  <2> QED BY <2>2, <2>4
<1>3. ASSUME NEW t \in 1 .. T, NEW c \in 1 .. n
      PROVE  X[t][c] \in Int /\ Y[t][c] \in Int /\ (X[t][c] + Y[t][c]) % P \in Num
  <2>1. X[t][c] \in Int /\ Y[t][c] \in Int
    BY <1>0, MatAt, NumsAreInts
  <2>2. X[t][c] + Y[t][c] \in Int
    BY <2>1
  <2> QED BY <2>1, <2>2, ModType
<1>4. A \in Mat(T, n)
  <2> HIDE DEF A
  <2> QED BY <1>2, <1>3 DEF Mat, Rows
<1>5. ASSUME NEW t \in 0 .. T - 1, NEW c \in 0 .. n - 1
      PROVE  a[Place(n, t, c)] = A[t + 1][c + 1]
  <2>0. t + 1 \in 1 .. T /\ c + 1 \in 1 .. n
    <3> HIDE DEF n
    <3> QED BY <1>0
  <2> DEFINE p == Place(n, t, c)
  <2>1. p \in 1 .. T * n
    <3> HIDE DEF n
    <3> QED BY <1>0, PlaceOf
  <2>2. Item(x, p - 1) = x[p] /\ Item(y, p - 1) = y[p]
    <3> DEFINE l == T * n
    <3>1. p \in 1 .. l /\ l \in Nat
      BY <2>1, <1>0
    <3> HIDE DEF p, l
    <3>2. (p - 1) + 1 = p
      BY <3>1
    <3> QED BY <3>2 DEF Item
  <2>3. x[p] = X[t + 1][c + 1] /\ y[p] = Y[t + 1][c + 1]
    BY <1>0, FlatAt
  <2>4. z[p] = (Item(x, p - 1) + Item(y, p - 1)) % P
    <3> HIDE DEF p
    <3> QED BY <2>1
  <2>5. Z[t + 1][c + 1] = (X[t + 1][c + 1] + Y[t + 1][c + 1]) % P
    BY <2>0
  <2> HIDE DEF z, Z, a, A, p
  <2> QED BY <1>1, <1>2, <2>2, <2>3, <2>4, <2>5 DEF p
<1>6. a = [j \in 1 .. T * n |-> a[j]]
  <2>1. z = [j \in 1 .. T * n |-> z[j]]
    OBVIOUS
  <2> HIDE DEF z, a
  <2> QED BY <1>1, <2>1
<1>7. IsFlat(a, A, T, n)
  <2> HIDE DEF z, Z, a, A, n
  <2> QED BY <1>0, <1>4, <1>5, <1>6, FlatIntro
<1> QED BY <1>7

LEMMA HeadSize == head_size \in Nat \ {0} /\ n_head * head_size = n_embd
<1>1. n_embd \in Nat \ {0} /\ n_head \in Nat \ {0} /\ n_embd % n_head = 0
  BY TransformerAssumption
<1>2. n_embd = n_head * head_size + 0 /\ head_size \in Int
  BY <1>1, DivMod DEF head_size
<1>3. n_head * head_size = n_embd
  BY <1>1, <1>2
<1>4. head_size > 0
  <2>1. CASE head_size <= 0
    <3>1. n_head * head_size <= 0
      BY <1>1, <1>2, <2>1
    <3> QED BY <3>1, <1>3, <1>1
  <2> QED BY <2>1, <1>2
<1> QED BY <1>2, <1>3, <1>4

(* Row t of a square array: what r has up to place t, then the same number.*)
RowUpTo(T, a, t, r, rest) ==
  \A u \in 0 .. T - 1 : a[Place(T, t, u)] = IF u > t THEN rest ELSE r[u + 1]

LEMMA PlaceSquare ==
  ASSUME NEW T \in Nat \ {0}, NEW t \in 0 .. T - 1, NEW u \in 0 .. T - 1
  PROVE  /\ Place(T, t, u) \in 1 .. T * T
         /\ (Place(T, t, u) - 1) \div T = t
         /\ (Place(T, t, u) - 1) % T = u
BY PlaceOf

(* The scores of token t for the tokens up to it, and the mask.            *)
LEMMA ScoreRows ==
  ASSUME NEW T \in Nat \ {0}, NEW q, NEW Q, IsFlat(q, Q, T, head_size),
         NEW k, NEW K, IsFlat(k, K, T, head_size),
         NEW t \in 0 .. T - 1
  PROVE  /\ ScoresOf(Q, K, Scale[head_size], t + 1) \in Array(t + 1)
         /\ RowUpTo(T, Scores(q, k, T), t, ScoresOf(Q, K, Scale[head_size], t + 1), -P)
<1> DEFINE n == head_size
           s == Scores(q, k, T)
           r == ScoresOf(Q, K, Scale[head_size], t + 1)
           \* rows from 0 in the server, from 1 in the script
           Dot(a, b) == Total([i \in 1 .. n |-> Item(q, a * n + (i - 1)) * Item(k, b * n + (i - 1))])
           Prod(a, b) == [i \in 1 .. n |-> Q[a][i] * K[b][i]]
           z == [j \in 1 .. T * T |->
                  IF IsMasked((j - 1) \div T, (j - 1) % T) THEN -Infinity
                  ELSE (Dot((j - 1) \div T, (j - 1) % T) * Scale[n]) % P]
           R == [u \in 1 .. t + 1 |-> (Total(Prod(t + 1, u)) * Scale[n]) % P]
<1>0. /\ n \in Nat \ {0} /\ T * T \in Nat /\ Scale[n] \in Num /\ t + 1 \in Nat
      /\ Q \in Mat(T, n) /\ K \in Mat(T, n)
  <2>1. n \in Nat \ {0} /\ Scale[n] \in Num
    BY HeadSize, TransformerAssumption
  <2>2. Q \in Mat(T, n) /\ K \in Mat(T, n)
    BY DEF IsFlat, Flat, Mat
  <2> HIDE DEF n
  <2> QED BY <2>1, <2>2
<1>1. s = z
  <2>1. s = SubSeq(z, 1, T * T)
    BY Zenon DEF Scores, Vector, SumOver
  <2>2. z = [j \in 1 .. T * T |-> z[j]]
    OBVIOUS
  <2> HIDE DEF z, s
  <2> QED BY <1>0, <2>1, <2>2, Computed
<1>2. r = R
  <2>1. r = SubSeq(R, 1, t + 1)
    BY Zenon DEF ScoresOf, Row, Over
  <2>2. R = [u \in 1 .. t + 1 |-> R[u]]
    OBVIOUS
  <2> HIDE DEF R, r
  <2> QED BY <1>0, <2>1, <2>2, Computed
<1>3. ASSUME NEW u \in 0 .. T - 1
      PROVE  /\ Dot(t, u) = Total(Prod(t + 1, u + 1))
             /\ (Total(Prod(t + 1, u + 1)) * Scale[n]) % P \in Num
  <2>0. t + 1 \in 1 .. T /\ u + 1 \in 1 .. T
    OBVIOUS
  <2>1. ASSUME NEW i \in 1 .. n
        PROVE  /\ Item(q, t * n + (i - 1)) = Q[t + 1][i]
               /\ Item(k, u * n + (i - 1)) = K[u + 1][i]
               /\ Q[t + 1][i] \in Int /\ K[u + 1][i] \in Int
    <3>1. i - 1 \in 0 .. n - 1 /\ (i - 1) + 1 = i
      <4> HIDE DEF n
      <4> QED BY <1>0
    <3>2. Item(q, t * n + (i - 1)) = q[Place(n, t, i - 1)]
          /\ Item(k, u * n + (i - 1)) = k[Place(n, u, i - 1)]
      BY Zenon DEF Item, Place
    <3> HIDE DEF n
    <3>3. /\ q[Place(n, t, i - 1)] = Q[t + 1][(i - 1) + 1]
          /\ k[Place(n, u, i - 1)] = K[u + 1][(i - 1) + 1]
      BY <1>0, <3>1, FlatAt DEF n
    <3>4. Q[t + 1][i] \in Int /\ K[u + 1][i] \in Int
      BY <1>0, <2>0, MatAt, NumsAreInts
    <3> QED BY <3>1, <3>2, <3>3, <3>4
  <2>2. Dot(t, u) = Total(Prod(t + 1, u + 1))
    <3>1. [i \in 1 .. n |-> Item(q, t * n + (i - 1)) * Item(k, u * n + (i - 1))] = Prod(t + 1, u + 1)
      BY <2>1
    <3> HIDE DEF Prod
    <3> QED BY <3>1, Zenon
  <2>3. Prod(t + 1, u + 1) \in [1 .. n -> Int]
    <3>1. \A i \in 1 .. n : Q[t + 1][i] * K[u + 1][i] \in Int
      BY <2>1
    <3> QED BY <3>1
  <2>4. Total(Prod(t + 1, u + 1)) \in Int
    <3> HIDE DEF Prod, n
    <3> QED BY <1>0, <2>3, TotalType, NumsAreInts
  <2>5. Total(Prod(t + 1, u + 1)) * Scale[n] \in Int
    <3>1. Scale[n] \in Int
      BY <1>0, NumsAreInts
    <3> HIDE DEF Prod
    <3> QED BY <2>4, <3>1
  <2> QED BY <2>2, <2>5, ModType
<1>4. r \in [1 .. t + 1 -> Num]
  <2>1. ASSUME NEW u \in 1 .. t + 1 PROVE (Total(Prod(t + 1, u)) * Scale[n]) % P \in Num
    <3>1. u - 1 \in 0 .. T - 1 /\ (u - 1) + 1 = u
      OBVIOUS
    <3>2. (Total(Prod(t + 1, (u - 1) + 1)) * Scale[n]) % P \in Num
      BY <3>1, <1>3
    <3> QED BY <3>1, <3>2
  <2> HIDE DEF r, Prod, n
  <2> QED BY <1>2, <2>1
<1>5. ASSUME NEW u \in 0 .. T - 1
      PROVE  s[Place(T, t, u)] = IF u > t THEN -P ELSE r[u + 1]
  <2>1. /\ Place(T, t, u) \in 1 .. T * T
        /\ (Place(T, t, u) - 1) \div T = t
        /\ (Place(T, t, u) - 1) % T = u
    BY PlaceSquare, Zenon
  <2>2. z[Place(T, t, u)] = IF u > t THEN -P ELSE (Dot(t, u) * Scale[n]) % P
    <3> HIDE DEF Dot
    <3> QED BY <2>1 DEF IsMasked, Infinity
  <2>3. ~(u > t) => R[u + 1] = (Total(Prod(t + 1, u + 1)) * Scale[n]) % P
    <3> HIDE DEF Prod, n
    <3> QED OBVIOUS
  <2> HIDE DEF Dot, Prod, z, R, n
  <2> QED BY <1>1, <1>2, <1>3, <2>2, <2>3
<1>6. r \in Array(t + 1) /\ RowUpTo(T, s, t, r, -P)
  <2> HIDE DEF s, r
  <2> QED BY <1>4, <1>5 DEF RowUpTo, Array
<1> QED BY <1>6

LEMMA JoinSquare ==
  ASSUME NEW T \in Nat \ {0}, NEW t \in 0 .. T - 1, NEW u \in 0 .. T - 1
  PROVE  t * T + u \in 0 .. T * T - 1 /\ (t * T + u) \div T = t
BY Join

(* Softmax on a row: what is masked is worth nothing.                      *)
LEMMA SoftmaxRow ==
  ASSUME NEW T \in Nat \ {0}, NEW s, NEW t \in 0 .. T - 1,
         NEW r \in Array(t + 1), RowUpTo(T, s, t, r, -P)
  PROVE  /\ Softmax(r) \in Array(t + 1)
         /\ RowUpTo(T, SoftmaxRows(s, T), t, Softmax(r), 0)
<1> DEFINE m == t + 1
           A(a) == {Item(s, a * T + u) : u \in 0 .. T - 1}
           B == {r[u] : u \in DOMAIN r}
           max_val == SubSeq([k \in 1 .. T |-> Max(A(k - 1))], 1, T)
           e == [u \in 1 .. m |-> Exp[(r[u] - Max(B)) % P]]
           E(j) == IF Item(s, j) = -Infinity THEN 0
                   ELSE Exp[(Item(s, j) - Item(max_val, j \div T)) % P]
           expv == SubSeq([j \in 1 .. T * T |-> E(j - 1)], 1, T * T)
           RowSum(a) == Total([u \in 1 .. T |-> Item(expv, a * T + (u - 1))])
           sum == SubSeq([k \in 1 .. T |-> RowSum(k - 1)], 1, T)
           z == [j \in 1 .. T * T |-> Divide(Item(expv, j - 1), Item(sum, (j - 1) \div T))]
<1>0. T * T \in Nat /\ m \in Nat \ {0} /\ m \in 0 .. T
  OBVIOUS
<1>a. r \in [1 .. m -> Num]
  BY DEF Array
<1>b. \A u \in 0 .. T - 1 : s[Place(T, t, u)] = IF u > t THEN -P ELSE r[u + 1]
  BY DEF RowUpTo
<1> USE <1>a, <1>b
<1>1. SoftmaxRows(s, T) = z
  <2>1. SoftmaxRows(s, T) = SubSeq(z, 1, T * T)
    BY Zenon DEF SoftmaxRows, Vector, SumOver
  <2>2. z = [j \in 1 .. T * T |-> z[j]]
    OBVIOUS
  <2> HIDE DEF z
  <2> QED BY <1>0, <2>1, <2>2, Computed
<1>2. Softmax(r) = [u \in 1 .. m |-> Divide(e[u], Total(e))]
  <2>1. Len(r) = m
    OBVIOUS
  <2>2. SubSeq(e, 1, m) = e
    <3>1. e = [u \in 1 .. m |-> e[u]]
      OBVIOUS
    <3> HIDE DEF e, m
    <3> QED BY <1>0, <3>1, Computed
  <2> DEFINE F == [u \in 1 .. m |-> Divide(SubSeq(e, 1, m)[u], Total([v \in 1 .. m |-> SubSeq(e, 1, m)[v]]))]
  <2>3. Softmax(r) = SubSeq(F, 1, m)
    BY <2>1, Zenon DEF Softmax, Row, Over
  <2>4. SubSeq(F, 1, m) = F
    <3>1. F = [u \in 1 .. m |-> F[u]]
      OBVIOUS
    <3> HIDE DEF F, m
    <3> QED BY <1>0, <3>1, Computed
  <2>5. [v \in 1 .. m |-> e[v]] = e
    OBVIOUS
  <2>6. F = [u \in 1 .. m |-> Divide(e[u], Total(e))]
    <3> HIDE DEF e, m
    <3> QED BY <2>2, <2>5
  <2> QED BY <2>3, <2>4, <2>6
\* the greatest score of the row is one that is not masked
<1>3. Max(A(t)) = Max(B) /\ Max(B) \in Num
  <2>1. ASSUME NEW u \in 0 .. T - 1
        PROVE  Item(s, t * T + u) = IF u > t THEN -P ELSE r[u + 1]
    <3>1. Item(s, t * T + u) = s[Place(T, t, u)]
      BY Zenon DEF Item, Place
    <3> QED BY <3>1
  <2>2. B \subseteq Num /\ r[1] \in B
    OBVIOUS
  <2>3. B \subseteq A(t)
    <3>1. ASSUME NEW u \in 1 .. m PROVE r[u] \in A(t)
      <4>1. u - 1 \in 0 .. T - 1 /\ ~(u - 1 > t) /\ (u - 1) + 1 = u
        OBVIOUS
      <4>2. Item(s, t * T + (u - 1)) = r[u]
        BY <4>1, <2>1
      <4> QED BY <4>1, <4>2
    <3> HIDE DEF A
    <3> QED BY <3>1
  <2>4. \A x \in A(t) : x \in B \/ x = -P
    <3>1. ASSUME NEW u \in 0 .. T - 1 PROVE Item(s, t * T + u) \in B \/ Item(s, t * T + u) = -P
      <4>1. CASE u > t
        BY <4>1, <2>1
      <4>2. CASE ~(u > t)
        <5>1. u + 1 \in DOMAIN r
          BY <4>2
        <5> QED BY <4>2, <5>1, <2>1
      <4> QED BY <4>1, <4>2
    <3> HIDE DEF B
    <3> QED BY <3>1
  <2> DEFINE a == A(t)
             b == B
  <2>5. b \subseteq a /\ r[1] \in b /\ b \subseteq Num /\ \A x \in a : x \in b \/ x = -P
    <3> HIDE DEF A, B
    <3> QED BY <2>2, <2>3, <2>4
  <2> HIDE DEF a, b
  <2>6. \A x \in Num : x \in Int /\ 0 <= x /\ x <= P
    BY PositiveP DEF Num
  <2>7. Max(b) \in b /\ \A x \in b : x <= Max(b)
    <3>1. b # {} /\ \A x \in b : x \in Int /\ x <= P
      BY <2>5, <2>6
    <3> QED BY <3>1, MaxOf, PositiveP
  <2>8. Max(a) \in a /\ \A x \in a : x <= Max(a)
    <3>1. a # {} /\ \A x \in a : x \in Int /\ x <= P
      BY <2>5, <2>6, PositiveP
    <3> QED BY <3>1, MaxOf, PositiveP
  <2>9. Max(a) \in b
    <3>1. r[1] <= Max(a) /\ 0 <= r[1] /\ r[1] \in Int
      BY <2>5, <2>6, <2>8
    <3>2. Max(a) # -P
      BY <3>1, PositiveP
    <3> QED BY <3>2, <2>5, <2>8
  <2>10. Max(a) <= Max(b) /\ Max(b) <= Max(a) /\ Max(a) \in Int /\ Max(b) \in Int
    BY <2>5, <2>6, <2>7, <2>8, <2>9
  <2>11. Max(a) = Max(b) /\ Max(b) \in Num
    BY <2>5, <2>7, <2>10
  <2> HIDE DEF A, B
  <2> QED BY <2>11 DEF a, b
<1>4. e \in [1 .. m -> Num]
  <2>1. ASSUME NEW u \in 1 .. m PROVE Exp[(r[u] - Max(B)) % P] \in Num
    <3>1. r[u] \in Int /\ Max(B) \in Int
      <4> HIDE DEF B
      <4> QED BY <1>3, NumsAreInts
    <3>2. (r[u] - Max(B)) % P \in Num
      <4> HIDE DEF B
      <4>1. r[u] - Max(B) \in Int
        BY <3>1
      <4> QED BY <4>1, ModType
    <3> HIDE DEF B
    <3> QED BY <3>2, TransformerAssumption
  <2> HIDE DEF B
  <2> QED BY <2>1
<1>5. ASSUME NEW u \in 0 .. T - 1
      PROVE  Item(expv, t * T + u) = IF u > t THEN 0 ELSE e[u + 1]
  <2> DEFINE j == t * T + u
  <2>1. j \in 0 .. T * T - 1 /\ j \div T = t
    BY JoinSquare
  <2>2. expv = [i \in 1 .. T * T |-> E(i - 1)]
    <3> DEFINE x == [i \in 1 .. T * T |-> E(i - 1)]
    <3>1. x = [i \in 1 .. T * T |-> x[i]]
      OBVIOUS
    <3> HIDE DEF x
    <3> QED BY <1>0, <3>1, Computed DEF x
  <2>3. Item(expv, j) = E(j)
    <3> HIDE DEF j, E, expv
    <3>1. j + 1 \in 1 .. T * T /\ (j + 1) - 1 = j
      BY <1>0, <2>1
    <3> QED BY <3>1, <2>2 DEF Item
  <2>4. Item(max_val, t) = Max(B)
    <3> DEFINE x == [k \in 1 .. T |-> Max(A(k - 1))]
    <3>1. x = [i \in 1 .. T |-> x[i]] /\ t + 1 \in 1 .. T /\ (t + 1) - 1 = t
      OBVIOUS
    <3>2. max_val = x
      <4> HIDE DEF x
      <4> QED BY <3>1, Computed DEF x
    <3> HIDE DEF max_val, A, B
    <3> QED BY <3>1, <3>2, <1>3 DEF Item
  <2>5. Item(s, j) = IF u > t THEN -P ELSE r[u + 1]
    <3>1. Item(s, j) = s[Place(T, t, u)]
      BY Zenon DEF Item, Place
    <3> QED BY <3>1
  <2>6. E(j) = IF Item(s, j) = -P THEN 0 ELSE Exp[(Item(s, j) - Max(B)) % P]
    <3> HIDE DEF j, max_val, B
    <3> QED BY <2>1, <2>4 DEF Infinity
  <2>7. Item(expv, j) = IF u > t THEN 0 ELSE e[u + 1]
    <3>1. CASE u > t
      <4> HIDE DEF j, E, expv, B, e
      <4> QED BY <3>1, <2>3, <2>5, <2>6
    <3>2. CASE ~(u > t)
      <4>1. u + 1 \in 1 .. m /\ r[u + 1] # -P
        <5>1. u + 1 \in 1 .. m
          BY <3>2
        <5>2. r[u + 1] \in 0 .. P - 1
          BY <5>1 DEF Num
        <5> QED BY <5>1, <5>2, PositiveP
      <4>2. e[u + 1] = Exp[(r[u + 1] - Max(B)) % P]
        <5> HIDE DEF B
        <5> QED BY <4>1
      <4> HIDE DEF j, E, expv, B, e, m
      <4> QED BY <3>2, <2>3, <2>5, <2>6, <4>1, <4>2
    <3> QED BY <3>1, <3>2
  <2> HIDE DEF e, expv, j
  <2> QED BY <2>7 DEF j
<1> HIDE DEF expv
<1>6. Item(sum, t) = Total(e)
  <2> DEFINE f == [u \in 1 .. T |-> Item(expv, t * T + (u - 1))]
             x == [k \in 1 .. T |-> RowSum(k - 1)]
  <2>1. ASSUME NEW u \in 1 .. T PROVE f[u] = IF u > m THEN 0 ELSE e[u]
    <3>1. u - 1 \in 0 .. T - 1 /\ (u - 1) + 1 = u /\ (u - 1 > t <=> u > m)
      OBVIOUS
    <3> HIDE DEF e, m
    <3>2. Item(expv, t * T + (u - 1)) = IF u > m THEN 0 ELSE e[u]
      BY <3>1, <1>5
    <3> QED BY <3>2
  <2>2. f \in [1 .. T -> Int] /\ e \in [1 .. m -> Int]
    <3>1. \A u \in 1 .. m : e[u] \in Int
      <4> HIDE DEF e, m
      <4> QED BY <1>4, NumsAreInts
    <3>2. \A u \in 1 .. T : f[u] \in Int
      <4>1. ASSUME NEW u \in 1 .. T, ~(u > m) PROVE u \in 1 .. m
        BY <4>1
      <4> HIDE DEF e, f, m
      <4> QED BY <2>1, <3>1, <4>1
    <3>3. e \in [1 .. m -> Int]
      <4> HIDE DEF e, m
      <4> QED BY <3>1, <1>4
    <3> QED BY <3>2, <3>3
  <2>3. (\A i \in 1 .. m : e[i] = f[i]) /\ (\A i \in m + 1 .. T : f[i] = 0)
    <3>1. \A i \in 1 .. m : i \in 1 .. T /\ ~(i > m)
      OBVIOUS
    <3>2. \A i \in m + 1 .. T : i \in 1 .. T /\ i > m
      OBVIOUS
    <3> HIDE DEF e, f, m
    <3> QED BY <2>1, <3>1, <3>2
  <2>4. Total(f) = Total(e)
    <3> HIDE DEF e, f, m
    <3>1. T \in Nat /\ m \in 0 .. T
      BY <1>0
    <3>2. f \in Ints(T) /\ e \in Ints(m)
      BY <2>2, Zenon DEF Ints
    <3> QED BY <2>3, <3>1, <3>2, TotalOfPrefix
  <2>5. x = [k \in 1 .. T |-> x[k]] /\ t + 1 \in 1 .. T /\ x[t + 1] = RowSum(t)
    OBVIOUS
  <2>6. sum = x
    <3> HIDE DEF x
    <3> QED BY <2>5, Computed DEF x
  <2>7. RowSum(t) = Total(f)
    OBVIOUS
  <2> HIDE DEF f, e, x, sum, RowSum
  <2> QED BY <2>4, <2>5, <2>6, <2>7 DEF Item
<1> HIDE DEF sum
<1>7. Total(e) \in Num
  <2>1. e \in [1 .. m -> Int]
    <3> HIDE DEF e
    <3> QED BY <1>4, NumsAreInts
  <2> HIDE DEF e, m
  <2> QED BY <1>0, <2>1, TotalType
<1>8. Softmax(r) \in [1 .. m -> Num]
  <2>1. \A u \in 1 .. m : Divide(e[u], Total(e)) \in Num
    <3> HIDE DEF e, m
    <3> QED BY <1>4, <1>7, DivideType
  <2> HIDE DEF e
  <2> QED BY <1>2, <2>1
<1>9. ASSUME NEW u \in 0 .. T - 1
      PROVE  z[Place(T, t, u)] = IF u > t THEN 0 ELSE Softmax(r)[u + 1]
  <2>1. /\ Place(T, t, u) \in 1 .. T * T
        /\ (Place(T, t, u) - 1) \div T = t
    BY PlaceOf
  <2>2. Place(T, t, u) - 1 = t * T + u
    BY DEF Place
  <2>3. z[Place(T, t, u)] = Divide(Item(expv, t * T + u), Total(e))
    <3> HIDE DEF e
    <3>1. z[Place(T, t, u)] = Divide(Item(expv, Place(T, t, u) - 1), Item(sum, t))
      BY <2>1
    <3> QED BY <3>1, <2>2, <1>6
  <2>4. CASE u > t
    <3>1. Divide(0, Total(e)) = 0
      <4> HIDE DEF e
      <4> QED BY <1>7, NothingDivided
    <3> HIDE DEF e, z
    <3> QED BY <2>3, <2>4, <3>1, <1>5
  <2>5. CASE ~(u > t)
    <3>1. Softmax(r)[u + 1] = Divide(e[u + 1], Total(e))
      <4>1. u + 1 \in 1 .. m
        BY <2>5
      <4> HIDE DEF e, m
      <4> QED BY <1>2, <4>1
    <3> HIDE DEF e, z
    <3> QED BY <2>3, <2>5, <3>1, <1>5
  <2> HIDE DEF z
  <2> QED BY <2>4, <2>5
<1> HIDE DEF z
<1>10. RowUpTo(T, SoftmaxRows(s, T), t, Softmax(r), 0)
  BY <1>1, <1>9 DEF RowUpTo
<1> QED BY <1>8, <1>10 DEF Array

LEMMA ComputedRows ==
  ASSUME NEW m \in Nat, NEW n \in Nat, NEW M, M = [t \in 1 .. m |-> [c \in 1 .. n |-> M[t][c]]]
  PROVE  SubSeq([t \in 1 .. m |-> SubSeq([c \in 1 .. n |-> M[t][c]], 1, n)], 1, m) = M
<1>1. ASSUME NEW t \in 1 .. m
      PROVE  SubSeq([c \in 1 .. n |-> M[t][c]], 1, n) = [c \in 1 .. n |-> M[t][c]]
  <2> DEFINE r == [c \in 1 .. n |-> M[t][c]]
  <2>1. r = [c \in 1 .. n |-> r[c]]
    OBVIOUS
  <2> HIDE DEF r
  <2> QED BY <2>1, Computed DEF r
<1>2. [t \in 1 .. m |-> SubSeq([c \in 1 .. n |-> M[t][c]], 1, n)]
        = [t \in 1 .. m |-> [c \in 1 .. n |-> M[t][c]]]
  BY <1>1
<1>3. M = [t \in 1 .. m |-> M[t]]
  BY Zenon
<1>4. SubSeq(M, 1, m) = M
  BY <1>3, Computed
<1> QED BY <1>2, <1>4

(* The values, weighted: what a token does not attend to adds nothing.     *)
Attended(R, V, T) ==
  [t \in 1 .. T |-> [d \in 1 .. head_size |-> Total([u \in 1 .. t |-> R[t][u] * V[u][d]])]]

LEMMA WeightedRows ==
  ASSUME NEW T \in Nat \ {0}, NEW v, NEW V, IsFlat(v, V, T, head_size),
         NEW R, \A t \in 1 .. T : R[t] \in Array(t),
         NEW wei, \A t \in 0 .. T - 1 : RowUpTo(T, wei, t, R[t + 1], 0)
  PROVE  IsFlat(WeightedSums(wei, v, T), Attended(R, V, T), T, head_size)
<1> DEFINE n == head_size
           y == WeightedSums(wei, v, T)
           Y == Attended(R, V, T)
           Term(a, d, u) == Item(wei, a * T + u) * Item(v, u * n + d)
           z == [k \in 1 .. T * n |->
                  Total([u \in 1 .. T |-> Term((k - 1) \div n, (k - 1) % n, u - 1)])]
           Prod(t, d) == [u \in 1 .. t |-> R[t][u] * V[u][d]]
<1>0. n \in Nat \ {0} /\ T \in Nat /\ T * n \in Nat /\ V \in Mat(T, n)
      /\ IsFlat(v, V, T, n)
  <2>1. n \in Nat \ {0}
    BY HeadSize
  <2>2. V \in Mat(T, n) /\ IsFlat(v, V, T, n)
    BY DEF IsFlat, Flat, Mat
  <2> HIDE DEF n
  <2> QED BY <2>1, <2>2
<1>1. y = z
  <2>1. y = SubSeq(z, 1, T * n)
    BY Zenon DEF WeightedSums, Vector, SumOver
  <2>2. z = [k \in 1 .. T * n |-> z[k]]
    OBVIOUS
  <2> HIDE DEF z, y
  <2> QED BY <1>0, <2>1, <2>2, Computed
<1>2. ASSUME NEW t \in 1 .. T, NEW d \in 1 .. n, NEW u \in 1 .. t
      PROVE  R[t][u] \in Int /\ V[u][d] \in Int /\ R[t][u] * V[u][d] \in Int
  <2>1. R[t] \in [1 .. t -> Num] /\ u \in 1 .. T
    BY DEF Array
  <2>2. R[t][u] \in Int /\ V[u][d] \in Int
    <3>1. R[t][u] \in Num
      BY <2>1
    <3>2. V[u][d] \in Num
      <4> HIDE DEF n
      <4> QED BY <1>0, <2>1, MatAt
    <3> QED BY <3>1, <3>2, NumsAreInts
  <2> QED BY <2>2
<1>3. ASSUME NEW t \in 1 .. T, NEW d \in 1 .. n
      PROVE  Prod(t, d) \in Ints(t) /\ Total(Prod(t, d)) \in Num
  <2>1. Prod(t, d) \in [1 .. t -> Int]
    BY <1>2
  <2> HIDE DEF Prod
  <2> QED BY <2>1, TotalType DEF Ints
<1>4. Y \in Mat(T, n)
  <2>1. Y = [t \in 1 .. T |-> [d \in 1 .. n |-> Total(Prod(t, d))]]
    BY Zenon DEF Attended
  <2> HIDE DEF Y, Prod, n
  <2> QED BY <1>3, <2>1 DEF Mat, Rows
<1>5. ASSUME NEW t \in 0 .. T - 1, NEW d \in 0 .. n - 1
      PROVE  y[Place(n, t, d)] = Y[t + 1][d + 1]
  <2> DEFINE f == [u \in 1 .. T |-> Term(t, d, u - 1)]
             p == Prod(t + 1, d + 1)
             m == t + 1
  <2>0. t + 1 \in 1 .. T /\ d + 1 \in 1 .. n /\ m \in 0 .. T
    <3> HIDE DEF n
    <3> QED BY <1>0
  <2>1. z[Place(n, t, d)] = Total(f)
    <3>1. /\ Place(n, t, d) \in 1 .. T * n
          /\ (Place(n, t, d) - 1) \div n = t
          /\ (Place(n, t, d) - 1) % n = d
      <4> HIDE DEF n
      <4> QED BY <1>0, PlaceOf
    <3> HIDE DEF Term
    <3> QED BY <3>1
  <2>2. ASSUME NEW u \in 1 .. T PROVE Term(t, d, u - 1) = IF u > m THEN 0 ELSE p[u]
    <3>0. u - 1 \in 0 .. T - 1 /\ (u - 1) + 1 = u /\ (u - 1 > t <=> u > m)
      OBVIOUS
    <3>1. /\ Item(wei, t * T + (u - 1)) = wei[Place(T, t, u - 1)]
          /\ Item(v, (u - 1) * n + d) = v[Place(n, u - 1, d)]
      BY Zenon DEF Item, Place
    <3>2. wei[Place(T, t, u - 1)] = IF u > m THEN 0 ELSE R[t + 1][u]
      <4>1. wei[Place(T, t, u - 1)] = IF u - 1 > t THEN 0 ELSE R[t + 1][(u - 1) + 1]
        BY <3>0 DEF RowUpTo
      <4> QED BY <3>0, <4>1
    <3>3. v[Place(n, u - 1, d)] = V[u][d + 1] /\ V[u][d + 1] \in Num
      <4> HIDE DEF n
      <4>1. /\ v[Place(n, u - 1, d)] = V[(u - 1) + 1][d + 1]
            /\ V[(u - 1) + 1][d + 1] \in Num
        BY <1>0, <3>0, FlatAt
      <4> QED BY <3>0, <4>1
    <3>4. CASE u > m
      <4>1. 0 * V[u][d + 1] = 0
        <5>1. V[u][d + 1] \in Int
          BY <3>3, NumsAreInts
        <5> QED BY <5>1
      <4> HIDE DEF m, n
      <4> QED BY <3>1, <3>2, <3>3, <3>4, <4>1
    <3>5. CASE ~(u > m)
      <4>1. p[u] = R[t + 1][u] * V[u][d + 1]
        <5>1. u \in 1 .. t + 1
          BY <3>5
        <5> QED BY <5>1
      <4> HIDE DEF m, n, p
      <4> QED BY <3>1, <3>2, <3>3, <3>5, <4>1
    <3> HIDE DEF p, m, Term
    <3> QED BY <3>4, <3>5
  <2>3. p \in Ints(m)
    BY <1>3, <2>0
  <2>4. f \in Ints(T) /\ (\A i \in 1 .. m : p[i] = f[i]) /\ (\A i \in m + 1 .. T : f[i] = 0)
    <3>1. \A i \in 1 .. m : i \in 1 .. T /\ ~(i > m)
      BY <2>0
    <3>2. \A i \in m + 1 .. T : i \in 1 .. T /\ i > m
      BY <2>0
    <3>3. \A i \in 1 .. T : ~(i > m) => i \in 1 .. m
      BY <2>0
    <3>4. \A i \in 1 .. T : f[i] = IF i > m THEN 0 ELSE p[i]
      <4> HIDE DEF Term, p, m
      <4> QED BY <2>2
    <3>5. \A i \in 1 .. m : p[i] \in Int
      <4> HIDE DEF p, m
      <4> QED BY <2>3 DEF Ints
    <3>6. f = [i \in 1 .. T |-> f[i]]
      OBVIOUS
    <3>7. \A i \in 1 .. T : f[i] \in Int
      <4> HIDE DEF f, p, m
      <4> QED BY <3>3, <3>4, <3>5
    <3> HIDE DEF f, p, m
    <3> QED BY <3>1, <3>2, <3>4, <3>6, <3>7 DEF Ints
  <2>5. Total(f) = Total(p)
    <3> HIDE DEF f, p, m
    <3> QED BY <2>0, <2>3, <2>4, TotalOfPrefix
  <2>6. Y[t + 1][d + 1] = Total(p)
    <3>1. Y = [a \in 1 .. T |-> [b \in 1 .. n |-> Total(Prod(a, b))]]
      BY Zenon DEF Attended
    <3> HIDE DEF Y, Prod, n
    <3> QED BY <2>0, <3>1
  <2> HIDE DEF y, Y, z, f, p
  <2> QED BY <1>1, <2>1, <2>5, <2>6
<1>6. y = [k \in 1 .. T * n |-> y[k]]
  <2>1. z = [k \in 1 .. T * n |-> z[k]]
    OBVIOUS
  <2> HIDE DEF z, y
  <2> QED BY <1>1, <2>1
<1>7. IsFlat(y, Y, T, n)
  <2> HIDE DEF y, Y, n
  <2> QED BY <1>0, <1>4, <1>5, <1>6, FlatIntro
<1> QED BY <1>7

LEMMA HeadRows ==
  ASSUME NEW T \in Nat \ {0}, NEW x, NEW X, IsFlat(x, X, T, n_embd),
         NEW W, NEW l, NEW h, NEW head,
         IsFlat(head.key, W[<<l, h, "key.weight">>], head_size, n_embd),
         IsFlat(head.query, W[<<l, h, "query.weight">>], head_size, n_embd),
         IsFlat(head.value, W[<<l, h, "value.weight">>], head_size, n_embd)
  PROVE  IsFlat(HeadForward(head, x, T), HeadOf(W, l, h, Scale[head_size], X), T, head_size)
<1> DEFINE n == head_size
           k == LinearForward(head.key, n_embd, head_size, x, T)
           q == LinearForward(head.query, n_embd, head_size, x, T)
           v == LinearForward(head.value, n_embd, head_size, x, T)
           K == nn_Linear(W[<<l, h, "key.weight">>], X)
           Q == nn_Linear(W[<<l, h, "query.weight">>], X)
           V == nn_Linear(W[<<l, h, "value.weight">>], X)
           R == [t \in 1 .. T |-> Softmax(ScoresOf(Q, K, Scale[head_size], t))]
           wei == SoftmaxRows(Scores(q, k, T), T)
<1>0. n \in Nat /\ n \in Nat \ {0} /\ T \in Nat /\ n_embd \in Nat \ {0} /\ Len(X) = T
  <2>1. X \in Mat(T, n_embd) /\ n_embd \in Nat \ {0}
    BY TransformerAssumption DEF IsFlat, Flat, Mat
  <2> QED BY <2>1, HeadSize, MatAt
<1>1. IsFlat(k, K, T, n) /\ IsFlat(q, Q, T, n) /\ IsFlat(v, V, T, n)
  <2> DEFINE A == W[<<l, h, "key.weight">>]
             B == W[<<l, h, "query.weight">>]
             C == W[<<l, h, "value.weight">>]
  <2>1. /\ IsFlat(head.key, A, n, n_embd)
        /\ IsFlat(head.query, B, n, n_embd)
        /\ IsFlat(head.value, C, n, n_embd)
    OBVIOUS
  <2> HIDE DEF A, B, C, n
  <2>2. /\ IsFlat(LinearForward(head.key, n_embd, n, x, T), nn_Linear(A, X), T, n)
        /\ IsFlat(LinearForward(head.query, n_embd, n, x, T), nn_Linear(B, X), T, n)
        /\ IsFlat(LinearForward(head.value, n_embd, n, x, T), nn_Linear(C, X), T, n)
    BY <1>0, <2>1, LinearRows
  <2> QED BY <2>2 DEF A, B, C, n
<1> HIDE DEF k, q, v, K, Q, V
<1>2. ASSUME NEW t \in 0 .. T - 1
      PROVE  R[t + 1] \in Array(t + 1) /\ RowUpTo(T, wei, t, R[t + 1], 0)
  <2> DEFINE s == Scores(q, k, T)
             r == ScoresOf(Q, K, Scale[head_size], t + 1)
  <2>1. r \in Array(t + 1) /\ RowUpTo(T, s, t, r, -P)
    BY <1>1, ScoreRows
  <2>2. R[t + 1] = Softmax(r) /\ wei = SoftmaxRows(s, T)
    OBVIOUS
  <2> HIDE DEF s, r, wei, R
  <2>3. Softmax(r) \in Array(t + 1) /\ RowUpTo(T, SoftmaxRows(s, T), t, Softmax(r), 0)
    BY <2>1, SoftmaxRow
  <2> QED BY <2>2, <2>3
<1>3. ASSUME NEW t \in 1 .. T PROVE R[t] \in Array(t)
  <2>1. t - 1 \in 0 .. T - 1 /\ (t - 1) + 1 = t
    OBVIOUS
  <2>2. R[(t - 1) + 1] \in Array((t - 1) + 1)
    <3> HIDE DEF R
    <3> QED BY <1>2, <2>1
  <2> HIDE DEF R
  <2> QED BY <2>1, <2>2
<1>4. HeadForward(head, x, T) = WeightedSums(wei, v, T)
  BY Zenon DEF HeadForward, k, q, v
<1>5. HeadOf(W, l, h, Scale[head_size], X) = Attended(R, V, T)
  <2> DEFINE M == Attended(R, V, T)
  <2> DEFINE F(t) == SubSeq([d \in 1 .. n |-> M[t][d]], 1, n)
             Sums(t, d) == Total([u \in 1 .. t |-> Softmax(ScoresOf(Q, K, Scale[head_size], t))[u] * V[u][d]])
             G(t) == SubSeq([d \in 1 .. n |-> Sums(t, d)], 1, n)
  <2>1. HeadOf(W, l, h, Scale[head_size], X) = SubSeq([t \in 1 .. T |-> G(t)], 1, T)
    BY <1>0, Zenon DEF HeadOf, Row, Over, K, Q, V
  <2>2. ASSUME NEW t \in 1 .. T, NEW d \in 1 .. n PROVE M[t][d] = Sums(t, d)
    BY DEF Attended
  <2>3. M = [t \in 1 .. T |-> [d \in 1 .. n |-> M[t][d]]]
    <3>1. M = [t \in 1 .. T |-> [d \in 1 .. n |-> Total([u \in 1 .. t |-> R[t][u] * V[u][d]])]]
      BY Zenon DEF Attended
    <3> HIDE DEF M, R, n
    <3> QED BY <3>1
  <2> HIDE DEF M, Sums
  <2>4. SubSeq([t \in 1 .. T |-> F(t)], 1, T) = M
    <3> HIDE DEF n
    <3> QED BY <1>0, <2>3, ComputedRows
  <2>5. ASSUME NEW t \in 1 .. T PROVE F(t) = G(t)
    <3>1. [d \in 1 .. n |-> M[t][d]] = [d \in 1 .. n |-> Sums(t, d)]
      BY <2>2
    <3> QED BY <3>1, Zenon
  <2> HIDE DEF F, G
  <2>6. [t \in 1 .. T |-> F(t)] = [t \in 1 .. T |-> G(t)]
    BY <2>5
  <2>7. HeadOf(W, l, h, Scale[head_size], X) = M
    BY <2>1, <2>4, <2>6
  <2> QED BY <2>7 DEF M
<1>6. IsFlat(WeightedSums(wei, v, T), Attended(R, V, T), T, n)
  <2> HIDE DEF wei, R
  <2> QED BY <1>1, <1>2, <1>3, WeightedRows
<1> HIDE DEF wei, R
<1> QED BY <1>4, <1>5, <1>6

LEMMA AddFlat ==
  ASSUME NEW T \in Nat, NEW x, NEW X, IsFlat(x, X, T, n_embd),
         NEW y, NEW Y, IsFlat(y, Y, T, n_embd)
  PROVE  IsFlat(AddVectors(x, y), Plus(X, Y), T, n_embd)
<1>1. Y \in Mat(T, n_embd)
  BY DEF IsFlat, Flat, Mat
<1>2. \A t \in 0 .. T - 1, c \in 0 .. n_embd - 1 : y[Place(n_embd, t, c)] = Y[t + 1][c + 1]
  BY DEF IsFlat, Flat
<1> QED BY <1>1, <1>2, AddRows

(* The parameters of a block are those of the checkpoint.                  *)
HeadMatches(head, W, l, h) ==
  /\ IsFlat(head.key, W[<<l, h, "key.weight">>], head_size, n_embd)
  /\ IsFlat(head.query, W[<<l, h, "query.weight">>], head_size, n_embd)
  /\ IsFlat(head.value, W[<<l, h, "value.weight">>], head_size, n_embd)
NormMatches(ln, weight, bias) ==
  /\ ln.gamma = weight /\ weight \in Array(n_embd)
  /\ ln.beta = bias /\ bias \in Array(n_embd)
BlockMatches(block, W, l) ==
  /\ NormMatches(block.ln1, W[<<l, "ln1.weight">>], W[<<l, "ln1.bias">>])
  /\ NormMatches(block.ln2, W[<<l, "ln2.weight">>], W[<<l, "ln2.bias">>])
  /\ IsFlat(block.fc1, W[<<l, "ffwd.net.0.weight">>], 4 * n_embd, n_embd)
  /\ IsFlat(block.fc2, W[<<l, "ffwd.net.2.weight">>], n_embd, 4 * n_embd)
  /\ \A h \in 0 .. n_head - 1 : HeadMatches(block.heads[h + 1], W, l, h)
  /\ IsFlat(block.proj, W[<<l, "sa.proj.weight">>], n_embd, n_embd)

(* The heads side by side: a row of all is the rows of each, appended.     *)
LEMMA MultiHeadRows ==
  ASSUME NEW T \in Nat \ {0}, NEW x, NEW X, IsFlat(x, X, T, n_embd),
         NEW W, NEW l, NEW block, BlockMatches(block, W, l)
  PROVE  IsFlat(MultiHeadForward(block, x, T), MultiHeadAttention(W, l, Scale[head_size], X), T, n_embd)
<1> DEFINE n == n_embd
           m == n_head
           s == head_size
           ho == [i \in 1 .. m |-> HeadForward(Item(block.heads, i - 1), x, T)]
           z == [k \in 1 .. T * n |->
                  LET h == ((k - 1) % n) \div s
                      d == ((k - 1) % n) % s
                  IN Item(Item(ho, h), ((k - 1) \div n) * s + d)]
           out == [h \in 1 .. m |-> HeadOf(W, l, h - 1, Scale[head_size], X)]
           Z == [t \in 1 .. T |-> FlattenSeq([h \in 1 .. m |-> out[h][t]])]
<1>0. /\ n \in Nat /\ n \in Nat \ {0} /\ m \in Nat /\ m \in Nat \ {0}
      /\ s \in Nat \ {0} /\ m * s = n /\ T \in Nat /\ T * n \in Nat /\ Len(X) = T
  <2>1. n \in Nat \ {0} /\ m \in Nat \ {0} /\ s \in Nat \ {0} /\ m * s = n
    BY TransformerAssumption, HeadSize
  <2>2. X \in Mat(T, n)
    BY DEF IsFlat, Flat, Mat
  <2> HIDE DEF n, m, s
  <2> QED BY <2>1, <2>2, MatAt
<1>1. MultiHeadForward(block, x, T) = LinearForward(block.proj, n, n, z, T)
  <2> DEFINE hs == SubSeq(ho, 1, m)
             f == [k \in 1 .. T * n |->
                    LET h == ((k - 1) % n) \div s
                        d == ((k - 1) % n) % s
                    IN Item(Item(hs, h), ((k - 1) \div n) * s + d)]
  <2>1. MultiHeadForward(block, x, T) = LinearForward(block.proj, n, n, SubSeq(f, 1, T * n), T)
    BY Zenon DEF MultiHeadForward, Vector
  <2>2. ho = [i \in 1 .. m |-> ho[i]] /\ f = [k \in 1 .. T * n |-> f[k]]
    OBVIOUS
  <2>3. hs = ho
    <3> HIDE DEF ho, m
    <3> QED BY <1>0, <2>2, Computed
  <2>4. f = z
    <3> HIDE DEF ho, hs, n, s
    <3> QED BY <2>3
  <2>5. SubSeq(f, 1, T * n) = f
    <3> HIDE DEF f, n
    <3> QED BY <1>0, <2>2, Computed
  <2> HIDE DEF f, z
  <2> QED BY <2>1, <2>4, <2>5
<1>2. MultiHeadAttention(W, l, Scale[head_size], X) = nn_Linear(W[<<l, "sa.proj.weight">>], Z)
  <2> DEFINE os == SubSeq(out, 1, m)
             F == [t \in 1 .. T |-> FlattenSeq([h \in 1 .. m |-> os[h][t]])]
  <2>1. MultiHeadAttention(W, l, Scale[head_size], X)
          = nn_Linear(W[<<l, "sa.proj.weight">>], SubSeq(F, 1, T))
    BY <1>0, Zenon DEF MultiHeadAttention, Row
  <2>2. out = [i \in 1 .. m |-> out[i]] /\ F = [k \in 1 .. T |-> F[k]]
    OBVIOUS
  <2>3. os = out
    <3> HIDE DEF out, m
    <3> QED BY <1>0, <2>2, Computed
  <2>4. F = Z
    <3> HIDE DEF out, os, m
    <3> QED BY <2>3
  <2>5. SubSeq(F, 1, T) = F
    <3> HIDE DEF F
    <3> QED BY <1>0, <2>2, Computed
  <2> HIDE DEF F, Z
  <2> QED BY <2>1, <2>4, <2>5
<1>3. ASSUME NEW h \in 0 .. m - 1 PROVE IsFlat(ho[h + 1], out[h + 1], T, s)
  <2>1. HeadMatches(block.heads[h + 1], W, l, h)
    BY DEF BlockMatches
  <2>2. h + 1 \in 1 .. m /\ (h + 1) - 1 = h
    <3> HIDE DEF m
    <3> QED BY <1>0
  <2> DEFINE head == block.heads[h + 1]
  <2>3. ho[h + 1] = HeadForward(head, x, T) /\ out[h + 1] = HeadOf(W, l, h, Scale[head_size], X)
    BY <2>2 DEF Item
  <2> HIDE DEF head, ho, out
  <2>4. IsFlat(HeadForward(head, x, T), HeadOf(W, l, h, Scale[head_size], X), T, head_size)
    BY <2>1, HeadRows, Zenon DEF head, HeadMatches
  <2> QED BY <2>3, <2>4
<1>4. ASSUME NEW t \in 1 .. T
      PROVE  /\ Z[t] \in [1 .. n -> Num]
             /\ \A h \in 0 .. m - 1, d \in 0 .. s - 1 :
                  Z[t][Place(s, h, d)] = out[h + 1][t][d + 1]
  <2> DEFINE M == [h \in 1 .. m |-> out[h][t]]
  <2>1. ASSUME NEW h \in 1 .. m PROVE out[h][t] \in [1 .. s -> Num]
    <3>1. h - 1 \in 0 .. m - 1 /\ (h - 1) + 1 = h
      <4> HIDE DEF m
      <4> QED BY <1>0
    <3> HIDE DEF ho, out, m, s
    <3>2. IsFlat(ho[(h - 1) + 1], out[(h - 1) + 1], T, s)
      BY <3>1, <1>3
    <3>3. out[h] \in Mat(T, s)
      BY <3>1, <3>2 DEF IsFlat, Flat, Mat
    <3> QED BY <1>0, <3>3, MatAt
  <2>2. M \in Rows(Num, m, s)
    <3> HIDE DEF out, m, s
    <3> QED BY <2>1 DEF Rows
  <2>3. Z[t] = FlattenSeq(M)
    BY Zenon
  <2>4. \A h \in 0 .. m - 1 : M[h + 1] = out[h + 1][t]
    <3> HIDE DEF out, m
    <3> QED BY <1>0
  <2> HIDE DEF M, Z, out, m, s, n
  <2>5. Flat(Num, FlattenSeq(M), M, m, s)
    BY <1>0, <2>2, FlattenRows
  <2>6. /\ FlattenSeq(M) \in [1 .. m * s -> Num]
        /\ \A h \in 0 .. m - 1, d \in 0 .. s - 1 :
             FlattenSeq(M)[Place(s, h, d)] = M[h + 1][d + 1]
    BY <2>5 DEF Flat
  <2> QED BY <1>0, <2>3, <2>4, <2>6
<1>5. Z \in Mat(T, n)
  <2>1. Z = [t \in 1 .. T |-> Z[t]]
    OBVIOUS
  <2> HIDE DEF Z, n
  <2> QED BY <1>4, <2>1 DEF Mat, Rows
<1>6. ASSUME NEW t \in 0 .. T - 1, NEW c \in 0 .. n - 1
      PROVE  z[Place(n, t, c)] = Z[t + 1][c + 1]
  <2> DEFINE h == c \div s
             d == c % s
  <2>1. /\ Place(n, t, c) \in 1 .. T * n
        /\ (Place(n, t, c) - 1) \div n = t
        /\ (Place(n, t, c) - 1) % n = c
    <3> HIDE DEF n
    <3> QED BY <1>0, PlaceOf
  <2>2. h \in 0 .. m - 1 /\ d \in 0 .. s - 1 /\ c + 1 = Place(s, h, d)
    <3>1. c \in 0 .. m * s - 1
      <4> HIDE DEF n, m, s
      <4> QED BY <1>0
    <3> HIDE DEF n, m, s
    <3>2. h \in 0 .. m - 1 /\ d \in 0 .. s - 1 /\ c = h * s + d
      BY <1>0, <3>1, Split
    <3> HIDE DEF h, d
    <3> QED BY <3>2 DEF Place
  <2>3. t + 1 \in 1 .. T
    BY <1>0
  <2>4. z[Place(n, t, c)] = Item(Item(ho, h), t * s + d)
    <3> HIDE DEF ho, m
    <3> QED BY <2>1
  <2>5. Item(Item(ho, h), t * s + d) = ho[h + 1][Place(s, t, d)]
    <3> HIDE DEF ho, h, d, s
    <3> QED BY Zenon DEF Item, Place
  <2> HIDE DEF ho, h, d, s, m, n, out, z, Z
  <2>6. ho[h + 1][Place(s, t, d)] = out[h + 1][t + 1][d + 1]
    <3>1. IsFlat(ho[h + 1], out[h + 1], T, s)
      BY <1>3, <2>2
    <3> QED BY <1>0, <2>2, <3>1, FlatAt
  <2>7. Z[t + 1][Place(s, h, d)] = out[h + 1][t + 1][d + 1]
    BY <1>4, <2>2, <2>3
  <2> QED BY <2>2, <2>4, <2>5, <2>6, <2>7
<1>7. IsFlat(z, Z, T, n)
  <2>1. z = [k \in 1 .. T * n |-> z[k]]
    OBVIOUS
  <2> HIDE DEF z, Z, n
  <2> QED BY <1>0, <1>5, <1>6, <2>1, FlatIntro
<1>8. IsFlat(block.proj, W[<<l, "sa.proj.weight">>], n, n)
  BY DEF BlockMatches
<1> HIDE DEF z, Z
<1> DEFINE A == W[<<l, "sa.proj.weight">>]
           y == LinearForward(block.proj, n, n, z, T)
<1>9. IsFlat(y, nn_Linear(A, Z), T, n)
  <2>1. IsFlat(block.proj, A, n, n)
    BY <1>8
  <2> HIDE DEF A, n
  <2> QED BY <1>0, <1>7, <2>1, LinearRows
<1> QED BY <1>1, <1>2, <1>9

LEMMA FeedForwardRows ==
  ASSUME NEW T \in Nat \ {0}, NEW x, NEW X, IsFlat(x, X, T, n_embd),
         NEW W, NEW l, NEW block, BlockMatches(block, W, l)
  PROVE  IsFlat(FeedForwardForward(block, x, T), FeedForward(W, l, X), T, n_embd)
<1> DEFINE n == n_embd
           w == 4 * n_embd
           A == W[<<l, "ffwd.net.0.weight">>]
           B == W[<<l, "ffwd.net.2.weight">>]
           a == LinearForward(block.fc1, n_embd, 4 * n_embd, x, T)
           H == nn_Linear(A, X)
           z == [k \in 1 .. T * w |-> Gelu(Item(a, k - 1))]
           Z == [t \in 1 .. T |-> [c \in 1 .. w |-> Gelu(H[t][c])]]
<1>0. /\ n \in Nat /\ n \in Nat \ {0} /\ w \in Nat /\ w \in Nat \ {0}
      /\ T \in Nat /\ T * w \in Nat /\ Len(X) = T
  <2>1. n \in Nat \ {0} /\ w \in Nat \ {0} /\ X \in Mat(T, n)
    BY TransformerAssumption DEF IsFlat, Flat, Mat
  <2> HIDE DEF n, w
  <2> QED BY <2>1, MatAt
<1>1. IsFlat(block.fc1, A, w, n) /\ IsFlat(block.fc2, B, n, w)
  BY DEF BlockMatches
<1>2. IsFlat(a, H, T, w)
  <2> HIDE DEF A, n
  <2>1. IsFlat(LinearForward(block.fc1, n, w, x, T), nn_Linear(A, X), T, w)
    <3> HIDE DEF w
    <3> QED BY <1>0, <1>1, LinearRows DEF n
  <2> QED BY <2>1 DEF n
<1>3. Len(a) = T * w
  <2> DEFINE k == T * w
  <2>1. k \in Nat /\ a \in [1 .. k -> Num]
    BY <1>0, <1>2 DEF IsFlat, Flat
  <2> HIDE DEF k, a
  <2> QED BY <2>1 DEF k
<1>4. FeedForwardForward(block, x, T) = LinearForward(block.fc2, w, n, z, T)
  <2>1. FeedForwardForward(block, x, T) = LinearForward(block.fc2, w, n, SubSeq(z, 1, T * w), T)
    BY <1>3, Zenon DEF FeedForwardForward, Vector
  <2>2. z = [k \in 1 .. T * w |-> z[k]]
    OBVIOUS
  <2>3. SubSeq(z, 1, T * w) = z
    <3> HIDE DEF z, w
    <3> QED BY <1>0, <2>2, Computed
  <2> HIDE DEF z
  <2> QED BY <2>1, <2>3
<1>5. FeedForward(W, l, X) = nn_Linear(B, Z)
  <2>1. FeedForward(W, l, X)
          = nn_Linear(B, SubSeq([t \in 1 .. T |-> SubSeq([c \in 1 .. w |-> Gelu(H[t][c])], 1, w)], 1, T))
    BY <1>0, Zenon DEF FeedForward, Matrix, Row
  <2> DEFINE F(t) == SubSeq([c \in 1 .. w |-> Gelu(H[t][c])], 1, w)
             G(t) == SubSeq([c \in 1 .. w |-> Z[t][c]], 1, w)
  <2>2. ASSUME NEW t \in 1 .. T PROVE F(t) = G(t)
    <3> HIDE DEF H, w
    <3>1. [c \in 1 .. w |-> Z[t][c]] = [c \in 1 .. w |-> Gelu(H[t][c])]
      OBVIOUS
    <3> QED BY <3>1, Zenon
  <2>3. Z = [t \in 1 .. T |-> [c \in 1 .. w |-> Z[t][c]]]
    <3> HIDE DEF H, w
    <3> QED OBVIOUS
  <2>4. SubSeq([t \in 1 .. T |-> G(t)], 1, T) = Z
    <3> HIDE DEF Z, w
    <3> QED BY <1>0, <2>3, ComputedRows
  <2> HIDE DEF F, G, Z
  <2>5. [t \in 1 .. T |-> F(t)] = [t \in 1 .. T |-> G(t)]
    BY <2>2
  <2>6. FeedForward(W, l, X) = nn_Linear(B, SubSeq([t \in 1 .. T |-> F(t)], 1, T))
    BY <2>1, Zenon DEF F
  <2> QED BY <2>4, <2>5, <2>6
<1> HIDE DEF a, H
<1>6. ASSUME NEW t \in 0 .. T - 1, NEW c \in 0 .. w - 1
      PROVE  z[Place(w, t, c)] = Z[t + 1][c + 1]
  <2> DEFINE p == Place(w, t, c)
  <2> HIDE DEF w
  <2>1. p \in 1 .. T * w
    BY <1>0, PlaceOf
  <2>2. t + 1 \in 1 .. T /\ c + 1 \in 1 .. w
    BY <1>0
  <2>3. a[p] = H[t + 1][c + 1]
    BY <1>0, <1>2, FlatAt
  <2>4. Item(a, p - 1) = a[p]
    <3> DEFINE k == T * w
    <3>1. p \in 1 .. k /\ k \in Nat
      BY <2>1, <1>0
    <3> HIDE DEF p, k
    <3>2. (p - 1) + 1 = p
      BY <3>1
    <3> QED BY <3>2 DEF Item
  <2>5. z[p] = Gelu(Item(a, p - 1))
    <3> HIDE DEF p
    <3> QED BY <2>1
  <2>6. Z[t + 1][c + 1] = Gelu(H[t + 1][c + 1])
    BY <2>2
  <2> HIDE DEF p, z, Z
  <2>7. z[p] = Z[t + 1][c + 1]
    BY <2>3, <2>4, <2>5, <2>6
  <2> QED BY <2>7 DEF p
<1>7. Z \in Mat(T, w)
  <2>1. ASSUME NEW t \in 1 .. T, NEW c \in 1 .. w PROVE Gelu(H[t][c]) \in Num
    <3> DEFINE g == H[t][c]
    <3>1. H \in Mat(T, w)
      BY <1>2 DEF IsFlat, Flat, Mat
    <3>2. g \in Num
      <4> HIDE DEF w
      <4> QED BY <1>0, <3>1, MatAt
    <3>3. Erf[g] \in Int /\ g \in Int
      <4> HIDE DEF g
      <4>1. Erf[g] \in Num
        BY <3>2, TransformerAssumption
      <4> QED BY <3>2, <4>1, NumsAreInts
    <3> HIDE DEF g
    <3>4. g * Erf[g] \in Int
      BY <3>3
    <3> QED BY <3>4, ModType DEF Gelu, g
  <2> HIDE DEF w
  <2> QED BY <2>1 DEF Mat, Rows
<1>8. IsFlat(z, Z, T, w)
  <2>1. z = [k \in 1 .. T * w |-> z[k]]
    OBVIOUS
  <2> HIDE DEF z, Z, w
  <2> QED BY <1>0, <1>6, <1>7, <2>1, FlatIntro
<1> HIDE DEF z, Z
<1>9. IsFlat(LinearForward(block.fc2, w, n, z, T), nn_Linear(B, Z), T, n)
  <2> HIDE DEF B, w, n
  <2> QED BY <1>0, <1>1, <1>8, LinearRows
<1> QED BY <1>4, <1>5, <1>9

LEMMA BlockRows ==
  ASSUME NEW T \in Nat \ {0}, NEW x, NEW X, IsFlat(x, X, T, n_embd),
         NEW W, NEW l, NEW block, BlockMatches(block, W, l)
  PROVE  IsFlat(BlockForward(block, x, T), BlockOf(W, l, Scale[head_size], X), T, n_embd)
<1> DEFINE n == n_embd
           g1 == W[<<l, "ln1.weight">>]
           b1 == W[<<l, "ln1.bias">>]
           g2 == W[<<l, "ln2.weight">>]
           b2 == W[<<l, "ln2.bias">>]
           u == LayerNormForward(block.ln1, x, T)
           U == nn_LayerNorm(g1, b1, X)
           v == MultiHeadForward(block, u, T)
           V == MultiHeadAttention(W, l, Scale[head_size], U)
           y == AddVectors(x, v)
           Y == Plus(X, V)
           p == LayerNormForward(block.ln2, y, T)
           Q == nn_LayerNorm(g2, b2, Y)
           f == FeedForwardForward(block, p, T)
           F == FeedForward(W, l, Q)
<1>0. T \in Nat
  OBVIOUS
<1>1. /\ block.ln1.gamma = g1 /\ block.ln1.beta = b1 /\ g1 \in Array(n) /\ b1 \in Array(n)
      /\ block.ln2.gamma = g2 /\ block.ln2.beta = b2 /\ g2 \in Array(n) /\ b2 \in Array(n)
  BY DEF BlockMatches, NormMatches
<1> HIDE DEF g1, b1, g2, b2
<1>2. IsFlat(u, U, T, n)
  BY <1>0, <1>1, LayerNormRows
<1> HIDE DEF u, U
<1>3. IsFlat(v, V, T, n)
  BY <1>2, MultiHeadRows
<1> HIDE DEF v, V
<1>4. IsFlat(y, Y, T, n)
  BY <1>0, <1>3, AddFlat
<1> HIDE DEF y, Y
<1>5. IsFlat(p, Q, T, n)
  BY <1>0, <1>1, <1>4, LayerNormRows
<1> HIDE DEF p, Q
<1>6. IsFlat(f, F, T, n)
  BY <1>5, FeedForwardRows
<1> HIDE DEF f, F
<1>7. IsFlat(AddVectors(y, f), Plus(Y, F), T, n)
  BY <1>0, <1>4, <1>6, AddFlat
<1>8. BlockForward(block, x, T) = AddVectors(y, f)
  BY Zenon DEF BlockForward, y, v, u, f, p
<1>9. BlockOf(W, l, Scale[head_size], X) = Plus(Y, F)
  BY Zenon DEF BlockOf, Y, V, U, F, Q, g1, b1, g2, b2
<1> QED BY <1>7, <1>8, <1>9

ModelMatches(m, W) ==
  /\ IsFlat(m.embedding, W[<<"token_embedding.weight">>], vocab_size, n_embd)
  /\ \A l \in 0 .. n_layer - 1 : BlockMatches(m.blocks[l + 1], W, l)
  /\ NormMatches(m.ln_f, W[<<"ln_f.weight">>], W[<<"ln_f.bias">>])
  /\ IsFlat(m.lm_head, W[<<"lm_head.weight">>], vocab_size, n_embd)

(* forward: with the parameters of a checkpoint, the server's arrays have  *)
(* the rows of the script's matrices before the first block, and a block   *)
(* keeps it so.                                                            *)
LEMMA ForwardRows ==
  ASSUME NEW ids \in Seq(Ids), Len(ids) \in 1 .. max_context,
         NEW W, NEW m, ModelMatches(m, W)
  PROVE  IsFlat(forward(m, ids), Network(W, Scale[head_size], ids), Len(ids), vocab_size)
<1> DEFINE n == n_embd
           T == Len(ids)
           L == n_layer
           E == W[<<"token_embedding.weight">>]
           H == W[<<"lm_head.weight">>]
           gf == W[<<"ln_f.weight">>]
           bf == W[<<"ln_f.bias">>]
           tok_emb == TokenRows(E, ids)
           a == AddVectors(EmbeddingForward(m.embedding, ids), SinusoidalGlobalPE)
           A == Plus(tok_emb, sinusoidal_embeddings(Len(ids)))
           B(l, v) == BlockForward(Item(m.blocks, l), v, T)
           C(l, V) == BlockOf(W, l, Scale[head_size], V)
           Rec(f) == f = [l \in 0 .. L |-> IF l = 0 THEN a ELSE B(l - 1, f[l - 1])]
           Sec(F) == F = [l \in 0 .. L |-> IF l = 0 THEN A ELSE C(l - 1, F[l - 1])]
           f == CHOOSE g : Rec(g)
           F == CHOOSE g : Sec(g)
<1>0. /\ n \in Nat \ {0} /\ L \in Nat /\ vocab_size \in Nat \ {0}
      /\ T \in Nat \ {0} /\ T \in Nat /\ T \in 0 .. max_context /\ T \in 1 .. max_context
  BY TransformerAssumption
<1>1. /\ IsFlat(m.embedding, E, vocab_size, n)
      /\ m.ln_f.gamma = gf /\ m.ln_f.beta = bf /\ gf \in Array(n) /\ bf \in Array(n)
      /\ IsFlat(m.lm_head, H, vocab_size, n)
  BY DEF ModelMatches, NormMatches
<1>2. IsFlat(a, A, T, n)
  <2> DEFINE y == EmbeddingForward(m.embedding, ids)
             pe == SinusoidalGlobalPE
             PE == sinusoidal_embeddings(T)
  <2>1. IsFlat(y, tok_emb, T, n)
    <3> HIDE DEF E
    <3> QED BY <1>1, EmbeddingRows
  <2>2. /\ PE \in Mat(T, n)
        /\ \A t \in 0 .. T - 1, c \in 0 .. n - 1 : pe[Place(n, t, c)] = PE[t + 1][c + 1]
    <3> HIDE DEF T
    <3> QED BY <1>0, PositionRows
  <2> HIDE DEF y, tok_emb, T, pe, PE
  <2>3. IsFlat(AddVectors(y, pe), Plus(tok_emb, PE), T, n)
    BY <1>0, <2>1, <2>2, AddRows
  <2> QED BY <2>3 DEF y, pe, PE, T
<1> HIDE DEF a, A
<1>3. ASSUME NEW l \in 0 .. L - 1, NEW v, NEW V, IsFlat(v, V, T, n)
      PROVE  IsFlat(B(l, v), C(l, V), T, n)
  <2> DEFINE b == m.blocks[l + 1]
  <2>1. BlockMatches(b, W, l)
    BY DEF ModelMatches
  <2> HIDE DEF b, T
  <2>2. IsFlat(BlockForward(b, v, T), BlockOf(W, l, Scale[head_size], V), T, n)
    BY <1>0, <1>3, <2>1, BlockRows
  <2> QED BY <2>2 DEF b, Item
\* there are such sequences of arrays and of matrices
<1>4. \E g, G : Rec(g) /\ Sec(G)
  <2> DEFINE S == {p \in Array(T * n) \X Mat(T, n) : IsFlat(p[1], p[2], T, n)}
             step == [k \in 1 .. L |-> [p \in S |-> <<B(k - 1, p[1]), C(k - 1, p[2])>>]]
  <2> HIDE DEF T, n, L, B, C
  <2>1. ASSUME NEW v, NEW V, IsFlat(v, V, T, n) PROVE <<v, V>> \in S
    BY <2>1 DEF IsFlat, Flat, Array, Mat
  <2>2. <<a, A>> \in S
    BY <1>2, <2>1
  <2>3. ASSUME NEW k \in 1 .. L, NEW p \in S PROVE <<B(k - 1, p[1]), C(k - 1, p[2])>> \in S
    <3>1. k - 1 \in 0 .. L - 1 /\ IsFlat(p[1], p[2], T, n)
      BY <1>0
    <3> HIDE DEF S
    <3> QED BY <3>1, <1>3, <2>1
  <2> HIDE DEF S
  <2>4. step \in StepsOn(S, L)
    BY <2>3 DEF StepsOn
  <2>5. PICK r \in Runs(S, L, <<a, A>>, step) : TRUE
    <3> HIDE DEF step
    <3>1. Runs(S, L, <<a, A>>, step) # {}
      BY <1>0, <2>2, <2>4, Iterates, Zenon
    <3> QED BY <3>1
  <2>6. r \in [0 .. L -> S] /\ r[0] = <<a, A>> /\ \A k \in 1 .. L : r[k] = step[k][r[k - 1]]
    <3> HIDE DEF step
    <3> QED BY <2>5 DEF Runs
  <2>7. ASSUME NEW k \in 1 .. L
        PROVE  r[k][1] = B(k - 1, r[k - 1][1]) /\ r[k][2] = C(k - 1, r[k - 1][2])
    <3>1. r[k - 1] \in S
      BY <2>6, <1>0
    <3>2. step[k] = [p \in S |-> <<B(k - 1, p[1]), C(k - 1, p[2])>>]
      OBVIOUS
    <3>3. r[k] = step[k][r[k - 1]]
      <4> HIDE DEF step
      <4> QED BY <2>6
    <3>4. r[k] = <<B(k - 1, r[k - 1][1]), C(k - 1, r[k - 1][2])>>
      <4> HIDE DEF step
      <4> QED BY <3>1, <3>2, <3>3
    <3> QED BY <3>4
  <2> DEFINE g == [k \in 0 .. L |-> r[k][1]]
             G == [k \in 0 .. L |-> r[k][2]]
  <2>8. ASSUME NEW k \in 0 .. L
        PROVE  /\ g[k] = IF k = 0 THEN a ELSE B(k - 1, g[k - 1])
               /\ G[k] = IF k = 0 THEN A ELSE C(k - 1, G[k - 1])
    <3>1. CASE k = 0
      BY <3>1, <2>6
    <3>2. CASE k # 0
      <4>1. k \in 1 .. L /\ k - 1 \in 0 .. L
        BY <3>2, <1>0
      <4>2. g[k] = r[k][1] /\ G[k] = r[k][2] /\ g[k - 1] = r[k - 1][1] /\ G[k - 1] = r[k - 1][2]
        BY <4>1
      <4> HIDE DEF g, G
      <4> QED BY <2>7, <3>2, <4>1, <4>2
    <3> QED BY <3>1, <3>2
  <2>9. g = [k \in 0 .. L |-> g[k]] /\ G = [k \in 0 .. L |-> G[k]]
    OBVIOUS
  <2> HIDE DEF g, G
  <2>10. g = [k \in 0 .. L |-> IF k = 0 THEN a ELSE B(k - 1, g[k - 1])]
    BY <2>8, <2>9
  <2>11. G = [k \in 0 .. L |-> IF k = 0 THEN A ELSE C(k - 1, G[k - 1])]
    BY <2>8, <2>9
  <2>12. Rec(g) /\ Sec(G)
    <3>1. Rec(g)
      BY <2>10, Zenon
    <3>2. Sec(G)
      BY <2>11, Zenon
    <3> QED BY <3>1, <3>2, Zenon
  <2> HIDE DEF Rec, Sec
  <2> QED BY <2>12
<1>5. Rec(f) /\ Sec(F)
  <2> HIDE DEF Rec, Sec
  <2> QED BY <1>4
<1>6. \A k \in 0 .. L : IsFlat(f[k], F[k], T, n)
  <2>1. ASSUME NEW k \in 0 .. L
        PROVE  /\ f[k] = IF k = 0 THEN a ELSE B(k - 1, f[k - 1])
               /\ F[k] = IF k = 0 THEN A ELSE C(k - 1, F[k - 1])
    <3> HIDE DEF f, F, B, C, L
    <3> QED BY <1>5
  <2> HIDE DEF f, F, B, C, L, T, n
  <2> DEFINE S == {k \in 0 .. L : IsFlat(f[k], F[k], T, n)}
  <2>2. 0 \in S
    <3>1. 0 \in 0 .. L
      BY <1>0
    <3>2. f[0] = a /\ F[0] = A
      BY <2>1, <3>1
    <3> QED BY <1>2, <3>1, <3>2
  <2>3. ASSUME NEW k \in 0 .. L - 1, k \in S PROVE k + 1 \in S
    <3>1. k + 1 \in 0 .. L /\ k + 1 # 0 /\ (k + 1) - 1 = k
      BY <1>0
    <3>2. f[k + 1] = B(k, f[k]) /\ F[k + 1] = C(k, F[k])
      BY <2>1, <3>1
    <3>3. IsFlat(f[k], F[k], T, n)
      BY <2>3
    <3>4. IsFlat(B(k, f[k]), C(k, F[k]), T, n)
      BY <1>3, <3>3
    <3> QED BY <3>1, <3>2, <3>4
  <2>4. 0 .. L \subseteq S
    <3> HIDE DEF S
    <3> QED BY <1>0, <2>2, <2>3, UpTo
  <2> QED BY <2>4
<1> DEFINE x == f[L]
           X == F[L]
           u == LayerNormForward(m.ln_f, x, T)
           U == nn_LayerNorm(gf, bf, X)
<1>7. IsFlat(x, X, T, n)
  <2>1. L \in 0 .. L
    BY <1>0
  <2> HIDE DEF f, F, L, T, n
  <2> QED BY <1>6, <2>1
<1> HIDE DEF x, X
<1>8. IsFlat(u, U, T, n)
  <2> HIDE DEF gf, bf, T
  <2> QED BY <1>0, <1>1, <1>7, LayerNormRows
<1> HIDE DEF u, U
<1>9. IsFlat(LinearForward(m.lm_head, n, vocab_size, u, T), nn_Linear(H, U), T, vocab_size)
  <2> HIDE DEF H, T
  <2> QED BY <1>0, <1>1, <1>8, LinearRows
<1>10. forward(m, ids) = LinearForward(m.lm_head, n, vocab_size, u, T)
  BY Zenon DEF forward, u, x, a
<1>11. Network(W, Scale[head_size], ids) = nn_Linear(H, U)
  BY Zenon DEF Network, TokenRows, U, X, A
<1> QED BY <1>9, <1>10, <1>11

-----------------------------------------------------------------------------
(* Loading: what the server reads of an export.                            *)

LEMMA FourWords ==
  ASSUME NEW x, NEW y, NEW z, NEW v
  PROVE  <<x>> \o <<y>> \o <<z, v>> = <<x, y, z, v>>
<1> DEFINE S == {x, y, z, v}
           p == <<x>>
           q == <<y>>
           r == <<z, v>>
           t == <<x, y, z, v>>
<1>1. p \in Seq(S) /\ q \in Seq(S) /\ r \in Seq(S) /\ t \in Seq(S)
  OBVIOUS
<1>2. Len(p) = 1 /\ Len(q) = 1 /\ Len(r) = 2 /\ Len(t) = 4
  OBVIOUS
<1>3. p[1] = x /\ q[1] = y /\ r[1] = z /\ r[2] = v /\ t[1] = x /\ t[2] = y /\ t[3] = z /\ t[4] = v
  OBVIOUS
<1> HIDE DEF S, p, q, r, t
<1> DEFINE a == p \o q
<1>4. a \in Seq(S) /\ Len(a) = 2 /\ a[1] = x /\ a[2] = y
  <2>1. /\ a \in Seq(S)
        /\ Len(a) = Len(p) + Len(q)
        /\ \A i \in 1 .. Len(p) + Len(q) :
             a[i] = IF i <= Len(p) THEN p[i] ELSE q[i - Len(p)]
    BY <1>1, ConcatProperties, Zenon
  <2> HIDE DEF a
  <2> QED BY <2>1, <1>2, <1>3
<1> HIDE DEF a
<1> DEFINE b == a \o r
<1>5. b \in Seq(S) /\ Len(b) = 4 /\ b[1] = x /\ b[2] = y /\ b[3] = z /\ b[4] = v
  <2>1. /\ b \in Seq(S)
        /\ Len(b) = Len(a) + Len(r)
        /\ \A i \in 1 .. Len(a) + Len(r) :
             b[i] = IF i <= Len(a) THEN a[i] ELSE r[i - Len(a)]
    BY <1>1, <1>4, ConcatProperties, Zenon
  <2> HIDE DEF b
  <2> QED BY <2>1, <1>2, <1>3, <1>4
<1> HIDE DEF b
<1>6. \A i \in 1 .. Len(b) : b[i] = t[i]
  BY <1>3, <1>5
<1>7. b = t
  BY <1>1, <1>2, <1>5, <1>6, SeqEqual
<1> QED BY <1>7 DEF a, b, p, q, r, t

LEMMA FiveWords ==
  ASSUME NEW x, NEW y, NEW w, NEW z, NEW v
  PROVE  <<x>> \o <<y, w>> \o <<z, v>> = <<x, y, w, z, v>>
<1> DEFINE S == {x, y, w, z, v}
           p == <<x>>
           q == <<y, w>>
           r == <<z, v>>
           t == <<x, y, w, z, v>>
<1>1. p \in Seq(S) /\ q \in Seq(S) /\ r \in Seq(S) /\ t \in Seq(S)
  OBVIOUS
<1>2. Len(p) = 1 /\ Len(q) = 2 /\ Len(r) = 2 /\ Len(t) = 5
  OBVIOUS
<1>3. /\ p[1] = x /\ q[1] = y /\ q[2] = w /\ r[1] = z /\ r[2] = v
      /\ t[1] = x /\ t[2] = y /\ t[3] = w /\ t[4] = z /\ t[5] = v
  OBVIOUS
<1> HIDE DEF S, p, q, r, t
<1> DEFINE a == p \o q
<1>4. a \in Seq(S) /\ Len(a) = 3 /\ a[1] = x /\ a[2] = y /\ a[3] = w
  <2>1. /\ a \in Seq(S)
        /\ Len(a) = Len(p) + Len(q)
        /\ \A i \in 1 .. Len(p) + Len(q) :
             a[i] = IF i <= Len(p) THEN p[i] ELSE q[i - Len(p)]
    BY <1>1, ConcatProperties, Zenon
  <2> HIDE DEF a
  <2> QED BY <2>1, <1>2, <1>3
<1> HIDE DEF a
<1> DEFINE b == a \o r
<1>5. /\ b \in Seq(S) /\ Len(b) = 5
      /\ b[1] = x /\ b[2] = y /\ b[3] = w /\ b[4] = z /\ b[5] = v
  <2>1. /\ b \in Seq(S)
        /\ Len(b) = Len(a) + Len(r)
        /\ \A i \in 1 .. Len(a) + Len(r) :
             b[i] = IF i <= Len(a) THEN a[i] ELSE r[i - Len(a)]
    BY <1>1, <1>4, ConcatProperties, Zenon
  <2> HIDE DEF b
  <2> QED BY <2>1, <1>2, <1>3, <1>4
<1> HIDE DEF b
<1>6. \A i \in 1 .. Len(b) : b[i] = t[i]
  BY <1>3, <1>5
<1>7. b = t
  BY <1>1, <1>2, <1>5, <1>6, SeqEqual
<1> QED BY <1>7 DEF a, b, p, q, r, t

(* The shapes of the parameters.                                           *)
Sizes == {vocab_size, head_size, n_embd, 4 * n_embd}

LEMMA SizeType == Sizes \subseteq Nat \ {0}
BY HeadSize, TransformerAssumption DEF Sizes

LEMMA ShapeType ==
  ASSUME NEW name \in Parameters
  PROVE  \/ \E a \in Sizes : Shape(name) = <<a>>
         \/ \E a \in Sizes, b \in Sizes : Shape(name) = <<a, b>>
<1>1. Last(name) \in OfBlock \cup OfHead
                       \cup {"token_embedding.weight", "ln_f.weight", "ln_f.bias", "lm_head.weight"}
  <2>1. CASE \E p \in {"token_embedding.weight", "ln_f.weight", "ln_f.bias", "lm_head.weight"} :
               name = <<p>>
    BY <2>1 DEF Last
  <2>2. CASE name \in Layers \X OfBlock
    <3>1. PICK l \in Layers, p \in OfBlock : name = <<l, p>>
      BY <2>2
    <3>2. Last(name) = p
      BY <3>1 DEF Last
    <3> QED BY <3>2
  <2>3. CASE name \in Layers \X (0 .. n_head - 1) \X OfHead
    <3>1. PICK l \in Layers, h \in 0 .. n_head - 1, p \in OfHead : name = <<l, h, p>>
      BY <2>3
    <3>2. Last(name) = p
      BY <3>1 DEF Last
    <3> QED BY <3>2
  <2> QED BY <2>1, <2>2, <2>3 DEF Parameters
<1>2. Shape(name) \in {<<n_embd>>, <<vocab_size, n_embd>>, <<head_size, n_embd>>, <<n_embd, n_embd>>,
                       <<4 * n_embd, n_embd>>, <<n_embd, 4 * n_embd>>}
  BY <1>1 DEF Shape, OfBlock, OfNorm, OfHead
<1> QED BY <1>2, Zenon DEF Sizes

(* A line of metadata, read back.                                          *)
ShapeRead(line) == IF IsMatrix(line) THEN <<line[2], line[3]>> ELSE <<line[2]>>

LEMMA LineRead ==
  ASSUME NEW name \in Parameters
  PROVE  LET line == MetadataLine(name)
         IN /\ line[1] = name
            /\ IsMatrix(line) \/ IsVector(line)
            /\ ShapeRead(line) = Shape(name)
            /\ Size(line) = Numbers(Shape(name))
            /\ Numbers(Shape(name)) \in Nat \ {0}
<1>1. CASE \E a \in Sizes : Shape(name) = <<a>>
  <2>1. PICK a \in Sizes : Shape(name) = <<a>>
    BY <1>1
  <2>2. Numbers(Shape(name)) = a /\ a \in Nat \ {0}
    BY <2>1, SizeType DEF Numbers
  <2>3. MetadataLine(name) = <<name, a, "float32", a>>
    BY <2>1, <2>2, FourWords, Zenon DEF MetadataLine
  <2> QED BY <2>1, <2>2, <2>3 DEF IsMatrix, IsVector, ShapeRead, Size
<1>2. CASE \E a \in Sizes, b \in Sizes : Shape(name) = <<a, b>>
  <2>1. PICK a \in Sizes, b \in Sizes : Shape(name) = <<a, b>>
    BY <1>2
  <2>2. Numbers(Shape(name)) = a * b
    BY <2>1 DEF Numbers
  <2> DEFINE k == a * b
  <2>3. k \in Nat \ {0}
    <3>1. a \in Nat \ {0} /\ b \in Nat \ {0}
      BY SizeType
    <3> QED BY <3>1
  <2>4. MetadataLine(name) = <<name, a, b, "float32", k>>
    <3>1. MetadataLine(name) = <<name>> \o <<a, b>> \o <<"float32", k>>
      BY <2>1, <2>2, Zenon DEF MetadataLine
    <3> HIDE DEF k
    <3> QED BY <3>1, FiveWords, Zenon
  <2> HIDE DEF k
  <2>5. Numbers(Shape(name)) = k
    BY <2>2 DEF k
  <2> QED BY <2>1, <2>3, <2>4, <2>5 DEF IsMatrix, IsVector, ShapeRead, Size
<1> QED BY <1>1, <1>2, ShapeType

(* A file of the export has the numbers its line says.                     *)
Trained(W) == DOMAIN W = Parameters /\ \A name \in Parameters : W[name] \in Weights(name)

LEMMA FileRead ==
  ASSUME NEW W, Trained(W), NEW name \in Parameters
  PROVE  /\ File(W, name) \in Array(Numbers(Shape(name)))
         /\ \A a \in Nat : Shape(name) = <<a>> =>
              W[name] \in Array(a) /\ File(W, name) = W[name]
         /\ \A a \in Nat \ {0}, b \in Nat \ {0} : Shape(name) = <<a, b>> =>
              IsFlat(File(W, name), W[name], a, b)
<1>0. W[name] \in Weights(name)
  BY DEF Trained
<1>1. ASSUME NEW a \in Nat, Shape(name) = <<a>>
      PROVE  W[name] \in Array(a) /\ File(W, name) = W[name] /\ Numbers(Shape(name)) = a
  BY <1>0, <1>1 DEF Weights, File, Numbers, Array
<1>2. ASSUME NEW a \in Nat \ {0}, NEW b \in Nat \ {0}, Shape(name) = <<a, b>>
      PROVE  IsFlat(File(W, name), W[name], a, b) /\ Numbers(Shape(name)) = a * b
  <2>1. Len(Shape(name)) = 2 /\ Shape(name)[1] = a /\ Shape(name)[2] = b
    BY <1>2
  <2>2. W[name] \in Rows(Num, a, b)
    BY <1>0, <2>1 DEF Weights, Rows
  <2>3. File(W, name) = FlattenSeq(W[name]) /\ Numbers(Shape(name)) = a * b
    BY <2>1 DEF File, Numbers
  <2> DEFINE M == W[name]
  <2>4. M \in Rows(Num, a, b)
    BY <2>2
  <2> HIDE DEF M
  <2>5. Flat(Num, FlattenSeq(M), M, a, b)
    BY <2>4, FlattenRows
  <2> QED BY <2>3, <2>5 DEF IsFlat, M
<1>3. File(W, name) \in Array(Numbers(Shape(name)))
  <2>1. CASE \E a \in Sizes : Shape(name) = <<a>>
    <3>1. PICK a \in Sizes : Shape(name) = <<a>>
      BY <2>1
    <3>2. a \in Nat
      BY SizeType
    <3> QED BY <3>1, <3>2, <1>1
  <2>2. CASE \E a \in Sizes, b \in Sizes : Shape(name) = <<a, b>>
    <3>1. PICK a \in Sizes, b \in Sizes : Shape(name) = <<a, b>>
      BY <2>2
    <3>2. a \in Nat \ {0} /\ b \in Nat \ {0}
      BY SizeType
    <3>3. IsFlat(File(W, name), W[name], a, b) /\ Numbers(Shape(name)) = a * b
      BY <3>1, <3>2, <1>2
    <3> QED BY <3>3 DEF IsFlat, Flat, Array
  <2> QED BY <2>1, <2>2, ShapeType
<1> QED BY <1>1, <1>2, <1>3

(* The line of a parameter is the only one for it and its file is there:   *)
(* the tensor is what was written.                                         *)
LEMMA Read ==
  ASSUME NEW W, Trained(W), NEW name \in Parameters, NEW X,
         MetadataLine(name) \in X.metadata,
         \A line \in X.metadata : line[1] = name => line = MetadataLine(name),
         name \in DOMAIN X.files, X.files[name] = File(W, name)
  PROVE  /\ Loaded(X, name)
         /\ Tensor(X, name).shape = Shape(name)
         /\ Tensor(X, name).data = File(W, name)
<1> DEFINE L == MetadataLine(name)
           k == Numbers(Shape(name))
           d == File(W, name)
           R(l) == l[1] = name /\ Readable(X, l)
           c == CHOOSE l \in X.metadata : R(l)
<1>1. /\ L[1] = name /\ (IsMatrix(L) \/ IsVector(L)) /\ ShapeRead(L) = Shape(name)
      /\ Size(L) = k /\ k \in Nat \ {0}
  BY LineRead
<1>2. d \in [1 .. k -> Num]
  BY FileRead DEF Array
<1> HIDE DEF L, k, d
<1>3. Len(d) = k /\ SubSeq(d, 1, k) = d
  <2>1. d = [i \in 1 .. k |-> d[i]]
    BY <1>2
  <2>2. SubSeq(d, 1, k) = d
    BY <1>1, <2>1, Computed
  <2> QED BY <1>1, <1>2, <2>2
<1>4. Readable(X, L)
  BY <1>1, <1>3 DEF Readable, d
<1>5. L \in X.metadata /\ R(L) /\ \A l \in X.metadata : R(l) => l = L
  BY <1>1, <1>4 DEF L
<1>6. c = L
  <2> HIDE DEF R
  <2> QED BY <1>5
<1>7. Tensor(X, name) = [shape |-> ShapeRead(c), data |-> SubSeq(X.files[name], 1, Size(c))]
  BY Zenon DEF Tensor, ShapeRead
<1>8. X.files[name] = d
  BY DEF d
<1> HIDE DEF c
<1>9. Tensor(X, name) = [shape |-> Shape(name), data |-> d]
  BY <1>1, <1>3, <1>6, <1>7, <1>8
<1>10. Loaded(X, name)
  BY <1>5 DEF Loaded
<1> QED BY <1>9, <1>10 DEF d

IsFault(f) ==
  \/ f = [kind |-> "none"]
  \/ f \in [kind : {"lost", "short", "spoiled", "reshaped"}, name : Parameters]

Hit(f, name) == f.kind # "none" /\ f.name = name

(* Of one shape there can be but the parameter's own line.                 *)
LEMMA OtherShape ==
  ASSUME NEW name \in Parameters
  PROVE  LET line == [MetadataLine(name) EXCEPT ![2] = @ + 1]
         IN line[1] = name /\ ShapeRead(line) # Shape(name)
<1> DEFINE L == MetadataLine(name)
           M == [L EXCEPT ![2] = @ + 1]
<1>1. /\ L[1] = name /\ (IsMatrix(L) \/ IsVector(L)) /\ ShapeRead(L) = Shape(name)
  BY LineRead
<1>2. \A a \in Sizes : a \in Int /\ a + 1 # a
  BY SizeType
<1>3. CASE \E a \in Sizes : Shape(name) = <<a>>
  <2>1. PICK a \in Sizes : Shape(name) = <<a>>
    BY <1>3
  <2>2. L = <<name, a, "float32", a>>
    <3>1. Numbers(Shape(name)) = a
      BY <2>1 DEF Numbers
    <3> QED BY <2>1, <3>1, FourWords, Zenon DEF MetadataLine
  <2>3. M = <<name, a + 1, "float32", a>>
    BY <2>2
  <2>4. M[1] = name /\ ShapeRead(M) = <<a + 1>>
    <3> HIDE DEF M
    <3> QED BY <2>3 DEF ShapeRead, IsMatrix
  <2>5. <<a + 1>> # <<a>>
    BY <1>2
  <2> HIDE DEF L
  <2> QED BY <2>1, <2>4, <2>5 DEF L
<1>4. CASE \E a \in Sizes, b \in Sizes : Shape(name) = <<a, b>>
  <2>1. PICK a \in Sizes, b \in Sizes : Shape(name) = <<a, b>>
    BY <1>4
  <2> DEFINE k == Numbers(Shape(name))
  <2>2. L = <<name, a, b, "float32", k>>
    <3>1. L = <<name>> \o <<a, b>> \o <<"float32", k>>
      BY <2>1, Zenon DEF MetadataLine
    <3> HIDE DEF k, L
    <3> QED BY <3>1, FiveWords
  <2> HIDE DEF k
  <2>3. M = <<name, a + 1, b, "float32", k>>
    BY <2>2
  <2>4. M[1] = name /\ ShapeRead(M) = <<a + 1, b>>
    <3> HIDE DEF M
    <3> QED BY <2>3 DEF ShapeRead, IsMatrix
  <2>5. <<a + 1, b>> # <<a, b>>
    BY <1>2
  <2> HIDE DEF L
  <2> QED BY <2>1, <2>4, <2>5 DEF L
<1> QED BY <1>3, <1>4, ShapeType

(* Whatever has happened to the export, a parameter is read as it was      *)
(* written or stays as the constructor left it; only that of the fault is  *)
(* not read.                                                               *)
LEMMA SetRead ==
  ASSUME NEW W, Trained(W), NEW f, IsFault(f), NEW name \in Parameters, NEW initial
  PROVE  Set(Damaged(Export(W), f), name, Shape(name), initial)
           = IF Hit(f, name) THEN initial ELSE File(W, name)
<1> DEFINE X == Damaged(Export(W), f)
           Lines == {MetadataLine(n) : n \in Parameters}
           files == [n \in Parameters |-> File(W, n)]
           line == MetadataLine(f.name)
           others == Lines \ {line}
<1>1. \A n \in Parameters : MetadataLine(n)[1] = n
  BY LineRead
<1>2. ASSUME NEW Y, MetadataLine(name) \in Y.metadata,
             \A l \in Y.metadata : l[1] = name => l = MetadataLine(name),
             name \in DOMAIN Y.files, Y.files[name] = File(W, name)
      PROVE  Set(Y, name, Shape(name), initial) = File(W, name)
  BY <1>2, Read DEF Set
<1>3. ASSUME NEW Y,
             \A l \in Y.metadata : l[1] = name => ~Readable(Y, l) \/ ShapeRead(l) # Shape(name)
      PROVE  Set(Y, name, Shape(name), initial) = initial
  <2>1. CASE ~Loaded(Y, name)
    BY <2>1 DEF Set
  <2>2. CASE Loaded(Y, name)
    <3> DEFINE R(l) == l[1] = name /\ Readable(Y, l)
               c == CHOOSE l \in Y.metadata : R(l)
    <3>1. \E l \in Y.metadata : R(l)
      BY <2>2 DEF Loaded
    <3>2. c \in Y.metadata /\ R(c)
      <4> HIDE DEF R
      <4> QED BY <3>1
    <3>3. Tensor(Y, name) = [shape |-> ShapeRead(c), data |-> SubSeq(Y.files[name], 1, Size(c))]
      BY Zenon DEF Tensor, ShapeRead
    <3> HIDE DEF c
    <3>4. Tensor(Y, name).shape = ShapeRead(c)
      BY <3>3
    <3> QED BY <3>2, <3>4, <1>3 DEF Set
  <2> QED BY <2>1, <2>2
<1>4. CASE f.kind = "none"
  <2>1. X.metadata = Lines /\ X.files = files
    BY <1>4 DEF Damaged, Export
  <2>2. ~Hit(f, name)
    BY <1>4 DEF Hit
  <2> HIDE DEF X
  <2> QED BY <1>1, <1>2, <2>1, <2>2 DEF X
<1>5. CASE f \in [kind : {"lost", "short", "spoiled", "reshaped"}, name : Parameters]
  <2>0. /\ f.name \in Parameters /\ f.kind \in {"lost", "short", "spoiled", "reshaped"}
        /\ (Hit(f, name) <=> f.name = name)
        /\ MetadataLine(f.name)[1] = f.name /\ line \in Lines
    BY <1>1, <1>5 DEF Hit
  \* the parameters of no fault
  <2>1. ASSUME f.name # name, Lines \ {line} \subseteq X.metadata,
               \A l \in X.metadata : l \in Lines \/ l[1] = f.name,
               name \in DOMAIN X.files, X.files[name] = File(W, name)
        PROVE  Set(X, name, Shape(name), initial) = File(W, name)
    <3>1. MetadataLine(name) \in X.metadata
      <4>1. MetadataLine(name) \in Lines /\ MetadataLine(name) # line
        BY <1>1, <2>0, <2>1
      <4> HIDE DEF X, Lines
      <4> QED BY <2>1, <4>1
    <3>2. \A l \in X.metadata : l[1] = name => l = MetadataLine(name)
      <4>1. \A l \in Lines : l[1] = name => l = MetadataLine(name)
        BY <1>1
      <4> HIDE DEF X, Lines
      <4> QED BY <2>1, <4>1
    <3> HIDE DEF X
    <3> QED BY <1>2, <2>1, <3>1, <3>2
  <2>2. CASE f.kind = "lost"
    <3>1. X.metadata = Lines /\ X.files = [n \in Parameters \ {f.name} |-> files[n]]
      BY <2>2 DEF Damaged, Export
    <3> HIDE DEF X
    <3>2. CASE f.name = name
      <4>1. \A l \in X.metadata : l[1] = name => ~Readable(X, l)
        BY <3>1, <3>2 DEF Readable
      <4> QED BY <1>3, <2>0, <3>2, <4>1 DEF X
    <3>3. CASE f.name # name
      <4>1. name \in DOMAIN X.files /\ X.files[name] = File(W, name)
        BY <3>1, <3>3
      <4> QED BY <2>0, <2>1, <3>1, <3>3, <4>1 DEF X
    <3> QED BY <3>2, <3>3
  <2>3. CASE f.kind = "short"
    <3>1. X.metadata = Lines /\ X.files = [files EXCEPT ![f.name] = Tail(@)]
      BY <2>3 DEF Damaged, Export
    <3> HIDE DEF X
    <3>2. CASE f.name = name
      <4>1. X.files[name] = Tail(File(W, name))
        BY <3>1, <3>2
      <4> DEFINE k == Numbers(Shape(name))
                 d == File(W, name)
      <4>2. d \in [1 .. k -> Num] /\ k \in Nat \ {0}
        BY FileRead, LineRead DEF Array
      <4> HIDE DEF k, d
      <4>3. Len(Tail(d)) < k
        <5>1. d \in Seq(Num) /\ Len(d) = k /\ d # <<>>
          BY <4>2
        <5>2. Len(Tail(d)) = Len(d) - 1
          BY <5>1, HeadTailProperties
        <5> QED BY <4>2, <5>1, <5>2
      <4>4. \A l \in X.metadata : l[1] = name => Size(l) = k
        BY <3>1, <1>1, LineRead DEF k
      <4>5. Len(Tail(d)) \in Int
        <5>1. d \in Seq(Num) /\ d # <<>>
          BY <4>2
        <5>2. Tail(d) \in Seq(Num)
          BY <5>1, HeadTailProperties
        <5> QED BY <5>2, LenProperties
      <4>6. \A l \in X.metadata : l[1] = name => ~Readable(X, l)
        BY <4>1, <4>2, <4>3, <4>4, <4>5 DEF Readable, d
      <4> QED BY <1>3, <2>0, <3>2, <4>6 DEF X
    <3>3. CASE f.name # name
      <4>1. name \in DOMAIN X.files /\ X.files[name] = File(W, name)
        BY <3>1, <3>3
      <4> QED BY <2>0, <2>1, <3>1, <3>3, <4>1 DEF X
    <3> QED BY <3>2, <3>3
  <2>4. CASE f.kind = "spoiled"
    <3>1. X.metadata = others \cup {<<f.name>>} /\ X.files = files
      BY <2>4 DEF Damaged, Export
    <3> HIDE DEF X
    <3>2. CASE f.name = name
      <4>1. \A l \in X.metadata : l[1] = name => l = <<name>>
        BY <1>1, <3>1, <3>2
      <4>2. ~Readable(X, <<name>>)
        BY DEF Readable, IsMatrix, IsVector
      <4> QED BY <1>3, <2>0, <3>2, <4>1, <4>2 DEF X
    <3>3. CASE f.name # name
      <4>1. name \in DOMAIN X.files /\ X.files[name] = File(W, name)
        BY <3>1
      <4>2. \A l \in X.metadata : l \in Lines \/ l[1] = f.name
        BY <3>1
      <4> QED BY <2>0, <2>1, <3>1, <3>3, <4>1, <4>2 DEF X
    <3> QED BY <3>2, <3>3
  <2>5. CASE f.kind = "reshaped"
    <3> DEFINE changed == [line EXCEPT ![2] = @ + 1]
    <3>1. X.metadata = others \cup {changed} /\ X.files = files
      BY <2>5 DEF Damaged, Export
    <3>0. changed[1] = f.name /\ ShapeRead(changed) # Shape(f.name)
      BY <2>0, OtherShape
    <3> HIDE DEF X, changed
    <3>2. CASE f.name = name
      <4>1. \A l \in X.metadata : l[1] = name => l = changed
        BY <1>1, <3>1, <3>2
      <4> QED BY <1>3, <2>0, <3>0, <3>2, <4>1 DEF X
    <3>3. CASE f.name # name
      <4>1. name \in DOMAIN X.files /\ X.files[name] = File(W, name)
        BY <3>1
      <4>2. \A l \in X.metadata : l \in Lines \/ l[1] = f.name
        BY <3>0, <3>1
      <4> QED BY <2>0, <2>1, <3>1, <3>3, <4>1, <4>2 DEF X
    <3> QED BY <3>2, <3>3
  <2> QED BY <2>0, <2>2, <2>3, <2>4, <2>5
<1> QED BY <1>4, <1>5 DEF IsFault

(* The parameters the server is expected to have.                          *)
ExpectedOf(W, f) == IF f.kind = "none" THEN W ELSE [W EXCEPT ![f.name] = Untrained(f.name)]

LEMMA ExpectedAt ==
  ASSUME NEW W, Trained(W), NEW f, IsFault(f), NEW name \in Parameters
  PROVE  ExpectedOf(W, f)[name] = IF Hit(f, name) THEN Untrained(name) ELSE W[name]
<1>1. CASE f.kind = "none"
  BY <1>1 DEF ExpectedOf, Hit
<1>2. CASE f.kind # "none"
  BY <1>2 DEF ExpectedOf, Hit, Trained
<1> QED BY <1>1, <1>2

Same(n, c) == [i \in 1 .. n |-> c]
Zeros(m, n) == [i \in 1 .. m |-> Same(n, 0)]

LEMMA UntrainedIs ==
  ASSUME NEW name, NEW c, c = IF Last(name) \in {"ln1.weight", "ln2.weight", "ln_f.weight"} THEN 1 ELSE 0
  PROVE  /\ \A a \in Nat : Shape(name) = <<a>> => Untrained(name) = Same(a, c)
         /\ \A a \in Nat, b \in Nat :
              Shape(name) = <<a, b>> => Untrained(name) = [i \in 1 .. a |-> Same(b, c)]
<1>1. ASSUME NEW a \in Nat PROVE SubSeq(Same(a, c), 1, a) = Same(a, c)
  <2>1. Same(a, c) = [i \in 1 .. a |-> Same(a, c)[i]]
    BY DEF Same
  <2> QED BY <2>1, Computed
<1>2. ASSUME NEW a \in Nat, Shape(name) = <<a>> PROVE Untrained(name) = Same(a, c)
  <2> DEFINE s == Shape(name)
  <2>1. Len(s) = 1 /\ s[1] = a
    BY <1>2
  <2> HIDE DEF s
  <2>2. Untrained(name) = IF Len(s) = 1 THEN SubSeq([i \in 1 .. s[1] |-> c], 1, s[1])
                          ELSE SubSeq([i \in 1 .. s[1] |-> SubSeq([j \in 1 .. s[2] |-> c], 1, s[2])], 1, s[1])
    BY Zenon DEF Untrained, Row, Matrix, s
  <2> QED BY <1>1, <2>1, <2>2 DEF Same
<1>3. ASSUME NEW a \in Nat, NEW b \in Nat, Shape(name) = <<a, b>>
      PROVE  Untrained(name) = [i \in 1 .. a |-> Same(b, c)]
  <2> DEFINE s == Shape(name)
             z == [i \in 1 .. a |-> Same(b, c)]
  <2>1. Len(s) = 2 /\ s[1] = a /\ s[2] = b
    BY <1>3
  <2> HIDE DEF s
  <2>2. Untrained(name) = IF Len(s) = 1 THEN SubSeq([i \in 1 .. s[1] |-> c], 1, s[1])
                          ELSE SubSeq([i \in 1 .. s[1] |-> SubSeq([j \in 1 .. s[2] |-> c], 1, s[2])], 1, s[1])
    BY Zenon DEF Untrained, Row, Matrix, s
  <2>3. Untrained(name) = SubSeq([i \in 1 .. a |-> SubSeq([j \in 1 .. b |-> c], 1, b)], 1, a)
    BY <2>1, <2>2
  <2>4. SubSeq([j \in 1 .. b |-> c], 1, b) = Same(b, c)
    BY <1>1 DEF Same
  <2>5. z = [i \in 1 .. a |-> z[i]]
    OBVIOUS
  <2>6. SubSeq(z, 1, a) = z
    <3> HIDE DEF z
    <3> QED BY <2>5, Computed
  <2> QED BY <2>3, <2>4, <2>6
<1> QED BY <1>2, <1>3

LEMMA UntrainedIsZero ==
  ASSUME NEW name, NEW a \in Nat, NEW b \in Nat, Shape(name) = <<a, b>>,
         NEW p, Last(name) = p, p \notin {"ln1.weight", "ln2.weight", "ln_f.weight"}
  PROVE  Untrained(name) = Zeros(a, b)
BY UntrainedIs DEF Zeros

LEMMA VectorRead ==
  ASSUME NEW W, Trained(W), NEW f, IsFault(f), NEW name \in Parameters,
         Shape(name) = <<n_embd>>, NEW c \in {0, 1}, Untrained(name) = Same(n_embd, c)
  PROVE  LET v == Set(Damaged(Export(W), f), name, <<n_embd>>, Fill(n_embd, c))
         IN v = ExpectedOf(W, f)[name] /\ v \in Array(n_embd)
<1> DEFINE n == n_embd
           z == [i \in 1 .. n |-> c]
<1>0. n \in Nat /\ c \in Num
  <2>1. n \in Nat
    BY TransformerAssumption
  <2>2. c \in Num
    BY PositiveP DEF Num
  <2> QED BY <2>1, <2>2
<1>1. Same(n_embd, c) = z /\ Fill(n_embd, c) = z
  <2>0. Same(n_embd, c) = z
    BY DEF Same
  <2>1. Fill(n_embd, c) = SubSeq(z, 1, n)
    BY Zenon DEF Fill, Vector
  <2>2. z = [i \in 1 .. n |-> z[i]]
    OBVIOUS
  <2> HIDE DEF z, n
  <2> QED BY <1>0, <2>0, <2>1, <2>2, Computed
<1>2. z \in Array(n)
  BY <1>0 DEF Array
<1>3. W[name] \in Array(n) /\ File(W, name) = W[name]
  BY <1>0, FileRead
<1> DEFINE v == Set(Damaged(Export(W), f), name, <<n_embd>>, Fill(n_embd, c))
<1>4. v = IF Hit(f, name) THEN Fill(n_embd, c) ELSE File(W, name)
  <2> DEFINE initial == Fill(n_embd, c)
  <2> HIDE DEF initial
  <2>1. Set(Damaged(Export(W), f), name, Shape(name), initial)
          = IF Hit(f, name) THEN initial ELSE File(W, name)
    BY SetRead
  <2> QED BY <2>1 DEF initial
<1>5. Untrained(name) = z
  BY <1>1
<1> HIDE DEF v, z, n
<1>6. v = ExpectedOf(W, f)[name] /\ v \in Array(n)
  BY <1>1, <1>2, <1>3, <1>4, <1>5, ExpectedAt
<1> QED BY <1>6 DEF v, n

LEMMA MatrixRead ==
  ASSUME NEW W, Trained(W), NEW f, IsFault(f), NEW name \in Parameters,
         NEW in \in Sizes, NEW out \in Sizes, Shape(name) = <<out, in>>,
         Untrained(name) = Zeros(out, in)
  PROVE  IsFlat(LinearWeight(Damaged(Export(W), f), name, in, out), ExpectedOf(W, f)[name], out, in)
<1> DEFINE z == [k \in 1 .. out * in |-> 0]
           Z == [i \in 1 .. out |-> [j \in 1 .. in |-> 0]]
<1>0. in \in Nat \ {0} /\ out \in Nat \ {0} /\ in \in Nat /\ out \in Nat /\ out * in \in Nat /\ 0 \in Num
  <2>1. in \in Nat \ {0} /\ out \in Nat \ {0}
    BY SizeType
  <2>2. out * in \in Nat
    BY <2>1
  <2>3. in \in Nat /\ out \in Nat
    BY <2>1
  <2> QED BY <2>1, <2>2, <2>3, NumsAreInts, Zenon
<1>1. Fill(out * in, 0) = z
  <2>1. Fill(out * in, 0) = SubSeq(z, 1, out * in)
    BY Zenon DEF Fill, Vector
  <2>2. z = [k \in 1 .. out * in |-> z[k]]
    OBVIOUS
  <2> HIDE DEF z
  <2> QED BY <1>0, <2>1, <2>2, Computed
<1>2. Untrained(name) = Z
  BY DEF Zeros, Same
<1>3. IsFlat(z, Z, out, in)
  <2>1. Z \in Mat(out, in)
    BY <1>0 DEF Mat, Rows
  <2>2. \A t \in 0 .. out - 1, c \in 0 .. in - 1 : z[Place(in, t, c)] = Z[t + 1][c + 1]
    <3>1. ASSUME NEW t \in 0 .. out - 1, NEW c \in 0 .. in - 1
          PROVE  z[Place(in, t, c)] = Z[t + 1][c + 1]
      <4>1. Place(in, t, c) \in 1 .. out * in
        BY <1>0, PlaceOf
      <4>2. t + 1 \in 1 .. out /\ c + 1 \in 1 .. in
        <5> HIDE DEF z, Z
        <5>1. in \in Nat /\ out \in Nat
          BY <1>0
        <5> QED BY <5>1
      <4>3. Z[t + 1][c + 1] = 0
        BY <4>2
      <4> HIDE DEF Z
      <4> QED BY <4>1, <4>3
    <3> QED BY <3>1
  <2>3. z = [k \in 1 .. out * in |-> z[k]]
    OBVIOUS
  <2> HIDE DEF z, Z
  <2> QED BY <1>0, <2>1, <2>2, <2>3, FlatIntro
<1>4. IsFlat(File(W, name), W[name], out, in)
  BY <1>0, FileRead
<1> DEFINE v == LinearWeight(Damaged(Export(W), f), name, in, out)
<1>5. v = IF Hit(f, name) THEN z ELSE File(W, name)
  <2> HIDE DEF z
  <2>1. Set(Damaged(Export(W), f), name, Shape(name), z)
          = IF Hit(f, name) THEN z ELSE File(W, name)
    BY SetRead
  <2> QED BY <1>1, <2>1 DEF LinearWeight
<1> HIDE DEF v, z, Z
<1>6. IsFlat(v, ExpectedOf(W, f)[name], out, in)
  BY <1>2, <1>3, <1>4, <1>5, ExpectedAt
<1> QED BY <1>6 DEF v

(* The names of the parameters, their shapes and what they begin as.       *)
LEMMA NetworkNames ==
  /\ \A p \in {"token_embedding.weight", "lm_head.weight"} :
       /\ <<p>> \in Parameters /\ Shape(<<p>>) = <<vocab_size, n_embd>>
       /\ Untrained(<<p>>) = Zeros(vocab_size, n_embd)
  /\ <<"ln_f.weight">> \in Parameters /\ Shape(<<"ln_f.weight">>) = <<n_embd>>
  /\ Untrained(<<"ln_f.weight">>) = Same(n_embd, 1)
  /\ <<"ln_f.bias">> \in Parameters /\ Shape(<<"ln_f.bias">>) = <<n_embd>>
  /\ Untrained(<<"ln_f.bias">>) = Same(n_embd, 0)
<1>0. n_embd \in Nat /\ vocab_size \in Nat
  BY TransformerAssumption
<1>1. ASSUME NEW p \in {"token_embedding.weight", "lm_head.weight"}
      PROVE  /\ <<p>> \in Parameters /\ Shape(<<p>>) = <<vocab_size, n_embd>>
             /\ Untrained(<<p>>) = Zeros(vocab_size, n_embd)
  <2>1. <<p>> \in Parameters /\ Shape(<<p>>) = <<vocab_size, n_embd>>
    BY DEF Parameters, Shape, Last, OfNorm, OfHead
  <2>2. Last(<<p>>) \notin {"ln1.weight", "ln2.weight", "ln_f.weight"}
    BY DEF Last
  <2> QED BY <1>0, <2>1, <2>2, UntrainedIs DEF Zeros
<1>2. \A p \in {"ln_f.weight", "ln_f.bias"} : <<p>> \in Parameters /\ Shape(<<p>>) = <<n_embd>>
  BY DEF Parameters, Shape, Last, OfNorm, OfHead
<1>3. Last(<<"ln_f.weight">>) = "ln_f.weight" /\ Last(<<"ln_f.bias">>) = "ln_f.bias"
  BY DEF Last
<1>4. Untrained(<<"ln_f.weight">>) = Same(n_embd, 1)
  BY <1>0, <1>2, <1>3, UntrainedIs
<1>5. Untrained(<<"ln_f.bias">>) = Same(n_embd, 0)
  BY <1>0, <1>2, <1>3, UntrainedIs
<1> QED BY <1>1, <1>2, <1>4, <1>5

LEMMA BlockNames ==
  ASSUME NEW l \in Layers
  PROVE  /\ \A p \in {"ln1.weight", "ln2.weight"} :
              /\ <<l, p>> \in Parameters /\ Shape(<<l, p>>) = <<n_embd>>
              /\ Untrained(<<l, p>>) = Same(n_embd, 1)
         /\ \A p \in {"ln1.bias", "ln2.bias"} :
              /\ <<l, p>> \in Parameters /\ Shape(<<l, p>>) = <<n_embd>>
              /\ Untrained(<<l, p>>) = Same(n_embd, 0)
         /\ /\ <<l, "ffwd.net.0.weight">> \in Parameters
            /\ Shape(<<l, "ffwd.net.0.weight">>) = <<4 * n_embd, n_embd>>
            /\ Untrained(<<l, "ffwd.net.0.weight">>) = Zeros(4 * n_embd, n_embd)
         /\ /\ <<l, "ffwd.net.2.weight">> \in Parameters
            /\ Shape(<<l, "ffwd.net.2.weight">>) = <<n_embd, 4 * n_embd>>
            /\ Untrained(<<l, "ffwd.net.2.weight">>) = Zeros(n_embd, 4 * n_embd)
         /\ /\ <<l, "sa.proj.weight">> \in Parameters
            /\ Shape(<<l, "sa.proj.weight">>) = <<n_embd, n_embd>>
            /\ Untrained(<<l, "sa.proj.weight">>) = Zeros(n_embd, n_embd)
         /\ \A h \in 0 .. n_head - 1, p \in OfHead :
              /\ <<l, h, p>> \in Parameters /\ Shape(<<l, h, p>>) = <<head_size, n_embd>>
              /\ Untrained(<<l, h, p>>) = Zeros(head_size, n_embd)
<1>0. n_embd \in Nat /\ 4 * n_embd \in Nat /\ head_size \in Nat
  BY TransformerAssumption, HeadSize
<1>1. \A p : Last(<<l, p>>) = p
  BY DEF Last
<1>2. \A p \in {"ln1.weight", "ln2.weight", "ln1.bias", "ln2.bias"} :
        <<l, p>> \in Parameters /\ Shape(<<l, p>>) = <<n_embd>>
  <2>1. ASSUME NEW p \in {"ln1.weight", "ln2.weight", "ln1.bias", "ln2.bias"}
        PROVE  <<l, p>> \in Parameters
    BY DEF Parameters, OfBlock, OfNorm
  <2>2. ASSUME NEW p \in {"ln1.weight", "ln2.weight", "ln1.bias", "ln2.bias"}
        PROVE  Shape(<<l, p>>) = <<n_embd>>
    <3>1. Shape(<<l, "ln1.weight">>) = <<n_embd>>
      BY DEF Shape, Last, OfNorm, OfHead
    <3>2. Shape(<<l, "ln2.weight">>) = <<n_embd>>
      BY DEF Shape, Last, OfNorm, OfHead
    <3>3. Shape(<<l, "ln1.bias">>) = <<n_embd>>
      BY DEF Shape, Last, OfNorm, OfHead
    <3>4. Shape(<<l, "ln2.bias">>) = <<n_embd>>
      BY DEF Shape, Last, OfNorm, OfHead
    <3> QED BY <3>1, <3>2, <3>3, <3>4
  <2> QED BY <2>1, <2>2
<1>3. \A p \in {"ln1.weight", "ln2.weight"} : Untrained(<<l, p>>) = Same(n_embd, 1)
  BY <1>0, <1>1, <1>2, UntrainedIs
<1>4. \A p \in {"ln1.bias", "ln2.bias"} : Untrained(<<l, p>>) = Same(n_embd, 0)
  BY <1>0, <1>1, <1>2, UntrainedIs
<1>5. /\ \A p \in {"ffwd.net.0.weight", "ffwd.net.2.weight", "sa.proj.weight"} :
           <<l, p>> \in Parameters
      /\ Shape(<<l, "ffwd.net.0.weight">>) = <<4 * n_embd, n_embd>>
      /\ Shape(<<l, "ffwd.net.2.weight">>) = <<n_embd, 4 * n_embd>>
      /\ Shape(<<l, "sa.proj.weight">>) = <<n_embd, n_embd>>
  <2>1. \A p \in {"ffwd.net.0.weight", "ffwd.net.2.weight", "sa.proj.weight"} :
           <<l, p>> \in Parameters
    BY DEF Parameters, OfBlock
  <2>2. Shape(<<l, "ffwd.net.0.weight">>) = <<4 * n_embd, n_embd>>
    BY <1>1 DEF OfHead, OfNorm, Shape
  <2>3. Shape(<<l, "ffwd.net.2.weight">>) = <<n_embd, 4 * n_embd>>
    BY <1>1 DEF OfHead, OfNorm, Shape
  <2>4. Shape(<<l, "sa.proj.weight">>) = <<n_embd, n_embd>>
    BY <1>1 DEF OfHead, OfNorm, Shape
  <2> QED BY <2>1, <2>2, <2>3, <2>4
<1>6. Untrained(<<l, "ffwd.net.0.weight">>) = Zeros(4 * n_embd, n_embd)
  <2> DEFINE w == 4 * n_embd
  <2>1. w \in Nat /\ n_embd \in Nat /\ Shape(<<l, "ffwd.net.0.weight">>) = <<w, n_embd>>
    BY <1>0, <1>5
  <2> HIDE DEF w
  <2>2. Untrained(<<l, "ffwd.net.0.weight">>) = Zeros(w, n_embd)
    BY <1>1, <2>1, UntrainedIsZero
  <2> QED BY <2>2 DEF w
<1>7. Untrained(<<l, "ffwd.net.2.weight">>) = Zeros(n_embd, 4 * n_embd)
  <2> DEFINE w == 4 * n_embd
  <2>1. w \in Nat /\ n_embd \in Nat /\ Shape(<<l, "ffwd.net.2.weight">>) = <<n_embd, w>>
    BY <1>0, <1>5
  <2> HIDE DEF w
  <2>2. Untrained(<<l, "ffwd.net.2.weight">>) = Zeros(n_embd, w)
    BY <1>1, <2>1, UntrainedIsZero
  <2> QED BY <2>2 DEF w
<1>8. Untrained(<<l, "sa.proj.weight">>) = Zeros(n_embd, n_embd)
  BY <1>0, <1>1, <1>5, UntrainedIsZero
<1>9. ASSUME NEW h \in 0 .. n_head - 1, NEW p \in OfHead
      PROVE  /\ <<l, h, p>> \in Parameters /\ Shape(<<l, h, p>>) = <<head_size, n_embd>>
             /\ Untrained(<<l, h, p>>) = Zeros(head_size, n_embd)
  <2>1. Last(<<l, h, p>>) = p
    BY DEF Last
  <2>2. <<l, h, p>> \in Parameters
    BY DEF Parameters
  <2>3. Shape(<<l, h, p>>) = <<head_size, n_embd>>
    BY <2>1 DEF OfHead, OfNorm, Shape
  <2>4. p \notin {"ln1.weight", "ln2.weight", "ln_f.weight"}
    BY DEF OfHead
  <2>5. Untrained(<<l, h, p>>) = Zeros(head_size, n_embd)
    BY <1>0, <2>1, <2>3, <2>4, UntrainedIsZero
  <2> QED BY <2>2, <2>3, <2>5
<1> QED BY <1>2, <1>3, <1>4, <1>5, <1>6, <1>7, <1>8, <1>9

LEMMA NormRead ==
  ASSUME NEW W, Trained(W), NEW f, IsFault(f), NEW w \in Parameters, NEW b \in Parameters,
         Shape(w) = <<n_embd>>, Untrained(w) = Same(n_embd, 1),
         Shape(b) = <<n_embd>>, Untrained(b) = Same(n_embd, 0)
  PROVE  NormMatches(LayerNormWeights(Damaged(Export(W), f), w, b),
                     ExpectedOf(W, f)[w], ExpectedOf(W, f)[b])
<1> DEFINE X == Damaged(Export(W), f)
           g == Set(X, w, <<n_embd>>, Fill(n_embd, 1))
           h == Set(X, b, <<n_embd>>, Fill(n_embd, 0))
<1>1. g = ExpectedOf(W, f)[w] /\ g \in Array(n_embd)
  BY VectorRead
<1>2. h = ExpectedOf(W, f)[b] /\ h \in Array(n_embd)
  BY VectorRead
<1>3. LayerNormWeights(X, w, b) = [gamma |-> g, beta |-> h]
  BY Zenon DEF LayerNormWeights
<1> HIDE DEF g, h, X
<1>4. NormMatches(LayerNormWeights(X, w, b), ExpectedOf(W, f)[w], ExpectedOf(W, f)[b])
  BY <1>1, <1>2, <1>3 DEF NormMatches
<1> QED BY <1>4 DEF X

(* Whatever has happened to the export of a checkpoint, the server has the *)
(* parameters expected.                                                    *)
LEMMA LoadMatches ==
  ASSUME NEW W, Trained(W), NEW f, IsFault(f)
  PROVE  ModelMatches(load_weights(Damaged(Export(W), f)), ExpectedOf(W, f))
<1> DEFINE X == Damaged(Export(W), f)
           E == ExpectedOf(W, f)
           m == load_weights(X)
           s == {vocab_size, head_size, n_embd, 4 * n_embd}
<1>0. s \subseteq Sizes /\ n_layer \in Nat /\ n_head \in Nat
  BY TransformerAssumption DEF Sizes
<1>1. ASSUME NEW name \in Parameters, NEW out \in s, NEW in \in s, Shape(name) = <<out, in>>,
             Untrained(name) = Zeros(out, in)
      PROVE  IsFlat(LinearWeight(X, name, in, out), E[name], out, in)
  <2>1. in \in Sizes /\ out \in Sizes
    BY <1>0
  <2> QED BY <1>1, <2>1, MatrixRead
<1>2. ASSUME NEW w \in Parameters, NEW b \in Parameters,
             Shape(w) = <<n_embd>>, Untrained(w) = Same(n_embd, 1),
             Shape(b) = <<n_embd>>, Untrained(b) = Same(n_embd, 0)
      PROVE  NormMatches(LayerNormWeights(X, w, b), E[w], E[b])
  BY <1>2, NormRead
<1>3. /\ m.embedding = LinearWeight(X, <<"token_embedding.weight">>, n_embd, vocab_size)
      /\ m.ln_f = LayerNormWeights(X, <<"ln_f.weight">>, <<"ln_f.bias">>)
      /\ m.lm_head = LinearWeight(X, <<"lm_head.weight">>, n_embd, vocab_size)
      /\ m.blocks = Vector(n_layer, LAMBDA l : BlockWeights(X, l))
  <2> HIDE DEF X
  <2> QED BY DEF load_weights, LinearWeight, Vector
<1>4. ASSUME NEW l \in Layers PROVE m.blocks[l + 1] = BlockWeights(X, l)
  <2> DEFINE z == [k \in 1 .. n_layer |-> BlockWeights(X, k - 1)]
  <2>1. m.blocks = SubSeq(z, 1, n_layer)
    <3> HIDE DEF X, m
    <3> QED BY <1>3, Zenon DEF Vector
  <2>2. z = [k \in 1 .. n_layer |-> z[k]]
    OBVIOUS
  <2>3. l + 1 \in 1 .. n_layer /\ (l + 1) - 1 = l
    BY <1>0 DEF Layers
  <2>4. z[l + 1] = BlockWeights(X, l)
    <3> HIDE DEF X
    <3> QED BY <2>3
  <2> HIDE DEF z, m
  <2>5. SubSeq(z, 1, n_layer) = z
    BY <1>0, <2>2, Computed
  <2> QED BY <2>1, <2>4, <2>5
<1>5. ASSUME NEW l \in Layers, NEW h \in 0 .. n_head - 1
      PROVE  BlockWeights(X, l).heads[h + 1] = HeadWeights(X, l, h)
  <2> DEFINE z == [k \in 1 .. n_head |-> HeadWeights(X, l, k - 1)]
             b == BlockWeights(X, l)
  <2>1. b.heads = SubSeq(z, 1, n_head)
    <3>1. b.heads = Vector(n_head, LAMBDA i : HeadWeights(X, l, i))
      <4> HIDE DEF X
      <4> QED BY DEF BlockWeights, Vector
    <3> HIDE DEF X, b
    <3> QED BY <3>1, Zenon DEF Vector
  <2>2. z = [k \in 1 .. n_head |-> z[k]]
    OBVIOUS
  <2>3. h + 1 \in 1 .. n_head /\ (h + 1) - 1 = h
    BY <1>0
  <2>4. z[h + 1] = HeadWeights(X, l, h)
    <3> HIDE DEF X
    <3> QED BY <2>3
  <2> HIDE DEF z, b
  <2>5. SubSeq(z, 1, n_head) = z
    BY <1>0, <2>2, Computed
  <2> QED BY <2>1, <2>4, <2>5 DEF b
<1>6. ASSUME NEW l \in Layers PROVE BlockMatches(BlockWeights(X, l), E, l)
  <2> DEFINE b == BlockWeights(X, l)
  <2>1. /\ b.ln1 = LayerNormWeights(X, <<l, "ln1.weight">>, <<l, "ln1.bias">>)
        /\ b.ln2 = LayerNormWeights(X, <<l, "ln2.weight">>, <<l, "ln2.bias">>)
        /\ b.fc1 = LinearWeight(X, <<l, "ffwd.net.0.weight">>, n_embd, 4 * n_embd)
        /\ b.fc2 = LinearWeight(X, <<l, "ffwd.net.2.weight">>, 4 * n_embd, n_embd)
        /\ b.proj = LinearWeight(X, <<l, "sa.proj.weight">>, n_embd, n_embd)
    <3> HIDE DEF X
    <3> QED BY DEF BlockWeights, Vector
  <2>2. NormMatches(b.ln1, E[<<l, "ln1.weight">>], E[<<l, "ln1.bias">>])
    <3> HIDE DEF X, E, b
    <3> QED BY <2>1, <1>2, BlockNames
  <2>3. NormMatches(b.ln2, E[<<l, "ln2.weight">>], E[<<l, "ln2.bias">>])
    <3> HIDE DEF X, E, b
    <3> QED BY <2>1, <1>2, BlockNames
  <2>4. IsFlat(b.fc1, E[<<l, "ffwd.net.0.weight">>], 4 * n_embd, n_embd)
    <3> HIDE DEF X, E, b
    <3> QED BY <2>1, <1>1, BlockNames
  <2>5. IsFlat(b.fc2, E[<<l, "ffwd.net.2.weight">>], n_embd, 4 * n_embd)
    <3> HIDE DEF X, E, b
    <3> QED BY <2>1, <1>1, BlockNames
  <2>6. IsFlat(b.proj, E[<<l, "sa.proj.weight">>], n_embd, n_embd)
    <3> HIDE DEF X, E, b
    <3> QED BY <2>1, <1>1, BlockNames
  <2>7. ASSUME NEW h \in 0 .. n_head - 1 PROVE HeadMatches(b.heads[h + 1], E, l, h)
    <3> DEFINE H == HeadWeights(X, l, h)
    <3>1. /\ H.key = LinearWeight(X, <<l, h, "key.weight">>, n_embd, head_size)
          /\ H.query = LinearWeight(X, <<l, h, "query.weight">>, n_embd, head_size)
          /\ H.value = LinearWeight(X, <<l, h, "value.weight">>, n_embd, head_size)
      <4> HIDE DEF X
      <4> QED BY DEF HeadWeights
    <3>2. b.heads[h + 1] = H
      <4> HIDE DEF X
      <4> QED BY <1>5
    <3> HIDE DEF X, E, b, H
    <3>3. ASSUME NEW p \in OfHead
          PROVE  IsFlat(LinearWeight(X, <<l, h, p>>, n_embd, head_size), E[<<l, h, p>>], head_size, n_embd)
      BY <1>1, BlockNames
    <3> QED BY <3>1, <3>2, <3>3 DEF HeadMatches, OfHead
  <2> HIDE DEF X, E, b
  <2> QED BY <2>2, <2>3, <2>4, <2>5, <2>6, <2>7 DEF BlockMatches, b
<1>7. \A l \in 0 .. n_layer - 1 : BlockMatches(m.blocks[l + 1], E, l)
  <2> HIDE DEF X, E, m
  <2> QED BY <1>4, <1>6 DEF Layers
<1>8. /\ IsFlat(m.embedding, E[<<"token_embedding.weight">>], vocab_size, n_embd)
      /\ IsFlat(m.lm_head, E[<<"lm_head.weight">>], vocab_size, n_embd)
      /\ NormMatches(m.ln_f, E[<<"ln_f.weight">>], E[<<"ln_f.bias">>])
  <2> HIDE DEF X, E, m
  <2>1. IsFlat(m.embedding, E[<<"token_embedding.weight">>], vocab_size, n_embd)
    BY <1>3, <1>1, NetworkNames
  <2>2. IsFlat(m.lm_head, E[<<"lm_head.weight">>], vocab_size, n_embd)
    BY <1>3, <1>1, NetworkNames
  <2>3. NormMatches(m.ln_f, E[<<"ln_f.weight">>], E[<<"ln_f.bias">>])
    BY <1>3, <1>2, NetworkNames
  <2> QED BY <2>1, <2>2, <2>3
<1> HIDE DEF X, E, m
<1>9. ModelMatches(m, E)
  BY <1>7, <1>8 DEF ModelMatches
<1> QED BY <1>9 DEF X, E, m

-----------------------------------------------------------------------------
(* A turn of the worker's loop.                                            *)

(* The logits of the server, and those of the script's network rescaled.   *)
LogitsOf(W, f, ids) == forward(load_weights(Damaged(Export(W), f)), ids)
NetworkOf(W, f, ids) == Network(ExpectedOf(W, f), Scale[head_size], ids)

LEMMA DefinedIds ==
  ASSUME NEW ids \in Seq(Int), Defined(ids)
  PROVE  ids \in Seq(Ids) /\ Len(ids) \in 1 .. max_context
BY DEF Defined

LEMMA Exported ==
  ASSUME NEW W \in Checkpoints, NEW f \in Faults
  PROVE  Trained(W) /\ IsFault(f)
BY InferenceAssumption, Zenon DEF Trained, IsFault

(* Where forward is defined, the two are the same.                         *)
LEMMA LogitsRows ==
  ASSUME NEW W \in Checkpoints, NEW f \in Faults, NEW ids \in Seq(Int), Defined(ids)
  PROVE  IsFlat(LogitsOf(W, f, ids), NetworkOf(W, f, ids), Len(ids), vocab_size)
<1>1. ModelMatches(load_weights(Damaged(Export(W), f)), ExpectedOf(W, f))
  BY Exported, LoadMatches
<1> QED BY <1>1, DefinedIds, ForwardRows, Zenon DEF LogitsOf, NetworkOf

(* The tokens with the highest logit at the last of T places.              *)
Highest(data, T) ==
  {v \in Ids : \A u \in Ids :
     Item(data, start_index(T) + u) <= Item(data, start_index(T) + v)}

(* ArgMax finds one of them, but for token 0; never the -1 that stands for *)
(* no token.                                                               *)
LEMMA ArgMaxIs ==
  ASSUME NEW T \in Nat \ {0}, NEW d \in Array(T * vocab_size)
  PROVE  /\ ArgMax(d, T) \in Int
         /\ ArgMax(d, T) # -1
         /\ IF 0 \in Highest(d, T) THEN ArgMax(d, T) = -start_index(T)
            ELSE ArgMax(d, T) \in Highest(d, T)
<1> DEFINE n == vocab_size
           s == start_index(T)
           places == s .. s + n - 1
           vals == {Item(d, i) : i \in places}
           top == Max(vals)
           best == {i \in places : Item(d, i) = top}
<1>1. n \in Nat /\ n > 3
  BY TransformerAssumption, InferenceAssumption DEF Ids, eos_token_id
<1>2. s \in Nat /\ s # 1 /\ s + n = T * n
  <2> HIDE DEF n
  <2>1. s = n * (T - 1)
    BY DEF start_index, n
  <2>2. n * (T - 1) \in Nat /\ n * (T - 1) + n = T * n
    BY <1>1
  <2>3. CASE T = 1
    <3>1. n * (T - 1) = 0
      BY <1>1, <2>3
    <3> QED BY <3>1, <2>1, <2>2
  <2>4. CASE T # 1
    <3>1. n * (T - 1) = n * (T - 2) + n /\ n * (T - 2) \in Nat
      BY <1>1, <2>4
    <3> QED BY <3>1, <2>1, <2>2, <1>1
  <2> QED BY <2>3, <2>4
<1>3. ASSUME NEW i \in places PROVE i \in Nat /\ Item(d, i) \in Num
  <2> HIDE DEF n, s
  <2>1. i \in Nat /\ i + 1 \in 1 .. s + n
    BY <1>1, <1>2
  <2>2. d \in [1 .. s + n -> Num]
    BY <1>2 DEF Array, n
  <2> QED BY <2>1, <2>2 DEF Item
<1>4. top \in vals /\ \A x \in vals : x <= top
  <2>1. P \in Int /\ vals # {} /\ \A x \in vals : x \in Int /\ x <= P
    <3>1. s \in places
      <4> HIDE DEF s, n
      <4> QED BY <1>1, <1>2
    <3> HIDE DEF places
    <3> QED BY <1>3, <3>1, PositiveP DEF Num
  <2> HIDE DEF vals
  <2> QED BY <2>1, MaxOf
<1>5. Min(best) \in best
  <2>1. best # {} /\ best \subseteq Nat
    <3> HIDE DEF top, places
    <3> QED BY <1>3, <1>4
  <2> HIDE DEF best
  <2> QED BY <2>1, MinOf
<1>6. top \in Int
  <2> HIDE DEF top, places
  <2> QED BY <1>3, <1>4, NumsAreInts
<1>7. ASSUME NEW v \in Ids PROVE v \in Highest(d, T) <=> Item(d, s + v) = top
  <2>0. \A u \in Ids : u \in Int /\ s + u \in places
    <3> HIDE DEF s
    <3> QED BY <1>1, <1>2 DEF Ids
  <2>1. v \in Highest(d, T) <=> \A u \in Ids : Item(d, s + u) <= Item(d, s + v)
    BY DEF Highest
  <2>2. ASSUME Item(d, s + v) = top, NEW u \in Ids PROVE Item(d, s + u) <= Item(d, s + v)
    <3>1. Item(d, s + u) \in vals
      <4> HIDE DEF s, places
      <4> QED BY <2>0
    <3> HIDE DEF vals, top, s
    <3> QED BY <3>1, <1>4, <2>2
  <2>3. ASSUME \A u \in Ids : Item(d, s + u) <= Item(d, s + v) PROVE Item(d, s + v) = top
    <3>1. PICK i \in places : top = Item(d, i)
      <4> HIDE DEF top, places
      <4> QED BY <1>4
    <3>2. i - s \in Ids /\ s + (i - s) = i
      <4> HIDE DEF s
      <4> QED BY <1>1, <1>2 DEF Ids
    <3>3. top <= Item(d, s + v)
      <4> HIDE DEF s, top, places
      <4> QED BY <2>3, <3>1, <3>2
    <3>4. Item(d, s + v) \in vals /\ Item(d, s + v) \in Int
      <4> HIDE DEF s, places, top
      <4> QED BY <2>0, <1>3, NumsAreInts
    <3>5. Item(d, s + v) <= top
      <4> HIDE DEF s, vals, top
      <4> QED BY <3>4, <1>4
    <3> HIDE DEF s, top, vals
    <3> QED BY <3>3, <3>4, <3>5, <1>6
  <2> HIDE DEF s, top, vals, places
  <2> QED BY <2>1, <2>2, <2>3
<1>8. ArgMax(d, T) = (IF Item(d, s) = top THEN 0 ELSE Min(best)) - s
  BY Zenon DEF ArgMax
<1>9. 0 \in Ids /\ s + 0 = s
  <2> HIDE DEF s
  <2> QED BY <1>1, <1>2 DEF Ids
<1>10. CASE Item(d, s) = top
  <2>1. 0 \in Highest(d, T)
    <3> HIDE DEF s, top
    <3> QED BY <1>10, <1>7, <1>9
  <2>2. ArgMax(d, T) = -s /\ -s \in Int /\ -s # -1
    <3> HIDE DEF s, top, best
    <3> QED BY <1>10, <1>8, <1>2
  <2> QED BY <2>1, <2>2
<1>11. CASE Item(d, s) # top
  <2>1. 0 \notin Highest(d, T)
    <3> HIDE DEF s, top
    <3> QED BY <1>11, <1>7, <1>9
  <2> DEFINE i == Min(best)
  <2>2. i \in places /\ Item(d, i) = top
    <3> HIDE DEF i, top, places
    <3> QED BY <1>5 DEF i
  <2>3. i - s \in Ids /\ s + (i - s) = i
    <3> HIDE DEF s, i
    <3> QED BY <1>1, <1>2, <2>2 DEF Ids
  <2>4. ArgMax(d, T) = i - s
    <3> HIDE DEF s, top, best
    <3> QED BY <1>11, <1>8 DEF i
  <2>5. i - s \in Highest(d, T)
    <3> HIDE DEF s, top, i
    <3> QED BY <2>2, <2>3, <1>7
  <2>6. i - s \in Int /\ i - s # -1
    <3> HIDE DEF s, i
    <3> QED BY <2>3 DEF Ids
  <2> HIDE DEF s, i
  <2> QED BY <2>1, <2>4, <2>5, <2>6
<1> QED BY <1>10, <1>11

-----------------------------------------------------------------------------
(* The invariant.                                                          *)

(* What a turn goes on from.                                               *)
Base == IF prompt = NoText THEN before ELSE prompt

InferenceType ==
  /\ checkpoint \in Checkpoints /\ fault \in Faults
  /\ token_ids \in Seq(Int) /\ before \in Seq(Int) /\ answer \in Seq(Int)
  /\ max_tokens \in Int /\ generated_tokens \in Int /\ next_token \in Int
  /\ prompt \in Prompts \cup {NoText}

(* A worker that serves has loaded the export, damaged or not.             *)
ModelLoaded ==
  stage \in {"waiting", "generating"} => model = load_weights(export_dir)

(* The logits are those of all the tokens held, and the token returned is  *)
(* the one that ArgMax finds in them.                                      *)
LogitsCurrent ==
  logits # <<>> =>
    /\ Defined(token_ids)
    /\ logits = LogitsOf(checkpoint, fault, token_ids)
    /\ next_token = ArgMax(logits, Len(token_ids))

(* All tokens of the answer but the last are held, and the last one is the *)
(* one the next turn pushes.                                               *)
ContextFollows ==
  IF answer = <<>> THEN token_ids = Base /\ next_token = -1
  ELSE /\ answer = Append(Front(answer), next_token)
       /\ Front(answer) \in Seq(Int)
       /\ token_ids = Base \o Front(answer)
       /\ next_token # -1

(* An answer is as long as the worker's loop has counted.                  *)
BudgetKept ==
  /\ Len(answer) <= MAX_TOKENS /\ max_tokens <= MAX_TOKENS
  /\ stage = "generating" => generated_tokens = Len(answer) /\ Len(answer) < max_tokens

InferenceInv == InferenceType /\ ModelLoaded /\ LogitsCurrent /\ ContextFollows /\ BudgetKept

LEMMA PromptsAreInts == \A text \in Prompts : text \in Seq(Int)
<1>1. Ids \subseteq Int
  BY TransformerAssumption DEF Ids
<1> QED BY <1>1, InferenceAssumption, SeqMonotonic

(* What inference has pushed are the prompt and all of the answer so far.  *)
LEMMA PushedIs ==
  ASSUME InferenceType, ContextFollows
  PROVE  Base \in Seq(Int) /\ Pushed = Base \o answer /\ Pushed \in Seq(Int)
<1>1. Base \in Seq(Int)
  BY PromptsAreInts DEF InferenceType, Base
<1>2. CASE answer = <<>>
  <2>1. Pushed = Base
    BY <1>2 DEF ContextFollows, Pushed
  <2>2. Base \o answer = Base
    BY <1>1, <1>2, ConcatEmptySeq
  <2> QED BY <1>1, <2>1, <2>2
<1>3. CASE answer # <<>>
  <2> DEFINE a == Front(answer)
  <2>1. /\ answer = Append(a, next_token) /\ a \in Seq(Int)
        /\ token_ids = Base \o a /\ next_token # -1
    BY <1>3 DEF ContextFollows
  <2>2. next_token \in Int /\ <<next_token>> \in Seq(Int) /\ token_ids \in Seq(Int)
    BY DEF InferenceType
  <2> HIDE DEF a
  <2>3. Pushed = token_ids \o <<next_token>> /\ Pushed \in Seq(Int)
    BY <2>1, <2>2, AppendIsConcat, AppendProperties DEF Pushed
  <2>4. answer = a \o <<next_token>>
    BY <2>1, <2>2, AppendIsConcat
  <2>5. (Base \o a) \o <<next_token>> = Base \o (a \o <<next_token>>)
    BY <1>1, <2>1, <2>2, ConcatAssociative
  <2> QED BY <1>1, <2>1, <2>3, <2>4, <2>5
<1> QED BY <1>2, <1>3

LEMMA FrontOfAppend ==
  ASSUME NEW s \in Seq(Int), NEW e \in Int
  PROVE  Append(s, e) # <<>> /\ Append(s, e) \in Seq(Int) /\ Front(Append(s, e)) = s
         /\ Len(Append(s, e)) = Len(s) + 1
BY DEF Front

(* A turn with a token that is a number and not -1 keeps the context and   *)
(* the budget, whatever else it does.                                      *)
LEMMA GeneratedKeeps ==
  ASSUME InferenceInv, stage = "generating", NEW token \in Int, token # -1,
         token_ids' = Pushed, Generated(token),
         UNCHANGED <<constants, model, max_tokens, requests, prompt, before>>
  PROVE  InferenceType' /\ ModelLoaded' /\ ContextFollows' /\ BudgetKept'
<1>1. Base \in Seq(Int) /\ Pushed = Base \o answer /\ Pushed \in Seq(Int)
  BY PushedIs DEF InferenceInv
<1>2. answer \in Seq(Int) /\ generated_tokens \in Int /\ max_tokens \in Int /\ MAX_TOKENS \in Int
  BY InferenceAssumption DEF InferenceInv, InferenceType
<1>3. /\ answer' = Append(answer, token) /\ next_token' = token
      /\ generated_tokens' \in {generated_tokens, generated_tokens + 1}
      /\ stage' \in {"waiting", "generating"}
      /\ stage' = "generating" =>
           generated_tokens' = generated_tokens + 1 /\ generated_tokens + 1 < max_tokens
  <2>1. /\ answer' = Append(answer, token) /\ next_token' = token
        /\ generated_tokens' = IF token = eos_token_id THEN generated_tokens
                               ELSE generated_tokens + 1
        /\ stage' = IF token = eos_token_id \/ generated_tokens + 1 >= max_tokens
                      THEN "waiting" ELSE "generating"
    BY DEF Generated
  <2> QED BY <2>1, <1>2
<1>4. /\ answer' # <<>> /\ answer' \in Seq(Int) /\ Front(answer') = answer
      /\ Len(answer') = Len(answer) + 1
  BY <1>2, <1>3, FrontOfAppend
<1>5. Base' = Base
  BY DEF Base
<1>6. InferenceType'
  BY <1>1, <1>2, <1>3, <1>4 DEF InferenceInv, InferenceType, constants
<1>7. ModelLoaded'
  BY DEF InferenceInv, ModelLoaded, constants, export_dir
<1>8. ContextFollows'
  BY <1>1, <1>2, <1>3, <1>4, <1>5 DEF ContextFollows
<1>9. BudgetKept'
  <2>1. /\ max_tokens <= MAX_TOKENS /\ Len(answer) \in Nat
        /\ generated_tokens = Len(answer) /\ Len(answer) < max_tokens
    BY <1>2 DEF InferenceInv, BudgetKept
  <2> QED BY <2>1, <1>2, <1>3, <1>4 DEF BudgetKept
<1> QED BY <1>6, <1>7, <1>8, <1>9

LEMMA InferenceInvInit == Init => InferenceInv
<1> SUFFICES ASSUME Init PROVE InferenceInv
  OBVIOUS
<1>1. InferenceType
  BY DEF Init, InferenceType
<1>2. ModelLoaded /\ LogitsCurrent
  BY DEF Init, ModelLoaded, LogitsCurrent
<1>3. ContextFollows
  BY DEF Init, ContextFollows, Base
<1>4. BudgetKept
  BY InferenceAssumption DEF Init, BudgetKept
<1> QED BY <1>1, <1>2, <1>3, <1>4 DEF InferenceInv

LEMMA InferenceInvPreserved == InferenceInv /\ [Next]_vars => InferenceInv'
<1>1. ASSUME InferenceInv, UNCHANGED vars PROVE InferenceInv'
  BY <1>1 DEF vars, constants, history, InferenceInv, InferenceType, ModelLoaded,
              LogitsCurrent, ContextFollows, BudgetKept, Base, export_dir
<1>2. ASSUME InferenceInv, Load PROVE InferenceInv'
  <2>1. ModelLoaded'
    BY <1>2 DEF Load, ModelLoaded, constants, export_dir
  <2>2. /\ stage' = "waiting"
        /\ UNCHANGED <<checkpoint, fault, token_ids, max_tokens, generated_tokens,
                       next_token, logits, prompt, before, answer>>
    BY <1>2 DEF Load, constants, idle, history
  <2>3. InferenceType' /\ LogitsCurrent' /\ ContextFollows' /\ BudgetKept'
    BY <1>2, <2>2 DEF InferenceInv, InferenceType, LogitsCurrent, ContextFollows,
                      BudgetKept, Base
  <2> QED BY <2>1, <2>3 DEF InferenceInv
<1>3. ASSUME InferenceInv, LoadUndefined \/ InferenceDies PROVE InferenceInv'
  <2>1. /\ stage' = "dead"
        /\ UNCHANGED <<checkpoint, fault, token_ids, max_tokens, generated_tokens,
                       next_token, logits, prompt, before, answer>>
    BY <1>3 DEF LoadUndefined, InferenceDies, constants, idle, history
  <2> QED BY <1>3, <2>1 DEF InferenceInv, InferenceType, ModelLoaded, LogitsCurrent,
                            ContextFollows, BudgetKept, Base
<1>4. ASSUME InferenceInv, NEW text \in Prompts \cup {NoText}, NEW budget \in Budgets,
             Request(text, budget)
      PROVE  InferenceInv'
  <2>1. /\ stage = "waiting" /\ stage' = (IF Cap(budget) > 0 THEN "generating" ELSE "waiting")
        /\ token_ids' = (IF text = NoText THEN token_ids ELSE text)
        /\ max_tokens' = Cap(budget) /\ generated_tokens' = 0 /\ next_token' = -1
        /\ logits' = <<>> /\ prompt' = text /\ before' = token_ids /\ answer' = <<>>
        /\ UNCHANGED <<checkpoint, fault, model>>
    BY <1>4 DEF Request, init, constants
  <2>2. Cap(budget) \in Int /\ Cap(budget) <= MAX_TOKENS /\ MAX_TOKENS \in Nat
    BY InferenceAssumption DEF Cap
  <2>3. token_ids \in Seq(Int) /\ token_ids' \in Seq(Int)
    BY <1>4, <2>1, PromptsAreInts DEF InferenceInv, InferenceType
  <2>4. InferenceType'
    BY <1>4, <2>1, <2>2, <2>3 DEF InferenceInv, InferenceType
  <2>5. ModelLoaded'
    BY <1>4, <2>1 DEF InferenceInv, ModelLoaded, export_dir
  <2>6. LogitsCurrent' /\ ContextFollows'
    BY <2>1 DEF LogitsCurrent, ContextFollows, Base
  <2>7. BudgetKept'
    BY <2>1, <2>2 DEF BudgetKept
  <2> QED BY <2>4, <2>5, <2>6, <2>7 DEF InferenceInv
<1>5. ASSUME InferenceInv, Inference PROVE InferenceInv'
  <2> DEFINE d == logits'
             T == Len(Pushed)
             token == ArgMax(d, T)
  <2>1. /\ stage = "generating" /\ Defined(Pushed) /\ token_ids' = Pushed
        /\ d = forward(model, Pushed)
        /\ Generated(token)
        /\ UNCHANGED <<constants, model, max_tokens, requests, prompt, before>>
    BY <1>5 DEF Inference
  <2>2. Pushed \in Seq(Int) /\ checkpoint \in Checkpoints /\ fault \in Faults
    BY <1>5, PushedIs DEF InferenceInv, InferenceType
  <2>3. d = LogitsOf(checkpoint, fault, Pushed)
    BY <1>5, <2>1 DEF InferenceInv, ModelLoaded, LogitsOf, export_dir
  <2> HIDE DEF d, token
  <2>4. T \in Nat \ {0} /\ d \in Array(T * vocab_size)
    <3>1. IsFlat(d, NetworkOf(checkpoint, fault, Pushed), T, vocab_size)
      BY <2>1, <2>2, <2>3, LogitsRows
    <3> QED BY <3>1, <2>1, <2>2, DefinedIds DEF IsFlat, Flat, Array
  <2>5. token \in Int /\ token # -1
    <3> HIDE DEF T
    <3> QED BY <2>4, ArgMaxIs DEF token
  <2>6. InferenceType' /\ ModelLoaded' /\ ContextFollows' /\ BudgetKept'
    BY <1>5, <2>1, <2>5, GeneratedKeeps
  <2>7. next_token' = token /\ UNCHANGED <<checkpoint, fault>>
    BY <2>1 DEF Generated, constants
  <2>8. LogitsCurrent'
    <3>1. Defined(token_ids')
      BY <2>1
    <3>2. next_token' = ArgMax(logits', Len(token_ids'))
      BY <2>1, <2>7 DEF token, d
    <3>3. logits' = LogitsOf(checkpoint', fault', token_ids')
      BY <2>1, <2>3, <2>7 DEF d
    <3> QED BY <3>1, <3>2, <3>3 DEF LogitsCurrent
  <2> QED BY <2>6, <2>8 DEF InferenceInv
<1>6. ASSUME InferenceInv, InferenceUndefined PROVE InferenceInv'
  <2>1. PICK token \in (Ids \ {0}) \cup {-start_index(Len(Pushed))} : Generated(token)
    BY <1>6 DEF InferenceUndefined
  <2>2. token \in Int /\ token # -1
    <3> DEFINE m == Len(Pushed)
    <3>1. m \in Nat /\ vocab_size \in Nat
      BY <1>6, PushedIs, TransformerAssumption DEF InferenceInv
    <3>2. vocab_size > 3
      BY InferenceAssumption, <3>1 DEF eos_token_id, Ids
    <3> HIDE DEF m
    <3>3. start_index(m) \in Int /\ -start_index(m) # -1
      <4>1. start_index(m) = vocab_size * (m - 1) /\ m - 1 \in Int
        BY <3>1 DEF start_index
      <4>2. vocab_size * (m - 1) # 1
        BY <3>1, <3>2, <4>1
      <4>3. vocab_size * (m - 1) \in Int
        BY <3>1, <4>1
      <4> QED BY <4>1, <4>2, <4>3
    <3>4. \A v \in Ids : v \in Int /\ v # -1
      BY <3>1 DEF Ids
    <3> QED BY <2>1, <3>3, <3>4 DEF m
  <2>3. InferenceType' /\ ModelLoaded' /\ ContextFollows' /\ BudgetKept'
    BY <1>6, <2>1, <2>2, GeneratedKeeps DEF InferenceUndefined
  <2>4. LogitsCurrent'
    BY <1>6 DEF InferenceUndefined, LogitsCurrent
  <2> QED BY <2>3, <2>4 DEF InferenceInv
<1> QED BY <1>1, <1>2, <1>3, <1>4, <1>5, <1>6 DEF Next

LEMMA InferenceInvariant == Spec => []InferenceInv
BY InferenceInvInit, InferenceInvPreserved, PTL DEF Spec

-----------------------------------------------------------------------------
(* For every network, checkpoint and damage to one file or line of the     *)
(* export, the logits the server computes are, number by number, those of  *)
(* the script's network with its scores multiplied by Scale[head_size],    *)
(* where the script has Scale[n_embd], and with the one parameter          *)
(* untrained.                                                              *)
THEOREM ServerComputesRescaled == Spec => []MatchesRescaled
<1>1. ASSUME InferenceInv PROVE MatchesRescaled
  <2> SUFFICES ASSUME logits # <<>>
               PROVE  logits = FlattenSeq(Network(Expected, Scale[head_size], token_ids))
    BY DEF MatchesRescaled
  <2> DEFINE N == NetworkOf(checkpoint, fault, token_ids)
             T == Len(token_ids)
  <2>1. /\ Defined(token_ids) /\ logits = LogitsOf(checkpoint, fault, token_ids)
        /\ checkpoint \in Checkpoints /\ fault \in Faults /\ token_ids \in Seq(Int)
    BY <1>1 DEF InferenceInv, InferenceType, LogitsCurrent
  <2>2. IsFlat(logits, N, T, vocab_size)
    BY <2>1, LogitsRows
  <2>3. T \in Nat \ {0} /\ vocab_size \in Nat \ {0}
    BY <2>1, DefinedIds, TransformerAssumption
  <2>4. logits = FlattenSeq(N)
    <3> HIDE DEF N, T
    <3> QED BY <2>2, <2>3, FlatIsFlattened, Zenon
  <2>5. Expected = ExpectedOf(checkpoint, fault)
    BY DEF Expected, ExpectedOf
  <2> HIDE DEF T
  <2> QED BY <2>4, <2>5, Zenon DEF NetworkOf
<1> QED BY <1>1, InferenceInvariant, PTL

(* The factor is all that differs: where it is the same for a head as for  *)
(* the width, as with one head, the server computes the script's network.  *)
THEOREM OnlyTheScaleDiffers == Scale[head_size] = Scale[n_embd] => (Spec => []MatchesScript)
<1> SUFFICES ASSUME Scale[head_size] = Scale[n_embd] PROVE Spec => []MatchesScript
  OBVIOUS
<1>1. MatchesRescaled => MatchesScript
  BY Zenon DEF MatchesRescaled, MatchesScript, TinyTransformer
<1> QED BY <1>1, ServerComputesRescaled, PTL

(* An answer goes on from its own prompt and tokens, however many requests *)
(* the worker has served, and from what those left only if the prompt is   *)
(* empty.                                                                  *)
THEOREM ContextIsOwn == Spec => []OwnContext
<1>1. ASSUME InferenceInv PROVE OwnContext
  <2> SUFFICES ASSUME stage \in {"waiting", "generating"}
               PROVE  /\ token_ids = Base \o (IF answer = <<>> THEN <<>> ELSE Front(answer))
                      /\ prompt # NoText =>
                           Len(token_ids) <= Len(prompt) + MAX_TOKENS - 1
    BY DEF OwnContext, Base
  <2>1. /\ Base \in Seq(Int) /\ answer \in Seq(Int) /\ next_token \in Int
        /\ Len(answer) <= MAX_TOKENS
    BY <1>1, PushedIs DEF InferenceInv, InferenceType, BudgetKept
  <2>2. MAX_TOKENS \in Nat \ {0}
    BY InferenceAssumption
  <2>3. CASE answer = <<>>
    <3>1. token_ids = Base
      BY <1>1, <2>3 DEF InferenceInv, ContextFollows
    <3>2. Base \o <<>> = Base
      BY <2>1, ConcatEmptySeq
    <3>3. prompt # NoText => Len(token_ids) = Len(prompt)
      BY <3>1 DEF Base
    <3>4. Len(token_ids) \in Nat
      BY <3>1, <2>1
    <3> QED BY <2>2, <2>3, <3>1, <3>2, <3>3, <3>4
  <2>4. CASE answer # <<>>
    <3> DEFINE a == Front(answer)
    <3>1. answer = Append(a, next_token) /\ a \in Seq(Int) /\ token_ids = Base \o a
      BY <1>1, <2>4 DEF InferenceInv, ContextFollows
    <3> HIDE DEF a
    <3>2. Len(answer) = Len(a) + 1 /\ Len(a) \in Nat
      BY <3>1, <2>1, FrontOfAppend
    <3>3. Len(token_ids) = Len(Base) + Len(a) /\ Len(Base) \in Nat
      BY <3>1, <2>1, ConcatProperties
    <3>4. prompt # NoText => Base = prompt
      BY DEF Base
    <3> QED BY <2>1, <2>2, <2>4, <3>1, <3>2, <3>3, <3>4 DEF a
  <2> QED BY <2>3, <2>4
<1> QED BY <1>1, InferenceInvariant, PTL

(* Whatever the logits, the token returned has the highest one at the last *)
(* place, unless that is token 0: then it is no token but at place 0.      *)
THEOREM TokensAreGreedy == Spec => []GreedyUnlessPad
<1>1. ASSUME InferenceInv PROVE GreedyUnlessPad
  <2> DEFINE n == vocab_size
             T == Len(token_ids)
             last == SubSeq(logits, Len(logits) - n + 1, Len(logits))
             highest == {v \in Ids : \A u \in Ids : Item(last, u) <= Item(last, v)}
  <2> SUFFICES ASSUME logits # <<>>
               PROVE  IF 0 \in highest THEN next_token = -n * (T - 1)
                      ELSE next_token \in highest
    BY Zenon DEF GreedyUnlessPad, BestTokens
  <2>1. /\ Defined(token_ids) /\ logits = LogitsOf(checkpoint, fault, token_ids)
        /\ checkpoint \in Checkpoints /\ fault \in Faults /\ token_ids \in Seq(Int)
        /\ next_token = ArgMax(logits, T)
    BY <1>1 DEF InferenceInv, InferenceType, LogitsCurrent
  <2>2. n \in Nat \ {0} /\ T \in Nat \ {0} /\ T * n \in Nat
    <3>1. n \in Nat \ {0} /\ T \in Nat \ {0}
      BY <2>1, DefinedIds, TransformerAssumption
    <3> HIDE DEF n, T
    <3> QED BY <3>1
  <2>3. logits \in Array(T * n)
    BY <2>1, LogitsRows DEF IsFlat, Flat, Array
  <2>4. IF 0 \in Highest(logits, T) THEN next_token = -start_index(T)
        ELSE next_token \in Highest(logits, T)
    <3> HIDE DEF T
    <3> QED BY <2>1, <2>2, <2>3, ArgMaxIs
  <2>5. start_index(T) \in Nat /\ start_index(T) + n = T * n
        /\ -start_index(T) = -n * (T - 1)
    <3>1. start_index(T) = n * (T - 1)
      BY DEF start_index
    <3> HIDE DEF n, T
    <3> QED BY <2>2, <3>1
  <2>6. ASSUME NEW u \in Ids PROVE Item(last, u) = Item(logits, start_index(T) + u)
    <3>1. Len(logits) = T * n
      BY <2>2, <2>3 DEF Array
    <3>2. u \in 0 .. n - 1
      BY DEF Ids
    <3> DEFINE s == start_index(T)
    <3>3. last = SubSeq(logits, s + 1, s + n) /\ s \in Nat
      <4>1. Len(logits) - n + 1 = s + 1 /\ Len(logits) = s + n
        <5> HIDE DEF s, n, T
        <5> QED BY <2>2, <2>5, <3>1 DEF s
      <4> QED BY <4>1, <2>5
    <3>4. last[u + 1] = logits[(s + u) + 1]
      <4>1. \A j \in s + 1 .. s + n : logits[j] \in Num
        <5>1. logits \in [1 .. s + n -> Num]
          BY <2>3, <2>5 DEF Array
        <5> HIDE DEF s, n
        <5> QED BY <5>1, <3>3
      <4>2. n \in Nat
        BY <2>2
      <4> HIDE DEF s, n, last
      <4>3. \A j \in 1 .. (s + n) - (s + 1) + 1 :
              SubSeq(logits, s + 1, s + n)[j] = logits[(s + 1) + j - 1]
        BY <3>3, <4>1, <4>2, SubSeqProperties
      <4>4. /\ u + 1 \in 1 .. (s + n) - (s + 1) + 1
            /\ (s + 1) + (u + 1) - 1 = (s + u) + 1
        BY <3>2, <3>3, <4>2
      <4> QED BY <3>3, <4>3, <4>4
    <3> QED BY <3>4 DEF Item
  <2>7. highest = Highest(logits, T)
    <3> HIDE DEF last, T
    <3> QED BY <2>6 DEF Highest
  <2> HIDE DEF highest, last, T, n
  <2> QED BY <2>4, <2>5, <2>7
<1> QED BY <1>1, InferenceInvariant, PTL
=============================================================================
