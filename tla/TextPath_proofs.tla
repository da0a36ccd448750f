-------------------------- MODULE TextPath_proofs --------------------------
(***************************************************************************)
(* Theorems about module TextPath: for buffers, bodies, prompts and        *)
(* answers of any length, cut by recv in any way.                          *)
(***************************************************************************)
EXTENDS TextPath, SequenceTheorems, WellFoundedInduction, TLAPS

-----------------------------------------------------------------------------
(* Induction over natural numbers, as a statement about sets.              *)

(* Every set of natural numbers that is not empty has a least member.      *)
LEMMA LeastNumber ==
  ASSUME NEW T, T \subseteq Nat, T # {}
  PROVE  \E x \in T : \A y \in T : x <= y
<1> DEFINE R == {ss \in Nat \X Nat : ss[1] < ss[2]}
<1>1. IsWellFoundedOn(R, Nat)
  BY NatLessThanWellFounded, Zenon DEF OpToRel
<1>2. PICK x \in T : \A y \in T : ~(<<y, x>> \in R)
  <2> HIDE DEF R
  <2> QED BY <1>1, WFMin
<1>3. ASSUME NEW y \in T PROVE x <= y
  <2>1. <<y, x>> \notin R
    BY <1>2
  <2>2. y \in Nat /\ x \in Nat
    BY <1>2
  <2> QED BY <2>1, <2>2
<1> QED BY <1>2, <1>3

(* A set that holds 0, and with a number below n the next one, holds all   *)
(* numbers up to n.                                                        *)
LEMMA UpTo ==
  ASSUME NEW n \in Nat, NEW S, 0 \in S,
         \A k \in 0 .. n - 1 : k \in S => k + 1 \in S
  PROVE  0 .. n \subseteq S
<1> SUFFICES ASSUME ~(0 .. n \subseteq S) PROVE FALSE
  OBVIOUS
<1> DEFINE T == (0 .. n) \ S
<1>1. T # {} /\ T \subseteq Nat
  OBVIOUS
<1>2. PICK x \in T : \A y \in T : x <= y
  <2> HIDE DEF T
  <2> QED BY <1>1, LeastNumber
<1>3. x \in 1 .. n /\ x \notin S
  BY <1>2
<1>4. x - 1 \in 0 .. n - 1 /\ x - 1 \in S
  BY <1>2, <1>3
<1> QED BY <1>3, <1>4

(* A set that holds a number up to n whenever it holds all before it, holds *)
(* all numbers up to n.                                                    *)
LEMMA Strongly ==
  ASSUME NEW n \in Nat, NEW S,
         \A k \in 0 .. n : (0 .. k - 1 \subseteq S) => k \in S
  PROVE  0 .. n \subseteq S
<1> SUFFICES ASSUME ~(0 .. n \subseteq S) PROVE FALSE
  OBVIOUS
<1> DEFINE T == (0 .. n) \ S
<1>1. T # {} /\ T \subseteq Nat
  OBVIOUS
<1>2. PICK x \in T : \A y \in T : x <= y
  <2> HIDE DEF T
  <2> QED BY <1>1, LeastNumber
<1>3. 0 .. x - 1 \subseteq S
  BY <1>2
<1> QED BY <1>2, <1>3

(* Whatever the steps are, there is a function whose values go back to     *)
(* earlier ones, and one whose values go on to later ones.                 *)
StepsOn(V, n) == [1 .. n -> [V -> V]]
Backs(n) == {prev \in [1 .. n -> Nat] : \A k \in 1 .. n : prev[k] < k}
Runs(V, n, a, prev, step) ==
  {g \in [0 .. n -> V] : g[0] = a /\ \A k \in 1 .. n : g[k] = step[k][g[prev[k]]]}

LEMMA Descends ==
  ASSUME NEW V, NEW n \in Nat, NEW a \in V, NEW prev \in Backs(n), NEW step \in StepsOn(V, n)
  PROVE  Runs(V, n, a, prev, step) # {}
<1> DEFINE Goes(m, g) == g[0] = a /\ \A k \in 1 .. m : g[k] = step[k][g[prev[k]]]
           S == {m \in 0 .. n : \E g \in [0 .. m -> V] : Goes(m, g)}
<1>0. \A k \in 1 .. n : prev[k] \in 0 .. k - 1 /\ step[k] \in [V -> V]
  BY DEF Backs, StepsOn
<1>1. 0 \in S
  <2> DEFINE g == [k \in 0 .. 0 |-> a]
  <2>1. g \in [0 .. 0 -> V] /\ Goes(0, g)
    OBVIOUS
  <2> HIDE DEF g, Goes
  <2> QED BY <2>1
<1>2. ASSUME NEW k \in 0 .. n - 1, k \in S PROVE k + 1 \in S
  <2>1. PICK g \in [0 .. k -> V] : Goes(k, g)
    BY <1>2
  <2> DEFINE c == step[k + 1][g[prev[k + 1]]]
             h == [i \in 0 .. k + 1 |-> IF i = k + 1 THEN c ELSE g[i]]
  <2>2. c \in V
    <3>1. k + 1 \in 1 .. n /\ prev[k + 1] \in 0 .. k
      BY <1>0
    <3>2. g[prev[k + 1]] \in V
      BY <3>1
    <3> QED BY <3>1, <3>2, <1>0
  <2>3. h \in [0 .. k + 1 -> V]
    <3> HIDE DEF c
    <3> QED BY <2>2
  <2>4. h[0] = a
    BY <2>1
  <2>5. ASSUME NEW i \in 1 .. k + 1 PROVE h[i] = step[i][h[prev[i]]]
    <3>1. prev[i] \in 0 .. i - 1 /\ h[prev[i]] = g[prev[i]]
      BY <1>0
    <3>2. CASE i = k + 1
      BY <3>1, <3>2
    <3>3. CASE i # k + 1
      <4>1. i \in 1 .. k /\ h[i] = g[i]
        BY <3>3
      <4> QED BY <4>1, <3>1, <2>1
    <3> QED BY <3>2, <3>3
  <2>6. Goes(k + 1, h)
    BY <2>4, <2>5
  <2> HIDE DEF h, Goes
  <2> QED BY <2>3, <2>6
<1>3. 0 .. n \subseteq S
  <2> HIDE DEF S
  <2> QED BY <1>1, <1>2, UpTo
<1>4. PICK g \in [0 .. n -> V] : Goes(n, g)
  BY <1>3
<1> QED BY <1>4 DEF Runs

Ons(n) == {next \in [1 .. n -> 1 .. n + 1] : \A i \in 1 .. n : next[i] > i}
Reads(V, n, a, next, step) ==
  {g \in [1 .. n + 1 -> V] : g[n + 1] = a /\ \A i \in 1 .. n : g[i] = step[i][g[next[i]]]}

LEMMA Ascends ==
  ASSUME NEW V, NEW n \in Nat, NEW a \in V, NEW next \in Ons(n), NEW step \in StepsOn(V, n)
  PROVE  Reads(V, n, a, next, step) # {}
<1> DEFINE prev == [k \in 1 .. n |-> n + 1 - next[n + 1 - k]]
           back == [k \in 1 .. n |-> step[n + 1 - k]]
<1>0. \A i \in 1 .. n : next[i] \in i + 1 .. n + 1
  BY DEF Ons
<1>1. prev \in Backs(n)
  <2>1. ASSUME NEW k \in 1 .. n PROVE prev[k] \in Nat /\ prev[k] < k
    <3> DEFINE i == n + 1 - k
    <3>1. i \in 1 .. n /\ k = n + 1 - i /\ prev[k] = n + 1 - next[i]
      OBVIOUS
    <3> HIDE DEF i, prev
    <3>2. next[i] \in i + 1 .. n + 1
      BY <3>1, <1>0
    <3> QED BY <3>1, <3>2
  <2>2. prev = [k \in 1 .. n |-> prev[k]]
    OBVIOUS
  <2> HIDE DEF prev
  <2>3. prev \in [1 .. n -> Nat]
    BY <2>1, <2>2
  <2> QED BY <2>1, <2>3 DEF Backs
<1>2. back \in StepsOn(V, n)
  BY DEF StepsOn
<1> HIDE DEF prev, back
<1>3. PICK f \in Runs(V, n, a, prev, back) : TRUE
  BY <1>1, <1>2, Descends, Zenon
<1>4. /\ f \in [0 .. n -> V] /\ f[0] = a
      /\ \A k \in 1 .. n : f[k] = back[k][f[prev[k]]]
  BY <1>3 DEF Runs
<1> DEFINE g == [i \in 1 .. n + 1 |-> f[n + 1 - i]]
<1>5. g \in [1 .. n + 1 -> V] /\ g[n + 1] = a
  BY <1>4
<1>6. ASSUME NEW i \in 1 .. n PROVE g[i] = step[i][g[next[i]]]
  <2> DEFINE k == n + 1 - i
  <2>1. k \in 1 .. n /\ n + 1 - k = i
    OBVIOUS
  <2>2. back[k] = step[i] /\ prev[k] = n + 1 - next[i]
    <3> HIDE DEF k
    <3> QED BY <2>1 DEF back, prev
  <2>3. g[next[i]] = f[n + 1 - next[i]]
    BY <1>0
  <2>4. f[k] = back[k][f[prev[k]]]
    BY <1>4, <2>1
  <2> QED BY <2>2, <2>3, <2>4
<1> HIDE DEF g
<1>7. g \in Reads(V, n, a, next, step)
  BY <1>5, <1>6 DEF Reads
<1> QED BY <1>7

LEMMA MinOf ==
  ASSUME NEW S, S # {}, S \subseteq Nat
  PROVE  Min(S) \in S /\ \A x \in S : Min(S) <= x
<1>1. PICK x \in S : \A y \in S : x <= y
  BY LeastNumber
<1> QED BY <1>1 DEF Min

-----------------------------------------------------------------------------
(* Sequences joined.                                                       *)

(* g holds the joined beginnings of M.                                     *)
Joins(V, n, M, g) ==
  /\ g \in [0 .. n -> Seq(V)] /\ g[0] = <<>>
  /\ \A k \in 1 .. n : g[k] = g[k - 1] \o M[k]

LEMMA JoinsExist ==
  ASSUME NEW V, NEW n \in Nat, NEW M \in [1 .. n -> Seq(V)]
  PROVE  \E g : Joins(V, n, M, g)
<1> DEFINE prev == [k \in 1 .. n |-> k - 1]
           step == [k \in 1 .. n |-> [s \in Seq(V) |-> s \o M[k]]]
<1>1. prev \in Backs(n)
  <2>1. prev \in [1 .. n -> Nat]
    OBVIOUS
  <2> QED BY <2>1 DEF Backs
<1>2. step \in StepsOn(Seq(V), n)
  <2>1. ASSUME NEW k \in 1 .. n, NEW s \in Seq(V) PROVE s \o M[k] \in Seq(V)
    BY ConcatProperties
  <2> QED BY <2>1 DEF StepsOn
<1>3. <<>> \in Seq(V)
  OBVIOUS
<1>4. PICK g \in Runs(Seq(V), n, <<>>, prev, step) : TRUE
  <2> HIDE DEF prev, step
  <2> QED BY <1>1, <1>2, <1>3, Descends, Zenon
<1>5. /\ g \in [0 .. n -> Seq(V)] /\ g[0] = <<>>
      /\ \A k \in 1 .. n : g[k] = step[k][g[prev[k]]]
  <2> HIDE DEF prev, step
  <2> QED BY <1>4 DEF Runs
<1>6. ASSUME NEW k \in 1 .. n PROVE g[k] = g[k - 1] \o M[k]
  <2>1. g[k] = step[k][g[k - 1]]
    BY <1>5
  <2>2. g[k - 1] \in Seq(V)
    BY <1>5
  <2> QED BY <2>1, <2>2
<1> QED BY <1>5, <1>6, Zenon DEF Joins

LEMMA JoinedAre ==
  ASSUME NEW V, NEW n \in Nat, NEW M \in [1 .. n -> Seq(V)], NEW g, Joins(V, n, M, g)
  PROVE  FlattenSeq(M) = g[n]
<1>1. /\ g \in [0 .. n -> Seq(V)] /\ g[0] = <<>>
      /\ \A k \in 1 .. n : g[k] = g[k - 1] \o M[k]
  BY Zenon DEF Joins
<1>2. M \in Seq(Seq(V)) /\ Len(M) = n
  OBVIOUS
<1> DEFINE One(k) == g[k] = g[k - 1] \o M[k]
<1>a. \A k \in 1 .. n : One(k)
  BY <1>1, Zenon
<1>b. \A k \in 1 .. n : M[k] \in Seq(V)
  OBVIOUS
<1> HIDE DEF One
<1>c. ASSUME n # 0 PROVE g[1] = M[1]
  <2>1. One(1) /\ M[1] \in Seq(V)
    BY <1>a, <1>b, <1>c
  <2>2. g[1] = g[1 - 1] \o M[1] /\ g[0] = <<>>
    BY <2>1, <1>1, Zenon DEF One
  <2>3. 1 - 1 = 0
    OBVIOUS
  <2>4. g[1] = <<>> \o M[1]
    BY <2>2, <2>3, Zenon
  <2>5. <<>> \o M[1] = M[1]
    BY <2>1, ConcatEmptySeq, Zenon
  <2> QED BY <2>4, <2>5, Zenon
<1>3. CASE n = 0
  BY <1>1, <1>2, <1>3, SMTT(30) DEF FlattenSeq
<1>4. CASE n # 0
  <2> DEFINE Rec(f) == f = [i \in 1 .. n |-> IF i = 1 THEN M[i] ELSE f[i - 1] \o M[i]]
             h == [i \in 1 .. n |-> g[i]]
             f == CHOOSE e : Rec(e)
  <2>1. Rec(h)
    <3>1. ASSUME NEW i \in 1 .. n
          PROVE  h[i] = IF i = 1 THEN M[i] ELSE h[i - 1] \o M[i]
      <4>1. CASE i = 1
        BY <1>c, <4>1
      <4>2. CASE i # 1
        <5>1. h[i - 1] = g[i - 1] /\ h[i] = g[i]
          BY <4>2
        <5>2. One(i)
          BY <1>a
        <5> QED BY <5>1, <5>2, <4>2 DEF One
      <4> QED BY <4>1, <4>2
    <3> QED BY <3>1
  <2>2. Rec(f)
    <3> HIDE DEF Rec, h
    <3> QED BY <2>1
  <2>3. FlattenSeq(M) = f[n]
    BY <1>2, <1>4, ZenonT(40) DEF FlattenSeq
  <2> DEFINE S == {k \in 0 .. n : k = 0 \/ f[k] = g[k]}
  <2>4. 0 \in S
    OBVIOUS
  <2>5. ASSUME NEW k \in 0 .. n - 1, k \in S PROVE k + 1 \in S
    <3> HIDE DEF f
    <3>1. f[k + 1] = IF k + 1 = 1 THEN M[k + 1] ELSE f[(k + 1) - 1] \o M[k + 1]
      <4>1. k + 1 \in 1 .. n
        OBVIOUS
      <4> DEFINE e(i) == IF i = 1 THEN M[i] ELSE f[i - 1] \o M[i]
      <4>2. f = [i \in 1 .. n |-> e(i)]
        BY <2>2
      <4>3. f[k + 1] = e(k + 1)
        <5> HIDE DEF e
        <5> QED BY <4>1, <4>2
      <4> QED BY <4>3, Zenon
    <3>2. CASE k = 0
      BY <1>c, <3>2, <3>1
    <3>3. CASE k # 0
      <4>1. One(k + 1) /\ (k + 1) - 1 = k /\ k + 1 # 1 /\ f[k] = g[k]
        BY <3>3, <1>a, <2>5
      <4>2. g[k + 1] = g[(k + 1) - 1] \o M[k + 1]
        BY <4>1, Zenon DEF One
      <4>3. f[k + 1] = f[(k + 1) - 1] \o M[k + 1]
        BY <4>1, <3>1, Zenon
      <4>4. f[k + 1] = g[k + 1]
        BY <4>1, <4>2, <4>3, Zenon
      <4> QED BY <4>4
    <3> QED BY <3>2, <3>3
  <2>6. 0 .. n \subseteq S
    <3> HIDE DEF S
    <3> QED BY <2>4, <2>5, UpTo
  <2>7. n \in S
    <3> HIDE DEF S
    <3> QED BY <2>6
  <2> QED BY <2>3, <2>7, <1>4
<1> QED BY <1>3, <1>4

LEMMA JoinedType ==
  ASSUME NEW V, NEW n \in Nat, NEW M \in [1 .. n -> Seq(V)]
  PROVE  FlattenSeq(M) \in Seq(V)
<1>1. PICK g : Joins(V, n, M, g)
  BY JoinsExist
<1>2. g[n] \in Seq(V)
  BY <1>1 DEF Joins
<1> QED BY <1>1, <1>2, JoinedAre


-----------------------------------------------------------------------------
(* The symbols texts are made of.                                          *)
Marks == {Quote, Backslash, CR, LF, " ", "{", "}", ":", ",", "-", "HEADERS", "message", "max_tokens",
          "chunk", "is_last: true}", "is_last: false}", "u", "r", "n", "invalid", "broken",
          "HTTP/1.1 ", "Content-Length: ", "Connection: close", "Transfer-Encoding: chunked",
          "Invalid HTTP request", "Invalid JSON or missing message field", "ok", "Endpoint not found",
          "word_to_id", "id_to_word", "char_to_id", "id_to_char", "vocab_size",
          "special_tokens", "<PAD>", "<UNK>", "<BOS>", "<", "E", "O", "S", ">",
          "<CHAR_START>", "<CHAR_END>"}
Symbols == STRING \cup Marks \cup {Digits[i] : i \in 1 .. 16}
Texts == Seq(Symbols)

LEMMA StringsAreTexts == String \subseteq Texts
BY SeqMonotonic DEF String, Texts, Symbols

(* The digits of a number.                                                 *)
LEMMA DigitOf ==
  ASSUME NEW base \in 2 .. 16, NEW k \in Nat
  PROVE  k % base \in 0 .. base - 1 /\ Digits[(k % base) + 1] \in Symbols
<1>1. k % base \in 0 .. 15 /\ k % base < base
  OBVIOUS
<1>2. (k % base) + 1 \in 1 .. 16
  BY <1>1
<1> QED BY <1>1, <1>2 DEF Symbols

LEMMA DividedType ==
  ASSUME NEW base \in 2 .. 16, NEW k \in Nat \ {0}
  PROVE  k \div base \in Nat /\ k \div base < k
OBVIOUS

(* A numeral is the numeral of what the base divides, and a digit.         *)
LEMMA NumeralIs ==
  ASSUME NEW base \in 2 .. 16
  PROVE  \A n \in Nat :
           /\ Numeral(n, base) \in Texts
           /\ n < base => Numeral(n, base) = <<Digits[(n % base) + 1]>>
           /\ n >= base => Numeral(n, base) = Numeral(n \div base, base) \o <<Digits[(n % base) + 1]>>
<1> DEFINE last(k) == <<Digits[(k % base) + 1]>>
           Body(f, k) == IF k < base THEN last(k) ELSE f[k \div base] \o last(k)
           Rec(n, f) == f = [k \in 0 .. n |-> Body(f, k)]
<1>1. \A n \in Nat : Numeral(n, base) = (CHOOSE f : Rec(n, f))[n]
  BY Zenon DEF Numeral
<1>2. \A k \in Nat : last(k) \in Texts
  BY DigitOf DEF Texts
<1>3. ASSUME NEW n \in Nat
      PROVE  \E g \in [0 .. n -> Texts] : \A k \in 0 .. n : g[k] = Body(g, k)
  <2> DEFINE prev == [k \in 1 .. n |-> k \div base]
             step == [k \in 1 .. n |-> [s \in Texts |-> IF k < base THEN last(k) ELSE s \o last(k)]]
  <2>1. prev \in Backs(n)
    <3>1. \A k \in 1 .. n : k \div base \in Nat /\ k \div base < k
      BY DividedType
    <3>2. prev \in [1 .. n -> Nat]
      BY <3>1
    <3> QED BY <3>1, <3>2 DEF Backs
  <2>2. step \in StepsOn(Texts, n)
    <3> HIDE DEF last
    <3>1. ASSUME NEW k \in 1 .. n, NEW s \in Texts
          PROVE  (IF k < base THEN last(k) ELSE s \o last(k)) \in Texts
      <4>1. last(k) \in Texts
        BY <1>2
      <4> QED BY <4>1, ConcatProperties DEF Texts
    <3> QED BY <3>1 DEF StepsOn
  <2>3. last(0) \in Texts
    BY <1>2
  <2>4. PICK g \in Runs(Texts, n, last(0), prev, step) : TRUE
    <3> HIDE DEF prev, step, last
    <3> QED BY <2>1, <2>2, <2>3, Descends, Zenon
  <2>5. /\ g \in [0 .. n -> Texts] /\ g[0] = last(0)
        /\ \A k \in 1 .. n : g[k] = step[k][g[prev[k]]]
    <3> HIDE DEF prev, step, last
    <3> QED BY <2>4 DEF Runs
  <2>6. ASSUME NEW k \in 0 .. n PROVE g[k] = Body(g, k)
    <3> HIDE DEF last
    <3>1. CASE k = 0
      BY <3>1, <2>5
    <3>2. CASE k # 0
      <4>1. k \in 1 .. n /\ k \div base \in 0 .. n
        BY <3>2, DividedType
      <4>2. prev[k] = k \div base /\ g[k \div base] \in Texts
        BY <4>1, <2>5
      <4>3. g[k] = step[k][g[k \div base]]
        BY <4>1, <4>2, <2>5
      <4> QED BY <4>1, <4>2, <4>3
    <3> QED BY <3>1, <3>2
  <2> HIDE DEF Body
  <2> QED BY <2>5, <2>6
<1> DEFINE num(n) == CHOOSE f : Rec(n, f)
<1>4. ASSUME NEW n \in Nat
      PROVE  \A k \in 0 .. n : num(n)[k] = Body(num(n), k)
  <2>1. PICK g \in [0 .. n -> Texts] : \A k \in 0 .. n : g[k] = Body(g, k)
    BY <1>3
  <2>2. Rec(n, g)
    <3> HIDE DEF Body
    <3> QED BY <2>1
  <2>3. Rec(n, num(n))
    <3> HIDE DEF Rec
    <3> QED BY <2>2
  <2> HIDE DEF num, Body
  <2> QED BY <2>3
<1> HIDE DEF num, last
<1>5. ASSUME NEW n \in Nat, NEW m \in Nat, m <= n
      PROVE  num(n)[m] = num(m)[m]
  <2> DEFINE S == {k \in 0 .. m : num(n)[k] = num(m)[k]}
  <2>1. ASSUME NEW k \in 0 .. m, 0 .. k - 1 \subseteq S PROVE k \in S
    <3>1. num(n)[k] = Body(num(n), k) /\ num(m)[k] = Body(num(m), k)
      BY <1>4, <1>5
    <3>2. CASE k < base
      BY <3>1, <3>2
    <3>3. CASE k >= base
      <4>1. k \div base \in 0 .. k - 1
        BY <3>3, DividedType
      <4>2. num(n)[k \div base] = num(m)[k \div base]
        BY <4>1, <2>1
      <4> QED BY <3>1, <3>3, <4>2
    <3> QED BY <3>2, <3>3
  <2>2. 0 .. m \subseteq S
    <3> HIDE DEF S
    <3> QED BY <2>1, Strongly
  <2>3. m \in S
    <3> HIDE DEF S
    <3> QED BY <2>2
  <2> QED BY <2>3
<1>6. ASSUME NEW n \in Nat
      PROVE  /\ num(n)[n] \in Texts
             /\ n < base => num(n)[n] = last(n)
             /\ n >= base => num(n)[n] = num(n \div base)[n \div base] \o last(n)
  <2>1. num(n)[n] = Body(num(n), n)
    BY <1>4
  <2>2. PICK g \in [0 .. n -> Texts] : \A k \in 0 .. n : g[k] = Body(g, k)
    BY <1>3
  <2> DEFINE S == {k \in 0 .. n : num(n)[k] = g[k]}
  <2>3. ASSUME NEW k \in 0 .. n, 0 .. k - 1 \subseteq S PROVE k \in S
    <3>1. num(n)[k] = Body(num(n), k) /\ g[k] = Body(g, k)
      BY <1>4, <2>2
    <3>2. CASE k < base
      BY <3>1, <3>2
    <3>3. CASE k >= base
      <4>1. k \div base \in 0 .. k - 1
        BY <3>3, DividedType
      <4>2. num(n)[k \div base] = g[k \div base]
        BY <4>1, <2>3
      <4> QED BY <3>1, <3>3, <4>2
    <3> QED BY <3>2, <3>3
  <2>4. 0 .. n \subseteq S
    <3> HIDE DEF S
    <3> QED BY <2>3, Strongly
  <2>5. num(n)[n] \in Texts
    <3>1. n \in S
      <4> HIDE DEF S
      <4> QED BY <2>4
    <3> QED BY <3>1, <2>2
  <2>6. CASE n < base
    BY <2>1, <2>5, <2>6
  <2>7. CASE n >= base
    <3>1. n \div base \in Nat /\ n \div base <= n
      BY <2>7, DividedType
    <3>2. num(n)[n \div base] = num(n \div base)[n \div base]
      BY <3>1, <1>5
    <3>3. num(n)[n] = num(n)[n \div base] \o last(n)
      BY <2>1, <2>7
    <3> QED BY <3>2, <3>3, <2>5, <2>7
  <2> QED BY <2>6, <2>7
<1>7. \A n \in Nat : Numeral(n, base) = num(n)[n]
  BY <1>1, Zenon DEF num
<1>8. ASSUME NEW n \in Nat, n >= base PROVE n \div base \in Nat
  BY <1>8, DividedType
<1> QED BY <1>6, <1>7, <1>8 DEF last

-----------------------------------------------------------------------------
(* What a client sends.                                                    *)

(* A client that comes: its request, and a field of its body.              *)
Comes(c) ==
  c \in Requests /\ (c.route = Process => c.has_message \/ c.max_tokens # <<>>)

LEMMA ClientsCome ==
  ASSUME NEW v \in DOMAIN Clients, NEW c \in Clients[v]
  PROVE  Comes(c)
BY TextAssumption DEF TextAssumption, Comes

LEMMA Concat ==
  ASSUME NEW s \in Texts, NEW t \in Texts
  PROVE  /\ s \o t \in Texts
         /\ Len(s \o t) = Len(s) + Len(t)
         /\ \A i \in 1 .. Len(s) + Len(t) :
              (s \o t)[i] = IF i <= Len(s) THEN s[i] ELSE t[i - Len(s)]
BY ConcatProperties DEF Texts

LEMMA MarksAreTexts ==
  /\ CRLF \in Texts /\ KeyMessage \in Texts /\ KeyMaxTokens \in Texts
  /\ <<":", " ">> \in Texts /\ <<",", " ">> \in Texts /\ <<"{">> \in Texts /\ <<"}">> \in Texts
  /\ <<"-">> \in Texts /\ <<"HEADERS">> \in Texts /\ <<Quote>> \in Texts /\ <<>> \in Texts
BY DEF CRLF, KeyMessage, KeyMaxTokens, Texts, Symbols, Marks

LEMMA QuotedType ==
  ASSUME NEW s \in Texts
  PROVE  Quoted(s) \in Texts
<1> DEFINE e(i) == IF s[i] \in {Quote, Backslash} THEN <<Backslash, s[i]>> ELSE <<s[i]>>
           M == [i \in DOMAIN s |-> e(i)]
<1>1. ASSUME NEW i \in DOMAIN s PROVE e(i) \in Texts
  <2>1. s[i] \in Symbols
    BY DEF Texts
  <2>2. Backslash \in Symbols
    BY DEF Symbols, Marks
  <2>3. <<Backslash, s[i]>> \in Texts /\ <<s[i]>> \in Texts
    BY <2>1, <2>2 DEF Texts
  <2> QED BY <2>3
<1>2. DOMAIN s = 1 .. Len(s) /\ Len(s) \in Nat
  BY DEF Texts
<1>3. M \in [1 .. Len(s) -> Seq(Symbols)]
  <2> HIDE DEF e
  <2> QED BY <1>1, <1>2 DEF Texts
<1>4. FlattenSeq(M) \in Texts
  <2> HIDE DEF M
  <2> QED BY <1>2, <1>3, JoinedType DEF Texts
<1>5. Quoted(s) = <<Quote>> \o FlattenSeq(M) \o <<Quote>>
  BY Zenon DEF Quoted
<1> HIDE DEF M
<1>6. <<Quote>> \o FlattenSeq(M) \in Texts
  BY <1>4, MarksAreTexts, Concat
<1> QED BY <1>5, <1>6, MarksAreTexts, Concat

LEMMA MessageType ==
  ASSUME NEW c \in Requests
  PROVE  FlattenSeq(c.message) \in Texts
<1>1. c.message \in Seq(String)
  BY DEF Requests
<1>2. c.message \in [1 .. Len(c.message) -> Seq(Symbols)] /\ Len(c.message) \in Nat
  <2>1. \A i \in 1 .. Len(c.message) : c.message[i] \in String
    BY <1>1
  <2>2. \A i \in 1 .. Len(c.message) : c.message[i] \in Seq(Symbols)
    BY <2>1, StringsAreTexts DEF Texts
  <2> QED BY <1>1, <2>2
<1> QED BY <1>2, JoinedType DEF Texts

(* The fields of a body, as the client writes them.                        *)
NumberText(n) == IF n < 0 THEN <<"-">> \o Numeral(-n, 10) ELSE Numeral(n, 10)
MessageField(c) == KeyMessage \o <<":", " ">> \o Quoted(FlattenSeq(c.message))
NumberField(c) == KeyMaxTokens \o <<":", " ">> \o NumberText(c.max_tokens[1])
Fields(c) ==
  IF ~c.has_message THEN NumberField(c)
  ELSE IF c.max_tokens = <<>> THEN MessageField(c)
  ELSE IF c.message_first THEN MessageField(c) \o <<",", " ">> \o NumberField(c)
  ELSE NumberField(c) \o <<",", " ">> \o MessageField(c)

LEMMA JsonBodyIs ==
  ASSUME NEW c
  PROVE  JsonBody(c) = IF c.route = Process THEN <<"{">> \o Fields(c) \o <<"}">> ELSE <<>>
BY DEF JsonBody, Fields, NumberField, MessageField, NumberText

LEMMA NumberTextType ==
  ASSUME NEW n \in Int
  PROVE  NumberText(n) \in Texts
<1>1. CASE n >= 0
  <2>1. n \in Nat /\ 10 \in 2 .. 16 /\ NumberText(n) = Numeral(n, 10)
    BY <1>1 DEF NumberText
  <2> QED BY <2>1, NumeralIs
<1>2. CASE n < 0
  <2>1. -n \in Nat /\ 10 \in 2 .. 16
    BY <1>2
  <2>2. Numeral(-n, 10) \in Texts
    BY <2>1, NumeralIs
  <2> QED BY <1>2, <2>2, MarksAreTexts, Concat DEF NumberText
<1> QED BY <1>1, <1>2

LEMMA MessageFieldType ==
  ASSUME NEW c \in Requests
  PROVE  MessageField(c) \in Texts
<1>1. Quoted(FlattenSeq(c.message)) \in Texts
  BY MessageType, QuotedType
<1>2. KeyMessage \o <<":", " ">> \in Texts
  BY MarksAreTexts, Concat
<1> QED BY <1>1, <1>2, Concat DEF MessageField

LEMMA NumberFieldType ==
  ASSUME NEW c \in Requests, c.max_tokens # <<>>
  PROVE  NumberField(c) \in Texts
<1>1. c.max_tokens[1] \in Int
  <2>1. c.max_tokens \in Seq(Int)
    BY DEF Requests
  <2> QED BY <2>1
<1>2. NumberText(c.max_tokens[1]) \in Texts
  BY <1>1, NumberTextType
<1>3. KeyMaxTokens \o <<":", " ">> \in Texts
  BY MarksAreTexts, Concat
<1> QED BY <1>2, <1>3, Concat DEF NumberField

LEMMA JsonBodyType ==
  ASSUME NEW c, Comes(c)
  PROVE  JsonBody(c) \in Texts
<1>1. c \in Requests /\ (c.route = Process => c.has_message \/ c.max_tokens # <<>>)
  BY DEF Comes
<1>2. CASE c.route # Process
  BY <1>2, JsonBodyIs, MarksAreTexts, Zenon
<1>3. CASE c.route = Process
  <2>1. MessageField(c) \in Texts
    BY <1>1, MessageFieldType
  <2>2. c.max_tokens # <<>> => NumberField(c) \in Texts
    BY <1>1, NumberFieldType
  <2>3. MessageField(c) \o <<",", " ">> \in Texts
    BY <2>1, MarksAreTexts, Concat
  <2>4. c.max_tokens # <<>> => NumberField(c) \o <<",", " ">> \in Texts
    BY <2>2, MarksAreTexts, Concat
  <2>5. c.max_tokens # <<>> => /\ MessageField(c) \o <<",", " ">> \o NumberField(c) \in Texts
                               /\ NumberField(c) \o <<",", " ">> \o MessageField(c) \in Texts
    BY <2>1, <2>2, <2>3, <2>4, Concat
  <2>6. Fields(c) \in Texts
    <3>1. CASE ~c.has_message
      <4>1. Fields(c) = NumberField(c)
        BY <3>1 DEF Fields
      <4> QED BY <4>1, <3>1, <1>1, <1>3, <2>2
    <3>2. CASE c.has_message /\ c.max_tokens = <<>>
      <4>1. Fields(c) = MessageField(c)
        BY <3>2 DEF Fields
      <4> QED BY <4>1, <2>1
    <3>3. CASE c.has_message /\ c.max_tokens # <<>> /\ c.message_first
      <4>1. Fields(c) = MessageField(c) \o <<",", " ">> \o NumberField(c)
        BY <3>3 DEF Fields
      <4> QED BY <4>1, <3>3, <2>5
    <3>4. CASE c.has_message /\ c.max_tokens # <<>> /\ ~c.message_first
      <4>1. Fields(c) = NumberField(c) \o <<",", " ">> \o MessageField(c)
        BY <3>4 DEF Fields
      <4> QED BY <4>1, <3>4, <2>5
    <3> QED BY <3>1, <3>2, <3>3, <3>4
  <2>7. <<"{">> \o Fields(c) \in Texts
    BY <2>6, MarksAreTexts, Concat
  <2>8. <<"{">> \o Fields(c) \o <<"}">> \in Texts
    BY <2>7, MarksAreTexts, Concat
  <2> QED BY <1>3, <2>8, JsonBodyIs, Zenon
<1> QED BY <1>2, <1>3

(* Headers of five symbols, then the body, then whatever more.             *)
LEMMA SentIs ==
  ASSUME NEW c, Comes(c)
  PROVE  /\ Sent(c) \in Texts
         /\ Len(Sent(c)) >= 5 + Len(JsonBody(c))
         /\ Sent(c)[1] = "HEADERS" /\ Sent(c)[2] = CR /\ Sent(c)[3] = LF
         /\ Sent(c)[4] = CR /\ Sent(c)[5] = LF
         /\ \A i \in 1 .. Len(JsonBody(c)) : Sent(c)[5 + i] = JsonBody(c)[i]
<1> DEFINE h == <<"HEADERS">> \o CRLF \o CRLF
           b == JsonBody(c)
<1>1. b \in Texts /\ c.more \in Texts /\ Len(b) \in Nat /\ Len(c.more) \in Nat
  <2>1. c.more \in String
    BY DEF Comes, Requests
  <2>2. b \in Texts /\ c.more \in Texts
    BY <2>1, StringsAreTexts, JsonBodyType
  <2> QED BY <2>2 DEF Texts
<1>2. /\ h \in Texts /\ Len(h) = 5
      /\ h[1] = "HEADERS" /\ h[2] = CR /\ h[3] = LF /\ h[4] = CR /\ h[5] = LF
  <2> DEFINE h1 == <<"HEADERS">> \o CRLF
  <2>1. CRLF \in Texts /\ Len(CRLF) = 2 /\ CRLF[1] = CR /\ CRLF[2] = LF
    BY MarksAreTexts DEF CRLF
  <2>2. <<"HEADERS">> \in Texts /\ Len(<<"HEADERS">>) = 1 /\ <<"HEADERS">>[1] = "HEADERS"
    BY MarksAreTexts
  <2>3. /\ h1 \in Texts /\ Len(h1) = 3
        /\ h1[1] = "HEADERS" /\ h1[2] = CR /\ h1[3] = LF
    <3>1. /\ h1 \in Texts /\ Len(h1) = Len(<<"HEADERS">>) + Len(CRLF)
          /\ \A i \in 1 .. Len(<<"HEADERS">>) + Len(CRLF) :
               h1[i] = IF i <= Len(<<"HEADERS">>) THEN <<"HEADERS">>[i] ELSE CRLF[i - Len(<<"HEADERS">>)]
      BY <2>1, <2>2, Concat, Zenon
    <3>2. \A i \in 1 .. 3 : h1[i] = IF i <= 1 THEN <<"HEADERS">>[i] ELSE CRLF[i - 1]
      BY <3>1, <2>1, <2>2
    <3> HIDE DEF h1
    <3> QED BY <3>1, <3>2, <2>1, <2>2
  <2>4. /\ h \in Texts /\ Len(h) = Len(h1) + Len(CRLF)
        /\ \A i \in 1 .. Len(h1) + Len(CRLF) :
             h[i] = IF i <= Len(h1) THEN h1[i] ELSE CRLF[i - Len(h1)]
    BY <2>1, <2>3, Concat, Zenon
  <2> HIDE DEF h, h1
  <2>5. \A i \in 1 .. 5 : h[i] = IF i <= 3 THEN h1[i] ELSE CRLF[i - 3]
    BY <2>1, <2>3, <2>4
  <2> QED BY <2>1, <2>3, <2>4, <2>5
<1>3. Sent(c) = h \o b \o c.more
  BY Zenon DEF Sent
<1> HIDE DEF h, b
<1> DEFINE hb == h \o b
<1>4. /\ hb \in Texts /\ Len(hb) = 5 + Len(b)
      /\ \A i \in 1 .. 5 + Len(b) : hb[i] = IF i <= 5 THEN h[i] ELSE b[i - 5]
  <2>1. /\ hb \in Texts /\ Len(hb) = Len(h) + Len(b)
        /\ \A i \in 1 .. Len(h) + Len(b) : hb[i] = IF i <= Len(h) THEN h[i] ELSE b[i - Len(h)]
    BY <1>1, <1>2, Concat, Zenon
  <2> HIDE DEF hb
  <2> QED BY <1>2, <2>1
<1> DEFINE all == hb \o c.more
<1>5. /\ all \in Texts /\ Len(all) = 5 + Len(b) + Len(c.more)
      /\ \A i \in 1 .. 5 + Len(b) : all[i] = hb[i]
  <2> HIDE DEF hb
  <2> DEFINE m == c.more
  <2>1. /\ all \in Texts /\ Len(all) = Len(hb) + Len(m)
        /\ \A i \in 1 .. Len(hb) + Len(m) :
             all[i] = IF i <= Len(hb) THEN hb[i] ELSE m[i - Len(hb)]
    BY <1>1, <1>4, Concat, Zenon
  <2>2. Len(m) \in Nat
    BY <1>1
  <2> HIDE DEF all, m
  <2>3. \A i \in 1 .. 5 + Len(b) : all[i] = hb[i]
    BY <1>1, <1>4, <2>1, <2>2
  <2>4. Len(all) = 5 + Len(b) + Len(m)
    BY <1>4, <2>1
  <2> QED BY <2>1, <2>3, <2>4 DEF m
<1>s. Sent(c) = all
  BY <1>3, Zenon
<1> HIDE DEF hb, all
<1>6. \A i \in 1 .. 5 + Len(b) : Sent(c)[i] = IF i <= 5 THEN h[i] ELSE b[i - 5]
  <2>1. ASSUME NEW i \in 1 .. 5 + Len(b) PROVE all[i] = IF i <= 5 THEN h[i] ELSE b[i - 5]
    <3>1. all[i] = hb[i]
      BY <1>5
    <3>2. hb[i] = IF i <= 5 THEN h[i] ELSE b[i - 5]
      BY <1>4
    <3> QED BY <3>1, <3>2
  <2> QED BY <2>1, <1>s, Zenon
<1>7. /\ Sent(c)[1] = h[1] /\ Sent(c)[2] = h[2] /\ Sent(c)[3] = h[3]
      /\ Sent(c)[4] = h[4] /\ Sent(c)[5] = h[5]
  BY <1>6, <1>1
<1>8. \A i \in 1 .. Len(b) : Sent(c)[5 + i] = b[i]
  BY <1>6, <1>1
<1>9. Len(Sent(c)) >= 5 + Len(b)
  <2> DEFINE m == c.more
  <2>a. Len(m) \in Nat /\ Len(b) \in Nat
    BY <1>1
  <2>b. Len(all) = 5 + Len(b) + Len(m)
    BY <1>5
  <2> HIDE DEF m
  <2>1. Len(all) >= 5 + Len(b)
    BY <2>a, <2>b
  <2> QED BY <2>1, <1>s, Zenon
<1> QED BY <1>2, <1>5, <1>s, <1>7, <1>8, <1>9 DEF b

-----------------------------------------------------------------------------
(* Reading a request.                                                      *)

LEMMA LeastIs ==
  ASSUME NEW S, S \subseteq Int, NEW x \in S, \A y \in S : x <= y
  PROVE  Least(S) = x
<1> DEFINE Low(n) == \A m \in S : n <= m
<1>1. Least(S) = (CHOOSE n \in S : Low(n))
  BY Zenon DEF Least
<1>2. Low(x)
  OBVIOUS
<1>3. \A y \in S : Low(y) => y = x
  OBVIOUS
<1> HIDE DEF Low
<1> QED BY <1>1, <1>2, <1>3

LEMMA Part ==
  ASSUME NEW s \in Texts, NEW i \in Int, NEW j \in Int, 1 <= i, i <= j + 1, j <= Len(s)
  PROVE  /\ SubSeq(s, i, j) \in Texts
         /\ Len(SubSeq(s, i, j)) = j - i + 1
         /\ \A n \in 1 .. j - i + 1 : SubSeq(s, i, j)[n] = s[i + n - 1]
BY DEF Texts

LEMMA LenType ==
  ASSUME NEW s \in Texts
  PROVE  Len(s) \in Nat /\ DOMAIN s = 1 .. Len(s)
BY DEF Texts

(* Texts of the same length with the same symbols are the same.            *)
LEMMA SameText ==
  ASSUME NEW s \in Texts, NEW t \in Texts, Len(s) = Len(t),
         \A i \in 1 .. Len(s) : s[i] = t[i]
  PROVE  s = t
BY DEF Texts

LEMMA PartOfPart ==
  ASSUME NEW s \in Texts, NEW a \in Int, NEW b \in Int, 1 <= a, a <= b + 1, b <= Len(s),
         NEW i \in Int, NEW j \in Int, 1 <= i, i <= j + 1, j <= b - a + 1
  PROVE  SubSeq(SubSeq(s, a, b), i, j) = SubSeq(s, a + i - 1, a + j - 1)
<1> DEFINE p == SubSeq(s, a, b)
           q == SubSeq(p, i, j)
           r == SubSeq(s, a + i - 1, a + j - 1)
<1>0. Len(s) \in Nat
  BY LenType
<1>1. p \in Texts /\ Len(p) = b - a + 1 /\ \A n \in 1 .. b - a + 1 : p[n] = s[a + n - 1]
  BY Part
<1> HIDE DEF p
<1>2. q \in Texts /\ Len(q) = j - i + 1 /\ \A n \in 1 .. j - i + 1 : q[n] = p[i + n - 1]
  BY <1>1, Part
<1> DEFINE u == a + i - 1
           v == a + j - 1
<1>3. u \in Int /\ v \in Int /\ 1 <= u /\ u <= v + 1 /\ v <= Len(s) /\ v - u + 1 = j - i + 1
  BY <1>0
<1>4. SubSeq(s, u, v) \in Texts /\ Len(SubSeq(s, u, v)) = v - u + 1
      /\ \A n \in 1 .. v - u + 1 : SubSeq(s, u, v)[n] = s[u + n - 1]
  <2> HIDE DEF u, v
  <2> QED BY <1>3, Part
<1>5. r \in Texts /\ Len(r) = j - i + 1
  BY <1>3, <1>4
<1>6. ASSUME NEW n \in 1 .. j - i + 1 PROVE q[n] = r[n]
  <2>1. q[n] = p[i + n - 1] /\ i + n - 1 \in 1 .. b - a + 1
    BY <1>2
  <2>2. p[i + n - 1] = s[a + (i + n - 1) - 1]
    BY <1>1, <2>1
  <2>3. r[n] = s[u + n - 1]
    BY <1>3, <1>4
  <2>4. a + (i + n - 1) - 1 = u + n - 1
    OBVIOUS
  <2> QED BY <2>1, <2>2, <2>3, <2>4
<1> HIDE DEF q, r
<1>7. q = r
  BY <1>2, <1>5, <1>6, SameText
<1> QED BY <1>7 DEF p, q, r

LEMMA PartsJoin ==
  ASSUME NEW s \in Texts, NEW a \in Int, NEW k \in Int, NEW b \in Int,
         1 <= a, a <= k + 1, k <= b, b <= Len(s)
  PROVE  SubSeq(s, a, k) \o SubSeq(s, k + 1, b) = SubSeq(s, a, b)
<1> DEFINE p == SubSeq(s, a, k)
           q == SubSeq(s, k + 1, b)
           r == SubSeq(s, a, b)
           pq == p \o q
<1>0. Len(s) \in Nat
  BY LenType
<1>1. p \in Texts /\ Len(p) = k - a + 1 /\ \A n \in 1 .. k - a + 1 : p[n] = s[a + n - 1]
  BY <1>0, Part
<1>2. q \in Texts /\ Len(q) = b - k /\ \A n \in 1 .. b - k : q[n] = s[k + n]
  BY <1>0, Part
<1>3. r \in Texts /\ Len(r) = b - a + 1 /\ \A n \in 1 .. b - a + 1 : r[n] = s[a + n - 1]
  BY <1>0, Part
<1> HIDE DEF p, q, r
<1>4. /\ pq \in Texts /\ Len(pq) = Len(p) + Len(q)
      /\ \A i \in 1 .. Len(p) + Len(q) : pq[i] = IF i <= Len(p) THEN p[i] ELSE q[i - Len(p)]
  BY <1>1, <1>2, Concat, Zenon
<1> HIDE DEF pq
<1>5. ASSUME NEW i \in 1 .. b - a + 1 PROVE pq[i] = r[i]
  <2>1. CASE i <= k - a + 1
    BY <1>1, <1>2, <1>3, <1>4, <2>1
  <2>2. CASE i > k - a + 1
    <3> DEFINE n == i - (k - a + 1)
    <3>1. n \in 1 .. b - k /\ pq[i] = q[n] /\ k + n = a + i - 1
      BY <1>1, <1>2, <1>4, <2>2
    <3> HIDE DEF n
    <3>2. q[n] = s[k + n]
      BY <3>1, <1>2
    <3> QED BY <3>1, <3>2, <1>3
  <2> QED BY <2>1, <2>2
<1>6. pq = r
  <2>1. Len(pq) = b - a + 1
    BY <1>1, <1>2, <1>4
  <2> QED BY <2>1, <1>3, <1>4, <1>5, SameText
<1> QED BY <1>6 DEF pq, p, q, r

BlankLine == <<CR, LF, CR, LF>>

LEMMA BlankLineIs ==
  /\ CRLF \o CRLF = BlankLine /\ BlankLine \in Texts /\ Len(BlankLine) = 4
  /\ BlankLine[1] = CR /\ BlankLine[2] = LF /\ BlankLine[3] = CR /\ BlankLine[4] = LF
<1>1. CRLF \in Texts /\ Len(CRLF) = 2 /\ CRLF[1] = CR /\ CRLF[2] = LF
  BY MarksAreTexts DEF CRLF
<1>2. /\ BlankLine \in Texts /\ Len(BlankLine) = 4
      /\ BlankLine[1] = CR /\ BlankLine[2] = LF /\ BlankLine[3] = CR /\ BlankLine[4] = LF
  BY DEF BlankLine, Texts, Symbols, Marks
<1> DEFINE d == CRLF \o CRLF
<1>3. /\ d \in Texts /\ Len(d) = Len(CRLF) + Len(CRLF)
      /\ \A i \in 1 .. Len(CRLF) + Len(CRLF) :
           d[i] = IF i <= Len(CRLF) THEN CRLF[i] ELSE CRLF[i - Len(CRLF)]
  BY <1>1, Concat, Zenon
<1> HIDE DEF d
<1>4. d = BlankLine
  <2>1. \A i \in 1 .. 4 : d[i] = IF i <= 2 THEN CRLF[i] ELSE CRLF[i - 2]
    BY <1>1, <1>3
  <2>2. \A i \in 1 .. Len(d) : d[i] = BlankLine[i]
    BY <1>1, <1>2, <1>3, <2>1
  <2> QED BY <1>1, <1>2, <1>3, <2>2, SameText
<1> QED BY <1>2, <1>4 DEF d

(* The blank line is found once all of it was received.                    *)
LEMMA HeadersFound ==
  ASSUME NEW c, Comes(c), NEW k \in 0 .. Len(Sent(c))
  PROVE  find(SubSeq(Sent(c), 1, k), CRLF \o CRLF, 1) = IF k >= 5 THEN 2 ELSE npos
<1> DEFINE s == SubSeq(Sent(c), 1, k)
           hits == {i \in 1 .. Len(s) : s[i] = BlankLine[1] /\ OccursAt(s, i, BlankLine)}
<1>1. /\ Sent(c) \in Texts /\ Len(Sent(c)) \in Nat
      /\ Sent(c)[1] = "HEADERS" /\ Sent(c)[2] = CR /\ Sent(c)[3] = LF
      /\ Sent(c)[4] = CR /\ Sent(c)[5] = LF
  BY SentIs, LenType
<1>2. /\ s \in Texts /\ Len(s) = k /\ \A n \in 1 .. k : s[n] = Sent(c)[n]
  BY <1>1, Part
<1>3. find(s, BlankLine, 1) = IF 1 = npos \/ hits = {} THEN npos ELSE Least(hits)
  BY Zenon DEF find
<1>4. 1 \notin hits
  BY <1>1, <1>2, BlankLineIs DEF CR
<1> HIDE DEF s
<1>5. CASE k >= 5
  <2>1. 2 \in hits
    <3>1. /\ SubSeq(s, 2, 5) \in Texts /\ Len(SubSeq(s, 2, 5)) = 4
          /\ \A n \in 1 .. 4 : SubSeq(s, 2, 5)[n] = s[n + 1]
      BY <1>2, <1>5, Part
    <3> DEFINE p == SubSeq(s, 2, 5)
    <3> HIDE DEF p
    <3>a. p \in Texts /\ Len(p) = 4 /\ \A n \in 1 .. 4 : p[n] = s[n + 1]
      BY <3>1 DEF p
    <3>b. s[2] = CR /\ s[3] = LF /\ s[4] = CR /\ s[5] = LF
      BY <1>1, <1>2, <1>5
    <3>c. p[1] = CR /\ p[2] = LF /\ p[3] = CR /\ p[4] = LF
      BY <3>a, <3>b
    <3>d. \A n \in 1 .. 4 : p[n] = BlankLine[n]
      BY <3>c, BlankLineIs
    <3>2. p = BlankLine
      BY <3>a, <3>d, BlankLineIs, SameText, ZenonT(40)
    <3> QED BY <1>1, <1>2, <1>5, <3>2, BlankLineIs DEF OccursAt, p
  <2>2. hits \subseteq 1 .. Len(s) /\ Len(s) \in Nat
    BY <1>2
  <2> HIDE DEF hits
  <2>3. \A y \in hits : 2 <= y
    BY <1>4, <2>2
  <2>s. hits \subseteq Int
    BY <2>2
  <2>4. Least(hits) = 2
    BY <2>1, <2>s, <2>3, LeastIs, Zenon
  <2> QED BY <1>3, <1>5, <2>1, <2>4, BlankLineIs DEF npos, s
<1>6. CASE k < 5
  <2>1. hits = {}
    <3>1. \A i \in 2 .. Len(s) : ~OccursAt(s, i, BlankLine)
      BY <1>2, <1>6, BlankLineIs DEF OccursAt
    <3> QED BY <1>4, <3>1
  <2> HIDE DEF hits
  <2> QED BY <1>3, <1>6, <2>1, BlankLineIs DEF s
<1> QED BY <1>5, <1>6

-----------------------------------------------------------------------------
(* What was received is a beginning of what was sent, and what is still to *)
(* come its end, unless the client went away.                              *)

Rest(k) == stream = From(Sent(client), k + 1) \/ (gone /\ stream = <<>>)

InHeaders ==
  \E k \in 0 .. 4 : headerBuffer = SubSeq(Sent(client), 1, k) /\ Rest(k)

InBody ==
  /\ client.has_length
  /\ \E n \in 0 .. Len(JsonBody(client)) - 1 :
       /\ body = SubSeq(JsonBody(client), 1, n)
       /\ remaining = Len(JsonBody(client)) - n
       /\ Rest(5 + n)

Stages == {"start", "accept", "headers", "body", "read", "failed", "parsed", "encoded", "done"}

ReadInv ==
  /\ stage \in Stages
  /\ vocab \in DOMAIN Clients
  /\ stage \in {"start", "accept"} => headerBuffer = <<>>
  /\ stage \notin {"start", "accept"} => Comes(client)
  /\ stage = "headers" => InHeaders
  /\ stage = "body" => InBody
  /\ ReadWhole

LEMMA ReadInvInit == Init => ReadInv
BY DEF Init, ReadInv, ReadWhole, Stages

(* A recv in the headers.                                                  *)
LEMMA HeadersKeep ==
  ASSUME ReadInv, NEW n \in 1 .. BUF, RecvHeaders(n)
  PROVE  ReadInv'
<1> USE DEF npos
<1>1. PICK k \in 0 .. 4 : headerBuffer = SubSeq(Sent(client), 1, k) /\ Rest(k)
  BY Zenon DEF RecvHeaders, ReadInv, InHeaders
<1> DEFINE all == Sent(client)
           json == JsonBody(client)
           buffer == headerBuffer \o SubSeq(stream, 1, n)
           headerEnd == find(buffer, CRLF \o CRLF, 1)
           available == From(buffer, headerEnd + 4)
<1>2. /\ stage = "headers" /\ n <= Len(stream) /\ stream' = From(stream, n + 1)
      /\ vocab' = vocab /\ client' = client /\ gone' = gone /\ n \in Nat \ {0}
  BY TextAssumption DEF RecvHeaders, Recv, TextAssumption
<1>3. Comes(client) /\ vocab \in DOMAIN Clients
  BY <1>2 DEF ReadInv
<1>4. all \in Texts /\ json \in Texts /\ Len(json) \in Nat /\ Len(all) \in Nat
      /\ Len(all) >= 5 + Len(json) /\ \A i \in 1 .. Len(json) : all[5 + i] = json[i]
  BY <1>3, SentIs, JsonBodyType, LenType
<1> HIDE DEF all, json
<1>5. k + n <= Len(all) /\ stream = From(all, k + 1)
  <2>1. stream = From(all, k + 1)
    <3>1. Len(<<>>) = 0
      OBVIOUS
    <3> QED BY <1>1, <1>2, <3>1 DEF Rest, all
  <2>2. CASE k + 1 <= Len(all) + 1
    <3>1. Len(stream) = Len(all) - (k + 1) + 1
      BY <2>1, <2>2, <1>4, Part DEF From
    <3> QED BY <3>1, <2>1, <1>2, <1>4
  <2>3. CASE k + 1 > Len(all) + 1
    BY <1>4, <2>3
  <2> QED BY <2>2, <2>3
<1>6. buffer = SubSeq(all, 1, k + n) /\ stream' = From(all, k + n + 1)
  <2>1. SubSeq(stream, 1, n) = SubSeq(all, k + 1, k + n)
    <3>1. SubSeq(SubSeq(all, k + 1, Len(all)), 1, n) = SubSeq(all, (k + 1) + 1 - 1, (k + 1) + n - 1)
      BY <1>2, <1>4, <1>5, PartOfPart
    <3>2. (k + 1) + 1 - 1 = k + 1 /\ (k + 1) + n - 1 = k + n
      BY <1>2
    <3> QED BY <1>5, <3>1, <3>2, Zenon DEF From
  <2>2. SubSeq(all, 1, k) \o SubSeq(all, k + 1, k + n) = SubSeq(all, 1, k + n)
    BY <1>2, <1>4, <1>5, PartsJoin
  <2>3. buffer = SubSeq(all, 1, k + n)
    BY <1>1, <2>1, <2>2, Zenon DEF all
  <2>4. Len(stream) = Len(all) - k
    BY <1>4, <1>5, Part DEF From
  <2>5. SubSeq(SubSeq(all, k + 1, Len(all)), n + 1, Len(all) - k)
          = SubSeq(all, (k + 1) + (n + 1) - 1, (k + 1) + (Len(all) - k) - 1)
    BY <1>2, <1>4, <1>5, PartOfPart
  <2>6. (k + 1) + (n + 1) - 1 = k + n + 1 /\ (k + 1) + (Len(all) - k) - 1 = Len(all)
    BY <1>2, <1>4
  <2>7. stream' = SubSeq(all, k + n + 1, Len(all))
    BY <1>2, <1>5, <2>4, <2>5, <2>6, Zenon DEF From
  <2> QED BY <2>3, <2>7, Zenon DEF From
<1>7. headerEnd = IF k + n >= 5 THEN 2 ELSE npos
  <2>1. k + n \in 0 .. Len(Sent(client))
    BY <1>2, <1>4, <1>5 DEF all
  <2>2. find(SubSeq(Sent(client), 1, k + n), CRLF \o CRLF, 1) = IF k + n >= 5 THEN 2 ELSE npos
    BY <2>1, <1>3, HeadersFound
  <2> QED BY <2>2, <1>6, Zenon DEF all
<1>8. CASE k + n < 5
  <2>1. headerEnd = 0
    BY <1>7, <1>8, <1>2
  <2>2. /\ headerBuffer' = buffer /\ stage' = stage
    <3> HIDE DEF buffer
    <3> QED BY <2>1 DEF RecvHeaders, HeadersEnd, buffer
  <2>3. InHeaders'
    <3>1. k + n \in 0 .. 4
      BY <1>2, <1>8
    <3>2. headerBuffer' = SubSeq(Sent(client'), 1, k + n) /\ stream' = From(Sent(client'), k + n + 1)
      BY <1>2, <1>6, <2>2, Zenon DEF all
    <3> QED BY <3>1, <3>2 DEF InHeaders, Rest
  <2> QED BY <1>2, <1>3, <2>2, <2>3 DEF ReadInv, ReadWhole, Stages
<1>9. CASE k + n >= 5
  <2>1. headerEnd = 2
    BY <1>7, <1>9, <1>2
  <2>2. available = SubSeq(all, 6, k + n) /\ Len(available) = k + n - 5
    <3>1. Len(buffer) = k + n
      BY <1>2, <1>4, <1>5, <1>6, Part
    <3>2. SubSeq(SubSeq(all, 1, k + n), 6, k + n) = SubSeq(all, 1 + 6 - 1, 1 + (k + n) - 1)
      BY <1>2, <1>4, <1>5, <1>9, PartOfPart
    <3>3. 1 + 6 - 1 = 6 /\ 1 + (k + n) - 1 = k + n /\ 2 + 4 = 6
      BY <1>2
    <3>4. available = SubSeq(all, 6, k + n)
      BY <1>6, <2>1, <3>1, <3>2, <3>3, Zenon DEF From
    <3> HIDE DEF available
    <3> QED BY <3>4, <1>2, <1>4, <1>5, <1>9, Part
  <2>3. HeadersEnd(buffer, available) /\ stage' # "headers"
    <3>1. headerEnd = npos \/ HeadersEnd(buffer, available)
      <4>1. \/ headerEnd = npos /\ headerBuffer' = buffer /\ UNCHANGED <<body, remaining, stage, reply>>
            \/ HeadersEnd(buffer, available)
        BY Zenon DEF RecvHeaders
      <4> HIDE DEF headerEnd, buffer, available
      <4> QED BY <4>1
    <3>2. HeadersEnd(buffer, available)
      <4> HIDE DEF headerEnd, buffer, available
      <4>1. 2 # npos
        OBVIOUS
      <4> QED BY <3>1, <2>1, <4>1, Zenon
    <3> HIDE DEF buffer, available
    <3> QED BY <3>2 DEF HeadersEnd
  <2> HIDE DEF headerEnd
  <2>4. CASE Len(json) <= k + n - 5
    <3>1. SubSeq(available, 1, Len(json)) = json
      <4>1. SubSeq(SubSeq(all, 6, k + n), 1, Len(json)) = SubSeq(all, 6 + 1 - 1, 6 + Len(json) - 1)
        BY <1>2, <1>4, <1>5, <1>9, <2>4, PartOfPart
      <4> DEFINE p == SubSeq(all, 6, 5 + Len(json))
      <4>2. 6 + 1 - 1 = 6 /\ 6 + Len(json) - 1 = 5 + Len(json)
        BY <1>4
      <4>3. /\ p \in Texts /\ Len(p) = (5 + Len(json)) - 6 + 1
            /\ \A i \in 1 .. (5 + Len(json)) - 6 + 1 : p[i] = all[6 + i - 1]
        BY <1>4, Part
      <4> HIDE DEF p
      <4>4. \A i \in 1 .. Len(json) : p[i] = json[i]
        <5>1. ASSUME NEW i \in 1 .. Len(json) PROVE p[i] = json[i]
          <6>1. i \in 1 .. (5 + Len(json)) - 6 + 1 /\ 6 + i - 1 = 5 + i
            BY <1>4
          <6>2. p[i] = all[5 + i]
            BY <6>1, <4>3
          <6> QED BY <6>2, <1>4
        <5> QED BY <5>1
      <4>5. p = json
        BY <1>4, <4>3, <4>4, SameText
      <4> QED BY <2>2, <4>1, <4>2, <4>5, Zenon DEF p
    <3> HIDE DEF buffer, available
    <3>2. Len(available) < contentLength => FALSE
      BY <2>2, <2>4, <1>2, <1>4 DEF contentLength, json
    <3>3. CASE ~client.has_length /\ client.route = Process
      BY <3>2, <3>3, <2>3, <1>2, <1>3 DEF HeadersEnd, ReadInv, ReadWhole, Stages
    <3>4. CASE client.has_length
      <4>1. contentLength = Len(json)
        BY <3>4 DEF contentLength, json
      <4>2. body' = json /\ stage' = "read"
        BY <2>3, <3>1, <3>2, <3>4, <4>1 DEF HeadersEnd
      <4> QED BY <4>2, <1>2, <1>3 DEF ReadInv, ReadWhole, Stages, json
    <3>5. CASE ~client.has_length /\ client.route # Process
      <4>1. json = <<>> /\ contentLength = Len(json)
        BY <3>5, JsonBodyIs DEF contentLength, json
      <4>2. body' = json /\ stage' = "read"
        BY <2>3, <3>1, <3>2, <3>5, <4>1 DEF HeadersEnd
      <4> QED BY <4>2, <1>2, <1>3 DEF ReadInv, ReadWhole, Stages, json
    <3> QED BY <3>3, <3>4, <3>5
  <2>5. CASE Len(json) > k + n - 5
    <3> DEFINE m == k + n - 5
    <3>1. m \in 0 .. Len(json) - 1 /\ 5 + m = k + n
      BY <1>2, <1>4, <1>9, <2>5
    <3>2. available = SubSeq(json, 1, m)
      <4> DEFINE p == SubSeq(all, 6, k + n)
                 q == SubSeq(json, 1, m)
      <4>1. /\ p \in Texts /\ Len(p) = (k + n) - 6 + 1
            /\ \A i \in 1 .. (k + n) - 6 + 1 : p[i] = all[6 + i - 1]
        BY <1>2, <1>4, <1>5, <1>9, Part
      <4>2. /\ q \in Texts /\ Len(q) = m - 1 + 1
            /\ \A i \in 1 .. m - 1 + 1 : q[i] = json[1 + i - 1]
        <5> HIDE DEF m
        <5> QED BY <1>4, <3>1, Part
      <4> HIDE DEF p, q
      <4>3. Len(p) = m /\ Len(q) = m
        BY <1>2, <4>1, <4>2, SMTT(30)
      <4>4. ASSUME NEW i \in 1 .. m PROVE p[i] = q[i]
        <5>1. i \in 1 .. (k + n) - 6 + 1 /\ i \in 1 .. m - 1 + 1 /\ 6 + i - 1 = 5 + i /\ 1 + i - 1 = i
          BY <1>2, <3>1
        <5>2. p[i] = all[5 + i] /\ q[i] = json[i]
          BY <5>1, <4>1, <4>2
        <5>3. i \in 1 .. Len(json)
          BY <3>1
        <5> QED BY <5>2, <5>3, <1>4
      <4>5. p = q
        BY <4>1, <4>2, <4>3, <4>4, SameText
      <4> QED BY <2>2, <4>5, Zenon DEF p, q
    <3> HIDE DEF m, buffer, available
    <3>3. Len(available) = m
      BY <2>2 DEF m
    <3>4. CASE ~client.has_length
      <4>1. contentLength = 0 /\ client.route = Process
        <5>1. client.route # Process => Len(json) = 0
          BY JsonBodyIs DEF json
        <5> QED BY <5>1, <3>4, <3>1, <1>4 DEF contentLength
      <4>2. stage' = "failed"
        BY <4>1, <3>1, <3>3, <3>4, <2>3 DEF HeadersEnd
      <4> QED BY <4>1, <4>2, <3>4, <1>2, <1>3 DEF ReadInv, ReadWhole, Stages
    <3>5. CASE client.has_length
      <4>1. contentLength = Len(json)
        BY <3>5 DEF contentLength, json
      <4>2. body' = available /\ remaining' = Len(json) - m /\ stage' = "body"
        BY <1>4, <2>3, <3>1, <3>3, <3>5, <4>1 DEF HeadersEnd
      <4>3. stream' = From(Sent(client'), (5 + m) + 1)
        BY <3>1, <1>6, <1>2 DEF all
      <4>4. InBody'
        <5>1. m \in 0 .. Len(JsonBody(client')) - 1 /\ body' = SubSeq(JsonBody(client'), 1, m)
              /\ remaining' = Len(JsonBody(client')) - m
          BY <3>1, <3>2, <4>2, <1>2 DEF json
        <5>2. client'.has_length
          BY <3>5, <1>2
        <5>3. Rest(5 + m)'
          BY <4>3 DEF Rest
        <5> QED BY <5>1, <5>2, <5>3, Zenon DEF InBody
      <4> QED BY <4>2, <4>4, <1>2, <1>3 DEF ReadInv, ReadWhole, Stages
    <3> QED BY <3>4, <3>5
  <2> QED BY <2>4, <2>5, <1>2, <1>4
<1> QED BY <1>8, <1>9, <1>2

(* A recv in the body.                                                     *)
LEMMA BodyKeeps ==
  ASSUME ReadInv, NEW n \in 1 .. BUF, RecvBody(n)
  PROVE  ReadInv'
<1> DEFINE all == Sent(client)
           json == JsonBody(client)
<1>1. /\ stage = "body" /\ n <= Len(stream) /\ n <= remaining /\ stream' = From(stream, n + 1)
      /\ body' = body \o SubSeq(stream, 1, n) /\ remaining' = remaining - n
      /\ stage' = IF remaining' > 0 THEN "body" ELSE "read"
      /\ vocab' = vocab /\ client' = client /\ gone' = gone /\ n \in Nat \ {0}
  BY TextAssumption DEF RecvBody, Recv, TextAssumption
<1>2. /\ Comes(client) /\ vocab \in DOMAIN Clients /\ client.has_length
  BY <1>1 DEF ReadInv, InBody
<1>3. PICK b \in 0 .. Len(json) - 1 :
        body = SubSeq(json, 1, b) /\ remaining = Len(json) - b /\ Rest(5 + b)
  BY <1>1 DEF ReadInv, InBody
<1>4. /\ all \in Texts /\ json \in Texts /\ Len(json) \in Nat /\ Len(all) \in Nat
      /\ Len(all) >= 5 + Len(json) /\ \A i \in 1 .. Len(json) : all[5 + i] = json[i]
  BY <1>2, SentIs, JsonBodyType, LenType
<1> HIDE DEF all, json
<1>5. stream = From(all, 5 + b + 1)
  <2>1. Len(<<>>) = 0
    OBVIOUS
  <2> QED BY <1>1, <1>3, <2>1 DEF Rest, all
<1>6. stream' = From(all, 5 + (b + n) + 1)
  <2>1. Len(stream) = Len(all) - (5 + b)
    BY <1>3, <1>4, <1>5, Part DEF From
  <2> DEFINE u == 5 + b + 1
             v == Len(all) - (5 + b)
  <2>2. SubSeq(SubSeq(all, u, Len(all)), n + 1, v) = SubSeq(all, u + (n + 1) - 1, u + v - 1)
    <3>1. /\ u \in Int /\ v \in Int /\ 1 <= u /\ u <= Len(all) + 1 /\ n + 1 <= v + 1
          /\ v <= Len(all) - u + 1 /\ n + 1 \in Int /\ 1 <= n + 1 /\ Len(all) \in Int
          /\ Len(all) <= Len(all)
      BY <1>1, <1>3, <1>4, <2>1
    <3> HIDE DEF u, v
    <3> QED BY <3>1, <1>4, PartOfPart
  <2>3. u + (n + 1) - 1 = 5 + (b + n) + 1 /\ u + v - 1 = Len(all)
    BY <1>1, <1>3, <1>4
  <2>4. stream' = SubSeq(SubSeq(all, u, Len(all)), n + 1, v)
    BY <1>1, <1>5, <2>1, Zenon DEF From
  <2> HIDE DEF u, v
  <2> QED BY <2>2, <2>3, <2>4, Zenon DEF From
<1>7. b + n <= Len(json)
  BY <1>1, <1>3, <1>4
<1>8. SubSeq(stream, 1, n) = SubSeq(json, b + 1, b + n)
  <2> DEFINE p == SubSeq(stream, 1, n)
             q == SubSeq(json, b + 1, b + n)
  <2>1. /\ stream \in Texts /\ Len(stream) = Len(all) - (5 + b)
        /\ \A i \in 1 .. Len(all) - (5 + b) : stream[i] = all[5 + b + i]
    <3> DEFINE u == 5 + b + 1
    <3>1. u \in Int /\ 1 <= u /\ u <= Len(all) + 1 /\ Len(all) - u + 1 = Len(all) - (5 + b)
      BY <1>3, <1>4
    <3>2. /\ SubSeq(all, u, Len(all)) \in Texts /\ Len(SubSeq(all, u, Len(all))) = Len(all) - u + 1
          /\ \A i \in 1 .. Len(all) - u + 1 : SubSeq(all, u, Len(all))[i] = all[u + i - 1]
      <4> HIDE DEF u
      <4>1. Len(all) \in Int /\ u <= Len(all) + 1 /\ Len(all) <= Len(all)
        BY <3>1, <1>4
      <4> QED BY <3>1, <4>1, <1>4, Part, Zenon
    <3>3. \A i \in 1 .. Len(all) - u + 1 : u + i - 1 = 5 + b + i
      BY <1>3
    <3> QED BY <1>5, <3>1, <3>2, <3>3 DEF From
  <2>2. p \in Texts /\ Len(p) = n - 1 + 1 /\ \A i \in 1 .. n - 1 + 1 : p[i] = stream[1 + i - 1]
    BY <1>1, <2>1, Part
  <2>3. /\ q \in Texts /\ Len(q) = (b + n) - (b + 1) + 1
        /\ \A i \in 1 .. (b + n) - (b + 1) + 1 : q[i] = json[(b + 1) + i - 1]
    <3>1. b + 1 \in Int /\ b + n \in Int /\ 1 <= b + 1 /\ b + 1 <= (b + n) + 1 /\ b + n <= Len(json)
      BY <1>1, <1>3, <1>7
    <3> QED BY <3>1, <1>4, Part
  <2> HIDE DEF p, q
  <2>4. ASSUME NEW i \in 1 .. n PROVE p[i] = q[i]
    <3>1. /\ i \in 1 .. n - 1 + 1 /\ 1 + i - 1 = i /\ i \in 1 .. (b + n) - (b + 1) + 1
          /\ (b + 1) + i - 1 = b + i /\ i \in 1 .. Len(all) - (5 + b) /\ b + i \in 1 .. Len(json)
          /\ 5 + b + i = 5 + (b + i)
      BY <1>1, <1>3, <1>4, <1>7
    <3>2. p[i] = stream[i] /\ q[i] = json[b + i] /\ stream[i] = all[5 + b + i]
      BY <3>1, <2>1, <2>2, <2>3
    <3>3. all[5 + (b + i)] = json[b + i]
      BY <3>1, <1>4
    <3> QED BY <3>1, <3>2, <3>3
  <2>5. Len(p) = n /\ Len(q) = n
    BY <1>1, <1>3, <2>2, <2>3
  <2>6. p = q
    BY <2>2, <2>3, <2>4, <2>5, SameText
  <2> QED BY <2>6 DEF p, q
<1>9. body' = SubSeq(json, 1, b + n)
  <2>1. SubSeq(json, 1, b) \o SubSeq(json, b + 1, b + n) = SubSeq(json, 1, b + n)
    <3>1. b \in Int /\ b + n \in Int /\ 1 \in Int /\ 1 <= 1 /\ 1 <= b + 1 /\ b <= b + n
      BY <1>1, <1>3, <1>4
    <3> QED BY <3>1, <1>4, <1>7, PartsJoin, Zenon
  <2> QED BY <1>1, <1>3, <1>8, <2>1, Zenon
<1>10. remaining' = Len(json) - (b + n)
  BY <1>1, <1>3, <1>4
<1>11. CASE b + n < Len(json)
  <2> DEFINE m == b + n
  <2>1. m \in 0 .. Len(json) - 1 /\ stage' = "body" /\ remaining' = Len(json) - m
    BY <1>1, <1>3, <1>4, <1>10, <1>11
  <2>2. body' = SubSeq(json, 1, m) /\ stream' = From(all, 5 + m + 1)
    BY <1>6, <1>9
  <2> HIDE DEF m
  <2>3. InBody'
    <3>1. Rest(5 + m)'
      BY <2>2, <1>1, Zenon DEF Rest, all
    <3>2. /\ m \in 0 .. Len(JsonBody(client')) - 1 /\ body' = SubSeq(JsonBody(client'), 1, m)
          /\ remaining' = Len(JsonBody(client')) - m /\ client'.has_length
      BY <2>1, <2>2, <1>1, <1>2 DEF json
    <3> QED BY <3>1, <3>2, Zenon DEF InBody
  <2> QED BY <2>1, <2>3, <1>1, <1>2 DEF ReadInv, ReadWhole, Stages
<1>12. CASE b + n = Len(json)
  <2>1. stage' = "read"
    BY <1>1, <1>10, <1>12, <1>4
  <2>2. SubSeq(json, 1, Len(json)) = json
    <3> DEFINE p == SubSeq(json, 1, Len(json))
    <3>1. p \in Texts /\ Len(p) = Len(json) - 1 + 1 /\ \A i \in 1 .. Len(json) - 1 + 1 : p[i] = json[1 + i - 1]
      BY <1>4, Part
    <3> HIDE DEF p
    <3>2. Len(p) = Len(json) /\ \A i \in 1 .. Len(p) : p[i] = json[i]
      BY <3>1, <1>4
    <3>3. p = json
      BY <3>1, <3>2, <1>4, SameText
    <3> QED BY <3>3 DEF p
  <2>3. body' = JsonBody(client')
    BY <1>9, <1>12, <2>2, <1>1 DEF json
  <2> QED BY <2>1, <2>3, <1>1, <1>2 DEF ReadInv, ReadWhole, Stages
<1> QED BY <1>7, <1>11, <1>12, <1>3, <1>4, <1>1

LEMMA ReadInvPreserved == ReadInv /\ [Next]_vars => ReadInv'
<1> SUFFICES ASSUME ReadInv, [Next]_vars PROVE ReadInv'
  OBVIOUS
<1>1. CASE Load
  BY <1>1 DEF Load, ReadInv, ReadWhole, Stages, reading
<1>2. CASE Connect
  <2>1. PICK c \in Clients[vocab] : client' = c /\ stream' = Sent(c)
    BY <1>2 DEF Connect
  <2>2. /\ stage = "accept" /\ stage' = "headers" /\ vocab' = vocab /\ headerBuffer' = headerBuffer
        /\ vocab \in DOMAIN Clients /\ headerBuffer = <<>>
    BY <1>2 DEF Connect, ReadInv
  <2>3. Comes(client')
    BY <2>1, <2>2, ClientsCome
  <2>4. InHeaders'
    <3> DEFINE all == Sent(client')
    <3>1. all \in Texts /\ Len(all) \in Nat
      BY <2>3, SentIs, LenType
    <3> HIDE DEF all
    <3>2. headerBuffer' = SubSeq(all, 1, 0)
      <4>1. SubSeq(all, 1, 0) \in Texts /\ Len(SubSeq(all, 1, 0)) = 0
        BY <3>1, Part
      <4>2. SubSeq(all, 1, 0) = <<>>
        BY <4>1 DEF Texts
      <4> QED BY <4>2, <2>2
    <3>3. stream' = From(all, 0 + 1)
      <4> DEFINE p == SubSeq(all, 1, Len(all))
      <4>1. p \in Texts /\ Len(p) = Len(all) - 1 + 1 /\ \A i \in 1 .. Len(all) - 1 + 1 : p[i] = all[1 + i - 1]
        BY <3>1, Part
      <4> HIDE DEF p
      <4>2. Len(p) = Len(all) /\ \A i \in 1 .. Len(p) : p[i] = all[i]
        BY <4>1, <3>1
      <4>3. p = all
        BY <3>1, <4>1, <4>2, SameText
      <4>4. 0 + 1 = 1
        OBVIOUS
      <4> QED BY <4>3, <4>4, <2>1 DEF p, From, all
    <3>4. 0 \in 0 .. 4
      OBVIOUS
    <3> QED BY <3>2, <3>3, <3>4, Zenon DEF InHeaders, Rest, all
  <2> QED BY <2>2, <2>3, <2>4 DEF ReadInv, ReadWhole, Stages
<1>3. CASE GoAway
  <2>1. InHeaders => InHeaders'
    BY <1>3 DEF GoAway, InHeaders, Rest
  <2>2. InBody => InBody'
    BY <1>3 DEF GoAway, InBody, Rest
  <2> QED BY <1>3, <2>1, <2>2 DEF GoAway, ReadInv, ReadWhole, Stages
<1>4. CASE RecvFails
  BY <1>4 DEF RecvFails, ReadInv, ReadWhole, Stages, reading
<1>5. ASSUME NEW n \in 1 .. BUF, RecvHeaders(n) PROVE ReadInv'
  BY <1>5, HeadersKeep
<1>6. ASSUME NEW n \in 1 .. BUF, RecvBody(n) PROVE ReadInv'
  BY <1>6, BodyKeeps
<1>7. CASE Handle
  BY <1>7 DEF Handle, ReadInv, ReadWhole, Stages, reading
<1>8. CASE EncodePrompt
  BY <1>8 DEF EncodePrompt, ReadInv, ReadWhole, Stages, reading
<1>9. CASE Reply
  BY <1>9 DEF Reply, ReadInv, ReadWhole, Stages, reading
<1>10. CASE UNCHANGED vars
  BY <1>10 DEF vars, ReadInv, ReadWhole, Stages, InHeaders, InBody, Rest
<1> QED BY <1>1, <1>2, <1>3, <1>4, <1>5, <1>6, <1>7, <1>8, <1>9, <1>10 DEF Next, ReadStep

LEMMA ReadInvariant == Spec => []ReadInv
<1>1. ReadInv /\ [Next]_vars => ReadInv'
  BY ReadInvPreserved
<1> QED BY <1>1, ReadInvInit, PTL DEF Spec

(* However recv cuts what a client sends, the body read is the body sent,  *)
(* and reading fails only if the client left or gave no length             *)
(* (readAndParseHttpRequest, with a buffer of any size).                   *)
THEOREM BodyReadWhole == Spec => []ReadWhole
<1>1. ReadInv => ReadWhole
  BY DEF ReadInv
<1> QED BY <1>1, ReadInvariant, PTL

-----------------------------------------------------------------------------
(* Finding.                                                                *)

(* sub is at i.                                                            *)
Here(s, i, sub) ==
  \A k \in 1 .. Len(sub) : i + k - 1 \in 1 .. Len(s) /\ s[i + k - 1] = sub[k]

LEMMA OccursIsHere ==
  ASSUME NEW s \in Texts, NEW i \in Nat \ {0}, NEW sub \in Texts, Len(sub) > 0
  PROVE  OccursAt(s, i, sub) <=> Here(s, i, sub)
<1> DEFINE n == Len(sub)
           p == SubSeq(s, i, i + n - 1)
<1>1. n \in Nat \ {0} /\ Len(s) \in Nat
  BY LenType
<1>2. ASSUME i + n - 1 <= Len(s)
      PROVE  p = sub <=> \A k \in 1 .. n : s[i + k - 1] = sub[k]
  <2> DEFINE j == i + n - 1
  <2>1. j \in Int /\ i <= j + 1 /\ j <= Len(s) /\ 1 <= i /\ j - i + 1 = n
    BY <1>1, <1>2
  <2>2. /\ SubSeq(s, i, j) \in Texts /\ Len(SubSeq(s, i, j)) = j - i + 1
        /\ \A k \in 1 .. j - i + 1 : SubSeq(s, i, j)[k] = s[i + k - 1]
    <3> HIDE DEF j, n
    <3> QED BY <2>1, Part
  <2>3. p \in Texts /\ Len(p) = n /\ \A k \in 1 .. n : p[k] = s[i + k - 1]
    BY <2>1, <2>2
  <2> HIDE DEF p, n, j
  <2>4. ASSUME p = sub, NEW k \in 1 .. n PROVE s[i + k - 1] = sub[k]
    BY <2>3, <2>4
  <2>5. ASSUME \A k \in 1 .. n : s[i + k - 1] = sub[k] PROVE p = sub
    <3>1. Len(p) = Len(sub) /\ \A k \in 1 .. Len(p) : p[k] = sub[k]
      BY <2>3, <2>5 DEF n
    <3> QED BY <2>3, <3>1, SameText
  <2> QED BY <2>4, <2>5
<1> HIDE DEF p
<1>3. OccursAt(s, i, sub) <=> i + n - 1 <= Len(s) /\ p = sub
  BY DEF OccursAt, p
<1> HIDE DEF n
<1>4. Here(s, i, sub) <=> i + n - 1 <= Len(s) /\ \A k \in 1 .. n : s[i + k - 1] = sub[k]
  <2>1. Here(s, i, sub) <=> \A k \in 1 .. n : i + k - 1 \in 1 .. Len(s) /\ s[i + k - 1] = sub[k]
    BY DEF Here, n
  <2>2. (\A k \in 1 .. n : i + k - 1 \in 1 .. Len(s)) <=> i + n - 1 <= Len(s)
    BY <1>1
  <2> QED BY <2>1, <2>2
<1> QED BY <1>2, <1>3, <1>4

LEMMA Found ==
  ASSUME NEW s \in Texts, NEW sub \in Texts, Len(sub) > 0,
         NEW from \in Nat \ {0}, NEW at \in Nat, from <= at, Here(s, at, sub),
         \A i \in from .. at - 1 : ~Here(s, i, sub)
  PROVE  find(s, sub, from) = at
<1> DEFINE hits == {i \in from .. Len(s) : s[i] = sub[1] /\ OccursAt(s, i, sub)}
<1>1. find(s, sub, from) = IF from = npos \/ hits = {} THEN npos ELSE Least(hits)
  BY Zenon DEF find
<1>2. Len(s) \in Nat /\ Len(sub) \in Nat \ {0}
  BY LenType
<1>3. at \in 1 .. Len(s) /\ s[at] = sub[1]
  <2>1. 1 \in 1 .. Len(sub) /\ at + 1 - 1 = at
    BY <1>2
  <2> QED BY <2>1, Zenon DEF Here
<1>4. at \in hits
  BY <1>2, <1>3, OccursIsHere
<1>5. \A i \in hits : at <= i
  <2>1. ASSUME NEW i \in hits, i < at PROVE FALSE
    <3>1. i \in from .. at - 1 /\ i \in Nat \ {0} /\ OccursAt(s, i, sub)
      BY <2>1, <1>2
    <3>2. Here(s, i, sub)
      BY <3>1, OccursIsHere
    <3> QED BY <3>1, <3>2
  <2> QED BY <2>1, <1>2
<1>6. hits \subseteq Int
  BY <1>2
<1> HIDE DEF hits
<1>7. Least(hits) = at
  BY <1>4, <1>5, <1>6, LeastIs, Zenon
<1> QED BY <1>1, <1>4, <1>7 DEF npos

LEMMA NotFound ==
  ASSUME NEW s \in Texts, NEW sub \in Texts, Len(sub) > 0, NEW from \in Nat,
         \A i \in from .. Len(s) : from # 0 => ~Here(s, i, sub)
  PROVE  find(s, sub, from) = npos
<1> DEFINE hits == {i \in from .. Len(s) : s[i] = sub[1] /\ OccursAt(s, i, sub)}
<1>1. find(s, sub, from) = IF from = npos \/ hits = {} THEN npos ELSE Least(hits)
  BY Zenon DEF find
<1>2. CASE from = 0
  BY <1>1, <1>2 DEF npos
<1>3. CASE from # 0
  <2>1. ASSUME NEW i \in hits PROVE FALSE
    <3>1. i \in Nat \ {0} /\ i \in from .. Len(s) /\ OccursAt(s, i, sub)
      BY <1>3, LenType
    <3>2. Here(s, i, sub)
      BY <3>1, OccursIsHere
    <3> QED BY <3>1, <3>2, <1>3
  <2> HIDE DEF hits
  <2> QED BY <2>1, <1>1
<1> QED BY <1>2, <1>3

LEMMA FindType ==
  ASSUME NEW s \in Texts, NEW sub \in Texts, Len(sub) > 0, NEW from \in Nat
  PROVE  /\ find(s, sub, from) \in Nat
         /\ find(s, sub, from) # npos =>
              /\ from # 0 /\ find(s, sub, from) \in from .. Len(s)
              /\ Here(s, find(s, sub, from), sub)
<1>1. CASE \A i \in from .. Len(s) : from # 0 => ~Here(s, i, sub)
  <2>1. find(s, sub, from) = 0
    BY <1>1, NotFound DEF npos
  <2> QED BY <2>1 DEF npos
<1>2. ASSUME NEW j \in from .. Len(s), from # 0, Here(s, j, sub)
      PROVE  /\ find(s, sub, from) \in Nat
             /\ from # 0 /\ find(s, sub, from) \in from .. Len(s)
             /\ Here(s, find(s, sub, from), sub)
  <2> DEFINE T == {i \in from .. Len(s) : Here(s, i, sub)}
  <2>1. T \subseteq Nat /\ T # {} /\ Len(s) \in Nat
    BY <1>2, LenType
  <2>2. PICK at \in T : \A i \in T : at <= i
    <3> HIDE DEF T
    <3> QED BY <2>1, LeastNumber
  <2>3. \A i \in from .. at - 1 : ~Here(s, i, sub)
    BY <2>1, <2>2
  <2>4. at \in Nat /\ from \in Nat \ {0} /\ from <= at /\ Here(s, at, sub) /\ at \in from .. Len(s)
    BY <2>1, <2>2, <1>2
  <2>5. find(s, sub, from) = at
    BY <2>3, <2>4, Found
  <2> QED BY <2>4, <2>5
<1> QED BY <1>1, <1>2

(* One symbol is looked for.                                               *)
LEMMA HereOne ==
  ASSUME NEW s \in Texts, NEW x, NEW i \in Nat
  PROVE  Here(s, i, <<x>>) <=> i \in 1 .. Len(s) /\ s[i] = x
<1>1. Len(<<x>>) = 1 /\ <<x>>[1] = x /\ i + 1 - 1 = i
  OBVIOUS
<1>2. Here(s, i, <<x>>) <=> \A k \in 1 .. 1 : i + k - 1 \in 1 .. Len(s) /\ s[i + k - 1] = <<x>>[k]
  BY <1>1, Zenon DEF Here
<1> QED BY <1>1, <1>2

LEMMA HereTwo ==
  ASSUME NEW s \in Texts, NEW x, NEW y, NEW i \in Nat
  PROVE  Here(s, i, <<x, y>>) <=>
           i \in 1 .. Len(s) /\ s[i] = x /\ i + 1 \in 1 .. Len(s) /\ s[i + 1] = y
<1> DEFINE t == <<x, y>>
<1>1. Len(t) = 2 /\ t[1] = x /\ t[2] = y /\ i + 1 - 1 = i /\ i + 2 - 1 = i + 1
  OBVIOUS
<1> HIDE DEF t
<1>2. Here(s, i, t) <=> \A k \in 1 .. 2 : i + k - 1 \in 1 .. Len(s) /\ s[i + k - 1] = t[k]
  BY <1>1, Zenon DEF Here
<1>3. \A k \in 1 .. 2 : k = 1 \/ k = 2
  OBVIOUS
<1>4. Here(s, i, t) <=>
        i \in 1 .. Len(s) /\ s[i] = x /\ i + 1 \in 1 .. Len(s) /\ s[i + 1] = y
  BY <1>1, <1>2, <1>3
<1> QED BY <1>4 DEF t

(* A run of symbols of S.                                                  *)
LEMMA RunEndIs ==
  ASSUME NEW s \in Texts, NEW S, NEW i \in Nat \ {0}, NEW j \in Nat, i <= j + 1, j <= Len(s),
         \A k \in i .. j : s[k] \in S, j = Len(s) \/ s[j + 1] \notin S
  PROVE  RunEnd(s, i, S) = j
<1> DEFINE stops == {k \in i .. Len(s) : s[k] \notin S}
<1>1. RunEnd(s, i, S) = IF stops = {} THEN Len(s) ELSE Least(stops) - 1
  BY Zenon DEF RunEnd
<1>2. Len(s) \in Nat
  BY LenType
<1>3. CASE j = Len(s)
  <2>1. stops = {}
    BY <1>2, <1>3
  <2> QED BY <2>1, <1>1, <1>3
<1>4. CASE j # Len(s)
  <2>1. j + 1 \in stops /\ stops \subseteq Int /\ \A k \in stops : j + 1 <= k
    BY <1>2, <1>4
  <2> HIDE DEF stops
  <2>2. Least(stops) = j + 1
    BY <2>1, LeastIs
  <2> QED BY <2>1, <2>2, <1>1
<1> QED BY <1>3, <1>4

LEMMA RunEndType ==
  ASSUME NEW s \in Texts, NEW S, NEW i \in 1 .. Len(s) + 1
  PROVE  /\ RunEnd(s, i, S) \in i - 1 .. Len(s)
         /\ \A k \in i .. RunEnd(s, i, S) : s[k] \in S
         /\ RunEnd(s, i, S) = Len(s) \/ s[RunEnd(s, i, S) + 1] \notin S
<1> DEFINE stops == {k \in i .. Len(s) : s[k] \notin S}
<1>1. Len(s) \in Nat
  BY LenType
<1>2. CASE stops = {}
  <2>1. RunEnd(s, i, S) = Len(s)
    BY <1>2, Zenon DEF RunEnd
  <2> QED BY <2>1, <1>1, <1>2
<1>3. CASE stops # {}
  <2>1. stops \subseteq Nat
    BY <1>1
  <2>2. PICK e \in stops : \A k \in stops : e <= k
    <3> HIDE DEF stops
    <3> QED BY <2>1, <1>3, LeastNumber
  <2>3. e - 1 \in Nat /\ i \in Nat \ {0} /\ i <= (e - 1) + 1 /\ e - 1 <= Len(s) /\ e \in i .. Len(s)
        /\ s[(e - 1) + 1] \notin S
    BY <2>2, <1>1
  <2>4. \A k \in i .. e - 1 : s[k] \in S
    BY <2>2, <1>1
  <2>5. RunEnd(s, i, S) = e - 1
    BY <2>3, <2>4, RunEndIs
  <2> HIDE DEF stops
  <2> QED BY <2>3, <2>4, <2>5
<1> QED BY <1>2, <1>3

-----------------------------------------------------------------------------
(* Numbers.                                                                *)

Digit(d) == SelectInSeq(Digits, LAMBDA x : x = d) - 1
ValueStep(s, base, f, k) == IF k = 0 THEN 0 ELSE f[k - 1] * base + Digit(s[k])

LEMMA DigitsAre == Len(Digits) = 16 /\ \A i, j \in 1 .. 16 : Digits[i] = Digits[j] => i = j
BY DEF Digits

LEMMA DigitIs ==
  ASSUME NEW d
  PROVE  /\ Digit(d) \in Int
         /\ \A i \in 1 .. 16 : d = Digits[i] => Digit(d) = i - 1
<1> DEFINE I == {i \in 1 .. Len(Digits) : Digits[i] = d}
<1>1. SelectInSeq(Digits, LAMBDA x : x = d) = IF I # {} THEN Min(I) ELSE 0
  BY Zenon DEF SelectInSeq
<1>2. I \subseteq Nat /\ I \subseteq 1 .. 16
  BY DigitsAre
<1>3. \A i \in 1 .. 16 : d = Digits[i] => I = {i}
  BY DigitsAre
<1> DEFINE sel == SelectInSeq(Digits, LAMBDA x : x = d)
<1>4. Digit(d) = sel - 1
  BY Zenon DEF Digit
<1>5. I # {} => Min(I) \in I
  <2> HIDE DEF I
  <2> QED BY <1>2, MinOf
<1>6. sel = IF I # {} THEN Min(I) ELSE 0
  BY <1>1, Zenon
<1> HIDE DEF sel
<1>7. Digit(d) \in Int
  <2>1. sel \in Int
    <3> HIDE DEF I
    <3>1. CASE I = {}
      BY <3>1, <1>6
    <3>2. CASE I # {}
      <4>1. sel \in I
        BY <3>2, <1>5, <1>6
      <4> QED BY <4>1, <1>2
    <3> QED BY <3>1, <3>2
  <2> QED BY <2>1, <1>4
<1>8. ASSUME NEW i \in 1 .. 16, d = Digits[i] PROVE Digit(d) = i - 1
  <2>1. I = {i}
    BY <1>3, <1>8
  <2> HIDE DEF I
  <2>2. sel = i
    BY <2>1, <1>5, <1>6
  <2> QED BY <2>2, <1>4
<1> QED BY <1>7, <1>8

LEMMA ValuesExist ==
  ASSUME NEW s \in Texts, NEW base \in Nat
  PROVE  \E g \in [0 .. Len(s) -> Int] :
           /\ \A k \in 0 .. Len(s) : g[k] = ValueStep(s, base, g, k)
           /\ Value(s, base) = g[Len(s)]
<1> DEFINE n == Len(s)
           prev == [k \in 1 .. n |-> k - 1]
           step == [k \in 1 .. n |-> [v \in Int |-> v * base + Digit(s[k])]]
<1>0. n \in Nat
  BY LenType
<1> HIDE DEF n
<1>1. prev \in Backs(n)
  <2>1. prev \in [1 .. n -> Nat]
    BY <1>0
  <2> QED BY <1>0, <2>1 DEF Backs
<1>2. step \in StepsOn(Int, n)
  <2>1. ASSUME NEW k \in 1 .. n, NEW v \in Int PROVE v * base + Digit(s[k]) \in Int
    BY DigitIs
  <2> QED BY <2>1 DEF StepsOn
<1>3. PICK g \in Runs(Int, n, 0, prev, step) : TRUE
  <2> HIDE DEF prev, step
  <2>1. 0 \in Int
    OBVIOUS
  <2> QED BY <1>0, <1>1, <1>2, <2>1, Descends, Zenon
<1>4. /\ g \in [0 .. n -> Int] /\ g[0] = 0
      /\ \A k \in 1 .. n : g[k] = step[k][g[prev[k]]]
  <2> HIDE DEF prev, step
  <2> QED BY <1>3 DEF Runs
<1>5. ASSUME NEW k \in 0 .. n PROVE g[k] = ValueStep(s, base, g, k)
  <2>1. CASE k = 0
    BY <1>4, <2>1 DEF ValueStep
  <2>2. CASE k # 0
    <3>1. k \in 1 .. n /\ prev[k] = k - 1 /\ g[k - 1] \in Int
      BY <1>0, <1>4, <2>2
    <3>2. g[k] = step[k][g[k - 1]]
      BY <3>1, <1>4
    <3>3. g[k] = g[k - 1] * base + Digit(s[k])
      BY <3>1, <3>2
    <3> QED BY <3>3, <2>2, Zenon DEF ValueStep
  <2> QED BY <2>1, <2>2
<1> DEFINE Rec(f) == f = [k \in 0 .. n |-> ValueStep(s, base, f, k)]
           h == CHOOSE f : Rec(f)
<1>6. Rec(g)
  BY <1>4, <1>5
<1>7. Rec(h)
  <2> HIDE DEF Rec
  <2> QED BY <1>6
<1>8. Value(s, base) = h[n]
  BY Zenon DEF Value, Digit, ValueStep, n
<1> HIDE DEF h
<1>9. \A k \in 0 .. n : h[k] = ValueStep(s, base, h, k)
  <2> DEFINE e(k) == ValueStep(s, base, h, k)
  <2>1. h = [k \in 0 .. n |-> e(k)]
    BY <1>7
  <2> HIDE DEF e, Rec
  <2>2. \A k \in 0 .. n : h[k] = e(k)
    BY <2>1
  <2> QED BY <2>2 DEF e
<1> DEFINE S == {k \in 0 .. n : h[k] = g[k]}
<1>10. 0 \in S
  BY <1>0, <1>4, <1>9 DEF ValueStep
<1>11. ASSUME NEW k \in 0 .. n - 1, k \in S PROVE k + 1 \in S
  <2>1. k + 1 \in 1 .. n /\ k + 1 \in 0 .. n /\ (k + 1) - 1 = k /\ k + 1 # 0 /\ h[k] = g[k]
    BY <1>0, <1>11
  <2>2. h[k + 1] = ValueStep(s, base, h, k + 1) /\ g[k + 1] = ValueStep(s, base, g, k + 1)
    BY <2>1, <1>5, <1>9
  <2>3. h[k + 1] = h[(k + 1) - 1] * base + Digit(s[k + 1]) /\ g[k + 1] = g[(k + 1) - 1] * base + Digit(s[k + 1])
    BY <2>1, <2>2, Zenon DEF ValueStep
  <2>4. h[k + 1] = g[k + 1]
    BY <2>1, <2>3, Zenon
  <2> QED BY <2>1, <2>4
<1>12. n \in S
  <2>1. 0 .. n \subseteq S
    <3> HIDE DEF S
    <3> QED BY <1>0, <1>10, <1>11, UpTo
  <2> HIDE DEF S
  <2> QED BY <1>0, <2>1
<1>13. Value(s, base) = g[n]
  BY <1>8, <1>12
<1> QED BY <1>4, <1>5, <1>13 DEF n

LEMMA ValueType ==
  ASSUME NEW s \in Texts, NEW base \in Nat
  PROVE  Value(s, base) \in Int
BY ValuesExist, LenType

(* The value of one digit, and of a digit added at the end.                *)
LEMMA ValueOfDigit ==
  ASSUME NEW base \in Nat, NEW i \in 1 .. 16
  PROVE  Value(<<Digits[i]>>, base) = i - 1
<1> DEFINE s == <<Digits[i]>>
<1>1. s \in Texts /\ Len(s) = 1 /\ s[1] = Digits[i]
  BY DEF Texts, Symbols
<1> HIDE DEF s
<1>2. PICK g \in [0 .. Len(s) -> Int] :
        /\ \A k \in 0 .. Len(s) : g[k] = ValueStep(s, base, g, k)
        /\ Value(s, base) = g[Len(s)]
  BY <1>1, ValuesExist
<1>3. g[0] = ValueStep(s, base, g, 0) /\ g[1] = ValueStep(s, base, g, 1) /\ Value(s, base) = g[1]
  BY <1>1, <1>2
<1>4. g[0] = 0
  BY <1>3, Zenon DEF ValueStep
<1>5. g[1] = g[1 - 1] * base + Digit(s[1])
  <2>1. 1 # 0
    OBVIOUS
  <2> QED BY <1>3, <2>1, Zenon DEF ValueStep
<1>6. Digit(s[1]) = i - 1
  BY <1>1, DigitIs
<1>7. g[1] = i - 1
  BY <1>4, <1>5, <1>6
<1> QED BY <1>3, <1>7 DEF s

LEMMA ValueOfMore ==
  ASSUME NEW base \in Nat, NEW s \in Texts, NEW i \in 1 .. 16
  PROVE  Value(s \o <<Digits[i]>>, base) = Value(s, base) * base + (i - 1)
<1> DEFINE d == <<Digits[i]>>
           t == s \o d
           n == Len(s)
<1>1. d \in Texts /\ Len(d) = 1 /\ d[1] = Digits[i] /\ n \in Nat
  BY LenType, SMTT(30) DEF Texts, Symbols
<1> HIDE DEF d
<1>2. /\ t \in Texts /\ Len(t) = n + 1
      /\ \A k \in 1 .. n : t[k] = s[k]
      /\ t[n + 1] = Digits[i]
  <2>1. /\ t \in Texts /\ Len(t) = Len(s) + Len(d)
        /\ \A k \in 1 .. Len(s) + Len(d) : t[k] = IF k <= Len(s) THEN s[k] ELSE d[k - Len(s)]
    BY <1>1, Concat, Zenon
  <2> HIDE DEF t
  <2>2. n + 1 \in 1 .. Len(s) + Len(d) /\ ~(n + 1 <= Len(s)) /\ (n + 1) - Len(s) = 1
    BY <1>1
  <2> QED BY <1>1, <2>1, <2>2
<1> HIDE DEF t
<1>3. PICK f \in [0 .. Len(s) -> Int] :
        /\ \A k \in 0 .. Len(s) : f[k] = ValueStep(s, base, f, k)
        /\ Value(s, base) = f[Len(s)]
  BY ValuesExist
<1>4. PICK g \in [0 .. Len(t) -> Int] :
        /\ \A k \in 0 .. Len(t) : g[k] = ValueStep(t, base, g, k)
        /\ Value(t, base) = g[Len(t)]
  BY <1>2, ValuesExist
<1> DEFINE S == {k \in 0 .. n : f[k] = g[k]}
<1>5. 0 \in S
  <2>1. f[0] = ValueStep(s, base, f, 0) /\ g[0] = ValueStep(t, base, g, 0)
    BY <1>1, <1>2, <1>3, <1>4
  <2>2. f[0] = 0 /\ g[0] = 0
    BY <2>1, Zenon DEF ValueStep
  <2> QED BY <1>1, <2>2
<1>6. ASSUME NEW k \in 0 .. n - 1, k \in S PROVE k + 1 \in S
  <2>1. /\ k + 1 \in 0 .. Len(s) /\ k + 1 \in 0 .. Len(t) /\ (k + 1) - 1 = k /\ k + 1 # 0
        /\ f[k] = g[k] /\ t[k + 1] = s[k + 1]
    BY <1>1, <1>2, <1>6
  <2>2. f[k + 1] = ValueStep(s, base, f, k + 1) /\ g[k + 1] = ValueStep(t, base, g, k + 1)
    BY <2>1, <1>3, <1>4
  <2>3. /\ f[k + 1] = f[(k + 1) - 1] * base + Digit(s[k + 1])
        /\ g[k + 1] = g[(k + 1) - 1] * base + Digit(t[k + 1])
    BY <2>1, <2>2, Zenon DEF ValueStep
  <2>4. f[k + 1] = g[k + 1]
    BY <2>1, <2>3, Zenon
  <2> QED BY <2>1, <2>4
<1>7. n \in S
  <2>1. 0 .. n \subseteq S
    <3> HIDE DEF S
    <3> QED BY <1>1, <1>5, <1>6, UpTo
  <2> HIDE DEF S
  <2> QED BY <1>1, <2>1
<1>8. g[n] = Value(s, base)
  BY <1>3, <1>7
<1>9. Value(t, base) = g[(n + 1) - 1] * base + Digit(t[n + 1])
  <2>1. n + 1 \in 0 .. Len(t) /\ n + 1 # 0
    BY <1>1, <1>2
  <2>2. Value(t, base) = ValueStep(t, base, g, n + 1)
    BY <2>1, <1>2, <1>4
  <2> QED BY <2>1, <2>2, Zenon DEF ValueStep
<1>10. Digit(t[n + 1]) = i - 1 /\ (n + 1) - 1 = n
  <2>1. Digit(t[n + 1]) = i - 1
    BY <1>2, DigitIs, Zenon
  <2>2. (n + 1) - 1 = n
    BY <1>1
  <2> QED BY <2>1, <2>2
<1> QED BY <1>8, <1>9, <1>10, Zenon DEF t, d

(* A numeral reads as its number, and is made of digits.                   *)
LEMMA NumeralReads ==
  ASSUME NEW base \in {10, 16}, NEW n \in Nat
  PROVE  /\ Value(Numeral(n, base), base) = n
         /\ Numeral(n, base) \in Texts
         /\ Len(Numeral(n, base)) > 0
         /\ \A k \in 1 .. Len(Numeral(n, base)) : \E i \in 1 .. base : Numeral(n, base)[k] = Digits[i]
<1> DEFINE D(t) == \A k \in 1 .. Len(t) : \E i \in 1 .. base : t[k] = Digits[i]
           Good(m) == Value(Numeral(m, base), base) = m /\ Len(Numeral(m, base)) > 0 /\ D(Numeral(m, base))
           S == {m \in 0 .. n : Good(m)}
<1>0. base \in 2 .. 16 /\ base \in Nat
  OBVIOUS
<1>1. \A m \in Nat :
        /\ Numeral(m, base) \in Texts
        /\ m < base => Numeral(m, base) = <<Digits[(m % base) + 1]>>
        /\ m >= base => Numeral(m, base) = Numeral(m \div base, base) \o <<Digits[(m % base) + 1]>>
  BY <1>0, NumeralIs
<1>2. ASSUME NEW m \in 0 .. n, 0 .. m - 1 \subseteq S PROVE m \in S
  <2> DEFINE i == (m % base) + 1
             d == <<Digits[i]>>
  <2>0. m \in Nat
    OBVIOUS
  <2>1. i \in 1 .. base /\ i \in 1 .. 16
    OBVIOUS
  <2>2. d \in Texts /\ Len(d) = 1 /\ d[1] = Digits[i]
    <3> HIDE DEF i
    <3> QED BY <2>1 DEF Texts, Symbols
  <2>3. CASE m < base
    <3>1. Numeral(m, base) = d
      BY <2>0, <1>1, <2>3, Zenon
    <3>2. Value(d, base) = i - 1
      <4> HIDE DEF i
      <4> QED BY <1>0, <2>1, ValueOfDigit
    <3>3. i - 1 = m
      BY <2>3
    <3>4. D(d)
      <4> HIDE DEF i, d
      <4> QED BY <2>1, <2>2
    <3>5. Good(m)
      <4> HIDE DEF D, d, i
      <4> QED BY <3>1, <3>2, <3>3, <3>4, <2>2
    <3> HIDE DEF Good
    <3> QED BY <3>5
  <2>4. CASE m >= base
    <3> DEFINE q == m \div base
               t == Numeral(q, base)
    <3>1. q \in 0 .. m - 1 /\ q * base + (i - 1) = m
      BY <2>4
    <3>2. Good(q) /\ q \in Nat
      <4> HIDE DEF q, Good
      <4> QED BY <3>1, <1>2
    <3>3. Numeral(m, base) = t \o d
      BY <2>0, <1>1, <2>4, Zenon
    <3>4. t \in Texts /\ Len(t) > 0 /\ D(t) /\ Value(t, base) = q
      <4> HIDE DEF q, D
      <4> QED BY <3>2, <1>1
    <3> HIDE DEF q, i, t
    <3>5. Value(t \o d, base) = q * base + (i - 1)
      BY <1>0, <2>1, <3>4, ValueOfMore
    <3> DEFINE u == t \o d
    <3> HIDE DEF d
    <3>6. /\ u \in Texts /\ Len(u) = Len(t) + Len(d)
          /\ \A k \in 1 .. Len(t) + Len(d) : u[k] = IF k <= Len(t) THEN t[k] ELSE d[k - Len(t)]
      BY <2>2, <3>4, Concat, Zenon
    <3> HIDE DEF u
    <3>7. D(u)
      <4>1. Len(t) \in Nat
        BY <3>4, LenType
      <4> SUFFICES ASSUME NEW k \in 1 .. Len(u) PROVE \E j \in 1 .. base : u[k] = Digits[j]
        OBVIOUS
      <4>2. CASE k <= Len(t)
        <5>1. u[k] = t[k] /\ k \in 1 .. Len(t)
          BY <4>1, <4>2, <3>6, <2>2
        <5> QED BY <5>1, <3>4
      <4>3. CASE k > Len(t)
        <5>1. u[k] = d[k - Len(t)] /\ k - Len(t) = 1
          BY <4>1, <4>3, <3>6, <2>2
        <5> QED BY <5>1, <2>1, <2>2
      <4> QED BY <4>1, <4>2, <4>3
    <3>8. Len(u) > 0
      <4>1. Len(t) \in Nat
        BY <3>4, LenType
      <4> QED BY <4>1, <3>6, <2>2
    <3>9. Good(m)
      <4> HIDE DEF D
      <4> QED BY <3>1, <3>3, <3>5, <3>7, <3>8 DEF u
    <3> HIDE DEF Good
    <3> QED BY <3>9
  <2> QED BY <2>3, <2>4
<1>3. n \in S
  <2> HIDE DEF S
  <2>1. 0 .. n \subseteq S
    BY <1>2, Strongly
  <2> QED BY <2>1
<1>4. Good(n)
  <2> HIDE DEF Good
  <2> QED BY <1>3
<1> QED BY <1>1, <1>4

-----------------------------------------------------------------------------
(* Recursions that read a text from its start.                             *)

(* Whatever obeys the steps has values of V.                               *)
LEMMA ReadsAll ==
  ASSUME NEW V, NEW n \in Nat, NEW a \in V, NEW next \in Ons(n), NEW step \in StepsOn(V, n),
         NEW h, h[n + 1] = a,
         \A i \in 1 .. n : h[next[i]] \in V => h[i] = step[i][h[next[i]]]
  PROVE  \A i \in 1 .. n + 1 : h[i] \in V
<1> DEFINE S == {k \in 0 .. n : h[n + 1 - k] \in V}
<1>0. \A i \in 1 .. n : next[i] \in i + 1 .. n + 1 /\ step[i] \in [V -> V]
  BY DEF Ons, StepsOn
<1>1. ASSUME NEW k \in 0 .. n, 0 .. k - 1 \subseteq S PROVE k \in S
  <2>1. CASE k = 0
    BY <2>1
  <2>2. CASE k # 0
    <3> DEFINE i == n + 1 - k
    <3>1. i \in 1 .. n
      BY <2>2
    <3> DEFINE m == n + 1 - next[i]
    <3>2. m \in 0 .. k - 1 /\ n + 1 - m = next[i]
      BY <3>1, <1>0
    <3>3. h[next[i]] \in V
      <4> HIDE DEF m
      <4>1. m \in S
        BY <3>2, <1>1
      <4> QED BY <4>1, <3>2
    <3> HIDE DEF i, m
    <3>4. h[i] = step[i][h[next[i]]] /\ step[i] \in [V -> V]
      BY <3>1, <3>3, <1>0
    <3>5. h[i] \in V
      BY <3>3, <3>4
    <3> QED BY <3>5 DEF i
  <2> QED BY <2>1, <2>2
<1>2. 0 .. n \subseteq S
  <2> HIDE DEF S
  <2> QED BY <1>1, Strongly
<1>3. ASSUME NEW i \in 1 .. n + 1 PROVE h[i] \in V
  <2>1. n + 1 - i \in 0 .. n /\ n + 1 - (n + 1 - i) = i
    OBVIOUS
  <2>2. n + 1 - i \in S
    <3> HIDE DEF S
    <3> QED BY <1>2, <2>1
  <2>3. h[n + 1 - (n + 1 - i)] \in V
    BY <2>2
  <2> QED BY <2>1, <2>3
<1> QED BY <1>3

LEMMA GreatestIs ==
  ASSUME NEW S, NEW a \in Int, NEW b \in Int, S \subseteq a .. b, S # {}
  PROVE  Greatest(S) \in S /\ \A x \in S : x <= Greatest(S)
<1> DEFINE T == {k \in Nat : b - k \in S}
           High(n) == \A m \in S : n >= m
<1>1. T \subseteq Nat /\ T # {}
  <2>1. PICK x \in S : TRUE
    OBVIOUS
  <2>2. b - x \in Nat /\ b - (b - x) = x
    BY <2>1
  <2>3. b - x \in T
    BY <2>1, <2>2
  <2> QED BY <2>3
<1>2. PICK t \in T : \A y \in T : t <= y
  <2> HIDE DEF T
  <2> QED BY <1>1, LeastNumber
<1> DEFINE x == b - t
<1>3. x \in S /\ t = b - x /\ x \in Int
  BY <1>2
<1>4. ASSUME NEW y \in S PROVE x >= y
  <2>1. b - y \in Nat /\ b - (b - y) = y
    OBVIOUS
  <2>2. b - y \in T
    BY <2>1
  <2>3. t <= b - y
    BY <2>2, <1>2
  <2> QED BY <2>3, <1>3, <2>1
<1> HIDE DEF x, T
<1>5. Greatest(S) = (CHOOSE n \in S : High(n))
  BY Zenon DEF Greatest
<1>6. High(x)
  BY <1>4
<1>7. Greatest(S) \in S /\ High(Greatest(S))
  <2> HIDE DEF High
  <2> QED BY <1>3, <1>5, <1>6
<1>8. \A m \in S : m \in Int
  OBVIOUS
<1> QED BY <1>7, <1>8

(* A string of the vocabulary's file without its escapes is a text.        *)
LEMMA UnescapedType ==
  ASSUME NEW s \in Texts
  PROVE  unescape_json_string(s) \in Texts
<1> DEFINE len == Len(s)
           n == len + 1
           char(i) == IF s[i] = Backslash /\ i < Len(s) /\ s[i + 1] \in {Quote, Backslash}
                        THEN s[i + 1] ELSE s[i]
           to(i) == IF s[i] = Backslash THEN i + 2 ELSE i + 1
           Body(f, i) == IF i > Len(s) THEN <<>> ELSE <<char(i)>> \o f[to(i)]
           Rec(f) == f = [i \in 1 .. Len(s) + 2 |-> Body(f, i)]
           h == CHOOSE f : Rec(f)
           next == [i \in 1 .. n |-> IF i > len THEN i + 1 ELSE to(i)]
           step == [i \in 1 .. n |-> [v \in Texts |-> IF i > len THEN <<>> ELSE <<char(i)>> \o v]]
<1>1. unescape_json_string(s) = h[1]
  BY Zenon DEF unescape_json_string
<1>2. len \in Nat /\ n \in Nat /\ n + 1 = len + 2
  BY LenType
<1>3. \A i \in 1 .. len : <<char(i)>> \in Texts
  <2>1. \A i \in 1 .. len : s[i] \in Symbols
    BY DEF Texts
  <2>2. ASSUME NEW i \in 1 .. len PROVE <<char(i)>> \in Texts
    <3>1. s[i] \in Symbols /\ (i < len => s[i + 1] \in Symbols)
      BY <1>2, <2>1
    <3>2. char(i) \in Symbols
      BY <3>1
    <3> HIDE DEF char
    <3> QED BY <3>2 DEF Texts
  <2> QED BY <2>2
<1>4. next \in Ons(n)
  <2>1. ASSUME NEW i \in 1 .. n PROVE next[i] \in 1 .. n + 1 /\ next[i] > i
    <3> HIDE DEF len
    <3> QED BY <1>2
  <2>2. next = [i \in 1 .. n |-> next[i]]
    OBVIOUS
  <2> HIDE DEF next
  <2>3. next \in [1 .. n -> 1 .. n + 1]
    BY <2>1, <2>2
  <2> QED BY <2>1, <2>3 DEF Ons
<1>5. step \in StepsOn(Texts, n)
  <2>1. ASSUME NEW i \in 1 .. n, NEW v \in Texts
        PROVE  (IF i > len THEN <<>> ELSE <<char(i)>> \o v) \in Texts
    <3>1. CASE i > len
      BY <3>1, MarksAreTexts
    <3>2. CASE ~(i > len)
      <4>1. <<char(i)>> \in Texts
        BY <1>2, <1>3, <3>2
      <4> HIDE DEF char
      <4> QED BY <4>1, <3>2, Concat
    <3> QED BY <3>1, <3>2
  <2> HIDE DEF char, len, n
  <2> QED BY <2>1 DEF StepsOn
<1>6. <<>> \in Texts
  BY MarksAreTexts
<1>7. PICK g \in Reads(Texts, n, <<>>, next, step) : TRUE
  <2> HIDE DEF n, next, step
  <2> QED BY <1>2, <1>4, <1>5, <1>6, Ascends, Zenon
<1>8. /\ g \in [1 .. n + 1 -> Texts] /\ g[n + 1] = <<>>
      /\ \A i \in 1 .. n : g[i] = step[i][g[next[i]]]
  <2> HIDE DEF n, next, step
  <2> QED BY <1>7 DEF Reads
<1>9. Rec(g)
  <2>1. ASSUME NEW i \in 1 .. Len(s) + 2 PROVE g[i] = Body(g, i)
    <3>1. CASE i = n + 1
      <4>1. i > Len(s)
        BY <1>2, <3>1
      <4> QED BY <4>1, <3>1, <1>8
    <3>2. CASE i # n + 1
      <4>1. i \in 1 .. n
        BY <1>2, <3>2
      <4>2. g[next[i]] \in Texts
        <5> HIDE DEF next
        <5>1. next[i] \in 1 .. n + 1
          BY <4>1, <1>4 DEF Ons
        <5> QED BY <5>1, <1>8
      <4>3. g[i] = IF i > len THEN <<>> ELSE <<char(i)>> \o g[next[i]]
        <5>1. g[i] = step[i][g[next[i]]]
          BY <4>1, <1>8
        <5> HIDE DEF next, char
        <5> QED BY <5>1, <4>1, <4>2
      <4>4. ~(i > len) => next[i] = to(i)
        BY <4>1
      <4> HIDE DEF char, to, next
      <4> QED BY <4>3, <4>4
    <3> QED BY <3>1, <3>2
  <2>2. g = [i \in 1 .. Len(s) + 2 |-> g[i]]
    BY <1>2, <1>8
  <2> HIDE DEF Body
  <2> QED BY <2>1, <2>2
<1>10. Rec(h)
  <2> HIDE DEF Rec
  <2> QED BY <1>9
<1>11. \A i \in 1 .. Len(s) + 2 : h[i] = Body(h, i)
  <2> HIDE DEF h, Body
  <2> QED BY <1>10
<1> HIDE DEF h
<1>12. h[n + 1] = <<>>
  <2>1. n + 1 \in 1 .. Len(s) + 2 /\ n + 1 > Len(s)
    BY <1>2
  <2> QED BY <2>1, <1>11
<1>13. ASSUME NEW i \in 1 .. n, h[next[i]] \in Texts PROVE h[i] = step[i][h[next[i]]]
  <2>1. h[i] = Body(h, i)
    BY <1>2, <1>11
  <2>2. step[i][h[next[i]]] = IF i > len THEN <<>> ELSE <<char(i)>> \o h[next[i]]
    <3> HIDE DEF next, char
    <3> QED BY <1>13
  <2>3. ~(i > len) => next[i] = to(i)
    OBVIOUS
  <2> HIDE DEF char, to, next, step
  <2> QED BY <2>1, <2>2, <2>3
<1>14. \A i \in 1 .. n + 1 : h[i] \in Texts
  <2> HIDE DEF n, next, step
  <2> QED BY <1>2, <1>4, <1>5, <1>6, <1>12, <1>13, ReadsAll
<1> QED BY <1>1, <1>2, <1>14

-----------------------------------------------------------------------------
(* What a worker loads and decodes is made of texts.                       *)

LEMMA OneText ==
  ASSUME NEW a \in Symbols
  PROVE  <<a>> \in Texts /\ Len(<<a>>) > 0
BY DEF Texts

LEMMA TwoText ==
  ASSUME NEW a \in Symbols, NEW b \in Symbols
  PROVE  <<a, b>> \in Texts /\ Len(<<a, b>>) > 0
BY DEF Texts

LEMMA FiveText ==
  ASSUME NEW a \in Symbols, NEW b \in Symbols, NEW c \in Symbols, NEW d \in Symbols, NEW e \in Symbols
  PROVE  <<a, b, c, d, e>> \in Texts /\ Len(<<a, b, c, d, e>>) > 0
BY DEF Texts

LEMMA SixText ==
  ASSUME NEW a \in Symbols, NEW b \in Symbols, NEW c \in Symbols, NEW d \in Symbols, NEW e \in Symbols,
         NEW f \in Symbols
  PROVE  <<a, b, c, d, e, f>> \in Texts /\ Len(<<a, b, c, d, e, f>>) > 0
BY DEF Texts

LEMMA SavedType ==
  ASSUME NEW words \in Seq(Texts), NEW chars \in Seq(Texts)
  PROVE  save_vocab(words, chars) \in Texts
<1> DEFINE id(i) == Numeral(i - 1, 10)
           IdRow(s, i) == Quoted(s[i]) \o <<":", " ">> \o id(i) \o <<",">>
           WordRow(s, i) == Quoted(id(i)) \o <<":", " ">> \o Quoted(s[i]) \o <<",">>
           toId(s) == FlattenSeq([i \in DOMAIN s |-> IdRow(s, i)])
           toWord(s) == FlattenSeq([i \in DOMAIN s |-> WordRow(s, i)])
           object(name, text) == <<Quote, name, Quote, ":", " ", "{">> \o text \o <<"}", ",">>
           size == <<Quote, "vocab_size", Quote, ":", " ">>
<1>1. save_vocab(words, chars) =
        <<"{">> \o object("word_to_id", toId(AllWords(words)))
          \o object("id_to_word", toWord(AllWords(words)))
          \o object("char_to_id", toId(chars))
          \o object("id_to_char", toWord(chars))
          \o size \o Numeral(VOCAB_SIZE, 10) \o <<",">>
          \o object("special_tokens", toId(special_tokens)) \o <<"}">>
  BY Zenon DEF save_vocab
<1> HIDE DEF size
<1>2. \A s \in Seq(Texts) : \A i \in DOMAIN s : id(i) \in Texts /\ s[i] \in Texts
  <2> SUFFICES ASSUME NEW s \in Seq(Texts), NEW i \in DOMAIN s PROVE id(i) \in Texts /\ s[i] \in Texts
    OBVIOUS
  <2>1. i - 1 \in Nat /\ 10 \in 2 .. 16 /\ s[i] \in Texts
    OBVIOUS
  <2> QED BY <2>1, NumeralIs
<1>3. <<",">> \in Texts /\ <<"}", ",">> \in Texts
  <2>1. "," \in Symbols /\ "}" \in Symbols
    BY DEF Symbols, Marks
  <2> QED BY <2>1, OneText, TwoText
<1> HIDE DEF id
<1>4. ASSUME NEW s \in Seq(Texts), NEW i \in DOMAIN s PROVE IdRow(s, i) \in Texts /\ WordRow(s, i) \in Texts
  <2>1. id(i) \in Texts /\ s[i] \in Texts
    BY <1>2
  <2>2. Quoted(s[i]) \in Texts /\ Quoted(id(i)) \in Texts
    BY <2>1, QuotedType
  <2>3. Quoted(s[i]) \o <<":", " ">> \in Texts /\ Quoted(id(i)) \o <<":", " ">> \in Texts
    BY <2>2, MarksAreTexts, Concat
  <2>4. Quoted(s[i]) \o <<":", " ">> \o id(i) \in Texts /\ Quoted(id(i)) \o <<":", " ">> \o Quoted(s[i]) \in Texts
    BY <2>1, <2>2, <2>3, Concat
  <2> QED BY <2>4, <1>3, Concat
<1> HIDE DEF IdRow, WordRow
<1>5. ASSUME NEW s \in Seq(Texts) PROVE toId(s) \in Texts /\ toWord(s) \in Texts
  <2> DEFINE A == [i \in DOMAIN s |-> IdRow(s, i)]
             B == [i \in DOMAIN s |-> WordRow(s, i)]
  <2>1. DOMAIN s = 1 .. Len(s) /\ Len(s) \in Nat
    OBVIOUS
  <2>2. A \in [1 .. Len(s) -> Seq(Symbols)] /\ B \in [1 .. Len(s) -> Seq(Symbols)]
    BY <2>1, <1>4 DEF Texts
  <2> HIDE DEF A, B
  <2>3. FlattenSeq(A) \in Texts /\ FlattenSeq(B) \in Texts
    BY <2>1, <2>2, JoinedType DEF Texts
  <2> QED BY <2>3, Zenon DEF A, B
<1>6. special_tokens \in Seq(Texts) /\ AllWords(words) \in Seq(Texts)
  <2>1. special_tokens \in Seq(Texts)
    <3>1. /\ <<"<PAD>">> \in Texts /\ <<"<UNK>">> \in Texts /\ <<"<BOS>">> \in Texts
          /\ <<"<", "E", "O", "S", ">">> \in Texts /\ <<"<CHAR_START>">> \in Texts /\ <<"<CHAR_END>">> \in Texts
      <4>1. /\ "<PAD>" \in Symbols /\ "<UNK>" \in Symbols /\ "<BOS>" \in Symbols /\ "<" \in Symbols
            /\ "E" \in Symbols /\ "O" \in Symbols /\ "S" \in Symbols /\ ">" \in Symbols
            /\ "<CHAR_START>" \in Symbols /\ "<CHAR_END>" \in Symbols
        BY DEF Symbols, Marks
      <4> QED BY <4>1 DEF Texts
    <3> QED BY <3>1 DEF special_tokens, EOS
  <2> QED BY <2>1, ConcatProperties DEF AllWords
<1> HIDE DEF toId, toWord
<1>7. ASSUME NEW name \in Symbols, NEW text \in Texts PROVE object(name, text) \in Texts
  <2>1. <<Quote, name, Quote, ":", " ", "{">> \in Texts
    <3>1. Quote \in Symbols /\ ":" \in Symbols /\ " " \in Symbols /\ "{" \in Symbols
      BY DEF Symbols, Marks
    <3> QED BY <3>1, SixText
  <2>2. <<Quote, name, Quote, ":", " ", "{">> \o text \in Texts
    BY <2>1, Concat
  <2> QED BY <2>2, <1>3, Concat
<1> HIDE DEF object
<1> DEFINE o1 == object("word_to_id", toId(AllWords(words)))
           o2 == object("id_to_word", toWord(AllWords(words)))
           o3 == object("char_to_id", toId(chars))
           o4 == object("id_to_char", toWord(chars))
           o5 == object("special_tokens", toId(special_tokens))
           number == Numeral(VOCAB_SIZE, 10)
<1>8. o1 \in Texts /\ o2 \in Texts /\ o3 \in Texts /\ o4 \in Texts /\ o5 \in Texts
  <2>1. /\ "word_to_id" \in Symbols /\ "id_to_word" \in Symbols /\ "char_to_id" \in Symbols
        /\ "id_to_char" \in Symbols /\ "special_tokens" \in Symbols
    BY DEF Symbols, Marks
  <2> QED BY <2>1, <1>5, <1>6, <1>7
<1>9. size \in Texts /\ number \in Texts
  <2>1. Quote \in Symbols /\ "vocab_size" \in Symbols /\ ":" \in Symbols /\ " " \in Symbols
    BY DEF Symbols, Marks
  <2>2. VOCAB_SIZE \in Nat /\ 10 \in 2 .. 16
    BY TextAssumption
  <2> QED BY <2>1, <2>2, FiveText, NumeralIs DEF size
<1> HIDE DEF o1, o2, o3, o4, o5, number
<1>10. <<"{">> \o o1 \o o2 \o o3 \o o4 \in Texts
  <2>1. <<"{">> \o o1 \in Texts
    BY <1>8, MarksAreTexts, Concat
  <2>2. <<"{">> \o o1 \o o2 \in Texts
    BY <1>8, <2>1, Concat
  <2>3. <<"{">> \o o1 \o o2 \o o3 \in Texts
    BY <1>8, <2>2, Concat
  <2> QED BY <1>8, <2>3, Concat
<1>11. <<"{">> \o o1 \o o2 \o o3 \o o4 \o size \o number \o <<",">> \in Texts
  <2>1. <<"{">> \o o1 \o o2 \o o3 \o o4 \o size \in Texts
    BY <1>9, <1>10, Concat
  <2>2. <<"{">> \o o1 \o o2 \o o3 \o o4 \o size \o number \in Texts
    BY <1>9, <2>1, Concat
  <2> QED BY <2>2, <1>3, Concat
<1>12. <<"{">> \o o1 \o o2 \o o3 \o o4 \o size \o number \o <<",">> \o o5 \o <<"}">> \in Texts
  <2>1. <<"{">> \o o1 \o o2 \o o3 \o o4 \o size \o number \o <<",">> \o o5 \in Texts
    BY <1>8, <1>11, Concat
  <2> QED BY <2>1, MarksAreTexts, Concat
<1> QED BY <1>1, <1>12, Zenon DEF o1, o2, o3, o4, o5, number

LEMMA ObjectType ==
  ASSUME NEW content \in Texts, NEW key \in Symbols
  PROVE  extract_object(content, key) \in Texts
<1> DEFINE search == <<Quote, key, Quote, ":", " ">>
           key_pos == find(content, search, 1)
           brace_pos == IF key_pos = npos THEN npos ELSE find(content, <<"{">>, key_pos + Len(search))
           end == Closing(content, brace_pos + 1)
<1>1. extract_object(content, key) =
        IF brace_pos = npos \/ end = npos THEN <<>> ELSE SubSeq(content, brace_pos + 1, end - 2)
  BY Zenon DEF extract_object
<1>2. Len(content) \in Nat
  BY LenType
<1>3. key_pos \in Nat
  <2>1. search \in Texts /\ Len(search) > 0
    <3>1. Quote \in Symbols /\ ":" \in Symbols /\ " " \in Symbols
      BY DEF Symbols, Marks
    <3> QED BY <3>1, FiveText
  <2> HIDE DEF search
  <2> QED BY <2>1, FindType
<1>4. brace_pos \in Nat /\ (brace_pos # npos => brace_pos \in 1 .. Len(content))
  <2>1. <<"{">> \in Texts /\ Len(<<"{">>) > 0
    <3>1. "{" \in Symbols
      BY DEF Symbols, Marks
    <3> QED BY <3>1, OneText
  <2>s. Len(search) = 5
    OBVIOUS
  <2> HIDE DEF key_pos, search
  <2>2. key_pos + Len(search) \in Nat
    BY <1>3, <2>s
  <2> DEFINE f == find(content, <<"{">>, key_pos + Len(search))
  <2>3. f \in Nat /\ (f # npos => f \in key_pos + Len(search) .. Len(content))
    BY <2>1, <2>2, FindType
  <2> HIDE DEF f
  <2>4. brace_pos = IF key_pos = npos THEN npos ELSE f
    BY DEF f
  <2> HIDE DEF brace_pos
  <2>5. CASE key_pos = npos
    BY <2>4, <2>5 DEF npos
  <2>6. CASE key_pos # npos
    <3>1. brace_pos = f
      BY <2>4, <2>6
    <3>2. f # npos => f \in 1 .. Len(content)
      BY <2>s, <2>3, <1>2, <1>3
    <3> QED BY <3>1, <3>2, <2>3
  <2> QED BY <2>5, <2>6
<1> HIDE DEF brace_pos
<1> DEFINE pos == brace_pos + 1
           braces(b, i) == Cardinality({k \in pos .. i : content[k] = b})
           closed == {i \in pos .. Len(content) : braces("}", i) = braces("{", i) + 1}
<1>5. end = IF closed = {} THEN npos ELSE Least(closed) + 1
  BY Zenon DEF Closing
<1>6. brace_pos # npos /\ end # npos => end - 2 \in brace_pos .. Len(content)
  <2> SUFFICES ASSUME brace_pos # npos, end # npos PROVE end - 2 \in brace_pos .. Len(content)
    OBVIOUS
  <2>0. closed \subseteq pos .. Len(content)
    OBVIOUS
  <2> HIDE DEF closed, end
  <2>1. closed # {} /\ closed \subseteq Nat
    BY <2>0, <1>4, <1>5
  <2>2. PICK e \in closed : \A y \in closed : e <= y
    BY <2>1, LeastNumber
  <2>3. closed \subseteq Int
    BY <2>1
  <2>4. Least(closed) = e
    BY <2>2, <2>3, LeastIs
  <2>5. e \in pos .. Len(content)
    BY <2>0, <2>2
  <2> QED BY <2>1, <2>4, <2>5, <1>2, <1>4, <1>5
<1> HIDE DEF end
<1>7. CASE brace_pos # npos /\ end # npos
  <2> DEFINE u == brace_pos + 1
             v == end - 2
  <2>1. u \in Int /\ v \in Int /\ 1 <= u /\ u <= v + 1 /\ v <= Len(content)
    BY <1>2, <1>4, <1>6, <1>7
  <2>2. SubSeq(content, u, v) \in Texts
    <3> HIDE DEF u, v
    <3> QED BY <2>1, Part
  <2> QED BY <2>2, <1>1, <1>7
<1>8. CASE ~(brace_pos # npos /\ end # npos)
  BY <1>1, <1>8, MarksAreTexts
<1> QED BY <1>7, <1>8

(* Finite maps from numbers to texts.                                      *)
Maps == UNION {[D -> Texts] : D \in SUBSET Int}

LEMMA MapMore ==
  ASSUME NEW m \in Maps, NEW k \in Int, NEW w \in Texts
  PROVE  WithKey(m, k, w) \in Maps
<1>1. PICK D \in SUBSET Int : m \in [D -> Texts]
  BY DEF Maps
<1>2. WithKey(m, k, w) \in [D \cup {k} -> Texts]
  BY <1>1 DEF WithKey
<1>3. D \cup {k} \in SUBSET Int
  BY <1>1
<1> QED BY <1>2, <1>3 DEF Maps

LEMMA NumberAfterType ==
  ASSUME NEW s \in Texts, NEW i \in 1 .. Len(s) + 1
  PROVE  NumberAfter(s, i) \in Texts /\ Len(NumberAfter(s, i)) \in Nat
<1> DEFINE e == RunEnd(s, i, Decimals)
<1>1. e \in i - 1 .. Len(s) /\ Len(s) \in Nat
  BY RunEndType, LenType
<1> HIDE DEF e
<1>2. SubSeq(s, i, e) \in Texts
  <2>1. i \in Int /\ e \in Int /\ 1 <= i /\ i <= e + 1 /\ e <= Len(s)
    BY <1>1
  <2> QED BY <2>1, Part, Zenon
<1> QED BY <1>2, LenType DEF NumberAfter, e

LEMMA StringEndsType ==
  ASSUME NEW s, NEW i
  PROVE  StringEnds(s, i) \subseteq i + 1 .. Len(s)
BY DEF StringEnds

(* The words of the file's object are texts.                               *)
LEMMA IntKeysType ==
  ASSUME NEW s \in Texts
  PROVE  IntKeys(s) \in Maps
<1> DEFINE n == Len(s)
           q(i) == i + Len(NumberAfter(s, i + 1)) + 1
           Skip(i) == s[i] # Quote \/ q(i) = i + 1 \/ ~OccursAt(s, q(i), <<Quote, ":", " ", Quote>>)
                        \/ StringEnds(s, q(i) + 3) = {}
           j(i) == Greatest(StringEnds(s, q(i) + 3))
           word(i) == unescape_json_string(SubSeq(s, q(i) + 4, j(i) - 1))
           key(i) == Value(NumberAfter(s, i + 1), 10)
           Body(f, i) == IF i > Len(s) THEN <<>>
                         ELSE IF Skip(i) THEN f[i + 1]
                         ELSE WithKey(f[j(i) + 1], key(i), word(i))
           Rec(f) == f = [i \in 1 .. Len(s) + 1 |-> Body(f, i)]
           h == CHOOSE f : Rec(f)
           next == [i \in 1 .. n |-> IF Skip(i) THEN i + 1 ELSE j(i) + 1]
           step == [i \in 1 .. n |-> [m \in Maps |-> IF Skip(i) THEN m ELSE WithKey(m, key(i), word(i))]]
<1>1. IntKeys(s) = h[1]
  BY Zenon DEF IntKeys
<1>2. n \in Nat
  BY LenType
<1>3. ASSUME NEW i \in 1 .. n, ~Skip(i)
      PROVE  j(i) \in i + 1 .. n /\ key(i) \in Int /\ word(i) \in Texts
  <2>1. NumberAfter(s, i + 1) \in Texts /\ Len(NumberAfter(s, i + 1)) \in Nat
    <3>1. i + 1 \in 1 .. Len(s) + 1
      BY <1>2
    <3> QED BY <3>1, NumberAfterType
  <2>2. key(i) \in Int
    <3>1. 10 \in Nat
      OBVIOUS
    <3> QED BY <2>1, <3>1, ValueType
  <2> DEFINE p == q(i)
             E == StringEnds(s, p + 3)
  <2>3. p \in Nat /\ p >= i + 1
    <3> HIDE DEF Skip, j, word, key
    <3> QED BY <2>1
  <2>4. E \subseteq p + 4 .. n /\ E # {}
    <3>1. E # {}
      BY <1>3, Zenon
    <3> HIDE DEF q, Skip, j, word, key, p
    <3>2. E \subseteq (p + 3) + 1 .. n
      BY StringEndsType
    <3>3. (p + 3) + 1 = p + 4
      BY <2>3
    <3> QED BY <3>1, <3>2, <3>3
  <2>5. j(i) = Greatest(E) /\ word(i) = unescape_json_string(SubSeq(s, p + 4, j(i) - 1))
    OBVIOUS
  <2> HIDE DEF q, Skip, j, word, key, p, E
  <2>6. j(i) \in p + 4 .. n
    <3>1. Greatest(E) \in E
      <4>1. p + 4 \in Int /\ n \in Int
        BY <1>2, <2>3
      <4> QED BY <2>4, <4>1, GreatestIs
    <3> QED BY <3>1, <2>4, <2>5
  <2>7. SubSeq(s, p + 4, j(i) - 1) \in Texts
    <3> DEFINE u == p + 4
               v == j(i) - 1
    <3>1. u \in Int /\ v \in Int /\ 1 <= u /\ u <= v + 1 /\ v <= n
      BY <1>2, <2>3, <2>6
    <3> HIDE DEF u, v
    <3>2. SubSeq(s, u, v) \in Texts
      BY <3>1, Part
    <3> QED BY <3>2 DEF u, v
  <2>8. word(i) \in Texts
    BY <2>5, <2>7, UnescapedType
  <2>9. j(i) \in i + 1 .. n
    BY <1>2, <2>3, <2>6
  <2> QED BY <2>2, <2>8, <2>9
<1> HIDE DEF q, Skip, j, word, key, n
<1>4. next \in Ons(n)
  <2>1. ASSUME NEW i \in 1 .. n PROVE next[i] \in 1 .. n + 1 /\ next[i] > i
    <3>1. CASE Skip(i)
      BY <1>2, <3>1
    <3>2. CASE ~Skip(i)
      <4>1. next[i] = j(i) + 1 /\ j(i) \in i + 1 .. n
        BY <3>2, <1>3
      <4> QED BY <4>1, <1>2
    <3> QED BY <3>1, <3>2
  <2>2. next = [i \in 1 .. n |-> next[i]]
    OBVIOUS
  <2> HIDE DEF next
  <2>3. next \in [1 .. n -> 1 .. n + 1]
    BY <2>1, <2>2
  <2> QED BY <2>1, <2>3 DEF Ons
<1>5. step \in StepsOn(Maps, n)
  <2>1. ASSUME NEW i \in 1 .. n, NEW m \in Maps
        PROVE  (IF Skip(i) THEN m ELSE WithKey(m, key(i), word(i))) \in Maps
    BY <1>3, MapMore
  <2> QED BY <2>1 DEF StepsOn
<1>6. <<>> \in Maps
  <2>1. <<>> \in [1 .. 0 -> Texts]
    OBVIOUS
  <2>2. 1 .. 0 \in SUBSET Int
    OBVIOUS
  <2> QED BY <2>1, <2>2 DEF Maps
<1>7. PICK g \in Reads(Maps, n, <<>>, next, step) : TRUE
  <2> HIDE DEF next, step
  <2> QED BY <1>2, <1>4, <1>5, <1>6, Ascends, Zenon
<1>8. /\ g \in [1 .. n + 1 -> Maps] /\ g[n + 1] = <<>>
      /\ \A i \in 1 .. n : g[i] = step[i][g[next[i]]]
  <2> HIDE DEF next, step
  <2> QED BY <1>7 DEF Reads
<1>9. ASSUME NEW f, NEW i \in 1 .. n, f[next[i]] \in Maps
      PROVE  Body(f, i) = step[i][f[next[i]]]
  <2>1. ~(i > Len(s))
    BY <1>2 DEF n
  <2>2. step[i][f[next[i]]] = IF Skip(i) THEN f[next[i]] ELSE WithKey(f[next[i]], key(i), word(i))
    <3> HIDE DEF next
    <3> QED BY <1>9
  <2>3. next[i] = IF Skip(i) THEN i + 1 ELSE j(i) + 1
    OBVIOUS
  <2> HIDE DEF next, step
  <2> QED BY <2>1, <2>2, <2>3
<1>10. \A f : Body(f, n + 1) = <<>>
  <2>1. n + 1 > Len(s)
    BY <1>2 DEF n
  <2> QED BY <2>1
<1> HIDE DEF Body
<1>11. Rec(g)
  <2>1. ASSUME NEW i \in 1 .. n + 1 PROVE g[i] = Body(g, i)
    <3>1. CASE i = n + 1
      BY <3>1, <1>8, <1>10
    <3>2. CASE i # n + 1
      <4>1. i \in 1 .. n
        BY <1>2, <3>2
      <4> HIDE DEF next, step
      <4>2. next[i] \in 1 .. n + 1
        BY <4>1, <1>4 DEF Ons
      <4> QED BY <4>1, <4>2, <1>8, <1>9
    <3> QED BY <3>1, <3>2
  <2> QED BY <2>1, <1>8 DEF n
<1>12. Rec(h)
  <2> HIDE DEF Rec
  <2> QED BY <1>11
<1>13. \A i \in 1 .. n + 1 : h[i] = Body(h, i)
  <2> HIDE DEF h
  <2> QED BY <1>12 DEF n
<1> HIDE DEF h
<1>14. h[n + 1] = <<>>
  BY <1>2, <1>10, <1>13
<1>15. \A i \in 1 .. n : h[next[i]] \in Maps => h[i] = step[i][h[next[i]]]
  <2> HIDE DEF next, step
  <2> SUFFICES ASSUME NEW i \in 1 .. n, h[next[i]] \in Maps PROVE h[i] = step[i][h[next[i]]]
    OBVIOUS
  <2>1. h[i] = Body(h, i)
    BY <1>2, <1>13
  <2> QED BY <2>1, <1>9
<1>16. \A i \in 1 .. n + 1 : h[i] \in Maps
  <2> HIDE DEF next, step
  <2> QED BY <1>2, <1>4, <1>5, <1>6, <1>14, <1>15, ReadsAll
<1> QED BY <1>1, <1>2, <1>16

(* A worker decodes to texts.                                              *)
LEMMA DecodeType ==
  ASSUME NEW words \in Seq(Texts), NEW chars \in Seq(Texts), NEW id
  PROVE  decode(load_vocab(save_vocab(words, chars)), id) \in Texts
<1> DEFINE content == save_vocab(words, chars)
           m == IntKeys(extract_object(content, "id_to_word"))
           w == IF id \in DOMAIN m THEN m[id] ELSE <<>>
<1>1. content \in Texts
  BY SavedType
<1>2. m \in Maps
  <2> HIDE DEF content
  <2>1. "id_to_word" \in Symbols
    BY DEF Symbols, Marks
  <2> QED BY <1>1, <2>1, ObjectType, IntKeysType
<1>3. decode(load_vocab(content), id) = <<" ">> \o w
  BY DEF decode, load_vocab
<1> HIDE DEF m, content
<1>4. w \in Texts
  <2>1. PICK D \in SUBSET Int : m \in [D -> Texts]
    BY <1>2 DEF Maps
  <2> QED BY <2>1, MarksAreTexts
<1>5. <<" ">> \in Texts
  <2>1. " " \in Symbols
    BY DEF Symbols, Marks
  <2> QED BY <2>1, OneText
<1> HIDE DEF w
<1> QED BY <1>3, <1>4, <1>5, Concat DEF content

-----------------------------------------------------------------------------
(* What is escaped reads as what it was.                                   *)

(* In what was joined, each text is where those before it end.             *)
InPlace(n, M, g) ==
  \A k \in 1 .. n :
    /\ g[k - 1] \in Texts /\ g[k] \in Texts
    /\ Len(g[k]) = Len(g[k - 1]) + Len(M[k])
    /\ Len(g[k]) <= Len(g[n])
    /\ \A i \in 1 .. Len(M[k]) : g[n][Len(g[k - 1]) + i] = M[k][i]

LEMMA JoinedAt ==
  ASSUME NEW n \in Nat, NEW M \in [1 .. n -> Texts], NEW g, Joins(Symbols, n, M, g)
  PROVE  InPlace(n, M, g)
<1>1. /\ g \in [0 .. n -> Texts] /\ g[0] = <<>>
      /\ \A k \in 1 .. n : g[k] = g[k - 1] \o M[k]
  BY Zenon DEF Joins, Texts
<1>2. \A k \in 1 .. n : g[k - 1] \in Texts /\ g[k] \in Texts /\ M[k] \in Texts
  BY <1>1
<1>3. ASSUME NEW k \in 1 .. n
      PROVE  /\ Len(g[k]) = Len(g[k - 1]) + Len(M[k])
             /\ \A i \in 1 .. Len(g[k - 1]) + Len(M[k]) :
                  g[k][i] = IF i <= Len(g[k - 1]) THEN g[k - 1][i] ELSE M[k][i - Len(g[k - 1])]
  <2> DEFINE a == g[k - 1]
             b == M[k]
             c == g[k]
  <2>1. a \in Texts /\ b \in Texts /\ c = a \o b
    BY <1>1, <1>2
  <2> HIDE DEF a, b, c
  <2>2. /\ Len(c) = Len(a) + Len(b)
        /\ \A i \in 1 .. Len(a) + Len(b) : c[i] = IF i <= Len(a) THEN a[i] ELSE b[i - Len(a)]
    BY <2>1, Concat
  <2> QED BY <2>2 DEF a, b, c
<1>4. ASSUME NEW k \in 1 .. n
      PROVE  Len(g[k]) <= Len(g[n]) /\ \A i \in 1 .. Len(g[k]) : g[n][i] = g[k][i]
  <2> DEFINE Q(m) == Len(g[k]) <= Len(g[m]) /\ \A i \in 1 .. Len(g[k]) : g[m][i] = g[k][i]
             S == {m \in 0 .. n - k : Q(k + m)}
  <2>1. 0 \in S
    <3>1. k + 0 = k /\ Len(g[k]) \in Nat
      BY <1>2, LenType
    <3> QED BY <3>1
  <2>2. ASSUME NEW m \in 0 .. n - k - 1, m \in S PROVE m + 1 \in S
    <3> DEFINE e == k + m + 1
    <3>1. e \in 1 .. n /\ e - 1 = k + m /\ Q(k + m)
      BY <2>2
    <3>2. Len(g[k]) \in Nat /\ Len(g[e - 1]) \in Nat /\ Len(M[e]) \in Nat
      <4> HIDE DEF e, Q
      <4> QED BY <3>1, <1>2, LenType
    <3>3. Len(g[e]) = Len(g[e - 1]) + Len(M[e])
          /\ \A i \in 1 .. Len(g[e - 1]) + Len(M[e]) :
               g[e][i] = IF i <= Len(g[e - 1]) THEN g[e - 1][i] ELSE M[e][i - Len(g[e - 1])]
      <4> HIDE DEF e, Q
      <4> QED BY <3>1, <1>3
    <3>4. Q(e - 1)
      BY <3>1
    <3> HIDE DEF e
    <3>5. Q(e)
      <4> DEFINE a == g[e - 1]
                 b == g[e]
                 lk == Len(g[k])
                 la == Len(a)
                 lm == Len(M[e])
      <4>1. lk \in Nat /\ la \in Nat /\ lm \in Nat /\ Len(b) = la + lm
        BY <3>2, <3>3
      <4>2. lk <= la /\ \A i \in 1 .. lk : a[i] = g[k][i]
        BY <3>4
      <4>3. \A i \in 1 .. la + lm : b[i] = IF i <= la THEN a[i] ELSE M[e][i - la]
        BY <3>3
      <4> HIDE DEF a, b, lk, la, lm
      <4>4. lk <= Len(b) /\ \A i \in 1 .. lk : b[i] = g[k][i]
        BY <4>1, <4>2, <4>3
      <4> QED BY <4>4 DEF b, lk
    <3> HIDE DEF Q
    <3>6. k + (m + 1) = e /\ m + 1 \in 0 .. n - k
      BY DEF e
    <3> QED BY <3>5, <3>6
  <2>3. n - k \in S
    <3> HIDE DEF S
    <3>1. 0 .. n - k \subseteq S
      <4> DEFINE w == n - k
      <4>1. w \in Nat
        OBVIOUS
      <4>2. \A m \in 0 .. w - 1 : m \in S => m + 1 \in S
        BY <2>2
      <4>3. 0 .. w \subseteq S
        <5> HIDE DEF w
        <5> QED BY <2>1, <4>1, <4>2, UpTo
      <4> QED BY <4>3
    <3> QED BY <3>1
  <2>4. k + (n - k) = n
    OBVIOUS
  <2>5. Q(k + (n - k))
    <3> HIDE DEF Q
    <3> QED BY <2>3
  <2> QED BY <2>4, <2>5
<1>5. ASSUME NEW k \in 1 .. n, NEW i \in 1 .. Len(M[k])
      PROVE  g[n][Len(g[k - 1]) + i] = M[k][i]
  <2>1. Len(g[k - 1]) \in Nat /\ Len(M[k]) \in Nat
    BY <1>2, LenType
  <2> DEFINE m == Len(g[k - 1]) + i
  <2>2. m \in 1 .. Len(g[k - 1]) + Len(M[k]) /\ ~(m <= Len(g[k - 1])) /\ m - Len(g[k - 1]) = i
    BY <2>1
  <2> HIDE DEF m
  <2>3. g[k][m] = M[k][m - Len(g[k - 1])]
    BY <2>2, <1>3
  <2>4. m \in 1 .. Len(g[k])
    BY <2>2, <1>3
  <2>5. g[n][m] = g[k][m]
    BY <2>4, <1>4
  <2> QED BY <2>2, <2>3, <2>5 DEF m
<1> QED BY <1>2, <1>3, <1>4, <1>5 DEF InPlace

LEMMA EscapesAre ==
  /\ DOMAIN Escapes = {Quote, Backslash, CR, LF}
  /\ Escapes[Quote] = Quote /\ Escapes[Backslash] = Backslash
  /\ Escapes[CR] = "r" /\ Escapes[LF] = "n"
BY DEF Escapes, Quote, Backslash, CR, LF

LEMMA EscapesInvert ==
  ASSUME NEW c \in DOMAIN Escapes
  PROVE  /\ Escapes[c] # "u"
         /\ (CHOOSE d \in DOMAIN Escapes : Escapes[d] = Escapes[c]) = c
<1>1. Quote # Backslash /\ Quote # "r" /\ Quote # "n" /\ Backslash # "r" /\ Backslash # "n"
  BY DEF Quote, Backslash
<1>2. Quote # "u" /\ Backslash # "u" /\ "r" # "u" /\ "n" # "u" /\ "r" # "n"
  BY DEF Quote, Backslash
<1>3. \A d \in DOMAIN Escapes : Escapes[d] = Escapes[c] => d = c
  BY <1>1, <1>2, EscapesAre
<1>4. Escapes[c] # "u"
  BY <1>2, EscapesAre
<1> DEFINE e == CHOOSE d \in DOMAIN Escapes : Escapes[d] = Escapes[c]
<1>5. e \in DOMAIN Escapes /\ Escapes[e] = Escapes[c]
  OBVIOUS
<1> HIDE DEF e
<1>6. e = c
  BY <1>3, <1>5
<1> QED BY <1>4, <1>6 DEF e

LEMMA ControlIs ==
  ASSUME NEW c \in DOMAIN Control
  PROVE  /\ Control[c] \in Texts /\ Len(Control[c]) = 4
         /\ (CHOOSE d \in DOMAIN Control : Control[d] = Control[c]) = c
<1>1. Control[c] \in String /\ Len(Control[c]) = 4
  BY TextAssumption DEF TextAssumption
<1>2. \A d \in DOMAIN Control : Control[d] = Control[c] => d = c
  BY TextAssumption DEF TextAssumption
<1> DEFINE e == CHOOSE d \in DOMAIN Control : Control[d] = Control[c]
<1>3. e \in DOMAIN Control /\ Control[e] = Control[c]
  OBVIOUS
<1> HIDE DEF e
<1>4. e = c
  BY <1>2, <1>3
<1> QED BY <1>1, <1>4, StringsAreTexts DEF e

LEMMA EscapeIs ==
  ASSUME NEW c \in Symbols
  PROVE  Escape(c) \in Texts /\ Len(Escape(c)) \in Nat \ {0}
<1>1. CASE c \in DOMAIN Escapes
  <2>1. Escapes[c] \in Symbols /\ Backslash \in Symbols
    <3>1. Quote \in Symbols /\ Backslash \in Symbols /\ "r" \in Symbols /\ "n" \in Symbols
      BY DEF Symbols, Marks
    <3> QED BY <1>1, <3>1, EscapesAre
  <2>2. Escape(c) = <<Backslash, Escapes[c]>>
    BY <1>1 DEF Escape
  <2>3. <<Backslash, Escapes[c]>> \in Texts /\ Len(<<Backslash, Escapes[c]>>) > 0
    BY <2>1, TwoText
  <2> QED BY <2>2, <2>3, LenType
<1>2. CASE c \notin DOMAIN Escapes /\ c \in DOMAIN Control
  <2>1. Escape(c) = <<Backslash, "u">> \o Control[c]
    BY <1>2 DEF Escape
  <2>2. <<Backslash, "u">> \in Texts /\ Len(<<Backslash, "u">>) = 2
    <3>1. Backslash \in Symbols /\ "u" \in Symbols
      BY DEF Symbols, Marks
    <3> QED BY <3>1, TwoText
  <2>3. Control[c] \in Texts /\ Len(Control[c]) = 4
    BY <1>2, ControlIs
  <2> QED BY <2>1, <2>2, <2>3, Concat
<1>3. CASE c \notin DOMAIN Escapes /\ c \notin DOMAIN Control
  <2>1. Escape(c) = <<c>>
    BY <1>3 DEF Escape
  <2> QED BY <2>1, OneText, LenType
<1> QED BY <1>1, <1>2, <1>3

Escaped(t) == FlattenSeq([i \in DOMAIN t |-> Escape(t[i])])

(* The definition of Unescape, one place at a time.                        *)
EscapedHere(s, i) == CHOOSE c \in DOMAIN Escapes : Escapes[c] = s[i]
CodedHere(s, i) == CHOOSE c \in DOMAIN Control : Control[c] = SubSeq(s, i, i + 3)
IsCoded(s, i) == i + 5 < Len(s) + 1 /\ s[i + 1] = "u"
IsEscaped(s, i) == i + 1 < Len(s) + 1 /\ \E c \in DOMAIN Escapes : Escapes[c] = s[i + 1]
TextAt(s, f, i) ==
  IF i = Len(s) + 1 \/ s[i] = Quote THEN <<>>
  ELSE IF s[i] # Backslash THEN <<s[i]>> \o f[i + 1]
  ELSE IF IsCoded(s, i) THEN <<CodedHere(s, i + 2)>> \o f[i + 6]
  ELSE IF IsEscaped(s, i) THEN <<EscapedHere(s, i + 1)>> \o f[i + 2]
  ELSE <<"invalid">>

LEMMA UnescapeSteps ==
  ASSUME NEW s \in Texts
  PROVE  \E h : /\ Unescape(s) = h[1]
                /\ \A i \in 1 .. Len(s) + 1 : h[i] = TextAt(s, h, i)
<1> DEFINE n == Len(s)
           W == Symbols \cup {CodedHere(s, i + 2) : i \in 1 .. n}
                        \cup {EscapedHere(s, i + 1) : i \in 1 .. n}
           V == Seq(W)
           Stops(i) == s[i] = Quote
           Plainly(i) == s[i] # Backslash
           next == [i \in 1 .. n |-> IF Stops(i) \/ Plainly(i) THEN i + 1
                                     ELSE IF IsCoded(s, i) THEN i + 6
                                     ELSE IF IsEscaped(s, i) THEN i + 2 ELSE i + 1]
           Step(i, v) == IF Stops(i) THEN <<>>
                         ELSE IF Plainly(i) THEN <<s[i]>> \o v
                         ELSE IF IsCoded(s, i) THEN <<CodedHere(s, i + 2)>> \o v
                         ELSE IF IsEscaped(s, i) THEN <<EscapedHere(s, i + 1)>> \o v
                         ELSE <<"invalid">>
           step == [i \in 1 .. n |-> [v \in V |-> Step(i, v)]]
           Rec(f) == f = [i \in 1 .. Len(s) + 1 |-> TextAt(s, f, i)]
           h == CHOOSE f : Rec(f)
<1>1. Unescape(s) = h[1]
  BY Zenon DEF Unescape, TextAt, IsCoded, IsEscaped, CodedHere, EscapedHere
<1>2. n \in Nat /\ \A i \in 1 .. n : s[i] \in Symbols
  BY LenType DEF Texts
<1>3. next \in Ons(n)
  <2>1. ASSUME NEW i \in 1 .. n PROVE next[i] \in 1 .. n + 1 /\ next[i] > i
    <3> HIDE DEF Stops, Plainly
    <3>1. IsCoded(s, i) => i + 6 <= n + 1
      BY <1>2 DEF IsCoded
    <3>2. IsEscaped(s, i) => i + 2 <= n + 1
      BY <1>2 DEF IsEscaped
    <3> HIDE DEF n
    <3> QED BY <1>2, <3>1, <3>2
  <2>2. next = [i \in 1 .. n |-> next[i]]
    OBVIOUS
  <2> HIDE DEF next
  <2>3. next \in [1 .. n -> 1 .. n + 1]
    BY <2>1, <2>2
  <2> QED BY <2>1, <2>3 DEF Ons
<1>4. step \in StepsOn(V, n)
  <2>1. ASSUME NEW i \in 1 .. n, NEW v \in V PROVE Step(i, v) \in V
    <3>1. \A x \in W : <<x>> \in V
      <4> HIDE DEF W
      <4> QED OBVIOUS
    <3>2. s[i] \in W /\ CodedHere(s, i + 2) \in W /\ EscapedHere(s, i + 1) \in W /\ "invalid" \in W
      <4>1. "invalid" \in Symbols
        BY DEF Symbols, Marks
      <4> HIDE DEF n
      <4> QED BY <1>2, <4>1
    <3>3. \A x \in W : <<x>> \o v \in V
      <4> SUFFICES ASSUME NEW x \in W PROVE <<x>> \o v \in V
        OBVIOUS
      <4>1. <<x>> \in V
        BY <3>1
      <4> HIDE DEF W
      <4> QED BY <4>1, ConcatProperties
    <3>4. <<>> \in V
      OBVIOUS
    <3> HIDE DEF V, W, Stops, Plainly, n
    <3> QED BY <3>1, <3>2, <3>3, <3>4
  <2> HIDE DEF Step, V, n
  <2> QED BY <2>1 DEF StepsOn
<1>5. <<>> \in V
  OBVIOUS
<1> HIDE DEF V, W
<1>6. PICK g \in Reads(V, n, <<>>, next, step) : TRUE
  <2> HIDE DEF n, next, step
  <2> QED BY <1>2, <1>3, <1>4, <1>5, Ascends, Zenon
<1>7. /\ g \in [1 .. n + 1 -> V] /\ g[n + 1] = <<>>
      /\ \A i \in 1 .. n : g[i] = step[i][g[next[i]]]
  <2> HIDE DEF n, next, step
  <2> QED BY <1>6 DEF Reads
<1>8. ASSUME NEW i \in 1 .. n PROVE g[i] = TextAt(s, g, i)
  <2>1. next[i] \in 1 .. n + 1
    <3> HIDE DEF n, next
    <3> QED BY <1>3 DEF Ons
  <2>2. g[next[i]] \in V
    <3> HIDE DEF n, next
    <3> QED BY <2>1, <1>7
  <2>3. g[i] = step[i][g[next[i]]]
    BY <1>7
  <2>4. step[i][g[next[i]]] = Step(i, g[next[i]])
    <3> HIDE DEF Step, next, n
    <3> QED BY <2>2
  <2>5. next[i] = IF Stops(i) \/ Plainly(i) THEN i + 1
                  ELSE IF IsCoded(s, i) THEN i + 6
                  ELSE IF IsEscaped(s, i) THEN i + 2 ELSE i + 1
    OBVIOUS
  <2>6. i # Len(s) + 1
    BY <1>2
  <2>7. TextAt(s, g, i) = IF Stops(i) THEN <<>>
                          ELSE IF Plainly(i) THEN <<s[i]>> \o g[i + 1]
                          ELSE IF IsCoded(s, i) THEN <<CodedHere(s, i + 2)>> \o g[i + 6]
                          ELSE IF IsEscaped(s, i) THEN <<EscapedHere(s, i + 1)>> \o g[i + 2]
                          ELSE <<"invalid">>
    BY <2>6, Zenon DEF TextAt
  <2> DEFINE v == g[next[i]]
  <2>8. g[i] = Step(i, v)
    BY <2>3, <2>4
  <2> HIDE DEF next, step, n, Stops, Plainly
  <2>9. CASE Stops(i)
    BY <2>7, <2>8, <2>9
  <2>10. CASE ~Stops(i) /\ Plainly(i)
    BY <2>5, <2>7, <2>8, <2>10
  <2>11. CASE ~Stops(i) /\ ~Plainly(i) /\ IsCoded(s, i)
    BY <2>5, <2>7, <2>8, <2>11
  <2>12. CASE ~Stops(i) /\ ~Plainly(i) /\ ~IsCoded(s, i) /\ IsEscaped(s, i)
    BY <2>5, <2>7, <2>8, <2>12
  <2>13. CASE ~Stops(i) /\ ~Plainly(i) /\ ~IsCoded(s, i) /\ ~IsEscaped(s, i)
    BY <2>7, <2>8, <2>13
  <2> QED BY <2>9, <2>10, <2>11, <2>12, <2>13
<1>9. Rec(g)
  <2>1. g[n + 1] = TextAt(s, g, n + 1)
    BY <1>7 DEF TextAt
  <2> HIDE DEF n
  <2>2. ASSUME NEW i \in 1 .. n + 1 PROVE g[i] = TextAt(s, g, i)
    <3>1. CASE i = n + 1
      BY <3>1, <2>1
    <3>2. CASE i # n + 1
      BY <1>2, <1>8, <3>2
    <3> QED BY <3>1, <3>2
  <2> QED BY <2>2, <1>7 DEF n
<1>10. Rec(h)
  <2> HIDE DEF Rec
  <2> QED BY <1>9
<1> HIDE DEF h
<1>11. \A i \in 1 .. Len(s) + 1 : h[i] = TextAt(s, h, i)
  BY <1>10
<1> QED BY <1>1, <1>11

LEMMA UnescapeEscaped ==
  ASSUME NEW t \in Texts, NEW x \in Symbols
  PROVE  /\ Escaped(t) \in Texts
         /\ Unescape(Escaped(t) \o <<Quote, x>>) = t
<1> DEFINE n == Len(t)
           M == [i \in 1 .. n |-> Escape(t[i])]
<1>1. n \in Nat /\ DOMAIN t = 1 .. n /\ \A i \in 1 .. n : t[i] \in Symbols
  BY LenType DEF Texts
<1>2. Escaped(t) = FlattenSeq(M)
  BY <1>1 DEF Escaped
<1> HIDE DEF n
<1>3. M \in [1 .. n -> Texts]
  BY <1>1, EscapeIs
<1>4. PICK g : Joins(Symbols, n, M, g)
  <2> HIDE DEF M
  <2> QED BY <1>1, <1>3, JoinsExist DEF Texts
<1>5. /\ FlattenSeq(M) = g[n] /\ g[n] \in Texts /\ g[0] = <<>>
  <2> HIDE DEF M
  <2>1. FlattenSeq(M) = g[n]
    BY <1>1, <1>3, <1>4, JoinedAre DEF Texts
  <2> QED BY <2>1, <1>1, <1>4 DEF Joins, Texts
<1>i. InPlace(n, M, g)
  <2> HIDE DEF M
  <2> QED BY <1>1, <1>3, <1>4, JoinedAt, Zenon
<1>6. \A k \in 1 .. n :
        /\ g[k - 1] \in Texts /\ g[k] \in Texts
        /\ Len(g[k]) = Len(g[k - 1]) + Len(M[k])
        /\ Len(g[k]) <= Len(g[n])
        /\ \A i \in 1 .. Len(M[k]) : g[n][Len(g[k - 1]) + i] = M[k][i]
  <2> HIDE DEF M
  <2> QED BY <1>i, Zenon DEF InPlace
<1> DEFINE e == g[n]
           z == <<Quote, x>>
           s == e \o z
           l == Len(e)
<1>7. /\ s \in Texts /\ Len(s) = l + 2 /\ l \in Nat
      /\ \A i \in 1 .. l : s[i] = e[i]
      /\ s[l + 1] = Quote
  <2>1. z \in Texts /\ Len(z) = 2 /\ z[1] = Quote
    <3>1. Quote \in Symbols
      BY DEF Symbols, Marks
    <3> QED BY <3>1, TwoText
  <2>2. e \in Texts /\ l \in Nat
    BY <1>5, LenType
  <2> HIDE DEF e, z
  <2>3. /\ s \in Texts /\ Len(s) = Len(e) + Len(z)
        /\ \A i \in 1 .. Len(e) + Len(z) : s[i] = IF i <= Len(e) THEN e[i] ELSE z[i - Len(e)]
    BY <2>1, <2>2, Concat, Zenon
  <2> HIDE DEF s
  <2>4. \A i \in 1 .. l + 2 : s[i] = IF i <= l THEN e[i] ELSE z[i - l]
    BY <2>1, <2>3
  <2> HIDE DEF l
  <2>5. s[l + 1] = z[l + 1 - l]
    BY <2>2, <2>4
  <2> QED BY <2>1, <2>2, <2>3, <2>4, <2>5 DEF l
<1> HIDE DEF s
<1>8. PICK h : Unescape(s) = h[1] /\ \A i \in 1 .. Len(s) + 1 : h[i] = TextAt(s, h, i)
  BY <1>7, UnescapeSteps
<1> DEFINE At(k) == Len(g[k]) + 1
           S == {k \in 0 .. n : h[At(n - k)] = SubSeq(t, n - k + 1, n)}
<1> HIDE DEF e
<1>9. 0 \in S
  <2>1. h[l + 1] = <<>>
    <3>1. l + 1 \in 1 .. Len(s) + 1 /\ l + 1 # Len(s) + 1
      <4> HIDE DEF l
      <4> QED BY <1>7
    <3>2. h[l + 1] = TextAt(s, h, l + 1)
      BY <3>1, <1>8
    <3> QED BY <3>1, <3>2, <1>7, Zenon DEF TextAt
  <2>2. SubSeq(t, n + 1, n) = <<>>
    <3>1. SubSeq(t, n + 1, n) \in Texts /\ Len(SubSeq(t, n + 1, n)) = n - (n + 1) + 1
      <4>1. n + 1 \in Int /\ n \in Int /\ 1 <= n + 1 /\ n + 1 <= n + 1 /\ n <= Len(t)
        BY <1>1 DEF n
      <4> QED BY <4>1, Part, Zenon
    <3>2. n - (n + 1) + 1 = 0
      BY <1>1
    <3> QED BY <3>1, <3>2 DEF Texts
  <2>3. n - 0 = n /\ At(n) = l + 1 /\ 0 \in 0 .. n
    BY <1>1 DEF e
  <2> HIDE DEF At
  <2> QED BY <2>1, <2>2, <2>3
<1>10. ASSUME NEW k \in 0 .. n - 1, k \in S PROVE k + 1 \in S
  <2> DEFINE m == n - k
             c == t[m]
             w == Escape(c)
             p == At(m - 1)
             rest == SubSeq(t, m + 1, n)
  <2>1. m \in 1 .. n /\ n - (k + 1) = m - 1 /\ n - (k + 1) + 1 = m /\ k + 1 \in 0 .. n
    BY <1>1, <1>10
  <2>2. h[At(m)] = rest
    BY <1>10
  <2> HIDE DEF m
  <2>3. c \in Symbols /\ w \in Texts /\ Len(w) \in Nat \ {0} /\ M[m] = w
    BY <1>1, <2>1, EscapeIs
  <2>4. /\ p \in Nat \ {0} /\ At(m) = p + Len(w) /\ p + Len(w) <= l + 1
        /\ \A i \in 1 .. Len(w) : s[p + i - 1] = w[i]
    <3> DEFINE a == Len(g[m - 1])
    <3> HIDE DEF M, w
    <3>1. /\ a \in Nat /\ Len(g[m]) = a + Len(w) /\ Len(g[m]) <= l
          /\ \A i \in 1 .. Len(w) : e[a + i] = w[i]
      <4>1. g[m - 1] \in Texts
        BY <2>1, <1>6
      <4> QED BY <4>1, <2>1, <2>3, <1>6, LenType DEF e
    <3>2. p = a + 1 /\ At(m) = Len(g[m]) + 1
      OBVIOUS
    <3> HIDE DEF a, p, At, l
    <3>3. ASSUME NEW i \in 1 .. Len(w) PROVE s[p + i - 1] = w[i]
      <4>1. a + i \in 1 .. l /\ p + i - 1 = a + i
        BY <3>1, <3>2, <2>3, <1>7
      <4> QED BY <4>1, <3>1, <1>7
    <3>4. p \in Nat \ {0} /\ At(m) = p + Len(w) /\ p + Len(w) <= l + 1
      BY <3>1, <3>2, <2>3, <1>7
    <3> QED BY <3>3, <3>4, Zenon
  <2> HIDE DEF At, p, w, c, rest, l
  <2>5. p \in 1 .. Len(s) + 1 /\ p # Len(s) + 1 /\ h[p] = TextAt(s, h, p)
    <3>1. p \in 1 .. Len(s) + 1 /\ p # Len(s) + 1
      BY <2>3, <2>4, <1>7
    <3> QED BY <3>1, <1>8
  <2>6. h[p] = <<c>> \o h[p + Len(w)]
    <3>1. CASE c \in DOMAIN Escapes
      <4>1. w = <<Backslash, Escapes[c]>>
        BY <3>1 DEF Escape, w
      <4>2. Len(w) = 2 /\ w[1] = Backslash /\ w[2] = Escapes[c]
        BY <4>1
      <4>3. s[p] = Backslash /\ s[p + 1] = Escapes[c]
        <5>1. s[p + 1 - 1] = w[1] /\ s[p + 2 - 1] = w[2] /\ p + 1 - 1 = p /\ p + 2 - 1 = p + 1
          BY <2>4, <4>2
        <5> QED BY <5>1, <4>2
      <4>4. ~IsCoded(s, p)
        BY <3>1, <4>3, EscapesInvert DEF IsCoded
      <4>5. IsEscaped(s, p)
        BY <3>1, <4>2, <4>3, <2>4, <1>7 DEF IsEscaped
      <4>6. EscapedHere(s, p + 1) = c
        <5> DEFINE F(v) == CHOOSE d \in DOMAIN Escapes : Escapes[d] = v
        <5>1. EscapedHere(s, p + 1) = F(s[p + 1])
          BY Zenon DEF EscapedHere
        <5>2. F(Escapes[c]) = c
          BY <3>1, EscapesInvert, Zenon
        <5> HIDE DEF F
        <5> QED BY <5>1, <5>2, <4>3
      <4>7. s[p] # Quote
        BY <4>3 DEF Quote, Backslash
      <4> QED BY <2>5, <4>2, <4>3, <4>4, <4>5, <4>6, <4>7, Zenon DEF TextAt
    <3>2. CASE c \notin DOMAIN Escapes /\ c \in DOMAIN Control
      <4> DEFINE code == Control[c]
                 u == <<Backslash, "u">>
      <4>1. w = u \o code
        BY <3>2 DEF Escape, w
      <4>2. u \in Texts /\ Len(u) = 2 /\ u[1] = Backslash /\ u[2] = "u"
        <5>1. Backslash \in Symbols /\ "u" \in Symbols
          BY DEF Symbols, Marks
        <5> QED BY <5>1, TwoText
      <4>3. code \in Texts /\ Len(code) = 4
        BY <3>2, ControlIs
      <4> HIDE DEF u, code
      <4>4. /\ Len(w) = Len(u) + Len(code)
            /\ \A i \in 1 .. Len(u) + Len(code) : w[i] = IF i <= Len(u) THEN u[i] ELSE code[i - Len(u)]
        BY <4>1, <4>2, <4>3, Concat, Zenon
      <4>5. Len(w) = 6 /\ w[1] = Backslash /\ w[2] = "u" /\ \A i \in 1 .. 4 : w[i + 2] = code[i]
        BY <4>2, <4>3, <4>4
      <4>6. s[p] = Backslash /\ s[p + 1] = "u"
        <5>1. s[p + 1 - 1] = w[1] /\ s[p + 2 - 1] = w[2] /\ p + 1 - 1 = p /\ p + 2 - 1 = p + 1
          BY <2>4, <4>5
        <5> QED BY <5>1, <4>5
      <4>7. SubSeq(s, p + 2, p + 2 + 3) = code
        <5> DEFINE v == SubSeq(s, p + 2, p + 5)
        <5>1. v \in Texts /\ Len(v) = 4 /\ \A i \in 1 .. 4 : v[i] = s[p + 2 + i - 1]
          <6> DEFINE from == p + 2
                     to == p + 5
          <6>1. from \in Int /\ to \in Int /\ 1 <= from /\ from <= to + 1 /\ to <= Len(s)
                /\ to - from + 1 = 4
            BY <2>4, <4>5, <1>7
          <6> HIDE DEF from, to
          <6>2. /\ SubSeq(s, from, to) \in Texts /\ Len(SubSeq(s, from, to)) = to - from + 1
                /\ \A i \in 1 .. to - from + 1 : SubSeq(s, from, to)[i] = s[from + i - 1]
            BY <6>1, <1>7, Part, Zenon
          <6>3. v = SubSeq(s, from, to)
            BY DEF from, to
          <6> HIDE DEF v
          <6> QED BY <6>1, <6>2, <6>3 DEF from
        <5> HIDE DEF v
        <5>2. ASSUME NEW i \in 1 .. 4 PROVE v[i] = code[i]
          <6>1. i + 2 \in 1 .. Len(w) /\ p + (i + 2) - 1 = p + 2 + i - 1
            BY <4>5, <2>4
          <6>2. s[p + (i + 2) - 1] = w[i + 2]
            BY <6>1, <2>4
          <6> QED BY <6>1, <6>2, <5>1, <4>5
        <5>3. v = code
          BY <5>1, <5>2, <4>3, SameText
        <5>4. p + 2 + 3 = p + 5
          BY <2>4
        <5> QED BY <5>3, <5>4 DEF v
      <4>8. CodedHere(s, p + 2) = c
        <5> DEFINE F(v) == CHOOSE d \in DOMAIN Control : Control[d] = v
        <5>1. CodedHere(s, p + 2) = F(SubSeq(s, p + 2, p + 2 + 3))
          BY Zenon DEF CodedHere
        <5>2. F(code) = c
          BY <3>2, ControlIs, Zenon DEF code
        <5> HIDE DEF F
        <5> QED BY <5>1, <5>2, <4>7, Zenon
      <4>9. IsCoded(s, p)
        BY <4>5, <4>6, <2>4, <1>7 DEF IsCoded
      <4>10. s[p] # Quote
        BY <4>6 DEF Quote, Backslash
      <4> QED BY <2>5, <4>5, <4>6, <4>8, <4>9, <4>10, Zenon DEF TextAt
    <3>3. CASE c \notin DOMAIN Escapes /\ c \notin DOMAIN Control
      <4>1. w = <<c>>
        BY <3>3 DEF Escape, w
      <4>2. Len(w) = 1 /\ w[1] = c
        BY <4>1
      <4>3. s[p] = c
        <5>1. s[p + 1 - 1] = w[1] /\ p + 1 - 1 = p
          BY <2>4, <4>2
        <5> QED BY <5>1, <4>2
      <4>4. c # Quote /\ c # Backslash
        BY <3>3, EscapesAre
      <4> QED BY <2>5, <4>2, <4>3, <4>4, Zenon DEF TextAt
    <3> QED BY <3>1, <3>2, <3>3
  <2>7. <<c>> \o rest = SubSeq(t, m, n)
    <3>1. SubSeq(t, m, m) \o SubSeq(t, m + 1, n) = SubSeq(t, m, n)
      BY <1>1, <2>1, PartsJoin DEF n
    <3>2. SubSeq(t, m, m) = <<c>>
      <4> DEFINE v == SubSeq(t, m, m)
      <4>1. v \in Texts /\ Len(v) = 1 /\ v[1] = t[m]
        <5>1. m \in Int /\ 1 <= m /\ m <= m + 1 /\ m <= Len(t) /\ m - m + 1 = 1
          BY <1>1, <2>1 DEF n
        <5>2. v \in Texts /\ Len(v) = m - m + 1 /\ \A i \in 1 .. m - m + 1 : v[i] = t[m + i - 1]
          BY <5>1, Part, Zenon
        <5> HIDE DEF v
        <5>3. v[1] = t[m + 1 - 1] /\ m + 1 - 1 = m
          BY <5>1, <5>2
        <5> QED BY <5>1, <5>2, <5>3
      <4> HIDE DEF v
      <4>2. v = <<c>>
        BY <4>1 DEF Texts, c
      <4> QED BY <4>2 DEF v
    <3> QED BY <3>1, <3>2, Zenon DEF rest
  <2>8. h[p] = SubSeq(t, m, n)
    BY <2>2, <2>4, <2>6, <2>7
  <2> QED BY <2>1, <2>8 DEF p
<1>11. h[1] = t
  <2>1. n \in S
    <3> HIDE DEF S
    <3>1. 0 .. n \subseteq S
      BY <1>1, <1>9, <1>10, UpTo
    <3> QED BY <1>1, <3>1
  <2>2. n - n = 0 /\ n - n + 1 = 1
    BY <1>1
  <2>3. h[At(0)] = SubSeq(t, 1, n)
    <3> HIDE DEF At
    <3> QED BY <2>1, <2>2
  <2>4. At(0) = 1
    BY <1>5
  <2>5. SubSeq(t, 1, n) = t
    BY SubSeqFull DEF Texts, n
  <2> QED BY <2>3, <2>4, <2>5
<1> QED BY <1>2, <1>5, <1>8, <1>11, Zenon DEF s, e

-----------------------------------------------------------------------------
(* Where the parts of a text are.                                          *)

LEMMA HereSelf ==
  ASSUME NEW s \in Texts
  PROVE  Here(s, 1, s)
<1>1. \A k \in 1 .. Len(s) : 1 + k - 1 = k /\ k \in 1 .. Len(s)
  BY LenType
<1> QED BY <1>1 DEF Here

LEMMA HereInside ==
  ASSUME NEW s \in Texts, NEW x \in Texts, NEW p \in Texts, NEW i \in Nat \ {0}, NEW j \in Nat \ {0},
         Here(s, i, x), Here(x, j, p)
  PROVE  Here(s, i + j - 1, p)
<1>1. ASSUME NEW k \in 1 .. Len(p)
      PROVE  (i + j - 1) + k - 1 \in 1 .. Len(s) /\ s[(i + j - 1) + k - 1] = p[k]
  <2> DEFINE m == j + k - 1
  <2>1. m \in 1 .. Len(x) /\ x[m] = p[k]
    BY DEF Here
  <2>2. i + m - 1 \in 1 .. Len(s) /\ s[i + m - 1] = x[m]
    <3> HIDE DEF m
    <3> QED BY <2>1 DEF Here
  <2>3. k \in Nat /\ i + m - 1 = (i + j - 1) + k - 1
    BY LenType
  <2> QED BY <2>1, <2>2, <2>3
<1> QED BY <1>1 DEF Here

LEMMA HereIsPart ==
  ASSUME NEW s \in Texts, NEW p \in Texts, NEW i \in Nat \ {0}, i <= Len(s) + 1, Here(s, i, p)
  PROVE  SubSeq(s, i, i + Len(p) - 1) = p /\ i + Len(p) - 1 <= Len(s)
<1>1. Len(p) \in Nat /\ Len(s) \in Nat
  BY LenType
<1> DEFINE e == i + Len(p) - 1
           q == SubSeq(s, i, e)
<1>2. e <= Len(s)
  <2>1. CASE Len(p) = 0
    BY <1>1, <2>1
  <2>2. CASE Len(p) # 0
    <3>1. i + Len(p) - 1 \in 1 .. Len(s)
      <4>1. Len(p) \in 1 .. Len(p)
        BY <1>1, <2>2
      <4> QED BY <4>1 DEF Here
    <3> QED BY <3>1, <1>1
  <2> QED BY <2>1, <2>2
<1>3. i \in Int /\ e \in Int /\ 1 <= i /\ i <= e + 1 /\ e - i + 1 = Len(p)
  BY <1>1
<1> HIDE DEF e
<1>4. q \in Texts /\ Len(q) = e - i + 1 /\ \A n \in 1 .. e - i + 1 : q[n] = s[i + n - 1]
  BY <1>2, <1>3, Part, Zenon
<1> HIDE DEF q
<1>5. \A n \in 1 .. Len(q) : q[n] = p[n]
  BY <1>3, <1>4 DEF Here
<1>6. q = p
  BY <1>3, <1>4, <1>5, SameText
<1> QED BY <1>2, <1>6 DEF q, e

Laid2(s, a, b) ==
  /\ s \in Texts /\ Len(s) = Len(a) + Len(b)
  /\ Here(s, 1, a) /\ Here(s, 1 + Len(a), b)

LEMMA TwoParts ==
  ASSUME NEW a \in Texts, NEW b \in Texts
  PROVE  Laid2(a \o b, a, b)
<1> DEFINE s == a \o b
<1>1. /\ s \in Texts /\ Len(s) = Len(a) + Len(b)
      /\ \A i \in 1 .. Len(a) + Len(b) : s[i] = IF i <= Len(a) THEN a[i] ELSE b[i - Len(a)]
  BY Concat, Zenon
<1>2. Len(a) \in Nat /\ Len(b) \in Nat
  BY LenType
<1> HIDE DEF s
<1>3. ASSUME NEW k \in 1 .. Len(a) PROVE 1 + k - 1 \in 1 .. Len(s) /\ s[1 + k - 1] = a[k]
  BY <1>1, <1>2
<1>4. ASSUME NEW k \in 1 .. Len(b) PROVE 1 + Len(a) + k - 1 \in 1 .. Len(s) /\ s[1 + Len(a) + k - 1] = b[k]
  <2> DEFINE i == 1 + Len(a) + k - 1
  <2>1. i \in 1 .. Len(a) + Len(b) /\ ~(i <= Len(a)) /\ i - Len(a) = k
    BY <1>2
  <2> HIDE DEF i
  <2>2. i \in 1 .. Len(s) /\ s[i] = b[i - Len(a)]
    BY <1>1, <2>1
  <2> QED BY <2>1, <2>2 DEF i
<1> QED BY <1>1, <1>3, <1>4 DEF Laid2, Here, s

Laid3(s, a, b, c) ==
  /\ s \in Texts /\ Len(s) = Len(a) + Len(b) + Len(c)
  /\ Here(s, 1, a) /\ Here(s, 1 + Len(a), b) /\ Here(s, 1 + Len(a) + Len(b), c)

LEMMA ThreeParts ==
  ASSUME NEW a \in Texts, NEW b \in Texts, NEW c \in Texts
  PROVE  Laid3(a \o b \o c, a, b, c)
<1> DEFINE t == a \o b
           s == t \o c
<1>1. t \in Texts /\ Len(t) = Len(a) + Len(b) /\ Here(t, 1, a) /\ Here(t, 1 + Len(a), b)
  BY TwoParts, Zenon DEF Laid2
<1> HIDE DEF t
<1>2. s \in Texts /\ Len(s) = Len(t) + Len(c) /\ Here(s, 1, t) /\ Here(s, 1 + Len(t), c)
  BY <1>1, TwoParts, Zenon DEF Laid2
<1> HIDE DEF s
<1>3. Len(a) \in Nat /\ Len(b) \in Nat /\ Len(c) \in Nat
  BY LenType
<1>4. Here(s, 1, a)
  <2>1. 1 \in Nat \ {0} /\ 1 + 1 - 1 = 1
    OBVIOUS
  <2>2. Here(s, 1 + 1 - 1, a)
    BY <1>1, <1>2, <2>1, HereInside, Zenon
  <2> QED BY <2>1, <2>2
<1>5. Here(s, 1 + Len(a), b)
  <2> DEFINE j == 1 + Len(a)
  <2>1. 1 \in Nat \ {0} /\ j \in Nat \ {0} /\ 1 + j - 1 = j
    BY <1>3
  <2> HIDE DEF j
  <2>2. Here(s, 1 + j - 1, b)
    <3>1. Here(t, j, b)
      BY <1>1 DEF j
    <3> QED BY <3>1, <1>1, <1>2, <2>1, HereInside, Zenon
  <2> QED BY <2>1, <2>2 DEF j
<1>6. 1 + Len(t) = 1 + Len(a) + Len(b) /\ Len(s) = Len(a) + Len(b) + Len(c)
  BY <1>1, <1>2, <1>3
<1>7. Here(s, 1 + Len(a) + Len(b), c)
  BY <1>2, <1>6
<1> QED BY <1>2, <1>4, <1>5, <1>6, <1>7, Zenon DEF Laid3, s, t

Laid4(s, a, b, c, d) ==
  /\ s \in Texts /\ Len(s) = Len(a) + Len(b) + Len(c) + Len(d)
  /\ Here(s, 1, a) /\ Here(s, 1 + Len(a), b) /\ Here(s, 1 + Len(a) + Len(b), c)
  /\ Here(s, 1 + Len(a) + Len(b) + Len(c), d)

LEMMA FourParts ==
  ASSUME NEW a \in Texts, NEW b \in Texts, NEW c \in Texts, NEW d \in Texts
  PROVE  Laid4(a \o b \o c \o d, a, b, c, d)
<1> DEFINE t == a \o b \o c
           s == t \o d
<1>1. /\ t \in Texts /\ Len(t) = Len(a) + Len(b) + Len(c)
      /\ Here(t, 1, a) /\ Here(t, 1 + Len(a), b) /\ Here(t, 1 + Len(a) + Len(b), c)
  BY ThreeParts, Zenon DEF Laid3
<1> HIDE DEF t
<1>2. s \in Texts /\ Len(s) = Len(t) + Len(d) /\ Here(s, 1, t) /\ Here(s, 1 + Len(t), d)
  BY <1>1, TwoParts, Zenon DEF Laid2
<1> HIDE DEF s
<1>3. Len(a) \in Nat /\ Len(b) \in Nat /\ Len(c) \in Nat /\ Len(d) \in Nat
  BY LenType
<1>4. ASSUME NEW j \in Nat \ {0}, NEW p \in Texts, Here(t, j, p) PROVE Here(s, j, p)
  <2>1. 1 \in Nat \ {0} /\ 1 + j - 1 = j
    OBVIOUS
  <2>2. Here(s, 1 + j - 1, p)
    BY <1>1, <1>2, <1>4, <2>1, HereInside, Zenon
  <2> QED BY <2>1, <2>2
<1>5. 1 + Len(a) \in Nat \ {0} /\ 1 + Len(a) + Len(b) \in Nat \ {0} /\ 1 \in Nat \ {0}
  BY <1>3
<1>6. 1 + Len(t) = 1 + Len(a) + Len(b) + Len(c) /\ Len(s) = Len(a) + Len(b) + Len(c) + Len(d)
  BY <1>1, <1>2, <1>3
<1>7. Here(s, 1, a) /\ Here(s, 1 + Len(a), b) /\ Here(s, 1 + Len(a) + Len(b), c)
  BY <1>1, <1>4, <1>5, Zenon
<1>8. Here(s, 1 + Len(a) + Len(b) + Len(c), d)
  BY <1>2, <1>6
<1> QED BY <1>2, <1>6, <1>7, <1>8, Zenon DEF Laid4, s, t

-----------------------------------------------------------------------------
(* One chunk of an answer.                                                 *)
LEMMA Grouped ==
  ASSUME NEW a \in Texts, NEW b \in Texts, NEW c \in Texts
  PROVE  (a \o b) \o c = a \o (b \o c)
BY ConcatAssociative DEF Texts

LastMark(l) == IF l THEN "is_last: true}" ELSE "is_last: false}"
Opening == <<"{", Quote, "chunk", Quote, ":", Quote>>
Data(t, l) == Opening \o (Escaped(t) \o <<Quote, LastMark(l)>>)

LEMMA DataIs ==
  ASSUME NEW t \in Texts, NEW l \in BOOLEAN
  PROVE  /\ build_json_response_chunk(t, l) = Data(t, l)
         /\ Data(t, l) \in Texts /\ Len(Data(t, l)) \in Nat /\ Len(Data(t, l)) > 0
         /\ Unescape(From(Data(t, l), 7)) = t
         /\ Last(Data(t, l)) = LastMark(l)
<1> DEFINE e == Escaped(t)
           x == LastMark(l)
           end == <<Quote, x>>
           rest == e \o end
           d == Opening \o rest
<1>1. x \in Symbols /\ Quote \in Symbols /\ "{" \in Symbols /\ "chunk" \in Symbols /\ ":" \in Symbols
  BY DEF Symbols, Marks, LastMark
<1> HIDE DEF x
<1>2. e \in Texts /\ Unescape(e \o <<Quote, x>>) = t
  BY <1>1, UnescapeEscaped, Zenon
<1> HIDE DEF e
<1>3. Opening \in Texts /\ Len(Opening) = 6
  <2>1. Opening \in Texts
    BY <1>1, SixText, Zenon DEF Opening
  <2> QED BY <2>1 DEF Opening
<1>4. end \in Texts /\ Len(end) = 2 /\ end[1] = Quote /\ end[2] = x
  <2>1. end \in Texts
    BY <1>1, TwoText, Zenon
  <2> QED BY <2>1
<1> HIDE DEF end
<1>5. Laid2(rest, e, end)
  BY <1>2, <1>4, TwoParts, Zenon
<1>6. rest \in Texts /\ Len(rest) = Len(e) + 2 /\ Here(rest, 1 + Len(e), end) /\ Len(e) \in Nat
  BY <1>2, <1>4, <1>5, LenType DEF Laid2
<1>7. build_json_response_chunk(t, l) = d
  <2>1. build_json_response_chunk(t, l) = (Opening \o e) \o end
    BY Zenon DEF build_json_response_chunk, Opening, e, Escaped, x, end, LastMark
  <2>3. (Opening \o e) \o end = Opening \o (e \o end)
    BY <1>2, <1>3, <1>4, Grouped
  <2> QED BY <2>1, <2>3, Zenon
<1> HIDE DEF rest
<1>8. d \in Texts /\ Len(d) = 6 + Len(rest) /\ Here(d, 7, rest)
  <2>1. Laid2(d, Opening, rest)
    BY <1>3, <1>6, TwoParts, Zenon
  <2> QED BY <2>1, <1>3 DEF Laid2
<1> HIDE DEF d
<1>9. Len(d) \in Nat /\ Len(d) > 0 /\ 7 \in Nat \ {0} /\ 7 <= Len(d) + 1 /\ 7 + Len(rest) - 1 = Len(d)
  BY <1>6, <1>8
<1>10. From(d, 7) = rest
  <2>1. SubSeq(d, 7, 7 + Len(rest) - 1) = rest
    BY <1>6, <1>8, <1>9, HereIsPart, Zenon
  <2> QED BY <2>1, <1>9, Zenon DEF From
<1>11. d[Len(d)] = x
  <2>1. rest[Len(rest)] = x
    <3>1. 2 \in 1 .. Len(end)
      BY <1>4
    <3>2. rest[1 + Len(e) + 2 - 1] = end[2]
      BY <3>1, <1>6, Zenon DEF Here
    <3>3. 1 + Len(e) + 2 - 1 = Len(rest)
      BY <1>6
    <3> QED BY <3>2, <3>3, <1>4
  <2>2. Len(rest) \in 1 .. Len(rest)
    BY <1>6
  <2>3. d[7 + Len(rest) - 1] = rest[Len(rest)]
    BY <2>2, <1>8, Zenon DEF Here
  <2> QED BY <2>1, <2>3, <1>9
<1>12. Last(d) = x
  BY <1>11, Zenon DEF Last
<1>13. Unescape(From(d, 7)) = t
  BY <1>2, <1>10, Zenon DEF rest, end
<1>14. Data(t, l) = d
  BY Zenon DEF Data, d, rest, e, end, x
<1> QED BY <1>7, <1>8, <1>9, <1>12, <1>13, <1>14, Zenon DEF x

(* What is written for one piece of an answer.                             *)
ChunkText(p) ==
  Numeral(Len(Data(p.text, p.is_last)), 16) \o CRLF \o Data(p.text, p.is_last) \o CRLF
Pieces == [text : Texts, is_last : BOOLEAN]

LEMMA ChunkIs ==
  ASSUME NEW p \in Pieces
  PROVE  /\ ChunkOf(p) = ChunkText(p) /\ ChunkOf(p) \in Texts
         /\ Laid4(ChunkOf(p), Numeral(Len(Data(p.text, p.is_last)), 16), CRLF,
                  Data(p.text, p.is_last), CRLF)
<1>1. p.text \in Texts /\ p.is_last \in BOOLEAN
  BY DEF Pieces
<1> DEFINE d == Data(p.text, p.is_last)
<1>2. build_json_response_chunk(p.text, p.is_last) = d /\ d \in Texts /\ Len(d) \in Nat
  BY <1>1, DataIs, Zenon
<1> HIDE DEF d
<1>3. 16 \in {10, 16} /\ CRLF \in Texts
  BY MarksAreTexts
<1>4. Numeral(Len(d), 16) \in Texts
  BY <1>2, <1>3, NumeralReads, Zenon
<1>5. ChunkOf(p) = Numeral(Len(d), 16) \o CRLF \o d \o CRLF
  BY <1>2, Zenon DEF ChunkOf, buildHttpChunk
<1>6. Laid4(Numeral(Len(d), 16) \o CRLF \o d \o CRLF, Numeral(Len(d), 16), CRLF, d, CRLF)
  BY <1>2, <1>3, <1>4, FourParts, Zenon
<1> QED BY <1>5, <1>6, Zenon DEF ChunkText, d, Laid4

(* The definition of ReadChunks, one place at a time.                      *)
LineAt(s, i) == find(s, CRLF, i)
SizeAt(s, i) == Value(SubSeq(s, i, LineAt(s, i) - 1), 16)
DataAt(s, i) == SubSeq(s, LineAt(s, i) + 2, LineAt(s, i) + 1 + SizeAt(s, i))
PieceAt(s, i) ==
  [text |-> Unescape(From(DataAt(s, i), 7)), is_last |-> Last(DataAt(s, i)) = "is_last: true}"]
Damaged(s, i) ==
  LineAt(s, i) = npos \/ SizeAt(s, i) \notin Nat \/ ~OccursAt(s, LineAt(s, i) + 2 + SizeAt(s, i), CRLF)
ChunkAt(s, f, i) ==
  IF Damaged(s, i) THEN <<broken>>
  ELSE IF SizeAt(s, i) = 0 THEN IF From(s, i) = final_chunk THEN <<>> ELSE <<broken>>
  ELSE <<PieceAt(s, i)>> \o f[LineAt(s, i) + SizeAt(s, i) + 4]

LEMMA ReadChunksSteps ==
  ASSUME NEW s \in Texts
  PROVE  \E h : /\ ReadChunks(s) = h[1]
                /\ \A i \in 1 .. Len(s) + 1 : h[i] = ChunkAt(s, h, i)
<1> DEFINE n == Len(s)
           W == {broken} \cup {PieceAt(s, i) : i \in 1 .. n}
           V == Seq(W)
           Ends(i) == Damaged(s, i) \/ SizeAt(s, i) = 0
           next == [i \in 1 .. n |-> IF Ends(i) THEN i + 1 ELSE LineAt(s, i) + SizeAt(s, i) + 4]
           Step(i, v) == IF Damaged(s, i) THEN <<broken>>
                         ELSE IF SizeAt(s, i) = 0 THEN IF From(s, i) = final_chunk THEN <<>> ELSE <<broken>>
                         ELSE <<PieceAt(s, i)>> \o v
           step == [i \in 1 .. n |-> [v \in V |-> Step(i, v)]]
           Rec(f) == f = [i \in 1 .. Len(s) + 1 |-> ChunkAt(s, f, i)]
           h == CHOOSE f : Rec(f)
<1>1. ReadChunks(s) = h[1]
  BY Zenon DEF ReadChunks, ChunkAt, LineAt, SizeAt, DataAt, PieceAt, Damaged
<1>2. n \in Nat /\ CRLF \in Texts /\ Len(CRLF) = 2
  <2>1. Len(CRLF) = 2
    BY DEF CRLF
  <2> QED BY <2>1, LenType, MarksAreTexts
<1>3. ASSUME NEW i \in 1 .. n + 1, ~Damaged(s, i)
      PROVE  /\ LineAt(s, i) \in i .. n /\ SizeAt(s, i) \in Nat
             /\ LineAt(s, i) + SizeAt(s, i) + 4 \in i + 1 .. n + 1
  <2> DEFINE line == LineAt(s, i)
             size == SizeAt(s, i)
  <2>1. line # npos /\ size \in Nat /\ OccursAt(s, line + 2 + size, CRLF)
    BY <1>3, Zenon DEF Damaged
  <2>2. i \in Nat /\ Len(CRLF) > 0
    BY <1>2
  <2>3. line \in Nat /\ (line # npos => line \in i .. Len(s))
    BY <1>2, <2>2, FindType, Zenon DEF LineAt
  <2> DEFINE u == line + 2 + size
  <2>4. u + Len(CRLF) - 1 <= Len(s)
    BY <2>1, Zenon DEF OccursAt
  <2> HIDE DEF line, size
  <2>5. line \in i .. n /\ u + 1 <= n
    BY <2>1, <2>3, <2>4, <1>2
  <2> HIDE DEF n
  <2> QED BY <2>1, <2>5, <1>2 DEF line, size
<1>4. next \in Ons(n)
  <2>1. ASSUME NEW i \in 1 .. n PROVE next[i] \in 1 .. n + 1 /\ next[i] > i
    <3>1. CASE Ends(i)
      <4> HIDE DEF Ends, n
      <4> QED BY <3>1, <1>2
    <3>2. CASE ~Ends(i)
      <4>1. ~Damaged(s, i)
        BY <3>2
      <4>2. next[i] = LineAt(s, i) + SizeAt(s, i) + 4
        BY <3>2
      <4> HIDE DEF next, n, Ends
      <4>3. i \in 1 .. n + 1
        BY <1>2
      <4> DEFINE u == LineAt(s, i) + SizeAt(s, i) + 4
      <4>4. u \in i + 1 .. n + 1
        BY <4>1, <4>3, <1>3, Zenon
      <4>5. next[i] = u
        BY <4>2
      <4> HIDE DEF u
      <4> QED BY <4>4, <4>5, <1>2
    <3> QED BY <3>1, <3>2
  <2>2. next = [i \in 1 .. n |-> next[i]]
    OBVIOUS
  <2> HIDE DEF next
  <2>3. next \in [1 .. n -> 1 .. n + 1]
    BY <2>1, <2>2
  <2> QED BY <2>1, <2>3 DEF Ons
<1>5. <<broken>> \in V /\ <<>> \in V
  <2>1. broken \in W
    OBVIOUS
  <2> HIDE DEF W
  <2> QED BY <2>1
<1>6. step \in StepsOn(V, n)
  <2>1. ASSUME NEW i \in 1 .. n, NEW v \in V PROVE Step(i, v) \in V
    <3>1. PieceAt(s, i) \in W
      <4> HIDE DEF n
      <4> QED OBVIOUS
    <3> DEFINE x == PieceAt(s, i)
    <3> HIDE DEF W, x
    <3>2. x \in W
      BY <3>1 DEF x
    <3>3. <<x>> \in V
      BY <3>2
    <3>4. <<x>> \o v \in V
      BY <3>3, ConcatProperties
    <3> HIDE DEF V, n
    <3> QED BY <1>5, <3>4 DEF x
  <2> HIDE DEF Step, V, n
  <2> QED BY <2>1 DEF StepsOn
<1> HIDE DEF V, W
<1>7. PICK g \in Reads(V, n, <<broken>>, next, step) : TRUE
  <2> HIDE DEF n, next, step
  <2> QED BY <1>2, <1>4, <1>5, <1>6, Ascends, Zenon
<1>8. /\ g \in [1 .. n + 1 -> V] /\ g[n + 1] = <<broken>>
      /\ \A i \in 1 .. n : g[i] = step[i][g[next[i]]]
  <2> HIDE DEF n, next, step
  <2> QED BY <1>7 DEF Reads
<1>9. ASSUME NEW i \in 1 .. n PROVE g[i] = ChunkAt(s, g, i)
  <2>1. next[i] \in 1 .. n + 1
    <3> HIDE DEF n, next
    <3> QED BY <1>4 DEF Ons
  <2>2. g[next[i]] \in V
    <3> HIDE DEF n, next
    <3> QED BY <2>1, <1>8
  <2>3. g[i] = step[i][g[next[i]]]
    BY <1>8
  <2>4. step[i][g[next[i]]] = Step(i, g[next[i]])
    <3> HIDE DEF Step, next, n
    <3> QED BY <2>2
  <2>5. ~Ends(i) => next[i] = LineAt(s, i) + SizeAt(s, i) + 4
    OBVIOUS
  <2> DEFINE v == g[next[i]]
  <2>6. g[i] = Step(i, v)
    BY <2>3, <2>4
  <2> HIDE DEF next, step, n
  <2>7. CASE Ends(i)
    BY <2>6, <2>7, Zenon DEF ChunkAt
  <2>8. CASE ~Ends(i)
    <3>1. ~Damaged(s, i) /\ SizeAt(s, i) # 0 /\ v = g[LineAt(s, i) + SizeAt(s, i) + 4]
      BY <2>5, <2>8
    <3> HIDE DEF v
    <3> QED BY <2>6, <3>1, Zenon DEF ChunkAt
  <2> QED BY <2>7, <2>8
<1>10. Rec(g)
  <2>1. g[n + 1] = ChunkAt(s, g, n + 1)
    <3> DEFINE i == n + 1
    <3>1. i \in 1 .. n + 1
      BY <1>2
    <3>2. ~(LineAt(s, i) \in i .. n)
      <4>1. i .. n = {}
        BY <1>2
      <4> QED BY <4>1
    <3> HIDE DEF i, n
    <3>3. Damaged(s, i)
      BY <3>1, <3>2, <1>3, Zenon
    <3> QED BY <3>3, <1>8, Zenon DEF ChunkAt, i
  <2> HIDE DEF n
  <2>2. ASSUME NEW i \in 1 .. n + 1 PROVE g[i] = ChunkAt(s, g, i)
    <3>1. CASE i = n + 1
      BY <3>1, <2>1
    <3>2. CASE i # n + 1
      BY <1>2, <1>9, <3>2
    <3> QED BY <3>1, <3>2
  <2> QED BY <2>2, <1>8 DEF n
<1>11. Rec(h)
  <2> HIDE DEF Rec
  <2> QED BY <1>10
<1> HIDE DEF h
<1>12. \A i \in 1 .. Len(s) + 1 : h[i] = ChunkAt(s, h, i)
  BY <1>11
<1> QED BY <1>1, <1>12

(* A line is what comes before its end.                                    *)
LEMMA LineFound ==
  ASSUME NEW s \in Texts, NEW t \in Texts, NEW i \in Nat \ {0}, Len(t) > 0,
         \A k \in 1 .. Len(t) : t[k] # CR, Here(s, i, t), Here(s, i + Len(t), CRLF)
  PROVE  /\ find(s, CRLF, i) = i + Len(t)
         /\ SubSeq(s, i, i + Len(t) - 1) = t
<1>1. Len(t) \in Nat /\ Len(CRLF) > 0 /\ CRLF \in Texts /\ CRLF[1] = CR
  <2>1. Len(CRLF) > 0 /\ CRLF[1] = CR
    BY DEF CRLF
  <2> QED BY <2>1, LenType, MarksAreTexts
<1> DEFINE at == i + Len(t)
<1>2. at \in Nat /\ i <= at /\ Here(s, at, CRLF)
  BY <1>1
<1>3. ASSUME NEW j \in i .. at - 1 PROVE ~Here(s, j, CRLF)
  <2> DEFINE k == j - i + 1
  <2>1. k \in 1 .. Len(t) /\ i + k - 1 = j
    BY <1>1
  <2> HIDE DEF k
  <2>2. s[j] = t[k]
    BY <2>1, Zenon DEF Here
  <2>3. s[j] # CR
    BY <2>1, <2>2
  <2>4. 1 \in 1 .. Len(CRLF) /\ j + 1 - 1 = j
    BY <1>1
  <2>5. Here(s, j, CRLF) => s[j + 1 - 1] = CRLF[1]
    BY <2>4, Zenon DEF Here
  <2> QED BY <1>1, <2>3, <2>4, <2>5
<1> HIDE DEF at
<1>4. find(s, CRLF, i) = at
  BY <1>1, <1>2, <1>3, Found, Zenon
<1>5. i <= Len(s) + 1
  <2>1. 1 \in 1 .. Len(t)
    BY <1>1
  <2>2. i + 1 - 1 \in 1 .. Len(s)
    BY <2>1, Zenon DEF Here
  <2> QED BY <2>2, LenType
<1>6. SubSeq(s, i, i + Len(t) - 1) = t
  BY <1>5, HereIsPart, Zenon
<1> QED BY <1>4, <1>6 DEF at

LEMMA NumeralsAreLines ==
  ASSUME NEW base \in {10, 16}, NEW n \in Nat
  PROVE  \A k \in 1 .. Len(Numeral(n, base)) : Numeral(n, base)[k] # CR
<1>1. \A i \in 1 .. 16 : Digits[i] # CR
  BY DEF Digits, CR
<1> DEFINE t == Numeral(n, base)
<1>2. \A k \in 1 .. Len(t) : \E i \in 1 .. base : t[k] = Digits[i]
  BY NumeralReads, Zenon
<1> HIDE DEF t
<1>3. 1 .. base \subseteq 1 .. 16
  OBVIOUS
<1> QED BY <1>1, <1>2, <1>3 DEF t

(* Where a chunk is, one piece is read, and reading goes on after it.      *)
LEMMA ChunkRead ==
  ASSUME NEW s \in Texts, NEW i \in Nat \ {0}, NEW p \in Pieces, Here(s, i, ChunkOf(p)),
         NEW h, h[i] = ChunkAt(s, h, i)
  PROVE  h[i] = <<p>> \o h[i + Len(ChunkOf(p))]
<1> DEFINE d == Data(p.text, p.is_last)
           m == Len(d)
           t == Numeral(m, 16)
           c == ChunkOf(p)
<1>0. p = [text |-> p.text, is_last |-> p.is_last]
  BY DEF Pieces
<1>1. p.text \in Texts /\ p.is_last \in BOOLEAN
  BY DEF Pieces
<1>2. /\ d \in Texts /\ m \in Nat /\ m > 0 /\ Unescape(From(d, 7)) = p.text
      /\ Last(d) = LastMark(p.is_last)
  <2> DEFINE x == p.text  l == p.is_last
  <2>1. x \in Texts /\ l \in BOOLEAN
    BY <1>1
  <2> HIDE DEF x, l
  <2>2. /\ Data(x, l) \in Texts /\ Len(Data(x, l)) \in Nat /\ Len(Data(x, l)) > 0
        /\ Unescape(From(Data(x, l), 7)) = x /\ Last(Data(x, l)) = LastMark(l)
    BY <2>1, DataIs, Zenon
  <2> QED BY <2>2 DEF x, l
<1>3. c \in Texts /\ Laid4(c, t, CRLF, d, CRLF)
  BY ChunkIs, Zenon
<1> HIDE DEF d, c
<1>4. 16 \in {10, 16}
  OBVIOUS
<1>5. t \in Texts /\ Value(t, 16) = m /\ Len(t) > 0 /\ \A k \in 1 .. Len(t) : t[k] # CR
  <2> HIDE DEF m
  <2> QED BY <1>2, <1>4, NumeralReads, NumeralsAreLines, Zenon
<1> HIDE DEF m, t
<1>6. Len(CRLF) = 2 /\ CRLF \in Texts /\ Len(t) \in Nat
  <2>1. Len(CRLF) = 2
    BY DEF CRLF
  <2> QED BY <1>5, <2>1, LenType, MarksAreTexts
<1>7. /\ Len(c) = Len(t) + 2 + m + 2 /\ Here(c, 1, t) /\ Here(c, 1 + Len(t), CRLF)
      /\ Here(c, 1 + Len(t) + 2, d) /\ Here(c, 1 + Len(t) + 2 + m, CRLF)
  <2>1. /\ Len(c) = Len(t) + Len(CRLF) + Len(d) + Len(CRLF)
        /\ Here(c, 1, t) /\ Here(c, 1 + Len(t), CRLF)
        /\ Here(c, 1 + Len(t) + Len(CRLF), d) /\ Here(c, 1 + Len(t) + Len(CRLF) + Len(d), CRLF)
    BY <1>3, Zenon DEF Laid4
  <2>2. Len(d) = m
    BY DEF m
  <2> QED BY <1>6, <2>1, <2>2
<1>8. ASSUME NEW q \in Texts, NEW j \in Nat \ {0}, Here(c, j, q) PROVE Here(s, i + j - 1, q)
  <2>1. Here(s, i, c)
    BY DEF c
  <2> QED BY <1>3, <1>8, <2>1, HereInside, Zenon
<1> DEFINE line == i + Len(t)
<1>9. /\ Here(s, i, t) /\ Here(s, line, CRLF) /\ Here(s, line + 2, d) /\ Here(s, line + 2 + m, CRLF)
  <2> DEFINE j1 == 1  j2 == 1 + Len(t)  j3 == 1 + Len(t) + 2  j4 == 1 + Len(t) + 2 + m
  <2>1. /\ j1 \in Nat \ {0} /\ i + j1 - 1 = i
        /\ j2 \in Nat \ {0} /\ i + j2 - 1 = line
        /\ j3 \in Nat \ {0} /\ i + j3 - 1 = line + 2
        /\ j4 \in Nat \ {0} /\ i + j4 - 1 = line + 2 + m
    BY <1>2, <1>6
  <2>2. Here(c, j1, t) /\ Here(c, j2, CRLF) /\ Here(c, j3, d) /\ Here(c, j4, CRLF)
    BY <1>7
  <2> HIDE DEF j1, j2, j3, j4, line
  <2>3. /\ Here(s, i + j1 - 1, t) /\ Here(s, i + j2 - 1, CRLF) /\ Here(s, i + j3 - 1, d)
        /\ Here(s, i + j4 - 1, CRLF)
    BY <1>2, <1>5, <1>6, <1>8, <2>1, <2>2, Zenon
  <2> QED BY <2>1, <2>3
<1>10. LineAt(s, i) = line /\ SubSeq(s, i, line - 1) = t
  <2>1. Here(s, i, t) /\ Here(s, i + Len(t), CRLF)
    BY <1>9
  <2> HIDE DEF line
  <2>2. find(s, CRLF, i) = i + Len(t) /\ SubSeq(s, i, i + Len(t) - 1) = t
    BY <1>5, <2>1, LineFound, Zenon
  <2>3. line = i + Len(t)
    BY DEF line
  <2> QED BY <2>2, <2>3 DEF LineAt
<1>11. SizeAt(s, i) = m
  BY <1>5, <1>10, Zenon DEF SizeAt
<1>12. line \in Nat /\ line # npos
  BY <1>6 DEF npos
<1> HIDE DEF line
<1>13. DataAt(s, i) = d
  <2> DEFINE u == line + 2
             v == line + 1 + m
             w == u + Len(d) - 1
  <2>1. u \in Nat \ {0} /\ Here(s, u, d)
    BY <1>9, <1>12
  <2>2. u <= Len(s) + 1
    <3>1. 1 \in 1 .. Len(d)
      BY <1>2 DEF m
    <3> HIDE DEF u
    <3>2. u + 1 - 1 \in 1 .. Len(s)
      BY <2>1, <3>1, Zenon DEF Here
    <3> QED BY <2>1, <3>2, LenType
  <2>3. v = w
    BY <1>2, <1>12 DEF m
  <2>4. SubSeq(s, u, w) = d
    <3> HIDE DEF u
    <3> QED BY <1>2, <2>1, <2>2, HereIsPart, Zenon
  <2>5. DataAt(s, i) = SubSeq(s, u, v)
    BY <1>10, <1>11, Zenon DEF DataAt
  <2> HIDE DEF u, v, w
  <2> QED BY <2>3, <2>4, <2>5
<1>14. OccursAt(s, line + 2 + m, CRLF)
  <2> DEFINE u == line + 2 + m
  <2>1. u \in Nat \ {0} /\ Here(s, u, CRLF) /\ Len(CRLF) > 0
    BY <1>2, <1>6, <1>9, <1>12
  <2> HIDE DEF u
  <2>2. OccursAt(s, u, CRLF)
    BY <1>6, <2>1, OccursIsHere, Zenon
  <2> QED BY <2>2 DEF u
<1>15. ~Damaged(s, i) /\ SizeAt(s, i) # 0
  BY <1>2, <1>10, <1>11, <1>12, <1>14 DEF Damaged
<1>16. PieceAt(s, i) = p
  <2>1. (LastMark(p.is_last) = "is_last: true}") = p.is_last
    BY <1>1 DEF LastMark
  <2>2. PieceAt(s, i) = [text |-> p.text, is_last |-> (LastMark(p.is_last) = "is_last: true}")]
    BY <1>2, <1>13, Zenon DEF PieceAt
  <2> QED BY <1>0, <2>1, <2>2
<1>17. h[i] = <<p>> \o h[LineAt(s, i) + SizeAt(s, i) + 4]
  BY <1>15, <1>16, Zenon DEF ChunkAt
<1>18. LineAt(s, i) + SizeAt(s, i) + 4 = i + Len(c)
  BY <1>2, <1>6, <1>7, <1>10, <1>11 DEF line
<1> QED BY <1>17, <1>18, Zenon DEF c

(* At the end, the last chunk ends the reading.                            *)
LEMMA FinalIs ==
  /\ final_chunk = <<"0", CR, LF, CR, LF>> /\ final_chunk \in Texts /\ Len(final_chunk) = 5
<1>2. "0" \in Symbols /\ CR \in Symbols /\ LF \in Symbols
  <2>1. "0" = Digits[1] /\ 1 \in 1 .. 16
    BY DEF Digits
  <2>2. Digits[1] \in {Digits[i] : i \in 1 .. 16}
    BY <2>1
  <2> QED BY <2>1, <2>2 DEF Symbols, Marks
<1>3. <<"0", CR, LF, CR, LF>> \in Texts
  BY <1>2, FiveText, Zenon
<1> DEFINE t == <<"0", CR, LF, CR, LF>>
           zero == <<"0">>
           f == zero \o CRLF \o CRLF
<1>4. Len(t) = 5 /\ t[1] = "0" /\ t[2] = CR /\ t[3] = LF /\ t[4] = CR /\ t[5] = LF
  OBVIOUS
<1>5. /\ zero \in Texts /\ Len(zero) = 1 /\ zero[1] = "0"
      /\ CRLF \in Texts /\ Len(CRLF) = 2 /\ CRLF[1] = CR /\ CRLF[2] = LF
  <2>1. zero \in Texts
    BY <1>2, OneText, Zenon
  <2>2. Len(zero) = 1 /\ zero[1] = "0"
    OBVIOUS
  <2>3. Len(CRLF) = 2 /\ CRLF[1] = CR /\ CRLF[2] = LF
    BY DEF CRLF
  <2> QED BY <2>1, <2>2, <2>3, MarksAreTexts
<1> HIDE DEF zero
<1>6. Laid3(f, zero, CRLF, CRLF)
  BY <1>5, ThreeParts, Zenon
<1> HIDE DEF f
<1>7. /\ f \in Texts /\ Len(f) = 5 /\ Here(f, 1, zero) /\ Here(f, 2, CRLF) /\ Here(f, 4, CRLF)
  BY <1>5, <1>6 DEF Laid3
<1>8. f[1] = "0" /\ f[2] = CR /\ f[3] = LF /\ f[4] = CR /\ f[5] = LF
  <2>1. f[1 + 1 - 1] = zero[1]
    BY <1>5, <1>7 DEF Here
  <2>2. f[2 + 1 - 1] = CRLF[1] /\ f[2 + 2 - 1] = CRLF[2]
    BY <1>5, <1>7 DEF Here
  <2>3. f[4 + 1 - 1] = CRLF[1] /\ f[4 + 2 - 1] = CRLF[2]
    BY <1>5, <1>7 DEF Here
  <2> QED BY <1>5, <2>1, <2>2, <2>3
<1> HIDE DEF t
<1>9. f = t
  <2>1. \A i \in 1 .. Len(f) : f[i] = t[i]
    BY <1>4, <1>7, <1>8
  <2> QED BY <1>3, <1>4, <1>7, <2>1, SameText DEF t
<1>10. final_chunk = f
  BY Zenon DEF final_chunk, f, zero
<1> QED BY <1>3, <1>4, <1>7, <1>9, <1>10, Zenon DEF t

LEMMA FinalRead ==
  ASSUME NEW s \in Texts, NEW i \in Nat \ {0}, Here(s, i, final_chunk), Len(s) = i + 4,
         NEW h, h[i] = ChunkAt(s, h, i)
  PROVE  h[i] = <<>>
<1>1. \A k \in 1 .. 5 : i + k - 1 \in 1 .. Len(s) /\ s[i + k - 1] = <<"0", CR, LF, CR, LF>>[k]
  BY FinalIs DEF Here
<1>2. /\ i \in 1 .. Len(s) /\ s[i] = "0" /\ s[i + 1] = CR /\ s[i + 2] = LF
      /\ s[i + 3] = CR /\ s[i + 4] = LF
  <2>1. s[i + 1 - 1] = <<"0", CR, LF, CR, LF>>[1]
    BY <1>1
  <2>2. s[i + 2 - 1] = <<"0", CR, LF, CR, LF>>[2]
    BY <1>1
  <2>3. s[i + 3 - 1] = <<"0", CR, LF, CR, LF>>[3]
    BY <1>1
  <2>4. s[i + 4 - 1] = <<"0", CR, LF, CR, LF>>[4]
    BY <1>1
  <2>5. s[i + 5 - 1] = <<"0", CR, LF, CR, LF>>[5]
    BY <1>1
  <2> QED BY <2>1, <2>2, <2>3, <2>4, <2>5
<1> DEFINE t == <<"0">>
<1>3. t \in Texts /\ Len(t) = 1 /\ t[1] = "0" /\ Value(t, 16) = 0
  <2>1. "0" = Digits[1] /\ 1 \in 1 .. 16 /\ 16 \in Nat
    BY DEF Digits
  <2>2. Digits[1] \in {Digits[j] : j \in 1 .. 16}
    BY <2>1
  <2>3. "0" \in Symbols
    BY <2>1, <2>2 DEF Symbols
  <2>4. t \in Texts
    BY <2>3, OneText, Zenon
  <2>5. Value(t, 16) = 1 - 1
    BY <2>1, ValueOfDigit, Zenon
  <2> QED BY <2>4, <2>5
<1>4. \A k \in 1 .. Len(t) : t[k] # CR
  BY <1>3 DEF CR
<1> HIDE DEF t
<1>5. Here(s, i, t) /\ Here(s, i + Len(t), CRLF)
  <2>1. Here(s, i + 1, CRLF)
    <3> DEFINE j == i + 1
    <3>1. j \in Nat /\ j \in 1 .. Len(s) /\ s[j] = CR /\ j + 1 \in 1 .. Len(s) /\ s[j + 1] = LF
      BY <1>2
    <3> HIDE DEF j
    <3>2. Here(s, j, <<CR, LF>>)
      BY <3>1, HereTwo, ZenonT(40)
    <3> QED BY <3>2 DEF j, CRLF
  <2> QED BY <1>2, <1>3, <2>1 DEF Here
<1>6. LineAt(s, i) = i + 1 /\ SubSeq(s, i, LineAt(s, i) - 1) = t
  <2>1. Len(t) > 0
    BY <1>3
  <2>2. find(s, CRLF, i) = i + Len(t) /\ SubSeq(s, i, i + Len(t) - 1) = t
    BY <1>3, <1>4, <1>5, <2>1, LineFound, Zenon
  <2> QED BY <1>3, <2>2 DEF LineAt
<1>7. SizeAt(s, i) = 0
  BY <1>3, <1>6, Zenon DEF SizeAt
<1>8. OccursAt(s, LineAt(s, i) + 2 + SizeAt(s, i), CRLF)
  <2> DEFINE j == i + 3
  <2>1. j \in Nat /\ j \in 1 .. Len(s) /\ s[j] = CR /\ j + 1 \in 1 .. Len(s) /\ s[j + 1] = LF
    BY <1>2
  <2>2. LineAt(s, i) + 2 + SizeAt(s, i) = j /\ j \in Nat \ {0}
    BY <1>6, <1>7
  <2> HIDE DEF j
  <2>3. Here(s, j, <<CR, LF>>)
    BY <2>1, HereTwo, Zenon
  <2>4. Len(<<CR, LF>>) > 0 /\ <<CR, LF>> \in Texts
    <3>1. <<CR, LF>> \in Texts
      BY MarksAreTexts, Zenon DEF CRLF
    <3>2. Len(<<CR, LF>>) > 0
      OBVIOUS
    <3> QED BY <3>1, <3>2
  <2>5. OccursAt(s, j, <<CR, LF>>)
    BY <2>2, <2>3, <2>4, OccursIsHere, Zenon
  <2> QED BY <2>2, <2>5 DEF CRLF
<1>9. ~Damaged(s, i)
  BY <1>6, <1>7, <1>8 DEF Damaged, npos
<1>10. From(s, i) = final_chunk
  <2>1. i <= Len(s) + 1 /\ i + Len(final_chunk) - 1 = Len(s)
    BY FinalIs
  <2>2. SubSeq(s, i, i + Len(final_chunk) - 1) = final_chunk
    BY <2>1, FinalIs, HereIsPart, Zenon
  <2> QED BY <2>1, <2>2, Zenon DEF From
<1> QED BY <1>7, <1>9, <1>10, Zenon DEF ChunkAt

LEMMA PairIs ==
  ASSUME NEW p, NEW q
  PROVE  <<p>> \o (<<q>> \o <<>>) = <<p, q>>
<1> DEFINE S == {p, q}
<1>1. <<p>> \in Seq(S) /\ <<q>> \in Seq(S) /\ <<p, q>> \in Seq(S)
  OBVIOUS
<1>2. <<q>> \o <<>> = <<q>>
  BY <1>1, ConcatEmptySeq, Zenon
<1> DEFINE u == <<p>> \o <<q>>
           v == <<p, q>>
<1>3. /\ u \in Seq(S) /\ Len(u) = Len(<<p>>) + Len(<<q>>)
      /\ \A i \in 1 .. Len(<<p>>) + Len(<<q>>) :
           u[i] = IF i <= Len(<<p>>) THEN <<p>>[i] ELSE <<q>>[i - Len(<<p>>)]
  BY <1>1, ConcatProperties
<1>4. Len(u) = 2 /\ u[1] = p /\ u[2] = q
  <2> HIDE DEF u
  <2> QED BY <1>3
<1>5. v \in Seq(S) /\ Len(v) = 2 /\ v[1] = p /\ v[2] = q
  BY <1>1
<1> HIDE DEF u, v, S
<1>6. u = v
  <2>1. \A i \in 1 .. Len(u) : u[i] = v[i]
    BY <1>4, <1>5
  <2> QED BY <1>3, <1>4, <1>5, <2>1, SeqEqual
<1> QED BY <1>2, <1>6 DEF u, v

(* Two chunks and the last one read as two pieces.                         *)
LEMMA TwoChunks ==
  ASSUME NEW p \in Pieces, NEW q \in Pieces
  PROVE  /\ ChunkOf(p) \o ChunkOf(q) \o final_chunk \in Texts
         /\ ReadChunks(ChunkOf(p) \o ChunkOf(q) \o final_chunk) = <<p, q>>
<1> DEFINE a == ChunkOf(p)
           b == ChunkOf(q)
           f == final_chunk
           s == a \o b \o f
<1>1. a \in Texts /\ b \in Texts /\ f \in Texts
  BY ChunkIs, FinalIs, Zenon
<1>2. Len(a) \in Nat /\ Len(b) \in Nat /\ Len(f) = 5
  BY <1>1, LenType, FinalIs
<1> HIDE DEF a, b, f
<1>3. Laid3(s, a, b, f)
  BY <1>1, ThreeParts, Zenon
<1> HIDE DEF s
<1>4. /\ s \in Texts /\ Len(s) = Len(a) + Len(b) + 5
      /\ Here(s, 1, a) /\ Here(s, 1 + Len(a), b) /\ Here(s, 1 + Len(a) + Len(b), f)
  BY <1>2, <1>3 DEF Laid3
<1>5. PICK h : ReadChunks(s) = h[1] /\ \A i \in 1 .. Len(s) + 1 : h[i] = ChunkAt(s, h, i)
  BY <1>4, ReadChunksSteps, Zenon
<1> DEFINE i == 1 + Len(a)
           j == i + Len(b)
<1>6. /\ 1 \in Nat \ {0} /\ i \in Nat \ {0} /\ j \in Nat \ {0} /\ Len(s) = j + 4
      /\ 1 \in 1 .. Len(s) + 1 /\ i \in 1 .. Len(s) + 1 /\ j \in 1 .. Len(s) + 1
      /\ 1 + Len(a) + Len(b) = j
  BY <1>2, <1>4
<1>7. Here(s, i, b) /\ Here(s, j, f)
  BY <1>4, <1>6
<1>8. h[1] = <<p>> \o h[1 + Len(a)]
  <2>1. h[1] = ChunkAt(s, h, 1)
    BY <1>5, <1>6
  <2>2. Here(s, 1, ChunkOf(p))
    BY <1>4, Zenon DEF a
  <2>3. h[1] = <<p>> \o h[1 + Len(ChunkOf(p))]
    BY <1>4, <1>6, <2>1, <2>2, ChunkRead, ZenonT(40)
  <2> QED BY <2>3 DEF a
<1> HIDE DEF i, j
<1>9. h[i] = <<q>> \o h[i + Len(b)]
  <2>1. h[i] = ChunkAt(s, h, i)
    BY <1>5, <1>6
  <2>2. Here(s, i, ChunkOf(q))
    BY <1>7, Zenon DEF b
  <2>3. h[i] = <<q>> \o h[i + Len(ChunkOf(q))]
    BY <1>4, <1>6, <2>1, <2>2, ChunkRead, ZenonT(40)
  <2> QED BY <2>3 DEF b
<1>10. h[j] = <<>>
  <2>1. h[j] = ChunkAt(s, h, j)
    BY <1>5, <1>6
  <2>2. Here(s, j, final_chunk)
    BY <1>7, Zenon DEF f
  <2> QED BY <1>4, <1>6, <2>1, <2>2, FinalRead, Zenon
<1>11. h[1] = <<p>> \o (<<q>> \o <<>>)
  BY <1>8, <1>9, <1>10 DEF i, j
<1>12. <<p>> \o (<<q>> \o <<>>) = <<p, q>>
  BY PairIs, Zenon
<1> QED BY <1>4, <1>5, <1>11, <1>12, Zenon DEF s, a, b, f

-----------------------------------------------------------------------------
(* The beginning of a response.                                            *)
StartMark == "HTTP/1.1 "
LengthMark == "Content-Length: "
CloseMark == "Connection: close"
ChunkedMark == "Transfer-Encoding: chunked"

LEMMA HeaderMarks ==
  /\ {StartMark, LengthMark, CloseMark, ChunkedMark} \subseteq Symbols
  /\ \A x \in {StartMark, LengthMark, CloseMark, ChunkedMark} : x # CR /\ x # LF
  /\ StartMark # LengthMark /\ StartMark # ChunkedMark /\ LengthMark # CloseMark
  /\ LengthMark # ChunkedMark /\ CloseMark # ChunkedMark
<1>1. {StartMark, LengthMark, CloseMark, ChunkedMark} \subseteq Symbols
  BY DEF Symbols, Marks, StartMark, LengthMark, CloseMark, ChunkedMark
<1>2. StartMark # CR /\ StartMark # LF /\ LengthMark # CR /\ LengthMark # LF
  BY Zenon DEF CR, LF, StartMark, LengthMark
<1>3. CloseMark # CR /\ CloseMark # LF /\ ChunkedMark # CR /\ ChunkedMark # LF
  BY Zenon DEF CR, LF, CloseMark, ChunkedMark
<1>4. StartMark # LengthMark /\ StartMark # ChunkedMark /\ LengthMark # CloseMark
  BY Zenon DEF StartMark, LengthMark, CloseMark, ChunkedMark
<1>5. LengthMark # ChunkedMark /\ CloseMark # ChunkedMark
  BY Zenon DEF LengthMark, CloseMark, ChunkedMark
<1> QED BY <1>1, <1>2, <1>3, <1>4, <1>5

(* The status line of r, where the numeral has m digits.                   *)
StatusHead(r, m, code) ==
  /\ m \in Nat /\ m > 0 /\ Len(r) >= m + 3
  /\ r[1] = StartMark /\ r[m + 2] = CR /\ r[m + 3] = LF
  /\ \A k \in 1 .. m : r[k + 1] \in Decimals /\ r[k + 1] = Numeral(code, 10)[k]

LEMMA DecimalsAre ==
  \A x \in Decimals : x \notin {CR, LF, StartMark, LengthMark, CloseMark,
                                ChunkedMark}
<1> DEFINE D == {"0", "1", "2", "3", "4", "5", "6", "7", "8", "9"}
<1>1. \A i \in 1 .. 10 : Digits[i] \in D
  BY DEF Digits
<1>2. \A x \in D : x # CR /\ x # LF
  BY DEF CR, LF
<1>3. \A x \in D : x # StartMark
  BY Zenon DEF StartMark
<1>4. \A x \in D : x # LengthMark
  BY Zenon DEF LengthMark
<1>5. \A x \in D : x # CloseMark
  BY Zenon DEF CloseMark
<1>6. \A x \in D : x # ChunkedMark
  BY Zenon DEF ChunkedMark
<1> HIDE DEF D
<1>7. \A x \in Decimals : x \in D
  BY <1>1, Zenon DEF Decimals
<1> QED BY <1>2, <1>3, <1>4, <1>5, <1>6, <1>7, Zenon

LEMMA StatusLineIs ==
  ASSUME NEW code \in Nat
  PROVE  /\ StatusLine(code) \in Texts
         /\ Len(StatusLine(code)) = Len(Numeral(code, 10)) + 3
         /\ StatusHead(StatusLine(code), Len(Numeral(code, 10)), code)
<1> DEFINE t == Numeral(code, 10)
           m == Len(t)
           a == <<StartMark>>
           s == a \o t \o CRLF
<1>1. t \in Texts /\ m > 0 /\ m \in Nat /\ \A k \in 1 .. m : t[k] \in Decimals
  <2>1. 10 \in {10, 16}
    OBVIOUS
  <2>2. t \in Texts /\ Len(t) > 0 /\ \A k \in 1 .. Len(t) : \E i \in 1 .. 10 : t[k] = Digits[i]
    BY <2>1, NumeralReads, Zenon
  <2> HIDE DEF t
  <2>3. \A k \in 1 .. Len(t) : t[k] \in Decimals
    BY <2>2, Zenon DEF Decimals
  <2> QED BY <2>2, <2>3, LenType
<1> HIDE DEF t
<1>2. a \in Texts /\ Len(a) = 1 /\ a[1] = StartMark
  <2>1. StartMark \in Symbols
    BY HeaderMarks
  <2>2. a \in Texts
    BY <2>1, OneText, Zenon
  <2> QED BY <2>2
<1>3. CRLF \in Texts /\ Len(CRLF) = 2 /\ CRLF[1] = CR /\ CRLF[2] = LF
  <2>1. Len(CRLF) = 2 /\ CRLF[1] = CR /\ CRLF[2] = LF
    BY DEF CRLF
  <2> QED BY <2>1, MarksAreTexts
<1> HIDE DEF a
<1>4. Laid3(s, a, t, CRLF)
  BY <1>1, <1>2, <1>3, ThreeParts, Zenon
<1> HIDE DEF s
<1>5. /\ s \in Texts /\ Len(s) = m + 3
      /\ Here(s, 1, a) /\ Here(s, 2, t) /\ Here(s, 2 + m, CRLF)
  <2>1. /\ s \in Texts /\ Len(s) = Len(a) + Len(t) + Len(CRLF)
        /\ Here(s, 1, a) /\ Here(s, 1 + Len(a), t) /\ Here(s, 1 + Len(a) + Len(t), CRLF)
    BY <1>4, Zenon DEF Laid3
  <2>2. Len(t) = m
    OBVIOUS
  <2> HIDE DEF m
  <2>3. 1 + Len(a) = 2 /\ 1 + Len(a) + Len(t) = 2 + m /\ Len(a) + Len(t) + Len(CRLF) = m + 3
    BY <1>1, <1>2, <1>3, <2>2
  <2> QED BY <2>1, <2>3
<1>6. s[1] = StartMark
  <2>1. 1 \in 1 .. Len(a) /\ 1 + 1 - 1 = 1
    BY <1>2
  <2>2. s[1 + 1 - 1] = a[1]
    BY <1>5, <2>1, Zenon DEF Here
  <2> QED BY <1>2, <2>1, <2>2
<1>7. \A k \in 1 .. m : s[k + 1] = t[k]
  <2>1. ASSUME NEW k \in 1 .. m PROVE s[k + 1] = t[k]
    <3>1. s[2 + k - 1] = t[k]
      BY <1>5 DEF Here
    <3> QED BY <1>1, <3>1
  <2> QED BY <2>1
<1>8. s[m + 2] = CR /\ s[m + 3] = LF
  <2>1. s[2 + m + 1 - 1] = CRLF[1] /\ s[2 + m + 2 - 1] = CRLF[2]
    BY <1>3, <1>5 DEF Here
  <2>2. 2 + m + 1 - 1 = m + 2 /\ 2 + m + 2 - 1 = m + 3
    BY <1>1
  <2> QED BY <1>3, <2>1, <2>2
<1>9. StatusLine(code) = s
  BY Zenon DEF StatusLine, s, a, t, StartMark
<1>10. Len(s) >= m + 3
  BY <1>1, <1>5
<1>11. StatusHead(s, m, code)
  <2>1. \A k \in 1 .. m : s[k + 1] \in Decimals /\ s[k + 1] = t[k]
    BY <1>1, <1>7
  <2> HIDE DEF m
  <2> QED BY <1>1, <1>6, <1>8, <1>10, <2>1, Zenon DEF StatusHead, t
<1> QED BY <1>5, <1>9, <1>11, Zenon DEF t

LEMMA StatusRead ==
  ASSUME NEW r \in Texts, NEW code \in Nat, NEW m, m = Len(Numeral(code, 10)), StatusHead(r, m, code)
  PROVE  Value(SubSeq(r, 2, RunEnd(r, 2, Decimals)), 10) = code
<1> DEFINE t == Numeral(code, 10)
           j == m + 1
<1>1. /\ m \in Nat /\ m > 0 /\ Len(r) >= m + 3 /\ r[m + 2] = CR
      /\ \A k \in 1 .. m : r[k + 1] \in Decimals /\ r[k + 1] = t[k]
  BY Zenon DEF StatusHead
<1>2. 10 \in {10, 16}
  OBVIOUS
<1>3. t \in Texts /\ Value(t, 10) = code
  BY <1>2, NumeralReads, Zenon
<1>4. Len(t) = m
  BY Zenon
<1> HIDE DEF t
<1>5. \A k \in 2 .. j : r[k] \in Decimals
  <2>1. ASSUME NEW k \in 2 .. j PROVE r[k] \in Decimals
    <3>1. k - 1 \in 1 .. m /\ k - 1 + 1 = k
      BY <1>1
    <3> QED BY <1>1, <3>1
  <2> QED BY <2>1
<1>6. r[j + 1] \notin Decimals
  <2>1. j + 1 = m + 2
    BY <1>1
  <2> QED BY <1>1, <2>1, DecimalsAre
<1>7. j \in Nat /\ 2 <= j + 1 /\ j <= Len(r) /\ 2 \in Nat \ {0} /\ Len(r) \in Nat
  BY <1>1, LenType
<1> HIDE DEF j
<1>8. RunEnd(r, 2, Decimals) = j
  BY <1>5, <1>6, <1>7, RunEndIs, Zenon
<1>9. SubSeq(r, 2, j) = t
  <2> DEFINE u == SubSeq(r, 2, j)
  <2>1. 1 <= 2 /\ 2 \in Int /\ j \in Int
    BY <1>7
  <2>2. u \in Texts /\ Len(u) = j - 2 + 1 /\ \A n \in 1 .. j - 2 + 1 : u[n] = r[2 + n - 1]
    BY <1>7, <2>1, Part, Zenon
  <2>3. j - 2 + 1 = m
    BY <1>1 DEF j
  <2> HIDE DEF u
  <2>4. \A n \in 1 .. Len(u) : u[n] = t[n]
    <3>1. ASSUME NEW n \in 1 .. Len(u) PROVE u[n] = t[n]
      <4>1. n \in 1 .. m /\ 2 + n - 1 = n + 1
        BY <1>1, <2>2, <2>3
      <4>2. u[n] = r[n + 1]
        BY <2>2, <2>3, <4>1
      <4> QED BY <1>1, <4>1, <4>2
    <3> QED BY <3>1
  <2> QED BY <1>3, <1>4, <2>2, <2>3, <2>4, SameText DEF u
<1> QED BY <1>3, <1>8, <1>9, Zenon

LEMMA HeadKept ==
  ASSUME NEW m, NEW code, NEW s, StatusHead(s, m, code), NEW r, Len(r) >= m + 3,
         \A i \in 1 .. m + 3 : r[i] = s[i]
  PROVE  StatusHead(r, m, code)
<1>1. /\ m \in Nat /\ m > 0 /\ s[1] = StartMark /\ s[m + 2] = CR /\ s[m + 3] = LF
      /\ \A k \in 1 .. m : s[k + 1] \in Decimals /\ s[k + 1] = Numeral(code, 10)[k]
  BY Zenon DEF StatusHead
<1>2. r[1] = s[1] /\ r[m + 2] = s[m + 2] /\ r[m + 3] = s[m + 3]
  BY <1>1
<1>3. \A k \in 1 .. m : r[k + 1] = s[k + 1]
  <2>1. ASSUME NEW k \in 1 .. m PROVE r[k + 1] = s[k + 1]
    <3>1. k + 1 \in 1 .. m + 3
      BY <1>1
    <3> QED BY <3>1
  <2> QED BY <2>1
<1>4. \A k \in 1 .. m : r[k + 1] \in Decimals /\ r[k + 1] = Numeral(code, 10)[k]
  BY <1>1, <1>3
<1>5. r[1] = StartMark /\ r[m + 2] = CR /\ r[m + 3] = LF
  BY <1>1, <1>2
<1> QED BY <1>1, <1>4, <1>5, Zenon DEF StatusHead

(* What is there is found, there or before.                                *)
LEMMA FoundSome ==
  ASSUME NEW s \in Texts, NEW sub \in Texts, Len(sub) > 0,
         NEW from \in Nat \ {0}, NEW i \in from .. Len(s), Here(s, i, sub)
  PROVE  find(s, sub, from) # npos
<1> DEFINE hits == {j \in from .. Len(s) : s[j] = sub[1] /\ OccursAt(s, j, sub)}
<1>1. Len(s) \in Nat /\ Len(sub) \in Nat /\ i \in Nat \ {0}
  BY LenType
<1>2. OccursAt(s, i, sub)
  BY <1>1, OccursIsHere, Zenon
<1>3. s[i] = sub[1]
  <2>1. 1 \in 1 .. Len(sub) /\ i + 1 - 1 = i
    BY <1>1
  <2>2. s[i + 1 - 1] = sub[1]
    BY <2>1, Zenon DEF Here
  <2> QED BY <2>1, <2>2
<1>4. i \in hits
  BY <1>2, <1>3
<1>5. hits \subseteq Nat \ {0}
  BY <1>1
<1>6. find(s, sub, from) = Least(hits)
  <2>1. hits # {}
    BY <1>4
  <2>2. from # npos
    BY DEF npos
  <2> QED BY <2>1, <2>2, Zenon DEF find
<1> HIDE DEF hits
<1>7. PICK x \in hits : \A y \in hits : x <= y
  <2>1. hits # {} /\ hits \subseteq Nat
    BY <1>4, <1>5
  <2> QED BY <2>1, LeastNumber, Zenon
<1>8. Least(hits) = x
  <2>1. hits \subseteq Int
    BY <1>5
  <2> QED BY <1>7, <2>1, LeastIs, Zenon
<1> QED BY <1>5, <1>6, <1>7, <1>8 DEF npos

(* The blank line.                                                         *)
LEMMA HereBlank ==
  ASSUME NEW s \in Texts, NEW i \in Nat
  PROVE  Here(s, i, BlankLine) <=>
           /\ i \in 1 .. Len(s) - 3
           /\ s[i] = CR /\ s[i + 1] = LF /\ s[i + 2] = CR /\ s[i + 3] = LF
<1>1. /\ Len(BlankLine) = 4 /\ BlankLine[1] = CR /\ BlankLine[2] = LF /\ BlankLine[3] = CR
      /\ BlankLine[4] = LF /\ Len(s) \in Nat
  BY BlankLineIs, LenType
<1>2. ASSUME Here(s, i, BlankLine)
      PROVE  /\ i \in 1 .. Len(s) - 3
             /\ s[i] = CR /\ s[i + 1] = LF /\ s[i + 2] = CR /\ s[i + 3] = LF
  <2>1. \A k \in 1 .. 4 : i + k - 1 \in 1 .. Len(s) /\ s[i + k - 1] = BlankLine[k]
    BY <1>1, <1>2 DEF Here
  <2>2. i + 1 - 1 \in 1 .. Len(s) /\ s[i + 1 - 1] = BlankLine[1]
    BY <2>1
  <2>3. s[i + 2 - 1] = BlankLine[2]
    BY <2>1
  <2>4. s[i + 3 - 1] = BlankLine[3]
    BY <2>1
  <2>5. i + 4 - 1 \in 1 .. Len(s) /\ s[i + 4 - 1] = BlankLine[4]
    BY <2>1
  <2> QED BY <1>1, <2>2, <2>3, <2>4, <2>5
<1>3. ASSUME i \in 1 .. Len(s) - 3, s[i] = CR, s[i + 1] = LF, s[i + 2] = CR, s[i + 3] = LF
      PROVE  Here(s, i, BlankLine)
  <2>1. ASSUME NEW k \in 1 .. 4 PROVE i + k - 1 \in 1 .. Len(s) /\ s[i + k - 1] = BlankLine[k]
    <3>1. i + k - 1 \in 1 .. Len(s)
      BY <1>1, <1>3
    <3>2. CASE k = 1
      BY <1>1, <1>3, <3>1, <3>2
    <3>3. CASE k = 2
      BY <1>1, <1>3, <3>1, <3>3
    <3>4. CASE k = 3
      BY <1>1, <1>3, <3>1, <3>4
    <3>5. CASE k = 4
      BY <1>1, <1>3, <3>1, <3>5
    <3> QED BY <3>2, <3>3, <3>4, <3>5
  <2> QED BY <1>1, <2>1 DEF Here
<1> QED BY <1>2, <1>3

(* There is none at the status line.                                       *)
LEMMA NoBlankInHead ==
  ASSUME NEW r \in Texts, NEW m, NEW code, StatusHead(r, m, code), r[m + 4] # CR
  PROVE  \A i \in 1 .. m + 3 : ~Here(r, i, BlankLine)
<1>1. /\ m \in Nat /\ r[1] # CR /\ r[m + 3] # CR
      /\ \A k \in 1 .. m : r[k + 1] # CR
  <2>1. /\ m \in Nat /\ r[1] = StartMark /\ r[m + 3] = LF
        /\ \A k \in 1 .. m : r[k + 1] \in Decimals
    BY Zenon DEF StatusHead
  <2>2. StartMark # CR /\ LF # CR
    BY HeaderMarks DEF CR, LF
  <2>3. \A k \in 1 .. m : r[k + 1] # CR
    BY <2>1, DecimalsAre
  <2> QED BY <2>1, <2>2, <2>3
<1> SUFFICES ASSUME NEW i \in 1 .. m + 3, Here(r, i, BlankLine) PROVE FALSE
  OBVIOUS
<1>2. i \in Nat
  BY <1>1
<1>3. r[i] = CR /\ r[i + 2] = CR
  BY <1>2, HereBlank, Zenon
<1>4. CASE i = m + 2
  <2>1. i + 2 = m + 4
    BY <1>1, <1>4
  <2> QED BY <1>3, <2>1
<1>5. CASE i \in 2 .. m + 1
  <2>1. i - 1 \in 1 .. m /\ i - 1 + 1 = i
    BY <1>1, <1>5
  <2> QED BY <1>1, <1>3, <2>1
<1>6. CASE i = 1 \/ i = m + 3
  BY <1>1, <1>3, <1>6
<1> QED BY <1>1, <1>4, <1>5, <1>6

-----------------------------------------------------------------------------
(* A response in chunks.                                                   *)
LEMMA ChunkedHeaderIs ==
  ASSUME NEW code \in Nat, NEW m, m = Len(Numeral(code, 10)),
         NEW h, h = buildHttpChunkedResponseHeader(code)
  PROVE  /\ h \in Texts /\ Len(h) = m + 8 /\ StatusHead(h, m, code)
         /\ h[m + 4] = ChunkedMark
         /\ h[m + 5] = CR /\ h[m + 6] = LF /\ h[m + 7] = CR /\ h[m + 8] = LF
<1> DEFINE s == StatusLine(code)
           x == <<ChunkedMark>>
           t == s \o x \o CRLF \o CRLF
<1>1. s \in Texts /\ Len(s) = m + 3 /\ StatusHead(s, m, code)
  BY StatusLineIs
<1>2. x \in Texts /\ Len(x) = 1 /\ x[1] = ChunkedMark
  <2>1. ChunkedMark \in Symbols
    BY HeaderMarks
  <2>2. x \in Texts
    BY <2>1, OneText, Zenon
  <2> QED BY <2>2
<1>3. CRLF \in Texts /\ Len(CRLF) = 2 /\ CRLF[1] = CR /\ CRLF[2] = LF
  <2>1. Len(CRLF) = 2 /\ CRLF[1] = CR /\ CRLF[2] = LF
    BY DEF CRLF
  <2> QED BY <2>1, MarksAreTexts
<1> HIDE DEF s, x
<1>4. Laid4(t, s, x, CRLF, CRLF)
  BY <1>1, <1>2, <1>3, FourParts, Zenon
<1>5. h = t
  BY Zenon DEF buildHttpChunkedResponseHeader, t, s, x, ChunkedMark
<1> HIDE DEF t
<1>6. m \in Nat
  BY <1>1, Zenon DEF StatusHead
<1>7. /\ h \in Texts /\ Len(h) = m + 8 /\ Here(h, 1, s)
      /\ Here(h, m + 4, x) /\ Here(h, m + 5, CRLF) /\ Here(h, m + 7, CRLF)
  <2>1. /\ h \in Texts /\ Len(h) = Len(s) + Len(x) + Len(CRLF) + Len(CRLF)
        /\ Here(h, 1, s) /\ Here(h, 1 + Len(s), x) /\ Here(h, 1 + Len(s) + Len(x), CRLF)
        /\ Here(h, 1 + Len(s) + Len(x) + Len(CRLF), CRLF)
    BY <1>4, <1>5, Zenon DEF Laid4
  <2>2. /\ Len(s) + Len(x) + Len(CRLF) + Len(CRLF) = m + 8
        /\ 1 + Len(s) = m + 4 /\ 1 + Len(s) + Len(x) = m + 5
        /\ 1 + Len(s) + Len(x) + Len(CRLF) = m + 7
    BY <1>1, <1>2, <1>3, <1>6
  <2> QED BY <2>1, <2>2
<1>8. \A i \in 1 .. m + 3 : h[i] = s[i]
  <2>1. ASSUME NEW i \in 1 .. m + 3 PROVE h[i] = s[i]
    <3>1. i \in 1 .. Len(s) /\ 1 + i - 1 = i
      BY <1>1, <1>6
    <3>2. h[1 + i - 1] = s[i]
      BY <1>7, <3>1, Zenon DEF Here
    <3> QED BY <3>1, <3>2
  <2> QED BY <2>1
<1>9. h[m + 4] = ChunkedMark
  <2>1. 1 \in 1 .. Len(x) /\ m + 4 + 1 - 1 = m + 4
    BY <1>2, <1>6
  <2>2. h[m + 4 + 1 - 1] = x[1]
    BY <1>7, <2>1, Zenon DEF Here
  <2> QED BY <1>2, <2>1, <2>2
<1>10. h[m + 5] = CR /\ h[m + 6] = LF /\ h[m + 7] = CR /\ h[m + 8] = LF
  <2>1. 1 \in 1 .. Len(CRLF) /\ 2 \in 1 .. Len(CRLF)
    BY <1>3
  <2>2. /\ h[m + 5 + 1 - 1] = CRLF[1] /\ h[m + 5 + 2 - 1] = CRLF[2]
        /\ h[m + 7 + 1 - 1] = CRLF[1] /\ h[m + 7 + 2 - 1] = CRLF[2]
    BY <1>7, <2>1, Zenon DEF Here
  <2>3. m + 5 + 1 - 1 = m + 5 /\ m + 5 + 2 - 1 = m + 6 /\ m + 7 + 1 - 1 = m + 7 /\ m + 7 + 2 - 1 = m + 8
    BY <1>6
  <2> QED BY <1>3, <2>2, <2>3
<1>11. StatusHead(h, m, code)
  <2>1. Len(h) >= m + 3
    BY <1>6, <1>7
  <2> QED BY <1>1, <1>8, <2>1, HeadKept, Zenon
<1> QED BY <1>7, <1>9, <1>10, <1>11

(* What begins like one reads as one.                                      *)
LEMMA ChunkedRead ==
  ASSUME NEW code \in Nat, NEW s \in Texts
  PROVE  ClientReads(buildHttpChunkedResponseHeader(code) \o s)
           = [status |-> code, content |-> ReadChunks(s)]
<1> DEFINE h == buildHttpChunkedResponseHeader(code)
           m == Len(Numeral(code, 10))
           r == h \o s
<1>1. /\ h \in Texts /\ Len(h) = m + 8 /\ StatusHead(h, m, code)
      /\ h[m + 4] = ChunkedMark
      /\ h[m + 5] = CR /\ h[m + 6] = LF /\ h[m + 7] = CR /\ h[m + 8] = LF
  BY ChunkedHeaderIs
<1> HIDE DEF h
<1>2. m \in Nat /\ m > 0
  BY <1>1, Zenon DEF StatusHead
<1>3. Laid2(r, h, s)
  BY <1>1, TwoParts, Zenon
<1> HIDE DEF r
<1>4. /\ r \in Texts /\ Len(r) = Len(h) + Len(s) /\ Here(r, 1, h) /\ Here(r, 1 + Len(h), s)
      /\ Len(s) \in Nat
  BY <1>3, LenType, Zenon DEF Laid2
<1> DEFINE M == m
<1>5. M = Len(Numeral(code, 10))
  BY Zenon
<1>6. /\ M \in Nat /\ M > 0 /\ Len(h) = M + 8 /\ StatusHead(h, M, code)
      /\ h[M + 4] = ChunkedMark
      /\ h[M + 5] = CR /\ h[M + 6] = LF /\ h[M + 7] = CR /\ h[M + 8] = LF
  BY <1>1, <1>2
<1> HIDE DEF M
<1>7. \A i \in 1 .. M + 8 : r[i] = h[i]
  <2>1. ASSUME NEW i \in 1 .. M + 8 PROVE r[i] = h[i]
    <3>1. i \in 1 .. Len(h) /\ 1 + i - 1 = i
      BY <1>6
    <3>2. r[1 + i - 1] = h[i]
      BY <1>4, <3>1, Zenon DEF Here
    <3> QED BY <3>1, <3>2
  <2> QED BY <2>1
<1>8. StatusHead(r, M, code)
  <2>1. Len(r) >= M + 3 /\ \A i \in 1 .. M + 3 : r[i] = h[i]
    BY <1>4, <1>6, <1>7
  <2> QED BY <1>6, <2>1, HeadKept, Zenon
<1>9. /\ r[M + 4] = ChunkedMark
      /\ r[M + 5] = CR /\ r[M + 6] = LF /\ r[M + 7] = CR /\ r[M + 8] = LF
  BY <1>6, <1>7, SMTT(30)
<1>10. Value(SubSeq(r, 2, RunEnd(r, 2, Decimals)), 10) = code
  BY <1>4, <1>5, <1>8, StatusRead, Zenon
<1>11. find(r, BlankLine, 1) = M + 5
  <2> DEFINE at == M + 5
  <2>1. Here(r, at, BlankLine)
    <3>1. /\ at \in Nat /\ at \in 1 .. Len(r) - 3 /\ r[at] = CR /\ r[at + 1] = LF
          /\ r[at + 2] = CR /\ r[at + 3] = LF
      BY <1>4, <1>6, <1>9
    <3> HIDE DEF at
    <3> QED BY <1>4, <3>1, HereBlank, Zenon
  <2>2. ChunkedMark # CR
    BY HeaderMarks
  <2>3. \A i \in 1 .. M + 3 : ~Here(r, i, BlankLine)
    <3>1. r[M + 4] # CR
      BY <1>9, <2>2
    <3> QED BY <1>4, <1>8, <3>1, NoBlankInHead, Zenon
  <2>4. ~Here(r, M + 4, BlankLine)
    <3> DEFINE i == M + 4
    <3>1. i \in Nat /\ r[i] # CR
      BY <1>6, <1>9, <2>2
    <3> HIDE DEF i
    <3>2. ~Here(r, i, BlankLine)
      BY <1>4, <3>1, HereBlank, Zenon
    <3> QED BY <3>2 DEF i
  <2>5. \A i \in 1 .. at - 1 : ~Here(r, i, BlankLine)
    <3>1. ASSUME NEW i \in 1 .. at - 1 PROVE ~Here(r, i, BlankLine)
      <4>1. i = M + 4 \/ i \in 1 .. M + 3
        BY <1>6
      <4> QED BY <2>3, <2>4, <4>1
    <3> QED BY <3>1
  <2>6. 1 \in Nat \ {0} /\ at \in Nat /\ 1 <= at /\ BlankLine \in Texts /\ Len(BlankLine) > 0
    BY <1>6, BlankLineIs
  <2> HIDE DEF at
  <2>7. find(r, BlankLine, 1) = at
    BY <1>4, <2>1, <2>5, <2>6, Found, Zenon
  <2> QED BY <2>7 DEF at
<1>12. find(r, <<ChunkedMark>>, 1) # npos
  <2> DEFINE x == <<ChunkedMark>>
             i == M + 4
  <2>1. x \in Texts /\ Len(x) > 0
    <3>1. ChunkedMark \in Symbols
      BY HeaderMarks
    <3> QED BY <3>1, OneText, Zenon
  <2>2. Here(r, i, x) /\ i \in 1 .. Len(r)
    <3>1. i \in Nat /\ i \in 1 .. Len(r) /\ r[i] = ChunkedMark
      BY <1>4, <1>6, <1>9
    <3> HIDE DEF i
    <3> QED BY <1>4, <3>1, HereOne, Zenon
  <2>3. 1 \in Nat \ {0}
    OBVIOUS
  <2> HIDE DEF x, i
  <2> QED BY <1>4, <2>1, <2>2, <2>3, FoundSome, Zenon DEF x
<1>13. From(r, M + 5 + 4) = s
  <2> DEFINE u == 1 + Len(h)
             v == u + Len(s) - 1
  <2>1. u \in Nat \ {0} /\ u <= Len(r) + 1 /\ v = Len(r) /\ u = M + 5 + 4
    BY <1>4, <1>6
  <2>2. Here(r, u, s)
    BY <1>4
  <2> HIDE DEF u
  <2>3. SubSeq(r, u, v) = s
    BY <1>4, <2>1, <2>2, HereIsPart, Zenon
  <2> HIDE DEF v
  <2>4. SubSeq(r, u, Len(r)) = s
    BY <2>1, <2>3
  <2> QED BY <2>1, <2>4 DEF From
<1>14. ClientReads(r) =
         [status |-> Value(SubSeq(r, 2, RunEnd(r, 2, Decimals)), 10),
          content |-> ReadChunks(From(r, find(r, BlankLine, 1) + 4))]
  BY <1>12, BlankLineIs DEF ClientReads, ChunkedMark
<1>15. ClientReads(r) = [status |-> code, content |-> ReadChunks(s)]
  BY <1>10, <1>11, <1>13, <1>14, Zenon
<1> QED BY <1>15, Zenon DEF r, h

(* The answer of a worker reads as its pieces.                             *)
LEMMA AnswerRead ==
  ASSUME NEW code \in Nat, NEW p \in Pieces, NEW q \in Pieces
  PROVE  ClientReads(buildHttpChunkedResponseHeader(code) \o ChunkOf(p) \o ChunkOf(q) \o final_chunk)
           = [status |-> code, content |-> <<p, q>>]
<1> DEFINE h == buildHttpChunkedResponseHeader(code)
           a == ChunkOf(p)
           b == ChunkOf(q)
           f == final_chunk
           s == a \o b \o f
<1>1. h \in Texts
  BY ChunkedHeaderIs
<1>2. a \in Texts /\ b \in Texts /\ f \in Texts
  BY ChunkIs, FinalIs, Zenon
<1>3. s \in Texts /\ ReadChunks(s) = <<p, q>>
  BY TwoChunks, Zenon
<1>4. ClientReads(h \o s) = [status |-> code, content |-> ReadChunks(s)]
  BY <1>3, ChunkedRead, Zenon
<1> HIDE DEF h, a, b, f
<1>5. h \o a \o b \o f = h \o s
  <2>1. a \o b \in Texts
    BY <1>2, Concat, Zenon
  <2>2. (h \o a) \o b = h \o (a \o b)
    BY <1>1, <1>2, Grouped
  <2> DEFINE c == a \o b
  <2> HIDE DEF c
  <2>3. (h \o c) \o f = h \o (c \o f)
    <3>1. c \in Texts
      BY <2>1 DEF c
    <3> QED BY <3>1, <1>1, <1>2, Grouped
  <2> QED BY <2>2, <2>3 DEF c
<1>6. ClientReads(h \o a \o b \o f) = [status |-> code, content |-> <<p, q>>]
  BY <1>3, <1>4, <1>5
<1> QED BY <1>6 DEF h, a, b, f

-----------------------------------------------------------------------------
(* A response with a length, whose body is one symbol.                     *)
LEMMA OneDigit ==
  \E d \in Decimals : Numeral(1, 10) = <<d>> /\ Value(<<d>>, 10) = 1 /\ <<d>> \in Texts
<1>1. 10 \in {10, 16} /\ 10 \in 2 .. 16 /\ 1 \in Nat /\ 1 < 10
  OBVIOUS
<1>2. Numeral(1, 10) = <<Digits[(1 % 10) + 1]>>
  BY <1>1, NumeralIs, Zenon
<1> DEFINE i == (1 % 10) + 1
<1>3. i \in 1 .. 10
  OBVIOUS
<1> HIDE DEF i
<1>4. Digits[i] \in Decimals
  BY <1>3, Zenon DEF Decimals
<1>5. Value(Numeral(1, 10), 10) = 1 /\ Numeral(1, 10) \in Texts
  BY <1>1, NumeralReads, Zenon
<1>6. Numeral(1, 10) = <<Digits[i]>>
  BY <1>2 DEF i
<1> QED BY <1>4, <1>5, <1>6, Zenon

PlainAt(r, m, code, d, x) ==
  /\ r \in Texts /\ Len(r) = m + 13 /\ StatusHead(r, m, code)
  /\ r[m + 4] = LengthMark /\ r[m + 5] = d /\ r[m + 6] = CR /\ r[m + 7] = LF
  /\ r[m + 8] = CloseMark /\ r[m + 9] = CR /\ r[m + 10] = LF
  /\ r[m + 11] = CR /\ r[m + 12] = LF /\ r[m + 13] = x

LEMMA PlainIs ==
  ASSUME NEW code \in Nat, NEW m, m = Len(Numeral(code, 10)), NEW x \in Symbols,
         NEW r, r = buildHttpResponse(code, <<x>>),
         NEW d \in Decimals, Numeral(1, 10) = <<d>>, <<d>> \in Texts
  PROVE  PlainAt(r, m, code, d, x)
<1> DEFINE s == StatusLine(code)
           y == <<LengthMark>>
           e == <<d>>
           z == <<CloseMark>>
           b == <<x>>
           t == s \o y \o e \o CRLF
           u == t \o z \o CRLF \o CRLF
           v == u \o b
<1>1. s \in Texts /\ Len(s) = m + 3 /\ StatusHead(s, m, code)
  BY StatusLineIs
<1>2. /\ y \in Texts /\ Len(y) = 1 /\ y[1] = LengthMark
      /\ e \in Texts /\ Len(e) = 1 /\ e[1] = d
      /\ z \in Texts /\ Len(z) = 1 /\ z[1] = CloseMark
      /\ b \in Texts /\ Len(b) = 1 /\ b[1] = x
  <2>1. LengthMark \in Symbols /\ CloseMark \in Symbols
    BY HeaderMarks
  <2>2. y \in Texts /\ z \in Texts /\ b \in Texts
    BY <2>1, OneText, Zenon
  <2> QED BY <2>2
<1>3. CRLF \in Texts /\ Len(CRLF) = 2 /\ CRLF[1] = CR /\ CRLF[2] = LF
  <2>1. Len(CRLF) = 2 /\ CRLF[1] = CR /\ CRLF[2] = LF
    BY DEF CRLF
  <2> QED BY <2>1, MarksAreTexts
<1>4. r = v
  <2>1. Len(<<x>>) = 1
    OBVIOUS
  <2>2. Numeral(Len(<<x>>), 10) = <<d>>
    BY <2>1
  <2>3. r = StatusLine(code) \o <<"Content-Length: ">> \o Numeral(Len(<<x>>), 10) \o CRLF
              \o <<"Connection: close">> \o CRLF \o CRLF \o <<x>>
    BY Zenon DEF buildHttpResponse
  <2> QED BY <2>2, <2>3, Zenon DEF LengthMark, CloseMark
<1> HIDE DEF s, y, e, z, b
<1>5. Laid4(t, s, y, e, CRLF)
  BY <1>1, <1>2, <1>3, FourParts, Zenon
<1> HIDE DEF t
<1>6. t \in Texts
  BY <1>5, Zenon DEF Laid4
<1>7. Laid4(u, t, z, CRLF, CRLF)
  BY <1>2, <1>3, <1>6, FourParts, Zenon
<1> HIDE DEF u
<1>8. u \in Texts
  BY <1>7, Zenon DEF Laid4
<1>9. Laid2(r, u, b)
  BY <1>2, <1>4, <1>8, TwoParts, Zenon
<1> HIDE DEF v
<1>10. m \in Nat /\ m > 0
  BY <1>1, Zenon DEF StatusHead
<1>11. /\ Len(t) = m + 7 /\ Here(t, 1, s)
       /\ Here(t, m + 4, y) /\ Here(t, m + 5, e) /\ Here(t, m + 6, CRLF)
  <2>1. /\ Len(t) = Len(s) + Len(y) + Len(e) + Len(CRLF)
        /\ Here(t, 1, s) /\ Here(t, 1 + Len(s), y) /\ Here(t, 1 + Len(s) + Len(y), e)
        /\ Here(t, 1 + Len(s) + Len(y) + Len(e), CRLF)
    BY <1>5, Zenon DEF Laid4
  <2>2. /\ Len(s) + Len(y) + Len(e) + Len(CRLF) = m + 7
        /\ 1 + Len(s) = m + 4 /\ 1 + Len(s) + Len(y) = m + 5
        /\ 1 + Len(s) + Len(y) + Len(e) = m + 6
    BY <1>1, <1>2, <1>3, <1>10
  <2> QED BY <2>1, <2>2
<1>12. /\ Len(u) = m + 12 /\ Here(u, 1, t)
       /\ Here(u, m + 8, z) /\ Here(u, m + 9, CRLF) /\ Here(u, m + 11, CRLF)
  <2>1. /\ Len(u) = Len(t) + Len(z) + Len(CRLF) + Len(CRLF)
        /\ Here(u, 1, t) /\ Here(u, 1 + Len(t), z) /\ Here(u, 1 + Len(t) + Len(z), CRLF)
        /\ Here(u, 1 + Len(t) + Len(z) + Len(CRLF), CRLF)
    BY <1>7, Zenon DEF Laid4
  <2>2. /\ Len(t) + Len(z) + Len(CRLF) + Len(CRLF) = m + 12
        /\ 1 + Len(t) = m + 8 /\ 1 + Len(t) + Len(z) = m + 9
        /\ 1 + Len(t) + Len(z) + Len(CRLF) = m + 11
    BY <1>2, <1>3, <1>10, <1>11
  <2> QED BY <2>1, <2>2
<1>13. r \in Texts /\ Len(r) = m + 13 /\ Here(r, 1, u) /\ Here(r, m + 13, b)
  <2>1. r \in Texts /\ Len(r) = Len(u) + Len(b) /\ Here(r, 1, u) /\ Here(r, 1 + Len(u), b)
    BY <1>9, Zenon DEF Laid2
  <2>2. Len(u) + Len(b) = m + 13 /\ 1 + Len(u) = m + 13
    BY <1>2, <1>10, <1>12
  <2> QED BY <2>1, <2>2
<1>14. \A i \in 1 .. m + 12 : r[i] = u[i]
  <2>1. ASSUME NEW i \in 1 .. m + 12 PROVE r[i] = u[i]
    <3>1. i \in 1 .. Len(u) /\ 1 + i - 1 = i
      BY <1>10, <1>12
    <3>2. r[1 + i - 1] = u[i]
      BY <1>13, <3>1, Zenon DEF Here
    <3> QED BY <3>1, <3>2
  <2> QED BY <2>1
<1>15. \A i \in 1 .. m + 7 : u[i] = t[i]
  <2>1. ASSUME NEW i \in 1 .. m + 7 PROVE u[i] = t[i]
    <3>1. i \in 1 .. Len(t) /\ 1 + i - 1 = i
      BY <1>10, <1>11
    <3>2. u[1 + i - 1] = t[i]
      BY <1>12, <3>1, Zenon DEF Here
    <3> QED BY <3>1, <3>2
  <2> QED BY <2>1
<1>16. \A i \in 1 .. m + 3 : t[i] = s[i]
  <2>1. ASSUME NEW i \in 1 .. m + 3 PROVE t[i] = s[i]
    <3>1. i \in 1 .. Len(s) /\ 1 + i - 1 = i
      BY <1>1, <1>10
    <3>2. t[1 + i - 1] = s[i]
      BY <1>11, <3>1, Zenon DEF Here
    <3> QED BY <3>1, <3>2
  <2> QED BY <2>1
<1>17. ASSUME NEW w, NEW i \in Nat, NEW c, Here(w, i, c), Len(c) = 1 PROVE w[i] = c[1]
  <2>1. 1 \in 1 .. Len(c) /\ i + 1 - 1 = i
    BY <1>17
  <2>2. w[i + 1 - 1] = c[1]
    BY <1>17, <2>1, Zenon DEF Here
  <2> QED BY <2>1, <2>2
<1>18. ASSUME NEW w, NEW i \in Nat, Here(w, i, CRLF) PROVE w[i] = CR /\ w[i + 1] = LF
  <2>1. 1 \in 1 .. Len(CRLF) /\ 2 \in 1 .. Len(CRLF) /\ i + 1 - 1 = i /\ i + 2 - 1 = i + 1
    BY <1>3
  <2>2. w[i + 1 - 1] = CRLF[1] /\ w[i + 2 - 1] = CRLF[2]
    BY <1>18, <2>1, Zenon DEF Here
  <2> QED BY <1>3, <2>1, <2>2
<1>19. t[m + 4] = LengthMark /\ t[m + 5] = d /\ t[m + 6] = CR /\ t[m + 7] = LF
  <2>1. m + 4 \in Nat /\ m + 5 \in Nat /\ m + 6 \in Nat /\ m + 6 + 1 = m + 7
    BY <1>10
  <2>2. t[m + 4] = y[1] /\ t[m + 5] = e[1]
    BY <1>2, <1>11, <1>17, <2>1, ZenonT(40)
  <2>3. t[m + 6] = CR /\ t[m + 6 + 1] = LF
    BY <1>11, <1>18, <2>1, Zenon
  <2> QED BY <1>2, <2>1, <2>2, <2>3
<1>20. u[m + 8] = CloseMark /\ u[m + 9] = CR /\ u[m + 10] = LF /\ u[m + 11] = CR /\ u[m + 12] = LF
  <2>1. /\ m + 8 \in Nat /\ m + 9 \in Nat /\ m + 11 \in Nat
        /\ m + 9 + 1 = m + 10 /\ m + 11 + 1 = m + 12
    BY <1>10
  <2>2. u[m + 8] = z[1]
    BY <1>2, <1>12, <1>17, <2>1, ZenonT(40)
  <2>3. u[m + 9] = CR /\ u[m + 9 + 1] = LF /\ u[m + 11] = CR /\ u[m + 11 + 1] = LF
    BY <1>12, <1>18, <2>1, Zenon
  <2> QED BY <1>2, <2>1, <2>2, <2>3
<1>21. r[m + 13] = x
  <2>1. m + 13 \in Nat
    BY <1>10
  <2>2. r[m + 13] = b[1]
    BY <1>2, <1>13, <1>17, <2>1, Zenon
  <2> QED BY <1>2, <2>2
<1>22. /\ r[m + 4] = LengthMark /\ r[m + 5] = d /\ r[m + 6] = CR /\ r[m + 7] = LF
       /\ r[m + 8] = CloseMark /\ r[m + 9] = CR /\ r[m + 10] = LF
       /\ r[m + 11] = CR /\ r[m + 12] = LF
  <2>1. r[m + 4] = u[m + 4] /\ r[m + 5] = u[m + 5] /\ r[m + 6] = u[m + 6] /\ r[m + 7] = u[m + 7]
    BY <1>10, <1>14
  <2>2. u[m + 4] = t[m + 4] /\ u[m + 5] = t[m + 5] /\ u[m + 6] = t[m + 6] /\ u[m + 7] = t[m + 7]
    BY <1>10, <1>15
  <2>3. /\ r[m + 8] = u[m + 8] /\ r[m + 9] = u[m + 9] /\ r[m + 10] = u[m + 10]
        /\ r[m + 11] = u[m + 11] /\ r[m + 12] = u[m + 12]
    BY <1>10, <1>14
  <2> QED BY <1>19, <1>20, <2>1, <2>2, <2>3
<1>23. \A i \in 1 .. m + 3 : r[i] = s[i]
  <2>1. ASSUME NEW i \in 1 .. m + 3 PROVE r[i] = s[i]
    <3>1. i \in 1 .. m + 12 /\ i \in 1 .. m + 7
      BY <1>10
    <3>2. r[i] = u[i] /\ u[i] = t[i] /\ t[i] = s[i]
      BY <3>1, <1>14, <1>15, <1>16
    <3> QED BY <3>2
  <2> QED BY <2>1
<1>24. Len(r) >= m + 3
  BY <1>10, <1>13
<1>25. StatusHead(r, m, code)
  BY <1>1, <1>23, <1>24, HeadKept, Zenon
<1> QED BY <1>13, <1>21, <1>22, <1>25 DEF PlainAt

LEMMA OnePart ==
  ASSUME NEW s \in Texts, NEW i \in 1 .. Len(s)
  PROVE  SubSeq(s, i, i) = <<s[i]>>
<1> DEFINE u == SubSeq(s, i, i)
           w == <<s[i]>>
<1>1. Len(s) \in Nat /\ s[i] \in Symbols
  BY LenType DEF Texts
<1>2. i \in Int /\ 1 <= i /\ i <= i + 1 /\ i <= Len(s)
  BY <1>1
<1>3. u \in Texts /\ Len(u) = i - i + 1 /\ \A n \in 1 .. i - i + 1 : u[n] = s[i + n - 1]
  BY <1>2, Part, Zenon
<1>4. w \in Texts /\ Len(w) = 1 /\ w[1] = s[i]
  <2>1. w \in Texts
    BY <1>1, OneText, Zenon
  <2> QED BY <2>1
<1> HIDE DEF u, w
<1>5. Len(u) = 1 /\ u[1] = s[i]
  <2>1. i - i + 1 = 1 /\ i + 1 - 1 = i /\ 1 \in 1 .. 1
    BY <1>2
  <2> QED BY <1>3, <2>1
<1>6. \A n \in 1 .. Len(u) : u[n] = w[n]
  BY <1>4, <1>5
<1> QED BY <1>3, <1>4, <1>5, <1>6, SameText DEF u, w

LEMMA PlainRead ==
  ASSUME NEW code \in Nat, NEW x \in Symbols, x # ChunkedMark
  PROVE  /\ ClientReads(buildHttpResponse(code, <<x>>)).content = <<x>>
         /\ ClientReads(buildHttpResponse(code, <<x>>)).status = code
<1> DEFINE r == buildHttpResponse(code, <<x>>)
           m == Len(Numeral(code, 10))
<1>1. PICK d \in Decimals : Numeral(1, 10) = <<d>> /\ Value(<<d>>, 10) = 1 /\ <<d>> \in Texts
  BY OneDigit, Zenon
<1>2. /\ r \in Texts /\ Len(r) = m + 13 /\ StatusHead(r, m, code)
      /\ r[m + 4] = LengthMark /\ r[m + 5] = d /\ r[m + 6] = CR /\ r[m + 7] = LF
      /\ r[m + 8] = CloseMark /\ r[m + 9] = CR /\ r[m + 10] = LF
      /\ r[m + 11] = CR /\ r[m + 12] = LF /\ r[m + 13] = x
  <2>1. m = Len(Numeral(code, 10)) /\ r = buildHttpResponse(code, <<x>>)
    OBVIOUS
  <2> HIDE DEF r, m
  <2>2. PlainAt(r, m, code, d, x)
    BY <1>1, <2>1, PlainIs, Zenon
  <2> QED BY <2>2, Zenon DEF PlainAt
<1> HIDE DEF r, m
<1>3. /\ m \in Nat /\ m > 0 /\ r[1] = StartMark /\ r[m + 2] = CR /\ r[m + 3] = LF
      /\ \A k \in 1 .. m : r[k + 1] \in Decimals
  BY <1>2, Zenon DEF StatusHead
<1>4. /\ StartMark # LengthMark /\ StartMark # ChunkedMark /\ LengthMark # CloseMark
      /\ LengthMark # ChunkedMark /\ CloseMark # ChunkedMark
      /\ LengthMark # CR /\ LengthMark # LF /\ CloseMark # CR /\ CloseMark # LF
      /\ ChunkedMark # CR /\ ChunkedMark # LF /\ CR # LF
  <2>1. CR # LF
    BY DEF CR, LF
  <2> QED BY <2>1, HeaderMarks
<1>5. /\ d # CR /\ d # LF /\ d # LengthMark /\ d # ChunkedMark
      /\ \A k \in 1 .. m : r[k + 1] # LengthMark /\ r[k + 1] # ChunkedMark
  BY <1>1, <1>3, DecimalsAre
<1>6. ASSUME NEW i \in 1 .. m + 3 PROVE r[i] # LengthMark /\ r[i] # ChunkedMark
  <2>1. CASE i \in 2 .. m + 1
    <3>1. i - 1 \in 1 .. m /\ i - 1 + 1 = i
      BY <1>3, <2>1
    <3> QED BY <1>5, <3>1
  <2>2. CASE i = 1 \/ i = m + 2 \/ i = m + 3
    BY <1>3, <1>4, <2>2
  <2> QED BY <1>3, <2>1, <2>2
<1>7. \A i \in 1 .. Len(r) : r[i] # ChunkedMark
  <2>1. ASSUME NEW i \in 1 .. Len(r) PROVE r[i] # ChunkedMark
    <3>1. \/ i \in 1 .. m + 3 \/ i = m + 4 \/ i = m + 5 \/ i = m + 6 \/ i = m + 7 \/ i = m + 8
          \/ i = m + 9 \/ i = m + 10 \/ i = m + 11 \/ i = m + 12 \/ i = m + 13
      BY <1>2, <1>3
    <3> QED BY <1>2, <1>4, <1>5, <1>6, <3>1
  <2> QED BY <2>1
<1>8. /\ <<ChunkedMark>> \in Texts /\ Len(<<ChunkedMark>>) > 0
      /\ <<LengthMark>> \in Texts /\ Len(<<LengthMark>>) > 0
  <2>1. ChunkedMark \in Symbols /\ LengthMark \in Symbols
    BY HeaderMarks
  <2> QED BY <2>1, OneText, Zenon
<1>9. find(r, <<ChunkedMark>>, 1) = npos
  <2> DEFINE y == <<ChunkedMark>>
  <2>1. \A i \in 1 .. Len(r) : 1 # 0 => ~Here(r, i, y)
    <3>1. ASSUME NEW i \in 1 .. Len(r) PROVE ~Here(r, i, y)
      <4>1. i \in Nat /\ r[i] # ChunkedMark
        BY <1>7
      <4> QED BY <1>2, <4>1, HereOne, Zenon
    <3> HIDE DEF y
    <3> QED BY <3>1
  <2>2. 1 \in Nat
    OBVIOUS
  <2> HIDE DEF y
  <2>3. y \in Texts /\ Len(y) > 0
    BY <1>8 DEF y
  <2>4. find(r, y, 1) = npos
    BY <1>2, <2>1, <2>2, <2>3, NotFound, Zenon
  <2> QED BY <2>4 DEF y
<1>10. find(r, <<LengthMark>>, 1) = m + 4
  <2> DEFINE y == <<LengthMark>>
             at == m + 4
  <2>1. \A i \in 1 .. at - 1 : ~Here(r, i, y)
    <3>1. ASSUME NEW i \in 1 .. m + 3 PROVE ~Here(r, i, y)
      <4>1. i \in Nat /\ r[i] # LengthMark
        BY <1>3, <1>6
      <4>2. r \in Texts
        BY <1>2
      <4> QED BY <4>1, <4>2, HereOne, Zenon
    <3>2. \A i \in 1 .. at - 1 : i \in 1 .. m + 3
      BY <1>3
    <3> HIDE DEF y, at
    <3> QED BY <3>1, <3>2
  <2>2. 1 \in Nat \ {0} /\ at \in Nat /\ 1 <= at /\ at \in 1 .. Len(r) /\ r[at] = LengthMark
    BY <1>2, <1>3
  <2> HIDE DEF at
  <2>3. Here(r, at, y)
    BY <1>2, <2>2, HereOne, Zenon
  <2> HIDE DEF y
  <2>4. y \in Texts /\ Len(y) > 0
    BY <1>8 DEF y
  <2>5. find(r, y, 1) = at
    BY <1>2, <2>1, <2>2, <2>3, <2>4, Found, Zenon
  <2> QED BY <2>5 DEF y, at
<1>11. find(r, BlankLine, 1) = m + 9
  <2> DEFINE at == m + 9
  <2>1. Here(r, at, BlankLine)
    <3>1. /\ at \in Nat /\ at \in 1 .. Len(r) - 3 /\ r[at] = CR /\ r[at + 1] = LF
          /\ r[at + 2] = CR /\ r[at + 3] = LF
      BY <1>2, <1>3
    <3> HIDE DEF at
    <3> QED BY <1>2, <3>1, HereBlank, Zenon
  <2>2. \A i \in 1 .. m + 3 : ~Here(r, i, BlankLine)
    <3>1. r[m + 4] # CR
      BY <1>2, <1>4
    <3> QED BY <1>2, <3>1, NoBlankInHead, Zenon
  <2>3. \A i \in m + 4 .. m + 8 : ~Here(r, i, BlankLine)
    <3>1. ASSUME NEW i \in m + 4 .. m + 8 PROVE ~Here(r, i, BlankLine)
      <4>1. i \in Nat /\ (i = m + 4 \/ i = m + 5 \/ i = m + 6 \/ i = m + 7 \/ i = m + 8)
        BY <1>3
      <4>2. i = m + 6 => i + 2 = m + 8
        BY <1>3
      <4>3. ~(r[i] = CR /\ r[i + 2] = CR)
        BY <1>2, <1>4, <1>5, <4>1, <4>2
      <4> QED BY <1>2, <4>1, <4>3, HereBlank, Zenon
    <3> QED BY <3>1
  <2>4. \A i \in 1 .. at - 1 : ~Here(r, i, BlankLine)
    <3>1. ASSUME NEW i \in 1 .. at - 1 PROVE ~Here(r, i, BlankLine)
      <4>1. i \in m + 4 .. m + 8 \/ i \in 1 .. m + 3
        BY <1>3
      <4> QED BY <2>2, <2>3, <4>1
    <3> QED BY <3>1
  <2>5. 1 \in Nat \ {0} /\ at \in Nat /\ 1 <= at /\ BlankLine \in Texts /\ Len(BlankLine) > 0
    BY <1>3, BlankLineIs
  <2> HIDE DEF at
  <2>6. find(r, BlankLine, 1) = at
    BY <1>2, <2>1, <2>4, <2>5, Found, Zenon
  <2> QED BY <2>6 DEF at
<1>12. ASSUME NEW i \in 1 .. Len(r) PROVE SubSeq(r, i, i) = <<r[i]>>
  <2>1. r \in Texts
    BY <1>2
  <2> QED BY <2>1, OnePart, Zenon
<1>13. SubSeq(r, m + 5, RunEnd(r, m + 5, Decimals)) = <<d>>
  <2> DEFINE j == m + 5
  <2>1. /\ j \in Nat \ {0} /\ j \in Nat /\ j <= j + 1 /\ j <= Len(r) /\ j \in 1 .. Len(r)
        /\ r[j] = d /\ r[j + 1] = CR /\ \A k \in j .. j : r[k] \in Decimals
    BY <1>1, <1>2, <1>3
  <2>2. r[j + 1] \notin Decimals
    BY <2>1, DecimalsAre
  <2> HIDE DEF j
  <2>3. RunEnd(r, j, Decimals) = j
    BY <1>2, <2>1, <2>2, RunEndIs, Zenon
  <2>4. SubSeq(r, j, j) = <<d>>
    BY <1>12, <2>1
  <2> QED BY <2>3, <2>4 DEF j
<1>14. From(r, m + 9 + 4) = <<x>>
  <2> DEFINE j == m + 13
  <2>1. j \in 1 .. Len(r) /\ j = Len(r) /\ r[j] = x /\ m + 9 + 4 = j
    BY <1>2, <1>3
  <2> HIDE DEF j
  <2>2. SubSeq(r, j, j) = <<x>>
    BY <1>12, <2>1
  <2> QED BY <2>1, <2>2 DEF From
<1>15. ClientReads(r).content =
         IF Value(SubSeq(r, find(r, <<LengthMark>>, 1) + 1,
                         RunEnd(r, find(r, <<LengthMark>>, 1) + 1, Decimals)), 10)
              = Len(From(r, find(r, BlankLine, 1) + 4))
         THEN From(r, find(r, BlankLine, 1) + 4) ELSE <<"broken">>
  BY <1>9, BlankLineIs DEF ClientReads, ChunkedMark, LengthMark
<1>16. find(r, <<LengthMark>>, 1) + 1 = m + 5 /\ find(r, BlankLine, 1) + 4 = m + 9 + 4
  BY <1>3, <1>10, <1>11
<1>17. Len(<<x>>) = 1
  OBVIOUS
<1>18. ClientReads(r).content = <<x>>
  BY <1>1, <1>13, <1>14, <1>15, <1>16, <1>17, Zenon
<1>19. ClientReads(r).status = Value(SubSeq(r, 2, RunEnd(r, 2, Decimals)), 10)
  BY DEF ClientReads
<1>20. m = Len(Numeral(code, 10))
  BY DEF m
<1>21. r \in Texts /\ StatusHead(r, m, code)
  BY <1>2
<1>22. ClientReads(r).status = code
  BY <1>19, <1>20, <1>21, StatusRead, Zenon
<1> QED BY <1>18, <1>22 DEF r

-----------------------------------------------------------------------------
(* What is answered.                                                       *)
Refusals == {"Invalid HTTP request", "Invalid JSON or missing message field", "ok", "Endpoint not found"}

LEMMA RefusalRead ==
  ASSUME NEW code \in Nat, NEW x \in Refusals
  PROVE  ClientReads(buildHttpResponse(code, <<x>>)).content \notin {<<>>, <<"broken">>}
<1>1. x \in Symbols
  BY DEF Refusals, Symbols, Marks
<1>2. x # ChunkedMark /\ x # "broken"
  <2>1. x # ChunkedMark
    BY Zenon DEF Refusals, ChunkedMark
  <2> QED BY <2>1 DEF Refusals
<1>3. ClientReads(buildHttpResponse(code, <<x>>)).content = <<x>>
  BY <1>1, <1>2, PlainRead, Zenon
<1>4. <<x>> # <<>> /\ <<x>> # <<"broken">>
  BY <1>2
<1> QED BY <1>3, <1>4

LEMMA MessageFound ==
  ASSUME NEW b \in Texts
  PROVE  parseJsonMessage(b).message \in Texts
<1> DEFINE colon == find(b, <<":">>, find(b, KeyMessage, 1))
           start == find(b, <<Quote>>, colon)
           end == IF start = npos THEN npos ELSE find(b, <<Quote>>, start + 1)
<1>1. /\ <<":">> \in Texts /\ Len(<<":">>) > 0 /\ <<Quote>> \in Texts /\ Len(<<Quote>>) > 0
      /\ KeyMessage \in Texts /\ Len(KeyMessage) > 0
  <2>1. ":" \in Symbols /\ Quote \in Symbols
    BY DEF Symbols, Marks
  <2>2. Len(KeyMessage) > 0
    BY DEF KeyMessage
  <2> QED BY <2>1, <2>2, OneText, MarksAreTexts, Zenon
<1>2. find(b, KeyMessage, 1) \in Nat
  <2>1. 1 \in Nat
    OBVIOUS
  <2> QED BY <1>1, <2>1, FindType, Zenon
<1>3. colon \in Nat
  BY <1>1, <1>2, FindType, Zenon
<1>4. start \in Nat
  <2> HIDE DEF colon
  <2> QED BY <1>1, <1>3, FindType, Zenon
<1> HIDE DEF colon, start
<1>5. end # npos => end \in start + 1 .. Len(b) /\ end \in Nat
  <2>1. start + 1 \in Nat
    BY <1>4
  <2> DEFINE e == find(b, <<Quote>>, start + 1)
  <2>2. e \in Nat /\ (e # npos => e \in start + 1 .. Len(b))
    BY <1>1, <2>1, FindType, Zenon
  <2> HIDE DEF e
  <2>3. end = IF start = npos THEN npos ELSE e
    BY DEF e
  <2> HIDE DEF end
  <2> QED BY <2>2, <2>3
<1>6. parseJsonMessage(b).message = IF end = npos THEN <<>> ELSE SubSeq(b, start + 1, end - 1)
  BY DEF parseJsonMessage, end, start, colon
<1> HIDE DEF end
<1>7. <<>> \in Texts
  BY MarksAreTexts
<1>8. ASSUME end # npos PROVE SubSeq(b, start + 1, end - 1) \in Texts
  <2> DEFINE i == start + 1
             j == end - 1
  <2>1. i \in Int /\ j \in Int /\ 1 <= i /\ i <= j + 1 /\ j <= Len(b)
    BY <1>4, <1>5, <1>8, LenType
  <2> HIDE DEF i, j
  <2>2. SubSeq(b, i, j) \in Texts
    BY <2>1, Part, Zenon
  <2> QED BY <2>2 DEF i, j
<1> QED BY <1>6, <1>7, <1>8

Refused == \E code \in Nat, x \in Refusals : reply = buildHttpResponse(code, <<x>>)
Answered ==
  \E p, q \in Pieces :
    /\ answer = <<p, q>>
    /\ reply = buildHttpChunkedResponseHeader(200) \o ChunkOf(p) \o ChunkOf(q) \o final_chunk

(* The worker has loaded the saved vocabulary; the message found is a      *)
(* text; nothing is answered before the header, and then all of it or an   *)
(* error.                                                                  *)
ReplyInv ==
  /\ ReadInv
  /\ stage # "start" => tokenizer = load_vocab(save_vocab(vocab.words, vocab.chars))
  /\ stage \in {"parsed", "encoded"} =>
       request.message \in Texts /\ reply = buildHttpChunkedResponseHeader(200)
  /\ stage \notin {"failed", "done"} => answer = <<>>
  /\ stage \in {"failed", "done"} => (answer = <<>> /\ Refused) \/ Answered

LEMMA ReplyInvInit == Init => ReplyInv
<1> SUFFICES ASSUME Init PROVE ReplyInv
  OBVIOUS
<1>1. stage = "start" /\ answer = <<>>
  BY DEF Init
<1> QED BY <1>1, ReadInvInit DEF ReplyInv

(* A step with which nothing is answered.                                  *)
LEMMA SilentKeeps ==
  ASSUME ReplyInv, ReadInv', stage # "start", stage \notin {"failed", "done"},
         stage' \notin {"start", "parsed", "encoded", "failed", "done"},
         UNCHANGED <<tokenizer, vocab, answer>>
  PROVE  ReplyInv'
BY DEF ReplyInv

(* A step with which the request is refused.                               *)
LEMMA RefusingKeeps ==
  ASSUME ReplyInv, ReadInv', stage # "start", stage \notin {"failed", "done"},
         stage' \in {"failed", "done"}, UNCHANGED <<tokenizer, vocab, answer>>,
         NEW code \in Nat, NEW x \in Refusals, Refuse(code, x)
  PROVE  ReplyInv'
<1>1. Refused'
  BY Zenon DEF Refused, Refuse
<1>2. answer' = <<>> /\ tokenizer' = load_vocab(save_vocab(vocab'.words, vocab'.chars))
  BY DEF ReplyInv
<1> QED BY <1>1, <1>2 DEF ReplyInv

LEMMA InvalidIs ==
  ASSUME Invalid
  PROVE  \E code \in Nat, x \in Refusals : Refuse(code, x)
<1>1. "Invalid HTTP request" \in Refusals /\ 400 \in Nat
  BY DEF Refusals
<1> QED BY <1>1, Zenon DEF Invalid

LEMMA HandleKeeps ==
  ASSUME ReplyInv, ReadInv', Handle
  PROVE  ReplyInv'
<1>1. /\ stage = "read" /\ tokenizer' = tokenizer /\ vocab' = vocab /\ answer' = answer
      /\ stage # "start" /\ stage \notin {"failed", "done"}
  BY DEF Handle
<1>2. CASE stage' = "parsed" /\ request' = parseJsonMessage(body)
           /\ reply' = buildHttpChunkedResponseHeader(200)
  <2>1. body \in Texts
    <3>1. body = JsonBody(client) /\ Comes(client)
      BY <1>1 DEF ReplyInv, ReadInv, ReadWhole
    <3> QED BY <3>1, JsonBodyType
  <2>2. request'.message \in Texts
    BY <1>2, <2>1, MessageFound
  <2> QED BY <1>1, <1>2, <2>2 DEF ReplyInv
<1>3. CASE stage' = "done" /\ \E code \in Nat, x \in Refusals : Refuse(code, x)
  <2>1. PICK code \in Nat, x \in Refusals : Refuse(code, x)
    BY <1>3
  <2>2. stage' \in {"failed", "done"}
    BY <1>3
  <2>3. UNCHANGED <<tokenizer, vocab, answer>>
    BY <1>1
  <2> QED BY <1>1, <2>1, <2>2, <2>3, RefusingKeeps
<1>4. /\ "Invalid JSON or missing message field" \in Refusals /\ 400 \in Nat /\ 200 \in Nat /\ 404 \in Nat
      /\ "ok" \in Refusals /\ "Endpoint not found" \in Refusals
  BY DEF Refusals
<1>5. \/ /\ stage' = "parsed" /\ request' = parseJsonMessage(body)
         /\ reply' = buildHttpChunkedResponseHeader(200)
      \/ stage' = "done" /\ Refuse(400, "Invalid JSON or missing message field")
      \/ stage' = "done" /\ (Refuse(200, "ok") \/ Refuse(404, "Endpoint not found"))
  BY ZenonT(40) DEF Handle
<1> QED BY <1>2, <1>3, <1>4, <1>5, ZenonT(40)

LEMMA ReplyKeeps ==
  ASSUME ReplyInv, ReadInv', Reply
  PROVE  ReplyInv'
<1>1. /\ stage = "encoded" /\ stage' = "done" /\ tokenizer' = tokenizer /\ vocab' = vocab
      /\ reply' = reply \o ChunkOf(answer'[1]) \o ChunkOf(answer'[2]) \o final_chunk
  BY DEF Reply
<1>2. PICK id \in TokenIds :
        answer' = <<[text |-> request.message, is_last |-> FALSE],
                    [text |-> decode(tokenizer, id), is_last |-> TRUE]>>
  BY DEF Reply
<1> DEFINE p == [text |-> request.message, is_last |-> FALSE]
           q == [text |-> decode(tokenizer, id), is_last |-> TRUE]
<1>3. request.message \in Texts /\ reply = buildHttpChunkedResponseHeader(200)
  BY <1>1 DEF ReplyInv
<1>4. decode(tokenizer, id) \in Texts
  <2>1. tokenizer = load_vocab(save_vocab(vocab.words, vocab.chars)) /\ vocab \in DOMAIN Clients
    BY <1>1 DEF ReplyInv, ReadInv
  <2> DEFINE w == vocab.words  c == vocab.chars
  <2>2. w \in Seq(Texts) /\ c \in Seq(Texts)
    <3>1. w \in Seq(String) /\ c \in Seq(String)
      BY <2>1, TextAssumption
    <3> HIDE DEF w, c
    <3> QED BY <3>1, StringsAreTexts, SeqMonotonic
  <2> HIDE DEF w, c
  <2>3. decode(load_vocab(save_vocab(w, c)), id) \in Texts
    BY <2>2, DecodeType, Zenon
  <2> QED BY <2>1, <2>3 DEF w, c
<1>5. p \in Pieces /\ q \in Pieces
  BY <1>3, <1>4 DEF Pieces
<1>6. answer' = <<p, q>>
  BY <1>2
<1> HIDE DEF p, q
<1>7. answer'[1] = p /\ answer'[2] = q
  BY <1>6
<1>8. reply' = buildHttpChunkedResponseHeader(200) \o ChunkOf(p) \o ChunkOf(q) \o final_chunk
  BY <1>1, <1>3, <1>7
<1>9. Answered'
  BY <1>5, <1>6, <1>8, Zenon DEF Answered
<1> QED BY <1>1, <1>9 DEF ReplyInv

LEMMA ReplyInvPreserved == ReplyInv /\ [Next]_vars => ReplyInv'
<1> SUFFICES ASSUME ReplyInv, [Next]_vars PROVE ReplyInv'
  OBVIOUS
<1>0. ReadInv'
  BY ReadInvPreserved DEF ReplyInv
<1>1. CASE Load
  BY <1>0, <1>1 DEF Load, ReplyInv, answering
<1>2. CASE Connect
  <2>1. stage = "accept" /\ stage' = "headers" /\ UNCHANGED <<tokenizer, vocab, answer>>
    BY <1>2 DEF Connect, answering
  <2> QED BY <1>0, <2>1, SilentKeeps
<1>3. CASE GoAway
  <2>1. /\ stage \in {"headers", "body"} /\ stage' = stage /\ UNCHANGED <<tokenizer, vocab, answer>>
    BY <1>3 DEF GoAway, answering
  <2> QED BY <1>0, <2>1, SilentKeeps
<1>4. CASE RecvFails
  <2>1. /\ stage \in {"headers", "body"} /\ stage' = "failed" /\ Invalid
        /\ UNCHANGED <<tokenizer, vocab, answer>>
    BY <1>4 DEF RecvFails
  <2>2. PICK code \in Nat, x \in Refusals : Refuse(code, x)
    BY <2>1, InvalidIs
  <2> QED BY <1>0, <2>1, <2>2, RefusingKeeps
<1>5. ASSUME NEW n \in 1 .. BUF, RecvHeaders(n) PROVE ReplyInv'
  <2>1. stage = "headers" /\ UNCHANGED <<tokenizer, vocab, answer>>
    BY <1>5 DEF RecvHeaders
  <2>2. stage' \in {"headers", "read", "body"} \/ (stage' = "failed" /\ Invalid)
    BY <1>5, Zenon DEF RecvHeaders, HeadersEnd
  <2>3. CASE stage' \in {"headers", "read", "body"}
    BY <1>0, <2>1, <2>3, SilentKeeps
  <2>4. CASE stage' = "failed" /\ Invalid
    <3>1. PICK code \in Nat, x \in Refusals : Refuse(code, x)
      BY <2>4, InvalidIs
    <3> QED BY <1>0, <2>1, <2>4, <3>1, RefusingKeeps
  <2> QED BY <2>2, <2>3, <2>4
<1>6. ASSUME NEW n \in 1 .. BUF, RecvBody(n) PROVE ReplyInv'
  <2>1. /\ stage = "body" /\ stage' \in {"body", "read"}
        /\ UNCHANGED <<tokenizer, vocab, answer>>
    BY <1>6 DEF RecvBody, answering
  <2> QED BY <1>0, <2>1, SilentKeeps
<1>7. CASE Handle
  BY <1>0, <1>7, HandleKeeps
<1>8. CASE EncodePrompt
  BY <1>0, <1>8 DEF EncodePrompt, ReplyInv
<1>9. CASE Reply
  BY <1>0, <1>9, ReplyKeeps
<1>10. CASE UNCHANGED vars
  BY <1>0, <1>10, ZenonT(40) DEF vars, ReplyInv, Refused, Answered
<1> QED BY <1>1, <1>2, <1>3, <1>4, <1>5, <1>6, <1>7, <1>8, <1>9, <1>10 DEF Next, ReadStep

LEMMA ReplyInvariant == Spec => []ReplyInv
<1>1. ReplyInv /\ [Next]_vars => ReplyInv'
  BY ReplyInvPreserved
<1> QED BY <1>1, ReplyInvInit, PTL DEF Spec

LEMMA ReplyInvReads == ReplyInv => ReplyReads
<1> SUFFICES ASSUME ReplyInv PROVE ReplyReads
  OBVIOUS
<1>1. ASSUME Answered PROVE answer # <<>> /\ ClientReads(reply) = [status |-> 200, content |-> answer]
  <2>1. PICK p \in Pieces, q \in Pieces :
          /\ answer = <<p, q>>
          /\ reply = buildHttpChunkedResponseHeader(200) \o ChunkOf(p) \o ChunkOf(q) \o final_chunk
    BY <1>1 DEF Answered
  <2>2. 200 \in Nat
    OBVIOUS
  <2>3. ClientReads(reply) = [status |-> 200, content |-> <<p, q>>]
    BY <2>1, <2>2, AnswerRead, ZenonT(40)
  <2>4. <<p, q>> # <<>>
    OBVIOUS
  <2> QED BY <2>1, <2>3, <2>4
<1>2. ASSUME Refused PROVE ClientReads(reply).content \notin {<<>>, <<"broken">>}
  <2>1. PICK code \in Nat, x \in Refusals : reply = buildHttpResponse(code, <<x>>)
    BY <1>2 DEF Refused
  <2> QED BY <2>1, RefusalRead
<1>3. answer # <<>> => Answered
  BY DEF ReplyInv
<1>4. stage \in {"failed", "done"} /\ answer = <<>> => Refused
  BY <1>1 DEF ReplyInv
<1> QED BY <1>1, <1>2, <1>3, <1>4 DEF ReplyReads

(* A response reads, by the rules of HTTP and JSON, as what the worker     *)
(* sent, whatever symbols the prompt is made of, or as one error text      *)
(* (buildHttpChunk, buildHttpResponse, the escapes of                      *)
(* build_json_response_chunk).                                             *)
THEOREM RepliesReadBack == Spec => []ReplyReads
BY ReplyInvReads, ReplyInvariant, PTL

-----------------------------------------------------------------------------
LEMMA WholePart ==
  ASSUME NEW s \in Texts
  PROVE  SubSeq(s, 1, Len(s)) = s
<1> DEFINE n == Len(s)
           u == SubSeq(s, 1, n)
<1>1. 1 <= n + 1 /\ n <= Len(s) /\ 1 \in Int /\ n \in Int /\ 1 <= 1
  BY LenType
<1>2. n = Len(s)
  OBVIOUS
<1> HIDE DEF n
<1>3. u \in Texts /\ Len(u) = n - 1 + 1 /\ \A i \in 1 .. n - 1 + 1 : u[i] = s[1 + i - 1]
  BY <1>1, Part, Zenon
<1> HIDE DEF u
<1>4. Len(u) = Len(s) /\ \A i \in 1 .. Len(u) : u[i] = s[i]
  BY <1>1, <1>2, <1>3
<1>5. u = s
  BY <1>3, <1>4, SameText
<1> QED BY <1>5 DEF u, n

(* What a client means by its fields.                                      *)
EscapedQuotes(s) ==
  FlattenSeq([i \in DOMAIN s |->
                IF s[i] \in {Quote, Backslash} THEN <<Backslash, s[i]>> ELSE <<s[i]>>])

LEMMA QuotedIs ==
  ASSUME NEW s \in Texts
  PROVE  /\ EscapedQuotes(s) \in Texts
         /\ Quoted(s) = <<Quote>> \o EscapedQuotes(s) \o <<Quote>>
         /\ Plain(s) => EscapedQuotes(s) = s
<1> DEFINE e(i) == IF s[i] \in {Quote, Backslash} THEN <<Backslash, s[i]>> ELSE <<s[i]>>
           M == [i \in DOMAIN s |-> e(i)]
           n == Len(s)
<1>1. DOMAIN s = 1 .. n /\ n \in Nat /\ \A i \in 1 .. n : s[i] \in Symbols
  BY LenType DEF Texts
<1>2. ASSUME NEW i \in 1 .. n PROVE e(i) \in Texts
  <2>1. s[i] \in Symbols
    BY <1>1
  <2>2. Backslash \in Symbols
    BY DEF Symbols, Marks
  <2> DEFINE x == s[i]
  <2> HIDE DEF x
  <2>3. <<Backslash, x>> \in Texts /\ <<x>> \in Texts
    <3>1. x \in Symbols
      BY <2>1 DEF x
    <3> QED BY <2>2, <3>1, OneText, TwoText, Zenon
  <2> QED BY <2>3 DEF x
<1>3. M \in [1 .. n -> Texts]
  <2> HIDE DEF e, n
  <2> QED BY <1>1, <1>2
<1>4. EscapedQuotes(s) = FlattenSeq(M)
  BY Zenon DEF EscapedQuotes
<1>5. FlattenSeq(M) \in Texts
  <2> HIDE DEF M, n
  <2> QED BY <1>1, <1>3, JoinedType DEF Texts
<1>6. Quoted(s) = <<Quote>> \o EscapedQuotes(s) \o <<Quote>>
  BY Zenon DEF Quoted, EscapedQuotes
<1>7. ASSUME Plain(s) PROVE FlattenSeq(M) = s
  <2>1. \A i \in 1 .. n : s[i] \notin {Quote, Backslash}
    BY <1>1, <1>7 DEF Plain, ToSet
  <2>2. \A i \in 1 .. n : M[i] = <<s[i]>>
    BY <1>1, <2>1
  <2> DEFINE g == [k \in 0 .. n |-> SubSeq(s, 1, k)]
  <2>3. ASSUME NEW k \in 0 .. n PROVE SubSeq(s, 1, k) \in Texts /\ Len(SubSeq(s, 1, k)) = k
    <3>1. 1 <= k + 1 /\ k <= Len(s) /\ 1 \in Int /\ k \in Int /\ 1 <= 1 /\ k - 1 + 1 = k
      BY <1>1
    <3> DEFINE u == SubSeq(s, 1, k)
    <3>2. u \in Texts /\ Len(u) = k - 1 + 1
      BY <3>1, Part, Zenon
    <3> QED BY <3>1, <3>2
  <2>4. g \in [0 .. n -> Seq(Symbols)]
    <3> HIDE DEF n
    <3> QED BY <2>3 DEF Texts
  <2>5. g[0] = <<>>
    <3> DEFINE u == SubSeq(s, 1, 0)
    <3>1. 0 \in 0 .. n
      BY <1>1
    <3>2. u \in Texts /\ Len(u) = 0
      BY <2>3, <3>1
    <3>3. g[0] = u
      BY <3>1
    <3> HIDE DEF u, g
    <3> QED BY <3>2, <3>3 DEF Texts
  <2>6. ASSUME NEW k \in 1 .. n PROVE g[k] = g[k - 1] \o M[k]
    <3>1. k \in 0 .. n /\ k - 1 \in 0 .. n /\ k \in 1 .. Len(s)
      BY <1>1
    <3>2. g[k] = SubSeq(s, 1, k) /\ g[k - 1] = SubSeq(s, 1, k - 1)
      BY <3>1
    <3>3. SubSeq(s, k, k) = <<s[k]>>
      BY <3>1, OnePart, Zenon
    <3> DEFINE j == k - 1
    <3>4. 1 \in Int /\ j \in Int /\ k \in Int /\ 1 <= 1 /\ 1 <= j + 1 /\ j <= k /\ k <= Len(s) /\ j + 1 = k
      BY <1>1
    <3> HIDE DEF j
    <3>5. SubSeq(s, 1, j) \o SubSeq(s, j + 1, k) = SubSeq(s, 1, k)
      BY <3>4, PartsJoin, Zenon
    <3>6. M[k] = SubSeq(s, j + 1, k)
      BY <2>2, <3>3, <3>4
    <3> HIDE DEF g, M
    <3> QED BY <3>2, <3>5, <3>6 DEF j
  <2>7. Joins(Symbols, n, M, g)
    <3> HIDE DEF g, M, n
    <3> QED BY <2>4, <2>5, <2>6 DEF Joins
  <2>8. FlattenSeq(M) = g[n]
    <3> HIDE DEF g, M, n
    <3> QED BY <1>1, <1>3, <2>7, JoinedAre, Zenon DEF Texts
  <2>9. g[n] = SubSeq(s, 1, n)
    BY <1>1
  <2>10. SubSeq(s, 1, n) = s
    BY WholePart, Zenon
  <2> HIDE DEF g, M, n
  <2> QED BY <2>8, <2>9, <2>10
<1> QED BY <1>4, <1>5, <1>6, <1>7

Colon == ":"
Blank == " "
Comma == ","
MessageName == "message"
NumberName == "max_tokens"

(* Where a field is: its key, a colon, a blank, and its value.             *)
MessageAt(b, i, e) ==
  /\ i \in Nat \ {0} /\ Len(e) \in Nat /\ i + 6 + Len(e) <= Len(b)
  /\ b[i] = Quote /\ b[i + 1] = MessageName /\ b[i + 2] = Quote
  /\ b[i + 3] = Colon /\ b[i + 4] = Blank /\ b[i + 5] = Quote
  /\ \A k \in 1 .. Len(e) : b[i + 5 + k] = e[k]
  /\ b[i + 6 + Len(e)] = Quote
NumberAt(b, i, t) ==
  /\ i \in Nat \ {0} /\ Len(t) \in Nat /\ i + 4 + Len(t) <= Len(b)
  /\ b[i] = Quote /\ b[i + 1] = NumberName /\ b[i + 2] = Quote
  /\ b[i + 3] = Colon /\ b[i + 4] = Blank
  /\ \A k \in 1 .. Len(t) : b[i + 4 + k] = t[k]

LEMMA KeysAre ==
  /\ KeyMessage \in Texts /\ Len(KeyMessage) = 3
  /\ KeyMessage[1] = Quote /\ KeyMessage[2] = MessageName /\ KeyMessage[3] = Quote
  /\ KeyMaxTokens \in Texts /\ Len(KeyMaxTokens) = 3
  /\ KeyMaxTokens[1] = Quote /\ KeyMaxTokens[2] = NumberName /\ KeyMaxTokens[3] = Quote
<1>1. Len(KeyMessage) = 3 /\ KeyMessage[1] = Quote /\ KeyMessage[2] = MessageName /\ KeyMessage[3] = Quote
  BY DEF KeyMessage, MessageName
<1>2. Len(KeyMaxTokens) = 3 /\ KeyMaxTokens[1] = Quote /\ KeyMaxTokens[2] = NumberName
      /\ KeyMaxTokens[3] = Quote
  BY DEF KeyMaxTokens, NumberName
<1> QED BY <1>1, <1>2, MarksAreTexts

LEMMA PairsAre ==
  /\ <<Quote>> \in Texts /\ Len(<<Quote>>) = 1 /\ <<Quote>>[1] = Quote
  /\ <<Colon, Blank>> \in Texts /\ Len(<<Colon, Blank>>) = 2
  /\ <<Colon, Blank>>[1] = Colon /\ <<Colon, Blank>>[2] = Blank
  /\ <<Comma, Blank>> \in Texts /\ Len(<<Comma, Blank>>) = 2
  /\ <<Comma, Blank>>[1] = Comma /\ <<Comma, Blank>>[2] = Blank
<1>1. <<Quote>> \in Texts /\ <<Colon, Blank>> \in Texts /\ <<Comma, Blank>> \in Texts
  BY MarksAreTexts, Zenon DEF Colon, Blank, Comma
<1> QED BY <1>1

LEMMA MessageFieldHere ==
  ASSUME NEW c \in Requests, NEW b \in Texts, NEW i \in Nat \ {0}, Here(b, i, MessageField(c)),
         NEW e, e = EscapedQuotes(FlattenSeq(c.message))
  PROVE  Len(MessageField(c)) = Len(e) + 7 /\ MessageAt(b, i, e)
<1> DEFINE f == FlattenSeq(c.message)
           q == <<Quote>>
           a == KeyMessage
           s == <<Colon, Blank>>
           v == q \o e \o q
           t == a \o s \o v
<1>1. f \in Texts
  BY MessageType
<1> HIDE DEF f
<1>2. e \in Texts /\ Quoted(f) = v /\ Len(e) \in Nat
  <2>1. e = EscapedQuotes(f)
    BY DEF f
  <2>2. EscapedQuotes(f) \in Texts /\ Quoted(f) = <<Quote>> \o EscapedQuotes(f) \o <<Quote>>
    BY <1>1, QuotedIs, Zenon
  <2> QED BY <2>1, <2>2, LenType
<1>3. q \in Texts /\ Len(q) = 1 /\ q[1] = Quote
      /\ s \in Texts /\ Len(s) = 2 /\ s[1] = Colon /\ s[2] = Blank
  BY PairsAre
<1>4. /\ a \in Texts /\ Len(a) = 3 /\ a[1] = Quote /\ a[2] = MessageName /\ a[3] = Quote
  BY KeysAre
<1>5. MessageField(c) = t
  BY <1>2, Zenon DEF MessageField, f, Colon, Blank
<1> HIDE DEF q, a, s
<1>6. Laid3(v, q, e, q)
  BY <1>2, <1>3, ThreeParts, Zenon
<1> HIDE DEF v
<1>7. v \in Texts /\ Len(v) = Len(e) + 2 /\ Here(v, 1, q) /\ Here(v, 2, e) /\ Here(v, 2 + Len(e), q)
  <2>1. /\ v \in Texts /\ Len(v) = Len(q) + Len(e) + Len(q)
        /\ Here(v, 1, q) /\ Here(v, 1 + Len(q), e) /\ Here(v, 1 + Len(q) + Len(e), q)
    BY <1>6, Zenon DEF Laid3
  <2>2. Len(q) + Len(e) + Len(q) = Len(e) + 2 /\ 1 + Len(q) = 2 /\ 1 + Len(q) + Len(e) = 2 + Len(e)
    BY <1>2, <1>3
  <2> QED BY <2>1, <2>2
<1>8. Laid3(t, a, s, v)
  BY <1>3, <1>4, <1>7, ThreeParts, Zenon
<1> HIDE DEF t
<1>9. t \in Texts /\ Len(t) = Len(e) + 7 /\ Here(t, 1, a) /\ Here(t, 4, s) /\ Here(t, 6, v)
  <2>1. /\ t \in Texts /\ Len(t) = Len(a) + Len(s) + Len(v)
        /\ Here(t, 1, a) /\ Here(t, 1 + Len(a), s) /\ Here(t, 1 + Len(a) + Len(s), v)
    BY <1>8, Zenon DEF Laid3
  <2>2. Len(a) + Len(s) + Len(v) = Len(e) + 7 /\ 1 + Len(a) = 4 /\ 1 + Len(a) + Len(s) = 6
    BY <1>2, <1>3, <1>4, <1>7
  <2> QED BY <2>1, <2>2
<1>10. Here(b, i, t)
  BY <1>5
<1>11. \A k \in 1 .. Len(e) + 7 : i + k - 1 \in 1 .. Len(b) /\ b[i + k - 1] = t[k]
  BY <1>9, <1>10 DEF Here
<1>12. t[1] = Quote /\ t[2] = MessageName /\ t[3] = Quote
  <2>1. \A k \in 1 .. 3 : t[1 + k - 1] = a[k]
    BY <1>4, <1>9 DEF Here
  <2>2. t[1 + 1 - 1] = a[1] /\ t[1 + 2 - 1] = a[2] /\ t[1 + 3 - 1] = a[3]
    BY <2>1
  <2> QED BY <1>4, <2>2
<1>13. t[4] = Colon /\ t[5] = Blank
  <2>1. \A k \in 1 .. 2 : t[4 + k - 1] = s[k]
    BY <1>3, <1>9 DEF Here
  <2>2. t[4 + 1 - 1] = s[1] /\ t[4 + 2 - 1] = s[2]
    BY <2>1
  <2> QED BY <1>3, <2>2
<1>14. \A k \in 1 .. Len(v) : t[5 + k] = v[k]
  <2>1. \A k \in 1 .. Len(v) : t[6 + k - 1] = v[k]
    BY <1>9, Zenon DEF Here
  <2>2. ASSUME NEW k \in 1 .. Len(v) PROVE t[5 + k] = v[k]
    <3>1. 6 + k - 1 = 5 + k
      BY <1>2, <1>7
    <3> QED BY <2>1, <3>1
  <2> QED BY <2>2
<1>15. v[1] = Quote /\ v[2 + Len(e)] = Quote
  <2>1. 1 \in 1 .. Len(q) /\ 1 + 1 - 1 = 1 /\ 2 + Len(e) + 1 - 1 = 2 + Len(e)
    BY <1>2, <1>3
  <2>2. v[1 + 1 - 1] = q[1] /\ v[2 + Len(e) + 1 - 1] = q[1]
    BY <1>7, <2>1, Zenon DEF Here
  <2> QED BY <1>3, <2>1, <2>2
<1>16. \A k \in 1 .. Len(e) : v[k + 1] = e[k]
  <2>1. \A k \in 1 .. Len(e) : v[2 + k - 1] = e[k]
    BY <1>7, Zenon DEF Here
  <2>2. ASSUME NEW k \in 1 .. Len(e) PROVE v[k + 1] = e[k]
    <3>1. 2 + k - 1 = k + 1
      BY <1>2
    <3> QED BY <2>1, <3>1
  <2> QED BY <2>2
<1>17. t[6] = Quote /\ t[7 + Len(e)] = Quote
  <2>1. t[5 + 1] = v[1] /\ t[5 + (2 + Len(e))] = v[2 + Len(e)]
    BY <1>2, <1>7, <1>14
  <2> QED BY <1>2, <1>15, <2>1
<1>18. \A k \in 1 .. Len(e) : t[6 + k] = e[k]
  <2>1. ASSUME NEW k \in 1 .. Len(e) PROVE t[6 + k] = e[k]
    <3>1. k + 1 \in 1 .. Len(v) /\ 5 + (k + 1) = 6 + k
      BY <1>2, <1>7
    <3>2. t[5 + (k + 1)] = v[k + 1]
      BY <1>14, <3>1
    <3> QED BY <1>16, <3>1, <3>2
  <2> QED BY <2>1
<1>19. /\ b[i] = Quote /\ b[i + 1] = MessageName /\ b[i + 2] = Quote
       /\ b[i + 3] = Colon /\ b[i + 4] = Blank /\ b[i + 5] = Quote
  <2>1. b[i + 1 - 1] = t[1] /\ b[i + 2 - 1] = t[2] /\ b[i + 3 - 1] = t[3]
    BY <1>2, <1>11
  <2>2. b[i + 4 - 1] = t[4] /\ b[i + 5 - 1] = t[5] /\ b[i + 6 - 1] = t[6]
    BY <1>2, <1>11
  <2> QED BY <1>12, <1>13, <1>17, <2>1, <2>2
<1>20. i + 6 + Len(e) <= Len(b) /\ b[i + 6 + Len(e)] = Quote
  <2>1. 7 + Len(e) \in 1 .. Len(e) + 7 /\ i + (7 + Len(e)) - 1 = i + 6 + Len(e)
    BY <1>2
  <2>2. i + 6 + Len(e) \in 1 .. Len(b) /\ b[i + 6 + Len(e)] = t[7 + Len(e)]
    BY <1>11, <2>1
  <2>3. Len(b) \in Nat
    BY LenType
  <2> QED BY <1>17, <2>2, <2>3
<1>21. \A k \in 1 .. Len(e) : b[i + 5 + k] = e[k]
  <2>1. ASSUME NEW k \in 1 .. Len(e) PROVE b[i + 5 + k] = e[k]
    <3>1. 6 + k \in 1 .. Len(e) + 7 /\ i + (6 + k) - 1 = i + 5 + k
      BY <1>2
    <3>2. b[i + 5 + k] = t[6 + k]
      BY <1>11, <3>1
    <3> QED BY <1>18, <3>2
  <2> QED BY <2>1
<1>22. MessageAt(b, i, e)
  BY <1>2, <1>19, <1>20, <1>21, Zenon DEF MessageAt
<1> QED BY <1>5, <1>9, <1>22

LEMMA NumberFieldHere ==
  ASSUME NEW c \in Requests, c.max_tokens # <<>>, NEW b \in Texts, NEW i \in Nat \ {0},
         Here(b, i, NumberField(c)), NEW v, v = NumberText(c.max_tokens[1])
  PROVE  Len(NumberField(c)) = Len(v) + 5 /\ NumberAt(b, i, v)
<1> DEFINE a == KeyMaxTokens
           s == <<Colon, Blank>>
           t == a \o s \o v
<1>1. c.max_tokens[1] \in Int
  BY DEF Requests
<1>2. v \in Texts /\ Len(v) \in Nat
  BY <1>1, NumberTextType, LenType
<1>3. s \in Texts /\ Len(s) = 2 /\ s[1] = Colon /\ s[2] = Blank
  BY PairsAre
<1>4. /\ a \in Texts /\ Len(a) = 3 /\ a[1] = Quote /\ a[2] = NumberName /\ a[3] = Quote
  BY KeysAre
<1>5. NumberField(c) = t
  BY Zenon DEF NumberField, Colon, Blank
<1> HIDE DEF a, s
<1>6. Laid3(t, a, s, v)
  BY <1>2, <1>3, <1>4, ThreeParts, Zenon
<1> HIDE DEF t
<1>7. t \in Texts /\ Len(t) = Len(v) + 5 /\ Here(t, 1, a) /\ Here(t, 4, s) /\ Here(t, 6, v)
  <2>1. /\ t \in Texts /\ Len(t) = Len(a) + Len(s) + Len(v)
        /\ Here(t, 1, a) /\ Here(t, 1 + Len(a), s) /\ Here(t, 1 + Len(a) + Len(s), v)
    BY <1>6, Zenon DEF Laid3
  <2>2. Len(a) + Len(s) + Len(v) = Len(v) + 5 /\ 1 + Len(a) = 4 /\ 1 + Len(a) + Len(s) = 6
    BY <1>2, <1>3, <1>4
  <2> QED BY <2>1, <2>2
<1>8. Here(b, i, t)
  BY <1>5
<1>9. \A k \in 1 .. Len(v) + 5 : i + k - 1 \in 1 .. Len(b) /\ b[i + k - 1] = t[k]
  BY <1>7, <1>8 DEF Here
<1>10. t[1] = Quote /\ t[2] = NumberName /\ t[3] = Quote
  <2>1. \A k \in 1 .. 3 : t[1 + k - 1] = a[k]
    BY <1>4, <1>7 DEF Here
  <2>2. t[1 + 1 - 1] = a[1] /\ t[1 + 2 - 1] = a[2] /\ t[1 + 3 - 1] = a[3]
    BY <2>1
  <2> QED BY <1>4, <2>2
<1>11. t[4] = Colon /\ t[5] = Blank
  <2>1. \A k \in 1 .. 2 : t[4 + k - 1] = s[k]
    BY <1>3, <1>7 DEF Here
  <2>2. t[4 + 1 - 1] = s[1] /\ t[4 + 2 - 1] = s[2]
    BY <2>1
  <2> QED BY <1>3, <2>2
<1>12. \A k \in 1 .. Len(v) : t[5 + k] = v[k]
  <2>1. \A k \in 1 .. Len(v) : t[6 + k - 1] = v[k]
    BY <1>7, Zenon DEF Here
  <2>2. ASSUME NEW k \in 1 .. Len(v) PROVE t[5 + k] = v[k]
    <3>1. 6 + k - 1 = 5 + k
      BY <1>2
    <3> QED BY <2>1, <3>1
  <2> QED BY <2>2
<1>13. /\ b[i] = Quote /\ b[i + 1] = NumberName /\ b[i + 2] = Quote
       /\ b[i + 3] = Colon /\ b[i + 4] = Blank
  <2>1. b[i + 1 - 1] = t[1] /\ b[i + 2 - 1] = t[2] /\ b[i + 3 - 1] = t[3]
    BY <1>2, <1>9
  <2>2. b[i + 4 - 1] = t[4] /\ b[i + 5 - 1] = t[5]
    BY <1>2, <1>9
  <2> QED BY <1>10, <1>11, <2>1, <2>2
<1>14. i + 4 + Len(v) <= Len(b)
  <2>1. 5 + Len(v) \in 1 .. Len(v) + 5 /\ i + (5 + Len(v)) - 1 = i + 4 + Len(v) /\ Len(b) \in Nat
    BY <1>2, LenType
  <2>2. i + (5 + Len(v)) - 1 \in 1 .. Len(b)
    BY <1>9, <2>1
  <2> QED BY <2>1, <2>2
<1>15. \A k \in 1 .. Len(v) : b[i + 4 + k] = v[k]
  <2>1. ASSUME NEW k \in 1 .. Len(v) PROVE b[i + 4 + k] = v[k]
    <3>1. 5 + k \in 1 .. Len(v) + 5 /\ i + (5 + k) - 1 = i + 4 + k
      BY <1>2
    <3>2. b[i + 4 + k] = t[5 + k]
      BY <1>9, <3>1
    <3> QED BY <1>12, <3>2
  <2> QED BY <2>1
<1>16. NumberAt(b, i, v)
  BY <1>2, <1>13, <1>14, <1>15, Zenon DEF NumberAt
<1> QED BY <1>5, <1>7, <1>16

(* The bodies of a client.                                                 *)
Open == "{"
Close == "}"
OnlyNumber(b, t) ==
  b[1] = Open /\ NumberAt(b, 2, t) /\ b[7 + Len(t)] = Close /\ Len(b) = 7 + Len(t)
OnlyMessage(b, e) ==
  b[1] = Open /\ MessageAt(b, 2, e) /\ b[9 + Len(e)] = Close /\ Len(b) = 9 + Len(e)
MessageFirst(b, e, t) ==
  /\ b[1] = Open /\ MessageAt(b, 2, e) /\ b[9 + Len(e)] = Comma /\ b[10 + Len(e)] = Blank
  /\ NumberAt(b, 11 + Len(e), t) /\ b[16 + Len(e) + Len(t)] = Close
  /\ Len(b) = 16 + Len(e) + Len(t)
NumberFirst(b, e, t) ==
  /\ b[1] = Open /\ NumberAt(b, 2, t) /\ b[7 + Len(t)] = Comma /\ b[8 + Len(t)] = Blank
  /\ MessageAt(b, 9 + Len(t), e)

LEMMA FieldsHere ==
  ASSUME NEW c, Comes(c), c.route = Process, NEW b, b = JsonBody(c)
  PROVE  /\ b \in Texts /\ Fields(c) \in Texts /\ Len(Fields(c)) \in Nat
         /\ Len(b) = Len(Fields(c)) + 2
         /\ b[1] = Open /\ Here(b, 2, Fields(c)) /\ b[Len(b)] = Close
<1> DEFINE f == Fields(c)
           o == <<Open>>
           z == <<Close>>
           t == o \o f \o z
<1>1. f \in Texts
  <2>1. c \in Requests /\ (c.has_message \/ c.max_tokens # <<>>)
    BY DEF Comes
  <2>2. MessageField(c) \in Texts
    BY <2>1, MessageFieldType
  <2>3. c.max_tokens # <<>> => NumberField(c) \in Texts
    BY <2>1, NumberFieldType
  <2> DEFINE x == MessageField(c)
             y == NumberField(c)
             s == <<",", " ">>
  <2>4. s \in Texts
    BY MarksAreTexts
  <2>5. f = IF ~c.has_message THEN y
            ELSE IF c.max_tokens = <<>> THEN x
            ELSE IF c.message_first THEN x \o s \o y
            ELSE y \o s \o x
    BY Zenon DEF Fields
  <2> HIDE DEF x, y, s
  <2>6. x \in Texts /\ (c.max_tokens # <<>> => y \in Texts)
    BY <2>2, <2>3 DEF x, y
  <2>7. ASSUME y \in Texts PROVE x \o s \o y \in Texts /\ y \o s \o x \in Texts
    <3>1. x \o s \in Texts /\ y \o s \in Texts
      BY <2>4, <2>6, <2>7, Concat, Zenon
    <3> QED BY <2>6, <2>7, <3>1, Concat, Zenon
  <2> HIDE DEF f
  <2>8. CASE ~c.has_message
    BY <2>1, <2>5, <2>6, <2>8
  <2>9. CASE c.has_message /\ c.max_tokens = <<>>
    BY <2>5, <2>6, <2>9
  <2>10. CASE c.has_message /\ c.max_tokens # <<>>
    <3>1. f = x \o s \o y \/ f = y \o s \o x
      BY <2>5, <2>10
    <3> QED BY <2>6, <2>7, <2>10, <3>1
  <2> QED BY <2>8, <2>9, <2>10
<1>2. o \in Texts /\ Len(o) = 1 /\ o[1] = Open /\ z \in Texts /\ Len(z) = 1 /\ z[1] = Close
  <2>1. o \in Texts /\ z \in Texts
    BY MarksAreTexts, Zenon DEF Open, Close
  <2> QED BY <2>1
<1>3. b = t
  BY JsonBodyIs, Zenon DEF Open, Close
<1> HIDE DEF f, o, z
<1>4. Laid3(t, o, f, z)
  BY <1>1, <1>2, ThreeParts, Zenon
<1> HIDE DEF t
<1>5. Len(f) \in Nat
  BY <1>1, LenType
<1>6. b \in Texts /\ Len(b) = Len(f) + 2 /\ Here(b, 1, o) /\ Here(b, 2, f) /\ Here(b, 2 + Len(f), z)
  <2>1. /\ b \in Texts /\ Len(b) = Len(o) + Len(f) + Len(z)
        /\ Here(b, 1, o) /\ Here(b, 1 + Len(o), f) /\ Here(b, 1 + Len(o) + Len(f), z)
    BY <1>3, <1>4, Zenon DEF Laid3
  <2>2. Len(o) + Len(f) + Len(z) = Len(f) + 2 /\ 1 + Len(o) = 2 /\ 1 + Len(o) + Len(f) = 2 + Len(f)
    BY <1>2, <1>5
  <2> QED BY <2>1, <2>2
<1>7. b[1] = Open /\ b[2 + Len(f)] = Close
  <2>1. 1 \in 1 .. Len(o) /\ 1 \in 1 .. Len(z) /\ 1 + 1 - 1 = 1 /\ 2 + Len(f) + 1 - 1 = 2 + Len(f)
    BY <1>2, <1>5
  <2>2. b[1 + 1 - 1] = o[1] /\ b[2 + Len(f) + 1 - 1] = z[1]
    BY <1>6, <2>1, Zenon DEF Here
  <2> QED BY <1>2, <2>1, <2>2
<1>8. b[Len(b)] = Close
  <2>1. Len(b) = 2 + Len(f)
    BY <1>5, <1>6
  <2> QED BY <1>7, <2>1
<1> QED BY <1>1, <1>5, <1>6, <1>7, <1>8, Zenon DEF f

LEMMA TwoFields ==
  ASSUME NEW x \in Texts, NEW y \in Texts, NEW b \in Texts,
         Here(b, 2, x \o <<Comma, Blank>> \o y)
  PROVE  /\ Len(x \o <<Comma, Blank>> \o y) = Len(x) + Len(y) + 2
         /\ Here(b, 2, x) /\ b[2 + Len(x)] = Comma /\ b[3 + Len(x)] = Blank
         /\ Here(b, 4 + Len(x), y)
<1> DEFINE s == <<Comma, Blank>>
           t == x \o s \o y
<1>1. s \in Texts /\ Len(s) = 2 /\ s[1] = Comma /\ s[2] = Blank
  BY PairsAre
<1>2. Here(b, 2, t) /\ t = x \o <<Comma, Blank>> \o y
  BY Zenon
<1> HIDE DEF s
<1>3. Laid3(t, x, s, y)
  BY <1>1, ThreeParts, Zenon
<1> HIDE DEF t
<1>4. Len(x) \in Nat /\ Len(y) \in Nat
  BY LenType
<1>5. /\ t \in Texts /\ Len(t) = Len(x) + Len(y) + 2
      /\ Here(t, 1, x) /\ Here(t, 1 + Len(x), s) /\ Here(t, 3 + Len(x), y)
  <2>1. /\ t \in Texts /\ Len(t) = Len(x) + Len(s) + Len(y)
        /\ Here(t, 1, x) /\ Here(t, 1 + Len(x), s) /\ Here(t, 1 + Len(x) + Len(s), y)
    BY <1>3, Zenon DEF Laid3
  <2>2. Len(x) + Len(s) + Len(y) = Len(x) + Len(y) + 2 /\ 1 + Len(x) + Len(s) = 3 + Len(x)
    BY <1>1, <1>4
  <2> QED BY <2>1, <2>2
<1>6. ASSUME NEW j \in Nat \ {0}, NEW p \in Texts, Here(t, j, p) PROVE Here(b, 2 + j - 1, p)
  <2>1. 2 \in Nat \ {0}
    OBVIOUS
  <2> QED BY <1>2, <1>5, <1>6, <2>1, HereInside, Zenon
<1> DEFINE i == 1 + Len(x)
           k == 3 + Len(x)
<1>7. /\ 1 \in Nat \ {0} /\ 2 + 1 - 1 = 2 /\ i \in Nat \ {0} /\ 2 + i - 1 = 2 + Len(x)
      /\ k \in Nat \ {0} /\ 2 + k - 1 = 4 + Len(x)
  BY <1>4
<1>8. Here(t, 1, x) /\ Here(t, i, s) /\ Here(t, k, y)
  BY <1>5
<1> HIDE DEF i, k
<1>9. Here(b, 2 + 1 - 1, x) /\ Here(b, 2 + i - 1, s) /\ Here(b, 2 + k - 1, y)
  BY <1>1, <1>6, <1>7, <1>8, Zenon
<1>10. Here(b, 2, x) /\ Here(b, 2 + Len(x), s) /\ Here(b, 4 + Len(x), y)
  BY <1>7, <1>9
<1>11. b[2 + Len(x)] = Comma /\ b[3 + Len(x)] = Blank
  <2>1. /\ 1 \in 1 .. Len(s) /\ 2 \in 1 .. Len(s)
        /\ 2 + Len(x) + 1 - 1 = 2 + Len(x) /\ 2 + Len(x) + 2 - 1 = 3 + Len(x)
    BY <1>1, <1>4
  <2>2. b[2 + Len(x) + 1 - 1] = s[1] /\ b[2 + Len(x) + 2 - 1] = s[2]
    BY <1>10, <2>1, Zenon DEF Here
  <2> QED BY <1>1, <2>1, <2>2
<1> QED BY <1>2, <1>5, <1>10, <1>11

LEMMA BodiesAre ==
  ASSUME NEW c, Comes(c), c.route = Process, NEW b, b = JsonBody(c),
         NEW e, e = EscapedQuotes(FlattenSeq(c.message)),
         NEW t, t = NumberText(c.max_tokens[1])
  PROVE  /\ ~c.has_message => OnlyNumber(b, t)
         /\ c.has_message /\ c.max_tokens = <<>> => OnlyMessage(b, e)
         /\ c.has_message /\ c.max_tokens # <<>> =>
              IF c.message_first THEN MessageFirst(b, e, t) ELSE NumberFirst(b, e, t)
<1> DEFINE f == Fields(c)
           x == MessageField(c)
           y == NumberField(c)
<1>1. c \in Requests /\ (c.has_message \/ c.max_tokens # <<>>)
  BY DEF Comes
<1>2. /\ b \in Texts /\ f \in Texts /\ Len(f) \in Nat /\ Len(b) = Len(f) + 2
      /\ b[1] = Open /\ Here(b, 2, f) /\ b[Len(b)] = Close
  BY FieldsHere, Zenon
<1>3. f = IF ~c.has_message THEN y
          ELSE IF c.max_tokens = <<>> THEN x
          ELSE IF c.message_first THEN x \o <<Comma, Blank>> \o y
          ELSE y \o <<Comma, Blank>> \o x
  BY Zenon DEF Fields, Comma, Blank
<1>4. x \in Texts /\ Len(x) \in Nat /\ (c.max_tokens # <<>> => y \in Texts /\ Len(y) \in Nat)
  BY <1>1, MessageFieldType, NumberFieldType, LenType
<1>5. ASSUME NEW i \in Nat \ {0}, Here(b, i, x) PROVE Len(x) = Len(e) + 7 /\ MessageAt(b, i, e)
  BY <1>1, <1>2, <1>5, MessageFieldHere, Zenon
<1>6. ASSUME NEW i \in Nat \ {0}, c.max_tokens # <<>>, Here(b, i, y)
      PROVE  Len(y) = Len(t) + 5 /\ NumberAt(b, i, t)
  BY <1>1, <1>2, <1>6, NumberFieldHere, Zenon
<1> HIDE DEF f, x, y
<1>7. 2 \in Nat \ {0}
  OBVIOUS
<1>8. ASSUME ~c.has_message PROVE OnlyNumber(b, t)
  <2>1. f = y /\ c.max_tokens # <<>>
    BY <1>1, <1>3, <1>8
  <2>2. Here(b, 2, y)
    BY <1>2, <2>1
  <2>3. Len(y) = Len(t) + 5 /\ NumberAt(b, 2, t)
    BY <1>6, <1>7, <2>1, <2>2, Zenon
  <2>4. Len(t) \in Nat
    BY <2>3, Zenon DEF NumberAt
  <2>5. Len(b) = 7 + Len(t)
    BY <1>2, <2>1, <2>3, <2>4
  <2>6. b[7 + Len(t)] = Close
    BY <1>2, <2>5
  <2> QED BY <1>2, <2>3, <2>5, <2>6, Zenon DEF OnlyNumber
<1>9. ASSUME c.has_message, c.max_tokens = <<>> PROVE OnlyMessage(b, e)
  <2>1. f = x
    BY <1>3, <1>9
  <2>2. Here(b, 2, x)
    BY <1>2, <2>1
  <2>3. Len(x) = Len(e) + 7 /\ MessageAt(b, 2, e)
    BY <1>5, <1>7, <2>2, Zenon
  <2>4. Len(e) \in Nat
    BY <2>3, Zenon DEF MessageAt
  <2>5. Len(b) = 9 + Len(e)
    BY <1>2, <2>1, <2>3, <2>4
  <2>6. b[9 + Len(e)] = Close
    BY <1>2, <2>5
  <2> QED BY <1>2, <2>3, <2>5, <2>6, Zenon DEF OnlyMessage
<1>10. ASSUME c.has_message, c.max_tokens # <<>>, c.message_first PROVE MessageFirst(b, e, t)
  <2>1. f = x \o <<Comma, Blank>> \o y
    BY <1>3, <1>10
  <2>2. y \in Texts /\ Len(y) \in Nat
    BY <1>4, <1>10
  <2>3. Here(b, 2, x \o <<Comma, Blank>> \o y)
    BY <1>2, <2>1, Zenon
  <2>4. /\ Len(x \o <<Comma, Blank>> \o y) = Len(x) + Len(y) + 2
        /\ Here(b, 2, x) /\ b[2 + Len(x)] = Comma /\ b[3 + Len(x)] = Blank
        /\ Here(b, 4 + Len(x), y)
    BY <1>2, <1>4, <2>2, <2>3, TwoFields, Zenon
  <2>5. Len(x) = Len(e) + 7 /\ MessageAt(b, 2, e)
    BY <1>5, <1>7, <2>4, Zenon
  <2>6. Len(e) \in Nat
    BY <2>5, Zenon DEF MessageAt
  <2> DEFINE i == 11 + Len(e)
  <2>7. i \in Nat \ {0} /\ 4 + Len(x) = i /\ 2 + Len(x) = 9 + Len(e) /\ 3 + Len(x) = 10 + Len(e)
    BY <2>5, <2>6
  <2>8. Here(b, i, y)
    BY <2>4, <2>7
  <2> HIDE DEF i
  <2>9. Len(y) = Len(t) + 5 /\ NumberAt(b, i, t)
    BY <1>6, <1>10, <2>7, <2>8, Zenon
  <2>10. Len(t) \in Nat
    BY <2>9, Zenon DEF NumberAt
  <2>11. Len(f) = Len(x) + Len(y) + 2
    BY <2>1, <2>4, Zenon
  <2>12. Len(b) = 16 + Len(e) + Len(t)
    BY <1>2, <2>5, <2>6, <2>9, <2>10, <2>11
  <2>13. b[16 + Len(e) + Len(t)] = Close /\ b[9 + Len(e)] = Comma /\ b[10 + Len(e)] = Blank
    BY <1>2, <2>4, <2>7, <2>12
  <2> QED BY <1>2, <2>5, <2>9, <2>12, <2>13, Zenon DEF MessageFirst, i
<1>11. ASSUME c.has_message, c.max_tokens # <<>>, ~c.message_first PROVE NumberFirst(b, e, t)
  <2>1. f = y \o <<Comma, Blank>> \o x
    BY <1>3, <1>11
  <2>2. y \in Texts /\ Len(y) \in Nat
    BY <1>4, <1>11
  <2>3. Here(b, 2, y \o <<Comma, Blank>> \o x)
    BY <1>2, <2>1, Zenon
  <2>4. /\ Here(b, 2, y) /\ b[2 + Len(y)] = Comma /\ b[3 + Len(y)] = Blank
        /\ Here(b, 4 + Len(y), x)
    BY <1>2, <1>4, <2>2, <2>3, TwoFields, Zenon
  <2>5. Len(y) = Len(t) + 5 /\ NumberAt(b, 2, t)
    BY <1>6, <1>7, <1>11, <2>4, Zenon
  <2>6. Len(t) \in Nat
    BY <2>5, Zenon DEF NumberAt
  <2> DEFINE i == 9 + Len(t)
  <2>7. i \in Nat \ {0} /\ 4 + Len(y) = i /\ 2 + Len(y) = 7 + Len(t) /\ 3 + Len(y) = 8 + Len(t)
    BY <2>5, <2>6
  <2>8. Here(b, i, x)
    BY <2>4, <2>7
  <2> HIDE DEF i
  <2>9. MessageAt(b, i, e)
    BY <1>5, <2>7, <2>8, Zenon
  <2>10. b[7 + Len(t)] = Comma /\ b[8 + Len(t)] = Blank
    BY <2>4, <2>7
  <2> QED BY <1>2, <2>5, <2>9, <2>10, Zenon DEF NumberFirst, i
<1> QED BY <1>8, <1>9, <1>10, <1>11

-----------------------------------------------------------------------------
(* What parseJsonMessage makes of them.                                    *)
LEMMA FirstSymbol ==
  ASSUME NEW s \in Texts, NEW x \in Symbols, NEW from \in Nat \ {0}, NEW at \in Nat, from <= at,
         at <= Len(s), s[at] = x, \A j \in from .. at - 1 : s[j] # x
  PROVE  find(s, <<x>>, from) = at
<1> DEFINE y == <<x>>
<1>1. y \in Texts /\ Len(y) > 0
  BY OneText, Zenon
<1>2. at \in 1 .. Len(s) /\ Len(s) \in Nat
  BY LenType
<1>3. Here(s, at, y)
  BY <1>2, HereOne, Zenon
<1>4. ASSUME NEW j \in from .. at - 1 PROVE ~Here(s, j, y)
  <2>1. j \in Nat /\ s[j] # x
    BY <1>2
  <2> QED BY <2>1, HereOne, Zenon
<1> HIDE DEF y
<1>5. find(s, y, from) = at
  BY <1>1, <1>3, <1>4, Found, Zenon
<1> QED BY <1>5 DEF y

LEMMA NoSymbol ==
  ASSUME NEW s \in Texts, NEW x \in Symbols, NEW from \in Nat,
         \A j \in from .. Len(s) : s[j] # x
  PROVE  find(s, <<x>>, from) = npos
<1> DEFINE y == <<x>>
<1>1. y \in Texts /\ Len(y) > 0
  BY OneText, Zenon
<1>2. ASSUME NEW j \in from .. Len(s) PROVE ~Here(s, j, y)
  <2>1. j \in Nat /\ s[j] # x
    BY LenType
  <2> QED BY <2>1, HereOne, Zenon
<1> HIDE DEF y
<1>3. find(s, y, from) = npos
  BY <1>1, <1>2, NotFound, Zenon
<1> QED BY <1>3 DEF y

LEMMA SomeSymbol ==
  ASSUME NEW s \in Texts, NEW x \in Symbols, NEW from \in Nat \ {0}, NEW i \in from .. Len(s), s[i] = x
  PROVE  find(s, <<x>>, from) # npos
<1> DEFINE y == <<x>>
<1>1. y \in Texts /\ Len(y) > 0
  BY OneText, Zenon
<1>2. i \in Nat /\ i \in 1 .. Len(s)
  BY LenType
<1>3. Here(s, i, y)
  BY <1>2, HereOne, Zenon
<1> HIDE DEF y
<1>4. find(s, y, from) # npos
  BY <1>1, <1>3, FoundSome, Zenon
<1> QED BY <1>4 DEF y

LEMMA HereThree ==
  ASSUME NEW s \in Texts, NEW sub, Len(sub) = 3, NEW i \in Nat
  PROVE  Here(s, i, sub) <=>
           i \in 1 .. Len(s) - 2 /\ s[i] = sub[1] /\ s[i + 1] = sub[2] /\ s[i + 2] = sub[3]
<1>1. Len(s) \in Nat
  BY LenType
<1>2. ASSUME Here(s, i, sub)
      PROVE  i \in 1 .. Len(s) - 2 /\ s[i] = sub[1] /\ s[i + 1] = sub[2] /\ s[i + 2] = sub[3]
  <2>1. \A k \in 1 .. 3 : i + k - 1 \in 1 .. Len(s) /\ s[i + k - 1] = sub[k]
    BY <1>2 DEF Here
  <2>2. i + 1 - 1 \in 1 .. Len(s) /\ s[i + 1 - 1] = sub[1]
    BY <2>1
  <2>3. s[i + 2 - 1] = sub[2]
    BY <2>1
  <2>4. i + 3 - 1 \in 1 .. Len(s) /\ s[i + 3 - 1] = sub[3]
    BY <2>1
  <2> QED BY <1>1, <2>2, <2>3, <2>4
<1>3. ASSUME i \in 1 .. Len(s) - 2, s[i] = sub[1], s[i + 1] = sub[2], s[i + 2] = sub[3]
      PROVE  Here(s, i, sub)
  <2>1. ASSUME NEW k \in 1 .. 3 PROVE i + k - 1 \in 1 .. Len(s) /\ s[i + k - 1] = sub[k]
    <3>1. i + k - 1 \in 1 .. Len(s)
      BY <1>1, <1>3
    <3>2. CASE k = 1
      BY <1>1, <1>3, <3>1, <3>2
    <3>3. CASE k = 2
      BY <1>1, <1>3, <3>1, <3>3
    <3>4. CASE k = 3
      BY <1>1, <1>3, <3>1, <3>4
    <3> QED BY <3>2, <3>3, <3>4
  <2> QED BY <2>1 DEF Here
<1> QED BY <1>2, <1>3

(* The symbols around the fields' values differ.                           *)
Minus == "-"
NumberMarks == Decimals \cup {Minus}
FieldMarks == {Quote, Colon, Blank, Comma, MessageName, NumberName, Open, Close}

LEMMA FieldMarksDiffer ==
  /\ FieldMarks \subseteq Symbols /\ Minus \in Symbols /\ Minus \notin Decimals
  /\ \A x \in FieldMarks : x \notin NumberMarks
  /\ Quote # Colon /\ Quote # Blank /\ Quote # Comma /\ Quote # MessageName /\ Quote # NumberName
  /\ Quote # Open /\ Quote # Close /\ Colon # Blank /\ Colon # Comma /\ Colon # MessageName
  /\ Colon # NumberName /\ Colon # Open /\ Colon # Close /\ Comma # MessageName /\ Comma # NumberName
  /\ MessageName # NumberName /\ Open # Blank
<1> DEFINE D == {"0", "1", "2", "3", "4", "5", "6", "7", "8", "9"}
<1>1. \A i \in 1 .. 10 : Digits[i] \in D
  BY DEF Digits
<1>2. \A x \in D : x # Quote /\ x # Colon /\ x # Minus
  BY Zenon DEF Quote, Colon, Minus
<1>3. \A x \in D : x # Blank /\ x # Comma /\ x # MessageName
  BY Zenon DEF Blank, Comma, MessageName
<1>4. \A x \in D : x # NumberName /\ x # Open /\ x # Close
  BY Zenon DEF NumberName, Open, Close
<1> HIDE DEF D
<1>5. \A x \in Decimals : x \in D
  BY <1>1, Zenon DEF Decimals
<1>6. /\ Quote # Minus /\ Colon # Minus /\ Blank # Minus /\ Comma # Minus
  BY Zenon DEF Quote, Colon, Blank, Comma, Minus
<1>7. MessageName # Minus /\ NumberName # Minus /\ Open # Minus /\ Close # Minus
  BY Zenon DEF MessageName, NumberName, Open, Close, Minus
<1>8. /\ Quote # Colon /\ Quote # Blank /\ Quote # Comma /\ Quote # MessageName /\ Quote # NumberName
      /\ Quote # Open /\ Quote # Close
  BY Zenon DEF Quote, Colon, Blank, Comma, MessageName, NumberName, Open, Close
<1>9. /\ Colon # Blank /\ Colon # Comma /\ Colon # MessageName
      /\ Colon # NumberName /\ Colon # Open /\ Colon # Close
  BY Zenon DEF Colon, Blank, Comma, MessageName, NumberName, Open, Close
<1>10. Comma # MessageName /\ Comma # NumberName /\ MessageName # NumberName /\ Open # Blank
  BY Zenon DEF Comma, Blank, MessageName, NumberName, Open
<1>11. \A x \in FieldMarks : x \notin NumberMarks
  <2>1. \A x \in D \cup {Minus} : x \notin FieldMarks
    BY <1>2, <1>3, <1>4, <1>6, <1>7 DEF FieldMarks
  <2> QED BY <1>5, <2>1 DEF NumberMarks
<1>12. Minus \notin Decimals
  BY <1>2, <1>5
<1>13. FieldMarks \subseteq Symbols /\ Minus \in Symbols
  BY Zenon DEF FieldMarks, Symbols, Marks, Colon, Blank, Comma, MessageName, NumberName, Open, Close, Minus
<1> QED BY <1>8, <1>9, <1>10, <1>11, <1>12, <1>13

(* The text of a number, with its sign.                                    *)
LEMMA NumberTextIs ==
  ASSUME NEW n \in Int, NEW t, t = NumberText(n)
  PROVE  /\ t \in Texts /\ Len(t) > 0 /\ \A k \in 1 .. Len(t) : t[k] \in NumberMarks
         /\ n >= 0 => Value(t, 10) = n /\ \A k \in 1 .. Len(t) : t[k] \in Decimals
         /\ n < 0 => /\ Len(t) > 1 /\ t[1] = Minus /\ Value(SubSeq(t, 2, Len(t)), 10) = -n
                     /\ \A k \in 2 .. Len(t) : t[k] \in Decimals
<1>0. 10 \in {10, 16}
  OBVIOUS
<1>1. ASSUME NEW m \in Nat
      PROVE  /\ Numeral(m, 10) \in Texts /\ Len(Numeral(m, 10)) > 0 /\ Value(Numeral(m, 10), 10) = m
             /\ \A k \in 1 .. Len(Numeral(m, 10)) : Numeral(m, 10)[k] \in Decimals
  <2> DEFINE u == Numeral(m, 10)
  <2>1. /\ u \in Texts /\ Len(u) > 0 /\ Value(u, 10) = m
        /\ \A k \in 1 .. Len(u) : \E i \in 1 .. 10 : u[k] = Digits[i]
    BY <1>0, NumeralReads, Zenon
  <2> HIDE DEF u
  <2>2. \A k \in 1 .. Len(u) : u[k] \in Decimals
    BY <2>1, Zenon DEF Decimals
  <2> QED BY <2>1, <2>2 DEF u
<1>2. CASE n >= 0
  <2>1. n \in Nat /\ ~(n < 0)
    BY <1>2
  <2>2. t = Numeral(n, 10)
    BY <2>1 DEF NumberText
  <2>3. t \in Texts /\ Len(t) > 0 /\ Value(t, 10) = n /\ \A k \in 1 .. Len(t) : t[k] \in Decimals
    BY <1>1, <2>1, <2>2
  <2> QED BY <2>1, <2>3 DEF NumberMarks
<1>3. CASE n < 0
  <2> DEFINE m == -n
             u == Numeral(m, 10)
             a == <<Minus>>
  <2>1. m \in Nat /\ t = a \o u
    BY <1>3 DEF NumberText, Minus
  <2> HIDE DEF m
  <2>2. u \in Texts /\ Len(u) > 0 /\ Value(u, 10) = m /\ \A k \in 1 .. Len(u) : u[k] \in Decimals
    BY <1>1, <2>1
  <2> HIDE DEF u
  <2>3. a \in Texts /\ Len(a) = 1 /\ a[1] = Minus
    <3>1. a \in Texts
      BY FieldMarksDiffer, OneText
    <3> QED BY <3>1
  <2> HIDE DEF a
  <2>4. Laid2(t, a, u)
    BY <2>1, <2>2, <2>3, TwoParts, Zenon
  <2>5. t \in Texts /\ Len(t) = Len(u) + 1 /\ Here(t, 1, a) /\ Here(t, 2, u) /\ Len(u) \in Nat
    <3>1. t \in Texts /\ Len(t) = Len(a) + Len(u) /\ Here(t, 1, a) /\ Here(t, 1 + Len(a), u)
      BY <2>4, Zenon DEF Laid2
    <3>2. 1 + Len(a) = 2 /\ Len(u) \in Nat
      BY <2>2, <2>3, LenType
    <3> QED BY <2>3, <3>1, <3>2
  <2>6. t[1] = Minus
    <3>1. 1 \in 1 .. Len(a) /\ 1 + 1 - 1 = 1
      BY <2>3
    <3>2. t[1 + 1 - 1] = a[1]
      BY <2>5, <3>1, Zenon DEF Here
    <3> QED BY <2>3, <3>1, <3>2
  <2>7. \A k \in 2 .. Len(t) : t[k] \in Decimals
    <3>1. ASSUME NEW k \in 2 .. Len(t) PROVE t[k] \in Decimals
      <4>1. k - 1 \in 1 .. Len(u) /\ 2 + (k - 1) - 1 = k
        BY <2>5
      <4>2. t[2 + (k - 1) - 1] = u[k - 1]
        BY <2>5, <4>1, Zenon DEF Here
      <4> QED BY <2>2, <4>1, <4>2
    <3> QED BY <3>1
  <2>8. SubSeq(t, 2, Len(t)) = u
    <3>1. 2 \in Nat \ {0} /\ 2 <= Len(t) + 1 /\ 2 + Len(u) - 1 = Len(t)
      BY <2>5
    <3>2. SubSeq(t, 2, 2 + Len(u) - 1) = u
      BY <2>2, <2>5, <3>1, HereIsPart, Zenon
    <3> QED BY <3>1, <3>2
  <2>9. \A k \in 1 .. Len(t) : t[k] \in NumberMarks
    <3>1. ASSUME NEW k \in 1 .. Len(t) PROVE t[k] \in NumberMarks
      <4>1. k = 1 \/ k \in 2 .. Len(t)
        BY <2>5
      <4> QED BY <2>6, <2>7, <4>1 DEF NumberMarks
    <3> QED BY <3>1
  <2>10. Len(t) > 0 /\ Len(t) > 1 /\ ~(n >= 0)
    BY <1>3, <2>2, <2>5
  <2>11. Value(SubSeq(t, 2, Len(t)), 10) = -n
    BY <2>2, <2>8 DEF m
  <2> QED BY <2>5, <2>6, <2>7, <2>9, <2>10, <2>11
<1>4. n >= 0 \/ n < 0
  OBVIOUS
<1> QED BY <1>2, <1>3, <1>4

(* After a blank, stoi reads it, or 0 when it is no int.                   *)
LEMMA StoiReads ==
  ASSUME NEW s \in Texts, NEW n \in Int, NEW t, t = NumberText(n), s[1] = Blank,
         2 + Len(t) <= Len(s), \A k \in 1 .. Len(t) : s[k + 1] = t[k], s[2 + Len(t)] \notin Decimals
  PROVE  stoi(s) = IF n \in Ints THEN n ELSE 0
<1> DEFINE m == Len(t)
           B == {Blank}
           begin == RunEnd(s, 1, B) + 1
           minus == begin <= Len(s) /\ s[begin] = Minus
           first == IF minus THEN begin + 1 ELSE begin
           end == RunEnd(s, first, Decimals)
           value == Value(SubSeq(s, first, end), 10)
           number == IF minus THEN -value ELSE value
<1>1. stoi(s) = IF number \in Ints THEN number ELSE 0
  BY Zenon DEF stoi, Blank, Minus
<1>2. /\ t \in Texts /\ m > 0 /\ \A k \in 1 .. m : t[k] \in NumberMarks
      /\ n >= 0 => Value(t, 10) = n /\ \A k \in 1 .. m : t[k] \in Decimals
      /\ n < 0 => /\ m > 1 /\ t[1] = Minus /\ Value(SubSeq(t, 2, m), 10) = -n
                  /\ \A k \in 2 .. m : t[k] \in Decimals
  BY NumberTextIs, Zenon
<1>3. m \in Nat /\ Len(s) \in Nat /\ 2 + m <= Len(s) /\ s[2 + m] \notin Decimals
      /\ \A k \in 1 .. m : s[k + 1] = t[k]
  BY <1>2, LenType
<1> HIDE DEF m
<1>4. begin = 2
  <2>1. s[2] = t[1] /\ t[1] \in NumberMarks
    <3>1. 1 \in 1 .. m /\ 1 + 1 = 2
      BY <1>2, <1>3
    <3> QED BY <1>2, <1>3, <3>1
  <2>2. s[2] \notin B
    BY <2>1, FieldMarksDiffer DEF FieldMarks
  <2>3. \A k \in 1 .. 1 : s[k] \in B
    OBVIOUS
  <2>4. 1 \in Nat \ {0} /\ 1 \in Nat /\ 1 <= 1 + 1 /\ 1 <= Len(s) /\ 1 + 1 = 2
    BY <1>3
  <2> HIDE DEF B
  <2>5. s[1 + 1] \notin B
    BY <2>2, <2>4
  <2>6. RunEnd(s, 1, B) = 1
    BY <2>3, <2>4, <2>5, RunEndIs, Zenon
  <2> QED BY <2>6
<1>5. ASSUME NEW i \in Nat, i >= 2, i <= m + 1, \A k \in i - 1 .. m : t[k] \in Decimals
      PROVE  RunEnd(s, i, Decimals) = m + 1 /\ SubSeq(s, i, m + 1) = SubSeq(t, i - 1, m)
  <2> DEFINE j == m + 1
  <2>1. i \in Nat \ {0} /\ j \in Nat /\ i <= j + 1 /\ j <= Len(s) /\ j + 1 = 2 + m
    BY <1>3, <1>5
  <2>2. \A k \in i .. j : s[k] \in Decimals
    <3>1. ASSUME NEW k \in i .. j PROVE s[k] \in Decimals
      <4>1. k - 1 \in i - 1 .. m /\ k - 1 \in 1 .. m /\ k - 1 + 1 = k
        BY <1>3, <1>5
      <4> QED BY <1>3, <1>5, <4>1
    <3> QED BY <3>1
  <2>3. s[j + 1] \notin Decimals
    BY <1>3, <2>1
  <2> HIDE DEF j
  <2>4. RunEnd(s, i, Decimals) = j
    BY <2>1, <2>2, <2>3, RunEndIs, Zenon
  <2> DEFINE u == SubSeq(s, i, j)
             a == i - 1
             v == SubSeq(t, a, m)
  <2>5. i \in Int /\ j \in Int /\ 1 <= i /\ i <= j + 1 /\ j <= Len(s)
    BY <2>1
  <2>6. u \in Texts /\ Len(u) = j - i + 1 /\ \A k \in 1 .. j - i + 1 : u[k] = s[i + k - 1]
    BY <2>5, Part, Zenon
  <2>7. a \in Int /\ m \in Int /\ 1 <= a /\ a <= m + 1 /\ m <= Len(t)
    BY <1>3, <1>5 DEF m
  <2>8. a + 1 = i /\ j - i + 1 = m - a + 1
    BY <1>3, <1>5 DEF j
  <2> HIDE DEF a
  <2>9. v \in Texts /\ Len(v) = m - a + 1 /\ \A k \in 1 .. m - a + 1 : v[k] = t[a + k - 1]
    BY <1>2, <2>7, Part, Zenon
  <2> HIDE DEF u, v
  <2>10. \A k \in 1 .. Len(u) : u[k] = v[k]
    <3>1. ASSUME NEW k \in 1 .. Len(u) PROVE u[k] = v[k]
      <4>1. k \in 1 .. m - a + 1 /\ k \in 1 .. j - i + 1
        BY <2>6, <2>8
      <4>2. u[k] = s[i + k - 1] /\ v[k] = t[a + k - 1]
        BY <2>6, <2>9, <4>1
      <4>3. a + k - 1 \in 1 .. m /\ a + k - 1 + 1 = i + k - 1
        BY <1>3, <2>7, <2>8, <4>1
      <4> QED BY <1>3, <4>2, <4>3
    <3> QED BY <3>1
  <2>11. u = v
    BY <2>6, <2>8, <2>9, <2>10, SameText
  <2> QED BY <2>4, <2>11 DEF u, v, a, j
<1> HIDE DEF begin, B
<1>6. 2 <= Len(s) /\ s[2] = t[1]
  <2>1. 1 \in 1 .. m /\ 1 + 1 = 2
    BY <1>2, <1>3
  <2> QED BY <1>3, <2>1
<1>7. CASE n >= 0
  <2>1. t[1] \in Decimals
    BY <1>2, <1>3, <1>7
  <2>2. ~minus
    BY <1>4, <1>6, <2>1, FieldMarksDiffer
  <2>3. first = 2
    BY <1>4, <2>2
  <2>4. \A k \in 2 - 1 .. m : t[k] \in Decimals
    BY <1>2, <1>7
  <2>5. 2 \in Nat /\ 2 >= 2 /\ 2 <= m + 1 /\ 2 - 1 = 1
    BY <1>2, <1>3
  <2>6. RunEnd(s, 2, Decimals) = m + 1 /\ SubSeq(s, 2, m + 1) = SubSeq(t, 2 - 1, m)
    BY <1>5, <2>4, <2>5, Zenon
  <2>7. SubSeq(t, 1, m) = t
    BY <1>2, WholePart DEF m
  <2>8. value = n
    <3>1. SubSeq(s, first, end) = t
      BY <2>3, <2>5, <2>6, <2>7
    <3> QED BY <1>2, <1>7, <3>1
  <2> HIDE DEF minus, value
  <2>9. number = n
    BY <2>2, <2>8
  <2> QED BY <1>1, <2>9
<1>8. CASE n < 0
  <2>1. minus
    BY <1>2, <1>4, <1>6, <1>8
  <2>2. first = 3
    BY <1>4, <2>1
  <2>3. \A k \in 3 - 1 .. m : t[k] \in Decimals
    BY <1>2, <1>8
  <2>4. 3 \in Nat /\ 3 >= 2 /\ 3 <= m + 1 /\ 3 - 1 = 2
    BY <1>2, <1>3, <1>8
  <2>5. RunEnd(s, 3, Decimals) = m + 1 /\ SubSeq(s, 3, m + 1) = SubSeq(t, 3 - 1, m)
    BY <1>5, <2>3, <2>4, Zenon
  <2>6. value = -n
    <3>1. SubSeq(s, first, end) = SubSeq(t, 2, m)
      BY <2>2, <2>4, <2>5
    <3> QED BY <1>2, <1>8, <3>1
  <2> HIDE DEF minus, value
  <2>7. number = n
    BY <2>1, <2>6
  <2> QED BY <1>1, <2>7
<1>9. n >= 0 \/ n < 0
  OBVIOUS
<1> QED BY <1>7, <1>8, <1>9

LEMMA KeyFound ==
  ASSUME NEW b \in Texts, NEW key \in Texts, Len(key) = 3, NEW i \in Nat \ {0}, i + 2 <= Len(b),
         b[i] = key[1], b[i + 1] = key[2], b[i + 2] = key[3],
         \A j \in 1 .. i - 1 : ~Here(b, j, key)
  PROVE  find(b, key, 1) = i
<1>1. Len(b) \in Nat /\ Len(key) > 0 /\ i \in Nat /\ 1 \in Nat \ {0} /\ 1 <= i
  BY LenType
<1>2. i \in 1 .. Len(b) - 2
  BY <1>1
<1>3. Here(b, i, key)
  BY <1>1, <1>2, HereThree, Zenon
<1> QED BY <1>1, <1>3, Found, Zenon

(* A body whose message is at i, and no key before.                        *)
LEMMA MessageReads ==
  ASSUME NEW b \in Texts, NEW e \in Texts, NEW i, MessageAt(b, i, e),
         \A j \in 1 .. i - 1 : ~Here(b, j, KeyMessage)
  PROVE  /\ parseJsonMessage(b).ok
         /\ (\A k \in 1 .. Len(e) : e[k] # Quote) => parseJsonMessage(b).message = e
<1> DEFINE n == Len(e)
           colon == find(b, <<Colon>>, find(b, KeyMessage, 1))
           start == find(b, <<Quote>>, colon)
           end == IF start = npos THEN npos ELSE find(b, <<Quote>>, start + 1)
           message == IF end = npos THEN <<>> ELSE SubSeq(b, start + 1, end - 1)
<1>1. parseJsonMessage(b).ok = (end # npos) /\ parseJsonMessage(b).message = message
  BY DEF parseJsonMessage, Colon
<1>2. /\ i \in Nat \ {0} /\ n \in Nat /\ i + 6 + n <= Len(b) /\ Len(b) \in Nat
      /\ b[i] = Quote /\ b[i + 1] = MessageName /\ b[i + 2] = Quote
      /\ b[i + 3] = Colon /\ b[i + 4] = Blank /\ b[i + 5] = Quote
      /\ \A k \in 1 .. n : b[i + 5 + k] = e[k]
      /\ b[i + 6 + n] = Quote
  BY LenType DEF MessageAt
<1>3. Quote \in Symbols /\ Colon \in Symbols /\ Quote # Colon /\ Colon # MessageName /\ Quote # Blank
  BY FieldMarksDiffer DEF FieldMarks
<1> HIDE DEF n
<1>4. find(b, KeyMessage, 1) = i
  <2>1. i + 2 <= Len(b)
    BY <1>2
  <2> DEFINE key == KeyMessage
  <2>2. key \in Texts /\ Len(key) = 3 /\ b[i] = key[1] /\ b[i + 1] = key[2] /\ b[i + 2] = key[3]
    BY <1>2, KeysAre
  <2>3. \A j \in 1 .. i - 1 : ~Here(b, j, key)
    OBVIOUS
  <2> HIDE DEF key
  <2>4. find(b, key, 1) = i
    BY <1>2, <2>1, <2>2, <2>3, KeyFound, Zenon
  <2> QED BY <2>4 DEF key
<1>5. colon = i + 3
  <2>1. i \in Nat \ {0} /\ i + 3 \in Nat /\ i <= i + 3 /\ i + 3 <= Len(b)
    BY <1>2
  <2>2. \A j \in i .. i + 3 - 1 : b[j] # Colon
    <3>1. ASSUME NEW j \in i .. i + 3 - 1 PROVE b[j] # Colon
      <4>1. j = i \/ j = i + 1 \/ j = i + 2
        BY <1>2
      <4> QED BY <1>2, <1>3, <4>1
    <3> QED BY <3>1
  <2> DEFINE z == i + 3
  <2>3. b[z] = Colon
    BY <1>2
  <2>4. z \in Nat /\ i <= z /\ z <= Len(b) /\ \A j \in i .. z - 1 : b[j] # Colon
    BY <2>1, <2>2
  <2> HIDE DEF z
  <2>5. find(b, <<Colon>>, i) = z
    BY <1>2, <1>3, <2>3, <2>4, FirstSymbol, Zenon
  <2> QED BY <1>4, <2>5, Zenon DEF z
<1>6. start = i + 5
  <2>1. i + 3 \in Nat \ {0} /\ i + 5 \in Nat /\ i + 3 <= i + 5 /\ i + 5 <= Len(b)
    BY <1>2
  <2>2. \A j \in i + 3 .. i + 5 - 1 : b[j] # Quote
    <3>1. ASSUME NEW j \in i + 3 .. i + 5 - 1 PROVE b[j] # Quote
      <4>1. j = i + 3 \/ j = i + 4
        BY <1>2
      <4> QED BY <1>2, <1>3, <4>1
    <3> QED BY <3>1
  <2> DEFINE a == i + 3
             z == i + 5
  <2>3. b[z] = Quote
    BY <1>2
  <2>4. a \in Nat \ {0} /\ z \in Nat /\ a <= z /\ z <= Len(b)
    BY <2>1
  <2>8. \A j \in a .. z - 1 : b[j] # Quote
    <3>1. ASSUME NEW j \in a .. z - 1 PROVE b[j] # Quote
      <4>1. j \in i + 3 .. i + 5 - 1
        BY <1>2
      <4> HIDE DEF a, z
      <4> QED BY <2>2, <4>1
    <3> HIDE DEF a, z
    <3> QED BY <3>1
  <2>5. colon = a
    BY <1>5
  <2> HIDE DEF a, z, colon
  <2>6. find(b, <<Quote>>, a) = z
    BY <1>3, <2>3, <2>4, <2>8, FirstSymbol, Zenon
  <2>7. start = z
    BY <2>5, <2>6, Zenon
  <2> QED BY <2>7 DEF z
<1> HIDE DEF colon, start
<1>7. end = find(b, <<Quote>>, i + 6)
  <2>1. start # npos /\ start + 1 = i + 6
    BY <1>2, <1>6 DEF npos
  <2> QED BY <2>1
<1> HIDE DEF end
<1>8. end # npos
  <2>1. i + 6 \in Nat \ {0} /\ i + 6 + n \in i + 6 .. Len(b)
    BY <1>2
  <2> QED BY <1>2, <1>3, <1>7, <2>1, SomeSymbol, Zenon
<1>9. ASSUME \A k \in 1 .. n : e[k] # Quote PROVE message = e
  <2> DEFINE a == i + 6
             z == i + 6 + n
  <2>1. a \in Nat \ {0} /\ z \in Nat /\ a <= z /\ z <= Len(b) /\ z = a + n /\ a = i + 6
    BY <1>2
  <2>2. \A k \in 1 .. n : b[a + k - 1] = e[k] /\ a + k - 1 \in 1 .. Len(b)
    <3>1. ASSUME NEW k \in 1 .. n PROVE b[a + k - 1] = e[k] /\ a + k - 1 \in 1 .. Len(b)
      <4>1. a + k - 1 = i + 5 + k /\ a + k - 1 \in 1 .. Len(b)
        BY <1>2
      <4> QED BY <1>2, <4>1
    <3> QED BY <3>1
  <2>3. b[z] = Quote
    BY <1>2
  <2> HIDE DEF a, z
  <2>4. \A j \in a .. z - 1 : b[j] # Quote
    <3>1. ASSUME NEW j \in a .. z - 1 PROVE b[j] # Quote
      <4> DEFINE k == j - a + 1
      <4>1. k \in 1 .. n /\ a + k - 1 = j
        BY <1>2, <2>1
      <4> HIDE DEF k
      <4> QED BY <1>9, <2>2, <4>1
    <3> QED BY <3>1
  <2>5. find(b, <<Quote>>, a) = z
    BY <1>3, <2>1, <2>3, <2>4, FirstSymbol, ZenonT(40)
  <2>6. end = z
    BY <1>7, <2>1, <2>5
  <2>7. Here(b, a, e)
    BY <2>2, Zenon DEF Here, n
  <2>8. a <= Len(b) + 1 /\ a + Len(e) - 1 = z - 1 /\ start + 1 = a
    BY <1>2, <1>6, <2>1 DEF n
  <2>9. SubSeq(b, a, a + Len(e) - 1) = e
    BY <2>1, <2>7, <2>8, HereIsPart, Zenon
  <2> QED BY <1>8, <2>6, <2>8, <2>9
<1> QED BY <1>1, <1>8, <1>9 DEF n

(* A body whose number is at i, behind the first colon from its key.       *)
LEMMA NumberReads ==
  ASSUME NEW b \in Texts, NEW n \in Int, NEW t, t = NumberText(n), NEW i, NumberAt(b, i, t),
         i + 5 + Len(t) <= Len(b), b[i + 5 + Len(t)] \notin Decimals, MaxTokensColon(b) = i + 3
  PROVE  parseJsonMessage(b).max_tokens = IF n \in Ints THEN n ELSE 0
<1> DEFINE m == Len(t)
           a == i + 4
           s == SubSeq(b, a, Len(b))
<1>1. parseJsonMessage(b).max_tokens = stoi(From(b, MaxTokensColon(b) + 1))
  BY DEF parseJsonMessage
<1>2. /\ i \in Nat \ {0} /\ m \in Nat /\ Len(b) \in Nat /\ b[i + 4] = Blank
      /\ \A k \in 1 .. m : b[i + 4 + k] = t[k]
      /\ i + 5 + m <= Len(b) /\ b[i + 5 + m] \notin Decimals
  BY LenType DEF NumberAt
<1>3. MaxTokensColon(b) + 1 = a /\ a \in Int /\ Len(b) \in Int /\ 1 <= a /\ a <= Len(b) + 1
      /\ Len(b) <= Len(b) /\ a \in Nat
  BY <1>2
<1>4. From(b, MaxTokensColon(b) + 1) = s
  BY <1>3 DEF From
<1> HIDE DEF m
<1>5. s \in Texts /\ Len(s) = Len(b) - a + 1 /\ \A k \in 1 .. Len(b) - a + 1 : s[k] = b[a + k - 1]
  <2> HIDE DEF a
  <2> QED BY <1>3, Part, Zenon
<1> HIDE DEF s
<1>6. s[1] = Blank
  <2>1. 1 \in 1 .. Len(b) - a + 1 /\ a + 1 - 1 = i + 4
    BY <1>2, <1>3
  <2>2. s[1] = b[a + 1 - 1]
    BY <1>5, <2>1, Zenon
  <2> QED BY <1>2, <2>1, <2>2
<1>7. 2 + m <= Len(s) /\ s[2 + m] \notin Decimals
  <2>1. 2 + m \in 1 .. Len(b) - a + 1 /\ a + (2 + m) - 1 = i + 5 + m /\ 2 + m <= Len(b) - a + 1
    BY <1>2, <1>3
  <2>2. s[2 + m] = b[a + (2 + m) - 1]
    BY <1>5, <2>1, Zenon
  <2> QED BY <1>2, <1>5, <2>1, <2>2
<1>8. \A k \in 1 .. m : s[k + 1] = t[k]
  <2>1. ASSUME NEW k \in 1 .. m PROVE s[k + 1] = t[k]
    <3>1. k + 1 \in 1 .. Len(b) - a + 1 /\ a + (k + 1) - 1 = i + 4 + k
      BY <1>2, <1>3
    <3>2. s[k + 1] = b[a + (k + 1) - 1]
      BY <1>5, <3>1, Zenon
    <3> QED BY <1>2, <3>1, <3>2
  <2> QED BY <2>1
<1>9. stoi(s) = IF n \in Ints THEN n ELSE 0
  BY <1>5, <1>6, <1>7, <1>8, StoiReads, Zenon DEF m
<1> QED BY <1>1, <1>4, <1>9

(* Without a number, stoi is given the body from its start.                *)
LEMMA StoiOfNone ==
  ASSUME NEW s \in Texts, Len(s) > 0, s[1] = Open
  PROVE  stoi(s) = 0
<1> DEFINE B == {Blank}
           begin == RunEnd(s, 1, B) + 1
           minus == begin <= Len(s) /\ s[begin] = Minus
           first == IF minus THEN begin + 1 ELSE begin
           end == RunEnd(s, first, Decimals)
           value == Value(SubSeq(s, first, end), 10)
           number == IF minus THEN -value ELSE value
<1>1. stoi(s) = IF number \in Ints THEN number ELSE 0
  BY Zenon DEF stoi, Blank, Minus
<1>2. Open \notin Decimals /\ Open # Minus /\ Open \notin B
  BY FieldMarksDiffer DEF FieldMarks, NumberMarks
<1>3. 1 \in Nat \ {0} /\ 0 \in Nat /\ 1 <= 0 + 1 /\ 0 <= Len(s) /\ 0 + 1 = 1 /\ Len(s) \in Nat
  BY LenType
<1>4. ASSUME NEW S, Open \notin S PROVE RunEnd(s, 1, S) = 0
  <2>1. \A k \in 1 .. 0 : s[k] \in S
    OBVIOUS
  <2>2. s[0 + 1] \notin S
    BY <1>3, <1>4
  <2> QED BY <1>3, <2>1, <2>2, RunEndIs, Zenon
<1> HIDE DEF B
<1>5. begin = 1
  <2>1. RunEnd(s, 1, B) = 0
    BY <1>2, <1>4
  <2> QED BY <2>1
<1> HIDE DEF begin
<1>6. ~minus
  BY <1>2, <1>5
<1> HIDE DEF minus
<1>7. first = 1
  BY <1>5, <1>6
<1> HIDE DEF first
<1>8. end = 0
  <2>1. RunEnd(s, 1, Decimals) = 0
    BY <1>2, <1>4
  <2> QED BY <1>7, <2>1
<1> HIDE DEF end
<1>9. value = 0
  <2> DEFINE u == SubSeq(s, first, end)
  <2>1. u = SubSeq(s, 1, 0)
    BY <1>7, <1>8
  <2>2. 1 \in Int /\ 0 \in Int /\ 1 <= 1 /\ 0 - 1 + 1 = 0
    OBVIOUS
  <2> DEFINE v == SubSeq(s, 1, 0)
  <2>9. 0 <= Len(s) /\ 1 <= 0 + 1
    BY <1>3
  <2>3. v \in Texts /\ Len(v) = 0 - 1 + 1
    BY <2>2, <2>9, Part, Zenon
  <2>4. Len(u) = 0 /\ u \in Texts
    BY <2>1, <2>2, <2>3
  <2> HIDE DEF u
  <2>5. 10 \in Nat
    OBVIOUS
  <2>6. PICK g \in [0 .. Len(u) -> Int] :
          /\ \A k \in 0 .. Len(u) : g[k] = ValueStep(u, 10, g, k)
          /\ Value(u, 10) = g[Len(u)]
    BY <2>4, <2>5, ValuesExist, Zenon
  <2>7. g[0] = ValueStep(u, 10, g, 0)
    BY <2>4, <2>6
  <2>8. ValueStep(u, 10, g, 0) = 0
    BY DEF ValueStep
  <2> QED BY <2>4, <2>6, <2>7, <2>8 DEF u
<1> HIDE DEF value
<1>10. number = 0
  BY <1>6, <1>9
<1> QED BY <1>1, <1>10

(* A body without a message has not its key.                               *)
LEMMA OnlyNumberReads ==
  ASSUME NEW b \in Texts, NEW n \in Int, NEW t, t = NumberText(n), OnlyNumber(b, t)
  PROVE  ~parseJsonMessage(b).ok
<1> DEFINE at == find(b, KeyMessage, 1)
           colon == find(b, <<Colon>>, at)
           start == find(b, <<Quote>>, colon)
           end == IF start = npos THEN npos ELSE find(b, <<Quote>>, start + 1)
<1>1. parseJsonMessage(b).ok = (end # npos)
  BY DEF parseJsonMessage, Colon
<1>2. /\ Len(t) \in Nat /\ Len(b) = 7 + Len(t) /\ b[1] = Open /\ b[2] = Quote /\ b[3] = NumberName
      /\ b[4] = Quote /\ b[5] = Colon /\ b[6] = Blank /\ b[7 + Len(t)] = Close
      /\ \A k \in 1 .. Len(t) : b[6 + k] = t[k]
  BY DEF OnlyNumber, NumberAt
<1>3. \A k \in 1 .. Len(t) : t[k] \in NumberMarks
  BY NumberTextIs, Zenon
<1>4. /\ Quote # Open /\ Quote # Close /\ Quote # Colon /\ Quote # Blank /\ Quote # NumberName
      /\ Quote # Comma /\ Quote \notin NumberMarks /\ MessageName # NumberName /\ Colon # MessageName
      /\ Quote \in Symbols /\ Colon \in Symbols
  BY FieldMarksDiffer DEF FieldMarks
<1>5. ASSUME NEW j \in 1 .. Len(b) PROVE ~Here(b, j, KeyMessage)
  <2>1. SUFFICES ASSUME b[j] = Quote, b[j + 1] = MessageName PROVE FALSE
    <3>1. j \in Nat
      BY <1>2
    <3> QED BY <3>1, HereThree, KeysAre
  <2>2. j = 1 \/ j = 2 \/ j = 3 \/ j = 4 \/ j = 5 \/ j = 6 \/ j \in 7 .. 6 + Len(t) \/ j = 7 + Len(t)
    BY <1>2
  <2>3. ASSUME j \in 7 .. 6 + Len(t) PROVE b[j] # Quote
    <3>1. j - 6 \in 1 .. Len(t) /\ 6 + (j - 6) = j
      BY <1>2, <2>3
    <3>2. b[j] = t[j - 6]
      BY <1>2, <3>1
    <3> QED BY <1>3, <1>4, <3>1, <3>2
  <2> QED BY <1>2, <1>4, <2>1, <2>2, <2>3
<1>6. at = npos
  <2>1. KeyMessage \in Texts /\ Len(KeyMessage) > 0 /\ 1 \in Nat
    BY KeysAre
  <2> QED BY <1>5, <2>1, NotFound, Zenon
<1> HIDE DEF at
<1>7. ASSUME NEW x \in Symbols PROVE find(b, <<x>>, npos) = npos
  <2> DEFINE y == <<x>>
  <2>1. y \in Texts /\ Len(y) > 0
    BY OneText, Zenon
  <2>2. npos = 0 /\ 0 \in Nat
    BY DEF npos
  <2>3. \A i \in 0 .. Len(b) : 0 # 0 => ~Here(b, i, y)
    OBVIOUS
  <2> HIDE DEF y
  <2>4. find(b, y, 0) = npos
    BY <2>1, <2>2, <2>3, NotFound, Zenon
  <2> QED BY <2>2, <2>4 DEF y
<1>8. colon = npos
  BY <1>4, <1>6, <1>7, Zenon
<1> HIDE DEF colon
<1>9. start = npos
  BY <1>4, <1>7, <1>8, Zenon
<1> HIDE DEF start
<1>10. end = npos
  BY <1>9
<1> HIDE DEF end
<1> QED BY <1>1, <1>10

(* Behind a number that comes first, the message's key is the first.       *)
LEMMA NumberFirstReads ==
  ASSUME NEW b \in Texts, NEW e \in Texts, NEW n \in Int, NEW t, t = NumberText(n), NumberFirst(b, e, t)
  PROVE  /\ MessageAt(b, 9 + Len(t), e)
         /\ \A j \in 1 .. (9 + Len(t)) - 1 : ~Here(b, j, KeyMessage)
         /\ parseJsonMessage(b).max_tokens = IF n \in Ints THEN n ELSE 0
<1>1. /\ Len(t) \in Nat /\ b[1] = Open /\ b[2] = Quote /\ b[3] = NumberName
      /\ b[4] = Quote /\ b[5] = Colon /\ b[6] = Blank
      /\ b[7 + Len(t)] = Comma /\ b[8 + Len(t)] = Blank
      /\ \A k \in 1 .. Len(t) : b[6 + k] = t[k]
      /\ MessageAt(b, 9 + Len(t), e) /\ NumberAt(b, 2, t)
  BY DEF NumberFirst, NumberAt
<1>2. \A k \in 1 .. Len(t) : t[k] \in NumberMarks
  BY NumberTextIs, Zenon
<1>3. /\ Quote # Open /\ Quote # Close /\ Quote # Colon /\ Quote # Blank /\ Quote # NumberName
      /\ Quote # Comma /\ Quote \notin NumberMarks /\ MessageName # NumberName /\ Colon # MessageName
      /\ Quote \in Symbols /\ Colon \in Symbols /\ Colon # NumberName /\ Comma \notin Decimals
  BY FieldMarksDiffer DEF FieldMarks, NumberMarks
<1>4. ASSUME NEW j \in 1 .. (9 + Len(t)) - 1 PROVE ~Here(b, j, KeyMessage)
  <2>1. SUFFICES ASSUME b[j] = Quote, b[j + 1] = MessageName PROVE FALSE
    <3>1. j \in Nat
      BY <1>1
    <3> QED BY <3>1, HereThree, KeysAre
  <2>2. \/ j = 1 \/ j = 2 \/ j = 3 \/ j = 4 \/ j = 5 \/ j = 6 \/ j \in 7 .. 6 + Len(t)
        \/ j = 7 + Len(t) \/ j = 8 + Len(t)
    BY <1>1
  <2>3. ASSUME j \in 7 .. 6 + Len(t) PROVE b[j] # Quote
    <3>1. j - 6 \in 1 .. Len(t) /\ 6 + (j - 6) = j
      BY <1>1, <2>3
    <3>2. b[j] = t[j - 6]
      BY <1>1, <3>1
    <3> QED BY <1>2, <1>3, <3>1, <3>2
  <2> QED BY <1>1, <1>3, <2>1, <2>2, <2>3
<1>5. Len(b) \in Nat /\ 15 + Len(t) <= Len(b)
  BY <1>1, LenType DEF MessageAt
<1>6. find(b, KeyMaxTokens, 1) = 2
  <2> DEFINE key == KeyMaxTokens
             i == 2
  <2>1. key \in Texts /\ Len(key) = 3 /\ b[i] = key[1] /\ b[i + 1] = key[2] /\ b[i + 2] = key[3]
    BY <1>1, KeysAre
  <2>2. i \in Nat \ {0} /\ i + 2 <= Len(b) /\ i - 1 = 1
    BY <1>1, <1>5
  <2>3. \A j \in 1 .. i - 1 : ~Here(b, j, key)
    <3>1. ~Here(b, 1, key)
      <4>1. b[1] # Quote /\ 1 \in Nat
        BY <1>1, <1>3
      <4>2. Len(key) = 3 /\ key[1] = Quote
        BY KeysAre
      <4> HIDE DEF key
      <4> QED BY <4>1, <4>2, HereThree
    <3> HIDE DEF key
    <3> QED BY <2>2, <3>1
  <2> HIDE DEF key, i
  <2>4. find(b, key, 1) = i
    BY <2>1, <2>2, <2>3, KeyFound, Zenon
  <2> QED BY <2>4 DEF key, i
<1>7. find(b, <<Colon>>, 2) = 5
  <2> DEFINE a == 2
             z == 5
  <2>1. a \in Nat \ {0} /\ z \in Nat /\ a <= z /\ z <= Len(b) /\ b[z] = Colon
    BY <1>1, <1>5
  <2>2. \A j \in a .. z - 1 : b[j] # Colon
    <3>1. ASSUME NEW j \in a .. z - 1 PROVE b[j] # Colon
      <4>1. j = 2 \/ j = 3 \/ j = 4
        OBVIOUS
      <4> QED BY <1>1, <1>3, <4>1
    <3> QED BY <3>1
  <2> HIDE DEF a, z
  <2>3. find(b, <<Colon>>, a) = z
    BY <1>3, <2>1, <2>2, FirstSymbol, Zenon
  <2> QED BY <2>3 DEF a, z
<1>8. MaxTokensColon(b) = 2 + 3
  <2>1. MaxTokensColon(b) = 5
    BY <1>6, <1>7 DEF MaxTokensColon, Colon
  <2> QED BY <2>1
<1>9. parseJsonMessage(b).max_tokens = IF n \in Ints THEN n ELSE 0
  <2> DEFINE i == 2
  <2>1. i + 5 + Len(t) <= Len(b) /\ b[i + 5 + Len(t)] \notin Decimals
    <3>1. 2 + 5 + Len(t) = 7 + Len(t)
      BY <1>1
    <3> QED BY <1>1, <1>3, <1>5, <3>1
  <2>2. NumberAt(b, i, t) /\ MaxTokensColon(b) = i + 3
    BY <1>1, <1>8
  <2> HIDE DEF i
  <2> QED BY <2>1, <2>2, NumberReads, Zenon
<1> QED BY <1>1, <1>4, <1>9

(* Where the key of the number may be, with a message that comes first.    *)
LEMMA NumberKeyInMessage ==
  ASSUME NEW b \in Texts, NEW e \in Texts, b[1] = Open, MessageAt(b, 2, e),
         \A k \in 1 .. Len(e) : e[k] # Quote, b[9 + Len(e)] \in {Comma, Close},
         10 + Len(e) <= Len(b) => b[10 + Len(e)] # Quote,
         NEW j \in 1 .. 10 + Len(e), Here(b, j, KeyMaxTokens)
  PROVE  j = 7 /\ Len(e) = 1 /\ e[1] = NumberName
<1>1. /\ Len(e) \in Nat /\ 8 + Len(e) <= Len(b) /\ Len(b) \in Nat
      /\ b[2] = Quote /\ b[3] = MessageName /\ b[4] = Quote
      /\ b[5] = Colon /\ b[6] = Blank /\ b[7] = Quote
      /\ \A k \in 1 .. Len(e) : b[7 + k] = e[k]
      /\ b[8 + Len(e)] = Quote
  BY LenType DEF MessageAt
<1>2. /\ Quote # Open /\ Quote # Close /\ Quote # Colon /\ Quote # Blank /\ Quote # NumberName
      /\ Quote # MessageName /\ Comma # NumberName
      /\ Quote # Comma /\ MessageName # NumberName /\ Colon # NumberName /\ Close # NumberName
  <2>1. Close # NumberName
    BY Zenon DEF Close, NumberName
  <2> QED BY <2>1, FieldMarksDiffer
<1>3. j \in 1 .. Len(b) - 2 /\ b[j] = Quote /\ b[j + 1] = NumberName /\ b[j + 2] = Quote
  <2>1. j \in Nat
    BY <1>1
  <2> QED BY <2>1, HereThree, KeysAre
<1>4. \/ j = 1 \/ j = 2 \/ j = 3 \/ j = 4 \/ j = 5 \/ j = 6 \/ j = 7 \/ j \in 8 .. 7 + Len(e)
      \/ j = 8 + Len(e) \/ j = 9 + Len(e) \/ j = 10 + Len(e)
  BY <1>1, SMTT(30)
<1>5. \A k \in 8 .. 7 + Len(e) : b[k] # Quote /\ b[k] = e[k - 7]
  <2>1. ASSUME NEW k \in 8 .. 7 + Len(e) PROVE b[k] # Quote /\ b[k] = e[k - 7]
    <3>1. k - 7 \in 1 .. Len(e) /\ 7 + (k - 7) = k
      BY <1>1
    <3>2. b[k] = e[k - 7]
      BY <1>1, <3>1
    <3> QED BY <3>1, <3>2
  <2> QED BY <2>1
<1>6. b[9 + Len(e)] # Quote /\ b[9 + Len(e)] # NumberName
  BY <1>2
<1>7. j = 7
  <2>1. j # 1 /\ j # 2 /\ j # 3 /\ j # 4 /\ j # 5 /\ j # 6
    <3>1. b[1] # Quote /\ b[3] # Quote /\ b[5] # Quote /\ b[6] # Quote
      BY <1>1, <1>2
    <3>2. b[2 + 1] # NumberName /\ b[4 + 1] # NumberName
      BY <1>1, <1>2
    <3> QED BY <1>3, <3>1, <3>2
  <2>2. j \notin 8 .. 7 + Len(e)
    BY <1>3, <1>5
  <2>3. j # 8 + Len(e)
    <3>1. 8 + Len(e) + 1 = 9 + Len(e)
      BY <1>1
    <3> QED BY <1>3, <1>6, <3>1
  <2>4. j # 9 + Len(e)
    BY <1>3, <1>6
  <2>5. j # 10 + Len(e)
    BY <1>1, <1>3
  <2> QED BY <1>4, <2>1, <2>2, <2>3, <2>4, <2>5
<1>8. b[8] = NumberName /\ b[9] = Quote
  BY <1>3, <1>7
<1>9. Len(e) = 1
  <2>1. Len(e) # 0
    BY <1>1, <1>2, <1>8
  <2>2. ~(Len(e) >= 2)
    <3>1. Len(e) >= 2 => 9 \in 8 .. 7 + Len(e)
      BY <1>1
    <3> QED BY <1>5, <1>8, <3>1
  <2>3. Len(e) \in Nat
    BY LenType
  <2> DEFINE n == Len(e)
  <2>4. n \in Nat /\ n # 0 /\ ~(n >= 2)
    BY <2>1, <2>2, <2>3
  <2> HIDE DEF n
  <2>5. n = 1
    BY <2>4
  <2> QED BY <2>5 DEF n
<1>10. e[1] = NumberName
  <2>1. 8 \in 8 .. 7 + Len(e) /\ 8 - 7 = 1
    BY <1>9
  <2> QED BY <1>5, <1>8, <2>1
<1> QED BY <1>7, <1>9, <1>10

(* With no number, only the message may look like its key, and then no     *)
(* colon follows.                                                          *)
LEMMA OnlyMessageReads ==
  ASSUME NEW b \in Texts, NEW e \in Texts, OnlyMessage(b, e), \A k \in 1 .. Len(e) : e[k] # Quote
  PROVE  parseJsonMessage(b).max_tokens = 0
<1> DEFINE at == find(b, KeyMaxTokens, 1)
<1>1. /\ Len(e) \in Nat /\ Len(b) = 9 + Len(e) /\ Len(b) \in Nat /\ b[1] = Open /\ b[7] = Quote
      /\ b[8 + Len(e)] = Quote /\ b[9 + Len(e)] = Close
      /\ \A k \in 1 .. Len(e) : b[7 + k] = e[k]
      /\ MessageAt(b, 2, e)
  BY DEF OnlyMessage, MessageAt
<1>2. /\ Quote # Colon /\ Colon # NumberName /\ Colon # Close /\ Quote \in Symbols /\ Colon \in Symbols
  BY FieldMarksDiffer DEF FieldMarks
<1>3. at \in Nat /\ (at # npos => at \in 1 .. Len(b) /\ Here(b, at, KeyMaxTokens))
  <2>1. KeyMaxTokens \in Texts /\ Len(KeyMaxTokens) > 0 /\ 1 \in Nat
    BY KeysAre
  <2> QED BY <2>1, FindType, Zenon
<1>4. ASSUME at # npos PROVE at = 7 /\ Len(e) = 1 /\ e[1] = NumberName
  <2>1. at \in 1 .. 10 + Len(e) /\ Here(b, at, KeyMaxTokens)
    BY <1>1, <1>3, <1>4
  <2>2. b[9 + Len(e)] \in {Comma, Close} /\ (10 + Len(e) <= Len(b) => b[10 + Len(e)] # Quote)
    BY <1>1
  <2> HIDE DEF at
  <2> QED BY <1>1, <2>1, <2>2, NumberKeyInMessage, Zenon
<1>5. MaxTokensColon(b) = find(b, <<Colon>>, at)
  BY Zenon DEF MaxTokensColon, Colon
<1> HIDE DEF at
<1>6. at \in Nat /\ \A j \in at .. Len(b) : at # 0 => b[j] # Colon
  <2>1. ASSUME NEW j \in at .. Len(b), at # 0 PROVE b[j] # Colon
    <3>1. at = 7 /\ Len(e) = 1 /\ e[1] = NumberName
      BY <1>4, <2>1 DEF npos
    <3>2. j = 7 \/ j = 8 \/ j = 9 \/ j = 10
      BY <1>1, <3>1
    <3>3. b[8] = NumberName /\ b[9] = Quote /\ b[10] = Close
      <4>1. 7 + 1 = 8 /\ 8 + Len(e) = 9 /\ 9 + Len(e) = 10 /\ 1 \in 1 .. Len(e)
        BY <3>1
      <4> QED BY <1>1, <3>1, <4>1
    <3> QED BY <1>1, <1>2, <3>2, <3>3
  <2> QED BY <1>3, <2>1
<1>7. MaxTokensColon(b) = 0
  <2> DEFINE y == <<Colon>>
  <2>1. y \in Texts /\ Len(y) > 0
    BY <1>2, OneText, Zenon
  <2>2. \A j \in at .. Len(b) : at # 0 => ~Here(b, j, y)
    <3>1. ASSUME NEW j \in at .. Len(b), at # 0 PROVE ~Here(b, j, y)
      <4>1. j \in Nat /\ b[j] # Colon
        BY <1>1, <1>6, <3>1
      <4> QED BY <4>1, HereOne, Zenon
    <3> QED BY <3>1
  <2> HIDE DEF y
  <2>3. find(b, y, at) = npos
    BY <1>6, <2>1, <2>2, NotFound, Zenon
  <2> QED BY <1>5, <2>3 DEF y, npos
<1>8. parseJsonMessage(b).max_tokens = stoi(From(b, MaxTokensColon(b) + 1))
  BY DEF parseJsonMessage
<1>9. From(b, MaxTokensColon(b) + 1) = b
  <2>1. From(b, MaxTokensColon(b) + 1) = SubSeq(b, 1, Len(b))
    BY <1>7 DEF From
  <2> QED BY <2>1, WholePart, Zenon
<1>10. stoi(b) = 0
  <2>1. Len(b) > 0
    BY <1>1
  <2> QED BY <1>1, <2>1, StoiOfNone
<1> QED BY <1>8, <1>9, <1>10

(* The number behind a message, even one that is the name of its key.      *)
LEMMA MessageFirstReads ==
  ASSUME NEW b \in Texts, NEW e \in Texts, NEW n \in Int, NEW t, t = NumberText(n),
         MessageFirst(b, e, t), \A k \in 1 .. Len(e) : e[k] # Quote
  PROVE  parseJsonMessage(b).max_tokens = IF n \in Ints THEN n ELSE 0
<1> DEFINE i == 11 + Len(e)
           l == Len(e)
           key == KeyMaxTokens
<1>1. /\ Len(e) \in Nat /\ Len(t) \in Nat /\ Len(b) \in Nat /\ Len(b) = 16 + Len(e) + Len(t)
      /\ b[1] = Open /\ MessageAt(b, 2, e) /\ b[9 + Len(e)] = Comma /\ b[10 + Len(e)] = Blank
      /\ b[16 + Len(e) + Len(t)] = Close /\ NumberAt(b, i, t) /\ b[7] = Quote
      /\ b[8 + Len(e)] = Quote /\ \A k \in 1 .. Len(e) : b[7 + k] = e[k]
  BY DEF MessageFirst, MessageAt, NumberAt
<1>2. /\ b[i] = Quote /\ b[i + 1] = NumberName /\ b[i + 2] = Quote /\ b[i + 3] = Colon
  BY <1>1 DEF NumberAt
<1>3. /\ Quote # Colon /\ Colon # NumberName /\ Colon # Comma /\ Colon # Blank /\ Quote # Blank
      /\ Quote \in Symbols /\ Colon \in Symbols /\ Close \notin Decimals
  BY FieldMarksDiffer DEF FieldMarks, NumberMarks
<1>4. key \in Texts /\ Len(key) = 3 /\ key[1] = Quote /\ key[2] = NumberName /\ key[3] = Quote
  BY KeysAre
<1>5. ASSUME NEW j \in 1 .. 10 + Len(e), Here(b, j, key)
      PROVE  j = 7 /\ Len(e) = 1 /\ e[1] = NumberName
  <2>1. b[9 + Len(e)] \in {Comma, Close} /\ (10 + Len(e) <= Len(b) => b[10 + Len(e)] # Quote)
    BY <1>1, <1>3
  <2> QED BY <1>1, <1>5, <2>1, NumberKeyInMessage, Zenon
<1>6. i \in Nat \ {0} /\ i + 5 + Len(t) = Len(b) /\ i - 1 = 10 + Len(e) /\ i = 11 + l /\ l = Len(e)
      /\ l \in Nat
  BY <1>1
<1> HIDE DEF i, l, key
<1>7. MaxTokensColon(b) = find(b, <<Colon>>, find(b, key, 1))
  BY Zenon DEF MaxTokensColon, Colon, key
<1>8. ASSUME NEW a \in Nat \ {0}, a <= i, find(b, key, 1) = a,
             \A j \in a .. i - 1 : b[j] # Colon
      PROVE  MaxTokensColon(b) = i + 3
  <2> DEFINE z == i + 3
  <2>1. z \in Nat /\ a <= z /\ z <= Len(b) /\ b[z] = Colon
    BY <1>1, <1>2, <1>6, <1>8
  <2>2. \A j \in a .. z - 1 : b[j] # Colon
    <3>1. ASSUME NEW j \in a .. z - 1 PROVE b[j] # Colon
      <4>1. j \in a .. i - 1 \/ j = i \/ j = i + 1 \/ j = i + 2
        BY <1>6
      <4> QED BY <1>2, <1>3, <1>8, <4>1
    <3> QED BY <3>1
  <2> HIDE DEF z
  <2>3. find(b, <<Colon>>, a) = z
    BY <1>3, <2>1, <2>2, FirstSymbol, Zenon
  <2> QED BY <1>7, <1>8, <2>3 DEF z
<1>11. ASSUME MaxTokensColon(b) = i + 3
       PROVE  parseJsonMessage(b).max_tokens = IF n \in Ints THEN n ELSE 0
  <2>1. i + 5 + Len(t) <= Len(b) /\ i + 5 + Len(t) = 16 + Len(e) + Len(t)
    BY <1>1, <1>6
  <2>2. b[i + 5 + Len(t)] \notin Decimals
    BY <1>1, <1>3, <2>1
  <2> QED BY <1>1, <1>11, <2>1, <2>2, NumberReads, Zenon
<1>9. CASE \A j \in 1 .. i - 1 : ~Here(b, j, key)
  <2>1. i + 2 <= Len(b) /\ b[i] = key[1] /\ b[i + 1] = key[2] /\ b[i + 2] = key[3]
    BY <1>1, <1>2, <1>4, <1>6
  <2>2. find(b, key, 1) = i
    BY <1>4, <1>6, <1>9, <2>1, KeyFound, Zenon
  <2>3. i <= i /\ \A j \in i .. i - 1 : b[j] # Colon
    BY <1>6
  <2>4. MaxTokensColon(b) = i + 3
    BY <1>6, <1>8, <2>2, <2>3, Zenon
  <2> QED BY <1>11, <2>4
<1>10. CASE \E j \in 1 .. i - 1 : Here(b, j, key)
  <2>1. Len(e) = 1 /\ e[1] = NumberName
    BY <1>5, <1>6, <1>10
  <2> DEFINE a == 7
  <2>2. b[7] = Quote /\ b[8] = NumberName /\ b[9] = Quote /\ b[10] = Comma /\ b[11] = Blank /\ i = 12
    <3>1. 7 + 1 = 8 /\ 8 + Len(e) = 9 /\ 9 + Len(e) = 10 /\ 10 + Len(e) = 11 /\ 1 \in 1 .. Len(e) /\ i = 12
      BY <1>6, <2>1
    <3> QED BY <1>1, <2>1, <3>1
  <2>3. a \in Nat \ {0} /\ a + 2 <= Len(b) /\ b[a] = key[1] /\ b[a + 1] = key[2] /\ b[a + 2] = key[3]
        /\ a <= i
    BY <1>1, <1>4, <2>1, <2>2
  <2>4. \A j \in 1 .. a - 1 : ~Here(b, j, key)
    <3>1. ASSUME NEW j \in 1 .. a - 1 PROVE ~Here(b, j, key)
      <4>1. j \in 1 .. 10 + Len(e) /\ j # 7
        BY <2>1
      <4> QED BY <1>5, <4>1
    <3> QED BY <3>1
  <2>5. \A j \in a .. i - 1 : b[j] # Colon
    <3>1. ASSUME NEW j \in a .. i - 1 PROVE b[j] # Colon
      <4>1. j = 7 \/ j = 8 \/ j = 9 \/ j = 10 \/ j = 11
        BY <2>2
      <4> QED BY <1>3, <2>2, <4>1
    <3> QED BY <3>1
  <2> HIDE DEF a
  <2>6. find(b, key, 1) = a
    BY <1>4, <2>3, <2>4, KeyFound, Zenon
  <2>7. MaxTokensColon(b) = i + 3
    BY <1>8, <2>3, <2>5, <2>6, Zenon
  <2> QED BY <1>11, <2>7
<1> QED BY <1>9, <1>10

(* What the server finds in a client's body.                               *)
LEMMA FieldsRead ==
  ASSUME NEW c, Comes(c), c.route = Process, NEW b, b = JsonBody(c),
         NEW f, f = FlattenSeq(c.message)
  PROVE  /\ c.has_message => parseJsonMessage(b).ok
         /\ ~c.has_message => ~parseJsonMessage(b).ok
         /\ c.has_message /\ Plain(f) =>
              /\ parseJsonMessage(b).message = f
              /\ parseJsonMessage(b).max_tokens =
                   IF c.max_tokens = <<>> \/ c.max_tokens[1] \notin Ints THEN 0 ELSE c.max_tokens[1]
<1> DEFINE e == EscapedQuotes(f)
           n == c.max_tokens[1]
           t == NumberText(n)
           p == parseJsonMessage(b)
<1>1. b \in Texts
  BY FieldsHere, Zenon
<1>2. c \in Requests /\ (c.has_message \/ c.max_tokens # <<>>)
  BY DEF Comes
<1>3. c.max_tokens # <<>> => n \in Int
  BY <1>2 DEF Requests
<1>4. f \in Texts
  BY <1>2, MessageType
<1>5. e \in Texts /\ (Plain(f) => e = f)
  BY <1>4, QuotedIs
<1>6. Plain(f) => \A k \in 1 .. Len(e) : e[k] # Quote
  <2>1. ASSUME Plain(f), NEW k \in 1 .. Len(e) PROVE e[k] # Quote
    <3>1. e = f /\ k \in DOMAIN f
      BY <1>4, <1>5, <2>1, LenType
    <3>2. f[k] \in ToSet(f)
      BY <3>1 DEF ToSet
    <3> HIDE DEF e
    <3> QED BY <2>1, <3>1, <3>2 DEF Plain
  <2> QED BY <2>1
<1>7. /\ ~c.has_message => OnlyNumber(b, t)
      /\ c.has_message /\ c.max_tokens = <<>> => OnlyMessage(b, e)
      /\ c.has_message /\ c.max_tokens # <<>> =>
           IF c.message_first THEN MessageFirst(b, e, t) ELSE NumberFirst(b, e, t)
  <2>1. e = EscapedQuotes(FlattenSeq(c.message)) /\ t = NumberText(c.max_tokens[1])
    OBVIOUS
  <2> HIDE DEF e, t
  <2> QED BY <2>1, BodiesAre, Zenon
<1> HIDE DEF e
<1>8. t = NumberText(n)
  OBVIOUS
<1> HIDE DEF n, t
<1>9. ASSUME MessageAt(b, 2, e), b[1] = Open
      PROVE  p.ok /\ (Plain(f) => p.message = f)
  <2> DEFINE i == 2
  <2>1. \A j \in 1 .. i - 1 : ~Here(b, j, KeyMessage)
    <3>1. ~Here(b, 1, KeyMessage)
      <4>1. Quote # Open /\ 1 \in Nat
        BY FieldMarksDiffer
      <4> QED BY <1>1, <1>9, <4>1, HereThree, KeysAre
    <3> QED BY <3>1
  <2>2. MessageAt(b, i, e)
    BY <1>9
  <2> HIDE DEF i
  <2>3. p.ok /\ ((\A k \in 1 .. Len(e) : e[k] # Quote) => p.message = e)
    BY <1>1, <1>5, <2>1, <2>2, MessageReads, Zenon
  <2> QED BY <1>5, <1>6, <2>3
<1>10. CASE ~c.has_message
  BY <1>1, <1>2, <1>3, <1>7, <1>8, <1>10, OnlyNumberReads
<1>11. CASE c.has_message /\ c.max_tokens = <<>>
  <2>1. OnlyMessage(b, e)
    BY <1>7, <1>11
  <2>2. p.ok /\ (Plain(f) => p.message = f)
    BY <1>9, <2>1, Zenon DEF OnlyMessage
  <2>3. Plain(f) => p.max_tokens = 0
    BY <1>1, <1>5, <1>6, <2>1, OnlyMessageReads, Zenon
  <2> QED BY <1>11, <2>2, <2>3
<1>12. CASE c.has_message /\ c.max_tokens # <<>> /\ c.message_first
  <2>1. MessageFirst(b, e, t) /\ n \in Int
    BY <1>3, <1>7, <1>12
  <2>2. p.ok /\ (Plain(f) => p.message = f)
    BY <1>9, <2>1, Zenon DEF MessageFirst
  <2>3. Plain(f) => p.max_tokens = IF n \in Ints THEN n ELSE 0
    BY <1>1, <1>5, <1>6, <1>8, <2>1, MessageFirstReads, Zenon
  <2> QED BY <1>12, <2>2, <2>3 DEF n
<1>13. CASE c.has_message /\ c.max_tokens # <<>> /\ ~c.message_first
  <2>1. NumberFirst(b, e, t) /\ n \in Int
    BY <1>3, <1>7, <1>13
  <2> DEFINE i == 9 + Len(t)
  <2>2. /\ MessageAt(b, i, e) /\ \A j \in 1 .. i - 1 : ~Here(b, j, KeyMessage)
        /\ p.max_tokens = IF n \in Ints THEN n ELSE 0
    BY <1>1, <1>5, <1>8, <2>1, NumberFirstReads, Zenon
  <2> HIDE DEF i
  <2>3. p.ok /\ ((\A k \in 1 .. Len(e) : e[k] # Quote) => p.message = e)
    BY <1>1, <1>5, <2>2, MessageReads, Zenon
  <2> QED BY <1>5, <1>6, <1>13, <2>2, <2>3 DEF n
<1> QED BY <1>10, <1>11, <1>12, <1>13

(* Only a body with a message is accepted; what was found in it is what    *)
(* its client means; a request of the route is answered by the worker, or  *)
(* with an error if it has no message.                                     *)
BadRequest == \E x \in Refusals : reply = buildHttpResponse(400, <<x>>)
FieldsInv ==
  /\ ReplyInv
  /\ stage \in {"parsed", "encoded"} => client.route = Process /\ client.has_message
  /\ stage = "parsed" => request = parseJsonMessage(JsonBody(client))
  /\ stage = "done" /\ client.route = Process =>
       (client.has_message /\ Answered) \/ (~client.has_message /\ BadRequest)

LEMMA FieldsInvInit == Init => FieldsInv
<1> SUFFICES ASSUME Init PROVE FieldsInv
  OBVIOUS
<1>1. stage = "start"
  BY DEF Init
<1> QED BY <1>1, ReplyInvInit DEF FieldsInv

LEMMA HandleKeepsFields ==
  ASSUME FieldsInv, ReplyInv', Handle
  PROVE  FieldsInv'
<1> DEFINE p == parseJsonMessage(JsonBody(client))
<1>1. stage = "read" /\ client' = client
  BY DEF Handle, reading
<1>2. Comes(client) /\ body = JsonBody(client)
  BY <1>1 DEF FieldsInv, ReplyInv, ReadInv, ReadWhole
<1>3. ASSUME client.route = Process PROVE client.has_message <=> p.ok
  <2>1. client.has_message => p.ok
    BY <1>2, <1>3, FieldsRead, Zenon
  <2>2. ~client.has_message => ~p.ok
    BY <1>2, <1>3, FieldsRead, Zenon
  <2> HIDE DEF p
  <2> QED BY <2>1, <2>2
<1> HIDE DEF p
<1>4. \/ client.route = Process /\ request' = p /\ p.ok /\ stage' = "parsed"
      \/ client.route = Process /\ ~p.ok /\ stage' = "done"
         /\ Refuse(400, "Invalid JSON or missing message field")
      \/ client.route # Process /\ stage' = "done"
  <2>1. parseJsonMessage(body) = p
    BY <1>2 DEF p
  <2> QED BY <2>1 DEF Handle
<1>5. CASE client.route = Process /\ request' = p /\ p.ok /\ stage' = "parsed"
  <2>1. request' = parseJsonMessage(JsonBody(client'))
    BY <1>1, <1>5 DEF p
  <2>2. client'.route = Process /\ client'.has_message
    BY <1>1, <1>3, <1>5
  <2> QED BY <1>5, <2>1, <2>2 DEF FieldsInv
<1>6. CASE client.route = Process /\ ~p.ok /\ stage' = "done"
           /\ Refuse(400, "Invalid JSON or missing message field")
  <2>1. "Invalid JSON or missing message field" \in Refusals
    BY DEF Refusals
  <2>2. BadRequest'
    BY <1>6, <2>1, Zenon DEF BadRequest, Refuse
  <2>3. ~client'.has_message
    BY <1>1, <1>3, <1>6
  <2> QED BY <1>6, <2>2, <2>3 DEF FieldsInv
<1>7. CASE client.route # Process /\ stage' = "done"
  BY <1>1, <1>7 DEF FieldsInv
<1> QED BY <1>4, <1>5, <1>6, <1>7

LEMMA FieldsInvPreserved == FieldsInv /\ [Next]_vars => FieldsInv'
<1> SUFFICES ASSUME FieldsInv, [Next]_vars PROVE FieldsInv'
  OBVIOUS
<1>0. ReplyInv'
  BY ReplyInvPreserved DEF FieldsInv
<1>1. ASSUME stage' \notin {"parsed", "encoded", "done"} PROVE FieldsInv'
  BY <1>0, <1>1 DEF FieldsInv
<1>2. CASE Load \/ Connect \/ RecvFails
  BY <1>1, <1>2, Zenon DEF Load, Connect, RecvFails
<1>3. CASE GoAway
  BY <1>1, <1>3 DEF GoAway
<1>4. ASSUME NEW n \in 1 .. BUF, RecvHeaders(n) PROVE FieldsInv'
  <2>1. stage = "headers" /\ (stage' = stage \/ stage' \in {"failed", "read", "body"})
    BY <1>4, Zenon DEF RecvHeaders, HeadersEnd
  <2> QED BY <1>1, <2>1
<1>5. ASSUME NEW n \in 1 .. BUF, RecvBody(n) PROVE FieldsInv'
  <2>1. stage' \in {"body", "read"}
    BY <1>5 DEF RecvBody
  <2> QED BY <1>1, <2>1
<1>6. CASE Handle
  BY <1>0, <1>6, HandleKeepsFields
<1>7. CASE EncodePrompt
  <2>1. stage = "parsed" /\ stage' = "encoded" /\ client' = client
    BY <1>7 DEF EncodePrompt
  <2> QED BY <1>0, <2>1 DEF FieldsInv
<1>8. CASE Reply
  <2>1. stage = "encoded" /\ stage' = "done" /\ client' = client /\ answer' # <<>>
    BY <1>8 DEF Reply
  <2>2. Answered'
    BY <1>0, <2>1 DEF ReplyInv
  <2> QED BY <1>0, <2>1, <2>2 DEF FieldsInv
<1>9. CASE UNCHANGED vars
  <2>1. UNCHANGED <<stage, client, request, answer, reply>>
    BY <1>9 DEF vars
  <2>2. (Answered => Answered') /\ (BadRequest => BadRequest')
    BY <2>1, ZenonT(40) DEF Answered, BadRequest
  <2> QED BY <1>0, <2>1, <2>2 DEF FieldsInv
<1>10. Load \/ Connect \/ GoAway \/ RecvFails \/ (\E n \in 1 .. BUF : RecvHeaders(n) \/ RecvBody(n))
       \/ Handle \/ EncodePrompt \/ Reply \/ UNCHANGED vars
  BY Zenon DEF Next, ReadStep
<1> QED BY <1>2, <1>3, <1>4, <1>5, <1>6, <1>7, <1>8, <1>9, <1>10

(* The server finds the message and the number a client means, in either   *)
(* order and even when the message is the name of a field; a number        *)
(* missing or no int is 0; only a body without a message is answered       *)
(* with an error (parseJsonMessage, handleClient).                         *)
THEOREM FieldsFoundAsSent == Spec => []FieldsAsSent
<1>1. FieldsInv => FieldsAsSent
  <2> SUFFICES ASSUME FieldsInv PROVE FieldsAsSent
    OBVIOUS
  <2> DEFINE f == FlattenSeq(client.message)
             b == JsonBody(client)
             p == parseJsonMessage(b)
  <2>1. ASSUME stage = "parsed", Plain(f)
        PROVE  /\ request.message = f
               /\ request.max_tokens =
                    IF client.max_tokens = <<>> \/ client.max_tokens[1] \notin Ints THEN 0
                    ELSE client.max_tokens[1]
    <3>1. Comes(client) /\ client.route = Process /\ client.has_message /\ request = p
      BY <2>1 DEF FieldsInv, ReplyInv, ReadInv
    <3>2. /\ p.message = f
          /\ p.max_tokens = IF client.max_tokens = <<>> \/ client.max_tokens[1] \notin Ints THEN 0
                            ELSE client.max_tokens[1]
      BY <2>1, <3>1, FieldsRead, Zenon
    <3> HIDE DEF p, f
    <3> QED BY <3>1, <3>2
  <2>2. ASSUME stage = "done", client.route = Process
        PROVE  ClientReads(reply).status = 200 <=> client.has_message
    <3>1. CASE client.has_message /\ Answered
      <4>1. answer # <<>>
        BY <3>1 DEF Answered
      <4>2. ClientReads(reply) = [status |-> 200, content |-> answer]
        BY <4>1, ReplyInvReads, Zenon DEF FieldsInv, ReplyReads
      <4> QED BY <3>1, <4>2
    <3>2. CASE ~client.has_message /\ BadRequest
      <4>1. PICK x \in Refusals : reply = buildHttpResponse(400, <<x>>)
        BY <3>2 DEF BadRequest
      <4>2. x \in Symbols
        BY DEF Refusals, Symbols, Marks
      <4>3. x # ChunkedMark
        BY Zenon DEF Refusals, ChunkedMark
      <4> DEFINE code == 400
      <4>4. code \in Nat /\ code # 200 /\ reply = buildHttpResponse(code, <<x>>)
        BY <4>1
      <4> HIDE DEF code
      <4>5. ClientReads(reply).status = code
        BY <4>2, <4>3, <4>4, PlainRead, Zenon
      <4> QED BY <3>2, <4>4, <4>5
    <3> QED BY <2>2, <3>1, <3>2 DEF FieldsInv
  <2> QED BY <2>1, <2>2, Zenon DEF FieldsAsSent
<1>2. FieldsInv /\ [Next]_vars => FieldsInv'
  BY FieldsInvPreserved
<1>3. Spec => []FieldsInv
  BY <1>2, FieldsInvInit, PTL DEF Spec
<1> QED BY <1>1, <1>3, PTL
=============================================================================
