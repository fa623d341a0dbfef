--------------------------- MODULE CommonLemmas ----------------------------
(***************************************************************************)
(* Facts that several proofs rest on: % with a modulus that is not known   *)
(* (the unsigned positions and sequence numbers of the code, the slot of a *)
(* position), induction, and that what is defined by recursion is there.   *)
(***************************************************************************)
EXTENDS Integers, TLAPS, WellFoundedInduction

-----------------------------------------------------------------------------
(* REMAINDERS                                                              *)

\* a % m is in its range and differs from a by a multiple of m.
LEMMA ModDef ==
  ASSUME NEW m \in Nat \ {0}, NEW a \in Int
  PROVE  /\ a % m \in 0 .. m - 1
         /\ \E q \in Int : a = m * q + (a % m)
<1>1. a % m \in 0 .. m - 1
  OBVIOUS
<1>2. a \div m \in Int /\ a = m * (a \div m) + (a % m)
  OBVIOUS
<1> QED
  BY <1>1, <1>2

\* The remainder is the only number in its range that differs by a multiple.
LEMMA ModUnique ==
  ASSUME NEW m \in Nat \ {0}, NEW q \in Int, NEW r \in 0 .. m - 1
  PROVE  (m * q + r) % m = r
OBVIOUS

\* Small numbers are their own remainders.
LEMMA ModSmall ==
  ASSUME NEW m \in Nat \ {0}, NEW a \in 0 .. m - 1
  PROVE  a % m = a
OBVIOUS

\* Multiples do not change the remainder.
LEMMA ModMultiple ==
  ASSUME NEW m \in Nat \ {0}, NEW a \in Int, NEW k \in Int
  PROVE  (a + m * k) % m = a % m
<1>1. PICK q \in Int : a = m * q + (a % m)
  BY ModDef
<1> DEFINE r == a % m
<1>2. r \in 0 .. m - 1
  BY ModDef
<1> HIDE DEF r
<1>3. a + m * k = m * (q + k) + r
  BY <1>1, <1>2 DEF r
<1>4. (m * (q + k) + r) % m = r
  BY <1>2, ModUnique
<1> QED
  BY <1>3, <1>4 DEF r

\* A remainder may be taken of any part of a sum.
LEMMA ModAdd ==
  ASSUME NEW m \in Nat \ {0}, NEW a \in Int, NEW b \in Int
  PROVE  (a + (b % m)) % m = (a + b) % m
<1>1. PICK q \in Int : b = m * q + (b % m)
  BY ModDef
<1> DEFINE r == b % m
<1>2. r \in Int
  BY ModDef
<1> HIDE DEF r
<1>3. b = m * q + r
  BY <1>1 DEF r
<1>4. a + b = (a + r) + m * q
  BY <1>2, <1>3
<1>5. a + r \in Int
  BY <1>2
<1>6. ((a + r) + m * q) % m = (a + r) % m
  BY <1>5, ModMultiple, Zenon
<1> QED
  BY <1>4, <1>6 DEF r

\* Numbers with the same remainder can replace each other in a sum.
LEMMA ModCongruent ==
  ASSUME NEW m \in Nat \ {0}, NEW a \in Int, NEW b \in Int, NEW c \in Int,
         a % m = b % m
  PROVE  (c + a) % m = (c + b) % m
<1>1. (c + (a % m)) % m = (c + a) % m
  BY ModAdd
<1>2. (c + (b % m)) % m = (c + b) % m
  BY ModAdd
<1> QED
  BY <1>1, <1>2

\* A remainder may be taken of what is subtracted, too.
LEMMA ModSub ==
  ASSUME NEW m \in Nat \ {0}, NEW a \in Int, NEW b \in Int
  PROVE  (a - (b % m)) % m = (a - b) % m
<1>1. PICK q \in Int : b = m * q + (b % m)
  BY ModDef
<1> DEFINE r == b % m
<1>2. r \in Int
  BY ModDef
<1> HIDE DEF r
<1>3. b = m * q + r
  BY <1>1 DEF r
<1>4. a - r = (a - b) + m * q
  BY <1>2, <1>3
<1>5. ((a - b) + m * q) % m = (a - b) % m
  <2>1. a - b \in Int
    OBVIOUS
  <2> QED
    BY <2>1, ModMultiple, Zenon
<1> QED
  BY <1>4, <1>5 DEF r

\* Different numbers with the same remainder are at least the modulus apart.
LEMMA ModApart ==
  ASSUME NEW m \in Nat \ {0}, NEW a \in Int, NEW b \in Int,
         a % m = b % m, a < b
  PROVE  a + m <= b
<1>1. PICK p \in Int : a = m * p + (a % m)
  BY ModDef
<1>2. PICK q \in Int : b = m * q + (b % m)
  BY ModDef
<1> DEFINE r == a % m
<1>3. r \in Int
  BY ModDef
<1>4. a = m * p + r /\ b = m * q + r
  BY <1>1, <1>2
<1> HIDE DEF r
<1>5. b - a = m * (q - p)
  BY <1>3, <1>4
<1>6. q - p >= 1
  BY <1>5
<1>7. m * (q - p) >= m
  BY <1>6
<1> QED
  BY <1>5, <1>7

\* Below b, and no further than m away from it, is a number with the remainder
\* of any given smaller one.
LEMMA ModLast ==
  ASSUME NEW m \in Nat \ {0}, NEW a \in Nat, NEW b \in Nat, a < b
  PROVE  \E p \in a .. b - 1 : p % m = a % m /\ b <= p + m
<1> DEFINE d == b - 1 - a
           r == d % m
<1>1. d \in Int
  OBVIOUS
<1> HIDE DEF d
<1>2. r \in 0 .. m - 1 /\ \E k \in Int : d = m * k + r
  BY <1>1, ModDef
<1> HIDE DEF r
<1>3. PICK k \in Int : b - 1 - a = m * k + r
  BY <1>2 DEF d
<1>4. k >= 0
  BY <1>2, <1>3
<1>5. m * k >= 0
  BY <1>4
<1>6. a + m * k \in a .. b - 1 /\ b <= a + m * k + m
  BY <1>2, <1>3, <1>5
<1>7. (a + m * k) % m = a % m
  <2>1. a \in Int
    OBVIOUS
  <2> QED
    BY <2>1, ModMultiple, Zenon
<1> QED
  BY <1>6, <1>7

-----------------------------------------------------------------------------
(* RECURSION                                                               *)

\* Induction over the natural numbers, for a set: the least number that is not
\* in it has a predecessor that is.
LEMMA SetInduction ==
  ASSUME NEW S, 0 \in S, \A n \in Nat : n \in S => n + 1 \in S
  PROVE  Nat \subseteq S
<1> DEFINE T == Nat \ S
          R == {p \in Nat \X Nat : p[1] < p[2]}
<1>1. IsWellFoundedOn(R, Nat)
  BY NatLessThanWellFounded DEF OpToRel
<1>2. SUFFICES ASSUME T # {} PROVE FALSE
  OBVIOUS
<1>3. PICK x \in T : \A y \in T : ~(<<y, x>> \in R)
  <2> HIDE DEF R
  <2>1. T \subseteq Nat
    OBVIOUS
  <2> HIDE DEF T
  <2> QED BY WFMin, <1>1, <1>2, <2>1
<1>4. x # 0
  OBVIOUS
<1>5. x - 1 \in Nat /\ x - 1 < x
  BY <1>4
<1>6. x - 1 \in S
  BY <1>3, <1>5
<1> QED
  BY <1>5, <1>6

\* f has the first value a and goes on by the steps.
Goes(f, n, a, step) == f[0] = a /\ \A k \in 1 .. n : f[k] = step[k][f[k - 1]]

\* A function on 0 .. n is defined by its first value and its steps.
LEMMA Recursion ==
  ASSUME NEW n \in Nat, NEW X, NEW a \in X, NEW step \in [1 .. n -> [X -> X]]
  PROVE  \E f \in [0 .. n -> X] : Goes(f, n, a, step)
<1> DEFINE Good(f, m) == f \in [0 .. m -> X] /\ Goes(f, m, a, step)
          S == {m \in Nat : m <= n => \E f : Good(f, m)}
<1>1. 0 \in S
  <2>1. Good([k \in 0 .. 0 |-> a], 0)
    BY DEF Goes
  <2> QED BY <2>1
<1>2. ASSUME NEW m \in Nat, m \in S PROVE m + 1 \in S
  <2> SUFFICES ASSUME m + 1 <= n PROVE \E f : Good(f, m + 1)
    OBVIOUS
  <2>1. PICK f : Good(f, m)
    BY <1>2
  <2> DEFINE g == [k \in 0 .. m + 1 |-> IF k <= m THEN f[k] ELSE step[m + 1][f[m]]]
  <2>2. m + 1 \in 1 .. n /\ f[m] \in X /\ step[m + 1] \in [X -> X]
    BY <2>1 DEF Goes
  <2>3. step[m + 1][f[m]] \in X
    BY <2>2
  <2>4. g \in [0 .. m + 1 -> X] /\ g[0] = a
    BY <2>1, <2>3 DEF Goes
  <2>5. ASSUME NEW k \in 1 .. m + 1 PROVE g[k] = step[k][g[k - 1]]
    <3>1. k - 1 \in 0 .. m /\ g[k - 1] = f[k - 1]
      OBVIOUS
    <3>2. CASE k <= m
      BY <3>1, <3>2, <2>1 DEF Goes
    <3>3. CASE k = m + 1
      BY <3>1, <3>3
    <3> QED BY <3>2, <3>3
  <2> QED BY <2>4, <2>5 DEF Goes
<1> HIDE DEF S
<1>3. Nat \subseteq S
  BY <1>1, <1>2, SetInduction
<1>4. n \in S
  BY <1>3
<1> QED
  BY <1>4 DEF S

\* Two functions that go on by the same steps agree as far as both go.
LEMMA GoesOneWay ==
  ASSUME NEW a, NEW step, NEW n \in Nat, NEW m \in Nat, NEW f, NEW g,
         Goes(f, n, a, step), Goes(g, m, a, step), n <= m
  PROVE  f[n] = g[n]
<1> DEFINE S == {k \in Nat : k <= n => f[k] = g[k]}
<1>1. 0 \in S
  BY DEF Goes
<1>2. ASSUME NEW k \in Nat, k \in S PROVE k + 1 \in S
  <2> SUFFICES ASSUME k + 1 <= n PROVE f[k + 1] = g[k + 1]
    OBVIOUS
  <2>1. k + 1 \in 1 .. n /\ k + 1 \in 1 .. m /\ (k + 1) - 1 = k
    OBVIOUS
  <2>2. f[k + 1] = step[k + 1][f[k]]
    BY <2>1, Zenon DEF Goes
  <2>3. g[k + 1] = step[k + 1][g[k]]
    BY <2>1, Zenon DEF Goes
  <2>4. f[k] = g[k]
    BY <1>2
  <2> QED BY <2>2, <2>3, <2>4
<1> HIDE DEF S
<1>3. Nat \subseteq S
  BY <1>1, <1>2, SetInduction
<1>4. n \in S
  BY <1>3
<1> QED
  BY <1>4 DEF S

\* What a step makes of a function depends on its earlier values only.
Earlier(step, n, X) ==
  \A k \in 0 .. n : \A g, h \in [0 .. n -> X] :
    (\A j \in 0 .. k - 1 : g[j] = h[j]) => step[k][g] = step[k][h]

\* f is what the steps make of it.
Follows(f, step, n) == \A k \in 0 .. n : f[k] = step[k][f]

\* A function on 0 .. n is defined by steps that look at all earlier values.
LEMMA CourseOfValues ==
  ASSUME NEW n \in Nat, NEW X, X # {}, NEW step \in [0 .. n -> [[0 .. n -> X] -> X]],
         Earlier(step, n, X)
  PROVE  \E f \in [0 .. n -> X] : Follows(f, step, n)
<1> DEFINE Good(f, m) == \A k \in 0 .. n : k < m => f[k] = step[k][f]
           S == {m \in Nat : m <= n + 1 => \E f \in [0 .. n -> X] : Good(f, m)}
<1>1. 0 \in S
  <2>1. PICK x \in X : TRUE
    OBVIOUS
  <2>2. [k \in 0 .. n |-> x] \in [0 .. n -> X]
    OBVIOUS
  <2>3. Good([k \in 0 .. n |-> x], 0)
    OBVIOUS
  <2> QED BY <2>2, <2>3
<1>2. ASSUME NEW m \in Nat, m \in S PROVE m + 1 \in S
  <2> SUFFICES ASSUME m + 1 <= n + 1 PROVE \E f \in [0 .. n -> X] : Good(f, m + 1)
    OBVIOUS
  <2>1. PICK f \in [0 .. n -> X] : Good(f, m)
    BY <1>2
  <2>2. m \in 0 .. n /\ step[m][f] \in X
    OBVIOUS
  <2> DEFINE g == [f EXCEPT ![m] = step[m][f]]
  <2>3. g \in [0 .. n -> X] /\ g[m] = step[m][f]
    BY <2>2
  <2>4. \A k \in 0 .. n : k # m => g[k] = f[k]
    OBVIOUS
  <2> HIDE DEF g
  <2>5. ASSUME NEW k \in 0 .. n, k < m + 1 PROVE g[k] = step[k][g]
    <3>1. \A j \in 0 .. k - 1 : g[j] = f[j]
      BY <2>4, <2>5
    <3>2. step[k][g] = step[k][f]
      BY <2>3, <3>1 DEF Earlier
    <3>3. CASE k = m
      BY <2>3, <3>2, <3>3
    <3>4. CASE k < m
      BY <2>1, <2>4, <3>2, <3>4
    <3> QED BY <2>2, <2>5, <3>3, <3>4
  <2> QED BY <2>3, <2>5
<1> HIDE DEF S
<1>3. Nat \subseteq S
  BY <1>1, <1>2, SetInduction
<1>4. n + 1 \in S
  BY <1>3
<1>5. PICK f \in [0 .. n -> X] : Good(f, n + 1)
  BY <1>4 DEF S
<1> QED
  BY <1>5 DEF Follows

\* The same for a function on all natural numbers.
LEMMA NatRecursion ==
  ASSUME NEW X, NEW a \in X, NEW step \in [Nat -> [X -> X]]
  PROVE  \E f \in [Nat -> X] : \A n \in Nat : Goes(f, n, a, step)
<1> DEFINE Good(g, n) == g \in [0 .. n -> X] /\ Goes(g, n, a, step)
          G(n) == CHOOSE g : Good(g, n)
          f == [n \in Nat |-> G(n)[n]]
<1>1. ASSUME NEW n \in Nat PROVE Good(G(n), n)
  <2> PICK t : t = [k \in 1 .. n |-> step[k]]
    OBVIOUS
  <2>1. t \in [1 .. n -> [X -> X]]
    OBVIOUS
  <2>2. PICK g \in [0 .. n -> X] : Goes(g, n, a, t)
    BY <2>1, Recursion, Zenon
  <2>3. Good(g, n)
    BY <2>2 DEF Goes
  <2> QED BY <2>3
<1> HIDE DEF G
<1>2. f \in [Nat -> X]
  <2>1. \A n \in Nat : n \in 0 .. n
    OBVIOUS
  <2> QED BY <1>1, <2>1
<1>3. f[0] = a
  BY <1>1 DEF Goes
<1>4. ASSUME NEW k \in Nat PROVE f[k + 1] = step[k + 1][f[k]]
  <2>1. /\ k + 1 \in Nat /\ k + 1 \in 1 .. k + 1 /\ (k + 1) - 1 = k /\ k <= k + 1
    OBVIOUS
  <2>2. Goes(G(k + 1), k + 1, a, step) /\ Goes(G(k), k, a, step)
    BY <1>1, <2>1
  <2>3. G(k + 1)[k + 1] = step[k + 1][G(k + 1)[k]]
    BY <2>1, <2>2, Zenon DEF Goes
  <2>4. G(k)[k] = G(k + 1)[k]
    BY <2>1, <2>2, GoesOneWay
  <2>5. f[k + 1] = G(k + 1)[k + 1] /\ f[k] = G(k)[k]
    BY <2>1
  <2> QED BY <2>3, <2>4, <2>5
<1> HIDE DEF f
<1>5. ASSUME NEW n \in Nat PROVE Goes(f, n, a, step)
  <2> SUFFICES ASSUME NEW k \in 1 .. n PROVE f[k] = step[k][f[k - 1]]
    BY <1>3 DEF Goes
  <2>1. k - 1 \in Nat /\ (k - 1) + 1 = k
    OBVIOUS
  <2> QED BY <1>4, <2>1
<1> QED
  BY <1>2, <1>5

=============================================================================
