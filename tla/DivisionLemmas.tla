----------------------------- MODULE DivisionLemmas -----------------------------
(***************************************************************************)
(* Quotients and remainders, as sequence numbers, timestamps and frame     *)
(* numbers need them: the solver knows division only by constants.         *)
(***************************************************************************)
EXTENDS Integers, TLAPS

\* Quotient and remainder of a natural number.
LEMMA NaturalParts ==
    ASSUME NEW a \in Nat
    PROVE  \A r \in Nat \ {0} : /\ a \div r \in Nat /\ a % r \in 0..(r - 1)
                                /\ a = (a \div r) * r + (a % r)
BY Z3

\* Products of integers.
LEMMA Products ==
    ASSUME NEW p \in Int, NEW q \in Int, NEW r \in Int
    PROVE  /\ p * r \in Int /\ q * r \in Int
           /\ (p + q) * r = p * r + q * r /\ (p - q) * r = p * r - q * r
           /\ (-q) * r = -(q * r) /\ (-1 - q) * r = -r - q * r
           /\ 0 * r = 0
           /\ r >= 0 /\ p + 1 <= q => p * r + r <= q * r
BY Z3

\* What division yields is determined.
LEMMA PartsUnique ==
    ASSUME NEW q \in Int, NEW r \in Nat \ {0}, NEW u \in 0..(r - 1)
    PROVE  (q * r + u) % r = u /\ (q * r + u) \div r = q
BY Z3

\* Quotient and remainder of any integer.
LEMMA Parts ==
    ASSUME NEW a \in Int, NEW r \in Nat \ {0}
    PROVE  /\ a \div r \in Int /\ a % r \in 0..(r - 1)
           /\ a = (a \div r) * r + (a % r)
<1>1. CASE a \in Nat
  BY <1>1, NaturalParts
<1>2. CASE a \notin Nat
  <2> DEFINE b == -a - 1
             q == b \div r
             u == b % r
  <2>1. b \in Nat
    BY <1>2
  <2>2. q \in Int /\ u \in 0..(r - 1) /\ b = q * r + u
    BY <2>1, NaturalParts
  <2> HIDE DEF q, u
  <2>3. (-1 - q) * r = -r - q * r /\ q * r \in Int /\ -1 - q \in Int
    BY <2>2, Products
  <2>4. r - 1 - u \in 0..(r - 1)
    BY <2>2
  <2>5. a = (-1 - q) * r + (r - 1 - u)
    BY <2>2, <2>3
  <2>6. a % r = r - 1 - u /\ a \div r = -1 - q
    BY <2>3, <2>4, <2>5, PartsUnique
  <2> QED
    BY <2>3, <2>4, <2>5, <2>6
<1> QED
  BY <1>1, <1>2

\* Remainders do not see multiples.
LEMMA MultipleVanishes ==
    ASSUME NEW a \in Int, NEW k \in Int, NEW r \in Nat \ {0}
    PROVE  (a + k * r) % r = a % r
<1> DEFINE q == a \div r
           u == a % r
<1>1. q \in Int /\ u \in 0..(r - 1) /\ a = q * r + u
  BY Parts
<1> HIDE DEF q, u
<1>2. a + k * r = (q + k) * r + u /\ q + k \in Int
  BY <1>1, Products
<1>3. ((q + k) * r + u) % r = u /\ (q * r + u) % r = u
  BY <1>1, <1>2, PartsUnique
<1> QED
  BY <1>1, <1>2, <1>3

\* Nor one turn.
LEMMA OnceRound ==
    ASSUME NEW a \in Int, NEW r \in Nat \ {0}, NEW b, b = a + r
    PROVE  b % r = a % r
<1> DEFINE k == 1
<1>1. k \in Int /\ k * r = r
  BY Products
<1> HIDE DEF k
<1>2. (a + k * r) % r = a % r
  BY <1>1, MultipleVanishes
<1> QED
  BY <1>1, <1>2

\* A small number is its own remainder.
LEMMA SmallRemainder ==
    ASSUME NEW r \in Nat \ {0}, NEW u \in 0..(r - 1)
    PROVE  u % r = u
<1>1. (0 * r + u) % r = u
  BY PartsUnique
<1> QED
  BY <1>1, Products

\* From the sequence number of packet b to that of packet a.
LEMMA SequenceDistance ==
    ASSUME NEW a \in Int, NEW b \in Int, NEW r \in Nat \ {0}
    PROVE  LET d == ((a % r) - ((b % r) + 1)) % r
           IN  /\ d \in 0..(r - 1)
               /\ \E k \in Int : d = a - b - 1 + k * r
               /\ a - b - 1 \in 0..(r - 1) => d = a - b - 1
<1> DEFINE p == a \div r
           u == a % r
           q == b \div r
           v == b % r
           x == u - (v + 1)
           j == x \div r
           d == x % r
<1>1. p \in Int /\ u \in 0..(r - 1) /\ a = p * r + u
  BY Parts
<1>2. q \in Int /\ v \in 0..(r - 1) /\ b = q * r + v
  BY Parts
<1> HIDE DEF p, u, q, v
<1>3. x \in Int
  BY <1>1, <1>2
<1>4. j \in Int /\ d \in 0..(r - 1) /\ x = j * r + d
  BY <1>3, Parts
<1> HIDE DEF j
<1> DEFINE k == q - p - j
<1>5. a - b - 1 = x + (p - q) * r
  BY <1>1, <1>2, Products
<1>6. /\ (p - q) * r = p * r - q * r /\ p * r \in Int /\ q * r \in Int /\ j * r \in Int
      /\ (q - p) * r = q * r - p * r /\ k * r = (q - p) * r - j * r
  <2>1. q - p \in Int
    BY <1>1, <1>2
  <2> QED
    BY <1>1, <1>2, <1>4, <2>1, Products
<1>7. k \in Int /\ d = a - b - 1 + k * r
  BY <1>1, <1>2, <1>3, <1>4, <1>5, <1>6
<1>8. a - b - 1 \in 0..(r - 1) => d = a - b - 1
  <2> SUFFICES ASSUME a - b - 1 \in 0..(r - 1) PROVE d = a - b - 1
    OBVIOUS
  <2> DEFINE y == a - b - 1
  <2>1. y \in Int /\ y % r = y /\ d % r = d
    BY <1>4, SmallRemainder
  <2>2. (y + k * r) % r = y % r
    BY <1>7, <2>1, MultipleVanishes
  <2> QED
    BY <1>7, <2>1, <2>2
<1>9. ((a % r) - ((b % r) + 1)) % r = d
  BY DEF d, x, u, v
<1> HIDE DEF d, k
<1>10. \E i \in Int : d = a - b - 1 + i * r
  BY <1>7
<1> QED
  BY <1>4, <1>8, <1>9, <1>10

\* Quotients keep the order; at the end of a period the next one begins.
LEMMA QuotientOrder ==
    ASSUME NEW a \in Nat, NEW b \in Nat, a < b, NEW r \in Nat \ {0}
    PROVE  /\ a \div r \in Nat /\ b \div r \in Nat /\ a \div r <= b \div r
           /\ a % r = r - 1 => a \div r < b \div r
<1> DEFINE p == a \div r
           u == a % r
           q == b \div r
           v == b % r
<1>1. p \in Nat /\ u \in 0..(r - 1) /\ a = p * r + u
  BY NaturalParts
<1>2. q \in Nat /\ v \in 0..(r - 1) /\ b = q * r + v
  BY NaturalParts
<1> HIDE DEF p, u, q, v
<1>3. /\ p * r \in Int /\ q * r \in Int
      /\ q + 1 <= p => q * r + r <= p * r
  BY <1>1, <1>2, Products
<1>4. p <= q
  BY <1>1, <1>2, <1>3
<1>5. u = r - 1 => p # q
  BY <1>1, <1>2, <1>3
<1>6. p \in Nat /\ q \in Nat /\ p <= q /\ (u = r - 1 => p < q)
  BY <1>1, <1>2, <1>4, <1>5
<1> QED
  BY <1>6 DEF p, q, u
=============================================================================
