------------------------------ MODULE ModArith ------------------------------
(***************************************************************************)
(* Remainders, for the proofs about TTIs (a hyperframe starts again at 0), *)
(* the HARQ process of a TTI and the semaphores of the PHY workers; and    *)
(* products and least numbers.                                             *)
(***************************************************************************)
EXTENDS Integers, NaturalsInduction, WellFoundedInduction, TLAPS

LEMMA ModRange == \A a \in Nat, m \in Nat \ {0} : a % m \in 0 .. m - 1
  OBVIOUS

LEMMA Quotient ==
  \A a \in Nat, m \in Nat \ {0} :
    a = m * (a \div m) + (a % m) /\ a \div m \in Nat /\ a % m \in 0 .. m - 1
  OBVIOUS

LEMMA Remainder ==
  ASSUME NEW k \in Nat \ {0}, NEW q \in Nat, NEW y \in 0 .. k - 1
  PROVE  (k * q + y) % k = y
  OBVIOUS

LEMMA ModPlus ==
  ASSUME NEW k \in Nat \ {0}, NEW a \in Nat
  PROVE  (a + k) % k = a % k
  <1>1. PICK q \in Nat, y \in 0 .. k - 1 : a = k * q + y /\ a % k = y
    BY Quotient
  <1>2. a + k = k * (q + 1) + y /\ q + 1 \in Nat
    BY <1>1
  <1>3. QED
    BY <1>1, <1>2, Remainder

LEMMA ModMod ==
  ASSUME NEW k \in Nat \ {0}, NEW m \in Nat \ {0}, m % k = 0, NEW a \in Nat
  PROVE  (a % m) % k = a % k
  <1>1. PICK d \in Nat, r \in 0 .. m - 1 : a = m * d + r /\ a % m = r
    BY Quotient
  <1>2. PICK l \in Nat : m = k * l
    <2>1. m = k * (m \div k) + (m % k) /\ m \div k \in Nat
      BY Quotient
    <2>2. m = k * (m \div k)
      BY <2>1
    <2>3. QED
      BY <2>1, <2>2
  <1>3. r \in Nat
    OBVIOUS
  <1>4. PICK q \in Nat, y \in 0 .. k - 1 : r = k * q + y /\ r % k = y
    BY <1>3, Quotient
  <1>5. m * d = k * (l * d) /\ l * d \in Nat
    BY <1>2
  <1>6. a = k * (l * d + q) + y /\ l * d + q \in Nat
    BY <1>1, <1>4, <1>5
  <1>7. a % k = y
    BY <1>6, Remainder
  <1>8. QED
    BY <1>1, <1>4, <1>7

LEMMA ModDistinct ==
  ASSUME NEW k \in Nat \ {0}, NEW a \in Nat, NEW d \in 1 .. k - 1
  PROVE  (a + d) % k # a % k
  <1>1. PICK q \in Nat, y \in 0 .. k - 1 : a = k * q + y /\ a % k = y
    BY Quotient
  <1>2. CASE y + d < k
    <2>1. a + d = k * q + (y + d) /\ y + d \in 0 .. k - 1
      BY <1>1, <1>2
    <2>2. (a + d) % k = y + d
      BY <2>1, Remainder
    <2>3. QED
      BY <1>1, <2>2
  <1>3. CASE ~(y + d < k)
    <2>1. a + d = k * (q + 1) + (y + d - k) /\ y + d - k \in 0 .. k - 1 /\ q + 1 \in Nat
      BY <1>1, <1>3
    <2>2. (a + d) % k = y + d - k
      BY <2>1, Remainder
    <2>3. QED
      BY <1>1, <2>2
  <1>4. QED
    BY <1>2, <1>3

LEMMA ModAdd ==
  ASSUME NEW k \in Nat \ {0}, NEW a \in Nat, NEW d \in Nat
  PROVE  ((a % k) + d) % k = (a + d) % k
  <1>1. PICK q \in Nat, y \in 0 .. k - 1 : a = k * q + y /\ a % k = y
    BY Quotient
  <1>2. y + d \in Nat
    OBVIOUS
  <1>3. PICK r \in Nat, z \in 0 .. k - 1 : y + d = k * r + z /\ (y + d) % k = z
    BY <1>2, Quotient
  <1>4. a + d = k * (q + r) + z /\ q + r \in Nat
    <2>1. k * q + k * r = k * (q + r)
      OBVIOUS
    <2>2. a + d = k * q + k * r + z
      BY <1>1, <1>3
    <2>3. QED
      BY <2>1, <2>2
  <1>5. \A c \in Nat : (k * c + z) % k = z
    BY Remainder
  <1>6. QED
    BY <1>1, <1>3, <1>4, <1>5

\* What the searches of the code find: every set of numbers has a least one.
LEMMA LeastNat ==
  ASSUME NEW T \in SUBSET Nat, T # {}
  PROVE  \E n \in T : \A m \in T : n <= m
  <1> DEFINE R == OpToRel(<, Nat)
  <1>1. \A x, y \in Nat : <<y, x>> \in R <=> y < x
    BY DEF OpToRel
  <1>2. IsWellFoundedOn(R, Nat)
    BY NatLessThanWellFounded
  <1> HIDE DEF R
  <1>3. PICK n \in T : \A m \in T : ~(<<m, n>> \in R)
    BY <1>2, WFMin
  <1>4. \A m \in T : ~(m < n)
    BY <1>1, <1>3, Zenon
  <1>5. QED
    BY <1>4

\* Products of naturals, and their order.
LEMMA Multiples ==
  ASSUME NEW k \in Nat, NEW a \in Nat, NEW b \in Nat
  PROVE  /\ k * a \in Nat /\ k * (a + b) = k * a + k * b /\ (k + 1) * a = k * a + a
         /\ a <= b => k * a <= k * b
  <1>1. k * a \in Nat /\ k * (a + b) = k * a + k * b /\ (k + 1) * a = k * a + a
    OBVIOUS
  <1>2. ASSUME a <= b PROVE k * a <= k * b
    <2>1. PICK d \in Nat : b = a + d
      <3>1. b - a \in Nat /\ b = a + (b - a)
        BY <1>2
      <3> QED
        BY <3>1
    <2>2. k * b = k * a + k * d /\ k * d \in Nat
      BY <2>1
    <2> QED
      BY <1>1, <2>2
  <1> QED
    BY <1>1, <1>2

\* A set of numbers up to m that has 0, and with each number below m the next, has them all.
LEMMA UpTo ==
  ASSUME NEW m \in Nat, NEW S, 0 \in S, \A n \in 0 .. m - 1 : n \in S => n + 1 \in S
  PROVE  0 .. m \subseteq S
  <1> DEFINE T == {n \in 0 .. m : n \notin S}
  <1> SUFFICES ASSUME T # {} PROVE FALSE
    OBVIOUS
  <1>1. T \in SUBSET Nat
    OBVIOUS
  <1>2. PICK n \in T : \A k \in T : n <= k
    BY <1>1, LeastNat
  <1>3. n # 0 /\ n \in 0 .. m /\ n \notin S
    BY <1>2
  <1>4. n - 1 \in 0 .. m - 1 /\ n - 1 \notin T
    BY <1>2, <1>3
  <1>5. QED
    BY <1>3, <1>4

=============================================================================
