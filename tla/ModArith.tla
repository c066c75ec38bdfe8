------------------------------ MODULE ModArith ------------------------------
(***************************************************************************)
(* Facts about remainders.  The provers know what x % m is for a literal m *)
(* only, so what the proofs need for a parameter m is proved here.         *)
(***************************************************************************)
EXTENDS Integers, TLAPS

(* The quotient and the remainder of an integer.                           *)
LEMMA DivMod ==
  ASSUME NEW m \in Nat \ {0}, NEW x \in Int
  PROVE  /\ x % m \in 0 .. m - 1
         /\ x \div m \in Int
         /\ x = m * (x \div m) + (x % m)
  BY SMTT(30)

(* A multiple of m lies strictly between -m and m only at zero.            *)
LEMMA SmallMultiple ==
  ASSUME NEW m \in Nat \ {0}, NEW q \in Int, -m < m * q, m * q < m
  PROVE  q = 0
<1>1. CASE q >= 1
  BY <1>1, m * q >= m, SMTT(30)
<1>2. CASE q <= -1
  BY <1>2, m * q <= -m, SMTT(30)
<1> QED
  BY <1>1, <1>2

(* The remainder is the only number of its range that differs from x by a  *)
(* multiple of m.                                                          *)
LEMMA ModUnique ==
  ASSUME NEW m \in Nat \ {0}, NEW x \in Int, NEW q \in Int,
         NEW r \in 0 .. m - 1, x = m * q + r
  PROVE  x % m = r
<1> DEFINE p == x \div m
           s == x % m
<1>1. /\ s \in 0 .. m - 1 /\ p \in Int /\ x = m * p + s
  BY DivMod
<1> HIDE DEF p, s
<1>2. m * (p - q) = r - s
  BY <1>1, SMTT(30)
<1>3. -m < m * (p - q) /\ m * (p - q) < m
  BY <1>1, <1>2
<1>4. p - q = 0
  BY <1>1, <1>3, SmallMultiple
<1>5. r = s
  BY <1>1, <1>2, <1>4
<1> QED
  BY <1>5 DEF s

(* Reducing before adding changes nothing.                                 *)
LEMMA ModAdd ==
  ASSUME NEW m \in Nat \ {0}, NEW x \in Int, NEW y \in Int
  PROVE  ((x % m) + y) % m = (x + y) % m
<1> DEFINE p == x \div m
           s == x % m
           q == (s + y) \div m
           r == (s + y) % m
<1>1. /\ s \in 0 .. m - 1 /\ p \in Int /\ x = m * p + s
  BY DivMod
<1>2. s + y \in Int
  BY <1>1
<1>3. /\ r \in 0 .. m - 1 /\ q \in Int /\ s + y = m * q + r
  BY <1>2, DivMod
<1> HIDE DEF p, s, q, r
<1>4. x + y = m * (p + q) + r
  BY <1>1, <1>3, SMTT(30)
<1>5. x + y \in Int /\ p + q \in Int
  BY <1>1, <1>3
<1>6. (x + y) % m = r
  BY <1>3, <1>4, <1>5, ModUnique
<1> QED
  BY <1>6 DEF r, s

(* A number of the range is its own remainder.                             *)
LEMMA ModSmall ==
  ASSUME NEW m \in Nat \ {0}, NEW x \in 0 .. m - 1
  PROVE  x % m = x
<1>1. x = m * 0 + x
  OBVIOUS
<1> QED
  BY <1>1, ModUnique

(* Reducing both sides before subtracting changes nothing.                 *)
LEMMA ModDifference ==
  ASSUME NEW m \in Nat \ {0}, NEW x \in Int, NEW y \in Int
  PROVE  ((x % m) - (y % m)) % m = (x - y) % m
<1> DEFINE p == x \div m
           s == x % m
           q == y \div m
           t == y % m
           u == (s - t) \div m
           r == (s - t) % m
<1>1. /\ s \in 0 .. m - 1 /\ p \in Int /\ x = m * p + s
      /\ t \in 0 .. m - 1 /\ q \in Int /\ y = m * q + t
  BY DivMod
<1>2. s - t \in Int
  BY <1>1
<1>3. /\ r \in 0 .. m - 1 /\ u \in Int /\ s - t = m * u + r
  BY <1>2, DivMod
<1> HIDE DEF p, s, q, t, u, r
<1>4. x - y = m * (p - q + u) + r
  BY <1>1, <1>3, SMTT(30)
<1>5. x - y \in Int /\ p - q + u \in Int
  BY <1>1, <1>3
<1>6. (x - y) % m = r
  BY <1>3, <1>4, <1>5, ModUnique
<1> QED
  BY <1>6 DEF r, s, t

(* Numbers less than m apart have different remainders.                    *)
LEMMA ModDistinct ==
  ASSUME NEW m \in Nat \ {0}, NEW x \in Int, NEW y \in Int,
         x < y, y - x < m
  PROVE  x % m # y % m
<1> SUFFICES ASSUME x % m = y % m PROVE FALSE
  OBVIOUS
<1> DEFINE p == x \div m
           q == y \div m
           s == x % m
<1>1. /\ s \in 0 .. m - 1 /\ p \in Int /\ x = m * p + s
      /\ q \in Int /\ y = m * q + s
  BY DivMod
<1> HIDE DEF p, q, s
<1>2. y - x = m * (q - p)
  BY <1>1, SMTT(30)
<1>3. q - p \in Int /\ -m < m * (q - p) /\ m * (q - p) < m
  BY <1>1, <1>2
<1>4. q - p = 0
  BY <1>3, SmallMultiple
<1> QED
  BY <1>1, <1>2, <1>4

(* What a counter of m values tells of two numbers less than a period      *)
(* apart: how many lie between them.                                       *)
LEMMA CounterDistance ==
  ASSUME NEW m \in Nat \ {0}, NEW x \in Int, NEW y \in Int, x - y \in 1 .. m
  PROVE  ((x % m) - (y % m) - 1) % m = x - y - 1
<1> DEFINE a == x % m
           b == y % m
           d == x - y
<1>1. a \in Int /\ b \in Int
  BY DivMod
<1>2. (a - b) % m = d % m
  BY ModDifference
<1> HIDE DEF a, b
<1>3. d \in Int /\ -1 \in Int /\ a - b \in Int
  BY <1>1
<1>4. (((a - b) % m) + (-1)) % m = ((a - b) + (-1)) % m
  BY ONLY <1>3, ModAdd, m \in Nat \ {0}
<1> HIDE DEF d
<1>5. ((d % m) + (-1)) % m = (d + (-1)) % m
  BY ONLY <1>3, ModAdd, m \in Nat \ {0}
<1>6. d + (-1) \in 0 .. m - 1
  BY <1>3 DEF d
<1>7. (d + (-1)) % m = d + (-1)
  BY ONLY <1>6, ModSmall, m \in Nat \ {0}
<1>8. (a - b) + (-1) = a - b - 1 /\ d + (-1) = x - y - 1
  BY <1>1 DEF d
<1> QED
  BY <1>2, <1>4, <1>5, <1>7, <1>8 DEF a, b

(* The row and the column of a position in an array of rows of length n.   *)
LEMMA RowColumn ==
  ASSUME NEW n \in Nat \ {0}, NEW c \in Nat, NEW s \in 0 .. n - 1
  PROVE  (c * n + s) \div n = c /\ (c * n + s) % n = s
<1> DEFINE x == c * n + s
           d == x \div n
<1>1. x \in Int /\ x = n * c + s
  OBVIOUS
<1>2. x % n = s
  BY <1>1, ModUnique
<1>3. d \in Int /\ x = n * d + s
  BY <1>1, <1>2, DivMod
<1> HIDE DEF x, d
<1>4. n * (d - c) = 0
  BY <1>1, <1>3, SMTT(30)
<1>5. d - c \in Int /\ -n < n * (d - c) /\ n * (d - c) < n
  BY <1>3, <1>4
<1>6. d - c = 0
  BY <1>5, SmallMultiple
<1>7. d = c
  BY <1>3, <1>6
<1> QED
  BY <1>2, <1>7 DEF d, x

(* The quotient is the only one with a remainder of the range.             *)
LEMMA DivUnique ==
  ASSUME NEW m \in Nat \ {0}, NEW x \in Int, NEW q \in Int,
         NEW r \in 0 .. m - 1, x = m * q + r
  PROVE  x \div m = q
<1> DEFINE d == x \div m
<1>1. x % m = r
  BY ModUnique
<1>2. d \in Int /\ x = m * d + r
  BY <1>1, DivMod
<1> HIDE DEF d
<1>3. m * (d - q) = 0
  BY <1>2, SMTT(30)
<1>4. d - q \in Int /\ -m < m * (d - q) /\ m * (d - q) < m
  BY <1>2, <1>3
<1>5. d - q = 0
  BY <1>4, SmallMultiple
<1> QED
  BY <1>2, <1>5 DEF d

(* Counting one further moves the remainder, or else the quotient.         *)
LEMMA NextDivMod ==
  ASSUME NEW m \in Nat \ {0}, NEW n \in Nat
  PROVE  /\ n \div m \in Nat /\ n % m \in 0 .. m - 1 /\ n = m * (n \div m) + (n % m)
         /\ (n % m) + 1 < m => (n + 1) % m = (n % m) + 1 /\ (n + 1) \div m = n \div m
         /\ ~((n % m) + 1 < m) => /\ (n + 1) % m = 0 /\ (n + 1) \div m = (n \div m) + 1
                                  /\ (n % m) + 1 = m
<1> DEFINE q == n \div m
           r == n % m
<1>1. q \in Int /\ r \in 0 .. m - 1 /\ n = m * q + r
  BY n \in Int, DivMod
<1> HIDE DEF q, r
<1>2. q >= 0
  <2> SUFFICES ASSUME q <= -1 PROVE FALSE
    BY <1>1
  <2>1. m * q <= -m
    BY <1>1, SMTT(30)
  <2> QED
    BY <1>1, <2>1
<1>3. ASSUME r + 1 < m PROVE (n + 1) % m = r + 1 /\ (n + 1) \div m = q
  <2>1. n + 1 = m * q + (r + 1) /\ r + 1 \in 0 .. m - 1 /\ n + 1 \in Int
    BY <1>1, <1>3
  <2> QED
    BY <1>1, <2>1, ModUnique, DivUnique
<1>4. ASSUME ~(r + 1 < m) PROVE (n + 1) % m = 0 /\ (n + 1) \div m = q + 1 /\ r + 1 = m
  <2>1. r + 1 = m
    BY <1>1, <1>4
  <2>2. m * (q + 1) = m * q + m
    BY <1>1, SMTT(30)
  <2>3. n + 1 = m * (q + 1) + 0 /\ 0 \in 0 .. m - 1 /\ n + 1 \in Int /\ q + 1 \in Int
    BY <1>1, <2>1, <2>2
  <2> QED
    BY <2>1, <2>3, ModUnique, DivUnique
<1> QED
  BY <1>1, <1>2, <1>3, <1>4 DEF q, r

(* Products keep the order of their factors.                               *)
LEMMA ProductOrder ==
  ASSUME NEW m \in Nat, NEW x \in Int, NEW y \in Int, x <= y
  PROVE  x * m <= y * m
<1>1. (y - x) * m >= 0
  BY y - x \in Nat, SMTT(30)
<1>2. (y - x) * m = y * m - x * m
  BY SMTT(30)
<1>3. y * m \in Int /\ x * m \in Int
  OBVIOUS
<1> QED
  BY <1>1, <1>2, <1>3

(* A quotient lies where its dividend lies between multiples.              *)
LEMMA DivAbove ==
  ASSUME NEW m \in Nat \ {0}, NEW x \in Int, NEW q \in Int, q * m <= x
  PROVE  q <= x \div m
<1> DEFINE d == x \div m
           r == x % m
<1>1. d \in Int /\ r \in 0 .. m - 1 /\ x = m * d + r
  BY DivMod
<1> HIDE DEF d, r
<1>2. q <= d
  <2> SUFFICES ASSUME d + 1 <= q PROVE FALSE
    BY <1>1
  <2>1. (d + 1) * m <= q * m
    BY <1>1, ProductOrder
  <2>2. (d + 1) * m = m * d + m /\ m * d \in Int /\ q * m \in Int
    BY <1>1, SMTT(30)
  <2> QED
    BY <1>1, <2>1, <2>2
<1> QED
  BY <1>2 DEF d

(* The same from above.                                                    *)
LEMMA DivBelow ==
  ASSUME NEW m \in Nat \ {0}, NEW x \in Int, NEW q \in Int, x <= q * m
  PROVE  x \div m <= q
<1> DEFINE d == x \div m
           r == x % m
<1>1. d \in Int /\ r \in 0 .. m - 1 /\ x = m * d + r
  BY DivMod
<1> HIDE DEF d, r
<1>2. d <= q
  <2> SUFFICES ASSUME q + 1 <= d PROVE FALSE
    BY <1>1
  <2>1. (q + 1) * m <= d * m
    BY <1>1, ProductOrder
  <2>2. (q + 1) * m = q * m + m /\ d * m = m * d /\ m * d \in Int /\ q * m \in Int
    BY <1>1, SMTT(30)
  <2> QED
    BY <1>1, <2>1, <2>2
<1> QED
  BY <1>2 DEF d

(* Quotients by the same number keep the order.                            *)
LEMMA DivOrder ==
  ASSUME NEW m \in Nat \ {0}, NEW x \in Int, NEW y \in Int, x <= y
  PROVE  x \div m <= y \div m
<1> DEFINE d == x \div m
<1>1. d \in Int /\ x % m \in 0 .. m - 1 /\ x = m * d + (x % m)
  BY DivMod
<1> HIDE DEF d
<1>2. d * m = m * d /\ m * d \in Int
  BY <1>1
<1>3. d * m <= y
  BY <1>1, <1>2
<1>4. d <= y \div m
  BY <1>1, <1>3, DivAbove
<1> QED
  BY <1>4 DEF d
=============================================================================
