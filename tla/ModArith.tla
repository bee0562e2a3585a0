------------------------------ MODULE ModArith ------------------------------
(***************************************************************************)
(* Facts about the remainder that ring buffers with free-running indices    *)
(* rest on, for every modulus.  Nothing here is about a particular ring.    *)
(***************************************************************************)
EXTENDS Integers, TLAPS

\* A remainder is a cell of the ring: `idx % size` of hif_fifo.c stays in the buffer.
LEMMA ModRange ==
  ASSUME NEW a \in Int, NEW m \in Nat \ {0}
  PROVE  a % m \in 0..(m - 1)
  BY SMT

\* The same, as the type of a stored index.
LEMMA ModNat ==
  ASSUME NEW a \in Int, NEW m \in Nat \ {0}
  PROVE  a % m \in Nat
  BY ModRange, SMT

\* Division with remainder.
LEMMA ModDiv ==
  ASSUME NEW a \in Int, NEW m \in Nat \ {0}
  PROVE  (a \div m) \in Int /\ a = m * (a \div m) + (a % m)
  BY SMT

\* A positive multiple of m is no less than m (used to compare whole laps).
LEMMA MulAtLeast ==
  ASSUME NEW k \in Int, NEW m \in Nat \ {0}, k >= 1
  PROVE  m * k >= m
  BY SMT

\* A negative multiple of m is no more than -m.
LEMMA MulAtMost ==
  ASSUME NEW k \in Int, NEW m \in Nat \ {0}, k <= -1
  PROVE  m * k <= -m
  BY SMT

\* Two positions less than one lap apart that fall on the same cell are the same.
LEMMA RemainderUnique ==
  ASSUME NEW q \in Int, NEW p \in Int, NEW m \in Nat \ {0},
         NEW r \in 0..(m - 1), NEW s \in 0..(m - 1),
         m * q + r = m * p + s
  PROVE  r = s
<1>1. m * (q - p) = s - r
  BY SMT
<1>2. CASE q - p >= 1
  BY <1>1, <1>2, MulAtLeast, SMT
<1>3. CASE q - p <= -1
  BY <1>1, <1>3, MulAtMost, SMT
<1>4. CASE q = p
  BY <1>1, <1>4, SMT
<1>5. QED
  BY <1>2, <1>3, <1>4, SMT

\* The remainder of a number already written as laps plus a rest.
LEMMA ModOfSum ==
  ASSUME NEW q \in Int, NEW m \in Nat \ {0}, NEW r \in 0..(m - 1)
  PROVE  (m * q + r) % m = r
<1> DEFINE a == m * q + r
<1>1. a \in Int
  BY SMT
<1>2. /\ (a \div m) \in Int /\ a % m \in 0..(m - 1)
      /\ a = m * (a \div m) + (a % m)
  BY <1>1, ModDiv, ModRange
<1>3. m * q + r = m * (a \div m) + (a % m)
  BY <1>2
<1> HIDE DEF a
<1>4. r = a % m
  BY <1>2, <1>3, RemainderUnique
<1>5. QED
  BY <1>4 DEF a

\* Adding to an index that has wrapped is adding to the index that has not.
LEMMA ModAdd ==
  ASSUME NEW a \in Int, NEW b \in Int, NEW m \in Nat \ {0}
  PROVE  ((a % m) + b) % m = (a + b) % m
<1> DEFINE c  == (a % m) + b
           qa == a \div m
           qc == c \div m
           rc == c % m
<1>1. a = m * qa + (a % m) /\ qa \in Int /\ a % m \in Int
  BY ModDiv, ModRange
<1>2. c \in Int
  BY <1>1, SMT
<1>3. c = m * qc + rc /\ qc \in Int /\ rc \in 0..(m - 1)
  BY <1>2, ModDiv, ModRange
<1>4. a + b = m * qa + c
  BY <1>1, SMT
<1> HIDE DEF c, qa, qc, rc
<1>5. a + b = m * (qa + qc) + rc
  BY <1>1, <1>3, <1>4, SMT
<1>6. qa + qc \in Int
  BY <1>1, <1>3
<1>7. (m * (qa + qc) + rc) % m = rc
  BY <1>3, <1>6, ModOfSum
<1>8. QED
  BY <1>5, <1>7 DEF rc, c

\* When the ring size divides the range of the index, the wrap of the index does not
\* show in the cell: (a % 2^32) % size = a % size.
LEMMA ModOfMod ==
  ASSUME NEW a \in Int, NEW n \in Nat \ {0}, NEW m \in Nat \ {0}, m % n = 0
  PROVE  (a % m) % n = a % n
<1> DEFINE k  == m \div n
           qa == a \div m
           r  == a % m
<1>1. k \in Int /\ m = n * k
  BY ModDiv, SMT
<1>2. a = m * qa + r /\ qa \in Int /\ r \in Int
  BY ModDiv, ModRange
<1> DEFINE qr == r \div n
           rr == r % n
<1>3. r = n * qr + rr /\ qr \in Int /\ rr \in 0..(n - 1)
  BY <1>2, ModDiv, ModRange
<1> HIDE DEF k, qa, r, qr, rr
<1>4. k * qa \in Int
  BY <1>1, <1>2, SMT
<1>5. m * qa = n * (k * qa)
  BY <1>1, <1>2, SMT
<1>6. a = n * (k * qa + qr) + rr
  BY <1>2, <1>3, <1>4, <1>5, SMT
<1>7. k * qa + qr \in Int
  BY <1>3, <1>4
<1>8. (n * (k * qa + qr) + rr) % n = rr
  BY <1>3, <1>7, ModOfSum
<1>9. QED
  BY <1>6, <1>8 DEF rr, r

\* Two positions that differ by less than a lap use different cells.
LEMMA ModDistinct ==
  ASSUME NEW a \in Int, NEW d \in Int, NEW n \in Nat \ {0}, 0 < d, d < n
  PROVE  (a + d) % n # a % n
<1>1. SUFFICES ASSUME (a + d) % n = a % n PROVE FALSE
  OBVIOUS
<1> DEFINE q == a \div n
           p == (a + d) \div n
           r == a % n
<1>2. a = n * q + r /\ q \in Int /\ r \in Int
  BY ModDiv, ModRange
<1>3. a + d \in Int
  OBVIOUS
<1>4. a + d = n * p + r /\ p \in Int
  BY <1>1, <1>3, ModDiv
<1> HIDE DEF q, p, r
<1>5. d = n * (p - q)
  BY <1>2, <1>4, SMT
<1>6. CASE p - q >= 1
  BY <1>2, <1>4, <1>5, <1>6, MulAtLeast, SMT
<1>7. CASE p - q <= -1
  BY <1>2, <1>4, <1>5, <1>7, MulAtMost, SMT
<1>8. CASE p = q
  BY <1>2, <1>4, <1>5, <1>8, SMT
<1>9. QED
  BY <1>2, <1>4, <1>6, <1>7, <1>8, SMT

\* A number below the modulus is its own remainder.
LEMMA ModSmall ==
  ASSUME NEW m \in Nat \ {0}, NEW r \in 0..(m - 1)
  PROVE  r % m = r
<1>1. m * 0 + r = r
  BY SMT
<1>2. (m * 0 + r) % m = r
  BY ModOfSum
<1>3. QED
  BY <1>1, <1>2

\* Subtracting a wrapped position is subtracting the one that has not wrapped.
LEMMA ModSub ==
  ASSUME NEW a \in Int, NEW b \in Int, NEW m \in Nat \ {0}
  PROVE  (a - (b % m)) % m = (a - b) % m
<1> DEFINE q == b \div m
           r == b % m
           c == a - b
           p == c \div m
           t == c % m
<1>1. q \in Int /\ r \in Int /\ b = m * q + r
  BY ModDiv, ModRange
<1>2. c \in Int /\ c = a - b
  OBVIOUS
<1>3. p \in Int /\ t \in 0..(m - 1) /\ c = m * p + t
  BY <1>2, ModDiv, ModRange
<1> HIDE DEF q, r, c, p, t
<1>4. a - r = m * (p + q) + t
  BY <1>1, <1>2, <1>3, SMT
<1>5. p + q \in Int
  BY <1>1, <1>3
<1>6. (m * (p + q) + t) % m = t
  BY <1>3, <1>5, ModOfSum
<1>7. QED
  BY <1>4, <1>6 DEF r, c, t

\* Counting on by one: the remainder grows by one, or a lap is complete.
LEMMA ModSucc ==
  ASSUME NEW a \in Int, NEW m \in Nat \ {0}
  PROVE  IF (a + 1) % m = 0 THEN a % m = m - 1 ELSE (a + 1) % m = (a % m) + 1
<1> DEFINE q == a \div m
           r == a % m
<1>1. q \in Int /\ r \in 0..(m - 1) /\ a = m * q + r
  BY ModDiv, ModRange
<1> HIDE DEF q, r
<1>2. CASE r = m - 1
  <2>1. a + 1 = m * (q + 1) + 0
    BY <1>1, <1>2, SMT
  <2>2. q + 1 \in Int /\ 0 \in 0..(m - 1)
    BY <1>1
  <2>3. (m * (q + 1) + 0) % m = 0
    BY <2>2, ModOfSum
  <2>4. QED
    BY <1>2, <2>1, <2>3 DEF r
<1>3. CASE r # m - 1
  <2>1. a + 1 = m * q + (r + 1)
    BY <1>1, SMT
  <2>2. r + 1 \in 0..(m - 1) /\ r + 1 # 0
    BY <1>1, <1>3
  <2>3. (m * q + (r + 1)) % m = r + 1
    BY <1>1, <2>2, ModOfSum
  <2>4. (a + 1) % m = r + 1
    BY <2>1, <2>3
  <2>5. QED
    BY <2>2, <2>4 DEF r
<1>4. QED
  BY <1>2, <1>3
=============================================================================
