----------------------------- MODULE H8writeProofs -----------------------------
(***************************************************************************)
(* The flash writer keeps its types whatever it hears, and the ROM of a    *)
(* 3069 holds nothing but its old contents or blank bytes and the file's:  *)
(* for any file, any sizes of ROM and pages, any answers of the device and *)
(* any number of runs stopped at any byte.                                 *)
(***************************************************************************)
EXTENDS H8writeProperties, SequenceLemmas

-------------------------------------------------------------------------------
(***************************************************************************)
(* Numbers.                                                                *)
(***************************************************************************)
TwoTo(k) == 2^k

LEMMA Doubles == TwoTo(0) = 1 /\ \A k \in 0..15 : TwoTo(k + 1) = 2 * TwoTo(k)
  BY PowerAssumption DEF TwoTo

LEMMA PowerPositive ==
    ASSUME NEW k \in 0..16
    PROVE  TwoTo(k) \in Nat \ {0}
  <1> DEFINE Bad == {i \in 0..16 : TwoTo(i) \notin Nat \ {0}}
  <1> SUFFICES ASSUME Bad # {} PROVE FALSE
    OBVIOUS
  <1>1. Bad \subseteq Nat
    OBVIOUS
  <1>2. PICK i \in Bad : \A j \in Bad : i <= j
    BY <1>1, FirstOf
  <1>3. i # 0 /\ i - 1 \in 0..15 /\ i - 1 \notin Bad
    BY <1>2, Doubles
  <1>4. TwoTo((i - 1) + 1) = 2 * TwoTo(i - 1)
    BY <1>3, Doubles
  <1>5. (i - 1) + 1 = i /\ TwoTo(i - 1) \in Nat \ {0}
    BY <1>2, <1>3
  <1> QED
    BY <1>2, <1>4, <1>5

LEMMA PowerGrows ==
    ASSUME NEW k \in 0..16, NEW l \in 0..16, k < l
    PROVE  TwoTo(k) < TwoTo(l)
  <1> DEFINE Bad == {i \in (k + 1)..16 : ~(TwoTo(k) < TwoTo(i))}
  <1> SUFFICES ASSUME Bad # {} PROVE FALSE
    OBVIOUS
  <1>1. Bad \subseteq Nat
    OBVIOUS
  <1>2. PICK i \in Bad : \A j \in Bad : i <= j
    BY <1>1, FirstOf
  <1>3. i \in (k + 1)..16 /\ i - 1 \in 0..15 /\ i - 1 \in 0..16 /\ (i - 1) + 1 = i
    BY <1>2
  <1>4. i - 1 \notin Bad
    BY <1>2, <1>3
  <1>5. TwoTo(i) = 2 * TwoTo(i - 1)
    BY <1>3, Doubles
  <1>6. TwoTo(i - 1) \in Nat \ {0} /\ TwoTo(k) \in Nat
    BY <1>3, PowerPositive
  <1>7. i - 1 = k \/ TwoTo(k) < TwoTo(i - 1)
    BY <1>3, <1>4
  <1>8. TwoTo(k) < TwoTo(i)
    BY <1>5, <1>6, <1>7
  <1> QED
    BY <1>2, <1>8

LEMMA PowersOfBits ==
    /\ TwoTo(0) = 1 /\ TwoTo(1) = 2 /\ TwoTo(2) = 4 /\ TwoTo(3) = 8 /\ TwoTo(4) = 16
    /\ TwoTo(5) = 32 /\ TwoTo(6) = 64 /\ TwoTo(7) = 128
  <1>1. /\ TwoTo(0 + 1) = 2 * TwoTo(0) /\ TwoTo(1 + 1) = 2 * TwoTo(1)
        /\ TwoTo(2 + 1) = 2 * TwoTo(2) /\ TwoTo(3 + 1) = 2 * TwoTo(3)
        /\ TwoTo(4 + 1) = 2 * TwoTo(4) /\ TwoTo(5 + 1) = 2 * TwoTo(5)
        /\ TwoTo(6 + 1) = 2 * TwoTo(6) /\ TwoTo(0) = 1
    BY Doubles
  <1> QED
    BY <1>1

\* A flipped bit gives another byte.
LEMMA FlipByte ==
    ASSUME NEW c \in Byte, NEW k \in 0..7
    PROVE  Flip(c, k) \in Byte /\ Flip(c, k) # c
  <1> DEFINE m == TwoTo(k)
  <1>1. m \in {1, 2, 4, 8, 16, 32, 64, 128}
    BY PowersOfBits
  <1>2. Flip(c, k) = IF (c \div m) % 2 = 0 THEN c + m ELSE c - m
    BY DEF Flip, TwoTo
  <1> HIDE DEF m
  <1>3. (IF (c \div m) % 2 = 0 THEN c + m ELSE c - m) \in 0..255
    BY <1>1 DEF Byte
  <1>4. c + m # c /\ c - m # c
    BY <1>1 DEF Byte
  <1> QED
    BY <1>2, <1>3, <1>4 DEF Byte

-------------------------------------------------------------------------------
(***************************************************************************)
(* Check sums.                                                             *)
(***************************************************************************)
Bytes == Seq(Byte)

LEMMA AddByte ==
    ASSUME NEW a \in Byte, NEW b \in Byte
    PROVE  ((a + b) % 256) \in Byte
  BY DEF Byte

LEMMA NegByte ==
    ASSUME NEW a \in Byte
    PROVE  ((256 - a) % 256) \in Byte /\ ((a + ((256 - a) % 256)) % 256) = 0
  <1>1. ((256 - a) % 256) = IF a = 0 THEN 0 ELSE 256 - a
    BY DEF Byte
  <1> QED
    BY <1>1 DEF Byte

LEMMA SameAdded ==
    ASSUME NEW a \in Byte, NEW b \in Byte, NEW c \in Byte, ((a + c) % 256) = ((b + c) % 256)
    PROVE  a = b
  <1>1. ((a + c) % 256) = IF a + c < 256 THEN a + c ELSE a + c - 256
    BY DEF Byte
  <1>2. ((b + c) % 256) = IF b + c < 256 THEN b + c ELSE b + c - 256
    BY DEF Byte
  <1> QED
    BY <1>1, <1>2 DEF Byte

LEMMA AddedSame ==
    ASSUME NEW a \in Byte, NEW b \in Byte, NEW c \in Byte, ((c + a) % 256) = ((c + b) % 256)
    PROVE  a = b
  <1>1. c + a = a + c /\ c + b = b + c
    BY DEF Byte
  <1> QED
    BY <1>1, SameAdded

\* The sums of longer and longer beginnings of q.
SumsUpTo(u, q, n) == u = [i \in 0..n |-> IF i = 0 THEN 0 ELSE (u[i - 1] + q[i]) % 256]

LEMMA SumsUpToExist ==
    ASSUME NEW q, NEW n \in Nat
    PROVE  \E u : SumsUpTo(u, q, n)
  <1> DEFINE Bad == {k \in Nat : ~ \E u : SumsUpTo(u, q, k)}
  <1> SUFFICES ASSUME Bad # {} PROVE FALSE
    OBVIOUS
  <1>1. PICK k \in Bad : \A m \in Bad : k <= m
    BY FirstOf
  <1>2. k # 0
    <2>1. SumsUpTo([i \in 0..0 |-> 0], q, 0)
      BY DEF SumsUpTo
    <2> QED
      BY <2>1
  <1>3. k - 1 \in Nat /\ k - 1 \notin Bad
    BY <1>1, <1>2
  <1>4. PICK u : SumsUpTo(u, q, k - 1)
    BY <1>3
  <1> DEFINE step(i) == IF i = 0 THEN 0 ELSE (u[i - 1] + q[i]) % 256
             v == [i \in 0..k |-> step(i)]
  <1>5. \A i \in 0..(k - 1) : v[i] = u[i]
    <2>1. \A i \in 0..(k - 1) : u[i] = step(i)
      BY <1>4 DEF SumsUpTo
    <2> QED
      BY <1>3, <2>1
  <1>6. \A i \in 0..k : v[i] = IF i = 0 THEN 0 ELSE (v[i - 1] + q[i]) % 256
    <2>1. \A i \in 0..k : i # 0 => i - 1 \in 0..(k - 1)
      BY <1>3
    <2> QED
      BY <1>5, <2>1
  <1>7. v = [i \in 0..k |-> IF i = 0 THEN 0 ELSE (v[i - 1] + q[i]) % 256]
    <2>1. v = [i \in 0..k |-> v[i]]
      OBVIOUS
    <2> HIDE DEF v
    <2> QED
      BY <1>6, <2>1
  <1>8. SumsUpTo(v, q, k)
    <2> HIDE DEF v
    <2> QED
      BY <1>7 DEF SumsUpTo
  <1> QED
    BY <1>8

\* The sums of the beginnings of n bytes.
Runs(u, q, n) ==
    /\ \A i \in 0..n : u[i] \in Byte
    /\ \A i \in 1..n : q[i] \in Byte /\ u[i] = (u[i - 1] + q[i]) % 256
Alike(p, q, m, n) == \A i \in (m + 1)..n : p[i] = q[i]

LEMMA SumsExist ==
    ASSUME NEW q \in Bytes
    PROVE  \E u : CheckSum(q) = u[Len(q)] /\ u[0] = 0 /\ Runs(u, q, Len(q))
  <1> DEFINE n == Len(q)
             u == CHOOSE w : SumsUpTo(w, q, n)
  <1>1. n \in Nat /\ \A i \in 1..n : q[i] \in Byte
    BY DEF Bytes
  <1>2. SumsUpTo(u, q, n)
    BY <1>1, SumsUpToExist
  <1> HIDE DEF u
  <1>3. CheckSum(q) = u[n]
    BY DEF CheckSum, SumsUpTo, u
  <1> HIDE DEF n
  <1>4. \A i \in 0..n : u[i] = IF i = 0 THEN 0 ELSE (u[i - 1] + q[i]) % 256
    BY <1>2 DEF SumsUpTo
  <1>5. \A i \in 0..n : u[i] \in Byte
    <2> DEFINE Bad == {i \in 0..n : u[i] \notin Byte}
    <2> SUFFICES ASSUME Bad # {} PROVE FALSE
      OBVIOUS
    <2>1. Bad \subseteq Nat
      OBVIOUS
    <2>2. PICK k \in Bad : \A m \in Bad : k <= m
      BY <2>1, FirstOf
    <2>3. k # 0
      BY <1>4, <2>2 DEF Byte
    <2>4. k \in 0..n /\ k - 1 \in 0..n /\ k \in 1..n /\ k - 1 \notin Bad
      BY <1>1, <2>2, <2>3
    <2>5. u[k - 1] \in Byte /\ q[k] \in Byte /\ u[k] = (u[k - 1] + q[k]) % 256
      BY <1>1, <1>4, <2>3, <2>4
    <2> HIDE DEF Bad
    <2>6. u[k] \in Byte
      BY <2>5, AddByte
    <2> QED
      BY <2>2, <2>6 DEF Bad
  <1>6. /\ 0 \in 0..n /\ \A i \in 1..n : i \in 0..n /\ i # 0
    BY <1>1
  <1>7. u[0] = 0 /\ \A i \in 1..n : u[i] = (u[i - 1] + q[i]) % 256
    BY <1>4, <1>6
  <1>8. Runs(u, q, n)
    BY <1>1, <1>5, <1>7 DEF Runs
  <1> QED
    BY <1>3, <1>7, <1>8 DEF n

LEMMA SumType ==
    ASSUME NEW q \in Bytes
    PROVE  CheckSum(q) \in Byte
  <1>1. PICK u : CheckSum(q) = u[Len(q)] /\ Runs(u, q, Len(q))
    BY SumsExist
  <1>2. Len(q) \in 0..Len(q)
    BY DEF Bytes
  <1> QED
    BY <1>1, <1>2 DEF Runs

\* Sums of bytes that are alike after m meet at the end only if they do at m.
LEMMA SumsMeet ==
    ASSUME NEW n \in Nat, NEW m \in 0..n, NEW u, NEW v, NEW p, NEW q,
           Runs(u, p, n), Runs(v, q, n), Alike(p, q, m, n)
    PROVE  u[n] = v[n] <=> u[m] = v[m]
  <1> DEFINE Bad == {i \in m..n : ~(u[i] = v[i] <=> u[m] = v[m])}
  <1> SUFFICES Bad = {}
    OBVIOUS
  <1> SUFFICES ASSUME Bad # {} PROVE FALSE
    OBVIOUS
  <1>1. Bad \subseteq Nat
    OBVIOUS
  <1>2. PICK k \in Bad : \A i \in Bad : k <= i
    BY <1>1, FirstOf
  <1>3. k # m /\ k \in m..n
    BY <1>2
  <1>4. k - 1 \in m..n /\ k \in (m + 1)..n /\ k \in 1..n /\ k - 1 \in 0..n /\ k - 1 \notin Bad
    BY <1>2, <1>3
  <1>5. u[k - 1] = v[k - 1] <=> u[m] = v[m]
    BY <1>4
  <1> HIDE DEF Bad
  <1>6. /\ u[k] = (u[k - 1] + p[k]) % 256 /\ v[k] = (v[k - 1] + q[k]) % 256 /\ p[k] = q[k]
        /\ u[k - 1] \in Byte /\ v[k - 1] \in Byte /\ p[k] \in Byte
    BY <1>4 DEF Runs, Alike
  <1>8. u[k] = v[k] <=> u[k - 1] = v[k - 1]
    <2>1. u[k - 1] = v[k - 1] => u[k] = v[k]
      BY <1>6
    <2>2. (u[k - 1] + p[k]) % 256 = (v[k - 1] + p[k]) % 256 => u[k - 1] = v[k - 1]
      BY <1>6, SameAdded
    <2> QED
      BY <1>6, <2>1, <2>2
  <1> QED
    BY <1>2, <1>5, <1>8 DEF Bad

\* Sums of the same bytes are the same.
LEMMA SumsSame ==
    ASSUME NEW n \in Nat, NEW u, NEW v, NEW p, NEW q, u[0] = v[0],
           Runs(u, p, n), Runs(v, q, n), Alike(p, q, 0, n)
    PROVE  u[n] = v[n]
  <1>1. 0 \in 0..n
    OBVIOUS
  <1> QED
    BY <1>1, SumsMeet

LEMMA RunsShorter ==
    ASSUME NEW n \in Nat, NEW m \in 0..n, NEW u, NEW q, Runs(u, q, n)
    PROVE  Runs(u, q, m)
  <1>1. (\A i \in 0..m : i \in 0..n) /\ \A i \in 1..m : i \in 1..n
    OBVIOUS
  <1> QED
    BY <1>1 DEF Runs

\* A flipped byte shows in the sum.
LEMMA FlipShows ==
    ASSUME NEW p \in Bytes, NEW q \in Bytes, Len(p) = Len(q), NEW k \in 1..Len(q),
           p[k] # q[k], \A i \in 1..Len(q) : i # k => p[i] = q[i]
    PROVE  CheckSum(p) # CheckSum(q)
  <1> DEFINE n == Len(q)
  <1>1. PICK u : CheckSum(p) = u[Len(p)] /\ u[0] = 0 /\ Runs(u, p, Len(p))
    BY SumsExist
  <1>2. PICK v : CheckSum(q) = v[Len(q)] /\ v[0] = 0 /\ Runs(v, q, Len(q))
    BY SumsExist
  <1>3. /\ n \in Nat /\ k \in 1..n /\ k \in 0..n /\ k - 1 \in 0..n /\ k - 1 \in Nat
        /\ Alike(p, q, 0, k - 1) /\ Alike(p, q, k, n)
    BY DEF Bytes, Alike
  <1>4. CheckSum(p) = u[n] /\ Runs(u, p, n) /\ CheckSum(q) = v[n] /\ Runs(v, q, n)
    BY <1>1, <1>2
  <1> HIDE DEF n
  <1>5. u[k - 1] = v[k - 1]
    <2>1. Runs(u, p, k - 1) /\ Runs(v, q, k - 1)
      BY <1>3, <1>4, RunsShorter
    <2>2. u[0] = v[0]
      BY <1>1, <1>2
    <2> QED
      BY <1>3, <2>1, <2>2, SumsSame
  <1>6. u[k] # v[k]
    <2>1. /\ u[k] = (u[k - 1] + p[k]) % 256 /\ v[k] = (v[k - 1] + q[k]) % 256
          /\ u[k - 1] \in Byte /\ p[k] \in Byte /\ q[k] \in Byte
      BY <1>3, <1>4 DEF Runs
    <2>2. (u[k - 1] + p[k]) % 256 = (u[k - 1] + q[k]) % 256 => p[k] = q[k]
      BY <2>1, AddedSame
    <2> QED
      BY <1>5, <2>1, <2>2
  <1>7. u[n] = v[n] <=> u[k] = v[k]
    BY <1>3, <1>4, SumsMeet
  <1> QED
    BY <1>4, <1>6, <1>7

\* What WithSum appends makes the sum of the whole zero.
LEMMA WithSumIs ==
    ASSUME NEW q \in Bytes
    PROVE  /\ WithSum(q) \in Bytes /\ Len(WithSum(q)) = Len(q) + 1
           /\ \A i \in 1..Len(q) : WithSum(q)[i] = q[i]
           /\ CheckSum(WithSum(q)) = 0
  <1> DEFINE n == Len(q)
             c == (256 - CheckSum(q)) % 256
             p == Append(q, c)
  <1>1. CheckSum(q) \in Byte /\ c \in Byte /\ n \in Nat
    <2>1. CheckSum(q) \in Byte
      BY SumType
    <2>2. n \in Nat
      BY DEF Bytes
    <2> QED
      BY <2>1, <2>2, NegByte
  <1>2. ((CheckSum(q) + c) % 256) = 0
    BY <1>1, NegByte
  <1> HIDE DEF c
  <1>3. /\ p \in Bytes /\ Len(p) = n + 1 /\ p[n + 1] = c
        /\ \A i \in 1..n : p[i] = q[i]
    BY <1>1 DEF Bytes
  <1>4. p = WithSum(q)
    BY DEF WithSum, c
  <1> HIDE DEF p
  <1>5. PICK u : CheckSum(p) = u[Len(p)] /\ u[0] = 0 /\ Runs(u, p, Len(p))
    BY <1>3, SumsExist
  <1>6. PICK v : CheckSum(q) = v[Len(q)] /\ v[0] = 0 /\ Runs(v, q, Len(q))
    BY SumsExist
  <1>7. /\ CheckSum(p) = u[n + 1] /\ Runs(u, p, n + 1) /\ CheckSum(q) = v[n] /\ Runs(v, q, n)
        /\ Alike(p, q, 0, n) /\ n \in 0..(n + 1) /\ n + 1 \in Nat
    BY <1>1, <1>3, <1>5, <1>6 DEF Alike
  <1> HIDE DEF n
  <1>8. u[n] = v[n]
    <2>1. Runs(u, p, n)
      BY <1>7, RunsShorter
    <2>2. u[0] = v[0]
      BY <1>5, <1>6
    <2> QED
      BY <1>1, <1>7, <2>1, <2>2, SumsSame
  <1>9. u[n + 1] = (u[n] + c) % 256
    <2>1. n + 1 \in 1..(n + 1) /\ (n + 1) - 1 = n
      BY <1>1
    <2> QED
      BY <1>3, <1>7, <2>1 DEF Runs
  <1> QED
    BY <1>2, <1>3, <1>4, <1>7, <1>8, <1>9 DEF n

-------------------------------------------------------------------------------
(***************************************************************************)
(* Division, and the bits of a page number.                                *)
(***************************************************************************)
LEMMA Divided ==
    ASSUME NEW a \in Nat, NEW m \in Nat \ {0}
    PROVE  /\ a \div m \in Nat /\ (a \div m) * m <= a
           /\ (a % m) \in 0..(m - 1) /\ (a \div m) * m + (a % m) = a
  OBVIOUS

LEMMA DividedGrows ==
    ASSUME NEW a \in Nat, NEW b \in Nat, a <= b, NEW m \in Nat \ {0}
    PROVE  a \div m <= b \div m
  OBVIOUS

LEMMA Composed ==
    ASSUME NEW p \in Nat, NEW m \in Nat \ {0}, NEW j \in 0..(m - 1)
    PROVE  (p * m + j) \div m = p /\ ((p * m + j) % m) = j /\ p * m \in Nat
  OBVIOUS

LEMMA ComposedIn ==
    ASSUME NEW n \in Nat, NEW p \in 0..(n - 1), NEW m \in Nat \ {0}, NEW j \in 0..(m - 1)
    PROVE  p * m + j \in 0..(n * m - 1)
  OBVIOUS

LEMMA PageBitIs ==
    ASSUME NEW size \in Nat
    PROVE  /\ PageBit(size) \in 0..16
           /\ \A j \in 0..15 : size = TwoTo(j) => TwoTo(PageBit(size)) = size
  <1> DEFINE fits(k) == size <= TwoTo(k) \/ k = 16
             S == {k \in 0..16 : fits(k)}
             least(k) == fits(k) /\ \A l \in 0..(k - 1) : size > TwoTo(l)
             b == CHOOSE k \in 0..16 : least(k)
  <1>1. PICK k \in S : \A l \in S : k <= l
    <2>1. S \subseteq Nat /\ 16 \in S
      OBVIOUS
    <2> QED
      BY <2>1, FirstOf
  <1>2. k \in 0..16 /\ least(k)
    <2>1. \A l \in 0..(k - 1) : l \in 0..16 /\ ~fits(l)
      BY <1>1
    <2>2. \A l \in 0..16 : TwoTo(l) \in Nat
      BY PowerPositive
    <2> QED
      BY <1>1, <2>1, <2>2
  <1>3. b \in 0..16 /\ least(b)
    BY <1>2
  <1>4. PageBit(size) = b
    BY DEF PageBit, TwoTo
  <1> HIDE DEF b
  <1>5. ASSUME NEW j \in 0..15, size = TwoTo(j) PROVE TwoTo(b) = size
    <2>1. ~(j < b)
      <3>1. j < b => j \in 0..(b - 1)
        BY <1>3
      <3> QED
        BY <1>3, <1>5, <3>1
    <2>2. ~(b < j)
      <3>1. b < j => TwoTo(b) < TwoTo(j) /\ b # 16
        BY <1>3, PowerGrows
      <3>2. TwoTo(b) \in Nat
        BY <1>3, PowerPositive
      <3> QED
        BY <1>3, <1>5, <3>1, <3>2
    <2> QED
      BY <1>3, <1>5, <2>1, <2>2
  <1> QED
    BY <1>3, <1>4, <1>5

\* The device's page is a power of two, and its ROM is made of them.
LEMMA Sizes ==
    /\ PAGE_SIZE \in Nat \ {0} /\ TwoTo(PageBit(PAGE_SIZE)) = PAGE_SIZE
    /\ ENABLE_SIZE \in Nat \ {0} /\ ROMBUF_SIZE \in Nat \ {0} /\ RomEnd \in Nat
    /\ TRIES \in Nat \ {0} /\ {BIT_RATE_SET_MAX_3069, BIT_RATE_SET_MAX} \subseteq Nat \ {0}
    /\ \E n \in 1..ENABLE_SIZE : ROMBUF_SIZE = n * PAGE_SIZE /\ ROMBUF_SIZE \div PAGE_SIZE = n
  <1>1. /\ {TRIES, ROMBUF_SIZE, ENABLE_SIZE} \subseteq Nat \ {0}
        /\ {BIT_RATE_SET_MAX_3069, BIT_RATE_SET_MAX} \subseteq Nat \ {0}
    BY H8writeAssumption
  <1>2. PICK k \in 0..15 : PAGE_SIZE = TwoTo(k)
    BY PageAssumption DEF TwoTo
  <1>3. PICK n \in 1..ENABLE_SIZE : ROMBUF_SIZE = n * PAGE_SIZE
    BY PageAssumption
  <1>4. PAGE_SIZE \in Nat \ {0}
    <2>1. k \in 0..16
      OBVIOUS
    <2> QED
      BY <1>2, <2>1, PowerPositive
  <1>5. TwoTo(PageBit(PAGE_SIZE)) = PAGE_SIZE
    BY <1>2, <1>4, PageBitIs
  <1>6. ROMBUF_SIZE \div PAGE_SIZE = n
    <2>1. n \in Nat /\ 0 \in 0..(PAGE_SIZE - 1)
      BY <1>1, <1>4
    <2>2. (n * PAGE_SIZE + 0) \div PAGE_SIZE = n /\ n * PAGE_SIZE \in Nat
      BY <1>4, <2>1, Composed
    <2> QED
      BY <1>3, <2>2
  <1>7. RomEnd \in Nat
    BY <1>1 DEF RomEnd
  <1> QED
    BY <1>1, <1>3, <1>4, <1>5, <1>6, <1>7

-------------------------------------------------------------------------------
(***************************************************************************)
(* The invariant that the types need.  The image is read once the device   *)
(* has told its area and its page size; until then there are no pages, and *)
(* a page is written only if it is one of those main has cleared.          *)
(***************************************************************************)
PageIn(size, a) == a \div 2^PageBit(size)

AtPage    == {"high", "low", "page"}
Looping   == {"start"} \cup AtPage
Early     == (Asking \cup {"read"}) \ (Looping \cup {"end"})
DevStates == {"rate", "check", "query", "device", "clock", "rated", "ready", "erased",
              "program", "done", "loader", "loaded", "lost"}

\* An older H8 is never asked what its main knows.
OnlyModern == {"query_device", "select_device", "query_clock", "select_clock", "query_scale",
               "query_freq", "set_rate", "check_rate", "query_area", "query_pagesize"}

ControlType ==
    /\ pc \in Asking \cup Ended \cup {"read"} /\ asked \in BOOLEAN
    /\ tries \in 0..TRIES /\ (pc \in {"rate", "check"} => tries = 0)
    /\ pc = "query_device" => tries < TRIES
    /\ rate \in {9600, 19200} /\ devcode \in Bytes /\ Len(devcode) <= 2
    /\ sent \in 0..(Len(TransferBytes) - 1)
    /\ pc \in OnlyModern => scenario.cpu = "3069"
ImageType ==
    /\ area \in Int \X Int /\ pagesize \in Nat /\ page \in Nat
    /\ rombuf = <<>> \/ rombuf \in [0..area[2] -> Byte]
    /\ enable \subseteq {PageIn(pagesize, a) : a \in DOMAIN rombuf}
    /\ pc \in Early => rombuf = <<>> /\ enable = {}
    /\ pc \in Looping => area[2] <= RomEnd /\ PageIn(pagesize, area[2]) < ENABLE_SIZE
    /\ pc \in AtPage => page \in enable
    /\ scenario.cpu # "3069" => pagesize = PAGE_SIZE
\* There is no empty question.
Asked      == Bytes \ {<<>>}
LineType   == tx \in Seq(Asked) /\ rx \in Bytes
RomType    == dev \in DevStates /\ devrate \in {9600, 19200} /\ flash \in [0..RomEnd -> Byte]
DeviceType == RomType /\ heard \in Bytes /\ burnt \in 0..(PAGE_SIZE - 1)
WorldType  == /\ scenario \in Scenario /\ flips \in 0..MAX_FLIPS /\ reruns \in 0..MAX_RERUNS
              /\ {fresh, warm, skipped, misheard} \subseteq BOOLEAN
TypeInv == ControlType /\ ImageType /\ LineType /\ DeviceType /\ WorldType

LEMMA ScenarioIs ==
    ASSUME scenario \in Scenario
    PROVE  /\ scenario.cpu \in {"3069", "older"} /\ scenario.freq \in {2000, 2500}
           /\ scenario.file \in Seq(Record) /\ scenario.newline \in BOOLEAN
           /\ scenario.readable \in BOOLEAN /\ scenario.reruns \in 0..MAX_RERUNS
           /\ MAX_FLIPS \in Nat /\ MAX_RERUNS \in Nat
  <1>1. IsScenario(scenario)
    BY H8writeAssumption
  <1>2. MAX_FLIPS \in Nat /\ MAX_RERUNS \in Nat
    BY H8writeAssumption
  <1> QED
    BY <1>1, <1>2 DEF IsScenario

LEMMA PageInIs ==
    ASSUME NEW size \in Nat, NEW a \in Nat
    PROVE  /\ PageIn(size, a) \in Nat /\ PageIn(size, a) * TwoTo(PageBit(size)) \in 0..a
           /\ \A b \in Nat : a <= b => PageIn(size, a) <= PageIn(size, b)
  <1> DEFINE m == TwoTo(PageBit(size))
  <1>1. m \in Nat \ {0}
    BY PageBitIs, PowerPositive
  <1>2. PageIn(size, a) = a \div m /\ \A b \in Nat : PageIn(size, b) = b \div m
    BY DEF PageIn, TwoTo
  <1> HIDE DEF m
  <1>3. a \div m \in Nat /\ (a \div m) * m <= a
    BY <1>1, Divided
  <1>4. (a \div m) * m \in 0..a
    BY <1>1, <1>3
  <1>5. \A b \in Nat : a <= b => a \div m <= b \div m
    BY <1>1, DividedGrows
  <1> QED
    BY <1>2, <1>3, <1>4, <1>5 DEF m

LEMMA PageOfIs == \A a : PageOf(a) = PageIn(pagesize, a)
  BY DEF PageOf, PageIn

-------------------------------------------------------------------------------
(***************************************************************************)
(* Questions and answers are bytes.                                        *)
(***************************************************************************)
LEMMA Concats ==
    ASSUME NEW a \in Bytes, NEW b \in Bytes
    PROVE  /\ a \o b \in Bytes /\ Len(a \o b) = Len(a) + Len(b)
           /\ Len(a) \in Nat /\ Len(b) \in Nat
           /\ \A i \in 1..Len(a) : (a \o b)[i] = a[i]
           /\ \A i \in 1..Len(b) : (a \o b)[Len(a) + i] = b[i]
  BY DEF Bytes

LEMMA Appends ==
    ASSUME NEW a \in Bytes, NEW b \in Byte
    PROVE  Append(a, b) \in Bytes
  BY DEF Bytes

LEMMA Parts ==
    ASSUME NEW q \in Bytes, NEW m \in Nat \ {0}, NEW n \in Nat, n <= Len(q)
    PROVE  /\ SubSeq(q, m, n) \in Bytes
           /\ m <= n + 1 => Len(SubSeq(q, m, n)) = n - m + 1
           /\ \A i \in 1..(n - m + 1) : SubSeq(q, m, n)[i] = q[m + i - 1]
  BY DEF Bytes

LEMMA Fits ==
    ASSUME NEW a \in 0..RomEnd
    PROVE  a \in Nat /\ a \div 16777216 < 128
  <1>1. a \in Nat /\ a <= ROMBUF_SIZE /\ ROMBUF_SIZE \in Nat
    BY Sizes DEF RomEnd
  <1>2. a \div 16777216 <= ROMBUF_SIZE \div 16777216
    BY <1>1
  <1>3. ROMBUF_SIZE \div 16777216 < 128
    BY AddressAssumption
  <1>4. a \div 16777216 \in Int /\ ROMBUF_SIZE \div 16777216 \in Int
    BY <1>1
  <1> HIDE DEF Byte
  <1> QED
    BY <1>1, <1>2, <1>3, <1>4

\* An address as four bytes, there and back.
FourBytes(w, x, y, z) == w * 16777216 + x * 65536 + y * 256 + z

LEMMA LongBack ==
    ASSUME NEW n \in 0..RomEnd
    PROVE  /\ put_long(n) \in Bytes /\ Len(put_long(n)) = 4
           /\ \E w \in 0..127, x \in 0..255, y \in 0..255, z \in 0..255 :
                 /\ put_long(n) = <<w, x, y, z>>
                 /\ n = FourBytes(w, x, y, z)
  <1> DEFINE w == n \div 16777216
             x == (n \div 65536) % 256
             y == (n \div 256) % 256
             z == n % 256
  <1>1. n \in Nat /\ n \div 16777216 < 128
    BY Fits, SMT
  <1>2. w \in 0..127 /\ x \in 0..255 /\ y \in 0..255 /\ z \in 0..255
    BY <1>1, SMT
  <1>3. n = FourBytes(w, x, y, z)
    BY <1>1, SMT DEF FourBytes
  <1>4. put_long(n) = <<w, x, y, z>>
    BY SMT DEF put_long
  <1> HIDE DEF w, x, y, z
  <1>5. <<w, x, y, z>> \in Bytes /\ Len(<<w, x, y, z>>) = 4
    BY <1>2, SMT DEF Bytes, Byte
  <1>6. put_long(n) \in Bytes /\ Len(put_long(n)) = 4
    BY <1>4, <1>5, SMT
  <1>7. \E b \in 0..127, c \in 0..255, d \in 0..255, e \in 0..255 :
            put_long(n) = <<b, c, d, e>> /\ n = FourBytes(b, c, d, e)
    BY <1>2, <1>3, <1>4, Zenon
  <1> QED
    BY <1>6, <1>7, Zenon

LEMMA SumFrames ==
    ASSUME NEW q \in Bytes
    PROVE  WithSum(q) \in Bytes /\ Len(WithSum(q)) = Len(q) + 1 /\ CheckSum(WithSum(q)) = 0
  BY WithSumIs

LEMMA InRomTyped ==
    ASSUME ImageType, NEW a
    PROVE  InRom(a) \in Byte
  <1>1. rombuf = <<>> => DOMAIN rombuf = {}
    OBVIOUS
  <1>2. a \in DOMAIN rombuf => rombuf[a] \in Byte
    BY <1>1 DEF ImageType
  <1>3. 0 \in Byte
    BY DEF Byte
  <1> QED
    BY <1>2, <1>3 DEF InRom

LEMMA PageDataTyped ==
    ASSUME ImageType
    PROVE  PageData \in Bytes /\ Len(PageData) = pagesize
  <1>1. pagesize \in Nat
    BY DEF ImageType
  <1>2. \A a : InRom(a) \in Byte
    BY InRomTyped
  <1> QED
    BY <1>1, <1>2 DEF PageData, Bytes

\* A page has an address in the ROM, and a number that fits into two bytes.
LEMMA PageIsInRom ==
    ASSUME ImageType, pc \in AtPage
    PROVE  /\ page \in 0..(ENABLE_SIZE - 1)
           /\ page * 2^PageBit(pagesize) \in 0..RomEnd
           /\ \E a \in 0..area[2] : page = PageIn(pagesize, a)
  <1>1. /\ page \in enable /\ rombuf \in [0..area[2] -> Byte] /\ pagesize \in Nat
        /\ area[2] <= RomEnd /\ area[2] \in Int /\ PageIn(pagesize, area[2]) < ENABLE_SIZE
    <2>1. rombuf = <<>> => DOMAIN rombuf = {}
      OBVIOUS
    <2> QED
      BY <2>1 DEF ImageType, Looping
  <1>2. PICK a \in 0..area[2] : page = PageIn(pagesize, a)
    BY <1>1 DEF ImageType
  <1>3. a \in Nat /\ area[2] \in Nat /\ a <= area[2]
    BY <1>1
  <1>4. /\ page \in Nat /\ page * TwoTo(PageBit(pagesize)) \in 0..a
        /\ page <= PageIn(pagesize, area[2]) /\ PageIn(pagesize, area[2]) \in Nat
    BY <1>1, <1>2, <1>3, PageInIs
  <1>5. ENABLE_SIZE \in Nat /\ RomEnd \in Nat
    BY Sizes
  <1>6. page * TwoTo(PageBit(pagesize)) \in 0..RomEnd
    BY <1>1, <1>3, <1>4, <1>5
  <1>7. page \in 0..(ENABLE_SIZE - 1)
    BY <1>1, <1>4, <1>5
  <1> QED
    BY <1>2, <1>6, <1>7 DEF TwoTo

LEMMA PageFrameTyped ==
    ASSUME ImageType, pc = "page"
    PROVE  PageFrame \in Bytes
  <1> DEFINE start == page * 2^PageBit(pagesize)
  <1>1. start \in 0..RomEnd
    BY PageIsInRom DEF AtPage
  <1> HIDE DEF start
  <1>2. /\ put_long(start) \in Bytes /\ PageData \in Bytes
        /\ <<80>> \in Bytes
    <2>1. <<80>> \in Bytes
      BY DEF Bytes, Byte
    <2> QED
      BY <1>1, <2>1, LongBack, PageDataTyped
  <1>3. (<<80>> \o put_long(start)) \o PageData \in Bytes
    BY <1>2, Concats
  <1>4. WithSum((<<80>> \o put_long(start)) \o PageData) \in Bytes
    BY <1>3, SumFrames
  <1> QED
    BY <1>4 DEF PageFrame, start

\* Two bytes of length and the program.
LEMMA TransferBytesTyped ==
    /\ TransferBytes \in Bytes /\ Len(TransferBytes) = 4
    /\ \A i \in 1..4 : TransferBytes[i] \in Byte
  <1>1. Len(Program) = 2 /\ Program = <<122, 7>>
    BY DEF Program
  <1>2. 2 \div 256 = 0 /\ 2 % 256 = 2
    BY SMT
  <1>3. TransferBytes = <<0, 2>> \o <<122, 7>>
    BY <1>1, <1>2 DEF TransferBytes
  <1>4. <<0, 2>> \in Bytes /\ Len(<<0, 2>>) = 2 /\ <<122, 7>> \in Bytes /\ Len(<<122, 7>>) = 2
    BY DEF Bytes, Byte
  <1>5. TransferBytes \in Bytes /\ Len(TransferBytes) = 2 + 2
    BY <1>3, <1>4, Concats
  <1>6. Len(TransferBytes) = 4
    BY <1>5
  <1>7. \A i \in 1..Len(TransferBytes) : TransferBytes[i] \in Byte
    BY <1>5, ElementOfSeq, Zenon DEF Bytes
  <1> QED
    BY <1>5, <1>6, <1>7

LEMMA ZerosTyped ==
    /\ Zeros \in Bytes /\ Zeros # <<>> /\ \A i \in 1..Len(Zeros) : Zeros[i] = 0
  <1> DEFINE n == IF scenario.cpu = "3069" THEN BIT_RATE_SET_MAX_3069 ELSE BIT_RATE_SET_MAX
  <1>1. n \in Nat \ {0}
    BY Sizes
  <1>2. Zeros = [i \in 1..n |-> 0]
    BY DEF Zeros
  <1> HIDE DEF n
  <1>3. /\ Zeros \in Seq(Byte) /\ Len(Zeros) = n /\ \A i \in 1..n : Zeros[i] = 0
    BY <1>1, <1>2 DEF Byte
  <1> QED
    BY <1>1, <1>3 DEF Bytes

LEMMA NotEmpty ==
    ASSUME NEW q \in Bytes, Len(q) # 0
    PROVE  q \in Asked
  BY DEF Asked

LEMMA SumsNotEmpty ==
    ASSUME NEW q \in Bytes
    PROVE  WithSum(q) \in Asked
  <1>1. WithSum(q) \in Bytes /\ Len(WithSum(q)) = Len(q) + 1 /\ Len(q) \in Nat
    BY SumFrames DEF Bytes
  <1>2. Len(WithSum(q)) # 0
    BY <1>1
  <1> QED
    BY <1>1, <1>2, NotEmpty

LEMMA QuestionTyped ==
    ASSUME TypeInv, pc \in Asking
    PROVE  Question(pc) \in Asked
  <1>0. \A b \in Byte : <<b>> \in Asked
    BY DEF Asked, Bytes
  <1>1. /\ <<85>> \in Asked /\ <<32>> \in Asked /\ <<33>> \in Asked /\ <<34>> \in Asked
        /\ <<35>> \in Asked /\ <<6>> \in Asked /\ <<37>> \in Asked /\ <<39>> \in Asked
        /\ <<64>> \in Asked /\ <<67>> \in Asked /\ <<1>> \in Asked
    <2>1. {85, 32, 33, 34, 35, 6, 37, 39, 64, 67, 1} \subseteq Byte
      BY DEF Byte
    <2> QED
      BY <1>0, <2>1
  <1>2. Zeros \in Asked
    BY ZerosTyped DEF Asked
  <1>3. SelectDeviceFrame \in Asked
    <2> DEFINE n == Len(devcode)
    <2>1. devcode \in Bytes /\ n \in 0..2
      <3>1. devcode \in Bytes /\ n <= 2
        BY DEF TypeInv, ControlType
      <3>2. n \in Nat
        BY <3>1 DEF Bytes
      <3> HIDE DEF n
      <3> QED
        BY <3>1, <3>2
    <2> HIDE DEF n
    <2>2. <<16, n>> \in Bytes
      BY <2>1 DEF Bytes, Byte
    <2>3. <<16, n>> \o devcode \in Bytes
      BY <2>1, <2>2, Concats
    <2> QED
      BY <2>3, SumsNotEmpty DEF SelectDeviceFrame, n
  <1>4. SelectClockFrame \in Asked
    <2>1. <<17, 1, 0>> \in Bytes
      BY DEF Bytes, Byte
    <2> QED
      BY <2>1, SumsNotEmpty DEF SelectClockFrame
  <1>5. SetRateFrame \in Asked
    <2>1. scenario.freq \in {2000, 2500}
      BY ScenarioIs DEF TypeInv, WorldType
    <2>2. scenario.freq \div 256 \in Byte /\ (scenario.freq % 256) \in Byte
      BY <2>1 DEF Byte
    <2>3. \A x, y \in Byte : <<63, 7, 0, 192, x, y, 1, 1, 0>> \in Bytes
      BY DEF Bytes, Byte
    <2>4. <<63, 7, 0, 192, scenario.freq \div 256, scenario.freq % 256, 1, 1, 0>> \in Bytes
      BY <2>2, <2>3
    <2> QED
      BY <2>4, SumsNotEmpty DEF SetRateFrame
  <1>6. <<TransferBytes[sent + 1]>> \in Asked
    <2>1. sent \in 0..(4 - 1)
      BY TransferBytesTyped DEF TypeInv, ControlType
    <2>2. sent + 1 \in 1..4
      BY <2>1
    <2>3. TransferBytes[sent + 1] \in Byte
      BY <2>2, TransferBytesTyped
    <2> QED
      BY <1>0, <2>3
  <1>7. EndFrame \in Asked
    <2>1. <<80, 255, 255, 255, 255>> \in Bytes
      BY DEF Bytes, Byte
    <2> QED
      BY <2>1, SumsNotEmpty DEF EndFrame
  <1>8. <<(page \div 256) % 256>> \in Asked /\ <<page % 256>> \in Asked
    <2>1. page \in Nat
      BY DEF TypeInv, ImageType
    <2>2. ((page \div 256) % 256) \in Byte /\ (page % 256) \in Byte
      BY <2>1, SMT DEF Byte
    <2> QED
      BY <1>0, <2>2
  <1>9. pc = "page" => (IF scenario.cpu = "3069" THEN PageFrame ELSE PageData) \in Asked
    <2>0. ASSUME pc = "page" PROVE PageFrame \in Asked
      <3> DEFINE q == <<80>> \o put_long(page * 2^PageBit(pagesize)) \o PageData
      <3>1. PageFrame \in Bytes
        BY <2>0, PageFrameTyped DEF TypeInv
      <3>2. PageFrame = Append(q, (256 - CheckSum(q)) % 256)
        BY DEF PageFrame, WithSum
      <3> HIDE DEF q
      <3>3. PageFrame # <<>>
        BY <3>2
      <3> QED
        BY <3>1, <3>3 DEF Asked
    <2>1. scenario.cpu # "3069" => PageData \in Asked
      <3>1. PageData \in Bytes /\ Len(PageData) = pagesize
        BY PageDataTyped DEF TypeInv
      <3>2. scenario.cpu # "3069" => pagesize # 0
        BY Sizes DEF TypeInv, ImageType
      <3> QED
        BY <3>1, <3>2, NotEmpty
    <2> QED
      BY <2>0, <2>1
  <1> HIDE DEF Asked
  <1> QED
    BY <1>1, <1>2, <1>3, <1>4, <1>5, <1>6, <1>7, <1>8, <1>9 DEF Question, Asking

LEMMA FramedTyped ==
    ASSUME NEW code \in Byte, NEW data \in Bytes, Len(data) <= 255
    PROVE  Framed(code, data) \in Bytes
  <1> DEFINE n == Len(data)
  <1>1. n \in Nat
    BY DEF Bytes
  <1>2. n \in Byte
    <2>1. n <= 255
      OBVIOUS
    <2> HIDE DEF n
    <2> QED
      BY <1>1, <2>1 DEF Byte
  <1> HIDE DEF n
  <1>3. <<code, n>> \in Bytes
    BY <1>2 DEF Bytes
  <1>4. <<code, n>> \o data \in Bytes
    BY <1>3, Concats
  <1> QED
    BY <1>4, SumFrames DEF Framed, n

LEMMA PageSizeFits == PAGE_SIZE <= 65535
  <1>1. PICK k \in 0..15 : PAGE_SIZE = TwoTo(k)
    BY PageAssumption DEF TwoTo
  <1>2. /\ TwoTo(8) = 256 /\ TwoTo(9) = 512 /\ TwoTo(10) = 1024 /\ TwoTo(11) = 2048
        /\ TwoTo(12) = 4096 /\ TwoTo(13) = 8192 /\ TwoTo(14) = 16384 /\ TwoTo(15) = 32768
    <2>1. /\ TwoTo(7 + 1) = 2 * TwoTo(7) /\ TwoTo(8 + 1) = 2 * TwoTo(8)
          /\ TwoTo(9 + 1) = 2 * TwoTo(9) /\ TwoTo(10 + 1) = 2 * TwoTo(10)
          /\ TwoTo(11 + 1) = 2 * TwoTo(11) /\ TwoTo(12 + 1) = 2 * TwoTo(12)
          /\ TwoTo(13 + 1) = 2 * TwoTo(13) /\ TwoTo(14 + 1) = 2 * TwoTo(14)
      BY Doubles, SMT
    <2> QED
      BY <2>1, PowersOfBits, SMT
  <1>3. k = 15 \/ (k \in 0..16 /\ 15 \in 0..16 /\ k < 15)
    BY SMT
  <1>4. TwoTo(k) <= 32768
    <2>1. CASE k = 15
      BY <1>2, <2>1, SMT
    <2>2. CASE k \in 0..16 /\ 15 \in 0..16 /\ k < 15
      <3>1. TwoTo(k) < TwoTo(15)
        BY <2>2, PowerGrows
      <3>2. TwoTo(k) \in Nat
        BY <2>2, PowerPositive
      <3> QED
        BY <1>2, <3>1, <3>2, SMT
    <2> QED
      BY <1>3, <2>1, <2>2
  <1> QED
    BY <1>1, <1>4, Sizes, SMT

LEMMA DevicesTyped == Devices \in Bytes /\ Len(Devices) = 9
  <1> DEFINE a == <<2, 3, 57, 57, 48, 3>>
  <1>1. a \in Bytes /\ Len(a) = 6
    BY DEF Byte, Bytes
  <1>2. Code3069 \in Bytes /\ Len(Code3069) = 2 /\ HD64F3069 \in Bytes /\ Len(HD64F3069) = 1
    BY DEF Byte, Bytes, Code3069, HD64F3069
  <1>3. Devices = (a \o Code3069) \o HD64F3069
    BY DEF Devices
  <1> HIDE DEF a
  <1> DEFINE c == a \o Code3069
             d == c \o HD64F3069
  <1>4. c \in Bytes /\ Len(c) = Len(a) + Len(Code3069)
    BY <1>1, <1>2, Concats, Zenon
  <1> HIDE DEF c
  <1>5. d \in Bytes /\ Len(d) = Len(c) + Len(HD64F3069)
    BY <1>2, <1>4, Concats, Zenon
  <1>6. Devices = d
    BY <1>3 DEF c
  <1> HIDE DEF d
  <1> QED
    BY <1>1, <1>2, <1>4, <1>5, <1>6

\* The first and the last address.
LEMMA AreaTyped ==
    <<1>> \o put_long(0) \o put_long(RomEnd) \in Bytes
      /\ Len(<<1>> \o put_long(0) \o put_long(RomEnd)) = 9
  <1> DEFINE a == <<1>>
             b == put_long(0)
             c == put_long(RomEnd)
  <1>1. a \in Bytes /\ Len(a) = 1
    BY DEF Byte, Bytes
  <1>2. 0 \in 0..RomEnd /\ RomEnd \in 0..RomEnd
    BY Sizes
  <1>3. b \in Bytes /\ Len(b) = 4 /\ c \in Bytes /\ Len(c) = 4
    BY <1>2, LongBack
  <1> HIDE DEF a, b, c
  <1> DEFINE d == a \o b
             e == d \o c
  <1>4. d \in Bytes /\ Len(d) = Len(a) + Len(b)
    BY <1>1, <1>3, Concats, Zenon
  <1> HIDE DEF d
  <1>5. e \in Bytes /\ Len(e) = Len(d) + Len(c)
    BY <1>3, <1>4, Concats, Zenon
  <1> HIDE DEF e
  <1>6. e \in Bytes /\ Len(e) = 9
    BY <1>1, <1>3, <1>4, <1>5
  <1> QED
    BY <1>6 DEF a, b, c, d, e

LEMMA InfoTyped ==
    ASSUME NEW c \in DOMAIN Info
    PROVE  Info[c] \in Bytes
  <1>1. c \in {32, 33, 34, 35, 37, 39}
    BY DEF Info
  <1>2. /\ 48 \in Byte /\ 49 \in Byte /\ 50 \in Byte /\ 51 \in Byte /\ 53 \in Byte /\ 55 \in Byte
    BY DEF Byte
  <1> DEFINE d3 == <<1>>
             d4 == <<2, 1, 8>>
             d5 == <<1, 7, 208>>
             d7 == <<1>> \o put_long(0) \o put_long(RomEnd)
             d9 == <<PAGE_SIZE \div 256, PAGE_SIZE % 256>>
  <1>3. /\ d3 \in Bytes /\ Len(d3) <= 255 /\ d4 \in Bytes /\ Len(d4) <= 255
        /\ d5 \in Bytes /\ Len(d5) <= 255
    BY DEF Byte, Bytes
  <1>4. d7 \in Bytes /\ Len(d7) <= 255 /\ Devices \in Bytes /\ Len(Devices) <= 255
    <2>1. d7 \in Bytes /\ Len(d7) = 9 /\ Devices \in Bytes /\ Len(Devices) = 9
      BY AreaTyped, DevicesTyped
    <2> HIDE DEF d7
    <2> QED
      BY <2>1
  <1>5. d9 \in Bytes /\ Len(d9) <= 255
    <2>1. (PAGE_SIZE \div 256) \in Byte /\ (PAGE_SIZE % 256) \in Byte
      BY PageSizeFits, Sizes, SMT DEF Byte
    <2> QED
      BY <2>1 DEF Bytes
  <1>6. /\ Info[32] = Framed(48, Devices) /\ Info[33] = Framed(49, d3)
        /\ Info[34] = Framed(50, d4) /\ Info[35] = Framed(51, d5)
        /\ Info[37] = Framed(53, d7) /\ Info[39] = Framed(55, d9)
    BY DEF Info
  <1> HIDE DEF d3, d4, d5, d7, d9
  <1>7. /\ Framed(48, Devices) \in Bytes /\ Framed(49, d3) \in Bytes /\ Framed(50, d4) \in Bytes
        /\ Framed(51, d5) \in Bytes /\ Framed(53, d7) \in Bytes /\ Framed(55, d9) \in Bytes
    BY <1>2, <1>3, <1>4, <1>5, FramedTyped
  <1> QED
    BY <1>1, <1>6, <1>7

-------------------------------------------------------------------------------
(***************************************************************************)
(* The image.                                                              *)
(***************************************************************************)
LEMMA Beginning ==
    ASSUME NEW S, NEW s \in Seq(S), NEW n \in 0..Len(s)
    PROVE  /\ Len(SubSeq(s, 1, n)) = n
           /\ \A i \in 1..n : SubSeq(s, 1, n)[i] = s[i] /\ s[i] \in S
  OBVIOUS

LEMMA LinesTyped ==
    ASSUME scenario \in Scenario
    PROVE  /\ Len(Lines) \in Nat /\ Len(Lines) <= Len(scenario.file)
           /\ \A i \in 1..Len(Lines) : Lines[i] \in Record /\ Lines[i] = scenario.file[i]
           /\ Len(Lines) = Len(scenario.file)
                \/ (~scenario.newline /\ Len(Lines) = Len(scenario.file) - 1)
  <1>1. scenario.file \in Seq(Record)
    BY ScenarioIs
  <1>2. CASE scenario.newline \/ scenario.file = <<>>
    <2>1. Lines = scenario.file
      BY <1>2 DEF Lines
    <2> QED
      BY <1>1, <2>1
  <1>3. CASE ~(scenario.newline \/ scenario.file = <<>>)
    <2> DEFINE f == scenario.file
    <2>1. Lines = SubSeq(f, 1, Len(f) - 1)
      BY <1>3 DEF Lines, Front
    <2>2. f \in Seq(Record) /\ f # <<>>
      BY <1>1, <1>3
    <2> HIDE DEF f
    <2>3. Len(f) - 1 \in Nat /\ Len(f) - 1 \in 0..Len(f)
      BY <2>2
    <2>4. /\ Len(Lines) = Len(f) - 1
          /\ \A i \in 1..(Len(f) - 1) : Lines[i] = f[i] /\ f[i] \in Record
      BY <2>1, <2>2, <2>3, Beginning
    <2> QED
      BY <1>3, <2>3, <2>4 DEF f
  <1> QED
    BY <1>2, <1>3

ImageSet == [rom     : [0..area[2] -> Byte],
             pages   : SUBSET {PageIn(pagesize, a) : a \in 0..area[2]},
             skipped : BOOLEAN]

LEMMA ClearedTyped ==
    ASSUME skipped \in BOOLEAN
    PROVE  Cleared \in ImageSet
  <1>1. Blank \in Byte
    BY DEF Blank, Byte
  <1> QED
    BY <1>1 DEF Cleared, ImageSet

LEMMA StoreTyped ==
    ASSUME ImageType, NEW image \in ImageSet, NEW r \in Record
    PROVE  Store(image, r) \in ImageSet
  <1>1. CASE r.type \notin 1..3
    BY <1>1 DEF Store
  <1>2. CASE r.type \in 1..3 /\ (r.addr < area[1] \/ r.addr + Len(r.data) > area[2])
    <2>1. Store(image, r) = [image EXCEPT !.skipped = TRUE]
      BY <1>2 DEF Store
    <2> QED
      BY <2>1 DEF ImageSet
  <1>3. CASE r.type \in 1..3 /\ ~(r.addr < area[1] \/ r.addr + Len(r.data) > area[2])
    <2> DEFINE new == {PageOf(r.addr + i) : i \in 0..(Len(r.data) - 1)}
    <2>1. Store(image, r) = [image EXCEPT !.rom = Over(@, r), !.pages = @ \cup new]
      BY <1>3 DEF Store
    <2>2. /\ r.addr \in Nat /\ r.data \in Seq(Byte) /\ Len(r.data) \in Nat
          /\ image.rom \in [0..area[2] -> Byte] /\ area[2] \in Int /\ area[1] \in Int
          /\ r.addr + Len(r.data) <= area[2]
      BY <1>3 DEF Record, ImageSet, ImageType
    <2>3. Over(image.rom, r) \in [0..area[2] -> Byte]
      <3>1. \A a \in 0..area[2] : image.rom[a] \in Byte
        BY <2>2
      <3>2. \A a \in 0..area[2] : a - r.addr \in 0..(Len(r.data) - 1)
                => r.data[a - r.addr + 1] \in Byte
        BY <2>2
      <3>3. DOMAIN image.rom = 0..area[2]
        BY <2>2
      <3> QED
        BY <3>1, <3>2, <3>3 DEF Over
    <2>4. new \subseteq {PageIn(pagesize, a) : a \in 0..area[2]}
      <3>1. \A i \in 0..(Len(r.data) - 1) : r.addr + i \in 0..area[2]
        BY <2>2
      <3> QED
        BY <3>1, PageOfIs
    <2> HIDE DEF new
    <2> QED
      BY <2>1, <2>3, <2>4 DEF ImageSet
  <1> QED
    BY <1>1, <1>2, <1>3

\* The images after more and more lines.
Stored(u, n) == u = [i \in 0..n |-> IF i = 0 THEN Cleared ELSE Store(u[i - 1], Lines[i])]

LEMMA StoredExist ==
    ASSUME NEW n \in Nat
    PROVE  \E u : Stored(u, n)
  <1> DEFINE Bad == {k \in Nat : ~ \E u : Stored(u, k)}
  <1> SUFFICES ASSUME Bad # {} PROVE FALSE
    OBVIOUS
  <1>1. PICK k \in Bad : \A m \in Bad : k <= m
    BY FirstOf
  <1>2. k # 0
    <2>1. Stored([i \in 0..0 |-> Cleared], 0)
      BY DEF Stored
    <2> QED
      BY <2>1
  <1>3. k - 1 \in Nat /\ k - 1 \notin Bad
    BY <1>1, <1>2
  <1>4. PICK u : Stored(u, k - 1)
    BY <1>3
  <1> DEFINE step(i) == IF i = 0 THEN Cleared ELSE Store(u[i - 1], Lines[i])
             v == [i \in 0..k |-> step(i)]
  <1>5. \A i \in 0..(k - 1) : v[i] = u[i]
    <2>1. \A i \in 0..(k - 1) : u[i] = step(i)
      BY <1>4 DEF Stored
    <2> QED
      BY <1>3, <2>1
  <1>6. \A i \in 0..k : v[i] = IF i = 0 THEN Cleared ELSE Store(v[i - 1], Lines[i])
    <2>1. \A i \in 0..k : i # 0 => i - 1 \in 0..(k - 1)
      BY <1>3
    <2> QED
      BY <1>5, <2>1
  <1>7. v = [i \in 0..k |-> IF i = 0 THEN Cleared ELSE Store(v[i - 1], Lines[i])]
    <2>1. v = [i \in 0..k |-> v[i]]
      OBVIOUS
    <2> HIDE DEF v
    <2> QED
      BY <1>6, <2>1
  <1>8. Stored(v, k)
    <2> HIDE DEF v
    <2> QED
      BY <1>7 DEF Stored
  <1> QED
    BY <1>8

LEMMA ImageSteps ==
    ASSUME NEW n \in Nat
    PROVE  \E u : /\ ImageOf(n) = u[n] /\ u[0] = Cleared
                  /\ \A i \in 1..n : u[i] = Store(u[i - 1], Lines[i])
  <1> DEFINE u == CHOOSE w : Stored(w, n)
  <1>1. Stored(u, n)
    BY StoredExist
  <1>2. ImageOf(n) = u[n]
    BY DEF ImageOf, Stored
  <1> HIDE DEF u
  <1>3. 0 \in 0..n /\ \A i \in 1..n : i \in 0..n /\ i # 0
    OBVIOUS
  <1>4. \A i \in 0..n : u[i] = IF i = 0 THEN Cleared ELSE Store(u[i - 1], Lines[i])
    BY <1>1 DEF Stored
  <1> QED
    BY <1>2, <1>3, <1>4

LEMMA ImageTyped ==
    ASSUME ImageType, skipped \in BOOLEAN, scenario \in Scenario
    PROVE  ImageOf(Len(Lines)) \in ImageSet
  <1> DEFINE n == Len(Lines)
  <1>1. n \in Nat /\ \A i \in 1..n : Lines[i] \in Record
    BY LinesTyped
  <1>2. PICK u : /\ ImageOf(n) = u[n] /\ u[0] = Cleared
                 /\ \A i \in 1..n : u[i] = Store(u[i - 1], Lines[i])
    BY <1>1, ImageSteps
  <1> HIDE DEF n
  <1> DEFINE Bad == {i \in 0..n : u[i] \notin ImageSet}
  <1>3. Bad = {}
    <2> SUFFICES ASSUME Bad # {} PROVE FALSE
      OBVIOUS
    <2>1. Bad \subseteq Nat
      OBVIOUS
    <2>2. PICK k \in Bad : \A m \in Bad : k <= m
      BY <2>1, FirstOf
    <2>3. k # 0
      BY <1>2, <2>2, ClearedTyped
    <2>4. k \in 1..n /\ k - 1 \in 0..n /\ k - 1 \notin Bad
      BY <1>1, <2>2, <2>3
    <2>5. u[k - 1] \in ImageSet /\ Lines[k] \in Record /\ u[k] = Store(u[k - 1], Lines[k])
      BY <1>1, <1>2, <2>4
    <2> HIDE DEF Bad
    <2>6. u[k] \in ImageSet
      BY <2>5, StoreTyped
    <2> QED
      BY <2>2, <2>6 DEF Bad
  <1>4. n \in 0..n
    BY <1>1
  <1> QED
    BY <1>2, <1>3, <1>4 DEF n

-------------------------------------------------------------------------------
(***************************************************************************)
(* What a step of the writer may leave of each part.                       *)
(***************************************************************************)
LEMMA TookTyped ==
    ASSUME rx \in Bytes, NEW k \in Nat, Got(k), Took(k)
    PROVE  rx' \in Bytes
  BY DEF Got, Took, Bytes

LEMMA RestTyped ==
    ASSUME TypeInv, Rest, rx' \in Bytes, {skipped, misheard}' \subseteq BOOLEAN
    PROVE  LineType' /\ DeviceType' /\ WorldType'
  <1>1. tx' = tx /\ UNCHANGED device /\ UNCHANGED <<flips, reruns, fresh, warm, scenario>>
    BY DEF Rest
  <1>2. LineType'
    BY <1>1 DEF TypeInv, LineType
  <1>3. DeviceType'
    BY <1>1 DEF TypeInv, DeviceType, RomType, device
  <1>4. WorldType'
    BY <1>1 DEF TypeInv, WorldType
  <1> QED
    BY <1>2, <1>3, <1>4

\* The attempts are counted only after the speed has been found.
Leads(q, to) == \/ to \in Ended
                \/ /\ q \in Asking \cup {"read"} /\ to \in Asking \cup {"read"}
                   /\ to \in {"rate", "check", "query_device"} => q \in {"rate", "check"}
                   /\ to \in OnlyModern => q \in OnlyModern \/ scenario.cpu = "3069"

LEMMA ControlMoves ==
    ASSUME ControlType, NEW q, NEW to, Leads(q, to), pc = q, pc' \in {to, "fatal"},
           asked' \in BOOLEAN, UNCHANGED <<tries, devcode>>, rate' \in {9600, 19200},
           sent' \in {sent, sent + 1}, sent' < Len(TransferBytes), Rest
    PROVE  ControlType'
  <1>1. pc' \in Asking \cup Ended \cup {"read"}
    BY DEF Leads, Ended, Asking
  <1>2. pc' \in {"rate", "check", "query_device"} => pc \in {"rate", "check"}
    BY DEF Leads, Ended
  <1>3. (pc' \in {"rate", "check"} => tries' = 0) /\ (pc' = "query_device" => tries' < TRIES)
    BY <1>2, Sizes DEF ControlType
  <1>4. tries' \in 0..TRIES /\ devcode' \in Bytes /\ Len(devcode') <= 2
    BY DEF ControlType
  <1>5. pc' \in OnlyModern => scenario'.cpu = "3069"
    <2>1. scenario' = scenario /\ (pc \in OnlyModern => scenario.cpu = "3069")
      BY DEF Rest, ControlType
    <2>2. pc' \in OnlyModern => pc' = to /\ to \notin Ended
      BY DEF OnlyModern, Ended
    <2> QED
      BY <2>1, <2>2 DEF Leads
  <1>6. sent' \in 0..(Len(TransferBytes') - 1)
    <2>1. TransferBytes' = TransferBytes /\ Len(TransferBytes) = 4
      BY TransferBytesTyped DEF TransferBytes, Program
    <2>2. sent \in 0..(4 - 1) /\ sent' < 4
      BY <2>1 DEF ControlType
    <2> QED
      BY <2>1, <2>2
  <1> QED
    BY <1>1, <1>3, <1>4, <1>5, <1>6 DEF ControlType

\* All other steps leave sent alone.
LEMMA ControlGoes ==
    ASSUME ControlType, NEW q, NEW to, Leads(q, to), pc = q, pc' \in {to, "fatal"},
           asked' \in BOOLEAN, UNCHANGED <<tries, sent, devcode>>, rate' \in {9600, 19200}, Rest
    PROVE  ControlType'
  <1>1. sent' < Len(TransferBytes)
    <2>1. Len(TransferBytes) = 4
      BY TransferBytesTyped
    <2> QED
      BY <2>1 DEF ControlType
  <1> QED
    BY <1>1, ControlMoves

LEMMA ImageStays ==
    ASSUME ImageType, UNCHANGED <<area, pagesize, rombuf, enable, page>>, Rest,
           pc' \in Ended \/ pc' = "end" \/ (pc' \in Early /\ pc \in Early)
    PROVE  ImageType'
  <1>1. /\ pc' \notin Looping /\ pc' \notin AtPage /\ (pc' \in Early => pc \in Early)
        /\ scenario' = scenario
    BY DEF Early, Ended, Asking, Looping, AtPage, Rest
  <1> QED
    BY <1>1 DEF ImageType

LEMMA ImageAwaited ==
    ASSUME ImageType, pc \in Early, pc' \in Early \cup Ended,
           UNCHANGED <<rombuf, enable, page>>, area' \in Int \X Int, pagesize' \in Nat,
           Rest, scenario.cpu = "3069"
    PROVE  ImageType'
  <1>1. rombuf' = <<>> /\ enable' = {} /\ page' \in Nat
    BY DEF ImageType
  <1>2. pc' \notin Looping /\ pc' \notin AtPage /\ scenario' = scenario
    BY DEF Early, Ended, Asking, Looping, AtPage, Rest
  <1> HIDE DEF Early
  <1> QED
    BY <1>1, <1>2 DEF ImageType

LEMMA SimpleTyped ==
    ASSUME TypeInv, NEW q, NEW byte, NEW to, Simple(q, byte, to), Leads(q, to),
           to \in Ended \/ (q \in Early /\ to \in Early)
    PROVE  TypeInv'
  <1>1. /\ pc = q /\ pc' \in {to, "fatal"} /\ asked' \in BOOLEAN
        /\ UNCHANGED <<tries, sent, rate, devcode, area, pagesize, rombuf, enable, page, skipped, misheard>>
        /\ Got(1) /\ Took(1) /\ Rest
    BY DEF Simple, Check, Goto
  <1>2. ControlType'
    <2>1. rate' \in {9600, 19200} /\ UNCHANGED <<tries, sent, devcode>> /\ ControlType
      BY <1>1 DEF TypeInv, ControlType
    <2> QED
      BY <1>1, <2>1, ControlGoes
  <1>3. ImageType'
    <2>1. pc' \in Ended \/ (pc' \in Early /\ pc \in Early)
      BY <1>1 DEF Ended
    <2> QED
      BY <1>1, <2>1, ImageStays DEF TypeInv
  <1>4. LineType' /\ DeviceType' /\ WorldType'
    <2>1. rx' \in Bytes
      BY <1>1, TookTyped DEF TypeInv, LineType
    <2>2. {skipped, misheard}' \subseteq BOOLEAN
      BY <1>1 DEF TypeInv, WorldType
    <2> QED
      BY <1>1, <2>1, <2>2, RestTyped
  <1> QED
    BY <1>2, <1>3, <1>4 DEF TypeInv

LEMMA FrameLenTyped ==
    ASSUME rx \in Bytes, Got(3), Got(FrameLen)
    PROVE  FrameLen \in Nat /\ FrameLen <= Len(rx) /\ Frame \in Bytes
           /\ rx[1] \in Byte /\ rx[2] \in Byte /\ Len(Frame) = FrameLen /\ FrameLen >= 3
           /\ \A i \in 1..FrameLen : Frame[i] = rx[i] /\ rx[i] \in Byte
  <1>1. Len(rx) \in Nat /\ Len(rx) >= 3 /\ \A i \in 1..Len(rx) : rx[i] \in Byte
    BY DEF Got, Bytes
  <1>2. rx[1] \in Byte /\ rx[2] \in Byte
    BY <1>1
  <1>3. FrameLen \in Nat /\ FrameLen >= 3
    <2>1. rx[2] \in Nat
      BY <1>2 DEF Byte
    <2> QED
      BY <2>1 DEF FrameLen
  <1>4. FrameLen <= Len(rx)
    BY DEF Got
  <1> HIDE DEF FrameLen
  <1>5. FrameLen \in 0..Len(rx)
    BY <1>1, <1>3, <1>4
  <1>6. /\ Len(Frame) = FrameLen
        /\ \A i \in 1..FrameLen : Frame[i] = rx[i] /\ rx[i] \in Byte
    BY <1>5, Beginning DEF Frame, Bytes
  <1>7. Frame \in Bytes
    BY <1>3, <1>4, Parts DEF Frame
  <1> QED
    BY <1>2, <1>3, <1>4, <1>6, <1>7

\* What all answers in a frame have in common.
LEMMA ReadFrameIs ==
    ASSUME TypeInv, NEW q, NEW code, NEW to, ReadFrame(q, code, to)
    PROVE  /\ pc = q /\ pc' \in {to, "fatal"} /\ asked' \in BOOLEAN /\ Rest /\ rx' \in Bytes
           /\ pc' = "fatal" \/ (Got(3) /\ Got(FrameLen) /\ rx[1] = code /\ CheckSum(Frame) = 0)
  <1>0. rx \in Bytes
    BY DEF TypeInv, LineType
  <1>1. pc = q /\ Got(1) /\ Rest
    BY DEF ReadFrame
  <1>2. CASE rx[1] # code
    <2>1. Goto("fatal") /\ Took(1)
      BY <1>2 DEF ReadFrame
    <2>2. rx' \in Bytes
      BY <1>0, <1>1, <2>1, TookTyped
    <2> QED
      BY <1>1, <2>1, <2>2 DEF Goto
  <1>3. CASE rx[1] = code
    <2>1. Got(3) /\ Got(FrameLen) /\ Check(CheckSum(Frame) = 0, to) /\ Took(FrameLen)
      BY <1>3 DEF ReadFrame
    <2>2. rx' \in Bytes
      <3>1. FrameLen \in Nat
        BY <1>0, <2>1, FrameLenTyped
      <3> QED
        BY <1>0, <2>1, <3>1, TookTyped
    <2> QED
      BY <1>1, <1>3, <2>1, <2>2 DEF Check, Goto
  <1> QED
    BY <1>2, <1>3

LEMMA Query3Typed ==
    ASSUME TypeInv, NEW q, NEW code, NEW to, Query3(q, code, to), Leads(q, to),
           q \in Early, to \in Early
    PROVE  TypeInv'
  <1>1. /\ ReadFrame(q, code, to)
        /\ UNCHANGED <<tries, sent, rate, devcode, area, pagesize, rombuf, enable, page, skipped, misheard>>
    BY DEF Query3
  <1>2. pc = q /\ pc' \in {to, "fatal"} /\ asked' \in BOOLEAN /\ Rest /\ rx' \in Bytes
    BY <1>1, ReadFrameIs
  <1>3. ControlType'
    <2>1. rate' \in {9600, 19200} /\ UNCHANGED <<tries, sent, devcode>> /\ ControlType
      BY <1>1 DEF TypeInv, ControlType
    <2> QED
      BY <1>2, <2>1, ControlGoes
  <1>4. ImageType'
    <2>1. pc' \in Ended \/ (pc' \in Early /\ pc \in Early)
      BY <1>2 DEF Ended
    <2> QED
      BY <1>1, <1>2, <2>1, ImageStays DEF TypeInv
  <1>5. LineType' /\ DeviceType' /\ WorldType'
    <2>1. {skipped, misheard}' \subseteq BOOLEAN
      BY <1>1 DEF TypeInv, WorldType
    <2> QED
      BY <1>2, <2>1, RestTyped
  <1> QED
    BY <1>3, <1>4, <1>5 DEF TypeInv

-------------------------------------------------------------------------------
(***************************************************************************)
(* The steps of the writer.                                                *)
(***************************************************************************)
LEMMA AskTyped ==
    ASSUME TypeInv, Ask
    PROVE  TypeInv'
  <1>1. pc \in Asking /\ tx' = Append(tx, Question(pc)) /\ asked' \in BOOLEAN
    BY DEF Ask
  <1>2. /\ UNCHANGED <<pc, tries, sent, rate, devcode>>
        /\ UNCHANGED <<area, pagesize, rombuf, enable, page>>
        /\ UNCHANGED <<rx, dev, devrate, heard, burnt, flash>>
        /\ UNCHANGED <<flips, reruns, fresh, warm, skipped, misheard, scenario>>
    BY DEF Ask, device, world
  <1>3. ControlType'
    <2>1. TransferBytes' = TransferBytes
      BY DEF TransferBytes, Program
    <2> QED
      BY <1>1, <1>2, <2>1 DEF TypeInv, ControlType
  <1>4. ImageType'
    BY <1>2 DEF TypeInv, ImageType
  <1>5. LineType'
    <2>1. Question(pc) \in Asked /\ tx \in Seq(Asked) /\ rx \in Bytes
      BY <1>1, QuestionTyped DEF TypeInv, LineType
    <2> HIDE DEF Asked
    <2>2. tx' \in Seq(Asked)
      BY <1>1, <2>1
    <2> QED
      BY <1>2, <2>1, <2>2 DEF LineType
  <1>6. DeviceType'
    BY <1>2 DEF TypeInv, DeviceType, RomType
  <1>7. WorldType'
    BY <1>2 DEF TypeInv, WorldType
  <1> QED
    BY <1>3, <1>4, <1>5, <1>6, <1>7 DEF TypeInv

LEMMA SetBitRateTyped ==
    ASSUME TypeInv, SetBitRate
    PROVE  TypeInv'
  <1>1. /\ pc = "rate" /\ Rest /\ asked' \in BOOLEAN
        /\ UNCHANGED <<tries, sent, rate, devcode>>
        /\ UNCHANGED <<area, pagesize, rombuf, enable, page>>
        /\ UNCHANGED <<skipped, misheard>>
        /\ \/ pc' \in {"check", "fatal"}
           \/ pc' = "query_device" /\ scenario.cpu = "3069"
    BY DEF SetBitRate, Goto
  <1>2. ControlType'
    <2>1. rate' \in {9600, 19200} /\ UNCHANGED <<tries, sent, devcode>> /\ ControlType
      BY <1>1 DEF TypeInv, ControlType
    <2>2. /\ Leads("rate", "check")
          /\ scenario.cpu = "3069" => Leads("rate", "query_device")
      BY DEF Leads, Asking, OnlyModern
    <2>3. \/ pc' \in {"check", "fatal"}
          \/ pc' \in {"query_device", "fatal"} /\ scenario.cpu = "3069"
      BY <1>1
    <2> QED
      BY <1>1, <2>1, <2>2, <2>3, ControlGoes
  <1>3. ImageType'
    <2>1. pc' \in Ended \/ (pc' \in Early /\ pc \in Early)
      BY <1>1 DEF Ended, Early, Asking, Looping, AtPage
    <2> QED
      BY <1>1, <2>1, ImageStays DEF TypeInv
  <1>4. rx' \in Bytes
    <2>1. rx \in Bytes /\ 1 \in Nat /\ 2 \in Nat
      BY DEF TypeInv, LineType
    <2>2. (Got(1) /\ Took(1)) \/ (Got(2) /\ Took(2))
      BY DEF SetBitRate
    <2> QED
      BY <2>1, <2>2, TookTyped
  <1>5. LineType' /\ DeviceType' /\ WorldType'
    <2>1. {skipped, misheard}' \subseteq BOOLEAN
      BY <1>1 DEF TypeInv, WorldType
    <2> QED
      BY <1>1, <1>4, <2>1, RestTyped
  <1> QED
    BY <1>2, <1>3, <1>5 DEF TypeInv

LEMMA SimplesTyped ==
    ASSUME TypeInv,
           CheckBitRate \/ SelectDevice \/ SelectClock \/ CheckRate \/ Erase \/ Format \/ End
    PROVE  TypeInv'
  <1>1. CASE Simple("check", 230, "query_device") /\ scenario.cpu = "3069"
    <2>1. Leads("check", "query_device") /\ "check" \in Early /\ "query_device" \in Early
      BY <1>1 DEF Leads, Early, Asking, Looping, AtPage, OnlyModern
    <2> QED
      BY <1>1, <2>1, SimpleTyped
  <1>2. CASE Simple("check", 170, "transfer")
    <2>1. Leads("check", "transfer") /\ "check" \in Early /\ "transfer" \in Early
      BY DEF Leads, Early, Asking, Looping, AtPage, OnlyModern
    <2> QED
      BY <1>2, <2>1, SimpleTyped
  <1>3. CASE SelectDevice
    <2>1. Leads("select_device", "query_clock") /\ "select_device" \in Early /\ "query_clock" \in Early
      BY DEF Leads, Early, Asking, Looping, AtPage, OnlyModern
    <2> QED
      BY <1>3, <2>1, SimpleTyped DEF SelectDevice
  <1>4. CASE SelectClock
    <2>1. Leads("select_clock", "query_scale") /\ "select_clock" \in Early /\ "query_scale" \in Early
      BY DEF Leads, Early, Asking, Looping, AtPage, OnlyModern
    <2> QED
      BY <1>4, <2>1, SimpleTyped DEF SelectClock
  <1>5. CASE CheckRate
    <2>1. Leads("check_rate", "query_area") /\ "check_rate" \in Early /\ "query_area" \in Early
      BY DEF Leads, Early, Asking, Looping, AtPage, OnlyModern
    <2> QED
      BY <1>5, <2>1, SimpleTyped DEF CheckRate
  <1>6. CASE Erase
    <2>1. Leads("erase", "format") /\ "erase" \in Early /\ "format" \in Early
      BY DEF Leads, Early, Asking, Looping, AtPage, OnlyModern
    <2> QED
      BY <1>6, <2>1, SimpleTyped DEF Erase
  <1>7. CASE Format
    <2>1. Leads("format", "read") /\ "format" \in Early /\ "read" \in Early
      BY DEF Leads, Early, Asking, Looping, AtPage, OnlyModern
    <2> QED
      BY <1>7, <2>1, SimpleTyped DEF Format
  <1>8. CASE End
    <2>1. Leads("end", "successed") /\ "successed" \in Ended
      BY DEF Leads, Ended
    <2> QED
      BY <1>8, <2>1, SimpleTyped DEF End
  <1>9. CheckBitRate => \/ Simple("check", 230, "query_device") /\ scenario.cpu = "3069"
                        \/ Simple("check", 170, "transfer")
    BY DEF CheckBitRate
  <1> QED
    BY <1>1, <1>2, <1>3, <1>4, <1>5, <1>6, <1>7, <1>8, <1>9

LEMMA QueriesTyped ==
    ASSUME TypeInv, QueryClock \/ QueryScale \/ QueryFreq
    PROVE  TypeInv'
  <1>1. CASE QueryClock
    <2>1. Leads("query_clock", "select_clock") /\ "query_clock" \in Early /\ "select_clock" \in Early
      BY DEF Leads, Early, Asking, Looping, AtPage, OnlyModern
    <2> QED
      BY <1>1, <2>1, Query3Typed DEF QueryClock
  <1>2. CASE QueryScale
    <2>1. Leads("query_scale", "query_freq") /\ "query_scale" \in Early /\ "query_freq" \in Early
      BY DEF Leads, Early, Asking, Looping, AtPage, OnlyModern
    <2> QED
      BY <1>2, <2>1, Query3Typed DEF QueryScale
  <1>3. CASE QueryFreq
    <2>1. Leads("query_freq", "set_rate") /\ "query_freq" \in Early /\ "set_rate" \in Early
      BY DEF Leads, Early, Asking, Looping, AtPage, OnlyModern
    <2> QED
      BY <1>3, <2>1, Query3Typed DEF QueryFreq
  <1> QED
    BY <1>1, <1>2, <1>3

\* The first device of the list with the name is followed by its code.
LEMMA CodeTyped ==
    ASSUME NEW q \in Bytes, Found(q) # {}
    PROVE  CodeIn(q) \in Bytes /\ Len(CodeIn(q)) <= 2
  <1> DEFINE first == CHOOSE i \in Found(q) : \A j \in Found(q) : i <= j
  <1>1. Len(HD64F3069) = 1 /\ Len(q) \in Nat
    BY DEF HD64F3069, Bytes
  <1>2. Found(q) \subseteq 1..(Len(q) - 3)
    BY <1>1 DEF Found
  <1>3. Found(q) \subseteq Nat
    BY <1>2
  <1>4. first \in Found(q)
    BY <1>3, FirstOf
  <1>5. CodeIn(q) = SubSeq(q, first + 1, first + 2)
    BY DEF CodeIn
  <1> HIDE DEF first
  <1>6. first \in 1..(Len(q) - 3)
    BY <1>2, <1>4
  <1>7. /\ first + 1 \in Nat \ {0} /\ first + 2 \in Nat /\ first + 2 <= Len(q)
        /\ first + 1 <= (first + 2) + 1 /\ (first + 2) - (first + 1) + 1 = 2
    BY <1>1, <1>6
  <1> QED
    BY <1>5, <1>7, Parts

LEMMA QueryDeviceTyped ==
    ASSUME TypeInv, QueryDevice
    PROVE  TypeInv'
  <1>1. /\ pc = "query_device" /\ Rest
        /\ UNCHANGED <<sent, rate, area, pagesize, rombuf, enable, page, skipped, misheard>>
    BY DEF QueryDevice
  <1>2. rx \in Bytes /\ ControlType
    BY DEF TypeInv, LineType
  <1>3. /\ rx' \in Bytes /\ asked' \in BOOLEAN
        /\ devcode' \in Bytes /\ Len(devcode') <= 2
        /\ \/ pc' \in {"select_device", "fatal"} /\ tries' = tries
           \/ tries' = tries + 1 /\ pc' = IF tries + 1 = TRIES THEN "fatal" ELSE "query_device"
    <2>1. CASE /\ rx[1] = 48 /\ Got(3) /\ Got(FrameLen) /\ Took(FrameLen)
               /\ IF CheckSum(Frame) = 0 /\ Found(Frame) # {}
                  THEN Goto("select_device") /\ devcode' = CodeIn(Frame)
                  ELSE Goto("fatal") /\ UNCHANGED devcode
               /\ UNCHANGED tries
      <3>1. FrameLen \in Nat /\ Frame \in Bytes
        BY <1>2, <2>1, FrameLenTyped
      <3>2. rx' \in Bytes
        BY <1>2, <2>1, <3>1, TookTyped
      <3>3. devcode' \in Bytes /\ Len(devcode') <= 2
        <4>1. CASE CheckSum(Frame) = 0 /\ Found(Frame) # {}
          BY <2>1, <3>1, <4>1, CodeTyped
        <4>2. CASE ~(CheckSum(Frame) = 0 /\ Found(Frame) # {})
          BY <1>2, <2>1, <4>2 DEF ControlType
        <4> QED
          BY <4>1, <4>2
      <3> QED
        BY <2>1, <3>2, <3>3 DEF Goto
    <2>2. CASE /\ rx[1] = 128 /\ Got(2) /\ Took(2)
               /\ tries' = tries + 1
               /\ Goto(IF tries + 1 = TRIES THEN "fatal" ELSE "query_device")
               /\ UNCHANGED devcode
      <3>1. 2 \in Nat
        OBVIOUS
      <3>2. rx' \in Bytes
        BY <1>2, <2>2, <3>1, TookTyped
      <3>3. devcode' \in Bytes /\ Len(devcode') <= 2
        BY <1>2, <2>2 DEF ControlType
      <3> QED
        BY <2>2, <3>2, <3>3 DEF Goto
    <2>3. CASE /\ rx[1] \notin {48, 128} /\ Took(1) /\ Goto("fatal")
               /\ UNCHANGED <<tries, sent, devcode>>
      <3>1. 1 \in Nat /\ Got(1)
        BY DEF QueryDevice
      <3>2. rx' \in Bytes
        BY <1>2, <2>3, <3>1, TookTyped
      <3>3. devcode' \in Bytes /\ Len(devcode') <= 2
        BY <1>2, <2>3 DEF ControlType
      <3> QED
        BY <2>3, <3>2, <3>3 DEF Goto
    <2> QED
      BY <2>1, <2>2, <2>3 DEF QueryDevice
  <1>4. ControlType'
    <2>1. rate' \in {9600, 19200}
      BY <1>1, <1>2 DEF ControlType
    <2>2. tries \in 0..TRIES /\ tries < TRIES /\ TRIES \in Nat
      BY <1>1, <1>2, Sizes DEF ControlType
    <2>3. /\ tries' \in 0..TRIES /\ (pc' = "query_device" => tries' < TRIES)
          /\ pc' \in {"select_device", "fatal", "query_device"}
      BY <1>3, <2>2
    <2>4. scenario.cpu = "3069" /\ scenario' = scenario
      BY <1>1, <1>2 DEF ControlType, OnlyModern, Rest
    <2>5. sent' \in 0..(Len(TransferBytes') - 1)
      BY <1>1, <1>2 DEF ControlType, TransferBytes, Program
    <2> QED
      BY <1>3, <2>1, <2>3, <2>4, <2>5 DEF ControlType, Asking, Ended
  <1>5. ImageType'
    <2>1. pc' \in Ended \/ (pc' \in Early /\ pc \in Early)
      BY <1>1, <1>3 DEF Ended, Early, Asking, Looping, AtPage
    <2> QED
      BY <1>1, <2>1, ImageStays DEF TypeInv
  <1>6. LineType' /\ DeviceType' /\ WorldType'
    <2>1. {skipped, misheard}' \subseteq BOOLEAN
      BY <1>1 DEF TypeInv, WorldType
    <2> QED
      BY <1>1, <1>3, <2>1, RestTyped
  <1> QED
    BY <1>4, <1>5, <1>6 DEF TypeInv

LEMMA SetRateTyped ==
    ASSUME TypeInv, SetRate
    PROVE  TypeInv'
  <1>0. Check(rx[1] = 6, "check_rate") => asked' \in BOOLEAN /\ pc' \in {"check_rate", "fatal"}
    BY DEF Check, Goto
  <1>1. /\ pc = "set_rate" /\ Got(1) /\ Took(1) /\ Rest /\ asked' \in BOOLEAN
        /\ pc' \in {"check_rate", "fatal"}
        /\ UNCHANGED <<tries, sent, devcode>> /\ UNCHANGED <<area, pagesize, rombuf, enable, page>>
        /\ UNCHANGED <<skipped, misheard>> /\ rate' \in {19200, rate}
    BY <1>0 DEF SetRate
  <1>2. ControlType'
    <2>1. rate' \in {9600, 19200} /\ ControlType
      BY <1>1 DEF TypeInv, ControlType
    <2>2. Leads("set_rate", "check_rate")
      BY DEF Leads, Asking, OnlyModern
    <2> QED
      BY <1>1, <2>1, <2>2, ControlGoes
  <1>3. ImageType'
    <2>1. pc' \in Ended \/ (pc' \in Early /\ pc \in Early)
      BY <1>1 DEF Ended, Early, Asking, Looping, AtPage
    <2> QED
      BY <1>1, <2>1, ImageStays DEF TypeInv
  <1>4. LineType' /\ DeviceType' /\ WorldType'
    <2>1. rx' \in Bytes
      <3>1. rx \in Bytes /\ 1 \in Nat
        BY DEF TypeInv, LineType
      <3> QED
        BY <1>1, <3>1, TookTyped
    <2>2. {skipped, misheard}' \subseteq BOOLEAN
      BY <1>1 DEF TypeInv, WorldType
    <2> QED
      BY <1>1, <2>1, <2>2, RestTyped
  <1> QED
    BY <1>2, <1>3, <1>4 DEF TypeInv

LEMMA LongTyped ==
    ASSUME NEW q \in Bytes, Len(q) = 4
    PROVE  Long(q) \in Int
  <1>0. \A i \in 1..4 : q[i] \in Byte
    <2>1. \A i \in 1..Len(q) : q[i] \in Byte
      BY ElementOfSeq, Zenon DEF Bytes
    <2> QED
      BY <2>1
  <1>1. q[1] \in Byte /\ q[2] \in Byte /\ q[3] \in Byte /\ q[4] \in Byte
    BY <1>0
  <1>2. q[1] \in Int /\ q[2] \in Int /\ q[3] \in Int /\ q[4] \in Int
    BY <1>1 DEF Byte
  <1> QED
    BY <1>2, SMT DEF Long

LEMMA QueryAreaTyped ==
    ASSUME TypeInv, QueryArea
    PROVE  TypeInv'
  <1>1. /\ pc = "query_area" /\ Rest /\ UNCHANGED skipped
        /\ UNCHANGED <<tries, sent, rate, devcode>> /\ UNCHANGED <<pagesize, rombuf, enable, page>>
        /\ misheard' = (misheard \/ (pc' = "query_pagesize" /\ area' # <<0, RomEnd>>))
    BY DEF QueryArea
  <1>2. rx \in Bytes /\ ControlType /\ ImageType
    BY DEF TypeInv, LineType
  <1>3. rx' \in Bytes /\ asked' \in BOOLEAN /\ pc' \in {"query_pagesize", "fatal"}
        /\ area' \in Int \X Int
    <2>1. CASE rx[1] # 53
      <3>1. Goto("fatal") /\ Took(1) /\ UNCHANGED area /\ Got(1) /\ 1 \in Nat
        BY <2>1 DEF QueryArea
      <3>2. rx' \in Bytes
        BY <1>2, <3>1, TookTyped
      <3> QED
        BY <1>2, <3>1, <3>2 DEF Goto, ImageType
    <2>2. CASE rx[1] = 53
      <3>1. /\ Got(3) /\ Got(FrameLen) /\ Took(FrameLen) /\ Goto("query_pagesize")
            /\ IF FrameLen < 12
               THEN area' \in {-1, 0, ROMBUF_SIZE} \X {-1, 0, RomEnd, ROMBUF_SIZE}
               ELSE area' = <<Long(SubSeq(rx, 4, 7)), Long(SubSeq(rx, 8, 11))>>
        BY <2>2 DEF QueryArea
      <3>2. FrameLen \in Nat /\ FrameLen <= Len(rx)
        BY <1>2, <3>1, FrameLenTyped
      <3>3. rx' \in Bytes
        BY <1>2, <3>1, <3>2, TookTyped
      <3>4. area' \in Int \X Int
        <4>1. CASE FrameLen < 12
          BY <3>1, <4>1, Sizes
        <4>2. CASE ~(FrameLen < 12)
          <5>1. 12 <= Len(rx) /\ Len(rx) \in Nat
            BY <1>2, <3>2, <4>2 DEF Bytes
          <5>2. 7 <= Len(rx) /\ 11 <= Len(rx) /\ 4 \in Nat \ {0} /\ 7 \in Nat /\ 8 \in Nat \ {0} /\ 11 \in Nat
            BY <5>1
          <5>3. SubSeq(rx, 4, 7) \in Bytes /\ Len(SubSeq(rx, 4, 7)) = 4
            BY <1>2, <5>2, Parts
          <5>4. SubSeq(rx, 8, 11) \in Bytes /\ Len(SubSeq(rx, 8, 11)) = 4
            BY <1>2, <5>2, Parts
          <5>6. Long(SubSeq(rx, 4, 7)) \in Int /\ Long(SubSeq(rx, 8, 11)) \in Int
            BY <5>3, <5>4, LongTyped
          <5> QED
            BY <3>1, <4>2, <5>6
        <4> QED
          BY <4>1, <4>2
      <3> QED
        BY <3>1, <3>3, <3>4 DEF Goto
    <2> QED
      BY <2>1, <2>2
  <1>4. ControlType'
    <2>1. rate' \in {9600, 19200} /\ UNCHANGED <<tries, sent, devcode>>
      BY <1>1, <1>2 DEF ControlType
    <2>2. Leads("query_area", "query_pagesize")
      BY DEF Leads, Asking, OnlyModern
    <2> QED
      BY <1>1, <1>2, <1>3, <2>1, <2>2, ControlGoes
  <1>5. ImageType'
    <2>1. pc' \in Early \cup Ended /\ pc \in Early
      BY <1>1, <1>3 DEF Ended, Early, Asking, Looping, AtPage
    <2>2. pagesize' \in Nat /\ UNCHANGED <<rombuf, enable, page>>
      BY <1>1, <1>2 DEF ImageType
    <2>3. scenario.cpu = "3069"
      BY <1>1, <1>2 DEF ControlType, OnlyModern
    <2> QED
      BY <1>1, <1>2, <1>3, <2>1, <2>2, <2>3, ImageAwaited
  <1>6. LineType' /\ DeviceType' /\ WorldType'
    <2>1. {skipped, misheard}' \subseteq BOOLEAN
      BY <1>1 DEF TypeInv, WorldType
    <2> QED
      BY <1>1, <1>3, <2>1, RestTyped
  <1> QED
    BY <1>4, <1>5, <1>6 DEF TypeInv

LEMMA QueryPagesizeTyped ==
    ASSUME TypeInv, QueryPagesize
    PROVE  TypeInv'
  <1>1. /\ ReadFrame("query_pagesize", 55, "erase") /\ UNCHANGED skipped
        /\ UNCHANGED <<tries, sent, rate, devcode>> /\ UNCHANGED <<area, rombuf, enable, page>>
        /\ misheard' = (misheard \/ (pc' = "erase" /\ pagesize' # PAGE_SIZE))
        /\ pagesize' \in IF pc' # "erase" THEN {pagesize}
                         ELSE IF rx[2] < 2 THEN {0, PAGE_SIZE, 65535}
                         ELSE {rx[3] * 256 + rx[4]}
    BY DEF QueryPagesize
  <1>2. rx \in Bytes /\ ControlType /\ ImageType
    BY DEF TypeInv, LineType
  <1>3. /\ pc = "query_pagesize" /\ pc' \in {"erase", "fatal"} /\ asked' \in BOOLEAN /\ Rest
        /\ rx' \in Bytes
        /\ pc' = "fatal" \/ (Got(3) /\ Got(FrameLen) /\ rx[1] = 55 /\ CheckSum(Frame) = 0)
    BY <1>1, ReadFrameIs
  <1>4. pagesize' \in Nat
    <2>1. CASE pc' # "erase"
      BY <1>1, <1>2, <2>1 DEF ImageType
    <2>2. CASE pc' = "erase" /\ rx[2] < 2
      BY <1>1, <2>2, Sizes
    <2>3. CASE pc' = "erase" /\ ~(rx[2] < 2)
      <3>1. Got(3) /\ Got(FrameLen)
        BY <1>3, <2>3
      <3>2. rx[2] \in Byte /\ \A i \in 1..FrameLen : rx[i] \in Byte
        BY <1>2, <3>1, FrameLenTyped
      <3>3. FrameLen = 3 + rx[2]
        BY <1>3 DEF FrameLen
      <3>4. 3 \in 1..FrameLen /\ 4 \in 1..FrameLen
        BY <2>3, <3>2, <3>3 DEF Byte
      <3>5. rx[3] \in Nat /\ rx[4] \in Nat
        <4>1. rx[3] \in Byte /\ rx[4] \in Byte
          BY <3>2, <3>4, Zenon
        <4> QED
          BY <4>1 DEF Byte
      <3>6. pagesize' = rx[3] * 256 + rx[4]
        BY <1>1, <2>3
      <3> QED
        BY <3>5, <3>6
    <2> QED
      BY <2>1, <2>2, <2>3
  <1>5. ControlType'
    <2>1. rate' \in {9600, 19200} /\ UNCHANGED <<tries, sent, devcode>>
      BY <1>1, <1>2 DEF ControlType
    <2>2. Leads("query_pagesize", "erase")
      BY DEF Leads, Asking, OnlyModern
    <2> QED
      BY <1>2, <1>3, <2>1, <2>2, ControlGoes
  <1>6. ImageType'
    <2>1. pc' \in Early \cup Ended /\ pc \in Early
      BY <1>3 DEF Ended, Early, Asking, Looping, AtPage
    <2>2. area' \in Int \X Int /\ UNCHANGED <<rombuf, enable, page>>
      BY <1>1, <1>2 DEF ImageType
    <2>3. scenario.cpu = "3069"
      BY <1>2, <1>3 DEF ControlType, OnlyModern
    <2> QED
      BY <1>1, <1>2, <1>3, <1>4, <2>1, <2>2, <2>3, ImageAwaited
  <1>7. LineType' /\ DeviceType' /\ WorldType'
    <2>1. {skipped, misheard}' \subseteq BOOLEAN
      BY <1>1 DEF TypeInv, WorldType
    <2> QED
      BY <1>3, <2>1, RestTyped
  <1> QED
    BY <1>5, <1>6, <1>7 DEF TypeInv

LEMMA TransferTyped ==
    ASSUME TypeInv, Transfer
    PROVE  TypeInv'
  <1>1. /\ pc = "transfer" /\ Rest
        /\ UNCHANGED <<tries, rate, devcode>> /\ UNCHANGED <<area, pagesize, rombuf, enable, page>>
        /\ UNCHANGED <<skipped, misheard>>
        /\ \/ Got(1) /\ Took(1) /\ Goto("transfer") /\ sent' = sent + 1
              /\ sent + 1 < Len(TransferBytes)
           \/ Got(2) /\ Took(2) /\ Check(rx[2] = 170, "read") /\ UNCHANGED sent
    BY DEF Transfer
  <1>2. 1 \in Nat /\ 2 \in Nat /\ rx \in Bytes /\ ControlType /\ ImageType
    BY DEF TypeInv, LineType
  <1>3. /\ asked' \in BOOLEAN
        /\ \/ pc' \in {"transfer", "fatal"} /\ sent' = sent + 1 /\ sent + 1 < Len(TransferBytes)
           \/ pc' \in {"read", "fatal"} /\ UNCHANGED sent
    BY <1>1 DEF Check, Goto
  <1>4. ControlType'
    <2>1. rate' \in {9600, 19200} /\ sent' \in {sent, sent + 1} /\ sent' < Len(TransferBytes)
      <3>1. sent < Len(TransferBytes)
        BY <1>2, TransferBytesTyped DEF ControlType
      <3> QED
        BY <1>1, <1>2, <1>3, <3>1 DEF ControlType
    <2>2. Leads("transfer", "read") /\ Leads("transfer", "transfer")
      BY DEF Leads, Asking, OnlyModern
    <2> QED
      BY <1>1, <1>2, <1>3, <2>1, <2>2, ControlMoves
  <1>5. ImageType'
    <2>1. pc' \in Ended \/ (pc' \in Early /\ pc \in Early)
      BY <1>1, <1>3 DEF Ended, Early, Asking, Looping, AtPage
    <2> QED
      BY <1>1, <1>2, <2>1, ImageStays
  <1>6. LineType' /\ DeviceType' /\ WorldType'
    <2>1. rx' \in Bytes
      BY <1>1, <1>2, TookTyped
    <2>2. {skipped, misheard}' \subseteq BOOLEAN
      BY <1>1 DEF TypeInv, WorldType
    <2> QED
      BY <1>1, <2>1, <2>2, RestTyped
  <1> QED
    BY <1>4, <1>5, <1>6 DEF TypeInv

\* Where the loop over the pages begins, and where it ends.
Loops == IF scenario.cpu = "3069" THEN "page" ELSE "high"
Done  == IF scenario.cpu = "3069" THEN "end" ELSE "successed"

\* The loop goes on to a page of the image, or leaves.
LEMMA LoopIs ==
    ASSUME NEW from \in Nat, NEW pages, pages \subseteq Nat, LoopFrom(from, pages)
    PROVE  /\ asked' \in BOOLEAN /\ page' \in Nat
           /\ \/ pc' = Loops /\ page' \in pages
              \/ pc' = Done
  <1> DEFINE rest == {p \in pages : p >= from}
             next == CHOOSE p \in rest : \A q \in rest : p <= q
  <1>1. CASE rest # {}
    <2>1. rest \subseteq Nat
      OBVIOUS
    <2>2. next \in rest
      BY <1>1, <2>1, FirstOf
    <2>3. Goto(Loops) /\ page' = next
      BY <1>1 DEF LoopFrom, Loops
    <2> HIDE DEF next
    <2> QED
      BY <2>2, <2>3 DEF Goto
  <1>2. CASE rest = {}
    <2>1. Goto(Done) /\ page' = from
      BY <1>2 DEF LoopFrom, Done
    <2> HIDE DEF rest
    <2> QED
      BY <2>1 DEF Goto
  <1> QED
    BY <1>1, <1>2

LEMMA EnableTyped ==
    ASSUME ImageType
    PROVE  enable \subseteq Nat
  <1>1. rombuf = <<>> => DOMAIN rombuf = {}
    OBVIOUS
  <1>2. \A a \in DOMAIN rombuf : a \in Nat
    BY <1>1 DEF ImageType
  <1>3. \A a \in Nat : PageIn(pagesize, a) \in Nat
    BY PageInIs DEF ImageType
  <1> QED
    BY <1>2, <1>3 DEF ImageType

\* The image stays as it is while its pages are written.
LEMMA LoopTyped ==
    ASSUME TypeInv, NEW from \in Nat, LoopFrom(from, enable), pc \in Looping, Rest,
           UNCHANGED <<tries, sent, rate, devcode>>, UNCHANGED <<area, pagesize, rombuf, enable>>
    PROVE  ControlType' /\ ImageType'
  <1>1. enable \subseteq Nat /\ ControlType /\ ImageType /\ scenario' = scenario
    BY EnableTyped DEF TypeInv, Rest
  <1>2. /\ asked' \in BOOLEAN /\ page' \in Nat /\ pc' \in {"page", "high", "end", "successed"}
        /\ pc' \in {"page", "high"} => page' \in enable
    <2>1. \/ pc' = Loops /\ page' \in enable
          \/ pc' = Done
      BY <1>1, LoopIs
    <2>2. Loops \in {"page", "high"} /\ Done \in {"end", "successed"}
      BY DEF Loops, Done
    <2> QED
      BY <1>1, <2>1, <2>2, LoopIs
  <1>3. ControlType'
    <2>1. /\ tries' \in 0..TRIES /\ rate' \in {9600, 19200} /\ devcode' \in Bytes
          /\ Len(devcode') <= 2 /\ sent' \in 0..(Len(TransferBytes') - 1)
      BY <1>1 DEF ControlType, TransferBytes, Program
    <2> QED
      BY <1>2, <2>1 DEF ControlType, Asking, Ended, OnlyModern
  <1>4. ImageType'
    <2>1. pc' \notin Early /\ (pc' \in AtPage => page' \in enable)
      BY <1>2 DEF Early, Asking, Looping, AtPage
    <2>2. /\ area' \in Int \X Int /\ pagesize' \in Nat
          /\ rombuf' = <<>> \/ rombuf' \in [0..area[2] -> Byte]
          /\ enable' \subseteq {PageIn(pagesize, a) : a \in DOMAIN rombuf}
          /\ area[2] <= RomEnd /\ PageIn(pagesize, area[2]) < ENABLE_SIZE
          /\ scenario.cpu # "3069" => pagesize = PAGE_SIZE
      BY <1>1 DEF ImageType
    <2> QED
      BY <1>1, <1>2, <2>1, <2>2 DEF ImageType
  <1> QED
    BY <1>3, <1>4

LEMMA ReadFileTyped ==
    ASSUME TypeInv, ReadFile
    PROVE  TypeInv'
  <1> DEFINE image == ImageOf(Len(Lines))
  <1>1. /\ pc = "read" /\ Rest /\ UNCHANGED <<tries, sent, rate, devcode>>
        /\ UNCHANGED <<area, pagesize>> /\ UNCHANGED rx /\ UNCHANGED misheard
    BY DEF ReadFile
  <1>2. ControlType /\ ImageType /\ skipped \in BOOLEAN /\ misheard \in BOOLEAN
        /\ scenario \in Scenario /\ rx \in Bytes
    BY DEF TypeInv, WorldType, LineType
  <1>3. /\ tries' \in 0..TRIES /\ rate' \in {9600, 19200} /\ devcode' \in Bytes /\ Len(devcode') <= 2
        /\ sent' \in 0..(Len(TransferBytes') - 1) /\ scenario' = scenario
        /\ area' \in Int \X Int /\ pagesize' \in Nat /\ rx' \in Bytes /\ misheard' \in BOOLEAN
    BY <1>1, <1>2 DEF ControlType, ImageType, TransferBytes, Program, Rest
  <1>4. CASE ~scenario.readable \/ Overruns
    <2>1. /\ Goto(IF scenario.readable THEN "overrun" ELSE "fatal")
          /\ UNCHANGED <<rombuf, enable, page>> /\ UNCHANGED skipped
      BY <1>4 DEF ReadFile
    <2>2. pc' \in {"overrun", "fatal"} /\ asked' \in BOOLEAN
      BY <2>1 DEF Goto
    <2>3. ControlType'
      BY <1>3, <2>2 DEF ControlType, Ended, OnlyModern
    <2>4. ImageType'
      <3>1. pc' \in Ended
        BY <2>2 DEF Ended
      <3> QED
        BY <1>1, <1>2, <2>1, <3>1, ImageStays
    <2>5. {skipped, misheard}' \subseteq BOOLEAN
      BY <1>2, <1>3, <2>1
    <2> QED
      BY <1>1, <1>3, <2>3, <2>4, <2>5, RestTyped DEF TypeInv
  <1>5. CASE ~(~scenario.readable \/ Overruns)
    <2>1. /\ rombuf' = image.rom /\ enable' = image.pages /\ skipped' = image.skipped
          /\ \/ LoopFrom(0, enable')
             \/ Goto("start") /\ UNCHANGED page
      BY <1>5 DEF ReadFile
    <2>2. image \in ImageSet
      BY <1>2, ImageTyped
    <2> HIDE DEF image
    <2>3. /\ rombuf' \in [0..area[2] -> Byte] /\ skipped' \in BOOLEAN
          /\ enable' \subseteq {PageIn(pagesize, a) : a \in 0..area[2]}
      BY <2>1, <2>2 DEF ImageSet
    <2>4. enable' \subseteq Nat
      <3>1. \A a \in Nat : PageIn(pagesize, a) \in Nat
        BY <1>2, PageInIs DEF ImageType
      <3> QED
        BY <2>3, <3>1
    <2>5. /\ asked' \in BOOLEAN /\ page' \in Nat
          /\ pc' \in {"page", "high", "end", "successed", "start"}
          /\ pc' \in {"page", "high"} => page' \in enable'
      <3>1. CASE LoopFrom(0, enable')
        <4>1. 0 \in Nat
          OBVIOUS
        <4>2. /\ asked' \in BOOLEAN /\ page' \in Nat
              /\ \/ pc' = Loops /\ page' \in enable'
                 \/ pc' = Done
          BY <2>4, <3>1, <4>1, LoopIs
        <4>3. Loops \in {"page", "high"} /\ Done \in {"end", "successed"}
          BY DEF Loops, Done
        <4> QED
          BY <4>2, <4>3
      <3>2. CASE Goto("start") /\ UNCHANGED page
        BY <1>2, <3>2 DEF Goto, ImageType
      <3> QED
        BY <2>1, <3>1, <3>2
    <2>6. ControlType'
      BY <1>3, <2>5 DEF ControlType, Asking, Ended, OnlyModern
    <2>7. ImageType'
      <3>1. area'[2] <= RomEnd /\ PageIn(pagesize', area'[2]) < ENABLE_SIZE
        <4>1. area[2] <= RomEnd /\ PageIn(pagesize, area[2]) < ENABLE_SIZE
          <5>1. area[2] \in Int /\ RomEnd \in Int
            BY <1>2, Sizes DEF ImageType
          <5>2. ~(area[2] > RomEnd) /\ ~(PageIn(pagesize, area[2]) >= ENABLE_SIZE)
            BY <1>5, PageOfIs DEF Overruns
          <5>3. PageIn(pagesize, area[2]) \in Int
            <6>1. CASE area[2] >= 0
              BY <1>2, <5>1, <6>1, PageInIs DEF ImageType
            <6>2. CASE area[2] < 0
              <7> DEFINE m == TwoTo(PageBit(pagesize))
              <7>1. m \in Nat \ {0}
                BY <1>2, PageBitIs, PowerPositive DEF ImageType
              <7>2. PageIn(pagesize, area[2]) = area[2] \div m
                BY DEF PageIn, TwoTo
              <7> HIDE DEF m
              <7> QED
                BY <5>1, <7>1, <7>2
            <6> QED
              BY <5>1, <6>1, <6>2
          <5>4. ENABLE_SIZE \in Int
            BY Sizes
          <5> QED
            BY <5>1, <5>2, <5>3, <5>4
        <4> QED
          BY <1>1, <4>1
      <3>2. pc' \notin Early /\ (pc' \in AtPage => page' \in enable')
        BY <2>5 DEF Early, Asking, Looping, AtPage
      <3>3. enable' \subseteq {PageIn(pagesize', a) : a \in DOMAIN rombuf'}
        BY <1>1, <2>3
      <3>4. rombuf' \in [0..area'[2] -> Byte]
        BY <1>1, <2>3
      <3> QED
        BY <1>1, <1>2, <1>3, <2>5, <3>1, <3>2, <3>3, <3>4 DEF ImageType
    <2>8. {skipped, misheard}' \subseteq BOOLEAN
      BY <1>3, <2>3
    <2> QED
      BY <1>1, <1>3, <2>6, <2>7, <2>8, RestTyped DEF TypeInv
  <1> QED
    BY <1>4, <1>5

LEMMA FatalTyped ==
    ASSUME TypeInv, Goto("fatal"), UNCHANGED <<tries, sent, rate, devcode>>, Rest,
           UNCHANGED <<area, pagesize, rombuf, enable, page>>
    PROVE  ControlType' /\ ImageType'
  <1>1. pc' = "fatal" /\ asked' \in BOOLEAN /\ pc' \in Ended
    BY DEF Goto, Ended
  <1>2. ControlType'
    BY <1>1 DEF TypeInv, ControlType, OnlyModern, TransferBytes, Program
  <1>3. ImageType'
    BY <1>1, ImageStays DEF TypeInv
  <1> QED
    BY <1>2, <1>3

LEMMA StartTyped ==
    ASSUME TypeInv, Start
    PROVE  TypeInv'
  <1>1. /\ pc = "start" /\ Got(1) /\ Took(1) /\ Rest
        /\ UNCHANGED <<tries, sent, rate, devcode>> /\ UNCHANGED <<area, pagesize, rombuf, enable>>
        /\ UNCHANGED <<skipped, misheard>>
        /\ LoopFrom(0, enable) \/ (Goto("fatal") /\ UNCHANGED page)
    BY DEF Start
  <1>2. ControlType' /\ ImageType'
    <2>1. CASE LoopFrom(0, enable)
      <3>1. 0 \in Nat
        OBVIOUS
      <3> QED
        BY <1>1, <2>1, <3>1, LoopTyped DEF Looping
    <2>2. CASE Goto("fatal") /\ UNCHANGED page
      BY <1>1, <2>2, FatalTyped
    <2> QED
      BY <1>1, <2>1, <2>2
  <1>3. LineType' /\ DeviceType' /\ WorldType'
    <2>1. rx' \in Bytes
      <3>1. rx \in Bytes /\ 1 \in Nat
        BY DEF TypeInv, LineType
      <3> QED
        BY <1>1, <3>1, TookTyped
    <2>2. {skipped, misheard}' \subseteq BOOLEAN
      BY <1>1 DEF TypeInv, WorldType
    <2> QED
      BY <1>1, <2>1, <2>2, RestTyped
  <1> QED
    BY <1>2, <1>3 DEF TypeInv

LEMMA PageWrittenTyped ==
    ASSUME TypeInv, PageWritten
    PROVE  TypeInv'
  <1> DEFINE n == IF scenario.cpu = "3069" THEN 1 ELSE pagesize + 1
  <1>1. /\ pc = "page" /\ Got(n) /\ Took(n) /\ Rest
        /\ UNCHANGED <<tries, sent, rate, devcode>> /\ UNCHANGED <<area, pagesize, rombuf, enable>>
        /\ UNCHANGED <<skipped, misheard>>
        /\ LoopFrom(page + 1, enable) \/ (Goto("fatal") /\ UNCHANGED page)
    BY DEF PageWritten
  <1>2. n \in Nat /\ page + 1 \in Nat
    BY DEF TypeInv, ImageType
  <1> HIDE DEF n
  <1>3. ControlType' /\ ImageType'
    <2>1. CASE LoopFrom(page + 1, enable)
      BY <1>1, <1>2, <2>1, LoopTyped DEF Looping, AtPage
    <2>2. CASE Goto("fatal") /\ UNCHANGED page
      BY <1>1, <2>2, FatalTyped
    <2> QED
      BY <1>1, <2>1, <2>2
  <1>4. LineType' /\ DeviceType' /\ WorldType'
    <2>1. rx' \in Bytes
      BY <1>1, <1>2, TookTyped DEF TypeInv, LineType
    <2>2. {skipped, misheard}' \subseteq BOOLEAN
      BY <1>1 DEF TypeInv, WorldType
    <2> QED
      BY <1>1, <2>1, <2>2, RestTyped
  <1> QED
    BY <1>3, <1>4 DEF TypeInv

LEMMA NumberTyped ==
    ASSUME TypeInv, NEW q, NEW to, q \in AtPage, to \in AtPage, NumberTold(q, to)
    PROVE  TypeInv'
  <1>1. /\ pc = q /\ Got(1) /\ Took(1) /\ pc' = to /\ asked' \in BOOLEAN /\ Rest
        /\ UNCHANGED <<tries, sent, rate, devcode>>
        /\ UNCHANGED <<area, pagesize, rombuf, enable, page>> /\ UNCHANGED <<skipped, misheard>>
    BY DEF NumberTold, Goto
  <1>2. ControlType /\ ImageType /\ scenario' = scenario /\ rx \in Bytes /\ 1 \in Nat
    BY <1>1 DEF TypeInv, Rest, LineType
  <1>3. pc \in Looping /\ pc' \in Looping /\ pc' \notin Early /\ pc' \in Asking /\ pc' \notin OnlyModern
        /\ pc' \notin {"rate", "check", "query_device"}
    BY <1>1 DEF Looping, AtPage, Early, Asking, OnlyModern
  <1>4. ControlType'
    <2>1. TransferBytes' = TransferBytes
      BY DEF TransferBytes, Program
    <2> QED
      BY <1>1, <1>2, <1>3, <2>1 DEF ControlType
  <1>5. ImageType'
    BY <1>1, <1>2, <1>3 DEF ImageType
  <1>6. LineType' /\ DeviceType' /\ WorldType'
    <2>1. rx' \in Bytes
      BY <1>1, <1>2, TookTyped
    <2>2. {skipped, misheard}' \subseteq BOOLEAN
      BY <1>1 DEF TypeInv, WorldType
    <2> QED
      BY <1>1, <2>1, <2>2, RestTyped
  <1> QED
    BY <1>4, <1>5, <1>6 DEF TypeInv

LEMMA NumbersTyped ==
    ASSUME TypeInv, PageHigh \/ PageLow
    PROVE  TypeInv'
  <1>1. "high" \in AtPage /\ "low" \in AtPage /\ "page" \in AtPage
    BY DEF AtPage
  <1> QED
    BY <1>1, NumberTyped DEF PageHigh, PageLow

LEMMA WriterTyped ==
    ASSUME TypeInv, Writer
    PROVE  TypeInv'
  BY AskTyped, SetBitRateTyped, SimplesTyped, QueriesTyped, QueryDeviceTyped, SetRateTyped,
     QueryAreaTyped, QueryPagesizeTyped, TransferTyped, ReadFileTyped, StartTyped,
     NumbersTyped, PageWrittenTyped DEF Writer, Answer

-------------------------------------------------------------------------------
(***************************************************************************)
(* The steps of the device, of the line and of the user.                   *)
(***************************************************************************)
LEMMA StepTyped ==
    ASSUME NEW s \in Steps
    PROVE  s[3] \in DevStates
  BY DEF Steps, DevStates

LEMMA AnswerTyped ==
    ASSUME TypeInv, NEW to \in DevStates, NEW answer \in Bytes, Becomes(to, answer)
    PROVE  dev' \in DevStates /\ rx' \in Bytes
  <1>1. rx \in Bytes /\ dev' = to /\ rx' = rx \o answer
    BY DEF TypeInv, LineType, Becomes
  <1>2. rx \o answer \in Bytes
    BY <1>1, Concats
  <1> QED
    BY <1>1, <1>2

LEMMA StaysTyped ==
    ASSUME TypeInv, NEW answer \in Bytes, Stays(answer)
    PROVE  RomType' /\ rx' \in Bytes
  <1>1. dev \in DevStates /\ Becomes(dev, answer) /\ UNCHANGED <<devrate, flash>>
    BY DEF Stays, TypeInv, DeviceType, RomType
  <1>2. dev' \in DevStates /\ rx' \in Bytes
    BY <1>1, AnswerTyped
  <1> QED
    BY <1>1, <1>2 DEF TypeInv, DeviceType, RomType

LEMMA SmallAnswers ==
    /\ <<>> \in Bytes /\ \A b \in Byte : <<b>> \in Bytes
    /\ {0, 6, 17, 40, 83, 128, 170, 230, 255} \subseteq Byte
  BY DEF Bytes, Byte

LEMMA MatchingTyped ==
    ASSUME TypeInv, NEW q, Matching(q), dev \in {"rate", "check"}
    PROVE  RomType' /\ rx' \in Bytes /\ UNCHANGED heard
  <1>1. /\ UNCHANGED <<devrate, flash>> /\ UNCHANGED heard
        /\ \/ Becomes("check", <<0>>) \/ Becomes("rate", <<>>) \/ Becomes("rate", <<255>>)
           \/ Becomes("query", <<230>>) \/ Becomes("loader", <<170>>)
    BY DEF Matching
  <1>2. /\ <<0>> \in Bytes /\ <<>> \in Bytes /\ <<255>> \in Bytes /\ <<230>> \in Bytes
        /\ <<170>> \in Bytes
    BY SmallAnswers
  <1>3. {"check", "rate", "query", "loader"} \subseteq DevStates
    BY DEF DevStates
  <1>4. dev' \in DevStates /\ rx' \in Bytes
    BY <1>1, <1>2, <1>3, AnswerTyped
  <1> QED
    BY <1>1, <1>4 DEF TypeInv, DeviceType, RomType

LEMMA Program128Typed ==
    ASSUME TypeInv, NEW q \in Bytes, Program128(q), dev = "program"
    PROVE  RomType' /\ rx' \in Bytes
  <1> DEFINE start == Long(SubSeq(q, 2, 5))
             written == [a \in 0..RomEnd |-> IF a - start \in 0..(PAGE_SIZE - 1)
                                             THEN q[6 + a - start] ELSE flash[a]]
  <1>1. /\ <<6>> \in Bytes /\ <<>> \in Bytes /\ <<17>> \in Bytes /\ <<40>> \in Bytes
    BY SmallAnswers
  <1>2. "done" \in DevStates /\ dev \in DevStates
    BY DEF DevStates
  <1>3. CASE Becomes("done", <<6>>) /\ UNCHANGED <<devrate, flash>>
    <2>1. dev' \in DevStates /\ rx' \in Bytes
      BY <1>1, <1>2, <1>3, AnswerTyped
    <2> QED
      BY <1>3, <2>1 DEF TypeInv, DeviceType, RomType
  <1>4. CASE Stays(<<>>) \/ Stays(<<17>>) \/ Stays(<<40>>)
    BY <1>1, <1>4, StaysTyped
  <1>5. CASE /\ Len(q) = 6 + PAGE_SIZE /\ start \in 0..RomEnd
             /\ flash' = written /\ Becomes(dev, <<6>>) /\ UNCHANGED devrate
    <2>1. dev' \in DevStates /\ rx' \in Bytes
      BY <1>1, <1>2, <1>5, AnswerTyped
    <2>2. flash' \in [0..RomEnd -> Byte]
      <3>1. PAGE_SIZE \in Nat \ {0} /\ start \in Nat
        BY <1>5, Sizes
      <3>2. \A i \in 1..Len(q) : q[i] \in Byte
        BY DEF Bytes
      <3>3. Len(q) = 6 + PAGE_SIZE /\ flash' = written
        BY <1>5
      <3> HIDE DEF start
      <3>4. \A a \in 0..RomEnd : a - start \in 0..(PAGE_SIZE - 1) => 6 + a - start \in 1..Len(q)
        BY <3>1, <3>3, Sizes
      <3>5. \A a \in 0..RomEnd : flash[a] \in Byte
        BY DEF TypeInv, DeviceType, RomType
      <3>6. \A a \in 0..RomEnd : written[a] \in Byte
        BY <3>2, <3>4, <3>5
      <3>7. written = [a \in 0..RomEnd |-> written[a]]
        OBVIOUS
      <3> HIDE DEF written
      <3> QED
        BY <3>3, <3>6, <3>7
    <2> QED
      BY <1>5, <2>1, <2>2 DEF TypeInv, DeviceType, RomType
  <1> QED
    BY <1>3, <1>4, <1>5 DEF Program128

LEMMA RefusalIs ==
    ASSUME NEW q
    PROVE  Refusal(q) \in Byte
  BY DEF Refusal, Byte

LEMMA ErrorsTyped ==
    ASSUME NEW q \in Bytes
    PROVE  Errors(q) \in Bytes
  <1> DEFINE s == [i \in 1..Len(q) |-> <<128, q[i]>>]
  <1>1. Len(q) \in Nat /\ \A i \in 1..Len(q) : q[i] \in Byte
    BY DEF Bytes
  <1>2. \A x \in Byte : <<128, x>> \in Seq(Byte)
    BY DEF Byte
  <1>3. s \in Seq(Seq(Byte))
    BY <1>1, <1>2
  <1>4. Errors(q) = FlattenSeq(s)
    BY DEF Errors
  <1> HIDE DEF s
  <1>5. Seqs!FlattenSeq(s) \in Seq(Byte)
    BY <1>3, JoinedType
  <1>6. FlattenSeq(s) = Seqs!FlattenSeq(s)
    BY DEF FlattenSeq, Seqs!FlattenSeq
  <1> QED
    BY <1>4, <1>5, <1>6 DEF Bytes

LEMMA SizeOfIs ==
    ASSUME NEW c
    PROVE  SizeOf(c) \in {1, 4, 5, 10}
  BY DEF SizeOf

\* What comes after the first n bytes.
LEMMA RestIs ==
    ASSUME NEW q \in Bytes, NEW n \in Nat, n <= Len(q)
    PROVE  SubSeq(q, n + 1, Len(q)) \in Bytes
  <1>1. n + 1 \in Nat \ {0} /\ Len(q) \in Nat /\ Len(q) <= Len(q)
    BY DEF Bytes
  <1> QED
    BY <1>1, Parts

\* The cases of Query, with the parts of q as the parameters they are.
QueryCase(q, step, f, rest) ==
    \/ q[1] \in DOMAIN Info /\ Stays(Info[q[1]] \o Errors(Tail(q)))
    \/ dev = "program" /\ q[1] = 80 /\ Program128(q)
    \/ step # {} /\ Stays(<<>>)
    \/ /\ step # {} /\ SizeOf(q[1]) <= Len(q)
       /\ Stays(<<q[1] + 128, Refusal(f)>> \o Errors(rest))
    \/ /\ step # {} /\ SizeOf(q[1]) <= Len(q) /\ Refusal(f) = 0
       /\ Becomes((CHOOSE s \in step : TRUE)[3], <<6>> \o Errors(rest))
       /\ devrate' = (IF q[1] = 63 THEN 19200 ELSE devrate)
       /\ flash'   = (IF q[1] = 64 THEN Erased ELSE flash)
    \/ Stays(Errors(q))
StepOf(q)  == {s \in Steps : s[1] = dev /\ s[2] = q[1]}
FirstOfQ(q) == SubSeq(q, 1, SizeOf(q[1]))
RestOfQ(q) == SubSeq(q, SizeOf(q[1]) + 1, Len(q))

LEMMA QueryIs ==
    ASSUME NEW q \in Bytes, Query(q)
    PROVE  /\ QueryCase(q, StepOf(q), FirstOfQ(q), RestOfQ(q))
           /\ heard' = IF StepOf(q) # {} /\ Len(q) < SizeOf(q[1]) THEN q ELSE <<>>
  <1> DEFINE step == StepOf(q)
             n    == SizeOf(q[1])
             f    == FirstOfQ(q)
             rest == RestOfQ(q)
  <1>1. /\ heard' = IF step # {} /\ Len(q) < n THEN q ELSE <<>>
        /\ CASE q[1] \in DOMAIN Info -> Stays(Info[q[1]] \o Errors(Tail(q)))
             [] dev = "program" /\ q[1] = 80 -> Program128(q)
             [] step # {} /\ Len(q) < n -> Stays(<<>>)
             [] step # {} /\ Len(q) >= n /\ Refusal(f) # 0 ->
                    Stays(<<q[1] + 128, Refusal(f)>> \o Errors(rest))
             [] step # {} /\ Len(q) >= n /\ Refusal(f) = 0 ->
                    /\ Becomes((CHOOSE s \in step : TRUE)[3], <<6>> \o Errors(rest))
                    /\ devrate' = IF q[1] = 63 THEN 19200 ELSE devrate
                    /\ flash'   = IF q[1] = 64 THEN Erased ELSE flash
             [] OTHER -> Stays(Errors(q))
    BY DEF Query, StepOf, FirstOfQ, RestOfQ
  <1>2. n \in Int /\ Len(q) \in Int
    BY SizeOfIs DEF Bytes
  <1> HIDE DEF step, n, f, rest
  <1>3. Len(q) >= n => n <= Len(q)
    BY <1>2
  <1>4. QueryCase(q, step, f, rest)
    BY <1>1, <1>3 DEF QueryCase, n
  <1> QED
    BY <1>1, <1>4 DEF step, n, f, rest

LEMMA QueryTyped ==
    ASSUME TypeInv, NEW q \in Asked, Query(q)
    PROVE  RomType' /\ rx' \in Bytes /\ heard' \in Bytes
  <1> DEFINE step == StepOf(q)
             f    == FirstOfQ(q)
             rest == RestOfQ(q)
             to   == (CHOOSE s \in step : TRUE)[3]
  <1>1. q \in Bytes /\ Tail(q) \in Bytes
    BY DEF Asked, Bytes
  <1>2. SizeOf(q[1]) <= Len(q) => rest \in Bytes
    <2>1. SizeOf(q[1]) \in Nat
      BY SizeOfIs
    <2> QED
      BY <1>1, <2>1, RestIs DEF RestOfQ
  <1>3. /\ QueryCase(q, step, f, rest)
        /\ heard' = IF StepOf(q) # {} /\ Len(q) < SizeOf(q[1]) THEN q ELSE <<>>
    BY <1>1, QueryIs
  <1>4. heard' \in Bytes
    BY <1>1, <1>3, SmallAnswers
  <1>5. step \subseteq Steps /\ (step # {} => q[1] \in {16, 17, 63, 6, 64, 67})
    BY DEF StepOf, Steps
  <1> HIDE DEF step, f, rest
  <1>6. RomType' /\ rx' \in Bytes
    <2>1. CASE q[1] \in DOMAIN Info /\ Stays(Info[q[1]] \o Errors(Tail(q)))
      <3>1. Info[q[1]] \in Bytes /\ Errors(Tail(q)) \in Bytes
        BY <1>1, <2>1, InfoTyped, ErrorsTyped
      <3>2. Info[q[1]] \o Errors(Tail(q)) \in Bytes
        BY <3>1, Concats
      <3> QED
        BY <2>1, <3>2, StaysTyped
    <2>2. CASE dev = "program" /\ q[1] = 80 /\ Program128(q)
      BY <1>1, <2>2, Program128Typed
    <2>3. CASE step # {} /\ Stays(<<>>)
      BY <2>3, SmallAnswers, StaysTyped
    <2>4. CASE /\ step # {} /\ SizeOf(q[1]) <= Len(q)
               /\ Stays(<<q[1] + 128, Refusal(f)>> \o Errors(rest))
      <3>0. q[1] \in {16, 17, 63, 6, 64, 67}
        BY <1>5, <2>4, Zenon
      <3>1. q[1] + 128 \in Byte
        BY <3>0 DEF Byte
      <3>2. \A x, y \in Byte : <<x, y>> \in Bytes
        BY DEF Bytes
      <3>3. <<q[1] + 128, Refusal(f)>> \in Bytes /\ Errors(rest) \in Bytes
        BY <1>2, <2>4, <3>1, <3>2, RefusalIs, ErrorsTyped
      <3>4. <<q[1] + 128, Refusal(f)>> \o Errors(rest) \in Bytes
        BY <3>3, Concats
      <3> QED
        BY <2>4, <3>4, StaysTyped
    <2>5. CASE /\ step # {} /\ SizeOf(q[1]) <= Len(q) /\ Refusal(f) = 0
               /\ Becomes((CHOOSE s \in step : TRUE)[3], <<6>> \o Errors(rest))
               /\ devrate' = (IF q[1] = 63 THEN 19200 ELSE devrate)
               /\ flash'   = (IF q[1] = 64 THEN Erased ELSE flash)
      <3>1. to \in DevStates
        <4>1. (CHOOSE s \in step : TRUE) \in Steps
          BY <1>5, <2>5
        <4> QED
          BY <4>1, StepTyped
      <3>2. <<6>> \in Bytes /\ Errors(rest) \in Bytes
        BY <1>2, <2>5, SmallAnswers, ErrorsTyped
      <3>3. <<6>> \o Errors(rest) \in Bytes
        BY <3>2, Concats
      <3>4. Becomes(to, <<6>> \o Errors(rest))
        BY <2>5
      <3> HIDE DEF to
      <3>5. dev' \in DevStates /\ rx' \in Bytes
        BY <3>1, <3>3, <3>4, AnswerTyped
      <3>6. Erased \in [0..RomEnd -> Byte]
        BY DEF Erased, Blank, Byte
      <3>7. flash' \in [0..RomEnd -> Byte]
        BY <2>5, <3>6 DEF TypeInv, DeviceType, RomType
      <3>8. devrate' \in {9600, 19200}
        BY <2>5 DEF TypeInv, DeviceType, RomType
      <3> QED
        BY <3>5, <3>7, <3>8 DEF RomType
    <2>6. CASE Stays(Errors(q))
      BY <1>1, <2>6, ErrorsTyped, StaysTyped
    <2> QED
      BY <1>3, <2>1, <2>2, <2>3, <2>4, <2>5, <2>6 DEF QueryCase
  <1> QED
    BY <1>4, <1>6

LEMMA LoaderTyped ==
    ASSUME TypeInv, NEW b \in Byte, LoaderByte(b)
    PROVE  RomType' /\ rx' \in Bytes /\ heard' \in Bytes
  <1> DEFINE h  == Append(heard, b)
             to == IF SubSeq(h, 3, Len(h)) = Program THEN "loaded" ELSE "lost"
  <1>1. h \in Bytes /\ <<>> \in Bytes /\ <<b>> \in Bytes
    BY Appends, SmallAnswers DEF TypeInv, DeviceType
  <1>2. to \in DevStates
    BY DEF DevStates
  <1>3. \/ Becomes(to, <<b, 170>>) /\ heard' = <<>> /\ flash' = Erased /\ UNCHANGED devrate
        \/ Stays(<<b>>) /\ heard' = h
    BY DEF LoaderByte
  <1> HIDE DEF h, to
  <1>4. <<b, 170>> \in Bytes
    <2>1. \A x, y \in Byte : <<x, y>> \in Bytes
      BY DEF Bytes
    <2>2. 170 \in Byte
      BY SmallAnswers
    <2> QED
      BY <2>1, <2>2
  <1>5. CASE Becomes(to, <<b, 170>>) /\ heard' = <<>> /\ flash' = Erased /\ UNCHANGED devrate
    <2>1. dev' \in DevStates /\ rx' \in Bytes
      BY <1>2, <1>4, <1>5, AnswerTyped
    <2>2. flash' \in [0..RomEnd -> Byte]
      BY <1>5 DEF Erased, Blank, Byte
    <2> QED
      BY <1>1, <1>5, <2>1, <2>2 DEF TypeInv, DeviceType, RomType
  <1>6. CASE Stays(<<b>>) /\ heard' = h
    BY <1>1, <1>6, StaysTyped
  <1> QED
    BY <1>3, <1>5, <1>6

LEMMA ProgramTyped ==
    ASSUME TypeInv, NEW b \in Byte, ProgramByte(b)
    PROVE  RomType' /\ rx' \in Bytes /\ heard' \in Bytes
  <1>1. heard' = Append(heard, b) /\ (Stays(<<b>>) \/ Stays(<<>>))
    BY DEF ProgramByte
  <1>2. heard' \in Bytes /\ <<b>> \in Bytes /\ <<>> \in Bytes
    BY <1>1, Appends, SmallAnswers DEF TypeInv, DeviceType
  <1> QED
    BY <1>1, <1>2, StaysTyped

LEMMA CommonIs ==
    ASSUME NEW c, NEW d, NEW k
    PROVE  Common(c, d, k) \in {0, TwoTo(k)}
  BY DEF Common, TwoTo

LEMMA AndTyped ==
    ASSUME NEW c, NEW d
    PROVE  And(c, d) \in Byte
  <1>1. /\ Common(c, d, 0) \in {0, 1} /\ Common(c, d, 1) \in {0, 2}
        /\ Common(c, d, 2) \in {0, 4} /\ Common(c, d, 3) \in {0, 8}
        /\ Common(c, d, 4) \in {0, 16} /\ Common(c, d, 5) \in {0, 32}
        /\ Common(c, d, 6) \in {0, 64} /\ Common(c, d, 7) \in {0, 128}
    BY CommonIs, PowersOfBits
  <1> QED
    BY <1>1, SMT DEF And, Byte

LEMMA BurnTyped ==
    ASSUME TypeInv, Burn
    PROVE  TypeInv'
  <1> DEFINE a     == PageAt + burnt
             last  == burnt + 1 = PAGE_SIZE
             shown == IF heard[1] = 1 THEN <<Shown(a)>> ELSE <<>>
             said  == IF ~last THEN <<>> ELSE IF PageOk THEN <<83>> ELSE <<70>>
  <1>1. /\ dev = "loaded" /\ Len(heard) = 3 + PAGE_SIZE
        /\ flash' = [b \in 0..RomEnd |-> IF b = a THEN And(flash[b], heard[4 + burnt])
                                                  ELSE flash[b]]
        /\ Becomes(dev, shown \o said)
        /\ burnt' = (IF last THEN 0 ELSE burnt + 1)
        /\ heard' = (IF last THEN <<heard[1]>> ELSE heard)
        /\ UNCHANGED <<writer, tx, devrate, world>>
    BY DEF Burn
  <1>2. /\ PAGE_SIZE \in Nat \ {0} /\ heard \in Bytes /\ burnt \in 0..(PAGE_SIZE - 1)
        /\ flash \in [0..RomEnd -> Byte] /\ dev \in DevStates /\ devrate \in {9600, 19200}
    BY Sizes DEF TypeInv, DeviceType, RomType
  <1>3. flash' \in [0..RomEnd -> Byte]
    <2>1. \A b \in 0..RomEnd : (IF b = a THEN And(flash[b], heard[4 + burnt]) ELSE flash[b]) \in Byte
      BY <1>2, AndTyped
    <2> QED
      BY <1>1, <2>1
  <1>4. shown \in Bytes
    <2>1. Shown(a) \in Byte
      BY <1>3 DEF Shown, Blank, Byte
    <2> QED
      BY <2>1, SmallAnswers
  <1>5. said \in Bytes
    <2>1. <<>> \in Bytes /\ <<83>> \in Bytes /\ <<70>> \in Bytes
      BY DEF Bytes, Byte
    <2> QED
      BY <2>1, Zenon
  <1>6. burnt' \in 0..(PAGE_SIZE - 1)
    BY <1>1, <1>2
  <1>7. heard' \in Bytes
    <2>1. heard[1] \in Byte
      BY <1>1, <1>2 DEF Bytes
    <2> QED
      BY <1>1, <1>2, <2>1, SmallAnswers
  <1> HIDE DEF shown, said, last, a
  <1>8. shown \o said \in Bytes
    BY <1>4, <1>5, Concats
  <1>9. dev' \in DevStates /\ rx' \in Bytes
    BY <1>1, <1>2, <1>8, AnswerTyped
  <1>10. ControlType' /\ ImageType' /\ WorldType'
    <2>1. ControlType'
      BY <1>1 DEF TypeInv, ControlType, writer, world, TransferBytes, Program
    <2>2. ImageType'
      BY <1>1 DEF TypeInv, ImageType, writer, world
    <2>3. WorldType'
      BY <1>1 DEF TypeInv, WorldType, world
    <2> QED
      BY <2>1, <2>2, <2>3
  <1>11. DeviceType'
    BY <1>1, <1>2, <1>3, <1>6, <1>7, <1>9 DEF DeviceType, RomType
  <1>12. LineType'
    BY <1>1, <1>9 DEF TypeInv, LineType
  <1> QED
    BY <1>10, <1>11, <1>12 DEF TypeInv

\* The questions that are left when one, or the first byte of one, is taken.
LEMMA HeadTaken ==
    ASSUME tx \in Seq(Asked), tx # <<>>
    PROVE  /\ Head(tx) \in Asked /\ tx[1] = Head(tx) /\ Head(tx)[1] \in Byte
           /\ Tail(tx) \in Seq(Asked) /\ (ByteTaken => tx' \in Seq(Asked))
  <1>1. Head(tx) \in Asked /\ tx[1] = Head(tx) /\ Tail(tx) \in Seq(Asked)
    <2> HIDE DEF Asked
    <2> QED
      OBVIOUS
  <1> DEFINE q == Head(tx)
  <1>2. q \in Bytes /\ q # <<>>
    BY <1>1 DEF Asked
  <1> HIDE DEF q
  <1>3. Len(q) \in Nat \ {0} /\ q[1] \in Byte /\ Tail(q) \in Bytes /\ Len(Tail(q)) = Len(q) - 1
    BY <1>2 DEF Bytes
  <1>4. Len(q) # 1 => Tail(q) \in Asked
    <2>1. Len(q) # 1 => Len(Tail(q)) # 0
      BY <1>3
    <2> QED
      BY <1>3, <2>1, NotEmpty
  <1>5. ByteTaken => tx' \in Seq(Asked)
    <2>1. ByteTaken => tx' = IF Len(q) = 1 THEN Tail(tx) ELSE <<Tail(q)>> \o Tail(tx)
      BY DEF ByteTaken, q
    <2>2. Len(q) # 1 => <<Tail(q)>> \o Tail(tx) \in Seq(Asked)
      <3> DEFINE p == Tail(q)
                 u == Tail(tx)
      <3>1. p \in Asked /\ u \in Seq(Asked) => <<p>> \o u \in Seq(Asked)
        <4> HIDE DEF Asked, p, u
        <4> QED
          OBVIOUS
      <3> QED
        BY <1>1, <1>4, <3>1
    <2> QED
      BY <1>1, <2>1, <2>2
  <1> QED
    BY <1>1, <1>3, <1>5 DEF q

LEMMA DeviceAnswersTyped ==
    ASSUME TypeInv, DeviceAnswers
    PROVE  TypeInv'
  <1>1. /\ tx # <<>> /\ tx \in Seq(Asked) /\ UNCHANGED <<writer, burnt, world>>
        /\ heard \in Bytes /\ burnt \in 0..(PAGE_SIZE - 1)
    BY DEF DeviceAnswers, TypeInv, LineType, DeviceType
  <1>2. /\ Head(tx) \in Asked /\ tx[1][1] \in Byte /\ Tail(tx) \in Seq(Asked)
        /\ (ByteTaken => tx' \in Seq(Asked))
    BY <1>1, HeadTaken
  <1>3. tx' \in Seq(Asked)
    BY <1>2 DEF DeviceAnswers
  <1>4. RomType' /\ rx' \in Bytes /\ heard' \in Bytes
    <2>1. CASE dev \in {"rate", "check"} /\ Matching(Head(tx))
      BY <1>1, <2>1, MatchingTyped
    <2>2. CASE LoaderByte(tx[1][1])
      BY <1>2, <2>2, LoaderTyped
    <2>3. CASE ProgramByte(tx[1][1])
      BY <1>2, <2>3, ProgramTyped
    <2>4. CASE Stays(<<>>) /\ UNCHANGED heard
      BY <1>1, <2>4, SmallAnswers, StaysTyped
    <2>5. CASE Query(heard \o Head(tx))
      <3> DEFINE q == heard \o Head(tx)
      <3>1. Head(tx) \in Bytes /\ Len(Head(tx)) # 0
        BY <1>2 DEF Asked, Bytes
      <3>2. q \in Bytes /\ Len(q) = Len(heard) + Len(Head(tx)) /\ Len(heard) \in Nat
            /\ Len(Head(tx)) \in Nat
        BY <1>1, <3>1, Concats, Zenon
      <3> HIDE DEF q
      <3>3. Len(q) # 0
        BY <3>1, <3>2
      <3>4. q \in Asked
        BY <3>2, <3>3, NotEmpty
      <3> QED
        BY <2>5, <3>4, QueryTyped DEF q
    <2> QED
      BY <2>1, <2>2, <2>3, <2>4, <2>5 DEF DeviceAnswers
  <1>5. ControlType' /\ ImageType' /\ WorldType'
    <2>1. ControlType'
      BY <1>1 DEF TypeInv, ControlType, writer, world, TransferBytes, Program
    <2>2. ImageType'
      BY <1>1 DEF TypeInv, ImageType, writer, world
    <2>3. WorldType'
      BY <1>1 DEF TypeInv, WorldType, world
    <2> QED
      BY <2>1, <2>2, <2>3
  <1>6. DeviceType'
    BY <1>1, <1>4 DEF DeviceType
  <1> QED
    BY <1>3, <1>4, <1>5, <1>6 DEF TypeInv, LineType

\* A flipped bit leaves a question of the same length with another check sum.
LEMMA FlippedIs ==
    ASSUME NEW q \in Bytes, NEW p \in Flipped(q)
    PROVE  p \in Bytes /\ Len(p) = Len(q) /\ CheckSum(p) # CheckSum(q)
  <1>1. PICK i \in 1..Len(q), k \in 0..7 : p = [q EXCEPT ![i] = Flip(@, k)]
    BY DEF Flipped
  <1>2. q[i] \in Byte
    BY DEF Bytes
  <1>3. Flip(q[i], k) \in Byte /\ Flip(q[i], k) # q[i]
    BY <1>2, FlipByte
  <1> DEFINE x == Flip(q[i], k)
  <1>4. p = [q EXCEPT ![i] = x] /\ x \in Byte /\ x # q[i]
    BY <1>1, <1>3
  <1> HIDE DEF x
  <1>5. /\ p \in Bytes /\ Len(p) = Len(q) /\ p[i] = x
        /\ \A j \in 1..Len(q) : j # i => p[j] = q[j]
    BY <1>4 DEF Bytes
  <1>6. p[i] # q[i]
    BY <1>4, <1>5
  <1> QED
    BY <1>5, <1>6, FlipShows

LEMMA LineFlipsTyped ==
    ASSUME TypeInv, LineFlips
    PROVE  TypeInv'
  <1>1. /\ UNCHANGED <<writer, device, reruns, fresh, warm, skipped, misheard, scenario>>
        /\ flips < MAX_FLIPS /\ flips' = flips + 1
    BY DEF LineFlips
  <1>2. rx' \in Bytes /\ tx' \in Seq(Asked)
    <2>1. tx \in Seq(Asked) /\ rx \in Bytes
      BY DEF TypeInv, LineType
    <2>2. CASE rx' \in Flipped(rx) /\ UNCHANGED tx
      BY <2>1, <2>2, FlippedIs
    <2>3. CASE tx # <<>> /\ UNCHANGED rx /\ \E q \in Flipped(Head(tx)) : tx' = <<q>> \o Tail(tx)
      <3>1. PICK q \in Flipped(Head(tx)) : tx' = <<q>> \o Tail(tx)
        BY <2>3
      <3>2. Head(tx) \in Asked /\ Tail(tx) \in Seq(Asked)
        BY <2>1, <2>3, HeadTaken
      <3>3. q \in Bytes /\ Len(q) = Len(Head(tx)) /\ Len(Head(tx)) # 0
        BY <3>2, FlippedIs DEF Asked, Bytes
      <3>4. q \in Asked
        BY <3>3, NotEmpty
      <3> DEFINE u == Tail(tx)
      <3>5. u \in Seq(Asked) => <<q>> \o u \in Seq(Asked)
        <4> HIDE DEF Asked, u
        <4> QED
          BY <3>4
      <3> QED
        BY <2>1, <2>3, <3>1, <3>2, <3>5
    <2> QED
      BY <2>2, <2>3 DEF LineFlips
  <1>3. ControlType'
    BY <1>1 DEF TypeInv, ControlType, writer, TransferBytes, Program
  <1>4. ImageType'
    BY <1>1 DEF TypeInv, ImageType, writer
  <1>5. DeviceType'
    BY <1>1 DEF TypeInv, DeviceType, RomType, device
  <1>6. WorldType'
    <2>1. MAX_FLIPS \in Nat /\ flips \in 0..MAX_FLIPS
      BY ScenarioIs DEF TypeInv, WorldType
    <2>2. flips' \in 0..MAX_FLIPS
      BY <1>1, <2>1
    <2> QED
      BY <1>1, <2>2 DEF TypeInv, WorldType
  <1> QED
    BY <1>2, <1>3, <1>4, <1>5, <1>6 DEF TypeInv, LineType

\* What main begins with, in the first run and in the others.
LEMMA BeginsTyped ==
    ASSUME scenario \in Scenario
    PROVE  /\ StartArea \in Int \X Int /\ StartSize \in Nat
           /\ scenario.cpu # "3069" => StartSize = PAGE_SIZE
           /\ 0 \in 0..TRIES /\ <<>> \in Bytes /\ Len(<<>>) <= 2
           /\ "rate" \in Asking /\ "rate" \in Early /\ 0 \in Nat
           /\ "rate" \notin OnlyModern /\ "rate" \notin Looping /\ "rate" \notin AtPage
           /\ "rate" # "query_device" /\ "rate" \in DevStates
           /\ 0 \in 0..(Len(TransferBytes) - 1) /\ 0 \in 0..(PAGE_SIZE - 1)
  <1>1. /\ StartArea \in Int \X Int /\ StartSize \in Nat
        /\ scenario.cpu # "3069" => StartSize = PAGE_SIZE
    BY Sizes DEF StartArea, StartSize
  <1>2. 0 \in 0..TRIES /\ 0 \in 0..(PAGE_SIZE - 1)
    BY Sizes
  <1>3. 0 \in 0..(Len(TransferBytes) - 1)
    BY TransferBytesTyped
  <1> QED
    BY <1>1, <1>2, <1>3, SmallAnswers DEF Asking, Early, DevStates, Looping, AtPage, OnlyModern

LEMMA ButLast ==
    ASSUME NEW S, NEW s \in Seq(S), s # <<>>
    PROVE  /\ Len(s) - 1 \in Nat /\ s[Len(s)] \in S
           /\ SubSeq(s, 1, Len(s) - 1) \in Seq(S) /\ Len(SubSeq(s, 1, Len(s) - 1)) = Len(s) - 1
           /\ \A i \in 1..(Len(s) - 1) : SubSeq(s, 1, Len(s) - 1)[i] = s[i]
  <1>1. Len(s) \in Nat \ {0}
    OBVIOUS
  <1>2. Len(s) - 1 \in 0..Len(s) /\ Len(s) \in 1..Len(s)
    BY <1>1
  <1>3. SubSeq(s, 1, Len(s) - 1) \in Seq(S)
    BY <1>2
  <1>4. s[Len(s)] \in S
    BY <1>2
  <1> DEFINE n == Len(s) - 1
  <1>5. n \in 0..Len(s) /\ n \in Nat
    BY <1>1
  <1> HIDE DEF n
  <1>6. Len(SubSeq(s, 1, n)) = n /\ \A i \in 1..n : SubSeq(s, 1, n)[i] = s[i]
    BY <1>5, Beginning
  <1> QED
    BY <1>3, <1>4, <1>5, <1>6 DEF n

LEMMA OneMore ==
    ASSUME NEW S, NEW s \in Seq(S), NEW x \in S
    PROVE  /\ Append(s, x) \in Seq(S) /\ Len(Append(s, x)) = Len(s) + 1
           /\ Append(s, x)[Len(s) + 1] = x /\ \A i \in 1..Len(s) : Append(s, x)[i] = s[i]
  OBVIOUS

\* What the stopped writer has left of its last question.
LEMMA LeftTyped ==
    ASSUME tx \in Seq(Asked), NEW left \in LeftOnLine
    PROVE  /\ left \in Seq(Asked) /\ Len(left) \in {Len(tx), Len(tx) - 1}
           /\ \A i \in 1..Len(left) : i \in 1..Len(tx) /\
                  \E n \in 1..Len(tx[i]) : left[i] = SubSeq(tx[i], 1, n)
  <1>0. ASSUME NEW i \in 1..Len(tx) PROVE \E n \in 1..Len(tx[i]) : tx[i] = SubSeq(tx[i], 1, n)
    <2> DEFINE q == tx[i]
    <2>1. q \in Asked
      <3> HIDE DEF Asked
      <3> QED
        OBVIOUS
    <2>2. q \in Bytes /\ q # <<>>
      BY <2>1 DEF Asked
    <2> HIDE DEF q
    <2>3. q = SubSeq(q, 1, Len(q)) /\ Len(q) \in 1..Len(q)
      BY <2>2 DEF Bytes
    <2> QED
      BY <2>3 DEF q
  <1>1. CASE left = tx
    BY <1>0, <1>1
  <1>2. CASE left # tx
    <2> DEFINE m == Len(tx) - 1
               u == SubSeq(tx, 1, m)
               q == tx[Len(tx)]
    <2>1. tx # <<>> /\ left \in {Front(tx)} \cup {Append(Front(tx), SubSeq(Last(tx), 1, k)) : k \in 1..Len(Last(tx))}
      BY <1>2 DEF LeftOnLine
    <2>2. Front(tx) = u /\ Last(tx) = q
      BY DEF Front, Last
    <2>3. /\ m \in Nat /\ Len(tx) = m + 1 /\ u \in Seq(Asked) /\ Len(u) = m
          /\ q \in Asked /\ \A i \in 1..m : u[i] = tx[i] /\ i \in 1..Len(tx)
      <3>1. /\ m \in Nat /\ u \in Seq(Asked) /\ Len(u) = m /\ q \in Asked
            /\ \A i \in 1..m : u[i] = tx[i]
        BY <2>1, ButLast
      <3>2. Len(tx) \in Nat /\ Len(tx) = m + 1
        BY <3>1
      <3> HIDE DEF m, u, q
      <3>3. \A i \in 1..m : i \in 1..Len(tx)
        BY <3>1, <3>2
      <3> QED
        BY <3>1, <3>2, <3>3
    <2>4. q \in Bytes /\ q # <<>>
      BY <2>3 DEF Asked
    <2> HIDE DEF u
    <2>5. CASE left = u
      BY <1>0, <2>3, <2>5
    <2>6. CASE \E k \in 1..Len(q) : left = Append(u, SubSeq(q, 1, k))
      <3>1. PICK k \in 1..Len(q) : left = Append(u, SubSeq(q, 1, k))
        BY <2>6
      <3> DEFINE f == SubSeq(q, 1, k)
      <3>2. Len(q) \in Nat /\ k \in Nat \ {0} /\ k <= Len(q)
        BY <2>4 DEF Bytes
      <3>3. f \in Bytes /\ Len(f) = k
        BY <2>4, <3>2, Parts
      <3>4. f \in Asked /\ left = Append(u, f)
        BY <3>1, <3>2, <3>3, NotEmpty
      <3> HIDE DEF f
      <3>5. /\ left \in Seq(Asked) /\ Len(left) = m + 1 /\ left[m + 1] = f
            /\ \A i \in 1..m : left[i] = u[i]
        <4> HIDE DEF Asked, m
        <4>1. /\ Append(u, f) \in Seq(Asked) /\ Len(Append(u, f)) = Len(u) + 1
              /\ Append(u, f)[Len(u) + 1] = f /\ \A i \in 1..Len(u) : Append(u, f)[i] = u[i]
          BY <2>3, <3>4, OneMore
        <4> QED
          BY <2>3, <3>4, <4>1
      <3>9. m \in Nat
        BY <2>3
      <3> HIDE DEF m, Asked
      <3>6. \A i \in 1..(m + 1) : i = m + 1 \/ i \in 1..m
        BY <3>9
      <3>7. \A i \in 1..m : \E n \in 1..Len(tx[i]) : left[i] = SubSeq(tx[i], 1, n)
        BY <1>0, <2>3, <3>5
      <3>8. \E n \in 1..Len(tx[m + 1]) : left[m + 1] = SubSeq(tx[m + 1], 1, n)
        BY <2>3, <3>1, <3>5 DEF f
      <3> QED
        BY <2>3, <3>5, <3>6, <3>7, <3>8
    <2> QED
      BY <2>1, <2>2, <2>5, <2>6
  <1> QED
    BY <1>1, <1>2

LEMMA RerunTyped ==
    ASSUME TypeInv, Rerun
    PROVE  TypeInv'
  <1>1. /\ reruns < scenario.reruns /\ reruns' = reruns + 1
        /\ pc' = "rate" /\ tries' = 0 /\ sent' = 0 /\ rate' = 9600 /\ devcode' = <<>>
        /\ area' = StartArea /\ pagesize' = StartSize /\ rombuf' = <<>> /\ enable' = {} /\ page' = 0
        /\ rx' = <<>>
        /\ UNCHANGED <<flash, flips, skipped, misheard, scenario>>
    BY DEF Rerun, Goto
  <1>0. asked' \in BOOLEAN
    <2>1. Goto("rate")
      BY DEF Rerun
    <2> QED
      BY <2>1 DEF Goto
  <1>2. /\ scenario \in Scenario /\ tx \in Seq(Asked) /\ dev \in DevStates
        /\ devrate \in {9600, 19200} /\ flash \in [0..RomEnd -> Byte]
        /\ heard \in Bytes /\ burnt \in 0..(PAGE_SIZE - 1)
    BY DEF TypeInv, WorldType, LineType, DeviceType, RomType
  <1>10. /\ 0 \in 0..TRIES /\ <<>> \in Bytes /\ Len(<<>>) <= 2 /\ "rate" \in Asking
         /\ 0 \in 0..(Len(TransferBytes) - 1) /\ "rate" \notin OnlyModern
         /\ StartArea \in Int \X Int /\ StartSize \in Nat /\ 0 \in Nat
         /\ scenario.cpu # "3069" => StartSize = PAGE_SIZE
         /\ "rate" \notin Looping /\ "rate" \notin AtPage
         /\ "rate" \in DevStates /\ 0 \in 0..(PAGE_SIZE - 1)
    BY <1>2, BeginsTyped
  <1>3. /\ tx' \in Seq(Asked) /\ dev' \in DevStates /\ devrate' \in {9600, 19200}
        /\ heard' \in Bytes /\ burnt' \in 0..(PAGE_SIZE - 1)
    <2>2. CASE /\ dev' = "rate" /\ devrate' = 9600 /\ tx' = <<>>
               /\ heard' = <<>> /\ burnt' = 0
      <3>1. <<>> \in Seq(Asked)
        OBVIOUS
      <3> QED
        BY <1>10, <2>2, <3>1
    <2>3. CASE tx' \in LeftOnLine /\ UNCHANGED <<dev, devrate, heard, burnt>>
      BY <1>2, <2>3, LeftTyped
    <2> QED
      BY <2>2, <2>3 DEF Rerun
  <1>9. fresh' \in BOOLEAN /\ warm' \in BOOLEAN
    <2>1. warm \in BOOLEAN
      BY DEF TypeInv, WorldType
    <2>2. (fresh' = TRUE /\ warm' = warm) \/ (fresh' = FALSE /\ warm' = TRUE)
      BY SMT DEF Rerun
    <2> QED
      BY <2>1, <2>2
  <1>4. ControlType'
    <2>1. TransferBytes' = TransferBytes
      BY DEF TransferBytes, Program
    <2> QED
      BY <1>0, <1>1, <1>10, <2>1 DEF ControlType
  <1>5. ImageType'
    BY <1>1, <1>10 DEF ImageType
  <1>6. LineType'
    BY <1>1, <1>3, <1>10 DEF LineType
  <1>7. DeviceType'
    BY <1>1, <1>2, <1>3 DEF DeviceType, RomType
  <1>8. WorldType'
    <2>1. scenario.reruns \in 0..MAX_RERUNS /\ MAX_RERUNS \in Nat /\ reruns \in 0..MAX_RERUNS
      BY <1>2, ScenarioIs DEF TypeInv, WorldType
    <2>2. reruns' \in 0..MAX_RERUNS
      BY <1>1, <2>1
    <2> QED
      BY <1>1, <1>9, <2>2 DEF TypeInv, WorldType
  <1> QED
    BY <1>4, <1>5, <1>6, <1>7, <1>8 DEF TypeInv

LEMMA InitTyped ==
    ASSUME Init
    PROVE  TypeInv
  <1>1. /\ scenario \in Scenario
        /\ pc = "rate" /\ tries = 0 /\ sent = 0 /\ rate = 9600 /\ devcode = <<>>
        /\ area = StartArea /\ pagesize = StartSize /\ rombuf = <<>> /\ enable = {} /\ page = 0
        /\ tx = <<>> /\ rx = <<>> /\ dev = "rate" /\ devrate = 9600 /\ flash = OldFlash
        /\ heard = <<>> /\ burnt = 0 /\ flips = 0 /\ reruns = 0
    BY DEF Init
  <1>0. /\ asked \in BOOLEAN /\ fresh \in BOOLEAN /\ warm \in BOOLEAN /\ skipped \in BOOLEAN
        /\ misheard \in BOOLEAN
    <2>1. asked = FALSE /\ fresh = TRUE /\ warm = FALSE /\ skipped = FALSE /\ misheard = FALSE
      BY SMT DEF Init
    <2> QED
      BY <2>1
  <1>10. /\ 0 \in 0..TRIES /\ <<>> \in Bytes /\ Len(<<>>) <= 2 /\ "rate" \in Asking
         /\ 0 \in 0..(Len(TransferBytes) - 1) /\ "rate" \notin OnlyModern
         /\ StartArea \in Int \X Int /\ StartSize \in Nat /\ 0 \in Nat
         /\ scenario.cpu # "3069" => StartSize = PAGE_SIZE
         /\ "rate" \notin Looping /\ "rate" \notin AtPage
         /\ "rate" \in DevStates /\ 0 \in 0..(PAGE_SIZE - 1)
    BY <1>1, BeginsTyped
  <1>2. ControlType
    BY <1>0, <1>1, <1>10 DEF ControlType
  <1>3. ImageType
    BY <1>1, <1>10 DEF ImageType
  <1>4. LineType
    <2>1. <<>> \in Seq(Asked)
      OBVIOUS
    <2> QED
      BY <1>1, <1>10, <2>1 DEF LineType
  <1>5. DeviceType
    <2>1. OldFlash \in [0..RomEnd -> Byte]
      BY DEF OldFlash, Byte
    <2> QED
      BY <1>1, <1>10, <2>1 DEF DeviceType, RomType
  <1>6. WorldType
    BY <1>0, <1>1, ScenarioIs DEF WorldType
  <1> QED
    BY <1>2, <1>3, <1>4, <1>5, <1>6 DEF TypeInv

LEMMA TypesGive ==
    ASSUME TypeInv
    PROVE  TypeOK
  <1>1. {PageIn(pagesize, a) : a \in DOMAIN rombuf} = {PageOf(a) : a \in DOMAIN rombuf}
    BY PageOfIs
  <1>2. /\ pc \in Asking \cup Ended \cup {"read"} /\ asked \in BOOLEAN
        /\ tries \in 0..TRIES /\ rate \in {9600, 19200} /\ devcode \in Seq(Byte)
        /\ sent \in 0..(Len(TransferBytes) - 1)
    BY DEF TypeInv, ControlType, Bytes
  <1>3. /\ area \in Int \X Int /\ pagesize \in Nat
        /\ rombuf = <<>> \/ rombuf \in [0..area[2] -> Byte]
        /\ enable \subseteq {PageOf(a) : a \in DOMAIN rombuf} /\ page \in Nat
    BY <1>1 DEF TypeInv, ImageType
  <1>4. tx \in Seq(Seq(Byte)) /\ rx \in Seq(Byte)
    <2>1. tx \in Seq(Asked) /\ Asked \subseteq Bytes
      BY DEF TypeInv, LineType, Asked
    <2> HIDE DEF Asked
    <2>2. tx \in Seq(Bytes)
      BY <2>1
    <2> QED
      BY <2>2 DEF TypeInv, LineType, Bytes
  <1>5. /\ flash \in [0..RomEnd -> Byte] /\ devrate \in {9600, 19200}
        /\ heard \in Seq(Byte) /\ burnt \in 0..(PAGE_SIZE - 1)
    BY DEF TypeInv, DeviceType, RomType, Bytes
  <1>6. /\ flips \in 0..MAX_FLIPS /\ reruns \in 0..MAX_RERUNS
        /\ {fresh, warm, skipped, misheard} \subseteq BOOLEAN
    BY DEF TypeInv, WorldType
  <1> QED
    BY <1>2, <1>3, <1>4, <1>5, <1>6 DEF TypeOK

LEMMA TypeStep ==
    ASSUME TypeInv, [Next]_vars
    PROVE  TypeInv'
  <1>1. CASE Next
    BY <1>1, WriterTyped, DeviceAnswersTyped, BurnTyped, LineFlipsTyped, RerunTyped
       DEF Next, Device
  <1>2. CASE UNCHANGED vars
    <2>1. UNCHANGED <<writer, tx, rx, device, world>>
      BY <1>2 DEF vars
    <2>2. ControlType'
      BY <2>1 DEF TypeInv, ControlType, writer, world, TransferBytes, Program
    <2>3. ImageType'
      BY <2>1 DEF TypeInv, ImageType, writer, world
    <2>4. LineType' /\ DeviceType'
      BY <2>1 DEF TypeInv, LineType, DeviceType, RomType, device
    <2>5. WorldType'
      BY <2>1 DEF TypeInv, WorldType, world
    <2> QED
      BY <2>2, <2>3, <2>4, <2>5 DEF TypeInv
  <1> QED
    BY <1>1, <1>2

(***************************************************************************)
(* Whatever the device or a broken line answers, every variable of the     *)
(* writer keeps its type, and only pages that main has cleared are         *)
(* enabled: main of h8write.c never writes past its buffers without the    *)
(* overrun the model stops at.                                             *)
(***************************************************************************)
THEOREM WriterTypes == Spec => []TypeOK
  <1>1. Init => TypeInv
    BY InitTyped
  <1>2. TypeInv /\ [Next]_vars => TypeInv'
    BY TypeStep
  <1>3. TypeInv => TypeOK
    BY TypesGive
  <1> QED
    BY <1>1, <1>2, <1>3, PTL DEF Spec

-------------------------------------------------------------------------------
(***************************************************************************)
(* The invariant that FlashNeverMixes needs, for the 3069.  Only a frame   *)
(* that is a page for its boot program writes the ROM, so whatever is left *)
(* of a question on the line, whole or cut off where the writer was        *)
(* stopped, has to be harmless: no page, or a page of the file.  A flipped *)
(* bit keeps it so because it shows in the check sum, unless another has   *)
(* been flipped before: two can cancel in a sum, so OneFlip.  The image is *)
(* the file's because the writer has not taken the area or the page size   *)
(* for another.                                                            *)
(***************************************************************************)
Modern   == scenario.cpu = "3069"
OneFlip  == \A s \in Scenario : "tx" \in s.flips => MAX_FLIPS <= 1
Trusting == Told /\ ReadWhole

\* The bytes of q after the first n are those of the file from start on.
Tells(q, n, start) == \A a \in 0..RomEnd :
    a - start \in 0..(PAGE_SIZE - 1) => q[n + 1 + a - start] = Image[a]

Harmless(q) == Len(q) = 6 + PAGE_SIZE /\ CheckSum(q) = 0 /\ q[1] = 80
                  => Tells(q, 5, Long(SubSeq(q, 2, 5)))

\* However much of it goes out.
Safe(q) == \A n \in 1..Len(q) : Harmless(SubSeq(q, 1, n))

\* A flipped bit makes no page of it: it is too short for one, it is one and the
\* bit shows, or what it begins with, 0 or 63, is more than a bit away from 80.
Checked(q) == \/ Len(q) < 6 + PAGE_SIZE
              \/ Len(q) = 6 + PAGE_SIZE /\ CheckSum(q) = 0
              \/ q[1] \in {0, 63}

Clean(f) == \A a \in 0..RomEnd : f[a] \in {Blank, Image[a]}

CpuInv   == /\ pc \notin {"transfer", "start", "high", "low"}
            /\ dev \notin {"loader", "loaded", "lost"}
\* Only a question before the erasing comes in parts.
PartsInv == heard # <<>> => dev \in {"query", "device", "clock"}
HeardInv == ~misheard =>
    /\ pc \in {"query_pagesize", "erase", "format", "read", "page"} => area = <<0, RomEnd>>
    /\ pc \in {"erase", "format", "read", "page"} => pagesize = PAGE_SIZE
ImageInv == Trusting /\ pc = "page" => rombuf = Image
LineSafe(line, n) == \A i \in 1..Len(line) : Safe(line[i]) /\ (n = 0 => Checked(line[i]))
LineInv  == Trusting => LineSafe(tx, flips)
\* Whoever takes pages has erased the ROM.
Taking       == {"erased", "program", "done"}
RomIs(f, to) == (f = OldFlash \/ Clean(f)) /\ (to \in Taking => Clean(f))
RomInv   == Trusting => RomIs(flash, dev)
ModernInv == CpuInv /\ PartsInv /\ HeardInv /\ ImageInv /\ LineInv /\ RomInv
FlashInv  == Modern => ModernInv

LEMMA SameScenario ==
    ASSUME scenario' = scenario
    PROVE  /\ Image' = Image /\ (Modern' <=> Modern) /\ (ReadWhole' <=> ReadWhole)
  <1>1. Image' = Image
    BY DEF Image, Covering
  <1>2. (Modern' <=> Modern) /\ (ReadWhole' <=> ReadWhole)
    BY DEF Modern, ReadWhole
  <1> QED
    BY <1>1, <1>2

-------------------------------------------------------------------------------
(***************************************************************************)
(* The image is what the file says.                                        *)
(***************************************************************************)
DataAt(l, a)  == scenario.file[l].data[a - scenario.file[l].addr + 1]
Covers(l, a)  == scenario.file[l].type \in 1..3
                    /\ a - scenario.file[l].addr \in 0..(Len(scenario.file[l].data) - 1)
SaysAt(x, i, a) == \/ x = Blank /\ \A j \in 1..i : ~Covers(j, a)
                   \/ \E l \in 1..i : /\ Covers(l, a) /\ x = DataAt(l, a)
                                      /\ \A j \in (l + 1)..i : ~Covers(j, a)

\* One line more, that covers a byte or does not.
LEMMA SaysNext ==
    ASSUME NEW i \in Nat \ {0}, NEW a, NEW x, SaysAt(x, i - 1, a)
    PROVE  /\ ~Covers(i, a) => SaysAt(x, i, a)
           /\ Covers(i, a) => SaysAt(DataAt(i, a), i, a)
  <1>1. ASSUME ~Covers(i, a) PROVE SaysAt(x, i, a)
    <2>1. \A j \in 1..i : j \in 1..(i - 1) \/ j = i
      OBVIOUS
    <2>2. CASE x = Blank /\ \A j \in 1..(i - 1) : ~Covers(j, a)
      BY <1>1, <2>1, <2>2 DEF SaysAt
    <2>3. ASSUME NEW l \in 1..(i - 1), Covers(l, a), x = DataAt(l, a),
                 \A j \in (l + 1)..(i - 1) : ~Covers(j, a)
          PROVE  SaysAt(x, i, a)
      <3>1. l \in 1..i /\ \A j \in (l + 1)..i : j \in (l + 1)..(i - 1) \/ j = i
        OBVIOUS
      <3> QED
        BY <1>1, <2>3, <3>1 DEF SaysAt
    <2> QED
      BY <2>2, <2>3 DEF SaysAt
  <1>2. ASSUME Covers(i, a) PROVE SaysAt(DataAt(i, a), i, a)
    <2>1. i \in 1..i /\ \A j \in (i + 1)..i : FALSE
      OBVIOUS
    <2> QED
      BY <1>2, <2>1 DEF SaysAt
  <1> QED
    BY <1>1, <1>2

\* What a line of the file adds to an image that no warning has been given for.
LEMMA StoreSays ==
    ASSUME area = <<0, RomEnd>>, scenario \in Scenario, NEW i \in 1..Len(Lines),
           NEW image \in ImageSet, \A a \in 0..RomEnd : SaysAt(image.rom[a], i - 1, a),
           ~Store(image, Lines[i]).skipped
    PROVE  \A a \in 0..RomEnd : SaysAt(Store(image, Lines[i]).rom[a], i, a)
  <1> DEFINE r == Lines[i]
  <1>1. r \in Record /\ r = scenario.file[i] /\ i \in Nat \ {0}
    BY LinesTyped
  <1>2. /\ image.rom \in [0..RomEnd -> Byte] /\ image.skipped \in BOOLEAN
        /\ DOMAIN image = {"rom", "pages", "skipped"}
    BY DEF ImageSet
  <1>3. \A a : /\ Covers(i, a) <=> r.type \in 1..3 /\ a - r.addr \in 0..(Len(r.data) - 1)
              /\ DataAt(i, a) = r.data[a - r.addr + 1]
    BY <1>1 DEF Covers, DataAt
  <1> HIDE DEF r
  <1>4. CASE r.type \notin 1..3
    <2>1. Store(image, r) = image /\ \A a : ~Covers(i, a)
      BY <1>3, <1>4 DEF Store
    <2> QED
      BY <1>1, <2>1, SaysNext DEF r
  <1>5. CASE r.type \in 1..3 /\ (r.addr < area[1] \/ r.addr + Len(r.data) > area[2])
    <2>1. Store(image, r) = [image EXCEPT !.skipped = TRUE]
      BY <1>5 DEF Store
    <2>2. Store(image, r).skipped
      BY <1>2, <2>1
    <2> QED
      BY <2>2 DEF r
  <1>6. CASE r.type \in 1..3 /\ ~(r.addr < area[1] \/ r.addr + Len(r.data) > area[2])
    <2>1. Store(image, r).rom = Over(image.rom, r)
      BY <1>2, <1>6 DEF Store
    <2>2. \A a \in 0..RomEnd : Over(image.rom, r)[a] = IF Covers(i, a) THEN DataAt(i, a) ELSE image.rom[a]
      BY <1>2, <1>3, <1>6 DEF Over
    <2>3. ASSUME NEW a \in 0..RomEnd PROVE SaysAt(Over(image.rom, r)[a], i, a)
      <3>1. SaysAt(image.rom[a], i - 1, a)
        OBVIOUS
      <3> QED
        BY <1>1, <2>2, <3>1, SaysNext
    <2> QED
      BY <2>1, <2>3 DEF r
  <1> QED
    BY <1>4, <1>5, <1>6

\* A warning is never forgotten.
LEMMA StoreWarns ==
    ASSUME NEW image \in ImageSet, NEW r, image.skipped
    PROVE  Store(image, r).skipped
  BY DEF Store, ImageSet

LEMMA ImageSays ==
    ASSUME ImageType, skipped \in BOOLEAN, scenario \in Scenario, ~ImageOf(Len(Lines)).skipped
    PROVE  /\ ~skipped
           /\ area = <<0, RomEnd>> =>
                \A a \in 0..RomEnd : SaysAt(ImageOf(Len(Lines)).rom[a], Len(Lines), a)
  <1> DEFINE n == Len(Lines)
             good(image, i) ==
                image.skipped \/ /\ ~skipped
                                 /\ area = <<0, RomEnd>> => \A a \in 0..RomEnd : SaysAt(image.rom[a], i, a)
  <1>1. n \in Nat /\ \A i \in 1..n : Lines[i] \in Record
    BY LinesTyped
  <1>2. PICK u : /\ ImageOf(n) = u[n] /\ u[0] = Cleared
                 /\ \A i \in 1..n : u[i] = Store(u[i - 1], Lines[i])
    BY <1>1, ImageSteps
  <1> DEFINE Bad == {i \in 0..n : ~(u[i] \in ImageSet /\ good(u[i], i))}
  <1>3. Bad = {}
    <2> SUFFICES ASSUME Bad # {} PROVE FALSE
      OBVIOUS
    <2>1. Bad \subseteq Nat
      OBVIOUS
    <2>2. PICK k \in Bad : \A m \in Bad : k <= m
      BY <2>1, FirstOf
    <2>3. k # 0
      <3>1. u[0] \in ImageSet
        BY <1>2, ClearedTyped
      <3>2. u[0].skipped = skipped /\ (area = <<0, RomEnd>> => \A a \in 0..RomEnd : u[0].rom[a] = Blank)
        BY <1>2 DEF Cleared
      <3>3. \A a : SaysAt(Blank, 0, a)
        BY DEF SaysAt
      <3>4. good(u[0], 0)
        BY <3>2, <3>3
      <3> QED
        BY <2>2, <3>1, <3>4
    <2>4. k \in 1..n /\ k - 1 \in 0..n /\ k - 1 \notin Bad
      BY <1>1, <2>2, <2>3
    <2>5. /\ u[k - 1] \in ImageSet /\ good(u[k - 1], k - 1) /\ Lines[k] \in Record
          /\ u[k] = Store(u[k - 1], Lines[k])
      BY <1>1, <1>2, <2>4
    <2>6. u[k] \in ImageSet
      BY <2>5, StoreTyped
    <2>7. good(u[k], k)
      <3>1. CASE u[k - 1].skipped
        BY <2>5, <3>1, StoreWarns
      <3>2. CASE u[k].skipped
        BY <3>2
      <3>3. CASE ~u[k - 1].skipped /\ ~u[k].skipped
        <4>1. ~skipped
          BY <2>5, <3>3
        <4>2. ASSUME area = <<0, RomEnd>>
              PROVE  \A a \in 0..RomEnd : SaysAt(u[k].rom[a], k, a)
          <5>1. \A a \in 0..RomEnd : SaysAt(u[k - 1].rom[a], k - 1, a)
            BY <2>5, <3>3, <4>2
          <5> QED
            BY <2>4, <2>5, <3>3, <4>2, <5>1, StoreSays
        <4> QED
          BY <4>1, <4>2
      <3> QED
        BY <3>1, <3>2, <3>3
    <2> QED
      BY <2>2, <2>6, <2>7
  <1>4. n \in 0..n
    BY <1>1
  <1>5. good(u[n], n)
    BY <1>3, <1>4
  <1> HIDE DEF n
  <1> QED
    BY <1>2, <1>5 DEF n

\* What is said of a byte by all the lines the writer sees is the file's.
LEMMA SaidIsImage ==
    ASSUME scenario \in Scenario, ReadWhole, NEW a \in 0..RomEnd, NEW x,
           SaysAt(x, Len(Lines), a)
    PROVE  x = Image[a]
  <1> DEFINE n == Len(Lines)
             m == Len(scenario.file)
  <1>1. /\ n \in Nat /\ m \in Nat /\ n <= m
        /\ n = m \/ (~scenario.newline /\ scenario.file # <<>> /\ n = m - 1)
    <2>1. scenario.file \in Seq(Record) /\ (scenario.file = <<>> => Lines = scenario.file)
      BY ScenarioIs DEF Lines
    <2> QED
      BY <2>1, LinesTyped
  <1>2. \A j \in 1..m : j \in Covering(a) <=> Covers(j, a)
    BY DEF Covering, Covers
  <1>3. \A j \in Covering(a) : j \in 1..n /\ Covers(j, a)
    <2>1. ASSUME n = m - 1, ~scenario.newline, scenario.file # <<>> PROVE ~Covers(m, a)
      <3>1. scenario.file[m].type \notin 1..3
        BY <2>1 DEF ReadWhole, Last
      <3> QED
        BY <3>1 DEF Covers
    <2>2. Covering(a) \subseteq 1..m
      BY DEF Covering
    <2>3. \A j \in 1..m : j \in 1..n \/ (j = m /\ n = m - 1)
      BY <1>1
    <2> QED
      BY <1>1, <1>2, <2>1, <2>2, <2>3
  <1>4. Image[a] = IF Covering(a) = {} THEN Blank
                   ELSE DataAt(CHOOSE i \in Covering(a) : \A j \in Covering(a) : j <= i, a)
    BY DEF Image, DataAt
  <1>5. CASE x = Blank /\ \A j \in 1..n : ~Covers(j, a)
    BY <1>3, <1>4, <1>5
  <1>6. ASSUME NEW l \in 1..n, Covers(l, a), x = DataAt(l, a), \A j \in (l + 1)..n : ~Covers(j, a)
        PROVE  x = Image[a]
    <2>1. l \in Covering(a)
      BY <1>1, <1>2, <1>6
    <2>2. \A j \in Covering(a) : j <= l /\ j \in Nat
      <3>1. \A j \in 1..n : j <= l \/ j \in (l + 1)..n
        BY <1>1
      <3> QED
        BY <1>3, <1>6, <3>1
    <2>3. \A i \in Covering(a) : (\A j \in Covering(a) : j <= i) => i = l
      BY <2>1, <2>2
    <2>4. (CHOOSE i \in Covering(a) : \A j \in Covering(a) : j <= i) = l
      BY <2>1, <2>2, <2>3
    <2> QED
      BY <1>4, <1>6, <2>1, <2>4
  <1> QED
    BY <1>5, <1>6 DEF SaysAt

LEMMA ImageIsTheFiles ==
    ASSUME ImageType, skipped \in BOOLEAN, scenario \in Scenario, ReadWhole,
           ~ImageOf(Len(Lines)).skipped, area = <<0, RomEnd>>
    PROVE  ImageOf(Len(Lines)).rom = Image
  <1> DEFINE rom == ImageOf(Len(Lines)).rom
  <1>1. rom \in [0..RomEnd -> Byte]
    BY ImageTyped DEF ImageSet
  <1>2. \A a \in 0..RomEnd : SaysAt(rom[a], Len(Lines), a)
    BY ImageSays
  <1>3. \A a \in 0..RomEnd : rom[a] = Image[a]
    BY <1>2, SaidIsImage
  <1>4. Image = [a \in 0..RomEnd |-> Image[a]]
    BY DEF Image
  <1> HIDE DEF rom
  <1>5. rom = [a \in 0..RomEnd |-> rom[a]]
    BY <1>1
  <1>6. rom = Image
    BY <1>3, <1>4, <1>5
  <1> QED
    BY <1>6 DEF rom

-------------------------------------------------------------------------------
(***************************************************************************)
(* Questions that do no harm, whole, cut off or with a flipped bit.        *)
(***************************************************************************)
LEMMA Cut ==
    ASSUME NEW q \in Bytes, NEW n \in 1..Len(q)
    PROVE  /\ SubSeq(q, 1, n) \in Bytes /\ Len(SubSeq(q, 1, n)) = n
           /\ SubSeq(q, 1, n)[1] = q[1] /\ SubSeq(q, 1, Len(q)) = q /\ Len(q) \in 1..Len(q)
           /\ \A m \in 1..n : SubSeq(SubSeq(q, 1, n), 1, m) = SubSeq(q, 1, m) /\ m \in 1..Len(q)
  <1> DEFINE c == SubSeq(q, 1, n)
  <1>1. Len(q) \in Nat /\ n \in Nat \ {0} /\ n <= Len(q)
    BY DEF Bytes
  <1>2. c \in Bytes /\ Len(c) = n /\ \A i \in 1..n : c[i] = q[i]
    <2>1. /\ c \in Bytes /\ (1 <= n + 1 => Len(c) = n - 1 + 1)
          /\ \A i \in 1..(n - 1 + 1) : c[i] = q[1 + i - 1]
      BY <1>1, Parts
    <2> HIDE DEF c
    <2> QED
      BY <1>1, <2>1
  <1>3. SubSeq(q, 1, Len(q)) = q
    BY DEF Bytes
  <1>4. ASSUME NEW m \in 1..n PROVE SubSeq(c, 1, m) = SubSeq(q, 1, m) /\ m \in 1..Len(q)
    <2>1. m \in Nat \ {0} /\ m <= n /\ m <= Len(q)
      BY <1>1
    <2>2. SubSeq(c, 1, m) = [i \in 1..m |-> c[i]] /\ SubSeq(q, 1, m) = [i \in 1..m |-> q[i]]
      BY <1>2, <2>1 DEF Bytes
    <2> HIDE DEF c
    <2>3. \A i \in 1..m : c[i] = q[i]
      BY <1>1, <1>2, <2>1
    <2> QED
      BY <2>1, <2>2, <2>3
  <1> HIDE DEF c
  <1>5. 1 \in 1..n /\ Len(q) \in 1..Len(q)
    BY <1>1
  <1> QED
    BY <1>2, <1>3, <1>4, <1>5 DEF c

LEMMA OtherHarmless ==
    ASSUME NEW q, Len(q) # 6 + PAGE_SIZE \/ CheckSum(q) # 0 \/ q[1] # 80
    PROVE  Harmless(q)
  BY DEF Harmless

LEMMA CheckedSafe ==
    ASSUME NEW q \in Bytes, Checked(q), Harmless(q)
    PROVE  Safe(q)
  <1> SUFFICES ASSUME NEW n \in 1..Len(q) PROVE Harmless(SubSeq(q, 1, n))
    BY DEF Safe
  <1> DEFINE c == SubSeq(q, 1, n)
             m == 6 + PAGE_SIZE
  <1>1. Len(c) = n /\ c[1] = q[1] /\ SubSeq(q, 1, Len(q)) = q
    BY Cut
  <1>2. Len(q) \in Nat /\ n \in Nat /\ n <= Len(q) /\ m \in Nat
    BY Sizes DEF Bytes
  <1> HIDE DEF c
  <1>3. CASE n = Len(q)
    BY <1>1, <1>3 DEF c
  <1>4. CASE n # m
    BY <1>1, <1>4, OtherHarmless DEF c
  <1>5. CASE n # Len(q) /\ n = m
    <2>1. q[1] \in {0, 63}
      BY <1>2, <1>5 DEF Checked
    <2>2. c[1] # 80
      BY <1>1, <2>1
    <2> QED
      BY <2>2, OtherHarmless DEF c
  <1> QED
    BY <1>3, <1>4, <1>5

\* A question cut off.
LEMMA CutSafe ==
    ASSUME NEW q \in Bytes, NEW n \in 1..Len(q)
    PROVE  /\ Safe(q) => Safe(SubSeq(q, 1, n))
           /\ Checked(q) => Checked(SubSeq(q, 1, n))
  <1> DEFINE c == SubSeq(q, 1, n)
             k == 6 + PAGE_SIZE
  <1>1. /\ Len(c) = n /\ c[1] = q[1] /\ SubSeq(q, 1, Len(q)) = q
        /\ \A m \in 1..n : SubSeq(c, 1, m) = SubSeq(q, 1, m) /\ m \in 1..Len(q)
    BY Cut
  <1>2. Len(q) \in Nat /\ n \in Nat /\ n <= Len(q) /\ k \in Nat
    BY Sizes DEF Bytes
  <1>3. n = Len(q) => c = q
    BY <1>1
  <1> HIDE DEF c
  <1>4. Safe(q) => Safe(c)
    BY <1>1 DEF Safe
  <1>5. Checked(q) => Checked(c)
    <2>1. CASE n = Len(q)
      BY <1>3, <2>1
    <2>2. CASE n < Len(q) /\ Checked(q)
      <3>1. Len(q) < k \/ Len(q) = k \/ q[1] \in {0, 63}
        BY <2>2 DEF Checked
      <3>2. n < k \/ c[1] \in {0, 63}
        BY <1>1, <1>2, <2>2, <3>1
      <3> QED
        BY <1>1, <3>2 DEF Checked
    <2> QED
      BY <1>2, <2>1, <2>2
  <1> QED
    BY <1>4, <1>5 DEF c

LEMMA FlipFar ==
    ASSUME NEW c \in {0, 63}, NEW k \in 0..7
    PROVE  Flip(c, k) # 80
  <1> DEFINE m == TwoTo(k)
  <1>1. m \in {1, 2, 4, 8, 16, 32, 64, 128}
    BY PowersOfBits
  <1>2. Flip(c, k) = IF (c \div m) % 2 = 0 THEN c + m ELSE c - m
    BY DEF Flip, TwoTo
  <1> HIDE DEF m
  <1>3. c + m # 80 /\ c - m # 80
    BY <1>1
  <1> QED
    BY <1>2, <1>3

\* The first flipped bit shows; no other can.
LEMMA FlipSafe ==
    ASSUME NEW q \in Asked, Checked(q), NEW p \in Flipped(q)
    PROVE  Safe(p)
  <1> SUFFICES ASSUME NEW n \in 1..Len(p) PROVE Harmless(SubSeq(p, 1, n))
    BY DEF Safe
  <1> DEFINE c == SubSeq(p, 1, n)
             m == 6 + PAGE_SIZE
  <1>1. q \in Bytes /\ p \in Bytes /\ Len(p) = Len(q) /\ CheckSum(p) # CheckSum(q)
    BY FlippedIs DEF Asked
  <1>2. Len(c) = n /\ c[1] = p[1] /\ SubSeq(p, 1, Len(p)) = p
    BY <1>1, Cut
  <1>3. Len(q) \in Nat /\ n \in Nat /\ n <= Len(q) /\ m \in Nat
    BY <1>1, Sizes DEF Bytes
  <1>4. q[1] \in {0, 63} => p[1] # 80
    <2>1. PICK i \in 1..Len(q), k \in 0..7 : p = [q EXCEPT ![i] = Flip(@, k)]
      BY DEF Flipped
    <2>2. q \in Seq(Byte)
      BY <1>1 DEF Bytes
    <2>3. p[1] = IF i = 1 THEN Flip(q[1], k) ELSE q[1]
      BY <1>3, <2>1, <2>2
    <2> QED
      BY <2>3, FlipFar
  <1> HIDE DEF c
  <1>5. CASE n # m
    BY <1>2, <1>5, OtherHarmless DEF c
  <1>6. CASE n = m /\ q[1] \in {0, 63}
    BY <1>2, <1>4, <1>6, OtherHarmless DEF c
  <1>7. CASE n = m /\ q[1] \notin {0, 63}
    <2>1. Len(q) = m /\ CheckSum(q) = 0
      BY <1>3, <1>7 DEF Checked
    <2>2. c = p
      BY <1>1, <1>2, <1>7, <2>1 DEF c
    <2>3. CheckSum(c) # 0
      BY <1>1, <2>1, <2>2
    <2> QED
      BY <2>3, OtherHarmless DEF c
  <1> QED
    BY <1>5, <1>6, <1>7

LEMMA ShortHarmless ==
    ASSUME NEW q, Len(q) \in Nat, Len(q) < 6 + PAGE_SIZE
    PROVE  Harmless(q) /\ Checked(q)
  <1>1. Len(q) # 6 + PAGE_SIZE
    BY Sizes
  <1> QED
    BY <1>1, OtherHarmless DEF Checked


LEMMA LongGivesBack ==
    ASSUME NEW n \in 0..RomEnd, NEW b, Len(b) = 4, b \in Bytes,
           \A i \in 1..4 : b[i] = put_long(n)[i]
    PROVE  Long(b) = n
  <1>1. PICK w \in 0..127, x \in 0..255, y \in 0..255, z \in 0..255 :
            put_long(n) = <<w, x, y, z>> /\ n = FourBytes(w, x, y, z)
    BY LongBack, Zenon
  <1>2. 1 \in 1..4 /\ 2 \in 1..4 /\ 3 \in 1..4 /\ 4 \in 1..4
    OBVIOUS
  <1>3. b[1] = w /\ b[2] = x /\ b[3] = y /\ b[4] = z
    BY <1>1, <1>2
  <1>4. Long(b) = FourBytes(b[1], b[2], b[3], b[4])
    <2>1. ~(w >= 128)
      OBVIOUS
    <2> QED
      BY <1>3, <2>1, SMT DEF Long, FourBytes
  <1> QED
    BY <1>1, <1>3, <1>4, Zenon

\* The bytes of the page that the writer is at.
LEMMA PageTells ==
    ASSUME ImageType, pc = "page", rombuf = Image, pagesize = PAGE_SIZE
    PROVE  /\ page * PAGE_SIZE \in 0..RomEnd
           /\ page * 2^PageBit(pagesize) = page * PAGE_SIZE
           /\ \A a \in 0..RomEnd : a - page * PAGE_SIZE \in 0..(PAGE_SIZE - 1) =>
                    PageData[a - page * PAGE_SIZE + 1] = Image[a]
  <1> DEFINE start == page * PAGE_SIZE
  <1>1. start \in 0..RomEnd /\ page * 2^PageBit(pagesize) = start
    <2>1. 2^PageBit(pagesize) = PAGE_SIZE
      BY Sizes DEF TwoTo
    <2> QED
      BY <2>1, PageIsInRom DEF AtPage
  <1>2. ASSUME NEW a \in 0..RomEnd, a - start \in 0..(PAGE_SIZE - 1)
        PROVE  PageData[a - start + 1] = Image[a]
    <2> DEFINE j == a - start + 1
    <2>1. j \in 1..pagesize /\ page * pagesize + j - 1 = a
      <3>1. page * pagesize = start
        OBVIOUS
      <3>2. PAGE_SIZE \in Nat /\ start \in Int /\ a \in Int
        BY <1>1, Sizes
      <3> HIDE DEF start
      <3> QED
        BY <1>2, <3>1, <3>2
    <2>2. PageData[j] = InRom(page * pagesize + j - 1)
      BY <2>1 DEF PageData
    <2>3. InRom(a) = Image[a]
      <3>1. a \in DOMAIN rombuf
        BY DEF Image
      <3> QED
        BY <3>1 DEF InRom
    <2> QED
      BY <2>1, <2>2, <2>3
  <1> QED
    BY <1>1, <1>2

LEMMA PageHarmless ==
    ASSUME ImageType, pc = "page", rombuf = Image, pagesize = PAGE_SIZE
    PROVE  Harmless(PageFrame) /\ Checked(PageFrame)
  <1> DEFINE start == page * PAGE_SIZE
             h == <<80>>
             b == put_long(start)
             c == h \o b
             d == c \o PageData
  <1>1. /\ start \in 0..RomEnd /\ page * 2^PageBit(pagesize) = start
        /\ \A a \in 0..RomEnd : a - start \in 0..(PAGE_SIZE - 1) => PageData[a - start + 1] = Image[a]
    BY PageTells
  <1>2. PageFrame = WithSum(d)
    BY <1>1 DEF PageFrame
  <1> HIDE DEF start
  <1>3. /\ h \in Bytes /\ Len(h) = 1 /\ h[1] = 80 /\ b \in Bytes /\ Len(b) = 4
        /\ PageData \in Bytes /\ Len(PageData) = PAGE_SIZE
    <2>1. h \in Bytes /\ Len(h) = 1 /\ h[1] = 80
      BY DEF Bytes, Byte
    <2>2. b \in Bytes /\ Len(b) = 4
      BY <1>1, LongBack
    <2> QED
      BY <2>1, <2>2, PageDataTyped
  <1> HIDE DEF h, b
  <1>4. /\ c \in Bytes /\ Len(c) = 5 /\ c[1] = 80 /\ \A i \in 1..4 : c[1 + i] = b[i]
    <2>1. c \in Bytes /\ Len(c) = Len(h) + Len(b)
      BY <1>3, Concats, ZenonT(40)
    <2>2. (\A i \in 1..Len(h) : c[i] = h[i]) /\ \A i \in 1..Len(b) : c[Len(h) + i] = b[i]
      BY <1>3, Concats, ZenonT(40)
    <2> HIDE DEF c
    <2>3. 1 \in 1..Len(h) /\ Len(c) = 5
      <3>1. Len(h) = 1 /\ Len(b) = 4 /\ Len(c) = Len(h) + Len(b)
        BY <1>3, <2>1, Zenon
      <3>2. 1 \in 1..1 /\ 1 + 4 = 5
        OBVIOUS
      <3> QED
        BY <3>1, <3>2, Zenon
    <2> QED
      BY <1>3, <2>1, <2>2, <2>3
  <1> HIDE DEF c
  <1>5. /\ d \in Bytes /\ Len(d) = 5 + PAGE_SIZE
        /\ \A i \in 1..5 : d[i] = c[i]
        /\ \A i \in 1..PAGE_SIZE : d[5 + i] = PageData[i]
    <2>0. c \in Bytes /\ PageData \in Bytes
      BY <1>3, <1>4
    <2>1. d \in Bytes /\ Len(d) = Len(c) + Len(PageData)
      BY <2>0, Concats, Zenon
    <2>2. (\A i \in 1..Len(c) : d[i] = c[i]) /\ \A i \in 1..Len(PageData) : d[Len(c) + i] = PageData[i]
      BY <2>0, Concats
    <2> HIDE DEF d
    <2> QED
      BY <1>3, <1>4, <2>1, <2>2
  <1> HIDE DEF d
  <1> DEFINE q == WithSum(d)
  <1>6. /\ q \in Bytes /\ Len(q) = 6 + PAGE_SIZE /\ CheckSum(q) = 0
        /\ \A i \in 1..(5 + PAGE_SIZE) : q[i] = d[i]
    <2>1. /\ q \in Bytes /\ Len(q) = Len(d) + 1 /\ CheckSum(q) = 0
          /\ \A i \in 1..Len(d) : q[i] = d[i]
      BY <1>5, WithSumIs
    <2> HIDE DEF q
    <2> QED
      BY <1>5, <2>1, Sizes
  <1> HIDE DEF q
  <1>7. Long(SubSeq(q, 2, 5)) = start
    <2>1. 5 <= Len(q) /\ 5 \in Nat /\ 2 \in Nat \ {0}
      BY <1>6, Sizes
    <2>2. /\ SubSeq(q, 2, 5) \in Bytes /\ Len(SubSeq(q, 2, 5)) = 4
          /\ \A i \in 1..4 : SubSeq(q, 2, 5)[i] = q[2 + i - 1]
      <3>1. /\ SubSeq(q, 2, 5) \in Bytes
            /\ 2 <= 5 + 1 => Len(SubSeq(q, 2, 5)) = 5 - 2 + 1
            /\ \A i \in 1..(5 - 2 + 1) : SubSeq(q, 2, 5)[i] = q[2 + i - 1]
        BY <1>6, <2>1, Parts
      <3>2. 5 - 2 + 1 = 4 /\ 2 <= 5 + 1
        OBVIOUS
      <3> QED
        BY <3>1, <3>2
    <2>3. \A i \in 1..4 : q[2 + i - 1] = b[i]
      <3>1. \A i \in 1..4 : /\ 2 + i - 1 = 1 + i /\ 1 + i \in 1..(5 + PAGE_SIZE)
                            /\ 1 + i \in 1..5
        BY Sizes
      <3> QED
        BY <1>4, <1>5, <1>6, <3>1
    <2>4. \A i \in 1..4 : SubSeq(q, 2, 5)[i] = put_long(start)[i]
      BY <2>2, <2>3 DEF b
    <2> QED
      BY <1>1, <2>2, <2>4, LongGivesBack
  <1>8. Tells(q, 5, start)
    <2>1. ASSUME NEW a \in 0..RomEnd, a - start \in 0..(PAGE_SIZE - 1)
          PROVE  q[5 + 1 + a - start] = Image[a]
      <3> DEFINE j == a - start + 1
      <3>1. j \in 1..PAGE_SIZE /\ 5 + j \in 1..(5 + PAGE_SIZE) /\ 5 + 1 + a - start = 5 + j
        BY <1>1, <2>1, Sizes
      <3>2. PageData[j] = Image[a]
        BY <1>1, <2>1
      <3> HIDE DEF j
      <3> QED
        BY <1>5, <1>6, <3>1, <3>2
    <2> QED
      BY <2>1 DEF Tells
  <1>9. PageFrame = q
    BY <1>2 DEF q
  <1> QED
    BY <1>6, <1>7, <1>8, <1>9 DEF Harmless, Checked


LEMMA QuestionHarmless ==
    ASSUME TypeInv, Modern, CpuInv, HeardInv, ImageInv, Trusting, pc \in Asking
    PROVE  Safe(Question(pc)) /\ Checked(Question(pc))
  <1>0. /\ ImageType /\ scenario \in Scenario /\ ~misheard /\ PAGE_SIZE \in Nat \ {0}
        /\ Question(pc) \in Bytes
    BY Sizes, QuestionTyped DEF TypeInv, WorldType, Trusting, Told, Asked
  <1>1. pc = "page" => rombuf = Image /\ pagesize = PAGE_SIZE
    BY <1>0 DEF ImageInv, HeardInv
  <1> SUFFICES Harmless(Question(pc)) /\ Checked(Question(pc))
    BY <1>0, CheckedSafe
  <1>2. CASE pc = "page"
    <2>1. Question(pc) = PageFrame
      BY <1>2 DEF Question, Modern
    <2> QED
      BY <1>0, <1>1, <1>2, <2>1, PageHarmless
  <1>3. CASE pc \in {"check", "query_device", "query_clock", "query_scale", "query_freq",
                     "check_rate", "query_area", "query_pagesize", "erase", "format"}
    <2>1. Question(pc) \in {<<85>>, <<32>>, <<33>>, <<34>>, <<35>>, <<6>>, <<37>>, <<39>>,
                            <<64>>, <<67>>}
      BY <1>3 DEF Question
    <2>2. Len(Question(pc)) = 1
      BY <2>1
    <2> HIDE DEF Question
    <2>3. Len(Question(pc)) \in Nat /\ Len(Question(pc)) < 6 + PAGE_SIZE
      BY <1>0, <2>2
    <2> QED
      BY <2>3, ShortHarmless
  <1>4. CASE pc = "rate"
    <2>1. Question(pc) = Zeros
      BY <1>4 DEF Question
    <2>2. Zeros[1] = 0
      <3>1. Zeros \in Bytes /\ Zeros # <<>> /\ \A i \in 1..Len(Zeros) : Zeros[i] = 0
        BY ZerosTyped
      <3> DEFINE q == Zeros
      <3> HIDE DEF q
      <3>2. q \in Bytes /\ q # <<>> => 1 \in 1..Len(q)
        BY DEF Bytes
      <3> QED
        BY <3>1, <3>2 DEF q
    <2>3. Question(pc)[1] = 0 /\ 0 # 80
      BY <2>1, <2>2
    <2> HIDE DEF Question
    <2> QED
      BY <2>3, OtherHarmless DEF Checked
  <1>5. CASE pc = "select_device"
    <2> DEFINE n == Len(devcode)
               h == <<16, n>>
               q == h \o devcode
    <2>1. Question(pc) = WithSum(q)
      BY <1>5 DEF Question, SelectDeviceFrame
    <2>2. devcode \in Bytes /\ n \in 0..2
      <3>1. devcode \in Bytes /\ n <= 2
        BY DEF TypeInv, ControlType
      <3>2. n \in Nat
        BY <3>1 DEF Bytes
      <3> HIDE DEF n
      <3> QED
        BY <3>1, <3>2
    <2>3. Len(devcode) = n
      OBVIOUS
    <2> HIDE DEF n
    <2>4. h \in Bytes /\ Len(h) = 2
      BY <2>2 DEF Bytes, Byte
    <2> HIDE DEF h
    <2>5. q \in Bytes /\ Len(q) = Len(h) + Len(devcode)
      BY <2>2, <2>4, Concats, Zenon
    <2> HIDE DEF q
    <2>6. Len(WithSum(q)) = Len(q) + 1
      BY <2>5, SumFrames
    <2>7. Len(q) = 2 + n
      BY <2>3, <2>4, <2>5
    <2>8. Len(Question(pc)) \in Nat /\ Len(Question(pc)) < 6 + PAGE_SIZE
      BY <1>0, <2>1, <2>2, <2>6, <2>7
    <2> QED
      BY <2>8, ShortHarmless
  <1>6. CASE pc \in {"select_clock", "end"}
    <2>1. PICK q : Question(pc) = WithSum(q) /\ q \in Bytes /\ Len(q) \in {3, 5}
      <3>1. CASE pc = "select_clock"
        <4>1. Question(pc) = WithSum(<<17, 1, 0>>)
          BY <3>1 DEF Question, SelectClockFrame
        <4>2. <<17, 1, 0>> \in Bytes /\ Len(<<17, 1, 0>>) = 3
          BY DEF Bytes, Byte
        <4> QED
          BY <4>1, <4>2
      <3>2. CASE pc = "end"
        <4>1. Question(pc) = WithSum(<<80, 255, 255, 255, 255>>)
          BY <3>2 DEF Question, EndFrame
        <4>2. <<80, 255, 255, 255, 255>> \in Bytes /\ Len(<<80, 255, 255, 255, 255>>) = 5
          BY DEF Bytes, Byte
        <4> QED
          BY <4>1, <4>2
      <3> QED
        BY <1>6, <3>1, <3>2
    <2>2. Len(WithSum(q)) = Len(q) + 1
      BY <2>1, SumFrames
    <2> DEFINE m == Len(Question(pc))
               n == Len(q)
    <2>3. m = n + 1 /\ n \in {3, 5}
      BY <2>1, <2>2, Zenon
    <2> HIDE DEF m, n
    <2>4. m \in Nat /\ m < 6 + PAGE_SIZE
      BY <1>0, <2>3
    <2> QED
      BY <2>4, ShortHarmless DEF m
  <1>7. CASE pc = "set_rate"
    <2> DEFINE q == <<63, 7, 0, 192, scenario.freq \div 256, scenario.freq % 256, 1, 1, 0>>
    <2>1. Question(pc) = WithSum(q)
      BY <1>7 DEF Question, SetRateFrame
    <2>2. q \in Bytes /\ Len(q) >= 1 /\ q[1] = 63
      <3>1. scenario.freq \in {2000, 2500}
        BY <1>0, ScenarioIs
      <3>2. scenario.freq \div 256 \in Byte /\ (scenario.freq % 256) \in Byte
        BY <3>1 DEF Byte
      <3>3. \A x, y \in Byte : /\ <<63, 7, 0, 192, x, y, 1, 1, 0>> \in Bytes
                               /\ Len(<<63, 7, 0, 192, x, y, 1, 1, 0>>) >= 1
        BY DEF Bytes, Byte
      <3> QED
        BY <3>2, <3>3
    <2> HIDE DEF q
    <2>3. WithSum(q)[1] = 63
      <3>1. Len(q) \in Nat
        BY <2>2 DEF Bytes
      <3>2. 1 \in 1..Len(q)
        BY <2>2, <3>1
      <3> QED
        BY <2>2, <3>2, WithSumIs
    <2>4. Question(pc)[1] = 63 /\ 63 # 80
      BY <2>1, <2>3
    <2> HIDE DEF Question
    <2> QED
      BY <2>4, OtherHarmless DEF Checked
  <1>8. pc \notin {"transfer", "start", "high", "low"}
    BY DEF CpuInv
  <1> QED
    BY <1>2, <1>3, <1>4, <1>5, <1>6, <1>7, <1>8 DEF Asking

-------------------------------------------------------------------------------
(***************************************************************************)
(* The way of the writer through its questions.                            *)
(***************************************************************************)
Path == {<<"rate", "check">>, <<"rate", "query_device">>, <<"check", "query_device">>,
         <<"query_device", "query_device">>, <<"query_device", "select_device">>,
         <<"select_device", "query_clock">>, <<"query_clock", "select_clock">>,
         <<"select_clock", "query_scale">>, <<"query_scale", "query_freq">>,
         <<"query_freq", "set_rate">>, <<"set_rate", "check_rate">>,
         <<"check_rate", "query_area">>, <<"query_area", "query_pagesize">>,
         <<"query_pagesize", "erase">>, <<"erase", "format">>, <<"format", "read">>,
         <<"page", "page">>, <<"page", "end">>, <<"end", "successed">>}
Follows   == pc' = "fatal" \/ <<pc, pc'>> \in Path
KeepsArea == pc \notin {"query_area", "query_pagesize"} /\ UNCHANGED <<area, pagesize, misheard>>
HearsArea == /\ pc = "query_area" /\ UNCHANGED pagesize /\ (misheard => misheard')
             /\ pc' = "query_pagesize" /\ ~misheard' => area' = <<0, RomEnd>>
HearsSize == /\ pc = "query_pagesize" /\ UNCHANGED area /\ (misheard => misheard')
             /\ pc' = "erase" /\ ~misheard' => pagesize' = PAGE_SIZE
Goes      == /\ Follows /\ Rest /\ UNCHANGED <<rombuf, skipped>>
             /\ KeepsArea \/ HearsArea \/ HearsSize

LEMMA SimpleGoes ==
    ASSUME NEW q, NEW byte, NEW to, Simple(q, byte, to), <<q, to>> \in Path,
           q \notin {"query_area", "query_pagesize"}
    PROVE  Goes
  <1>1. /\ pc = q /\ pc' \in {to, "fatal"} /\ Rest
        /\ UNCHANGED <<area, pagesize, misheard>> /\ UNCHANGED <<rombuf, skipped>>
    BY DEF Simple, Check, Goto
  <1> QED
    BY <1>1 DEF Goes, Follows, KeepsArea

LEMMA SimplesGo ==
    ASSUME Modern,
           CheckBitRate \/ SelectDevice \/ SelectClock \/ CheckRate \/ Erase \/ Format \/ End
    PROVE  Goes
  <1>1. CASE CheckBitRate
    <2>1. Simple("check", 230, "query_device") /\ <<"check", "query_device">> \in Path
      BY <1>1 DEF CheckBitRate, Modern, Path
    <2> QED
      BY <2>1, SimpleGoes
  <1>2. CASE SelectDevice \/ SelectClock \/ CheckRate \/ Erase \/ Format \/ End
    <2>1. PICK q \in {"select_device", "select_clock", "check_rate", "erase", "format", "end"},
               to \in {"query_clock", "query_scale", "query_area", "format", "read", "successed"} :
               Simple(q, 6, to) /\ <<q, to>> \in Path
      BY <1>2 DEF SelectDevice, SelectClock, CheckRate, Erase, Format, End, Path
    <2> QED
      BY <2>1, SimpleGoes
  <1> QED
    BY <1>1, <1>2

LEMMA QueriesGo ==
    ASSUME TypeInv, QueryClock \/ QueryScale \/ QueryFreq
    PROVE  Goes
  <1>1. PICK q \in {"query_clock", "query_scale", "query_freq"}, code \in {49, 50, 51},
             to \in {"select_clock", "query_freq", "set_rate"} :
             Query3(q, code, to) /\ <<q, to>> \in Path
    BY DEF QueryClock, QueryScale, QueryFreq, Path
  <1>2. /\ ReadFrame(q, code, to)
        /\ UNCHANGED <<area, pagesize, misheard>> /\ UNCHANGED <<rombuf, skipped>>
    BY <1>1 DEF Query3
  <1>3. pc = q /\ pc' \in {to, "fatal"} /\ Rest
    BY <1>2, ReadFrameIs
  <1> QED
    BY <1>1, <1>2, <1>3 DEF Goes, Follows, KeepsArea

LEMMA SetBitRateGoes ==
    ASSUME SetBitRate
    PROVE  Goes
  <1>1. /\ pc = "rate" /\ Rest
        /\ UNCHANGED <<area, pagesize, misheard>> /\ UNCHANGED <<rombuf, skipped>>
        /\ pc' \in {"check", "query_device", "fatal"}
    BY DEF SetBitRate, Goto
  <1>2. Follows
    BY <1>1 DEF Follows, Path
  <1> QED
    BY <1>1, <1>2 DEF Goes, KeepsArea

LEMMA QueryDeviceGoes ==
    ASSUME QueryDevice
    PROVE  Goes
  <1>1. /\ pc = "query_device" /\ Rest
        /\ UNCHANGED <<area, pagesize, misheard>> /\ UNCHANGED <<rombuf, skipped>>
        /\ pc' \in {"select_device", "query_device", "fatal"}
    BY DEF QueryDevice, Goto
  <1>2. Follows
    BY <1>1 DEF Follows, Path
  <1> QED
    BY <1>1, <1>2 DEF Goes, KeepsArea

LEMMA SetRateGoes ==
    ASSUME SetRate
    PROVE  Goes
  <1>1. Check(rx[1] = 6, "check_rate") => pc' \in {"check_rate", "fatal"}
    BY DEF Check, Goto
  <1>2. /\ pc = "set_rate" /\ Rest
        /\ UNCHANGED <<area, pagesize, misheard>> /\ UNCHANGED <<rombuf, skipped>>
        /\ pc' \in {"check_rate", "fatal"}
    BY <1>1 DEF SetRate
  <1>3. Follows
    BY <1>2 DEF Follows, Path
  <1> QED
    BY <1>2, <1>3 DEF Goes, KeepsArea

LEMMA QueryAreaGoes ==
    ASSUME QueryArea
    PROVE  Goes
  <1>1. /\ pc = "query_area" /\ Rest /\ UNCHANGED pagesize /\ UNCHANGED <<rombuf, skipped>>
        /\ misheard' = (misheard \/ (pc' = "query_pagesize" /\ area' # <<0, RomEnd>>))
        /\ pc' \in {"query_pagesize", "fatal"}
    BY DEF QueryArea, Goto
  <1>2. Follows
    BY <1>1 DEF Follows, Path
  <1>3. HearsArea
    BY <1>1 DEF HearsArea
  <1> QED
    BY <1>1, <1>2, <1>3 DEF Goes

LEMMA QueryPagesizeGoes ==
    ASSUME TypeInv, QueryPagesize
    PROVE  Goes
  <1>1. /\ ReadFrame("query_pagesize", 55, "erase") /\ UNCHANGED area /\ UNCHANGED <<rombuf, skipped>>
        /\ misheard' = (misheard \/ (pc' = "erase" /\ pagesize' # PAGE_SIZE))
    BY DEF QueryPagesize
  <1>2. pc = "query_pagesize" /\ pc' \in {"erase", "fatal"} /\ Rest
    BY <1>1, ReadFrameIs
  <1>3. Follows
    BY <1>2 DEF Follows, Path
  <1>4. HearsSize
    BY <1>1, <1>2 DEF HearsSize
  <1> QED
    BY <1>1, <1>2, <1>3, <1>4 DEF Goes

LEMMA PageWrittenGoes ==
    ASSUME Modern, TypeInv, PageWritten
    PROVE  Goes
  <1>1. /\ pc = "page" /\ Rest
        /\ UNCHANGED <<area, pagesize, misheard>> /\ UNCHANGED <<rombuf, skipped>>
        /\ LoopFrom(page + 1, enable) \/ Goto("fatal")
    BY DEF PageWritten
  <1>2. page + 1 \in Nat /\ enable \subseteq Nat
    BY EnableTyped DEF TypeInv, ImageType
  <1>3. pc' \in {"page", "end", "fatal"}
    <2>1. LoopFrom(page + 1, enable) => pc' = Loops \/ pc' = Done
      BY <1>2, LoopIs
    <2> QED
      BY <1>1, <2>1 DEF Loops, Done, Goto, Modern
  <1>4. Follows
    BY <1>1, <1>3 DEF Follows, Path
  <1> QED
    BY <1>1, <1>4 DEF Goes, KeepsArea

LEMMA AnswersGo ==
    ASSUME Modern, TypeInv, CpuInv, Answer
    PROVE  Goes
  <1>1. ~Transfer /\ ~Start /\ ~PageHigh /\ ~PageLow
    BY DEF CpuInv, Transfer, Start, PageHigh, PageLow, NumberTold
  <1> QED
    BY <1>1, SimplesGo, QueriesGo, SetBitRateGoes, QueryDeviceGoes, SetRateGoes, QueryAreaGoes,
       QueryPagesizeGoes, PageWrittenGoes DEF Answer

-------------------------------------------------------------------------------
(***************************************************************************)
(* The steps of the writer keep the invariant.                             *)
(***************************************************************************)
LEMMA TrustKept ==
    ASSUME scenario' = scenario, skipped => skipped', misheard => misheard', Trusting'
    PROVE  Trusting
  <1>1. ~skipped' /\ ~misheard' /\ ReadWhole'
    BY DEF Trusting, Told
  <1> QED
    BY <1>1, SameScenario DEF Trusting, Told

LEMMA LineKept ==
    ASSUME scenario' = scenario, Trusting' => Trusting, Trusting => LineSafe(tx', flips')
    PROVE  LineInv'
  <1>1. Image' = Image
    BY SameScenario
  <1> DEFINE TellsStill(q, n, start) ==
                 \A a \in 0..RomEnd :
                     a - start \in 0..(PAGE_SIZE - 1) => q[n + 1 + a - start] = Image'[a]
             Still(q) == Len(q) = 6 + PAGE_SIZE /\ CheckSum(q) = 0 /\ q[1] = 80
                            => TellsStill(q, 5, Long(SubSeq(q, 2, 5)))
             SafeStill(q) == \A n \in 1..Len(q) : Still(SubSeq(q, 1, n))
  <1>2. ASSUME NEW q, Harmless(q) PROVE Still(q)
    BY <1>1, <1>2 DEF Harmless, Tells
  <1> HIDE DEF Still
  <1>3. ASSUME NEW q, Safe(q) PROVE SafeStill(q)
    BY <1>2, <1>3 DEF Safe
  <1> HIDE DEF SafeStill
  <1>4. ASSUME Trusting, NEW i \in 1..Len(tx')
        PROVE  Safe(tx[i])' /\ (flips' = 0 => Checked(tx[i])')
    <2>1. Safe(tx'[i]) /\ (flips' = 0 => Checked(tx'[i]))
      BY <1>4 DEF LineSafe
    <2>2. Checked(tx'[i]) => Checked(tx[i])'
      BY DEF Checked
    <2>3. Safe(tx[i])'
      <3>1. SafeStill(tx'[i])
        BY <1>3, <2>1
      <3> QED
        BY <3>1 DEF SafeStill, Still, Safe, Harmless, Tells
    <2> QED
      BY <2>1, <2>2, <2>3
  <1> QED
    BY <1>4 DEF LineInv, LineSafe

LEMMA RomKept ==
    ASSUME Trusting' => Trusting, scenario' = scenario, RomInv, flash' = flash, dev' = dev
    PROVE  RomInv'
  <1>1. Image' = Image
    BY SameScenario
  <1>2. Clean(flash)' <=> Clean(flash)
    BY <1>1 DEF Clean
  <1> QED
    BY <1>2 DEF RomInv, RomIs

\* What keeps the line, the device and its ROM as they are.
LEMMA WriterKeeps ==
    ASSUME ModernInv, scenario' = scenario, Trusting' => Trusting, tx' = tx, flips' = flips,
           dev' = dev, heard' = heard, flash' = flash
    PROVE  PartsInv' /\ LineInv' /\ RomInv'
  <1>1. PartsInv'
    BY DEF ModernInv, PartsInv
  <1>2. LineInv'
    <2>1. Trusting => LineSafe(tx', flips')
      BY DEF ModernInv, LineInv
    <2> QED
      BY <2>1, LineKept
  <1>3. RomInv'
    BY RomKept DEF ModernInv
  <1> QED
    BY <1>1, <1>2, <1>3

LEMMA AnswerKeeps ==
    ASSUME ModernInv, Goes
    PROVE  ModernInv'
  <1>1. /\ tx' = tx /\ dev' = dev /\ heard' = heard /\ flash' = flash /\ flips' = flips
        /\ scenario' = scenario
        /\ rombuf' = rombuf /\ skipped' = skipped /\ (misheard => misheard')
        /\ pc' = "fatal" \/ <<pc, pc'>> \in Path
    BY DEF Goes, Follows, Rest, device, KeepsArea, HearsArea, HearsSize
  <1>2. Image' = Image
    BY <1>1, SameScenario
  <1>3. Trusting' => Trusting
    BY <1>1, TrustKept
  <1>4. CpuInv'
    <2>1. pc' \notin {"transfer", "start", "high", "low"}
      BY <1>1 DEF Path
    <2> QED
      BY <1>1, <2>1 DEF ModernInv, CpuInv
  <1>5. HeardInv'
    <2> SUFFICES ASSUME ~misheard'
                 PROVE  /\ pc' \in {"query_pagesize", "erase", "format", "read", "page"}
                                => area' = <<0, RomEnd>>
                        /\ pc' \in {"erase", "format", "read", "page"}
                                => pagesize' = PAGE_SIZE
      BY DEF HeardInv
    <2>1. ~misheard
      BY <1>1
    <2>2. /\ pc' = "query_pagesize" => pc = "query_area"
          /\ pc' = "erase" => pc = "query_pagesize"
          /\ pc' = "format" => pc = "erase"
          /\ pc' = "read" => pc = "format"
          /\ pc' = "page" => pc = "page"
      BY <1>1 DEF Path
    <2>3. /\ pc # "query_area" => area' = area
          /\ pc = "query_area" /\ pc' = "query_pagesize" => area' = <<0, RomEnd>>
          /\ pc # "query_pagesize" => pagesize' = pagesize
          /\ pc = "query_pagesize" /\ pc' = "erase" => pagesize' = PAGE_SIZE
      BY DEF Goes, KeepsArea, HearsArea, HearsSize
    <2> QED
      BY <2>1, <2>2, <2>3 DEF ModernInv, HeardInv
  <1>6. ImageInv'
    <2>1. pc' = "page" => pc = "page"
      BY <1>1 DEF Path
    <2> QED
      BY <1>1, <1>2, <1>3, <2>1 DEF ModernInv, ImageInv
  <1>7. PartsInv' /\ LineInv' /\ RomInv'
    BY <1>1, <1>3, WriterKeeps
  <1> QED
    BY <1>4, <1>5, <1>6, <1>7 DEF ModernInv

LEMMA AskKeeps ==
    ASSUME Modern, TypeInv, ModernInv, Ask
    PROVE  ModernInv'
  <1>1. /\ pc \in Asking /\ tx' = Append(tx, Question(pc)) /\ pc' = pc
        /\ dev' = dev /\ heard' = heard /\ flash' = flash /\ flips' = flips /\ scenario' = scenario
        /\ area' = area /\ pagesize' = pagesize /\ rombuf' = rombuf
        /\ skipped' = skipped /\ misheard' = misheard
    BY DEF Ask, device, world
  <1>2. Image' = Image
    BY <1>1, SameScenario
  <1>3. Trusting' => Trusting
    BY <1>1, TrustKept
  <1>4. CpuInv' /\ PartsInv' /\ HeardInv' /\ ImageInv'
    <2>1. CpuInv' /\ PartsInv'
      BY <1>1 DEF ModernInv, CpuInv, PartsInv
    <2>2. HeardInv'
      BY <1>1 DEF ModernInv, HeardInv
    <2>3. ImageInv'
      BY <1>1, <1>2, <1>3 DEF ModernInv, ImageInv
    <2> QED
      BY <2>1, <2>2, <2>3
  <1>5. LineInv'
    <2> DEFINE q == Question(pc)
    <2>1. tx \in Seq(Asked) /\ q \in Asked /\ tx' = Append(tx, q)
      BY <1>1, QuestionTyped DEF TypeInv, LineType
    <2>2. Trusting => Safe(q) /\ Checked(q)
      BY <1>1, QuestionHarmless DEF ModernInv
    <2> HIDE DEF q
    <2>3. \A i \in 1..Len(tx') : tx'[i] = q \/ (i \in 1..Len(tx) /\ tx'[i] = tx[i])
      <3>1. /\ Len(tx') = Len(tx) + 1 /\ tx'[Len(tx) + 1] = q
            /\ \A i \in 1..Len(tx) : tx'[i] = tx[i]
        BY <2>1, OneMore
      <3>2. Len(tx) \in Nat
        <4> HIDE DEF Asked
        <4> QED
          BY <2>1
      <3>3. \A i \in 1..(Len(tx) + 1) : i = Len(tx) + 1 \/ i \in 1..Len(tx)
        BY <3>2
      <3> QED
        BY <3>1, <3>3
    <2>4. Trusting => LineSafe(tx, flips)
      BY DEF ModernInv, LineInv
    <2>5. Trusting => LineSafe(tx', flips')
      BY <1>1, <2>2, <2>3, <2>4 DEF LineSafe
    <2> QED
      BY <1>1, <1>3, <2>5, LineKept
  <1>6. RomInv'
    BY <1>1, <1>3, RomKept DEF ModernInv
  <1> QED
    BY <1>4, <1>5, <1>6 DEF ModernInv

LEMMA ReadFileKeeps ==
    ASSUME Modern, TypeInv, ModernInv, ReadFile
    PROVE  ModernInv'
  <1> DEFINE image == ImageOf(Len(Lines))
  <1>1. /\ pc = "read" /\ Rest /\ area' = area /\ pagesize' = pagesize /\ misheard' = misheard
        /\ \/ /\ pc' \in {"overrun", "fatal"} /\ skipped' = skipped
           \/ /\ rombuf' = image.rom /\ skipped' = image.skipped
              /\ pc' \in {"page", "end"}
    <2>1. LoopFrom(0, enable') => pc' \in {"page", "end"}
      BY DEF LoopFrom, Goto, Modern
    <2> QED
      BY <2>1 DEF ReadFile, Goto, Modern
  <1> HIDE DEF image
  <1>2. /\ tx' = tx /\ dev' = dev /\ heard' = heard /\ flash' = flash /\ flips' = flips
        /\ scenario' = scenario
    BY <1>1 DEF Rest, device
  <1>3. Image' = Image
    BY <1>2, SameScenario
  <1>4. ImageType /\ skipped \in BOOLEAN /\ scenario \in Scenario
    BY DEF TypeInv, WorldType
  <1>5. skipped => skipped'
    BY <1>1, <1>4, ImageSays DEF image
  <1>6. Trusting' => Trusting
    BY <1>1, <1>2, <1>5, TrustKept
  <1>7. CpuInv'
    <2>1. pc' \in {"overrun", "fatal", "page", "end"}
      BY <1>1
    <2> QED
      BY <1>2, <2>1 DEF ModernInv, CpuInv
  <1>8. HeardInv'
    BY <1>1 DEF ModernInv, HeardInv
  <1>9. ImageInv'
    <2> SUFFICES ASSUME Trusting', pc' = "page" PROVE rombuf' = Image
      BY <1>3 DEF ImageInv
    <2>1. rombuf' = image.rom /\ skipped' = image.skipped
      BY <1>1
    <2>2. Trusting /\ ~skipped' /\ ~misheard
      BY <1>1, <1>6 DEF Trusting, Told
    <2>3. area = <<0, RomEnd>> /\ ReadWhole
      BY <1>1, <2>2 DEF ModernInv, HeardInv, Trusting
    <2>4. ~image.skipped
      BY <2>1, <2>2
    <2>5. image.rom = Image
      BY <1>4, <2>3, <2>4, ImageIsTheFiles DEF image
    <2> QED
      BY <2>1, <2>5
  <1>10. PartsInv' /\ LineInv' /\ RomInv'
    BY <1>2, <1>6, WriterKeeps
  <1> QED
    BY <1>7, <1>8, <1>9, <1>10 DEF ModernInv

-------------------------------------------------------------------------------
(***************************************************************************)
(* The steps of the device, of the line and of the user keep it.           *)
(***************************************************************************)
LEMMA ErasedClean == Clean(Erased)
  BY DEF Clean, Erased

LEMMA StaysSafe ==
    ASSUME NEW answer, Stays(answer)
    PROVE  dev' = dev /\ flash' = flash
  BY DEF Stays, Becomes

LEMMA MatchingSafe ==
    ASSUME Modern, NEW q, Matching(q), dev \in {"rate", "check"}
    PROVE  dev' \in {"rate", "check", "query"} /\ flash' = flash /\ heard' = heard
  BY DEF Matching, Becomes, Modern

LEMMA Program128Safe ==
    ASSUME NEW q, Program128(q), dev = "program", q[1] = 80
    PROVE  /\ dev' \in {"program", "done"}
           /\ Clean(flash) /\ Harmless(q) => Clean(flash')
  <1> DEFINE start == Long(SubSeq(q, 2, 5))
             written == [a \in 0..RomEnd |-> IF a - start \in 0..(PAGE_SIZE - 1)
                                             THEN q[6 + a - start] ELSE flash[a]]
  <1>1. CASE Becomes("done", <<6>>) /\ UNCHANGED <<devrate, flash>>
    BY <1>1 DEF Becomes
  <1>2. CASE Stays(<<>>) \/ Stays(<<17>>) \/ Stays(<<40>>)
    BY <1>2, StaysSafe
  <1>3. CASE /\ Len(q) = 6 + PAGE_SIZE /\ CheckSum(q) = 0
             /\ start \in 0..RomEnd
             /\ flash' = written /\ Becomes(dev, <<6>>)
    <2>1. dev' = "program"
      BY <1>3 DEF Becomes
    <2>2. ASSUME Clean(flash), Harmless(q) PROVE Clean(flash')
      <3>1. Tells(q, 5, start)
        BY <1>3, <2>2 DEF Harmless
      <3>2. flash' = written /\ start \in Nat
        BY <1>3
      <3> HIDE DEF start
      <3>3. ASSUME NEW a \in 0..RomEnd PROVE written[a] \in {Blank, Image[a]}
        <4>1. a - start \in 0..(PAGE_SIZE - 1) => q[6 + a - start] = Image[a]
          <5>1. 5 + 1 + a - start = 6 + a - start
            BY <3>2
          <5> QED
            BY <3>1, <5>1 DEF Tells
        <4>2. written[a] = IF a - start \in 0..(PAGE_SIZE - 1) THEN q[6 + a - start] ELSE flash[a]
          OBVIOUS
        <4>3. flash[a] \in {Blank, Image[a]}
          BY <2>2 DEF Clean
        <4> HIDE DEF written
        <4> QED
          BY <4>1, <4>2, <4>3
      <3> HIDE DEF written
      <3> QED
        BY <3>2, <3>3 DEF Clean
    <2> QED
      BY <2>1, <2>2
  <1> QED
    BY <1>1, <1>2, <1>3 DEF Program128

\* One of the commands that change its state.
LEMMA StepSafe ==
    ASSUME NEW q, NEW answer, StepOf(q) # {}, Becomes((CHOOSE s \in StepOf(q) : TRUE)[3], answer),
           flash' = (IF q[1] = 64 THEN Erased ELSE flash)
    PROVE  /\ dev' \in {"device", "clock", "rated", "ready", "erased", "program"}
           /\ RomIs(flash, dev) => RomIs(flash', dev')
  <1> DEFINE s == CHOOSE s \in StepOf(q) : TRUE
  <1>1. s \in Steps /\ s[1] = dev /\ s[2] = q[1] /\ dev' = s[3]
    BY DEF Becomes, StepOf
  <1> HIDE DEF s
  <1>2. /\ dev' \in {"device", "clock", "rated", "ready", "erased", "program"}
        /\ dev' = "erased" => q[1] = 64
        /\ dev' = "program" => dev = "erased"
    BY <1>1 DEF Steps
  <1>3. CASE q[1] = 64
    <2>1. Clean(flash')
      BY <1>3, ErasedClean
    <2> QED
      BY <1>2, <2>1 DEF RomIs
  <1>4. CASE q[1] # 64
    <2>1. flash' = flash /\ (dev' \in Taking => dev \in Taking)
      BY <1>2, <1>4 DEF Taking
    <2> QED
      BY <1>2, <2>1 DEF RomIs
  <1> QED
    BY <1>3, <1>4

\* The device waits for the rest only of what comes before the erasing.
LEMMA PartOf ==
    ASSUME NEW q, StepOf(q) # {}, SizeOf(q[1]) > 1
    PROVE  dev \in {"query", "device", "clock"}
  <1>1. PICK s \in Steps : s[1] = dev /\ s[2] = q[1]
    BY DEF StepOf
  <1>2. q[1] \in {16, 17, 63}
    <2>1. q[1] \notin {16, 17, 63} => SizeOf(q[1]) = 1
      BY DEF SizeOf
    <2> QED
      BY <2>1
  <1> QED
    BY <1>1, <1>2 DEF Steps

LEMMA QuerySafe ==
    ASSUME NEW q \in Asked, Query(q), dev \notin {"rate", "check", "loader", "loaded", "lost"}
    PROVE  /\ dev' \notin {"loader", "loaded", "lost"}
           /\ heard' # <<>> => dev' \in {"query", "device", "clock"}
           /\ RomIs(flash, dev) /\ (dev = "program" => Harmless(q)) => RomIs(flash', dev')
  <1> DEFINE step == StepOf(q)
             f    == FirstOfQ(q)
             rest == RestOfQ(q)
             to   == (CHOOSE s \in step : TRUE)[3]
  <1>1. /\ QueryCase(q, step, f, rest)
        /\ heard' = IF StepOf(q) # {} /\ Len(q) < SizeOf(q[1]) THEN q ELSE <<>>
    BY QueryIs DEF Asked
  <1>2. Len(q) \in Nat \ {0} /\ SizeOf(q[1]) \in Nat
    BY SizeOfIs DEF Asked, Bytes
  <1>3. heard' # <<>> => dev \in {"query", "device", "clock"} /\ Len(q) < SizeOf(q[1])
    <2>1. heard' # <<>> => StepOf(q) # {} /\ Len(q) < SizeOf(q[1])
      BY <1>1
    <2>2. Len(q) < SizeOf(q[1]) => SizeOf(q[1]) > 1
      BY <1>2
    <2> QED
      BY <2>1, <2>2, PartOf
  <1>4. \A answer : Stays(answer) => dev' = dev /\ flash' = flash
    BY StaysSafe
  <1> HIDE DEF step, f, rest
  <1>5. \/ dev' = dev /\ flash' = flash
        \/ dev = "program" /\ q[1] = 80 /\ Program128(q)
        \/ /\ step # {} /\ SizeOf(q[1]) <= Len(q) /\ Becomes(to, <<6>> \o Errors(rest))
           /\ flash' = (IF q[1] = 64 THEN Erased ELSE flash)
    BY <1>1, <1>4 DEF QueryCase
  <1>6. CASE dev' = dev /\ flash' = flash
    BY <1>3, <1>6
  <1>7. CASE dev = "program" /\ q[1] = 80 /\ Program128(q)
    <2>1. /\ dev' \in {"program", "done"}
          /\ Clean(flash) /\ Harmless(q) => Clean(flash')
      BY <1>7, Program128Safe
    <2>2. RomIs(flash, dev) => Clean(flash)
      BY <1>7 DEF RomIs, Taking
    <2>3. Clean(flash') => RomIs(flash', dev')
      BY DEF RomIs
    <2>4. heard' = <<>>
      BY <1>3, <1>7
    <2> QED
      BY <1>7, <2>1, <2>2, <2>3, <2>4
  <1>8. CASE /\ step # {} /\ SizeOf(q[1]) <= Len(q) /\ Becomes(to, <<6>> \o Errors(rest))
             /\ flash' = (IF q[1] = 64 THEN Erased ELSE flash)
    <2>1. /\ dev' \in {"device", "clock", "rated", "ready", "erased", "program"}
          /\ RomIs(flash, dev) => RomIs(flash', dev')
      BY <1>8, StepSafe DEF step
    <2>2. heard' = <<>>
      <3>1. ~(Len(q) < SizeOf(q[1]))
        BY <1>2, <1>8
      <3> QED
        BY <1>3, <3>1
    <2> QED
      BY <2>1, <2>2
  <1> QED
    BY <1>5, <1>6, <1>7, <1>8

LEMMA DeviceKeeps ==
    ASSUME Modern, TypeInv, ModernInv, DeviceAnswers
    PROVE  ModernInv'
  <1> DEFINE q == Head(tx)
  <1>1. /\ tx # <<>> /\ tx \in Seq(Asked) /\ dev \notin {"loader", "loaded", "lost"}
        /\ pc' = pc /\ area' = area /\ pagesize' = pagesize /\ rombuf' = rombuf
        /\ flips' = flips /\ skipped' = skipped /\ misheard' = misheard /\ scenario' = scenario
    BY DEF DeviceAnswers, TypeInv, LineType, ModernInv, CpuInv, writer, world
  <1>2. /\ tx' = Tail(tx)
        /\ \/ dev \in {"rate", "check"} /\ Matching(q)
           \/ /\ dev \notin {"rate", "check", "loader", "loaded", "lost"}
              /\ Query(heard \o q) \/ (Stays(<<>>) /\ UNCHANGED heard)
    BY <1>1 DEF DeviceAnswers
  <1>3. /\ Len(tx) \in Nat /\ 1 \in 1..Len(tx) /\ q = tx[1] /\ q \in Asked
        /\ \A i \in 1..Len(tx') : tx'[i] = tx[i + 1] /\ i + 1 \in 1..Len(tx)
    <2> HIDE DEF Asked
    <2> QED
      BY <1>1, <1>2
  <1> HIDE DEF q
  <1>4. Image' = Image
    BY <1>1, SameScenario
  <1>5. Trusting' => Trusting
    BY <1>1, TrustKept
  <1>6. Trusting => Harmless(q)
    <2>1. q \in Bytes /\ q # <<>>
      BY <1>3 DEF Asked
    <2>2. Len(q) \in 1..Len(q) /\ SubSeq(q, 1, Len(q)) = q
      BY <2>1 DEF Bytes
    <2>3. Trusting => Safe(q)
      BY <1>3 DEF ModernInv, LineInv, LineSafe
    <2> QED
      BY <2>2, <2>3 DEF Safe
  <1>7. /\ dev' \notin {"loader", "loaded", "lost"}
        /\ heard' # <<>> => dev' \in {"query", "device", "clock"}
        /\ RomIs(flash, dev) /\ Harmless(q) => RomIs(flash', dev')
    <2>1. heard # <<>> => dev \in {"query", "device", "clock"}
      BY DEF ModernInv, PartsInv
    <2>2. CASE dev \in {"rate", "check"} /\ Matching(q)
      <3>1. dev' \in {"rate", "check", "query"} /\ flash' = flash /\ heard' = heard
        BY <2>2, MatchingSafe
      <3>2. heard' = <<>>
        BY <2>1, <2>2, <3>1
      <3> QED
        BY <3>1, <3>2 DEF RomIs, Taking
    <2>3. CASE Stays(<<>>) /\ UNCHANGED heard
      <3>1. dev' = dev /\ flash' = flash /\ heard' = heard
        BY <2>3, StaysSafe
      <3> QED
        BY <1>1, <2>1, <3>1
    <2>4. CASE dev \notin {"rate", "check", "loader", "loaded", "lost"} /\ Query(heard \o q)
      <3> DEFINE p == heard \o q
      <3>1. /\ heard \in Bytes /\ q \in Bytes /\ q # <<>>
        BY <1>3 DEF TypeInv, DeviceType, Asked
      <3>2. p \in Asked
        <4>1. p \in Bytes /\ Len(p) = Len(heard) + Len(q)
          BY <3>1, Concats, Zenon
        <4>2. Len(heard) \in Nat /\ Len(q) \in Nat \ {0}
          BY <3>1 DEF Bytes
        <4> HIDE DEF p
        <4> QED
          BY <4>1, <4>2, NotEmpty
      <3>3. dev = "program" => p = q
        <4>1. dev = "program" => heard = <<>>
          BY <2>1
        <4>2. <<>> \o q = q
          BY <3>1 DEF Bytes
        <4> QED
          BY <4>1, <4>2
      <3> HIDE DEF p
      <3>4. Query(p)
        BY <2>4 DEF p
      <3> QED
        BY <2>4, <3>2, <3>3, <3>4, QuerySafe
    <2> QED
      BY <1>2, <2>2, <2>3, <2>4
  <1>8. CpuInv' /\ PartsInv'
    BY <1>1, <1>7 DEF ModernInv, CpuInv, PartsInv
  <1>9. HeardInv' /\ ImageInv'
    <2>1. HeardInv'
      BY <1>1 DEF ModernInv, HeardInv
    <2>2. ImageInv'
      BY <1>1, <1>4, <1>5 DEF ModernInv, ImageInv
    <2> QED
      BY <2>1, <2>2
  <1>10. LineInv'
    <2>1. Trusting => LineSafe(tx, flips)
      BY DEF ModernInv, LineInv
    <2>2. Trusting => LineSafe(tx', flips')
      BY <1>1, <1>3, <2>1 DEF LineSafe
    <2> QED
      BY <1>1, <1>5, <2>2, LineKept
  <1>11. RomInv'
    <2>1. Trusting => RomIs(flash', dev')
      BY <1>6, <1>7 DEF ModernInv, RomInv
    <2>2. RomIs(flash', dev') <=> RomIs(flash, dev)'
      BY <1>4 DEF RomIs, Clean
    <2> QED
      BY <1>5, <2>1, <2>2 DEF RomInv
  <1> QED
    BY <1>8, <1>9, <1>10, <1>11 DEF ModernInv

LEMMA OneAfterOther ==
    ASSUME NEW S, NEW a \in Seq(S), NEW b \in Seq(S)
    PROVE  /\ Len(a \o b) = Len(a) + Len(b) /\ \A i \in 1..Len(a) : (a \o b)[i] = a[i]
           /\ \A i \in 1..Len(b) : (a \o b)[Len(a) + i] = b[i]
  OBVIOUS

\* A question in the place of the first.
LEMMA FirstFor ==
    ASSUME NEW S, NEW s \in Seq(S), s # <<>>, NEW x \in S
    PROVE  \A i \in 1..Len(<<x>> \o Tail(s)) :
               (<<x>> \o Tail(s))[i] = x \/ (i \in 1..Len(s) /\ (<<x>> \o Tail(s))[i] = s[i])
  <1> DEFINE t == Tail(s)
             h == <<x>>
             u == h \o t
             n == Len(s)
  <1>1. /\ n \in Nat \ {0} /\ t \in Seq(S) /\ Len(t) = n - 1
        /\ \A i \in 1..(n - 1) : t[i] = s[i + 1]
    OBVIOUS
  <1>2. h \in Seq(S) /\ Len(h) = 1 /\ h[1] = x
    OBVIOUS
  <1> HIDE DEF t, h, n
  <1>3. /\ Len(u) = Len(h) + Len(t) /\ \A i \in 1..Len(h) : u[i] = h[i]
        /\ \A i \in 1..Len(t) : u[Len(h) + i] = t[i]
    <2>1. h \in Seq(S) /\ t \in Seq(S)
      BY <1>1, <1>2
    <2> QED
      BY <2>1, OneAfterOther
  <1> HIDE DEF u
  <1>4. Len(u) = n /\ u[1] = x /\ \A i \in 1..(n - 1) : u[1 + i] = t[i]
    BY <1>1, <1>2, <1>3
  <1>5. ASSUME NEW i \in 1..n PROVE u[i] = x \/ u[i] = s[i]
    <2>1. CASE i = 1
      BY <1>4, <2>1
    <2>2. CASE i # 1
      <3> DEFINE j == i - 1
      <3>1. j \in 1..(n - 1) /\ 1 + j = i /\ j + 1 = i
        BY <1>1, <2>2
      <3> HIDE DEF j
      <3>2. u[1 + j] = t[j] /\ t[j] = s[j + 1]
        BY <1>1, <1>4, <3>1
      <3> QED
        BY <3>1, <3>2
    <2> QED
      BY <2>1, <2>2
  <1>6. \A i \in 1..Len(u) : u[i] = x \/ (i \in 1..n /\ u[i] = s[i])
    BY <1>4, <1>5
  <1> QED
    BY <1>6 DEF u, h, t, n

LEMMA LineFlipsKeeps ==
    ASSUME OneFlip, TypeInv, ModernInv, LineFlips
    PROVE  ModernInv'
  <1>1. /\ pc' = pc /\ area' = area /\ pagesize' = pagesize /\ rombuf' = rombuf
        /\ dev' = dev /\ heard' = heard /\ flash' = flash
        /\ skipped' = skipped /\ misheard' = misheard /\ scenario' = scenario
        /\ flips < MAX_FLIPS /\ flips' = flips + 1 /\ tx \in Seq(Asked)
    BY DEF LineFlips, TypeInv, LineType, writer, device
  <1>2. MAX_FLIPS \in Nat /\ flips \in Nat /\ scenario \in Scenario
    BY ScenarioIs DEF TypeInv, WorldType
  <1>3. Image' = Image
    BY <1>1, SameScenario
  <1>4. Trusting' => Trusting
    BY <1>1, TrustKept
  <1>5. CpuInv' /\ PartsInv' /\ HeardInv' /\ ImageInv'
    <2>1. CpuInv' /\ PartsInv'
      BY <1>1 DEF ModernInv, CpuInv, PartsInv
    <2>2. HeardInv'
      BY <1>1 DEF ModernInv, HeardInv
    <2>3. ImageInv'
      BY <1>1, <1>3, <1>4 DEF ModernInv, ImageInv
    <2> QED
      BY <2>1, <2>2, <2>3
  <1>6. Trusting => LineSafe(tx, flips)
    BY DEF ModernInv, LineInv
  <1>7. Trusting => \A i \in 1..Len(tx') : Safe(tx'[i])
    <2>1. CASE tx' = tx
      BY <1>6, <2>1 DEF LineSafe
    <2>2. CASE /\ "tx" \in scenario.flips /\ tx # <<>>
               /\ \E q \in Flipped(Head(tx)) : tx' = <<q>> \o Tail(tx)
      <3>1. PICK q \in Flipped(Head(tx)) : tx' = <<q>> \o Tail(tx)
        BY <2>2
      <3>2. Head(tx) = tx[1] /\ 1 \in 1..Len(tx) /\ tx[1] \in Asked
        <4> HIDE DEF Asked
        <4> QED
          BY <1>1, <2>2
      <3>3. q \in Asked
        <4>1. /\ tx[1] \in Bytes /\ Len(tx[1]) # 0
          BY <3>2 DEF Asked, Bytes
        <4>2. q \in Bytes /\ Len(q) = Len(tx[1])
          BY <3>1, <3>2, <4>1, FlippedIs
        <4> QED
          BY <4>1, <4>2, NotEmpty
      <3>4. \A i \in 1..Len(tx') : tx'[i] = q \/ (i \in 1..Len(tx) /\ tx'[i] = tx[i])
        <4> HIDE DEF Asked
        <4> QED
          BY <1>1, <2>2, <3>1, <3>3, FirstFor
      <3>5. Trusting => Safe(q)
        <4>1. flips = 0
          <5>1. MAX_FLIPS <= 1
            BY <1>2, <2>2 DEF OneFlip
          <5> QED
            BY <1>1, <1>2, <5>1
        <4>2. Trusting => Checked(tx[1])
          BY <1>6, <3>2, <4>1 DEF LineSafe
        <4> QED
          BY <3>1, <3>2, <4>2, FlipSafe
      <3> QED
        BY <1>6, <3>4, <3>5 DEF LineSafe
    <2> QED
      BY <2>1, <2>2 DEF LineFlips
  <1>8. LineInv'
    <2>1. flips' # 0
      BY <1>1, <1>2
    <2>2. Trusting => LineSafe(tx', flips')
      BY <1>7, <2>1 DEF LineSafe
    <2> QED
      BY <1>1, <1>4, <2>2, LineKept
  <1>9. RomInv'
    BY <1>1, <1>4, RomKept DEF ModernInv
  <1> QED
    BY <1>5, <1>8, <1>9 DEF ModernInv

LEMMA RerunKeeps ==
    ASSUME TypeInv, ModernInv, Rerun
    PROVE  ModernInv'
  <1>1. /\ pc' = "rate" /\ flash' = flash /\ flips' = flips
        /\ skipped' = skipped /\ misheard' = misheard /\ scenario' = scenario
        /\ \/ dev' = "rate" /\ tx' = <<>> /\ heard' = <<>>
           \/ dev' = dev /\ tx' \in LeftOnLine /\ heard' = heard
    BY DEF Rerun, Goto
  <1>2. Image' = Image
    BY <1>1, SameScenario
  <1>3. Trusting' => Trusting
    BY <1>1, TrustKept
  <1>4. CpuInv' /\ PartsInv'
    BY <1>1 DEF ModernInv, CpuInv, PartsInv
  <1>5. HeardInv' /\ ImageInv'
    BY <1>1 DEF HeardInv, ImageInv
  <1>6. LineInv'
    <2>1. Trusting => LineSafe(tx', flips')
      <3>1. CASE tx' = <<>>
        BY <3>1 DEF LineSafe
      <3>2. CASE tx' \in LeftOnLine
        <4> SUFFICES ASSUME Trusting, NEW i \in 1..Len(tx')
                     PROVE  Safe(tx'[i]) /\ (flips' = 0 => Checked(tx'[i]))
          BY DEF LineSafe
        <4>1. tx \in Seq(Asked)
          BY DEF TypeInv, LineType
        <4>2. i \in 1..Len(tx) /\ \E n \in 1..Len(tx[i]) : tx'[i] = SubSeq(tx[i], 1, n)
          BY <3>2, <4>1, LeftTyped
        <4>3. PICK n \in 1..Len(tx[i]) : tx'[i] = SubSeq(tx[i], 1, n)
          BY <4>2
        <4>4. tx[i] \in Bytes
          <5>1. tx[i] \in Asked
            <6> HIDE DEF Asked
            <6> QED
              BY <4>1, <4>2
          <5> QED
            BY <5>1 DEF Asked
        <4>5. Safe(tx[i]) /\ (flips = 0 => Checked(tx[i]))
          BY <4>2 DEF ModernInv, LineInv, LineSafe
        <4> QED
          BY <1>1, <4>3, <4>4, <4>5, CutSafe
      <3> QED
        BY <1>1, <3>1, <3>2
    <2> QED
      BY <1>1, <1>3, <2>1, LineKept
  <1>7. RomInv'
    <2>1. CASE dev' = dev
      BY <1>1, <1>3, <2>1, RomKept DEF ModernInv
    <2>2. CASE dev' = "rate"
      <3>1. Trusting => RomIs(flash, "rate")
        BY DEF ModernInv, RomInv, RomIs, Taking
      <3>2. RomIs(flash, "rate") => RomIs(flash, dev)'
        BY <1>1, <1>2, <2>2 DEF RomIs, Clean
      <3> QED
        BY <1>3, <3>1, <3>2 DEF RomInv
    <2> QED
      BY <1>1, <2>1, <2>2
  <1> QED
    BY <1>4, <1>5, <1>6, <1>7 DEF ModernInv

LEMMA FlashBegins ==
    ASSUME Init
    PROVE  FlashInv
  <1>1. pc = "rate" /\ tx = <<>> /\ dev = "rate" /\ heard = <<>> /\ flash = OldFlash
    BY DEF Init
  <1>2. CpuInv /\ PartsInv
    BY <1>1 DEF CpuInv, PartsInv
  <1>3. HeardInv /\ ImageInv
    BY <1>1 DEF HeardInv, ImageInv
  <1>4. LineInv
    BY <1>1 DEF LineInv, LineSafe
  <1>5. RomInv
    BY <1>1 DEF RomInv, RomIs, Taking
  <1> QED
    BY <1>2, <1>3, <1>4, <1>5 DEF FlashInv, ModernInv

\* Another board is never taken for it.
LEMMA CpuStays ==
    ASSUME [Next]_vars
    PROVE  scenario' = scenario
  <1>1. CASE Writer
    <2>1. Answer => scenario' = scenario
      BY DEF Answer, SetBitRate, CheckBitRate, QueryDevice, SelectDevice, SelectClock,
             QueryClock, QueryScale, QueryFreq, Query3, ReadFrame, SetRate, CheckRate, QueryArea,
             QueryPagesize, Erase, Format, Transfer, Start, PageHigh, PageLow, NumberTold,
             PageWritten, End, Simple, Rest
    <2> QED
      BY <1>1, <2>1 DEF Writer, Ask, ReadFile, Rest, world
  <1>2. CASE Device
    BY <1>2 DEF Device, DeviceAnswers, Burn, world
  <1>3. CASE LineFlips \/ Rerun \/ UNCHANGED vars
    BY <1>3 DEF LineFlips, Rerun, vars, world
  <1> QED
    BY <1>1, <1>2, <1>3 DEF Next

LEMMA FlashStep ==
    ASSUME OneFlip, TypeInv, FlashInv, [Next]_vars
    PROVE  FlashInv'
  <1>0. scenario' = scenario
    BY CpuStays
  <1> SUFFICES ASSUME Modern, ModernInv PROVE ModernInv'
    BY <1>0, SameScenario DEF FlashInv
  <1>1. CASE Next
    <2>1. ~Burn
      BY DEF Burn, ModernInv, CpuInv
    <2>2. Answer => ModernInv'
      BY AnswersGo, AnswerKeeps DEF ModernInv
    <2> QED
      BY <1>1, <2>1, <2>2, AskKeeps, ReadFileKeeps, DeviceKeeps, LineFlipsKeeps, RerunKeeps
         DEF Next, Writer, Device
  <1>2. CASE UNCHANGED vars
    <2>1. UNCHANGED <<writer, tx, rx, device, world>>
      BY <1>2 DEF vars
    <2>2. /\ pc' = pc /\ area' = area /\ pagesize' = pagesize /\ rombuf' = rombuf
          /\ dev' = dev /\ heard' = heard /\ flash' = flash /\ tx' = tx /\ flips' = flips
          /\ skipped' = skipped /\ misheard' = misheard /\ scenario' = scenario
      BY <2>1 DEF writer, device, world
    <2>3. Image' = Image
      BY <2>2, SameScenario
    <2>4. Trusting' => Trusting
      BY <2>2, TrustKept
    <2>5. CpuInv'
      BY <2>2 DEF ModernInv, CpuInv
    <2>6. HeardInv'
      BY <2>2 DEF ModernInv, HeardInv
    <2>7. ImageInv'
      BY <2>2, <2>3, <2>4 DEF ModernInv, ImageInv
    <2>8. PartsInv' /\ LineInv' /\ RomInv'
      BY <2>2, <2>4, WriterKeeps
    <2> QED
      BY <2>5, <2>6, <2>7, <2>8 DEF ModernInv
  <1> QED
    BY <1>1, <1>2

LEMMA FlashGives ==
    ASSUME FlashInv, scenario.cpu = "3069"
    PROVE  FlashNeverMixes
  <1>1. ModernInv
    BY DEF FlashInv, Modern
  <1>2. Trusting => flash = OldFlash \/ Clean(flash)
    BY <1>1 DEF ModernInv, RomInv, RomIs
  <1> QED
    BY <1>2 DEF FlashNeverMixes, Trusting, Clean

(***************************************************************************)
(* The ROM of a 3069 holds nothing but what it held before h8write first   *)
(* ran, or blank bytes and bytes of the file, each at its own address:     *)
(* wherever the runs are stopped, in the middle of any frame of main, and  *)
(* however many follow with or without a reset, as long as the line flips  *)
(* at most one bit of what the writer sends, which the check sum shows.    *)
(***************************************************************************)
THEOREM NothingElseInFlash ==
    ASSUME OneFlip
    PROVE  Spec => [](scenario.cpu = "3069" => FlashNeverMixes)
  <1>1. Init => TypeInv /\ FlashInv
    BY InitTyped, FlashBegins
  <1>2. TypeInv /\ FlashInv /\ [Next]_vars => TypeInv' /\ FlashInv'
    BY TypeStep, FlashStep
  <1>3. FlashInv => (scenario.cpu = "3069" => FlashNeverMixes)
    BY FlashGives
  <1> QED
    BY <1>1, <1>2, <1>3, PTL DEF Spec

===============================================================================
