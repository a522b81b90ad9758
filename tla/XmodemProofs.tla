----------------------------- MODULE XmodemProofs -----------------------------
(***************************************************************************)
(* A transfer by XMODEM in which no byte is lost is what it promises, for  *)
(* any file, any width of a byte and any number of faults, as long as no   *)
(* byte of it is mistaken for SOH or EOT.                                  *)
(***************************************************************************)
EXTENDS XmodemProperties, SequenceLemmas

(***************************************************************************)
(* Numbers.                                                                *)
(***************************************************************************)
LEMMA Modulus == 2^BITS \in Nat /\ 2^BITS > 2 /\ ByteMax \in Nat /\ 1 \in Byte /\ 0 \in Byte
  <1>1. 2^BITS \in Int
    BY XmodemAssumption
  <1> DEFINE M == 2^BITS
  <1>2. Byte = 0..(M - 1)
    BY DEF Byte, ByteMax
  <1> HIDE DEF M
  <1>3. M \in Nat /\ M > 2
    BY <1>1, <1>2, XmodemAssumption DEF M
  <1> QED
    BY <1>2, <1>3 DEF M, ByteMax

\* Division with remainder has one result.
LEMMA OneRemainder ==
    ASSUME NEW M \in Nat, M > 1, NEW q \in Nat, NEW p \in Nat,
           NEW r \in 0..(M - 1), NEW s \in 0..(M - 1), M * q + r = M * p + s
    PROVE  r = s
  <1>1. CASE q = p
    BY <1>1
  <1>2. CASE q > p
    <2>1. PICK d \in Nat : q = p + 1 + d
      <3>1. q - p - 1 \in Nat /\ q = p + 1 + (q - p - 1)
        BY <1>2
      <3> QED
        BY <3>1
    <2>2. M * q = M * p + M + M * d /\ M * d \in Nat /\ M * p \in Nat
      BY <2>1
    <2> QED
      BY <2>2
  <1>3. CASE p > q
    <2>1. PICK d \in Nat : p = q + 1 + d
      <3>1. p - q - 1 \in Nat /\ p = q + 1 + (p - q - 1)
        BY <1>3
      <3> QED
        BY <3>1
    <2>2. M * p = M * q + M + M * d /\ M * d \in Nat /\ M * q \in Nat
      BY <2>1
    <2> QED
      BY <2>2
  <1> QED
    BY <1>1, <1>2, <1>3

LEMMA NextRemainder ==
    ASSUME NEW M \in Nat, M > 1, NEW a \in Nat
    PROVE  ((a + 1) % M) = (IF (a % M) + 1 = M THEN 0 ELSE (a % M) + 1)
  <1> DEFINE q == a \div M
             r == a % M
             p == (a + 1) \div M
             s == (a + 1) % M
  <1>1. q \in Nat /\ p \in Nat /\ a = M * q + r /\ a + 1 = M * p + s
    OBVIOUS
  <1>2. r \in 0..(M - 1) /\ s \in 0..(M - 1)
    OBVIOUS
  <1> HIDE DEF q, r, p, s
  <1>3. CASE r + 1 = M
    <2>1. M * (q + 1) + 0 = M * p + s /\ q + 1 \in Nat /\ 0 \in 0..(M - 1)
      <3>1. M * (q + 1) = M * q + M /\ M * q \in Nat /\ M * p \in Nat
        BY <1>1
      <3>2. M * q + M = a + 1
        BY <1>1, <1>2, <1>3, <3>1
      <3> QED
        BY <1>1, <3>1, <3>2
    <2>2. 0 = s
      BY <1>1, <1>2, <2>1, OneRemainder
    <2> QED
      BY <1>3, <2>2 DEF r, s
  <1>4. CASE r + 1 # M
    <2>1. M * q + (r + 1) = M * p + s /\ r + 1 \in 0..(M - 1)
      BY <1>1, <1>2, <1>4
    <2>2. r + 1 = s
      BY <1>1, <1>2, <2>1, OneRemainder
    <2> QED
      BY <1>4, <2>2 DEF r, s
  <1> QED
    BY <1>3, <1>4

\* Two blocks in succession have different numbers.
LEMMA NextNumber ==
    ASSUME NEW a \in Nat
    PROVE  /\ (a % 2^BITS) \in Byte /\ ((a + 1) % 2^BITS) \in Byte
           /\ (a + 1) % 2^BITS # a % 2^BITS
           /\ ((a % 2^BITS) + 1) % 2^BITS = (a + 1) % 2^BITS
  <1> DEFINE M == 2^BITS
  <1>1. M \in Nat /\ M > 2 /\ M > 1 /\ Byte = 0..(M - 1)
    BY Modulus DEF Byte, ByteMax
  <1> HIDE DEF M
  <1>2. (a % M) \in 0..(M - 1) /\ ((a + 1) % M) \in 0..(M - 1)
    BY <1>1
  <1>3. ((a + 1) % M) = (IF (a % M) + 1 = M THEN 0 ELSE (a % M) + 1)
    BY <1>1, NextRemainder, Zenon
  <1>4. \A r \in 0..(M - 1) : ((r + 1) % M) = (IF r + 1 = M THEN 0 ELSE r + 1)
    BY <1>1
  <1>5. (((a % M) + 1) % M) = ((a + 1) % M) /\ ((a + 1) % M) # (a % M)
    BY <1>1, <1>2, <1>3, <1>4
  <1> QED
    BY <1>1, <1>2, <1>5 DEF M

LEMMA Complements ==
    ASSUME NEW a \in Byte, NEW b \in Byte
    PROVE  Complement(a) \in Byte /\ (Complement(a) = Complement(b) => a = b)
  BY Modulus DEF Byte, Complement

LEMMA FlipChanges ==
    ASSUME NEW c \in Byte, NEW d \in Flips(c)
    PROVE  d # c
  <1>1. PICK k \in 0..(BITS - 1) : d = IF (c \div 2^k) % 2 = 0 THEN c + 2^k ELSE c - 2^k
    BY DEF Flips
  <1>2. k \in 0..BITS
    BY XmodemAssumption
  <1>3. 2^k \in Int /\ 2^k > 0 /\ c \in Int
    BY <1>2, XmodemAssumption, Modulus DEF Byte
  <1> QED
    BY <1>1, <1>3

\* The sum modulo the size of a byte tells apart what differs in one place.
LEMMA SumsDiffer ==
    ASSUME NEW a \in Byte, NEW b \in Byte, NEW c \in Byte, NEW d \in Byte
    PROVE  /\ (a + c) % 2^BITS \in Byte
           /\ a # b => (a + c) % 2^BITS # (b + c) % 2^BITS
           /\ c # d => (a + c) % 2^BITS # (a + d) % 2^BITS
  <1> DEFINE M == 2^BITS
  <1>1. M \in Nat /\ M > 2 /\ Byte = 0..(M - 1)
    BY Modulus DEF Byte, ByteMax
  <1> HIDE DEF M
  <1>2. ((a + c) % M) \in 0..(M - 1)
    BY <1>1
  <1>3. a # b => ((a + c) % M) # ((b + c) % M)
    BY <1>1
  <1>4. c # d => ((a + c) % M) # ((a + d) % M)
    BY <1>1
  <1> QED
    BY <1>1, <1>2, <1>3, <1>4 DEF M

-------------------------------------------------------------------------------
(***************************************************************************)
(* Frames and their sums.                                                  *)
(***************************************************************************)
Blocks     == Len(File)
Width      == BLOCK_SIZE + 4                       \* bytes in the frame of a block
FileOK     == /\ Blocks \in Nat /\ File \in Seq(Seq(Byte))
              /\ \A k \in 1..Blocks : File[k] \in [1..BLOCK_SIZE -> Byte]

\* The sums of longer and longer beginnings of q.
SumsUpTo(u, q, n) == u = [i \in 0..n |-> IF i = 0 THEN 0 ELSE (u[i - 1] + q[i]) % 2^BITS]

IsSums(u, q) == /\ u[0] = 0 /\ CheckSum(q) = u[Len(q)]
                /\ \A i \in 0..Len(q) : u[i] \in Byte
                /\ \A i \in 1..Len(q) : u[i] = (u[i - 1] + q[i]) % 2^BITS

LEMMA SumsUpToExist ==
    ASSUME NEW q, NEW n \in Nat
    PROVE  \E u : SumsUpTo(u, q, n)
  <1> DEFINE Bad == {k \in Nat : ~ \E u : SumsUpTo(u, q, k)}
  <1> SUFFICES ASSUME Bad # {} PROVE FALSE
    OBVIOUS
  <1>1. PICK k \in Bad : \A m \in Bad : k <= m
    BY FirstOf
  <1>2. k # 0
    <2>1. SumsUpTo([i \in 0..0 |-> 0], q, 0)
      BY DEF SumsUpTo
    <2> QED
      BY <2>1
  <1>3. k - 1 \in Nat /\ k - 1 \notin Bad
    BY <1>1, <1>2
  <1>4. PICK u : SumsUpTo(u, q, k - 1)
    BY <1>3
  <1> DEFINE step(i) == IF i = 0 THEN 0 ELSE (u[i - 1] + q[i]) % 2^BITS
             v == [i \in 0..k |-> step(i)]
  <1>5. \A i \in 0..(k - 1) : v[i] = u[i]
    <2>1. \A i \in 0..(k - 1) : u[i] = step(i)
      BY <1>4 DEF SumsUpTo
    <2> QED
      BY <1>3, <2>1
  <1>6. \A i \in 0..k : v[i] = IF i = 0 THEN 0 ELSE (v[i - 1] + q[i]) % 2^BITS
    <2>1. \A i \in 0..k : i # 0 => i - 1 \in 0..(k - 1)
      BY <1>3
    <2> QED
      BY <1>5, <2>1
  <1>7. v = [i \in 0..k |-> IF i = 0 THEN 0 ELSE (v[i - 1] + q[i]) % 2^BITS]
    <2>1. v = [i \in 0..k |-> v[i]]
      OBVIOUS
    <2> HIDE DEF v
    <2> QED
      BY <1>6, <2>1
  <1>8. SumsUpTo(v, q, k)
    <2> HIDE DEF v
    <2> QED
      BY <1>7 DEF SumsUpTo
  <1> QED
    BY <1>8

LEMMA SumsExist ==
    ASSUME NEW q \in [1..BLOCK_SIZE -> Byte]
    PROVE  /\ q \in Seq(Byte) /\ Len(q) = BLOCK_SIZE
           /\ \E u \in [0..BLOCK_SIZE -> Byte] : IsSums(u, q)
  <1>1. q \in Seq(Byte) /\ Len(q) = BLOCK_SIZE /\ BLOCK_SIZE \in Nat
    BY XmodemAssumption
  <1> DEFINE n == Len(q)
             u == CHOOSE w : SumsUpTo(w, q, n)
  <1>2. SumsUpTo(u, q, n)
    BY <1>1, SumsUpToExist
  <1> HIDE DEF u
  <1>3. CheckSum(q) = u[n]
    BY DEF CheckSum, SumsUpTo, u
  <1>9. n = BLOCK_SIZE /\ n \in Nat
    BY <1>1
  <1> HIDE DEF n
  <1>4. \A i \in 0..n : u[i] = IF i = 0 THEN 0 ELSE (u[i - 1] + q[i]) % 2^BITS
    BY <1>2 DEF SumsUpTo
  <1>5. DOMAIN u = 0..n /\ u = [i \in 0..n |-> u[i]]
    BY <1>2 DEF SumsUpTo
  <1>6. \A i \in 0..n : u[i] \in Byte
    <2> DEFINE Bad == {i \in 0..n : u[i] \notin Byte}
    <2> SUFFICES ASSUME Bad # {} PROVE FALSE
      OBVIOUS
    <2>1. Bad \subseteq Nat
      OBVIOUS
    <2>2. PICK k \in Bad : \A m \in Bad : k <= m
      BY <2>1, FirstOf
    <2>3. k # 0
      BY <1>4, <2>2, Modulus
    <2>4. k \in 0..n /\ k - 1 \in 0..n /\ k \in 1..n /\ k - 1 \notin Bad
      BY <1>9, <2>2, <2>3
    <2>5. u[k - 1] \in Byte /\ q[k] \in Byte /\ u[k] = (u[k - 1] + q[k]) % 2^BITS
      BY <1>4, <1>9, <2>3, <2>4
    <2>6. u[k] \in Byte
      BY <2>5, SumsDiffer
    <2> QED
      BY <2>2, <2>6
  <1>7. IsSums(u, q)
    <2>1. 0 \in 0..n /\ u[0] = 0 /\ Len(q) = n
      BY <1>4, <1>9 DEF n
    <2>2. \A i \in 1..n : i \in 0..n /\ i # 0
      BY <1>9
    <2> QED
      BY <1>3, <1>4, <1>6, <2>1, <2>2 DEF IsSums
  <1>8. u \in [0..n -> Byte]
    BY <1>5, <1>6
  <1> QED
    BY <1>1, <1>7, <1>8, <1>9

LEMMA Joining ==
    ASSUME NEW S, NEW a \in Seq(S), NEW b \in Seq(S)
    PROVE  /\ a \o b \in Seq(S) /\ Len(a \o b) = Len(a) + Len(b)
           /\ \A i \in 1..Len(a) : (a \o b)[i] = a[i]
           /\ \A i \in 1..Len(b) : (a \o b)[Len(a) + i] = b[i]
  OBVIOUS

LEMMA FileTypes ==
    ASSUME scenario \in Scenario
    PROVE  FileOK /\ FlipIn \subseteq Reading
  <1>1. File \in Seq([1..BLOCK_SIZE -> Byte]) /\ FlipIn \subseteq Reading
    BY XmodemAssumption DEF IsScenario, File, FlipIn
  <1>2. [1..BLOCK_SIZE -> Byte] \subseteq Seq(Byte)
    BY XmodemAssumption
  <1>3. File \in Seq(Seq(Byte))
    BY <1>1, <1>2
  <1> QED
    BY <1>1, <1>3 DEF FileOK, Blocks

\* The bytes of a frame.
LEMMA FrameBytes ==
    ASSUME FileOK, NEW k \in 1..Blocks
    PROVE  /\ Frame(k) \in Seq(Byte) /\ Len(Frame(k)) = Width
           /\ Frame(k)[1] = SOH /\ Frame(k)[2] = k % 2^BITS /\ Frame(k)[3] = Inverted(k)
           /\ \A i \in 1..BLOCK_SIZE : Frame(k)[3 + i] = File[k][i]
           /\ Frame(k)[Width] = CheckSum(File[k])
  <1>1. /\ File[k] \in Seq(Byte) /\ Len(File[k]) = BLOCK_SIZE /\ CheckSum(File[k]) \in Byte
        /\ BLOCK_SIZE \in Nat
    <2>1. File[k] \in [1..BLOCK_SIZE -> Byte] /\ BLOCK_SIZE \in 0..BLOCK_SIZE
      BY XmodemAssumption DEF FileOK
    <2>2. PICK u \in [0..BLOCK_SIZE -> Byte] : IsSums(u, File[k])
      BY <2>1, SumsExist
    <2> QED
      BY <2>1, <2>2, SumsExist, XmodemAssumption DEF IsSums
  <1>2. (k % 2^BITS) \in Byte /\ Inverted(k) \in Byte /\ SOH \in Byte
    <2>1. k \in Nat
      BY DEF FileOK
    <2>2. (k % 2^BITS) \in Byte
      BY <2>1, NextNumber
    <2> QED
      BY <2>2, Complements, XmodemAssumption DEF Inverted
  <1>3. PICK d \in Seq(Byte), n \in Byte, c \in Byte, s \in Byte :
            d = File[k] /\ n = k % 2^BITS /\ c = Inverted(k) /\ s = CheckSum(File[k])
    BY <1>1, <1>2
  <1>4. Frame(k) = <<SOH, n, c>> \o d \o <<s>>
    BY <1>3, SMTT(30) DEF Frame, Blocks, FileOK, Inverted
  <1> DEFINE h == <<SOH, n, c>>
             f == h \o d
             g == f \o <<s>>
  <1>5. /\ h \in Seq(Byte) /\ Len(h) = 3 /\ h[1] = SOH /\ h[2] = n /\ h[3] = c
        /\ <<s>> \in Seq(Byte) /\ Len(<<s>>) = 1 /\ <<s>>[1] = s
    BY <1>2
  <1> HIDE DEF h
  <1>10. d \in Seq(Byte) /\ Len(d) = BLOCK_SIZE
    BY <1>1, <1>3
  <1>6. /\ f \in Seq(Byte) /\ Len(f) = 3 + BLOCK_SIZE
        /\ f[1] = SOH /\ f[2] = n /\ f[3] = c
        /\ \A i \in 1..BLOCK_SIZE : f[3 + i] = d[i]
    <2>1. 1 \in 1..3 /\ 2 \in 1..3 /\ 3 \in 1..3
      OBVIOUS
    <2>2. /\ h \o d \in Seq(Byte) /\ Len(h \o d) = Len(h) + Len(d)
          /\ \A i \in 1..Len(h) : (h \o d)[i] = h[i]
          /\ \A i \in 1..Len(d) : (h \o d)[Len(h) + i] = d[i]
      <3>1. h \in Seq(Byte) /\ d \in Seq(Byte)
        BY <1>5, <1>10
      <3> QED
        BY <3>1, SMT
    <2> HIDE DEF f
    <2>3. /\ f \in Seq(Byte) /\ Len(f) = 3 + BLOCK_SIZE
          /\ \A i \in 1..3 : f[i] = h[i]
          /\ \A i \in 1..BLOCK_SIZE : f[3 + i] = d[i]
      BY <1>5, <1>10, <2>2, Zenon DEF f
    <2> QED
      BY <1>5, <2>1, <2>3
  <1> HIDE DEF f
  <1>7. /\ g \in Seq(Byte) /\ Len(g) = 4 + BLOCK_SIZE /\ g[4 + BLOCK_SIZE] = s
        /\ \A i \in 1..(3 + BLOCK_SIZE) : g[i] = f[i]
    BY <1>1, <1>5, <1>6
  <1>8. /\ g \in Seq(Byte) /\ Len(g) = Width /\ g[Width] = s
        /\ g[1] = SOH /\ g[2] = n /\ g[3] = c
        /\ \A i \in 1..BLOCK_SIZE : g[3 + i] = d[i]
    <2>1. Width = 4 + BLOCK_SIZE
      BY <1>1 DEF Width
    <2>2. /\ 1 \in 1..(3 + BLOCK_SIZE) /\ 2 \in 1..(3 + BLOCK_SIZE) /\ 3 \in 1..(3 + BLOCK_SIZE)
          /\ \A i \in 1..BLOCK_SIZE : 3 + i \in 1..(3 + BLOCK_SIZE)
      BY <1>1
    <2> HIDE DEF g
    <2> QED
      BY <1>6, <1>7, <2>1, <2>2
  <1>9. Frame(k) = g
    BY <1>4 DEF f, h
  <1> QED
    BY <1>3, <1>8, <1>9

LEMMA LastFrame ==
    ASSUME FileOK
    PROVE  Frame(Blocks + 1) = <<EOT>> /\ <<EOT>> \in Seq(Byte)
  BY XmodemAssumption DEF Frame, Blocks, FileOK

LEMMA FrameType ==
    ASSUME FileOK, NEW k \in 1..(Blocks + 1)
    PROVE  Frame(k) \in Seq(Byte) /\ Frame(k) # <<>>
  <1>1. CASE k \in 1..Blocks
    <2>1. Frame(k) \in Seq(Byte) /\ Len(Frame(k)) = Width
      BY <1>1, FrameBytes
    <2>2. Width # 0
      BY XmodemAssumption DEF Width
    <2> QED
      BY <2>1, <2>2
  <1>2. CASE k = Blocks + 1
    <2>1. Frame(k) = <<EOT>> /\ <<EOT>> \in Seq(Byte)
      BY <1>2, LastFrame, Zenon
    <2> QED
      BY <2>1
  <1>3. k \in 1..Blocks \/ k = Blocks + 1
    BY DEF FileOK
  <1> QED
    BY <1>1, <1>2, <1>3

-------------------------------------------------------------------------------
(***************************************************************************)
(* What is on the line: the rest of a frame, and whole frames.             *)
(***************************************************************************)
Numbers    == 1..(Blocks + 1)                       \* of frames
FrameOf(ks) == [i \in DOMAIN ks |-> Frame(ks[i])]
Frames(ks) == FlattenSeq(FrameOf(ks))

LEMMA FrameSeq ==
    ASSUME FileOK, NEW ks \in Seq(Numbers)
    PROVE  /\ FrameOf(ks) \in Seq(Seq(Byte)) /\ Len(FrameOf(ks)) = Len(ks)
           /\ \A i \in 1..Len(ks) : FrameOf(ks)[i] = Frame(ks[i])
  <1>1. ASSUME NEW i \in 1..Len(ks) PROVE Frame(ks[i]) \in Seq(Byte)
    <2>1. ks[i] \in Numbers
      OBVIOUS
    <2> QED
      BY <2>1, FrameType DEF Numbers
  <1> DEFINE f(i) == Frame(ks[i])
  <1>2. FrameOf(ks) = [i \in 1..Len(ks) |-> f(i)]
    BY DEF FrameOf
  <1>3. \A i \in 1..Len(ks) : f(i) \in Seq(Byte)
    BY <1>1
  <1> HIDE DEF f
  <1>4. FrameOf(ks) \in Seq(Seq(Byte)) /\ Len(FrameOf(ks)) = Len(ks)
        /\ \A i \in 1..Len(ks) : FrameOf(ks)[i] = f(i)
    BY <1>2, <1>3
  <1> QED
    BY <1>4 DEF f

LEMMA FlatType == ASSUME NEW s \in Seq(Seq(Byte)) PROVE FlattenSeq(s) \in Seq(Byte)
  BY JoinedType DEF FlattenSeq, Seqs!FlattenSeq

LEMMA FlatEmpty == FlattenSeq(<<>>) = <<>>
  BY JoinedEmpty DEF FlattenSeq, Seqs!FlattenSeq

LEMMA FlatAppend ==
    ASSUME NEW s \in Seq(Seq(Byte)), NEW x \in Seq(Byte)
    PROVE  FlattenSeq(Append(s, x)) = FlattenSeq(s) \o x
  BY JoinedAppend DEF FlattenSeq, Seqs!FlattenSeq

LEMMA FlatFirst ==
    ASSUME NEW s \in Seq(Seq(Byte)), s # <<>>
    PROVE  FlattenSeq(s) = s[1] \o FlattenSeq(Tail(s))
  BY JoinedFirst DEF FlattenSeq, Seqs!FlattenSeq

LEMMA FramesType ==
    ASSUME FileOK, NEW ks \in Seq(Numbers)
    PROVE  Frames(ks) \in Seq(Byte)
  BY FrameSeq, FlatType DEF Frames

LEMMA FramesEmpty == Frames(<<>>) = <<>>
  <1>1. FrameOf(<<>>) = <<>>
    BY DEF FrameOf
  <1> QED
    BY <1>1, FlatEmpty DEF Frames

LEMMA FramesAppend ==
    ASSUME FileOK, NEW ks \in Seq(Numbers), NEW k \in Numbers
    PROVE  /\ Append(ks, k) \in Seq(Numbers)
           /\ Frames(Append(ks, k)) = Frames(ks) \o Frame(k)
  <1> DEFINE s == FrameOf(ks)
             t == FrameOf(Append(ks, k))
  <1>1. /\ Append(ks, k) \in Seq(Numbers) /\ Len(Append(ks, k)) = Len(ks) + 1
        /\ \A i \in 1..Len(ks) : Append(ks, k)[i] = ks[i] /\ i \in 1..(Len(ks) + 1)
        /\ Append(ks, k)[Len(ks) + 1] = k /\ Len(ks) \in Nat
    BY AppendProperties
  <1>2. /\ s \in Seq(Seq(Byte)) /\ Len(s) = Len(ks)
        /\ \A i \in 1..Len(ks) : s[i] = Frame(ks[i])
    BY FrameSeq
  <1>3. /\ t \in Seq(Seq(Byte)) /\ Len(t) = Len(ks) + 1
        /\ \A i \in 1..(Len(ks) + 1) : t[i] = Frame(Append(ks, k)[i])
    BY <1>1, FrameSeq
  <1>4. Frame(k) \in Seq(Byte)
    BY FrameType DEF Numbers
  <1> HIDE DEF s, t
  <1>5. t = Append(s, Frame(k))
    <2>1. \A i \in 1..Len(ks) : t[i] = s[i]
      BY <1>1, <1>2, <1>3
    <2>2. t[Len(ks) + 1] = Frame(k)
      BY <1>1, <1>3
    <2>3. PICK x \in Seq(Byte) : x = Frame(k)
      BY <1>4
    <2>4. t = Append(s, x)
      BY <1>1, <1>2, <1>3, <2>1, <2>2, <2>3
    <2> QED
      BY <2>3, <2>4
  <1>6. FlattenSeq(t) = FlattenSeq(s) \o Frame(k)
    BY <1>2, <1>4, <1>5, FlatAppend
  <1> QED
    BY <1>1, <1>6 DEF Frames, s, t

LEMMA FramesFirst ==
    ASSUME FileOK, NEW ks \in Seq(Numbers), ks # <<>>
    PROVE  /\ Tail(ks) \in Seq(Numbers) /\ ks[1] \in Numbers
           /\ Frames(ks) = Frame(ks[1]) \o Frames(Tail(ks))
           /\ Frames(ks) # <<>>
  <1> DEFINE s == FrameOf(ks)
             t == FrameOf(Tail(ks))
  <1>1. /\ Tail(ks) \in Seq(Numbers) /\ Len(Tail(ks)) = Len(ks) - 1
        /\ \A i \in 1..(Len(ks) - 1) : Tail(ks)[i] = ks[i + 1] /\ i + 1 \in 1..Len(ks)
        /\ Len(ks) \in Nat \ {0} /\ 1 \in 1..Len(ks) /\ ks[1] \in Numbers
    OBVIOUS
  <1>2. /\ s \in Seq(Seq(Byte)) /\ Len(s) = Len(ks)
        /\ \A i \in 1..Len(ks) : s[i] = Frame(ks[i])
    BY FrameSeq
  <1>3. /\ t \in Seq(Seq(Byte)) /\ Len(t) = Len(ks) - 1
        /\ \A i \in 1..(Len(ks) - 1) : t[i] = Frame(Tail(ks)[i])
    BY <1>1, FrameSeq
  <1>4. Frame(ks[1]) \in Seq(Byte) /\ Frame(ks[1]) # <<>>
    BY <1>1, FrameType DEF Numbers
  <1> HIDE DEF s, t
  <1>5. t = Tail(s) /\ s[1] = Frame(ks[1]) /\ s # <<>>
    <2>1. \A i \in 1..(Len(ks) - 1) : t[i] = s[i + 1]
      BY <1>1, <1>2, <1>3
    <2>2. s # <<>> /\ s[1] = Frame(ks[1])
      BY <1>1, <1>2
    <2>3. PICK u \in Seq(Seq(Byte)) : u = Tail(s)
      <3>1. Tail(s) \in Seq(Seq(Byte))
        BY <1>2, <2>2, HeadTailProperties
      <3> QED
        BY <3>1
    <2>4. Len(u) = Len(t) /\ \A i \in 1..(Len(ks) - 1) : u[i] = s[i + 1]
      BY <1>1, <1>2, <1>3, <2>2, <2>3
    <2>5. t = u
      BY <1>3, <2>1, <2>4
    <2> QED
      BY <2>2, <2>3, <2>5
  <1>6. FlattenSeq(s) = Frame(ks[1]) \o FlattenSeq(t)
    BY <1>2, <1>5, FlatFirst
  <1>7. FlattenSeq(t) \in Seq(Byte)
    BY <1>3, FlatType
  <1>8. FlattenSeq(s) # <<>>
    <2>1. PICK x \in Seq(Byte), y \in Seq(Byte) : x = Frame(ks[1]) /\ y = FlattenSeq(t)
      BY <1>4, <1>7
    <2>2. x # <<>> => x \o y # <<>>
      OBVIOUS
    <2> QED
      BY <1>4, <1>6, <2>1, <2>2
  <1> QED
    BY <1>1, <1>6, <1>8 DEF Frames, s, t

\* One byte of a sequence is read.
LEMMA Reads ==
    ASSUME NEW a \in Seq(Byte), a # <<>>, NEW b \in Seq(Byte)
    PROVE  /\ a \o b \in Seq(Byte) /\ a \o b # <<>>
           /\ Head(a \o b) = a[1] /\ (a \o b)[1] = a[1]
           /\ Tail(a \o b) = Tail(a) \o b /\ Tail(a) \in Seq(Byte)
           /\ Len(Tail(a)) = Len(a) - 1
           /\ \A i \in 1..(Len(a) - 1) : Tail(a)[i] = a[i + 1] /\ Tail(a \o b)[i] = a[i + 1]
  <1>1. a \o b \in Seq(Byte) /\ a \o b # <<>> /\ (a \o b)[1] = a[1] /\ Head(a \o b) = a[1]
    OBVIOUS
  <1>2. /\ Tail(a) \in Seq(Byte) /\ Len(Tail(a)) = Len(a) - 1
        /\ \A i \in 1..(Len(a) - 1) : Tail(a)[i] = a[i + 1]
    OBVIOUS
  <1>3. \A i \in 1..(Len(a) - 1) : Tail(a \o b)[i] = a[i + 1]
    BY <1>1
  <1>4. Tail(a \o b) = Tail(a) \o b
    OBVIOUS
  <1> QED
    BY <1>1, <1>2, <1>3, <1>4

\* The bytes of the frame of block k from the one after "from" on.
IsRest(rest, k, from) ==
    /\ rest \in Seq(Byte) /\ Len(rest) = Width - from
    /\ \A i \in 1..(Width - from) : rest[i] = Frame(k)[from + i]

LEMMA RestReads ==
    ASSUME NEW k, NEW from \in 0..(Width - 1), NEW rest \in Seq(Byte), IsRest(rest, k, from),
           NEW b \in Seq(Byte)
    PROVE  /\ Head(rest \o b) = Frame(k)[from + 1]
           /\ Tail(rest \o b) = Tail(rest) \o b
           /\ Tail(rest) \in Seq(Byte) /\ IsRest(Tail(rest), k, from + 1)
  <1>1. Width \in Nat
    BY XmodemAssumption DEF Width
  <1>2. Len(rest) = Width - from /\ rest # <<>>
    BY <1>1 DEF IsRest
  <1>3. /\ Head(rest \o b) = rest[1]
        /\ Tail(rest \o b) = Tail(rest) \o b /\ Tail(rest) \in Seq(Byte)
        /\ Len(Tail(rest)) = Len(rest) - 1
        /\ \A i \in 1..(Len(rest) - 1) : Tail(rest)[i] = rest[i + 1]
    BY <1>2, Reads
  <1>4. \A i \in 1..(Width - from) : rest[i] = Frame(k)[from + i]
    BY DEF IsRest
  <1>5. Head(rest \o b) = Frame(k)[from + 1]
    BY <1>1, <1>3, <1>4
  <1>6. IsRest(Tail(rest), k, from + 1)
    <2>1. \A i \in 1..(Width - (from + 1)) :
             /\ i \in 1..(Len(rest) - 1) /\ i + 1 \in 1..(Width - from)
             /\ from + (i + 1) = (from + 1) + i
      BY <1>1, <1>2
    <2>2. \A i \in 1..(Width - (from + 1)) : Tail(rest)[i] = Frame(k)[(from + 1) + i]
      BY <1>3, <1>4, <2>1
    <2>3. Len(Tail(rest)) = Width - (from + 1)
      BY <1>1, <1>2, <1>3
    <2> QED
      BY <1>3, <2>2, <2>3 DEF IsRest
  <1> QED
    BY <1>3, <1>5, <1>6

\* The next byte, if this one was not the last of the frame, and what follows it.
LEMMA RestGoesOn ==
    ASSUME NEW k, NEW from \in 0..(Width - 1), from + 1 < Width, NEW rest \in Seq(Byte),
           IsRest(rest, k, from + 1), NEW b \in Seq(Byte)
    PROVE  rest \o b # <<>> /\ (rest \o b)[1] = Frame(k)[from + 2]
  <1>1. Width \in Nat
    BY XmodemAssumption DEF Width
  <1>2. Len(rest) = Width - (from + 1) /\ 1 \in 1..(Width - (from + 1))
    BY <1>1 DEF IsRest
  <1>3. rest # <<>> /\ rest[1] = Frame(k)[(from + 1) + 1] /\ (from + 1) + 1 = from + 2
    BY <1>2 DEF IsRest
  <1>4. rest \o b # <<>> /\ (rest \o b)[1] = rest[1]
    BY <1>3, Reads
  <1> QED
    BY <1>3, <1>4

LEMMA RestEnds ==
    ASSUME NEW k, NEW rest \in Seq(Byte), IsRest(rest, k, Width), NEW b \in Seq(Byte)
    PROVE  rest \o b = b
  <1>1. Width \in Nat
    BY XmodemAssumption DEF Width
  <1>2. rest = <<>>
    BY <1>1 DEF IsRest
  <1> QED
    BY <1>2

LEMMA FrameReads ==
    ASSUME FileOK, NEW k \in 1..Blocks, NEW b \in Seq(Byte)
    PROVE  /\ Head(Frame(k) \o b) = SOH
           /\ Tail(Frame(k) \o b) = Tail(Frame(k)) \o b /\ IsRest(Tail(Frame(k)), k, 1)
           /\ Tail(Frame(k) \o b) # <<>> /\ Tail(Frame(k) \o b)[1] = Frame(k)[2]
  <1> DEFINE from == 0
  <1>1. Frame(k) \in Seq(Byte) /\ Len(Frame(k)) = Width /\ Frame(k)[1] = SOH
    BY FrameBytes
  <1>2. Width \in Nat /\ Width > 3
    BY XmodemAssumption DEF Width
  <1>3. IsRest(Frame(k), k, from)
    BY <1>1, <1>2 DEF IsRest
  <1>4. from \in 0..(Width - 1) /\ from + 1 < Width /\ from + 1 = 1 /\ from + 2 = 2
    BY <1>2
  <1> HIDE DEF from
  <1>5. /\ Head(Frame(k) \o b) = Frame(k)[from + 1]
        /\ Tail(Frame(k) \o b) = Tail(Frame(k)) \o b
        /\ Tail(Frame(k)) \in Seq(Byte) /\ IsRest(Tail(Frame(k)), k, from + 1)
    BY <1>1, <1>3, <1>4, RestReads, ZenonT(40)
  <1>6. Tail(Frame(k)) \o b # <<>> /\ (Tail(Frame(k)) \o b)[1] = Frame(k)[from + 2]
    BY <1>4, <1>5, RestGoesOn
  <1> QED
    BY <1>1, <1>4, <1>5, <1>6, Zenon

-------------------------------------------------------------------------------
(***************************************************************************)
(* The beginnings of the file.                                             *)
(***************************************************************************)
LEMMA ContentType ==
    ASSUME FileOK, NEW m \in 0..Blocks
    PROVE  Content(m) \in Seq(Byte)
  <1>1. SubSeq(File, 1, m) \in Seq(Seq(Byte))
    BY DEF FileOK, Blocks
  <1> QED
    BY <1>1, FlatType DEF Content

LEMMA ContentZero == ASSUME FileOK PROVE Content(0) = <<>>
  <1>1. SubSeq(File, 1, 0) = <<>>
    BY DEF FileOK
  <1> QED
    BY <1>1, FlatEmpty DEF Content

LEMMA ContentNext ==
    ASSUME FileOK, NEW m \in 0..Blocks, m # Blocks
    PROVE  Content(m + 1) = Content(m) \o File[m + 1]
  <1>1. SubSeq(File, 1, m + 1) = Append(SubSeq(File, 1, m), File[m + 1])
    BY DEF FileOK, Blocks
  <1>2. SubSeq(File, 1, m) \in Seq(Seq(Byte)) /\ File[m + 1] \in Seq(Byte)
    BY DEF FileOK, Blocks
  <1> QED
    BY <1>1, <1>2, FlatAppend DEF Content

LEMMA ContentLength ==
    ASSUME FileOK, NEW m \in 0..Blocks
    PROVE  Len(Content(m)) = m * BLOCK_SIZE
  <1> DEFINE Bad == {k \in 0..Blocks : Len(Content(k)) # k * BLOCK_SIZE}
  <1> SUFFICES ASSUME Bad # {} PROVE FALSE
    OBVIOUS
  <1>0. BLOCK_SIZE \in Nat /\ Blocks \in Nat
    BY XmodemAssumption DEF FileOK
  <1>1. Bad \subseteq Nat
    BY <1>0
  <1>2. PICK k \in Nat : k \in Bad /\ \A j \in Bad : k <= j
    <2> HIDE DEF Bad
    <2>1. PICK k \in Bad : \A j \in Bad : k <= j
      BY <1>1, FirstOf
    <2> QED
      BY <1>1, <2>1
  <1>3. k \in 0..Blocks /\ Len(Content(k)) # k * BLOCK_SIZE
    BY <1>2
  <1>4. k # 0
    BY <1>0, <1>3, ContentZero
  <1>5. k - 1 \in 0..Blocks /\ k - 1 # Blocks /\ (k - 1) + 1 = k /\ k \in 1..Blocks
    BY <1>0, <1>3, <1>4
  <1>6. Len(Content(k - 1)) = (k - 1) * BLOCK_SIZE
    BY <1>2, <1>5
  <1> HIDE DEF Bad
  <1>7. Content(k) = Content(k - 1) \o File[k]
    <2>1. Content((k - 1) + 1) = Content(k - 1) \o File[(k - 1) + 1]
      BY <1>5, ContentNext
    <2> QED
      BY <1>5, <2>1
  <1>8. File[k] \in Seq(Byte) /\ Len(File[k]) = BLOCK_SIZE
    BY <1>0, <1>5 DEF FileOK
  <1>9. Content(k - 1) \in Seq(Byte)
    BY <1>5, ContentType
  <1>10. Len(Content(k)) = Len(Content(k - 1)) + BLOCK_SIZE
    <2>1. PICK a \in Seq(Byte), b \in Seq(Byte) : a = Content(k - 1) /\ b = File[k]
      BY <1>8, <1>9
    <2>2. Len(a \o b) = Len(a) + Len(b)
      OBVIOUS
    <2> QED
      BY <1>7, <1>8, <2>1, <2>2
  <1>11. (k - 1) * BLOCK_SIZE + BLOCK_SIZE = k * BLOCK_SIZE
    BY <1>0
  <1> QED
    BY <1>3, <1>6, <1>10, <1>11

LEMMA ContentPrefix ==
    ASSUME FileOK, NEW m \in 0..Blocks
    PROVE  IsPrefix(Content(m), Content(Blocks))
  <1> DEFINE Begins(k) == \E y \in Seq(Byte) : Content(k) = Content(m) \o y
             Bad == {k \in m..Blocks : ~Begins(k)}
  <1>0. Blocks \in Nat
    BY DEF FileOK
  <1>1. Bad = {}
    <2> SUFFICES ASSUME Bad # {} PROVE FALSE
      OBVIOUS
    <2>1. Bad \subseteq Nat
      BY <1>0
    <2> HIDE DEF Begins
    <2>2. PICK k \in Nat : k \in m..Blocks /\ ~Begins(k) /\ \A j \in Bad : k <= j
      <3>1. PICK k \in Bad : \A j \in Bad : k <= j
        BY <2>1, FirstOf
      <3> QED
        BY <2>1, <3>1
    <2>3. k # m
      <3>1. Content(m) \in Seq(Byte)
        BY ContentType
      <3>2. Content(m) = Content(m) \o <<>> /\ <<>> \in Seq(Byte)
        BY <3>1
      <3>3. Begins(m)
        BY <3>2 DEF Begins
      <3> QED
        BY <2>2, <3>3
    <2>4. /\ k - 1 \in m..Blocks /\ k - 1 \in 0..Blocks /\ k - 1 # Blocks /\ (k - 1) + 1 = k
          /\ k \in 1..Blocks /\ ~(k <= k - 1)
      BY <1>0, <2>2, <2>3
    <2>5. Begins(k - 1)
      BY <2>2, <2>4
    <2>6. PICK y \in Seq(Byte) : Content(k - 1) = Content(m) \o y
      BY <2>5 DEF Begins
    <2>7. Content(k) = Content(k - 1) \o File[k]
      <3>1. Content((k - 1) + 1) = Content(k - 1) \o File[(k - 1) + 1]
        BY <2>4, ContentNext
      <3> QED
        BY <2>4, <3>1
    <2>8. PICK a \in Seq(Byte), b \in Seq(Byte) : a = Content(m) /\ b = File[k]
      <3>1. Content(m) \in Seq(Byte)
        BY ContentType
      <3>2. File[k] \in Seq(Byte)
        BY <2>4, XmodemAssumption DEF FileOK
      <3> QED
        BY <3>1, <3>2
    <2>9. (a \o y) \o b = a \o (y \o b) /\ y \o b \in Seq(Byte)
      BY Regroup, SMTT(30)
    <2>10. Begins(k)
      BY <2>6, <2>7, <2>8, <2>9 DEF Begins
    <2> QED
      BY <2>2, <2>10
  <1>2. Begins(Blocks)
    <2>1. Blocks \in m..Blocks
      BY <1>0
    <2> HIDE DEF Begins
    <2> QED
      BY <1>1, <2>1
  <1>3. PICK a \in Seq(Byte), y \in Seq(Byte) : a = Content(m) /\ Content(Blocks) = a \o y
    BY <1>2, ContentType
  <1>4. IsPrefix(a, a \o y)
    <2>1. Len(a) <= Len(a \o y) /\ SubSeq(a, 1, Len(a)) = SubSeq(a \o y, 1, Len(a))
      OBVIOUS
    <2> QED
      BY <2>1 DEF IsPrefix
  <1> QED
    BY <1>3, <1>4

-------------------------------------------------------------------------------
(***************************************************************************)
(* Types.  A block is never read past its end.                             *)
(***************************************************************************)
TypeInv == TypeOK /\ (pc = "data" => Len(part) < BLOCK_SIZE)

LEMMA ReceiveType ==
    ASSUME TypeInv, NEW c \in Byte, Receive(c), scenario' = scenario
    PROVE  /\ line' \in Seq(Byte) /\ errors' \in 0..MAX_ERRORS /\ hit' \in BOOLEAN
           /\ sent' \in 0..(Len(File') + 1)
           /\ sender' \in {"active", "finished", "cancelled"}
           /\ scenario' \in Scenario
  <1>1. line' \in Seq(Byte)
    BY DEF Receive, TypeInv, TypeOK
  <1>2. errors' \in 0..MAX_ERRORS
    BY XmodemAssumption DEF Receive, TypeInv, TypeOK
  <1>3. hit' \in BOOLEAN
    BY Zenon DEF Receive, TypeInv, TypeOK
  <1> QED
    BY <1>1, <1>2, <1>3 DEF Receive, TypeInv, TypeOK, File

LEMMA ReplyType ==
    ASSUME TypeInv, NEW r \in {"ACK", "NAK"}, Reply(r)
    PROVE  replies' \in Seq({"ACK", "NAK"})
  BY DEF Reply, TypeInv, TypeOK

LEMMA RejectType ==
    ASSUME TypeInv, NEW c \in Byte, Receive(c), Reject, scenario' = scenario
    PROVE  TypeInv'
  <1>1. replies' \in Seq({"ACK", "NAK"})
    BY ReplyType DEF Reject
  <1>2. pc' = "header" /\ part' = <<>> /\ Len(part') < BLOCK_SIZE + 1 /\ part' \in Seq(Byte)
    BY XmodemAssumption DEF Reject
  <1>3. /\ recieving' \in BOOLEAN /\ block_number' \in Byte /\ check_sum' \in Byte
        /\ buf' \in Seq(Byte)
    BY DEF Reject, TypeInv, TypeOK
  <1>4. pc' \in Reading \cup {"received", "aborted"} /\ pc' # "data"
    BY <1>2 DEF Reading
  <1> QED
    BY <1>1, <1>2, <1>3, <1>4, ReceiveType DEF TypeInv, TypeOK

LEMMA TransmitType ==
    ASSUME TypeInv, NEW n \in 1..(Blocks + 1), Transmit(n), scenario' = scenario
    PROVE  /\ sent' \in 0..(Len(File') + 1) /\ line' \in Seq(Byte) /\ hit' \in BOOLEAN
  <1>1. FileOK /\ File' = File
    BY FileTypes DEF TypeInv, TypeOK, File
  <1>2. Frame(n) \in Seq(Byte)
    BY <1>1, FrameType
  <1>3. line \o Frame(n) \in Seq(Byte)
    BY <1>2 DEF TypeInv, TypeOK
  <1>4. line' \in Seq(Byte)
    BY <1>3 DEF Transmit, TypeInv, TypeOK
  <1>5. sent' \in 0..(Len(File') + 1)
    BY <1>1 DEF Transmit, Blocks, FileOK
  <1>6. hit' \in BOOLEAN
    BY DEF Transmit
  <1> QED
    BY <1>4, <1>5, <1>6

LEMMA TypeStep ==
    ASSUME TypeInv, Next
    PROVE  TypeInv'
  <1>0. scenario' = scenario /\ File' = File /\ BLOCK_SIZE \in Nat \ {0} /\ MAX_ERRORS \in Nat
    BY XmodemAssumption DEF Next, File
  <1>1. CASE Timeout
    <2>1. replies' \in Seq({"ACK", "NAK"})
      BY <1>1, ReplyType DEF Timeout
    <2>2. errors' \in 0..MAX_ERRORS
      BY <1>0, <1>1 DEF Timeout, TypeInv, TypeOK
    <2> QED
      BY <1>0, <1>1, <2>1, <2>2 DEF Timeout, receiver, TypeInv, TypeOK
  <1>2. CASE ReadHeader
    <2>1. PICK c \in Byte :
             /\ Receive(c) /\ pc' \in {"received", "aborted", "num", "header"}
             /\ IF c = EOT THEN Reply("ACK") ELSE UNCHANGED replies
             /\ recieving' \in BOOLEAN
             /\ UNCHANGED <<block_number, check_sum, part, buf>>
      BY <1>2 DEF ReadHeader
    <2>2. replies' \in Seq({"ACK", "NAK"})
      BY <2>1, ReplyType DEF TypeInv, TypeOK
    <2> QED
      BY <1>0, <2>1, <2>2, ReceiveType DEF TypeInv, TypeOK, Reading
  <1>3. CASE ReadNumber
    <2>1. PICK c \in Byte :
             /\ Receive(c)
             /\ \/ Reject
                \/ /\ pc' = "inv"
                   /\ UNCHANGED <<recieving, block_number, check_sum, part, buf, replies>>
      BY <1>3 DEF ReadNumber
    <2>2. CASE Reject
      BY <1>0, <2>1, <2>2, RejectType
    <2>3. CASE ~Reject
      BY <1>0, <2>1, <2>3, ReceiveType DEF TypeInv, TypeOK, Reading
    <2> QED
      BY <2>2, <2>3
  <1>4. CASE ReadInverse
    <2>1. PICK c \in Byte :
             /\ Receive(c)
             /\ \/ Reject
                \/ /\ pc' = "data" /\ check_sum' = 0 /\ part' = <<>>
                   /\ UNCHANGED <<recieving, block_number, buf, replies>>
      BY <1>4 DEF ReadInverse
    <2>2. CASE Reject
      BY <1>0, <2>1, <2>2, RejectType
    <2>3. CASE ~Reject
      <3>1. /\ recieving' \in BOOLEAN /\ block_number' \in Byte /\ check_sum' \in Byte
            /\ buf' \in Seq(Byte) /\ replies' \in Seq({"ACK", "NAK"})
        BY <2>1, <2>3, Modulus DEF TypeInv, TypeOK
      <3>2. pc' = "data" /\ part' = <<>>
        BY <2>1, <2>3, Zenon
      <3>3. Len(part') < BLOCK_SIZE + 1 /\ Len(part') < BLOCK_SIZE /\ part' \in Seq(Byte)
        BY <1>0, <3>2
      <3>4. pc' \in Reading
        BY <3>2 DEF Reading
      <3>5. /\ line' \in Seq(Byte) /\ errors' \in 0..MAX_ERRORS /\ hit' \in BOOLEAN
            /\ sent' \in 0..(Len(File') + 1)
            /\ sender' \in {"active", "finished", "cancelled"}
            /\ scenario' \in Scenario
        BY <1>0, <2>1, ReceiveType, Zenon
      <3> QED
        BY <3>1, <3>3, <3>4, <3>5 DEF TypeInv, TypeOK
    <2> QED
      BY <2>2, <2>3
  <1>5. CASE ReadData
    <2>1. PICK c \in Byte :
             /\ pc = "data" /\ Receive(c) /\ part' = Append(part, c)
             /\ check_sum' = (check_sum + c) % 2^BITS
             /\ pc' = IF Len(part) + 1 = BLOCK_SIZE THEN "sum" ELSE "data"
             /\ UNCHANGED <<recieving, block_number, buf, replies>>
      BY <1>5 DEF ReadData
    <2>2. check_sum' \in Byte
      BY <2>1, SumsDiffer DEF TypeInv, TypeOK
    <2>3. /\ part' \in Seq(Byte) /\ Len(part') < BLOCK_SIZE + 1
          /\ pc' = "data" => Len(part') < BLOCK_SIZE
      BY <1>0, <2>1 DEF TypeInv, TypeOK
    <2>4. pc' \in Reading
      BY <2>1 DEF Reading
    <2>5. recieving' \in BOOLEAN /\ block_number' \in Byte /\ buf' \in Seq(Byte)
          /\ replies' \in Seq({"ACK", "NAK"})
      BY <2>1 DEF TypeInv, TypeOK
    <2> QED
      BY <1>0, <2>1, <2>2, <2>3, <2>4, <2>5, ReceiveType DEF TypeInv, TypeOK
  <1>6. CASE ReadSum
    <2>1. PICK c \in Byte :
             /\ Receive(c)
             /\ \/ Reject
                \/ /\ pc' = "header" /\ Reply("ACK")
                   /\ buf' = buf \o part /\ part' = <<>>
                   /\ block_number' = (block_number + 1) % 2^BITS
                   /\ UNCHANGED <<recieving, check_sum>>
      BY <1>6 DEF ReadSum
    <2>2. CASE Reject
      BY <1>0, <2>1, <2>2, RejectType
    <2>3. CASE ~Reject
      <3>1. replies' \in Seq({"ACK", "NAK"})
        BY <2>1, <2>3, ReplyType
      <3>2. block_number' \in Byte
        BY <2>1, <2>3, SumsDiffer, Modulus DEF TypeInv, TypeOK
      <3>3. buf' \in Seq(Byte) /\ part' \in Seq(Byte) /\ Len(part') < BLOCK_SIZE + 1
        <4>1. part \in Seq(Byte) /\ buf \in Seq(Byte) /\ part' = <<>> /\ buf' = buf \o part
          BY <2>1, <2>3 DEF TypeInv, TypeOK
        <4>2. buf \o part \in Seq(Byte)
          BY <4>1
        <4> QED
          BY <1>0, <4>1, <4>2
      <3> QED
        BY <1>0, <2>1, <2>3, <3>1, <3>2, <3>3, ReceiveType DEF TypeInv, TypeOK, Reading
    <2> QED
      BY <2>2, <2>3
  <1>7. CASE SenderReply
    <2>0. /\ replies' = Tail(replies) /\ replies # <<>> /\ UNCHANGED <<receiver, errors>>
      BY <1>7 DEF SenderReply
    <2>1. replies' \in Seq({"ACK", "NAK"})
      BY <2>0 DEF TypeInv, TypeOK
    <2>2. Blocks \in Nat /\ sent \in 0..(Blocks + 1) /\ Blocks = Len(File)
      BY FileTypes DEF TypeInv, TypeOK, Blocks, FileOK
    <2>3. \/ \E n \in 1..(Blocks + 1) : Transmit(n) /\ UNCHANGED sender
          \/ sender' = "finished" /\ UNCHANGED <<sent, line, hit>>
          \/ UNCHANGED <<sent, line, hit, sender>>
      <3>1. /\ (IF sent = 0 THEN 1 ELSE sent) \in 1..(Blocks + 1)
            /\ sent \in 1..Blocks => sent + 1 \in 1..(Blocks + 1)
        BY <2>2
      <3> QED
        BY <1>7, <2>2, <3>1 DEF SenderReply
    <2>4. /\ sent' \in 0..(Len(File') + 1) /\ line' \in Seq(Byte) /\ hit' \in BOOLEAN
          /\ sender' \in {"active", "finished", "cancelled"}
      <3>1. CASE \E n \in 1..(Blocks + 1) : Transmit(n) /\ UNCHANGED sender
        BY <1>0, <3>1, TransmitType DEF TypeInv, TypeOK
      <3>2. CASE UNCHANGED <<sent, line, hit>> /\ sender' \in {sender, "finished"}
        BY <1>0, <3>2 DEF TypeInv, TypeOK
      <3> QED
        BY <2>3, <3>1, <3>2
    <2> QED
      BY <1>0, <2>0, <2>1, <2>4 DEF TypeInv, TypeOK, receiver
  <1>8. CASE SenderTimeout
    <2>1. Transmit(sent) /\ sent > 0 /\ UNCHANGED <<receiver, replies, sender, errors>>
      BY <1>8 DEF SenderTimeout
    <2>2. sent \in 1..(Blocks + 1)
      BY <2>1, FileTypes DEF TypeInv, TypeOK, Blocks, FileOK
    <2>3. sent' \in 0..(Len(File') + 1) /\ line' \in Seq(Byte) /\ hit' \in BOOLEAN
      BY <1>0, <2>1, <2>2, TransmitType
    <2> QED
      BY <1>0, <2>1, <2>3 DEF TypeInv, TypeOK, receiver
  <1>9. CASE SenderCancel
    BY <1>0, <1>9, XmodemAssumption DEF SenderCancel, TypeInv, TypeOK, receiver
  <1>10. CASE LoseByte
    BY <1>0, <1>10 DEF LoseByte, TypeInv, TypeOK, receiver
  <1>11. CASE LoseReply
    BY <1>0, <1>11 DEF LoseReply, TypeInv, TypeOK, receiver
  <1> QED
    BY <1>1, <1>2, <1>3, <1>4, <1>5, <1>6, <1>7, <1>8, <1>9, <1>10, <1>11
       DEF Next, Receiver, Line

LEMMA TypeInit == Init => TypeInv
  <1>1. /\ <<>> \in Seq(Byte) /\ <<>> \in Seq({"ACK", "NAK"}) /\ Len(<<>>) = 0
        /\ 0 \in 0..MAX_ERRORS /\ 0 < BLOCK_SIZE + 1 /\ 0 < BLOCK_SIZE
    BY XmodemAssumption
  <1>2. scenario \in Scenario => 0 \in 0..(Len(File) + 1)
    BY FileTypes DEF FileOK, Blocks
  <1> QED
    BY <1>1, <1>2, Modulus DEF Init, TypeInv, TypeOK, Reading

LEMMA TypeAlways == Spec => []TypeInv
  <1>1. TypeInv /\ UNCHANGED vars => TypeInv'
    BY DEF TypeInv, TypeOK, vars, receiver, File
  <1> QED
    BY <1>1, TypeInit, TypeStep, PTL DEF Spec

(***************************************************************************)
(* TypeOK holds: what the receiver keeps fits its bytes, and no more of a  *)
(* block is stored than fits the part of the buffer kept for it.           *)
(***************************************************************************)
THEOREM TransferTyped == Spec => []TypeOK
  <1>1. TypeInv => TypeOK
    BY DEF TypeInv
  <1> QED
    BY <1>1, TypeAlways, PTL

-------------------------------------------------------------------------------
(***************************************************************************)
(* The inductive invariant.  In every reachable state there is an m, the   *)
(* number of blocks accepted, such that the sender is at block m or the    *)
(* next one, and whatever is on the line is a block of those two, or leads *)
(* to an error before any byte of it can be accepted.                      *)
(***************************************************************************)
\* The frames on the line, none of them begun, when the sender is at block n: of
\* the last block accepted, the m-th, if it may come twice, and of the next one.
Stream(ks, m, n) ==
    /\ ks \in Seq(Numbers)
    /\ \A i \in 1..Len(ks) : /\ ks[i] \in {m, m + 1} /\ ks[i] <= n
                             /\ ks[i] = m => Stale
    /\ \A i, j \in 1..Len(ks) : ks[i] = m + 1 /\ i <= j => ks[j] = m + 1

\* The sender has been told of the m blocks, or one reply will tell it so.
Told(m) ==
    /\ sent \in {m, m + 1} /\ sender \in {"active", "cancelled"}
    /\ \A i \in 1..Len(replies) : replies[i] = "ACK" => sent = m /\ m # 0
    /\ \A i, j \in 1..Len(replies) : replies[i] = "ACK" /\ replies[j] = "ACK" => i = j

\* If no reply is lost and none is given twice, there is one frame or one reply
\* under way at any time.
Lockstep(frames, m) ==
    ~Stale => /\ frames + Len(replies) <= 1
              /\ sender = "active" /\ sent = m /\ m # 0 =>
                    replies # <<>> /\ replies[1] = "ACK"

\* Between two frames.
Between(m) ==
    /\ pc = "header"
    /\ \E ks \in Seq(Numbers) :
          /\ Stream(ks, m, sent) /\ line = Frames(ks) /\ Lockstep(Len(ks), m)
          /\ sender = "cancelled" => ks = <<>>
Cancelled(m) ==
    /\ pc = "header" /\ sender = "cancelled" /\ line = <<CAN>>
    /\ ~Stale => Len(replies) <= 1

\* The bytes of block k read so far are right, or their sum shows the flip.
PartSound(k) ==
    /\ IF pc = "data" THEN Len(part) < BLOCK_SIZE ELSE Len(part) = BLOCK_SIZE
    /\ \E u \in [0..BLOCK_SIZE -> Byte] :
          /\ IsSums(u, File[k])
          /\ \/ /\ \A i \in 1..Len(part) : part[i] = File[k][i]
                /\ check_sum = u[Len(part)]
             \/ hit /\ check_sum # u[Len(part)]

\* Inside the frame of block k, with rest to come.
Offset == CASE pc = "num" -> 1 [] pc = "inv" -> 2 [] OTHER -> 3 + Len(part)
Inside(m) ==
    /\ pc \in {"num", "inv", "data", "sum"} /\ recieving /\ sender = "active"
    /\ \E k \in 1..Blocks, ks \in Seq(Numbers), rest \in Seq(Byte) :
          /\ k \in {m, m + 1} /\ k <= sent
          /\ Stream(ks, m, sent) /\ Lockstep(Len(ks) + 1, m)
          /\ line = rest \o Frames(ks) /\ IsRest(rest, k, Offset)
          /\ k = m => Stale
          /\ k = m + 1 => \A i \in 1..Len(ks) : ks[i] = m + 1
          /\ pc = "inv" /\ k = m => hit /\ "num" \in FlipIn
          /\ pc \in {"data", "sum"} => k = m + 1 /\ PartSound(k)

\* The receiver has lost the beginning of the frame: it will take the next byte
\* for a header, and give up.
Lost(m) ==
    /\ pc = "header" /\ recieving /\ line # <<>>
    /\ line[1] \notin {SOH, EOT}
    /\ \/ hit \/ "header" \notin FlipIn
       \/ SOH \notin Flips(line[1]) /\ (m # Blocks => EOT \notin Flips(line[1]))

\* It has not seen the SOH of the first block, and takes the number for one.
Missed(m) ==
    /\ m = 0 /\ hit
    /\ \/ /\ pc = "header" /\ ~recieving
          /\ Len(line) >= 3 /\ line[1] = SOH /\ line[2] = Inverted(1)
          /\ line[3] \notin {SOH, EOT}
       \/ /\ pc = "num" /\ recieving
          /\ Len(line) >= 2 /\ line[1] = Inverted(1) /\ line[2] \notin {SOH, EOT}

Where(m) == Between(m) \/ Cancelled(m) \/ Inside(m) \/ Lost(m) \/ Missed(m)

Accepted(m) == /\ buf = Content(m) /\ block_number = (m + 1) % 2^BITS
               /\ recieving \/ m = 0
Ongoing(m) == /\ pc = "received" => m = Blocks
              /\ pc # "received" => Told(m)
              /\ pc \in Reading  => Where(m)

TransferInv == \E m \in 0..Blocks : Accepted(m) /\ Ongoing(m)

\* What every step may rely on.
Context(m) == /\ TypeInv /\ Unmistakable /\ AllBytesArrive
              /\ m \in 0..Blocks /\ Accepted(m) /\ Ongoing(m)

LEMMA Same ==
    ASSUME scenario' = scenario
    PROVE  /\ File' = File /\ Blocks' = Blocks /\ Numbers' = Numbers
           /\ FlipIn' = FlipIn /\ (Stale' <=> Stale)
           /\ \A k : Frame(k)' = Frame(k)
           /\ \A ks : Frames(ks)' = Frames(ks)
           /\ \A n : Content(n)' = Content(n)
           /\ \A ks, m, n : Stream(ks, m, n)' <=> Stream(ks, m, n)
           /\ \A rest, k, from : IsRest(rest, k, from)' <=> IsRest(rest, k, from)
  <1>1. File' = File /\ FlipIn' = FlipIn /\ Faults' = Faults
    BY DEF File, FlipIn, Faults
  <1>2. Blocks' = Blocks /\ Numbers' = Numbers /\ (Stale' <=> Stale)
    BY <1>1 DEF Blocks, Numbers, Stale
  <1>3. \A k : Frame(k)' = Frame(k)
    BY <1>1 DEF Frame
  <1>4. \A ks : Frames(ks)' = Frames(ks)
    BY <1>3 DEF Frames, FrameOf
  <1>5. \A n : Content(n)' = Content(n)
    BY <1>1 DEF Content
  <1>6. \A ks, m, n : Stream(ks, m, n)' <=> Stream(ks, m, n)
    BY <1>2 DEF Stream
  <1>7. \A rest, k, from : IsRest(rest, k, from)' <=> IsRest(rest, k, from)
    BY <1>3 DEF IsRest
  <1> QED
    BY <1>1, <1>2, <1>3, <1>4, <1>5, <1>6, <1>7

LEMMA StreamEmpty == \A m, n : Stream(<<>>, m, n)
  BY DEF Stream

LEMMA StreamTail ==
    ASSUME NEW ks, NEW m \in Nat, NEW n \in Nat, Stream(ks, m, n), ks # <<>>
    PROVE  /\ Stream(Tail(ks), m, n) /\ Len(Tail(ks)) = Len(ks) - 1
           /\ ks[1] \in Numbers /\ ks[1] \in {m, m + 1} /\ ks[1] <= n /\ (ks[1] = m => Stale)
           /\ ks[1] = m + 1 => \A i \in 1..Len(Tail(ks)) : Tail(ks)[i] = m + 1
  <1>1. /\ Tail(ks) \in Seq(Numbers) /\ Len(Tail(ks)) = Len(ks) - 1
        /\ \A i \in 1..(Len(ks) - 1) : Tail(ks)[i] = ks[i + 1]
        /\ Len(ks) \in Nat \ {0}
    BY DEF Stream
  <1>2. \A i \in 1..(Len(ks) - 1) : i + 1 \in 1..Len(ks)
    BY <1>1
  <1>3. 1 \in 1..Len(ks) /\ ks[1] \in Numbers
    BY <1>1 DEF Stream
  <1>4. Stream(Tail(ks), m, n)
    BY <1>1, <1>2 DEF Stream
  <1>5. ks[1] = m + 1 => \A i \in 1..(Len(ks) - 1) : Tail(ks)[i] = m + 1
    BY <1>1, <1>2, <1>3 DEF Stream
  <1> QED
    BY <1>1, <1>3, <1>4, <1>5 DEF Stream

LEMMA StreamAppend ==
    ASSUME FileOK, NEW ks, NEW m \in Nat, NEW n \in Nat, NEW p \in Nat, Stream(ks, m, n),
           NEW k \in Numbers, k \in {m, m + 1}, k <= p, n <= p, k = m => Stale /\ n <= m
    PROVE  Stream(Append(ks, k), m, p) /\ Len(Append(ks, k)) = Len(ks) + 1
  <1>1. /\ Append(ks, k) \in Seq(Numbers) /\ Len(Append(ks, k)) = Len(ks) + 1
        /\ \A i \in 1..Len(ks) : Append(ks, k)[i] = ks[i]
        /\ Append(ks, k)[Len(ks) + 1] = k /\ Len(ks) \in Nat
    BY DEF Stream
  <1> DEFINE q == Append(ks, k)
  <1> HIDE DEF q
  <1>2. \A i \in 1..Len(ks) : /\ ks[i] \in {m, m + 1} /\ ks[i] <= n /\ (ks[i] = m => Stale)
                              /\ ks[i] \in Nat
    BY DEF Stream, Numbers, FileOK
  <1>3. \A i, j \in 1..Len(ks) : ks[i] = m + 1 /\ i <= j => ks[j] = m + 1
    BY DEF Stream
  <1>4. k = m => \A i \in 1..Len(ks) : ks[i] # m + 1
    BY <1>2
  <1>5. \A i \in 1..(Len(ks) + 1) : i \in 1..Len(ks) \/ i = Len(ks) + 1
    BY <1>1
  <1>6. \A i \in 1..(Len(ks) + 1) : q[i] \in {m, m + 1} /\ q[i] <= p /\ (q[i] = m => Stale)
    BY <1>1, <1>2, <1>5 DEF q
  <1>7. \A i, j \in 1..(Len(ks) + 1) : q[i] = m + 1 /\ i <= j => q[j] = m + 1
    BY <1>1, <1>3, <1>4, <1>5 DEF q
  <1> QED
    BY <1>1, <1>6, <1>7 DEF Stream, q

LEMMA StreamNext ==
    ASSUME NEW ks, NEW m \in Nat, NEW n \in Nat, Stream(ks, m, n),
           \A i \in 1..Len(ks) : ks[i] = m + 1, ks # <<>> => Stale
    PROVE  Stream(ks, m + 1, n)
  BY DEF Stream

\* No frame, no byte.
LEMMA NoFrames ==
    ASSUME FileOK, NEW ks \in Seq(Numbers)
    PROVE  /\ Frames(ks) = <<>> <=> ks = <<>>
           /\ ks = <<>> <=> Len(ks) = 0
           /\ Len(ks) \in Nat
  <1>1. Frames(ks) = <<>> <=> ks = <<>>
    BY FramesEmpty, FramesFirst
  <1> QED
    BY <1>1

LEMMA ToldMore ==
    ASSUME NEW m, TypeInv, Told(m), replies' = Append(replies, "NAK"), UNCHANGED <<sent, sender>>
    PROVE  Told(m)'
  <1>1. /\ Len(replies') = Len(replies) + 1 /\ Len(replies) \in Nat
        /\ replies'[Len(replies) + 1] = "NAK"
        /\ \A i \in 1..Len(replies) : replies'[i] = replies[i]
    BY DEF TypeInv, TypeOK
  <1>2. \A i \in 1..Len(replies') : replies'[i] = "ACK" => i \in 1..Len(replies)
    BY <1>1
  <1> QED
    BY <1>1, <1>2 DEF Told

LEMMA ToldLess ==
    ASSUME NEW m, TypeInv, Told(m), replies # <<>>, replies' = Tail(replies),
           UNCHANGED <<sent, sender>>
    PROVE  Told(m)'
  <1>1. /\ Len(replies') = Len(replies) - 1 /\ Len(replies) \in Nat
        /\ \A i \in 1..(Len(replies) - 1) : replies'[i] = replies[i + 1]
    BY DEF TypeInv, TypeOK
  <1>2. \A i \in 1..(Len(replies) - 1) : i + 1 \in 1..Len(replies) /\ i \in Nat
    BY <1>1
  <1>3. \A i \in 1..Len(replies') : replies'[i] = "ACK" => sent' = m /\ m # 0
    BY <1>1, <1>2 DEF Told
  <1>4. \A i, j \in 1..Len(replies') : replies'[i] = "ACK" /\ replies'[j] = "ACK" => i = j
    BY <1>1, <1>2 DEF Told
  <1> QED
    BY <1>3, <1>4 DEF Told

LEMMA Facts ==
    ASSUME NEW m, Context(m)
    PROVE  /\ FileOK /\ Blocks \in Nat /\ m \in Nat /\ m <= Blocks /\ m \in 0..Blocks
           /\ sent \in Nat /\ sent <= Blocks + 1 /\ Numbers = 1..(Blocks + 1)
           /\ line \in Seq(Byte) /\ replies \in Seq({"ACK", "NAK"}) /\ Len(replies) \in Nat
           /\ FlipIn \subseteq Reading /\ Accepted(m) /\ Ongoing(m)
           /\ Unmistakable /\ AllBytesArrive /\ TypeInv
  <1>1. FileOK /\ Blocks \in Nat /\ FlipIn \subseteq Reading
    BY FileTypes DEF Context, TypeInv, TypeOK, FileOK
  <1>2. /\ sent \in 0..(Blocks + 1)
        /\ line \in Seq(Byte) /\ replies \in Seq({"ACK", "NAK"}) /\ Len(replies) \in Nat
    BY DEF Context, TypeInv, TypeOK, Blocks
  <1> QED
    BY <1>1, <1>2 DEF Context, Numbers

LEMMA AcceptedKept ==
    ASSUME NEW m, Accepted(m), scenario' = scenario, UNCHANGED <<buf, block_number>>,
           recieving => recieving'
    PROVE  Accepted(m)'
  BY Same DEF Accepted

LEMMA ToldKept ==
    ASSUME NEW m, Told(m), UNCHANGED <<replies, sent, sender>>
    PROVE  Told(m)'
  BY DEF Told

LEMMA SoundKept ==
    ASSUME NEW k, PartSound(k), scenario' = scenario, UNCHANGED <<pc, part, check_sum>>, hit => hit'
    PROVE  PartSound(k)'
  BY Same DEF PartSound

\* A step of the receiver ends inside a frame.
LEMMA InsideAfter ==
    ASSUME NEW m, NEW k \in 1..Blocks, NEW ks \in Seq(Numbers), NEW rest \in Seq(Byte), NEW from,
           scenario' = scenario, UNCHANGED <<sent, sender, replies>>,
           sender = "active", recieving', pc' \in {"num", "inv", "data", "sum"},
           Offset' = from, IsRest(rest, k, from), line' = rest \o Frames(ks),
           k \in {m, m + 1}, k <= sent, Stream(ks, m, sent), Lockstep(Len(ks) + 1, m),
           k = m => Stale, k = m + 1 => \A i \in 1..Len(ks) : ks[i] = m + 1,
           pc' = "inv" /\ k = m => hit' /\ "num" \in FlipIn,
           pc' \in {"data", "sum"} => k = m + 1 /\ PartSound(k)'
    PROVE  Inside(m)'
  <1>1. Stream(ks, m, sent)' /\ IsRest(rest, k, Offset)' /\ Frames(ks)' = Frames(ks)
    BY Same
  <1>2. Lockstep(Len(ks) + 1, m)'
    BY Same DEF Lockstep
  <1>3. Blocks' = Blocks /\ Numbers' = Numbers /\ FlipIn' = FlipIn /\ (Stale' <=> Stale)
    BY Same
  <1> QED
    BY <1>1, <1>2, <1>3 DEF Inside

-------------------------------------------------------------------------------
(***************************************************************************)
(* The steps of the receiver.                                              *)
(***************************************************************************)
LEMMA TimeoutStep ==
    ASSUME NEW m, Context(m), Timeout, scenario' = scenario
    PROVE  Accepted(m)' /\ Ongoing(m)'
  <1>1. /\ pc = "header" /\ ~recieving /\ replies' = Append(replies, "NAK")
        /\ UNCHANGED <<pc, recieving, block_number, check_sum, part, buf, line, sent, sender, hit>>
        /\ Stale \/ (line = <<>> /\ replies = <<>>)
    BY DEF Timeout, receiver, Reply, Stale
  <1>2. Accepted(m) /\ Told(m) /\ Where(m) /\ m = 0 /\ TypeInv
    BY <1>1, Facts DEF Ongoing, Accepted, Reading
  <1>3. Accepted(m)'
    BY <1>1, <1>2, AcceptedKept
  <1>4. Told(m)'
    BY <1>1, <1>2, ToldMore
  <1>5. ~Stale => Len(replies') = 1
    BY <1>1
  <1>10. Stale' <=> Stale
    BY Same
  <1>6. ASSUME Between(m) PROVE Where(m)'
    <2>1. PICK ks \in Seq(Numbers) :
             /\ Stream(ks, m, sent) /\ line = Frames(ks) /\ Lockstep(Len(ks), m)
             /\ sender = "cancelled" => ks = <<>>
      BY <1>6 DEF Between
    <2>2. ~Stale => Len(ks) = 0
      BY <1>1, <2>1, Facts, NoFrames
    <2>3. Lockstep(Len(ks), m)'
      <3>1. m = 0
        BY <1>2
      <3>2. ~Stale => Len(ks) + Len(replies') <= 1
        <4>1. ASSUME ~Stale PROVE Len(ks) + Len(replies') <= 1
          <5>1. Len(ks) = 0 /\ Len(replies') = 1
            BY <1>5, <2>2, <4>1, Zenon
          <5> QED
            BY <5>1
        <4> QED
          BY <4>1
      <3> QED
        BY <1>10, <3>1, <3>2, Zenon DEF Lockstep
    <2>4. Between(m)'
      BY <1>1, <2>1, <2>3, Same DEF Between
    <2> QED
      BY <2>4 DEF Where
  <1>7. ASSUME Cancelled(m) PROVE Where(m)'
    <2>1. Cancelled(m)'
      BY <1>1, <1>5, <1>7, Same DEF Cancelled
    <2> QED
      BY <2>1 DEF Where
  <1>8. ASSUME Missed(m) PROVE Where(m)'
    <2>1. Missed(m)'
      BY <1>1, <1>8 DEF Missed
    <2> QED
      BY <2>1 DEF Where
  <1>9. Where(m)'
    BY <1>1, <1>2, <1>6, <1>7, <1>8 DEF Where, Inside, Lost
  <1> QED
    BY <1>1, <1>3, <1>4, <1>9, Same DEF Ongoing

LEMMA Received ==
    ASSUME NEW c, Receive(c)
    PROVE  /\ pc \in Reading /\ line # <<>> /\ line' = Tail(line)
           /\ UNCHANGED <<sent, sender>> /\ (hit => hit')
           /\ \/ c = Head(line)
              \/ pc \in FlipIn /\ ~hit /\ hit' /\ c \in Flips(Head(line))
  BY DEF Receive

\* The first byte of a frame.
LEMMA HeaderBetween ==
    ASSUME NEW m, Context(m), NEW c \in Byte, Receive(c), scenario' = scenario, Between(m),
           pc' = (CASE c = EOT -> "received"
                    [] c = CAN -> "aborted"
                    [] c = SOH -> "num"
                    [] OTHER   -> IF recieving THEN "aborted" ELSE "header"),
           c # EOT => UNCHANGED replies,
           recieving' = (recieving \/ c = SOH)
    PROVE  /\ pc' = "received" => m = Blocks
           /\ pc' \in Reading => Where(m)'
  <1>1. PICK ks \in Seq(Numbers) :
           /\ Stream(ks, m, sent) /\ line = Frames(ks) /\ Lockstep(Len(ks), m)
           /\ sender = "cancelled" => ks = <<>>
    BY DEF Between
  <1>2. /\ FileOK /\ Blocks \in Nat /\ m \in Nat /\ m <= Blocks /\ sent \in Nat
        /\ Numbers = 1..(Blocks + 1) /\ Unmistakable
    BY Facts
  <1>3. /\ line # <<>> /\ line' = Tail(line) /\ UNCHANGED <<sent, sender>> /\ pc = "header"
        /\ c = Head(line) \/ ("header" \in FlipIn /\ hit' /\ c \in Flips(Head(line)))
    BY Received DEF Between
  <1>4. ks # <<>> /\ sender # "cancelled"
    BY <1>1, <1>3, FramesEmpty
  <1> DEFINE k == ks[1]
             more == Tail(ks)
  <1>5. /\ more \in Seq(Numbers) /\ k \in Numbers /\ line = Frame(k) \o Frames(more)
    BY <1>1, <1>2, <1>4, FramesFirst
  <1>6. /\ Stream(more, m, sent) /\ Len(more) = Len(ks) - 1 /\ Len(ks) \in Nat
        /\ k \in {m, m + 1} /\ k <= sent /\ (k = m => Stale)
        /\ k = m + 1 => \A i \in 1..Len(more) : more[i] = m + 1
    BY <1>1, <1>2, <1>4, StreamTail, NoFrames
  <1>7. SOH # EOT /\ EOT # CAN /\ CAN # SOH /\ {SOH, EOT, CAN} \subseteq Byte
    BY XmodemAssumption
  <1>8. Frames(more) \in Seq(Byte)
    BY <1>2, <1>5, FramesType
  <1> HIDE DEF k, more
  <1>9. Lockstep(Len(more) + 1, m)
    BY <1>1, <1>6
  <1>10. CASE k \in 1..Blocks
    <2>1. /\ Frame(k) \in Seq(Byte) /\ Len(Frame(k)) = Width
          /\ Frame(k)[1] = SOH /\ Frame(k)[2] = k % 2^BITS /\ Frame(k)[3] = Inverted(k)
          /\ \A i \in 1..BLOCK_SIZE : Frame(k)[3 + i] = File[k][i]
      BY <1>2, <1>10, FrameBytes
    <2>2. BLOCK_SIZE \in Nat \ {0} /\ Width = BLOCK_SIZE + 4
      BY XmodemAssumption DEF Width
    <2>4. /\ Head(line) = SOH /\ line' = Tail(Frame(k)) \o Frames(more)
          /\ IsRest(Tail(Frame(k)), k, 1)
      <3>1. /\ Head(Frame(k) \o Frames(more)) = SOH
            /\ Tail(Frame(k) \o Frames(more)) = Tail(Frame(k)) \o Frames(more)
            /\ IsRest(Tail(Frame(k)), k, 1)
        BY <1>2, <1>8, <1>10, FrameReads
      <3> QED
        BY <1>3, <1>5, <3>1, Zenon
    <2>5. CASE c = SOH
      <3>1. pc' = "num" /\ recieving' /\ UNCHANGED replies
        BY <1>7, <2>5
      <3>2. Offset' = 1
        BY <3>1 DEF Offset
      <3>3. Tail(Frame(k)) \in Seq(Byte)
        BY <2>4 DEF IsRest
      <3>4. sender = "active"
        BY <1>3, <1>4, Facts DEF Ongoing, Told
      <3>5. Inside(m)'
        BY <1>3, <1>5, <1>6, <1>9, <1>10, <2>4, <3>1, <3>2, <3>3, <3>4, InsideAfter
      <3> QED
        BY <3>1, <3>5 DEF Where
    <2>6. CASE c # SOH
      <3>1. c # EOT /\ c \in Flips(SOH) /\ hit' /\ "header" \in FlipIn
        BY <1>3, <2>4, <2>6, ControlAssumption
      <3>2. pc' \in {"aborted", "header"} /\ (pc' = "header" => ~recieving /\ ~recieving')
        BY <2>6, <3>1
      <3>3. ASSUME pc' = "header" PROVE Missed(m)'
        <4>1. m = 0 /\ k = 1
          BY <1>2, <1>6, <1>10, <3>2, <3>3, Facts DEF Accepted
        <4>2. /\ line' # <<>> /\ line'[1] = Frame(1)[2]
          <5>1. /\ Tail(Frame(k) \o Frames(more)) # <<>>
                /\ Tail(Frame(k) \o Frames(more))[1] = Frame(k)[2]
            BY <1>2, <1>8, <1>10, FrameReads
          <5> QED
            BY <1>3, <1>5, <4>1, <5>1, Zenon
        <4>3. /\ Len(line') >= 3 /\ line'[2] = Frame(1)[3] /\ line'[3] = Frame(1)[4]
          <5>1. PICK a \in Seq(Byte), b \in Seq(Byte) : a = Tail(Frame(k)) /\ b = Frames(more)
            BY <1>8, <2>4 DEF IsRest
          <5>2. /\ Len(a) = Width - 1 /\ \A i \in 1..(Width - 1) : a[i] = Frame(k)[1 + i]
            BY <2>4, <5>1 DEF IsRest
          <5>3. 2 \in 1..(Width - 1) /\ 3 \in 1..(Width - 1) /\ Width - 1 >= 3 /\ Width \in Nat
            BY <2>2
          <5>4. /\ Len(a \o b) >= 3 /\ (a \o b)[2] = a[2] /\ (a \o b)[3] = a[3]
            BY <5>2, <5>3
          <5>5. a[2] = Frame(k)[3] /\ a[3] = Frame(k)[4]
            <6>1. a[2] = Frame(k)[1 + 2] /\ a[3] = Frame(k)[1 + 3]
              BY <5>2, <5>3
            <6> QED
              BY <6>1
          <5> QED
            BY <2>4, <4>1, <5>1, <5>4, <5>5
        <4>4. Frame(1)[4] = File[1][1] /\ Frame(1)[2] = 1 % 2^BITS /\ Frame(1)[3] = Inverted(1)
          <5>1. Frame(k)[3 + 1] = File[k][1]
            BY <2>1, <2>2
          <5> QED
            BY <2>1, <4>1, <5>1
        <4>5. 1 % 2^BITS = SOH
          BY Modulus, ControlAssumption
        <4>6. File[1][1] \notin {SOH, EOT}
          BY <1>2, <1>10, <3>1, <4>1 DEF Unmistakable, Blocks
        <4> QED
          BY <3>1, <3>2, <3>3, <4>1, <4>2, <4>3, <4>4, <4>5, <4>6 DEF Missed
      <3> QED
        BY <3>2, <3>3 DEF Where, Reading
    <2> QED
      BY <2>5, <2>6
  <1>11. CASE k = Blocks + 1
    <2>1. m = Blocks
      BY <1>2, <1>6, <1>11
    <2>2. Head(line) = EOT /\ line' = Frames(more)
      <3>1. Frame(k) = <<EOT>> /\ <<EOT>> \in Seq(Byte)
        BY <1>2, <1>11, LastFrame
      <3>2. PICK b \in Seq(Byte), e \in Byte : b = Frames(more) /\ e = EOT
        BY <1>7, <1>8
      <3>3. Head(<<e>> \o b) = e /\ Tail(<<e>> \o b) = b
        OBVIOUS
      <3> QED
        BY <1>3, <1>5, <3>1, <3>2, <3>3
    <2>3. ASSUME pc' \in Reading PROVE Where(m)'
      <3>1. c # EOT
        BY <1>7, <2>3 DEF Reading
      <3>2. c \in Flips(EOT) /\ c # SOH
        BY <1>3, <2>2, <3>1, ControlAssumption
      <3>3. pc' = "header" /\ UNCHANGED replies
        BY <1>7, <2>3, <3>1, <3>2 DEF Reading
      <3>4. Lockstep(Len(more), m)'
        BY <1>3, <1>6, <1>9, <3>3, Facts, Same, NoFrames DEF Lockstep
      <3>5. Between(m)'
        BY <1>3, <1>4, <1>5, <1>6, <2>2, <3>3, <3>4, Same DEF Between
      <3> QED
        BY <3>5 DEF Where
    <2> QED
      BY <2>1, <2>3
  <1> QED
    BY <1>2, <1>5, <1>10, <1>11

LEMMA HeaderStep ==
    ASSUME NEW m, Context(m), ReadHeader, scenario' = scenario
    PROVE  Accepted(m)' /\ Ongoing(m)'
  <1>1. PICK c \in Byte :
           /\ pc = "header" /\ Receive(c)
           /\ pc' = (CASE c = EOT -> "received"
                       [] c = CAN -> "aborted"
                       [] c = SOH -> "num"
                       [] OTHER   -> IF recieving THEN "aborted" ELSE "header")
           /\ c # EOT => UNCHANGED replies
           /\ recieving' = (recieving \/ c = SOH)
           /\ UNCHANGED <<block_number, check_sum, part, buf>>
    BY DEF ReadHeader
  <1>2. /\ line # <<>> /\ line' = Tail(line) /\ UNCHANGED <<sent, sender>> /\ (hit => hit')
        /\ c = Head(line) \/ ("header" \in FlipIn /\ ~hit /\ hit' /\ c \in Flips(Head(line)))
    BY <1>1, Received
  <1>3. Accepted(m) /\ Told(m) /\ Where(m) /\ line \in Seq(Byte) /\ m <= Blocks /\ Blocks \in Nat
        /\ m \in Nat /\ Len(replies) \in Nat
    BY <1>1, Facts DEF Ongoing, Reading
  <1>4. SOH # EOT /\ EOT # CAN /\ CAN # SOH
    BY XmodemAssumption
  <1>5. Accepted(m)'
    BY <1>1, <1>3, AcceptedKept
  <1>6. pc' # "received" => Told(m)'
    BY <1>1, <1>2, <1>3, <1>4, ToldKept
  <1>7. ASSUME Between(m)
        PROVE  (pc' = "received" => m = Blocks) /\ (pc' \in Reading => Where(m)')
    BY <1>1, <1>7, HeaderBetween
  <1>8. ASSUME Cancelled(m)
        PROVE  (pc' = "received" => m = Blocks) /\ (pc' \in Reading => Where(m)')
    <2>1. line = <<CAN>> /\ sender = "cancelled" /\ (~Stale => Len(replies) <= 1)
      BY <1>8 DEF Cancelled
    <2>2. Head(line) = CAN /\ line' = <<>>
      BY <1>2, <2>1
    <2>3. c # EOT /\ c # SOH
      BY <1>2, <1>4, <2>2, ControlAssumption
    <2>4. pc' # "received" /\ (pc' \in Reading => pc' = "header") /\ UNCHANGED replies
      BY <1>1, <1>4, <2>3 DEF Reading
    <2>5. ASSUME pc' = "header" PROVE Between(m)'
      <3>1. Len(<<>>) = 0 /\ <<>> \in Seq(Numbers)
        OBVIOUS
      <3>2. /\ Stale' <=> Stale
            /\ Numbers' = Numbers /\ Frames(<<>>)' = Frames(<<>>)
        BY Same
      <3>3. Lockstep(0, m)'
        <4>1. ~Stale => 0 + Len(replies') <= 1
          BY <1>3, <2>1, <2>4
        <4> QED
          BY <1>2, <2>1, <3>2, <4>1, Zenon DEF Lockstep
      <3>4. Stream(<<>>, m, sent)'
        BY StreamEmpty, Same
      <3> QED
        BY <2>2, <2>5, <3>1, <3>2, <3>3, <3>4, FramesEmpty DEF Between
    <2> QED
      BY <2>4, <2>5 DEF Where
  <1>9. ASSUME Lost(m)
        PROVE  (pc' = "received" => m = Blocks) /\ (pc' \in Reading => Where(m)')
    <2>1. Head(line) = line[1]
      BY <1>2, <1>3
    <2>2. c # SOH /\ (c = EOT => m = Blocks)
      BY <1>2, <1>9, <2>1 DEF Lost
    <2>3. pc' \in {"received", "aborted"} /\ (pc' = "received" => c = EOT)
      BY <1>1, <1>4, <1>9, <2>2 DEF Lost
    <2> QED
      BY <2>2, <2>3 DEF Reading
  <1>10. ASSUME Missed(m)
         PROVE  (pc' = "received" => m = Blocks) /\ (pc' \in Reading => Where(m)')
    <2>1. /\ m = 0 /\ hit /\ ~recieving /\ Len(line) >= 3
          /\ line[1] = SOH /\ line[2] = Inverted(1) /\ line[3] \notin {SOH, EOT}
      BY <1>1, <1>10 DEF Missed
    <2>2. /\ Head(line) = line[1] /\ Len(line') >= 2
          /\ line'[1] = line[2] /\ line'[2] = line[3]
      BY <1>2, <1>3, <2>1
    <2>3. c = SOH
      BY <1>2, <2>1, <2>2
    <2>4. pc' = "num" /\ recieving' /\ hit'
      BY <1>1, <1>2, <1>4, <2>1, <2>3
    <2>5. Missed(m)'
      BY <2>1, <2>2, <2>4 DEF Missed
    <2> QED
      BY <2>4, <2>5 DEF Where
  <1>11. (pc' = "received" => m = Blocks) /\ (pc' \in Reading => Where(m)')
    BY <1>1, <1>3, <1>7, <1>8, <1>9, <1>10 DEF Where, Inside
  <1> QED
    BY <1>5, <1>6, <1>11, Same DEF Ongoing

\* A rejected block ends between two frames or loses the frame.
LEMMA RejectStep ==
    ASSUME NEW m, Context(m), pc \in Reading, NEW c, Receive(c), Reject, scenario' = scenario,
           Lost(m)' \/ Between(m)'
    PROVE  Accepted(m)' /\ Ongoing(m)'
  <1>1. /\ pc' = "header" /\ replies' = Append(replies, "NAK")
        /\ UNCHANGED <<recieving, block_number, buf, sent, sender>>
    BY Received DEF Reject, Reply
  <1>2. Accepted(m) /\ Told(m) /\ TypeInv
    BY Facts DEF Ongoing, Reading
  <1>3. Accepted(m)' /\ Told(m)'
    BY <1>1, <1>2, AcceptedKept, ToldMore
  <1>4. Where(m)'
    BY DEF Where
  <1> QED
    BY <1>1, <1>3, <1>4 DEF Ongoing

\* Block k is the last one accepted or the one expected.
LEMMA NumberStep ==
    ASSUME NEW m, Context(m), ReadNumber, scenario' = scenario
    PROVE  Accepted(m)' /\ Ongoing(m)'
  <1>1. PICK c \in Byte :
           /\ pc = "num" /\ Receive(c)
           /\ IF c # block_number THEN Reject
              ELSE /\ pc' = "inv"
                   /\ UNCHANGED <<recieving, block_number, check_sum, part, buf, replies>>
    BY DEF ReadNumber
  <1>2. /\ line # <<>> /\ line' = Tail(line) /\ UNCHANGED <<sent, sender>> /\ (hit => hit')
        /\ c = Head(line) \/ ("num" \in FlipIn /\ ~hit /\ hit' /\ c \in Flips(Head(line)))
    BY <1>1, Received
  <1>3. Accepted(m) /\ Told(m) /\ Where(m) /\ line \in Seq(Byte) /\ m <= Blocks /\ Blocks \in Nat
        /\ m \in Nat /\ FileOK /\ Unmistakable
    BY <1>1, Facts DEF Ongoing, Reading
  <1>4. pc \in Reading
    BY <1>1 DEF Reading
  <1>5. ASSUME Inside(m) PROVE Accepted(m)' /\ Ongoing(m)'
    <2>1. PICK k \in 1..Blocks, ks \in Seq(Numbers), rest \in Seq(Byte) :
             /\ k \in {m, m + 1} /\ k <= sent
             /\ Stream(ks, m, sent) /\ Lockstep(Len(ks) + 1, m)
             /\ line = rest \o Frames(ks) /\ IsRest(rest, k, Offset)
             /\ k = m => Stale
             /\ k = m + 1 => \A i \in 1..Len(ks) : ks[i] = m + 1
      BY <1>5 DEF Inside
    <2>2. recieving /\ sender = "active" /\ Offset = 1
      BY <1>1, <1>5 DEF Inside, Offset
    <2>3. Frames(ks) \in Seq(Byte)
      BY <1>3, FramesType
    <2>4. /\ Head(line) = Frame(k)[2] /\ line' = Tail(rest) \o Frames(ks)
          /\ IsRest(Tail(rest), k, 2) /\ line' # <<>> /\ line'[1] = Frame(k)[3]
      <3> DEFINE from == 1
      <3>1. from \in 0..(Width - 1) /\ from + 1 < Width /\ from + 1 = 2 /\ from + 2 = 3
        BY XmodemAssumption DEF Width
      <3>2. IsRest(rest, k, from)
        BY <2>1, <2>2
      <3> HIDE DEF from
      <3>3. /\ Head(rest \o Frames(ks)) = Frame(k)[from + 1]
            /\ Tail(rest \o Frames(ks)) = Tail(rest) \o Frames(ks)
            /\ Tail(rest) \in Seq(Byte) /\ IsRest(Tail(rest), k, from + 1)
        BY <2>3, <3>1, <3>2, RestReads, ZenonT(40)
      <3>4. /\ Tail(rest) \o Frames(ks) # <<>>
            /\ (Tail(rest) \o Frames(ks))[1] = Frame(k)[from + 2]
        BY <2>3, <3>1, <3>3, RestGoesOn
      <3> QED
        BY <1>2, <2>1, <3>1, <3>3, <3>4, Zenon
    <2>5. Frame(k)[2] = k % 2^BITS /\ Frame(k)[3] = Inverted(k)
      BY <1>3, FrameBytes
    <2>6. block_number = (m + 1) % 2^BITS
      BY <1>3 DEF Accepted
    <2>7. CASE c = block_number
      <3>1. /\ pc' = "inv" /\ recieving'
            /\ UNCHANGED <<recieving, block_number, check_sum, part, buf, replies>>
        BY <1>1, <2>2, <2>7
      <3>2. k = m => hit' /\ "num" \in FlipIn
        <4>1. ASSUME k = m PROVE c # Head(line)
          <5>1. (m + 1) % 2^BITS # m % 2^BITS
            BY <1>3, NextNumber
          <5> QED
            BY <2>4, <2>5, <2>6, <2>7, <4>1, <5>1
        <4> QED
          BY <1>2, <4>1
      <3>3. Offset' = 2
        BY <3>1 DEF Offset
      <3>4. Tail(rest) \in Seq(Byte)
        BY <2>4 DEF IsRest
      <3>5. Inside(m)'
        BY <1>2, <2>1, <2>2, <2>4, <3>1, <3>2, <3>3, <3>4, InsideAfter
      <3>6. Accepted(m)' /\ Told(m)'
        BY <1>2, <1>3, <3>1, AcceptedKept, ToldKept
      <3> QED
        BY <3>1, <3>5, <3>6 DEF Ongoing, Where
    <2>8. CASE c # block_number
      <3>1. Reject /\ pc' = "header" /\ recieving'
        BY <1>1, <2>2, <2>8 DEF Reject
      <3>2. (hit' /\ "num" \in FlipIn) \/ Stale
        <4>1. ASSUME k = m + 1 PROVE c # Head(line)
          BY <2>4, <2>5, <2>6, <2>8, <4>1
        <4> QED
          BY <1>2, <2>1, <4>1
      <3>3. Inverted(k) \notin {SOH, EOT}
        BY <3>2 DEF Unmistakable, Blocks, Context
      <3>4. \/ hit'
            \/ "header" \notin FlipIn
            \/ /\ SOH \notin Flips(Inverted(k))
               /\ m # Blocks => EOT \notin Flips(Inverted(k))
        <4>1. ASSUME ~hit', "header" \in FlipIn
              PROVE  /\ SOH \notin Flips(Inverted(k))
                     /\ m # Blocks => EOT \notin Flips(Inverted(k))
          <5>1. c = Head(line) /\ Stale
            BY <1>2, <3>2, <4>1
          <5>2. k = m
            BY <2>1, <2>4, <2>5, <2>6, <2>8, <5>1
          <5> QED
            BY <1>3, <4>1, <5>1, <5>2 DEF Unmistakable, Blocks
        <4> QED
          BY <4>1
      <3>5. Lost(m)'
        BY <2>4, <2>5, <3>1, <3>3, <3>4, Same DEF Lost
      <3> QED
        BY <1>1, <1>4, <3>1, <3>5, RejectStep
    <2> QED
      BY <2>7, <2>8
  <1>6. ASSUME Missed(m) PROVE Accepted(m)' /\ Ongoing(m)'
    <2>1. /\ m = 0 /\ hit /\ recieving /\ Len(line) >= 2
          /\ line[1] = Inverted(1) /\ line[2] \notin {SOH, EOT}
      BY <1>1, <1>6 DEF Missed
    <2>2. Head(line) = line[1] /\ line' # <<>> /\ line'[1] = line[2]
      <3>1. Len(line') >= 1 /\ line'[1] = line[2] /\ Head(line) = line[1]
        BY <1>2, <1>3, <2>1
      <3> QED
        BY <3>1
    <2>3. block_number = SOH /\ Inverted(1) # SOH
      <3>1. 1 % 2^BITS = 1 /\ SOH = 1 /\ Complement(1) # 1
        BY Modulus, ControlAssumption
      <3> QED
        BY <1>3, <2>1, <3>1 DEF Accepted, Inverted
    <2>4. c # block_number
      BY <1>2, <2>1, <2>2, <2>3
    <2>5. Reject /\ pc' = "header" /\ recieving' /\ hit'
      BY <1>1, <1>2, <2>1, <2>4 DEF Reject
    <2>6. Lost(m)'
      BY <2>1, <2>2, <2>5 DEF Lost
    <2> QED
      BY <1>1, <1>4, <2>5, <2>6, RejectStep
  <1> QED
    BY <1>1, <1>3, <1>5, <1>6 DEF Where, Between, Cancelled, Lost

LEMMA InverseStep ==
    ASSUME NEW m, Context(m), ReadInverse, scenario' = scenario
    PROVE  Accepted(m)' /\ Ongoing(m)'
  <1>1. PICK c \in Byte :
           /\ pc = "inv" /\ Receive(c)
           /\ IF c # Complement(block_number) THEN Reject
              ELSE /\ pc' = "data" /\ check_sum' = 0 /\ part' = <<>>
                   /\ UNCHANGED <<recieving, block_number, buf, replies>>
    BY DEF ReadInverse
  <1>2. /\ line # <<>> /\ line' = Tail(line) /\ UNCHANGED <<sent, sender>> /\ (hit => hit')
        /\ c = Head(line) \/ ("inv" \in FlipIn /\ ~hit /\ hit' /\ c \in Flips(Head(line)))
    BY <1>1, Received
  <1>3. Accepted(m) /\ Told(m) /\ Where(m) /\ line \in Seq(Byte) /\ m <= Blocks /\ Blocks \in Nat
        /\ m \in Nat /\ FileOK /\ Unmistakable /\ block_number = (m + 1) % 2^BITS
    BY <1>1, Facts DEF Ongoing, Reading, Accepted
  <1>4. pc \in Reading
    BY <1>1 DEF Reading
  <1>5. PICK k \in 1..Blocks, ks \in Seq(Numbers), rest \in Seq(Byte) :
           /\ k \in {m, m + 1} /\ k <= sent
           /\ Stream(ks, m, sent) /\ Lockstep(Len(ks) + 1, m)
           /\ line = rest \o Frames(ks) /\ IsRest(rest, k, Offset)
           /\ k = m => Stale
           /\ k = m + 1 => \A i \in 1..Len(ks) : ks[i] = m + 1
           /\ k = m => hit /\ "num" \in FlipIn
    <2>1. Inside(m)
      BY <1>1, <1>3 DEF Where, Between, Cancelled, Lost, Missed
    <2> QED
      BY <1>1, <2>1 DEF Inside
  <1>6. recieving /\ sender = "active" /\ Offset = 2
    BY <1>1, <1>3 DEF Where, Between, Cancelled, Lost, Missed, Inside, Offset
  <1>7. Frames(ks) \in Seq(Byte)
    BY <1>3, FramesType
  <1>8. /\ Head(line) = Frame(k)[3] /\ line' = Tail(rest) \o Frames(ks)
        /\ IsRest(Tail(rest), k, 3) /\ line' # <<>> /\ line'[1] = Frame(k)[4]
    <2> DEFINE from == 2
    <2>1. from \in 0..(Width - 1) /\ from + 1 < Width /\ from + 1 = 3 /\ from + 2 = 4
      BY XmodemAssumption DEF Width
    <2>2. IsRest(rest, k, from)
      BY <1>5, <1>6
    <2> HIDE DEF from
    <2>3. /\ Head(rest \o Frames(ks)) = Frame(k)[from + 1]
          /\ Tail(rest \o Frames(ks)) = Tail(rest) \o Frames(ks)
          /\ Tail(rest) \in Seq(Byte) /\ IsRest(Tail(rest), k, from + 1)
      BY <1>7, <2>1, <2>2, RestReads, ZenonT(40)
    <2>4. /\ Tail(rest) \o Frames(ks) # <<>>
          /\ (Tail(rest) \o Frames(ks))[1] = Frame(k)[from + 2]
      BY <1>7, <2>1, <2>3, RestGoesOn
    <2> QED
      BY <1>2, <1>5, <2>1, <2>3, <2>4, Zenon
  <1>9. Frame(k)[3] = Inverted(k) /\ Frame(k)[4] = File[k][1]
    <2>1. 1 \in 1..BLOCK_SIZE /\ 3 + 1 = 4
      BY XmodemAssumption
    <2>2. Frame(k)[3] = Inverted(k) /\ Frame(k)[3 + 1] = File[k][1]
      BY <1>3, <2>1, FrameBytes
    <2> QED
      BY <2>1, <2>2
  <1>10. CASE c = Complement(block_number)
    <2>1. /\ pc' = "data" /\ check_sum' = 0 /\ part' = <<>> /\ recieving'
          /\ UNCHANGED <<recieving, block_number, buf, replies>>
      BY <1>1, <1>6, <1>10
    <2>2. k = m + 1
      <3>1. ASSUME k = m PROVE FALSE
        <4>1. c = Inverted(m)
          BY <1>2, <1>5, <1>8, <1>9, <3>1
        <4>2. /\ (m % 2^BITS) \in Byte /\ ((m + 1) % 2^BITS) \in Byte
              /\ (m + 1) % 2^BITS # m % 2^BITS
          BY <1>3, NextNumber
        <4>3. Complement(m % 2^BITS) # Complement((m + 1) % 2^BITS)
          BY <4>2, Complements
        <4> QED
          BY <1>3, <1>10, <4>1, <4>3 DEF Inverted
      <3> QED
        BY <1>5, <3>1
    <2>3. Offset' = 3
      BY <2>1 DEF Offset
    <2>4. PartSound(k)'
      <3>1. File[k] \in [1..BLOCK_SIZE -> Byte] /\ File' = File
        BY <1>3, Same DEF FileOK
      <3>2. PICK u \in [0..BLOCK_SIZE -> Byte] : IsSums(u, File[k])
        BY <3>1, SumsExist
      <3>3. u[0] = 0 /\ Len(part') = 0 /\ 0 < BLOCK_SIZE
        BY <2>1, <3>2, XmodemAssumption DEF IsSums
      <3>4. \A i \in 1..Len(part') : part'[i] = File[k][i]
        BY <3>3
      <3> QED
        BY <2>1, <3>1, <3>2, <3>3, <3>4 DEF PartSound
    <2>5. Tail(rest) \in Seq(Byte)
      BY <1>8 DEF IsRest
    <2>6. Inside(m)'
      BY <1>2, <1>5, <1>6, <1>8, <2>1, <2>2, <2>3, <2>4, <2>5, InsideAfter
    <2>7. Accepted(m)' /\ Told(m)'
      BY <1>2, <1>3, <2>1, AcceptedKept, ToldKept
    <2> QED
      BY <2>1, <2>6, <2>7 DEF Ongoing, Where
  <1>11. CASE c # Complement(block_number)
    <2>1. Reject /\ pc' = "header" /\ recieving'
      BY <1>1, <1>6, <1>11 DEF Reject
    <2>2. hit' /\ FlipIn \cap {"header", "num", "inv"} # {}
      <3>1. ASSUME k = m + 1 PROVE c # Head(line)
        BY <1>3, <1>8, <1>9, <1>11, <3>1 DEF Inverted
      <3> QED
        BY <1>2, <1>5, <3>1
    <2>3. File[k][1] \notin {SOH, EOT}
      BY <1>3, <2>2 DEF Unmistakable, Blocks
    <2>4. Lost(m)'
      BY <1>8, <1>9, <2>1, <2>2, <2>3 DEF Lost
    <2> QED
      BY <1>1, <1>4, <2>1, <2>4, RejectStep
  <1> QED
    BY <1>10, <1>11

LEMMA DataStep ==
    ASSUME NEW m, Context(m), ReadData, scenario' = scenario
    PROVE  Accepted(m)' /\ Ongoing(m)'
  <1>1. PICK c \in Byte :
           /\ pc = "data" /\ Receive(c)
           /\ part' = Append(part, c)
           /\ check_sum' = (check_sum + c) % 2^BITS
           /\ pc' = IF Len(part) + 1 = BLOCK_SIZE THEN "sum" ELSE "data"
           /\ UNCHANGED <<recieving, block_number, buf, replies>>
    BY DEF ReadData
  <1>2. /\ line # <<>> /\ line' = Tail(line) /\ UNCHANGED <<sent, sender>> /\ (hit => hit')
        /\ c = Head(line) \/ (~hit /\ hit' /\ c \in Flips(Head(line)))
    BY <1>1, Received
  <1>3. Accepted(m) /\ Told(m) /\ Where(m) /\ FileOK /\ Blocks \in Nat /\ m \in Nat /\ TypeInv
    BY <1>1, Facts DEF Ongoing, Reading
  <1>4. PICK k \in 1..Blocks, ks \in Seq(Numbers), rest \in Seq(Byte) :
           /\ k = m + 1 /\ k <= sent
           /\ Stream(ks, m, sent) /\ Lockstep(Len(ks) + 1, m)
           /\ line = rest \o Frames(ks) /\ IsRest(rest, k, Offset)
           /\ \A i \in 1..Len(ks) : ks[i] = m + 1
           /\ PartSound(k)
    <2>1. Inside(m)
      BY <1>1, <1>3 DEF Where, Between, Cancelled, Lost, Missed
    <2> QED
      BY <1>1, <2>1 DEF Inside
  <1>5. recieving /\ sender = "active" /\ Offset = 3 + Len(part)
    BY <1>1, <1>3 DEF Where, Between, Cancelled, Lost, Missed, Inside, Offset
  <1> DEFINE n == Len(part)
             q == File[k]
             from == 3 + n
  <1>6. /\ n \in Nat /\ n < BLOCK_SIZE /\ BLOCK_SIZE \in Nat /\ n + 1 \in 1..BLOCK_SIZE
        /\ part \in Seq(Byte)
        /\ part' \in Seq(Byte) /\ Len(part') = n + 1 /\ part'[n + 1] = c
        /\ \A i \in 1..n : part'[i] = part[i]
    BY <1>1, <1>3, <1>4, XmodemAssumption, SMTT(30) DEF PartSound, TypeInv, TypeOK
  <1>7. /\ Frame(k)[3 + (n + 1)] = q[n + 1] /\ q \in [1..BLOCK_SIZE -> Byte]
    BY <1>3, <1>6, FrameBytes DEF FileOK
  <1>8. Frames(ks) \in Seq(Byte)
    BY <1>3, FramesType
  <1> HIDE DEF n, q
  <1>9. from \in 0..(Width - 1) /\ from + 1 = 3 + (n + 1)
    BY <1>6 DEF Width
  <1>10. IsRest(rest, k, from)
    BY <1>4, <1>5 DEF n
  <1> HIDE DEF from
  <1>11. /\ Head(rest \o Frames(ks)) = Frame(k)[from + 1]
         /\ Tail(rest \o Frames(ks)) = Tail(rest) \o Frames(ks)
         /\ Tail(rest) \in Seq(Byte) /\ IsRest(Tail(rest), k, from + 1)
    BY <1>8, <1>9, <1>10, RestReads, ZenonT(40)
  <1>12. Head(line) = q[n + 1] /\ line' = Tail(rest) \o Frames(ks)
    BY <1>2, <1>4, <1>7, <1>9, <1>11, Zenon
  <1>13. pc' \in {"data", "sum"} /\ Offset' = from + 1
    <2>1. pc' \in {"data", "sum"}
      BY <1>1
    <2>2. Offset' = 3 + Len(part')
      BY <2>1 DEF Offset
    <2> QED
      BY <1>6, <1>9, <2>1, <2>2
  <1>14. PartSound(k)'
    <2>1. PICK u \in [0..BLOCK_SIZE -> Byte] :
             /\ IsSums(u, q)
             /\ \/ /\ \A i \in 1..n : part[i] = q[i]
                   /\ check_sum = u[n]
                \/ hit /\ check_sum # u[n]
      BY <1>4 DEF PartSound, n, q
    <2>2. /\ u[n] \in Byte /\ u[n + 1] = (u[n] + q[n + 1]) % 2^BITS
          /\ q[n + 1] \in Byte /\ check_sum \in Byte
      <3>1. Len(q) = BLOCK_SIZE /\ (n + 1) - 1 = n /\ n \in 0..BLOCK_SIZE
        BY <1>6, <1>7
      <3>2. u[n + 1] = (u[(n + 1) - 1] + q[n + 1]) % 2^BITS
        BY <1>6, <2>1, <3>1 DEF IsSums
      <3> QED
        BY <1>3, <1>6, <1>7, <2>1, <3>1, <3>2 DEF TypeInv, TypeOK
    <2>3. \/ /\ \A i \in 1..(n + 1) : part'[i] = q[i]
             /\ check_sum' = u[n + 1]
          \/ hit' /\ check_sum' # u[n + 1]
      <3>1. CASE hit /\ check_sum # u[n]
        <4>1. c = q[n + 1] /\ hit'
          BY <1>2, <1>12, <3>1
        <4>2. (check_sum + q[n + 1]) % 2^BITS # (u[n] + q[n + 1]) % 2^BITS
          BY <2>2, <3>1, SumsDiffer
        <4> QED
          BY <1>1, <2>2, <4>1, <4>2
      <3>2. CASE check_sum = u[n] /\ \A i \in 1..n : part[i] = q[i]
        <4>1. CASE c = q[n + 1]
          <5>1. \A i \in 1..(n + 1) : i \in 1..n \/ i = n + 1
            BY <1>6
          <5>2. \A i \in 1..(n + 1) : part'[i] = q[i]
            BY <1>6, <3>2, <4>1, <5>1
          <5> QED
            BY <1>1, <2>2, <3>2, <4>1, <5>2
        <4>2. CASE c # q[n + 1]
          <5>1. hit'
            BY <1>2, <1>12, <4>2
          <5>2. (u[n] + c) % 2^BITS # (u[n] + q[n + 1]) % 2^BITS
            BY <2>2, <4>2, SumsDiffer
          <5> QED
            BY <1>1, <2>2, <3>2, <5>1, <5>2
        <4> QED
          BY <4>1, <4>2
      <3> QED
        BY <2>1, <3>1, <3>2
    <2>4. IF pc' = "data" THEN Len(part') < BLOCK_SIZE ELSE Len(part') = BLOCK_SIZE
      BY <1>1, <1>6 DEF n
    <2>5. File'[k] = q
      BY Same DEF q
    <2> QED
      BY <1>6, <2>1, <2>3, <2>4, <2>5 DEF PartSound
  <1>15. Inside(m)'
    <2>1. recieving' /\ UNCHANGED <<sent, sender, replies>> /\ (k \in {m, m + 1}) /\ k # m
      BY <1>1, <1>2, <1>3, <1>4, <1>5
    <2>2. pc' # "inv" /\ pc' \in {"num", "inv", "data", "sum"}
      BY <1>13
    <2> QED
      BY <1>4, <1>5, <1>11, <1>12, <1>13, <1>14, <2>1, <2>2, InsideAfter
  <1>16. Accepted(m)' /\ Told(m)'
    BY <1>1, <1>2, <1>3, AcceptedKept, ToldKept
  <1> QED
    BY <1>13, <1>15, <1>16 DEF Ongoing, Where

\* A block is accepted only if it is the one that was sent.
LEMMA SumStep ==
    ASSUME NEW m, Context(m), ReadSum, scenario' = scenario
    PROVE  \/ UNCHANGED buf /\ Accepted(m)' /\ Ongoing(m)'
           \/ m + 1 \in 0..Blocks /\ Accepted(m + 1)' /\ Ongoing(m + 1)'
  <1>1. PICK c \in Byte :
           /\ pc = "sum" /\ Receive(c)
           /\ IF c # check_sum THEN Reject
              ELSE /\ pc' = "header" /\ replies' = Append(replies, "ACK")
                   /\ buf' = buf \o part /\ part' = <<>>
                   /\ block_number' = (block_number + 1) % 2^BITS
                   /\ UNCHANGED <<recieving, check_sum>>
    BY DEF ReadSum, Reply
  <1>2. /\ line # <<>> /\ line' = Tail(line) /\ UNCHANGED <<sent, sender>> /\ (hit => hit')
        /\ c = Head(line) \/ (~hit /\ hit' /\ c \in Flips(Head(line)))
    BY <1>1, Received
  <1>3. /\ Accepted(m) /\ Told(m) /\ Where(m) /\ FileOK /\ Blocks \in Nat /\ m \in Nat /\ TypeInv
        /\ m \in 0..Blocks
        /\ replies \in Seq({"ACK", "NAK"}) /\ Len(replies) \in Nat /\ pc \in Reading
    BY <1>1, Facts DEF Ongoing, Reading
  <1>4. PICK k \in 1..Blocks, ks \in Seq(Numbers), rest \in Seq(Byte) :
           /\ k = m + 1 /\ k <= sent
           /\ Stream(ks, m, sent) /\ Lockstep(Len(ks) + 1, m)
           /\ line = rest \o Frames(ks) /\ IsRest(rest, k, Offset)
           /\ \A i \in 1..Len(ks) : ks[i] = m + 1
           /\ PartSound(k)
    <2>1. Inside(m)
      BY <1>1, <1>3 DEF Where, Between, Cancelled, Lost, Missed
    <2> QED
      BY <1>1, <2>1 DEF Inside
  <1>5. recieving /\ sender = "active" /\ Offset = 3 + Len(part)
    BY <1>1, <1>3 DEF Where, Between, Cancelled, Lost, Missed, Inside, Offset
  <1>6. Len(part) = BLOCK_SIZE /\ BLOCK_SIZE \in Nat /\ part \in Seq(Byte)
    BY <1>1, <1>3, <1>4, XmodemAssumption DEF PartSound, TypeInv, TypeOK
  <1>7. /\ Frame(k)[Width] = CheckSum(File[k]) /\ File[k] \in [1..BLOCK_SIZE -> Byte]
    BY <1>3, FrameBytes DEF FileOK
  <1>10. Frames(ks) \in Seq(Byte) /\ Len(ks) \in Nat /\ (ks = <<>> <=> Len(ks) = 0)
    BY <1>3, FramesType, NoFrames
  <1>15. Head(line) = Frame(k)[Width] /\ line' = Frames(ks)
    <2> DEFINE from == 3 + BLOCK_SIZE
    <2>1. from \in 0..(Width - 1) /\ from + 1 = Width
      BY <1>6 DEF Width
    <2>2. IsRest(rest, k, from)
      BY <1>4, <1>5, <1>6
    <2> HIDE DEF from
    <2>3. /\ Head(rest \o Frames(ks)) = Frame(k)[from + 1]
          /\ Tail(rest \o Frames(ks)) = Tail(rest) \o Frames(ks)
          /\ Tail(rest) \in Seq(Byte) /\ IsRest(Tail(rest), k, from + 1)
      <3>1. Frames(ks) \in Seq(Byte)
        BY <1>10
      <3>2. from \in 0..(Width - 1)
        BY <2>1
      <3> QED
        BY <2>2, <3>1, <3>2, RestReads, ZenonT(40)
    <2>4. Tail(rest) \o Frames(ks) = Frames(ks)
      <3>1. IsRest(Tail(rest), k, Width)
        BY <2>1, <2>3, Zenon
      <3> QED
        BY <1>10, <2>3, <3>1, RestEnds
    <2> QED
      BY <1>2, <1>4, <2>1, <2>3, <2>4, Zenon
  <1>8. PICK u \in [0..BLOCK_SIZE -> Byte] :
           /\ IsSums(u, File[k])
           /\ \/ /\ \A i \in 1..BLOCK_SIZE : part[i] = File[k][i]
                 /\ check_sum = u[BLOCK_SIZE]
              \/ hit /\ check_sum # u[BLOCK_SIZE]
    BY <1>4, <1>6 DEF PartSound
  <1>9. Frame(k)[Width] = u[BLOCK_SIZE] /\ u[BLOCK_SIZE] \in Byte
    <2>1. Len(File[k]) = BLOCK_SIZE /\ BLOCK_SIZE \in 0..BLOCK_SIZE
      BY <1>6, <1>7
    <2> QED
      BY <1>7, <1>8, <2>1 DEF IsSums
  <1>11. Head(line) = u[BLOCK_SIZE] /\ line' = Frames(ks)
    BY <1>9, <1>15
  <1>12. sent = m + 1
    BY <1>3, <1>4 DEF Told
  <1>13. CASE c = check_sum
    <2>1. /\ pc' = "header" /\ replies' = Append(replies, "ACK")
          /\ buf' = buf \o part /\ block_number' = (block_number + 1) % 2^BITS
          /\ UNCHANGED recieving
      BY <1>1, <1>13
    <2>2. check_sum = u[BLOCK_SIZE] /\ \A i \in 1..BLOCK_SIZE : part[i] = File[k][i]
      <3>1. ASSUME check_sum # u[BLOCK_SIZE] PROVE FALSE
        BY <1>2, <1>8, <1>11, <1>13, <3>1
      <3> QED
        BY <1>8, <3>1
    <2>3. part = File[k]
      BY <1>6, <1>7, <2>2
    <2>4. m + 1 \in 0..Blocks /\ m # Blocks /\ m + 1 \in Nat
      BY <1>3, <1>4
    <2>5. Accepted(m + 1)'
      <3>1. buf' = Content(m + 1)
        BY <1>3, <1>4, <2>1, <2>3, <2>4, ContentNext DEF Accepted
      <3>2. (((m + 1) % 2^BITS) + 1) % 2^BITS = ((m + 1) + 1) % 2^BITS
        BY <2>4, NextNumber
      <3>3. block_number' = ((m + 1) + 1) % 2^BITS
        BY <1>3, <2>1, <3>2 DEF Accepted
      <3> QED
        BY <1>5, <2>1, <3>1, <3>3, Same DEF Accepted
    <2>6. Told(m + 1)'
      <3>1. \A i \in 1..Len(replies) : replies[i] # "ACK"
        BY <1>3, <1>12 DEF Told
      <3>2. /\ Len(replies') = Len(replies) + 1
            /\ \A i \in 1..Len(replies) : replies'[i] = replies[i]
        BY <1>3, <2>1
      <3>3. \A i \in 1..Len(replies') : replies'[i] = "ACK" => i = Len(replies')
        <4>1. \A i \in 1..Len(replies') : i \in 1..Len(replies) \/ i = Len(replies')
          BY <1>3, <3>2
        <4> QED
          BY <3>1, <3>2, <4>1
      <3> QED
        BY <1>2, <1>3, <1>5, <1>12, <2>4, <3>3 DEF Told
    <2>7. Between(m + 1)'
      <3>1. ks # <<>> => Stale
        <4>1. ~Stale => Len(ks) + 1 + Len(replies) <= 1
          BY <1>4 DEF Lockstep
        <4> QED
          BY <1>3, <1>10, <4>1
      <3>2. Stream(ks, m + 1, sent)
        <4>1. sent \in Nat
          BY <1>3, <1>12
        <4> QED
          BY <1>3, <1>4, <3>1, <4>1, StreamNext
      <3>3. Lockstep(Len(ks), m + 1)'
        <4>1. ASSUME ~Stale
              PROVE  Len(ks) + Len(replies') <= 1 /\ replies' # <<>> /\ replies'[1] = "ACK"
          <5>1. Len(ks) + 1 + Len(replies) <= 1
            BY <1>4, <4>1 DEF Lockstep
          <5>2. Len(ks) = 0 /\ Len(replies) = 0
            BY <1>3, <1>10, <5>1
          <5>3. replies' = <<"ACK">>
            BY <1>3, <2>1, <5>2
          <5> QED
            BY <5>2, <5>3
        <4>2. Stale' <=> Stale
          BY Same
        <4> QED
          BY <4>1, <4>2, Zenon DEF Lockstep
      <3>4. Stream(ks, m + 1, sent)' /\ Frames(ks)' = Frames(ks) /\ Numbers' = Numbers
        BY <1>2, <3>2, Same
      <3> QED
        BY <1>2, <1>5, <1>11, <2>1, <3>3, <3>4 DEF Between
    <2> QED
      BY <2>1, <2>4, <2>5, <2>6, <2>7 DEF Ongoing, Where
  <1>14. CASE c # check_sum
    <2>1. Reject /\ pc' = "header" /\ replies' = Append(replies, "NAK") /\ UNCHANGED buf
      BY <1>1, <1>14 DEF Reject, Reply
    <2>2. Lockstep(Len(ks), m)'
      <3>1. ASSUME ~Stale PROVE Len(ks) + Len(replies') <= 1
        <4>1. Len(ks) + 1 + Len(replies) <= 1
          BY <1>4, <3>1 DEF Lockstep
        <4>2. Len(replies') = Len(replies) + 1
          BY <1>3, <2>1
        <4> QED
          BY <1>3, <1>10, <4>1, <4>2
      <3>2. Stale' <=> Stale
        BY Same
      <3>3. sent' # m
        BY <1>2, <1>3, <1>12
      <3> QED
        BY <3>1, <3>2, <3>3, Zenon DEF Lockstep
    <2>3. Stream(ks, m, sent)' /\ Frames(ks)' = Frames(ks) /\ Numbers' = Numbers
      BY <1>2, <1>4, Same
    <2>4. Between(m)'
      BY <1>2, <1>5, <1>11, <2>1, <2>2, <2>3 DEF Between
    <2>5. Accepted(m)' /\ Ongoing(m)'
      BY <1>1, <1>3, <2>1, <2>4, RejectStep
    <2> QED
      BY <2>1, <2>5
  <1> QED
    BY <1>13, <1>14

-------------------------------------------------------------------------------
(***************************************************************************)
(* The steps of the sender and of the line.                                *)
(***************************************************************************)
\* What is added at the end of the line is not what is read next.
LEMMA LineGrows ==
    ASSUME NEW a \in Seq(Byte), a # <<>>, NEW b \in Seq(Byte)
    PROVE  /\ a \o b # <<>> /\ Len(a \o b) >= Len(a) /\ (a \o b)[1] = a[1]
           /\ Len(a) >= 2 => (a \o b)[2] = a[2]
           /\ Len(a) >= 3 => (a \o b)[3] = a[3]
  OBVIOUS

\* Inside a frame there is a byte to read.
LEMMA InsideReads ==
    ASSUME NEW m, Context(m), Inside(m)
    PROVE  line # <<>>
  <1>1. PICK k \in 1..Blocks, ks \in Seq(Numbers), rest \in Seq(Byte) :
           line = rest \o Frames(ks) /\ IsRest(rest, k, Offset)
    BY DEF Inside
  <1>2. Width \in Nat /\ Offset \in Nat /\ Offset < Width
    <2>1. Len(part) \in Nat /\ BLOCK_SIZE \in Nat \ {0}
      BY Facts, XmodemAssumption DEF TypeInv, TypeOK
    <2>2. Len(part) < BLOCK_SIZE + 1
      BY Facts DEF TypeInv, TypeOK
    <2> QED
      BY <2>1, <2>2, SMTT(30) DEF Inside, Offset, Width
  <1>3. rest # <<>>
    BY <1>1, <1>2 DEF IsRest
  <1>4. Frames(ks) \in Seq(Byte)
    BY Facts, FramesType
  <1> QED
    BY <1>1, <1>3, <1>4, Reads

LEMMA TransmitStep ==
    ASSUME NEW m, Context(m), pc \in Reading, NEW n \in Numbers, Transmit(n), scenario' = scenario,
           UNCHANGED <<receiver, sender>>, sender = "active",
           n \in {m, m + 1}, sent <= n, n = m => sent <= m,
           n = m /\ (Between(m) \/ Inside(m)) => Stale,
           Len(replies') \in Nat,
           ~Stale => \/ Len(replies') < Len(replies)
                     \/ line = <<>> /\ Len(replies') = 0
    PROVE  Where(m)'
  <1>1. /\ sent' = n /\ line' = line \o Frame(n) /\ (line # <<>> => (hit => hit'))
        /\ UNCHANGED <<pc, recieving, part, check_sum, sender>>
    BY DEF Transmit, receiver
  <1>2. /\ Where(m) /\ FileOK /\ Blocks \in Nat /\ m \in Nat /\ line \in Seq(Byte)
        /\ Len(replies) \in Nat /\ sent \in Nat /\ Numbers = 1..(Blocks + 1)
    BY Facts DEF Ongoing
  <1>3. Frame(n) \in Seq(Byte) /\ n \in Nat
    BY <1>2, FrameType
  <1>4. /\ Frames(<<>>)' = Frames(<<>>) /\ Numbers' = Numbers /\ Blocks' = Blocks
        /\ (Stale' <=> Stale) /\ FlipIn' = FlipIn
    BY Same
  <1>5. line # <<>> =>
           /\ line' # <<>> /\ Len(line') >= Len(line) /\ line'[1] = line[1]
           /\ Len(line) >= 2 => line'[2] = line[2]
           /\ Len(line) >= 3 => line'[3] = line[3]
    BY <1>1, <1>2, <1>3, LineGrows
  <1>6. ASSUME NEW ks \in Seq(Numbers), Stream(ks, m, sent), Between(m) \/ Inside(m)
        PROVE  /\ Stream(Append(ks, n), m, n) /\ Len(Append(ks, n)) = Len(ks) + 1
               /\ Append(ks, n) \in Seq(Numbers) /\ Frames(Append(ks, n)) = Frames(ks) \o Frame(n)
    BY <1>2, <1>3, <1>6, StreamAppend, FramesAppend, SMTT(30)
  <1>7. ASSUME NEW f \in Nat, Lockstep(f, m), line = <<>> => f = 0, Between(m) \/ Inside(m)
        PROVE  Lockstep(f + 1, m)'
    <2>1. ASSUME ~Stale PROVE f + 1 + Len(replies') <= 1
      <3>1. f + Len(replies) <= 1
        BY <1>7, <2>1 DEF Lockstep
      <3>2. Len(replies') < Len(replies) \/ (f = 0 /\ Len(replies') = 0)
        BY <1>7, <2>1
      <3> QED
        BY <1>2, <3>1, <3>2
    <2>2. ~Stale => sent' # m
      BY <1>1, <1>7
    <2> QED
      BY <1>4, <2>1, <2>2, Zenon DEF Lockstep
  <1>8. ASSUME Between(m) PROVE Between(m)'
    <2>1. PICK ks \in Seq(Numbers) :
             Stream(ks, m, sent) /\ line = Frames(ks) /\ Lockstep(Len(ks), m)
      BY <1>8 DEF Between
    <2>2. Len(ks) \in Nat /\ (line = <<>> => Len(ks) = 0)
      BY <1>2, <2>1, NoFrames
    <2>3. Lockstep(Len(ks) + 1, m)'
      BY <1>7, <1>8, <2>1, <2>2
    <2> DEFINE new == Append(ks, n)
    <2>4. /\ Stream(new, m, n) /\ Len(new) = Len(ks) + 1
          /\ new \in Seq(Numbers) /\ line' = Frames(new)
      BY <1>1, <1>6, <1>8, <2>1
    <2> HIDE DEF new
    <2>5. Stream(new, m, sent)' /\ Frames(new)' = Frames(new)
      BY <1>1, <2>4, Same
    <2>6. Lockstep(Len(new), m)'
      BY <2>3, <2>4
    <2> QED
      BY <1>1, <1>4, <1>8, <2>4, <2>5, <2>6 DEF Between
  <1>9. ASSUME Inside(m) PROVE Inside(m)'
    <2>1. PICK k \in 1..Blocks, ks \in Seq(Numbers), rest \in Seq(Byte) :
             /\ k \in {m, m + 1} /\ k <= sent
             /\ Stream(ks, m, sent) /\ Lockstep(Len(ks) + 1, m)
             /\ line = rest \o Frames(ks) /\ IsRest(rest, k, Offset)
             /\ k = m => Stale
             /\ k = m + 1 => \A i \in 1..Len(ks) : ks[i] = m + 1
             /\ pc = "inv" /\ k = m => hit /\ "num" \in FlipIn
             /\ pc \in {"data", "sum"} => k = m + 1 /\ PartSound(k)
      BY <1>9 DEF Inside
    <2>2. line # <<>>
      BY <1>9, InsideReads
    <2> DEFINE new == Append(ks, n)
    <2>3. Len(ks) \in Nat
      OBVIOUS
    <2>4. Lockstep((Len(ks) + 1) + 1, m)'
      BY <1>7, <1>9, <2>1, <2>2, <2>3
    <2>5. /\ Stream(new, m, n) /\ Len(new) = Len(ks) + 1
          /\ new \in Seq(Numbers) /\ Frames(new) = Frames(ks) \o Frame(n)
      BY <1>6, <1>9, <2>1
    <2>6. k = m + 1 => \A i \in 1..Len(new) : new[i] = m + 1
      <3>1. ASSUME k = m + 1 PROVE n = m + 1
        BY <1>2, <2>1, <3>1
      <3> QED
        BY <2>1, <3>1, AppendProperties
    <2> HIDE DEF new
    <2>7. line' = rest \o Frames(new)
      <3>1. PICK b \in Seq(Byte), d \in Seq(Byte) : b = Frames(ks) /\ d = Frame(n)
        BY <1>2, <1>3, FramesType
      <3>2. (rest \o b) \o d = rest \o (b \o d)
        BY Regroup, SMTT(30)
      <3> QED
        BY <1>1, <2>1, <2>5, <3>1, <3>2
    <2>8. Stream(new, m, sent)' /\ Frames(new)' = Frames(new) /\ IsRest(rest, k, Offset)'
      <3>1. Offset' = Offset
        BY <1>1 DEF Offset
      <3> QED
        BY <1>1, <2>1, <2>5, <3>1, Same
    <2>9. PartSound(k) => PartSound(k)'
      BY <1>1, <2>2, SoundKept
    <2>10. Lockstep(Len(new) + 1, m)'
      BY <2>4, <2>5
    <2>11. k <= sent'
      BY <1>1, <1>2, <1>3, <2>1
    <2>12. /\ pc' \in {"num", "inv", "data", "sum"} /\ recieving' /\ sender' = "active"
           /\ pc' = pc /\ (hit => hit')
      BY <1>1, <1>9, <2>2 DEF Inside
    <2> QED
      BY <1>4, <2>1, <2>5, <2>6, <2>7, <2>8, <2>9, <2>10, <2>11, <2>12 DEF Inside
  <1>10. ASSUME Lost(m) PROVE Lost(m)'
    BY <1>1, <1>4, <1>5, <1>10 DEF Lost
  <1>11. ASSUME Missed(m) PROVE Missed(m)'
    <2>1. Len(line) >= 2 /\ line # <<>>
      <3>1. Len(line) >= 2
        BY <1>2, <1>11 DEF Missed
      <3> QED
        BY <1>2, <3>1
    <2>2. Len(line') >= Len(line) /\ Len(line') \in Nat
      BY <1>1, <1>2, <1>3, <1>5, <2>1
    <2> QED
      BY <1>1, <1>2, <1>5, <1>11, <2>1, <2>2 DEF Missed
  <1> QED
    BY <1>2, <1>8, <1>9, <1>10, <1>11 DEF Where, Cancelled

\* At most a reply is taken off the line, and nothing else happens.
LEMMA QuietStep ==
    ASSUME NEW m, Context(m), pc \in Reading, scenario' = scenario,
           UNCHANGED <<receiver, line, sent, sender, hit>>,
           Len(replies') \in Nat, Len(replies') <= Len(replies),
           Stale \/ sender # "active" \/ UNCHANGED replies
    PROVE  Where(m)'
  <1>1. UNCHANGED <<pc, recieving, part, check_sum, line, sent, sender, hit>>
    BY DEF receiver
  <1>2. Where(m) /\ Len(replies) \in Nat
    BY Facts DEF Ongoing
  <1>3. /\ Frames(<<>>)' = Frames(<<>>) /\ Numbers' = Numbers /\ Blocks' = Blocks
        /\ (Stale' <=> Stale) /\ FlipIn' = FlipIn
    BY Same
  <1>4. ASSUME NEW f \in Nat, Lockstep(f, m) PROVE Lockstep(f, m)'
    <2>1. ASSUME ~Stale PROVE f + Len(replies') <= 1
      <3>1. f + Len(replies) <= 1
        BY <1>4, <2>1 DEF Lockstep
      <3> QED
        BY <1>2, <3>1
    <2>2. ASSUME ~Stale, sender' = "active" PROVE UNCHANGED <<replies, sent, sender>>
      BY <1>1, <2>2
    <2> QED
      BY <1>3, <1>4, <2>1, <2>2 DEF Lockstep
  <1>5. ASSUME Between(m) PROVE Between(m)'
    <2>1. PICK ks \in Seq(Numbers) :
             /\ Stream(ks, m, sent) /\ line = Frames(ks) /\ Lockstep(Len(ks), m)
             /\ sender = "cancelled" => ks = <<>>
      BY <1>5 DEF Between
    <2>2. Lockstep(Len(ks), m)'
      BY <1>4, <2>1
    <2>3. Stream(ks, m, sent)' /\ Frames(ks)' = Frames(ks)
      BY <1>1, <2>1, Same
    <2> QED
      BY <1>1, <1>3, <1>5, <2>1, <2>2, <2>3 DEF Between
  <1>6. ASSUME Cancelled(m) PROVE Cancelled(m)'
    BY <1>1, <1>2, <1>3, <1>6 DEF Cancelled
  <1>7. ASSUME Inside(m) PROVE Inside(m)'
    <2>1. PICK k \in 1..Blocks, ks \in Seq(Numbers), rest \in Seq(Byte) :
             /\ k \in {m, m + 1} /\ k <= sent
             /\ Stream(ks, m, sent) /\ Lockstep(Len(ks) + 1, m)
             /\ line = rest \o Frames(ks) /\ IsRest(rest, k, Offset)
             /\ k = m => Stale
             /\ k = m + 1 => \A i \in 1..Len(ks) : ks[i] = m + 1
             /\ pc = "inv" /\ k = m => hit /\ "num" \in FlipIn
             /\ pc \in {"data", "sum"} => k = m + 1 /\ PartSound(k)
      BY <1>7 DEF Inside
    <2>2. Lockstep(Len(ks) + 1, m)'
      BY <1>4, <2>1
    <2>3. Stream(ks, m, sent)' /\ Frames(ks)' = Frames(ks) /\ IsRest(rest, k, Offset)'
      <3>1. Offset' = Offset
        BY <1>1 DEF Offset
      <3> QED
        BY <1>1, <2>1, <3>1, Same
    <2>4. PartSound(k) => PartSound(k)'
      BY <1>1, SoundKept
    <2>5. /\ pc' \in {"num", "inv", "data", "sum"} /\ recieving' /\ sender' = "active"
          /\ pc' = pc /\ (hit => hit') /\ k <= sent' /\ line' = rest \o Frames(ks)
      BY <1>1, <1>7, <2>1 DEF Inside
    <2> QED
      BY <1>3, <2>1, <2>2, <2>3, <2>4, <2>5 DEF Inside
  <1>8. ASSUME Lost(m) PROVE Lost(m)'
    BY <1>1, <1>3, <1>8 DEF Lost
  <1>9. ASSUME Missed(m) PROVE Missed(m)'
    BY <1>1, <1>9 DEF Missed
  <1> QED
    BY <1>2, <1>5, <1>6, <1>7, <1>8, <1>9 DEF Where

LEMMA ReplyStep ==
    ASSUME NEW m, Context(m), SenderReply, scenario' = scenario
    PROVE  Accepted(m)' /\ Ongoing(m)'
  <1>1. /\ replies # <<>> /\ replies' = Tail(replies)
        /\ UNCHANGED <<pc, recieving, block_number, check_sum, part, buf>>
        /\ UNCHANGED receiver
    BY DEF SenderReply, receiver
  <1>2. /\ Accepted(m) /\ FileOK /\ Blocks \in Nat /\ m \in Nat /\ m <= Blocks /\ sent \in Nat
        /\ sent <= Blocks + 1 /\ Numbers = 1..(Blocks + 1)
        /\ replies \in Seq({"ACK", "NAK"}) /\ TypeInv /\ Blocks = Len(File)
        /\ Context(m)
    BY Facts DEF Blocks
  <1>3. /\ Len(replies) \in Nat \ {0} /\ Head(replies) = replies[1] /\ replies[1] \in {"ACK", "NAK"}
        /\ Len(replies') = Len(replies) - 1 /\ Len(replies') \in Nat
        /\ \A i \in 1..(Len(replies) - 1) : replies'[i] = replies[i + 1]
    BY <1>1, <1>2
  <1>4. Accepted(m)'
    BY <1>1, <1>2, AcceptedKept
  <1>5. CASE pc = "received"
    BY <1>1, <1>2, <1>4, <1>5, Same DEF Ongoing, Context, Reading
  <1>6. CASE pc # "received"
    <2>1. Told(m)
      BY <1>2, <1>6 DEF Context, Ongoing
    \* The reply that was read is not an ACK, or the only one.
    <2>2. replies[1] = "ACK" =>
             /\ sent = m /\ m # 0
             /\ \A i \in 1..Len(replies') : replies'[i] # "ACK"
      <3>1. ASSUME replies[1] = "ACK", NEW i \in 1..Len(replies') PROVE replies'[i] # "ACK"
        <4>1. /\ replies'[i] = replies[i + 1] /\ i + 1 \in 1..Len(replies) /\ 1 \in 1..Len(replies)
              /\ i + 1 # 1
          BY <1>3
        <4> QED
          BY <2>1, <3>1, <4>1 DEF Told
      <3> QED
        BY <1>3, <2>1, <3>1 DEF Told
    <2>3. \/ \E n \in Numbers :
                /\ Transmit(n) /\ UNCHANGED sender /\ sender = "active"
                /\ \/ replies[1] = "NAK" /\ n = (IF sent = 0 THEN 1 ELSE sent)
                   \/ replies[1] = "ACK" /\ n = m + 1
          \/ UNCHANGED <<sent, line, hit, sender>> /\ sender # "active"
      <3>1. /\ (IF sent = 0 THEN 1 ELSE sent) \in Numbers
            /\ sent \in 1..Len(File) => sent + 1 \in Numbers
        BY <1>2
      <3>2. CASE sender = "active" /\ replies[1] = "NAK"
        BY <1>3, <3>1, <3>2 DEF SenderReply
      <3>3. CASE sender = "active" /\ replies[1] = "ACK"
        <4>1. sent # 0 /\ sent # Len(File) + 1 /\ sent = m
          BY <1>2, <2>2, <3>3
        <4> QED
          BY <1>3, <3>1, <3>3, <4>1 DEF SenderReply
      <3>4. CASE sender # "active"
        BY <3>4 DEF SenderReply
      <3> QED
        BY <1>3, <3>2, <3>3, <3>4
    <2>4. CASE \E n \in Numbers :
                  /\ Transmit(n) /\ UNCHANGED sender /\ sender = "active"
                  /\ \/ replies[1] = "NAK" /\ n = (IF sent = 0 THEN 1 ELSE sent)
                     \/ replies[1] = "ACK" /\ n = m + 1
      <3>1. PICK n \in Numbers :
               /\ Transmit(n) /\ UNCHANGED sender /\ sender = "active"
               /\ \/ replies[1] = "NAK" /\ n = (IF sent = 0 THEN 1 ELSE sent)
                  \/ replies[1] = "ACK" /\ n = m + 1
        BY <2>4
      <3>2. sent' = n /\ n \in Nat
        BY <1>2, <3>1 DEF Transmit
      <3>3. sent \in {m, m + 1}
        BY <2>1 DEF Told
      <3>4. /\ n \in {m, m + 1} /\ sent <= n
            /\ n = m => sent = m /\ m # 0 /\ replies[1] = "NAK"
        BY <1>2, <2>2, <3>1, <3>3
      <3>5. Told(m)'
        <4>1. \A i \in 1..Len(replies') : replies'[i] = "ACK" => sent' = m /\ m # 0
          <5>1. ASSUME NEW i \in 1..Len(replies'), replies'[i] = "ACK" PROVE sent' = m /\ m # 0
            <6>1. replies[1] = "NAK" /\ i + 1 \in 1..Len(replies) /\ replies[i + 1] = "ACK"
              BY <1>3, <2>2, <5>1
            <6>2. sent = m /\ m # 0
              BY <2>1, <6>1 DEF Told
            <6> QED
              BY <3>1, <3>2, <6>1, <6>2
          <5> QED
            BY <5>1
        <4>2. \A i, j \in 1..Len(replies') : replies'[i] = "ACK" /\ replies'[j] = "ACK" => i = j
          <5>1. \A i \in 1..Len(replies') : i + 1 \in 1..Len(replies) /\ i \in Nat
            BY <1>3
          <5> QED
            BY <1>3, <2>1, <5>1 DEF Told
        <4>3. sent' \in {m, m + 1} /\ sender' \in {"active", "cancelled"}
          BY <3>1, <3>2, <3>4
        <4> QED
          BY <4>1, <4>2, <4>3 DEF Told
      <3>6. ASSUME pc \in Reading PROVE Where(m)'
        <4>1. n = m /\ (Between(m) \/ Inside(m)) => Stale
          <5>1. ASSUME ~Stale, n = m, Between(m) \/ Inside(m) PROVE FALSE
            <6>1. sent = m /\ m # 0 /\ replies[1] = "NAK" /\ sender = "active"
              BY <3>1, <3>4, <5>1
            <6>2. \E f : Lockstep(f, m)
              BY <5>1 DEF Between, Inside
            <6> QED
              BY <5>1, <6>1, <6>2 DEF Lockstep
          <5> QED
            BY <5>1
        <4>2. Len(replies') < Len(replies)
          BY <1>3
        <4>3. sent <= n /\ n \in {m, m + 1} /\ (n = m => sent <= m)
          BY <1>2, <3>4
        <4> QED
          BY <1>1, <1>2, <1>3, <3>1, <3>6, <4>1, <4>2, <4>3, TransmitStep
      <3> QED
        BY <1>1, <1>4, <1>6, <3>5, <3>6 DEF Ongoing
    <2>5. CASE UNCHANGED <<sent, line, hit, sender>> /\ sender # "active"
      <3>1. Told(m)'
        BY <1>1, <1>2, <2>1, <2>5, ToldLess
      <3>2. ASSUME pc \in Reading PROVE Where(m)'
        <4>1. UNCHANGED <<receiver, line, sent, sender, hit>> /\ sender # "active"
          BY <1>1, <2>5
        <4>2. Len(replies') \in Nat /\ Len(replies') <= Len(replies)
          BY <1>3
        <4>3. Context(m)
          BY <1>2
        <4> QED
          BY <3>2, <4>1, <4>2, <4>3, QuietStep
      <3> QED
        BY <1>1, <1>4, <1>6, <3>1, <3>2 DEF Ongoing
    <2> QED
      BY <2>3, <2>4, <2>5
  <1> QED
    BY <1>5, <1>6

LEMMA RepeatStep ==
    ASSUME NEW m, Context(m), SenderTimeout, scenario' = scenario
    PROVE  Accepted(m)' /\ Ongoing(m)'
  <1>1. /\ sender = "active" /\ sent > 0 /\ line = <<>> /\ replies = <<>> /\ pc \in Reading
        /\ Transmit(sent) /\ UNCHANGED <<receiver, replies, sender>>
        /\ UNCHANGED <<pc, recieving, block_number, buf>>
    BY DEF SenderTimeout, receiver
  <1>2. /\ Accepted(m) /\ FileOK /\ Blocks \in Nat /\ m \in Nat /\ sent \in Nat
        /\ sent <= Blocks + 1 /\ Numbers = 1..(Blocks + 1) /\ Told(m) /\ Len(replies) \in Nat
        /\ Context(m)
    BY <1>1, Facts DEF Ongoing, Reading
  <1>3. sent \in Numbers /\ sent \in {m, m + 1} /\ (sent = m => sent <= m) /\ sent <= sent
    BY <1>1, <1>2 DEF Told
  <1>4. sent = m /\ (Between(m) \/ Inside(m)) => Stale
    <2>1. ASSUME ~Stale, sent = m, Between(m) \/ Inside(m) PROVE FALSE
      <3>1. \E f : Lockstep(f, m)
        BY <2>1 DEF Between, Inside
      <3>2. m # 0
        BY <1>1, <2>1
      <3> QED
        BY <1>1, <2>1, <3>1, <3>2 DEF Lockstep
    <2> QED
      BY <2>1
  <1>5. Len(replies') \in Nat /\ Len(replies') = 0
    BY <1>1, <1>2
  <1>6. Where(m)'
    <2>1. UNCHANGED <<receiver, sender>>
      BY <1>1
    <2> QED
      BY <1>1, <1>2, <1>3, <1>4, <1>5, <2>1, TransmitStep
  <1>7. Accepted(m)'
    BY <1>1, <1>2, AcceptedKept
  <1>8. Told(m)'
    BY <1>1, <1>2 DEF Told, Transmit
  <1> QED
    BY <1>1, <1>6, <1>7, <1>8 DEF Ongoing, Reading

LEMMA CancelStep ==
    ASSUME NEW m, Context(m), SenderCancel, scenario' = scenario
    PROVE  Accepted(m)' /\ Ongoing(m)'
  <1>1. /\ sender = "active" /\ line = <<>> /\ sender' = "cancelled" /\ line' = <<CAN>>
        /\ UNCHANGED <<pc, recieving, block_number, buf, replies, sent>>
    BY DEF SenderCancel, receiver
  <1>2. Accepted(m) /\ Ongoing(m) /\ FileOK /\ Len(replies) \in Nat /\ line \in Seq(Byte)
    BY Facts
  <1>3. Accepted(m)'
    BY <1>1, <1>2, AcceptedKept
  <1>4. Told(m) => Told(m)'
    BY <1>1 DEF Told
  <1>5. ASSUME Where(m) PROVE Cancelled(m)'
    <2>1. Between(m)
      <3>1. ~Inside(m)
        BY <1>1, InsideReads
      <3>2. ~Missed(m) /\ ~Lost(m) /\ ~Cancelled(m)
        BY <1>1 DEF Missed, Lost, Cancelled
      <3> QED
        BY <1>5, <3>1, <3>2 DEF Where
    <2>2. PICK ks \in Seq(Numbers) : line = Frames(ks) /\ Lockstep(Len(ks), m)
      BY <2>1 DEF Between
    <2>3. Len(ks) = 0
      BY <1>1, <1>2, <2>2, NoFrames
    <2>4. ~Stale => Len(replies) <= 1
      <3>1. ASSUME ~Stale PROVE Len(replies) <= 1
        <4>1. Len(ks) + Len(replies) <= 1
          BY <2>2, <3>1 DEF Lockstep
        <4> QED
          BY <1>2, <2>3, <4>1
      <3> QED
        BY <3>1
    <2>5. Stale' <=> Stale
      BY Same
    <2> QED
      BY <1>1, <2>1, <2>4, <2>5 DEF Cancelled, Between
  <1> QED
    BY <1>1, <1>2, <1>3, <1>4, <1>5, Same DEF Ongoing, Where

LEMMA LoseStep ==
    ASSUME NEW m, Context(m), LoseReply, scenario' = scenario
    PROVE  Accepted(m)' /\ Ongoing(m)'
  <1>1. /\ Stale /\ replies # <<>> /\ replies' = Tail(replies)
        /\ UNCHANGED <<pc, recieving, block_number, buf>>
        /\ UNCHANGED <<receiver, line, sent, sender, hit>>
    BY DEF LoseReply, receiver, Stale
  <1>2. Accepted(m) /\ Ongoing(m) /\ replies \in Seq({"ACK", "NAK"}) /\ TypeInv /\ Context(m)
    BY Facts
  <1>3. Accepted(m)'
    BY <1>1, <1>2, AcceptedKept
  <1>4. Told(m) => Told(m)'
    BY <1>1, <1>2, ToldLess
  <1>5. Len(replies') \in Nat /\ Len(replies') <= Len(replies)
    BY <1>1, <1>2
  <1>6. pc \in Reading => Where(m)'
    BY <1>1, <1>2, <1>5, QuietStep
  <1> QED
    BY <1>1, <1>2, <1>3, <1>4, <1>6, Same DEF Ongoing

-------------------------------------------------------------------------------
(***************************************************************************)
(* The invariant.                                                          *)
(***************************************************************************)
XmodemInv == TypeInv /\ Unmistakable /\ (AllBytesArrive => TransferInv)

LEMMA InvInit == Init /\ Unmistakable => XmodemInv
  <1> SUFFICES ASSUME Init, Unmistakable PROVE XmodemInv
    OBVIOUS
  <1>1. TypeInv /\ FileOK /\ Blocks \in Nat /\ 0 \in 0..Blocks
    <2>1. TypeInv
      BY TypeInit
    <2>2. FileOK
      BY FileTypes DEF Init
    <2> QED
      BY <2>1, <2>2 DEF FileOK
  <1>2. Accepted(0)
    <2>1. (0 + 1) % 2^BITS = 1
      BY Modulus
    <2> QED
      BY <1>1, <2>1, ContentZero DEF Init, Accepted
  <1>3. Told(0)
    BY DEF Init, Told
  <1>4. Between(0)
    <2>1. <<>> \in Seq(Numbers) /\ Len(<<>>) = 0
      OBVIOUS
    <2>2. Lockstep(0, 0)
      BY <2>1 DEF Lockstep, Init
    <2> QED
      BY <2>1, <2>2, StreamEmpty, FramesEmpty DEF Between, Init
  <1>5. Ongoing(0)
    BY <1>3, <1>4 DEF Ongoing, Where, Init
  <1> QED
    BY <1>1, <1>2, <1>5 DEF XmodemInv, TransferInv

\* Which blocks a step accepts: none, or the next one.
LEMMA AcceptsNext ==
    ASSUME NEW m, Context(m), Next
    PROVE  \/ UNCHANGED buf /\ Accepted(m)' /\ Ongoing(m)'
           \/ m + 1 \in 0..Blocks /\ pc = "sum" /\ Accepted(m + 1)' /\ Ongoing(m + 1)'
  <1>0. scenario' = scenario /\ Blocks \in Nat /\ AllBytesArrive
    BY Facts DEF Next
  <1>1. CASE Timeout
    BY <1>0, <1>1, TimeoutStep DEF Timeout, receiver
  <1>2. CASE ReadHeader
    BY <1>0, <1>2, HeaderStep DEF ReadHeader
  <1>3. CASE ReadNumber
    BY <1>0, <1>3, NumberStep DEF ReadNumber, Reject
  <1>4. CASE ReadInverse
    BY <1>0, <1>4, InverseStep DEF ReadInverse, Reject
  <1>5. CASE ReadData
    BY <1>0, <1>5, DataStep DEF ReadData
  <1>6. CASE ReadSum
    <2>1. pc = "sum"
      BY <1>6 DEF ReadSum
    <2> QED
      BY <1>0, <1>6, <2>1, SumStep
  <1>7. CASE SenderReply
    BY <1>0, <1>7, ReplyStep DEF SenderReply, receiver
  <1>8. CASE SenderTimeout
    BY <1>0, <1>8, RepeatStep DEF SenderTimeout, receiver
  <1>9. CASE SenderCancel
    BY <1>0, <1>9, CancelStep DEF SenderCancel, receiver
  <1>10. CASE LoseReply
    BY <1>0, <1>10, LoseStep DEF LoseReply, receiver
  <1>11. ~LoseByte
    BY <1>0 DEF LoseByte, AllBytesArrive
  <1> QED
    BY <1>1, <1>2, <1>3, <1>4, <1>5, <1>6, <1>7, <1>8, <1>9, <1>10, <1>11
       DEF Next, Receiver, Line

LEMMA InvStep == XmodemInv /\ Next => XmodemInv'
  <1> SUFFICES ASSUME XmodemInv, Next PROVE XmodemInv'
    OBVIOUS
  <1>1. scenario' = scenario
    BY DEF Next
  <1>2. TypeInv'
    BY TypeStep DEF XmodemInv
  <1>3. Unmistakable' /\ (AllBytesArrive' <=> AllBytesArrive) /\ Blocks' = Blocks
    <2>1. File' = File /\ FlipIn' = FlipIn /\ Faults' = Faults
      BY <1>1 DEF File, FlipIn, Faults
    <2>2. Stale' <=> Stale
      BY <2>1 DEF Stale
    <2> QED
      BY <2>1, <2>2 DEF XmodemInv, Unmistakable, AllBytesArrive, Blocks
  <1>4. ASSUME AllBytesArrive PROVE TransferInv'
    <2>1. PICK m \in 0..Blocks : Accepted(m) /\ Ongoing(m)
      BY <1>4 DEF XmodemInv, TransferInv
    <2>2. Context(m)
      BY <1>4, <2>1 DEF Context, XmodemInv
    <2>3. \/ Accepted(m)' /\ Ongoing(m)'
          \/ m + 1 \in 0..Blocks /\ Accepted(m + 1)' /\ Ongoing(m + 1)'
      BY <2>2, AcceptsNext
    <2> QED
      BY <1>3, <2>1, <2>3 DEF TransferInv
  <1> QED
    BY <1>2, <1>3, <1>4 DEF XmodemInv

LEMMA InvStutter == XmodemInv /\ UNCHANGED vars => XmodemInv'
  <1> SUFFICES ASSUME XmodemInv, UNCHANGED vars PROVE XmodemInv'
    OBVIOUS
  <1>1. /\ scenario' = scenario
        /\ UNCHANGED <<pc, recieving, block_number, check_sum, part, buf, line, replies, sent,
                       sender, errors, hit>>
    BY DEF vars, receiver
  <1>2. File' = File /\ FlipIn' = FlipIn /\ Faults' = Faults
    BY <1>1 DEF File, FlipIn, Faults
  <1>3. TypeInv'
    BY <1>1, <1>2 DEF XmodemInv, TypeInv, TypeOK
  <1>4. Unmistakable' /\ (AllBytesArrive' <=> AllBytesArrive)
    <2>1. Stale' <=> Stale
      BY <1>2 DEF Stale
    <2> QED
      BY <1>2, <2>1 DEF XmodemInv, Unmistakable, AllBytesArrive
  <1>5. ASSUME AllBytesArrive PROVE TransferInv'
    <2>1. PICK m \in 0..Blocks : Accepted(m) /\ Ongoing(m)
      BY <1>5 DEF XmodemInv, TransferInv
    <2>2. Blocks' = Blocks
      BY <1>1, Same
    <2>3. Accepted(m)' /\ (Told(m) => Told(m)')
      BY <1>1, <2>1, AcceptedKept, ToldKept
    <2>4. Context(m)
      BY <1>5, <2>1 DEF Context, XmodemInv
    <2>5. pc \in Reading => Where(m)'
      <3>1. Len(replies') \in Nat /\ Len(replies') <= Len(replies)
        BY <1>1, <2>4, Facts
      <3>2. UNCHANGED <<receiver, line, sent, sender, hit>>
        BY <1>1 DEF receiver
      <3> QED
        BY <1>1, <2>4, <3>1, <3>2, QuietStep
    <2> QED
      BY <1>1, <2>1, <2>2, <2>3, <2>5 DEF TransferInv, Ongoing
  <1> QED
    BY <1>3, <1>4, <1>5 DEF XmodemInv

LEMMA InvAlways == Spec /\ Unmistakable => []XmodemInv
  BY InvInit, InvStep, InvStutter, PTL DEF Spec

-------------------------------------------------------------------------------
(***************************************************************************)
(* What the invariant gives.                                               *)
(***************************************************************************)
LEMMA InvFacts ==
    ASSUME XmodemInv, AllBytesArrive
    PROVE  \E m \in 0..Blocks : Context(m) /\ buf = Content(m) /\ m \in Nat /\ FileOK
                                /\ Ongoing(m) /\ TypeInv
  <1>1. PICK m \in 0..Blocks : Accepted(m) /\ Ongoing(m)
    BY DEF XmodemInv, TransferInv
  <1>2. Context(m)
    BY <1>1 DEF Context, XmodemInv
  <1> QED
    BY <1>1, <1>2, Facts DEF Accepted

(***************************************************************************)
(* AcceptedPrefix holds: what the receiver has accepted is what was sent,  *)
(* block by block, however many replies are lost, blocks repeated and      *)
(* frames hit by a flipped bit.                                            *)
(***************************************************************************)
THEOREM AcceptedIsPrefix == Spec /\ Unmistakable => []AcceptedPrefix
  <1>1. XmodemInv => AcceptedPrefix
    <2> SUFFICES ASSUME XmodemInv, AllBytesArrive PROVE IsPrefix(buf, Content(Blocks))
      BY DEF AcceptedPrefix, Blocks
    <2>1. PICK m \in 0..Blocks : buf = Content(m) /\ FileOK
      BY InvFacts
    <2> QED
      BY <2>1, ContentPrefix
  <1> QED
    BY <1>1, InvAlways, PTL

(***************************************************************************)
(* CompleteOnSuccess holds: xmodem_recv returns a size only when it has    *)
(* the whole file.                                                         *)
(***************************************************************************)
THEOREM SuccessIsComplete == Spec /\ Unmistakable => []CompleteOnSuccess
  <1>1. XmodemInv => CompleteOnSuccess
    <2> SUFFICES ASSUME XmodemInv, AllBytesArrive, pc = "received" PROVE buf = Content(Blocks)
      BY DEF CompleteOnSuccess, Blocks
    <2> QED
      BY InvFacts DEF Ongoing
  <1> QED
    BY <1>1, InvAlways, PTL

(***************************************************************************)
(* AckedIsStored holds: a block the sender has an ACK for is in the        *)
(* buffer, and the sender has finished only if the receiver has.           *)
(***************************************************************************)
THEOREM AcknowledgedIsStored == Spec /\ Unmistakable => []AckedIsStored
  <1>1. XmodemInv => AckedIsStored
    <2> SUFFICES ASSUME XmodemInv, AllBytesArrive
                 PROVE  /\ Sent > 0 => Len(buf) >= Sent * BLOCK_SIZE
                        /\ sender = "finished" => pc = "received"
      BY DEF AckedIsStored
    <2>1. PICK m \in 0..Blocks : /\ Context(m) /\ buf = Content(m) /\ m \in Nat /\ FileOK
                                 /\ Ongoing(m)
      BY InvFacts
    <2>2. sent \in Nat /\ sent <= m + 1 /\ BLOCK_SIZE \in Nat
      <3>1. sent \in Nat /\ sent <= Blocks + 1 /\ BLOCK_SIZE \in Nat /\ Blocks \in Nat
        BY <2>1, Facts, XmodemAssumption
      <3> QED
        BY <2>1, <3>1 DEF Ongoing, Told
    <2>3. Len(buf) = m * BLOCK_SIZE
      BY <2>1, ContentLength
    <2>4. ASSUME Sent > 0 PROVE m * BLOCK_SIZE >= Sent * BLOCK_SIZE
      <3>1. PICK d \in Nat : m = Sent + d
        <4>1. m - Sent \in Nat /\ m = Sent + (m - Sent)
          BY <2>1, <2>2 DEF Sent
        <4> QED
          BY <4>1
      <3>2. Sent \in Nat
        BY <2>2, <2>4 DEF Sent
      <3>3. m * BLOCK_SIZE = Sent * BLOCK_SIZE + d * BLOCK_SIZE
        BY <2>2, <3>1, <3>2
      <3>4. d * BLOCK_SIZE \in Nat /\ Sent * BLOCK_SIZE \in Nat
        BY <2>2, <3>1, <3>2
      <3> QED
        BY <3>3, <3>4
    <2>5. sender = "finished" => pc = "received"
      BY <2>1 DEF Ongoing, Told
    <2> QED
      BY <2>3, <2>4, <2>5
  <1> QED
    BY <1>1, InvAlways, PTL

\* A block more is what the abstract transfer lets arrive.
LEMMA ArrivesNext ==
    ASSUME FileOK, NEW m \in Nat, m + 1 \in 0..Blocks, buf = Content(m), buf' = Content(m + 1)
    PROVE  /\ Len(buf) < Len(Content(Blocks))
           /\ buf' = SubSeq(Content(Blocks), 1, Len(buf) + BLOCK_SIZE)
  <1>1. Blocks \in Nat /\ BLOCK_SIZE \in Nat \ {0} /\ m \in 0..Blocks /\ Blocks \in 0..Blocks
    BY XmodemAssumption DEF FileOK
  <1>2. /\ Len(buf) = m * BLOCK_SIZE /\ Len(buf') = (m + 1) * BLOCK_SIZE
        /\ (m + 1) * BLOCK_SIZE = m * BLOCK_SIZE + BLOCK_SIZE /\ m * BLOCK_SIZE \in Nat
    <2>1. Len(Content(m)) = m * BLOCK_SIZE
      BY <1>1, ContentLength
    <2>2. Len(Content(m + 1)) = (m + 1) * BLOCK_SIZE
      BY ContentLength
    <2>3. (m + 1) * BLOCK_SIZE = m * BLOCK_SIZE + BLOCK_SIZE /\ m * BLOCK_SIZE \in Nat
      BY <1>1
    <2> QED
      BY <2>1, <2>2, <2>3
  <1>3. /\ Len(Content(m + 1)) <= Len(Content(Blocks))
        /\ SubSeq(Content(m + 1), 1, Len(Content(m + 1)))
               = SubSeq(Content(Blocks), 1, Len(Content(m + 1)))
    BY ContentPrefix DEF IsPrefix
  <1>4. SubSeq(Content(m + 1), 1, Len(Content(m + 1))) = Content(m + 1)
    <2>1. PICK s \in Seq(Byte) : s = Content(m + 1)
      BY ContentType
    <2>2. SubSeq(s, 1, Len(s)) = s
      OBVIOUS
    <2> QED
      BY <2>1, <2>2
  <1>5. Content(Blocks) \in Seq(Byte)
    BY <1>1, ContentType
  <1>6. Len(buf) < Len(Content(Blocks))
    <2>1. Len(Content(Blocks)) \in Nat
      BY <1>5
    <2> QED
      BY <1>1, <1>2, <1>3, <2>1
  <1> QED
    BY <1>2, <1>3, <1>4, <1>6

LEMMA TransferStep ==
    ASSUME XmodemInv, Next
    PROVE  [AllBytesArrive => Abstract!TransferNext]_<<buf, pc \in Reading>>
  <1> SUFFICES ASSUME AllBytesArrive
               PROVE  \/ Abstract!TransferNext
                      \/ UNCHANGED buf /\ ((pc' \in Reading) <=> (pc \in Reading))
    OBVIOUS
  <1> DEFINE result == IF pc \in Reading THEN "running" ELSE pc
  <1>1. PICK m \in 0..Blocks : /\ Context(m) /\ buf = Content(m) /\ m \in Nat /\ FileOK
                               /\ Ongoing(m) /\ TypeInv
    BY InvFacts
  <1>2. scenario' = scenario /\ Blocks' = Blocks /\ Blocks = Len(File)
        /\ Content(Len(File))' = Content(Len(File))
    <2>1. scenario' = scenario
      BY DEF Next
    <2> QED
      BY <2>1, Same DEF Blocks, Content
  <1>3. \/ UNCHANGED buf /\ Ongoing(m)'
        \/ m + 1 \in 0..Blocks /\ pc = "sum" /\ Accepted(m + 1)'
    BY <1>1, AcceptsNext
  <1>4. CASE m + 1 \in 0..Blocks /\ pc = "sum" /\ Accepted(m + 1)'
    <2>1. pc \in Reading /\ pc' \in Reading
      BY <1>4 DEF Next, Receiver, Line, Timeout, ReadHeader, ReadNumber, ReadInverse, ReadData,
            ReadSum, Reject, SenderReply, SenderTimeout, SenderCancel, LoseByte, LoseReply,
            receiver, Reading
    <2>2. buf' = Content(m + 1)
      <3>1. scenario' = scenario
        BY <1>2
      <3> QED
        BY <1>4, <3>1, Same DEF Accepted
    <2>3. /\ Len(buf) < Len(Content(Blocks))
          /\ buf' = SubSeq(Content(Blocks), 1, Len(buf) + BLOCK_SIZE)
      BY <1>1, <1>4, <2>2, ArrivesNext
    <2> QED
      BY <1>2, <2>1, <2>3 DEF Abstract!TransferNext, Abstract!Arrive
  <1>5. CASE UNCHANGED buf /\ Ongoing(m)'
    <2>1. CASE pc \in Reading
      <3>1. pc' \in Reading \/ pc' = "received" \/ pc' = "aborted"
        BY TypeStep DEF XmodemInv, TypeInv, TypeOK
      <3>2. CASE pc' = "received"
        <4>1. m = Blocks /\ pc' \notin Reading
          BY <1>2, <1>5, <3>2 DEF Ongoing, Reading
        <4> QED
          BY <1>1, <1>2, <1>5, <2>1, <3>2, <4>1 DEF Abstract!TransferNext, Abstract!Succeed
      <3>3. CASE pc' = "aborted"
        <4>1. pc' \notin Reading
          BY <3>3 DEF Reading
        <4> QED
          BY <1>2, <1>5, <2>1, <3>3, <4>1 DEF Abstract!TransferNext, Abstract!Fail
      <3> QED
        BY <1>5, <2>1, <3>1, <3>2, <3>3
    <2>2. CASE pc \notin Reading
      <3>1. pc' = pc
        BY <2>2 DEF Next, Receiver, Line, Timeout, ReadHeader, ReadNumber, ReadInverse, ReadData,
              ReadSum, SenderReply, SenderTimeout, SenderCancel, LoseByte, LoseReply,
              receiver, Reading
      <3> QED
        BY <1>5, <2>2, <3>1
    <2> QED
      BY <2>1, <2>2
  <1> QED
    BY <1>3, <1>4, <1>5

(***************************************************************************)
(* IsTransfer holds: xmodem_recv implements the transfer the boot loader's *)
(* main loop relies on, step by step.                                      *)
(***************************************************************************)
THEOREM ImplementsTransfer == Spec /\ Unmistakable => IsTransfer
  <1>1. Init => Abstract!TransferInit
    BY DEF Init, Abstract!TransferInit, Reading
  <1>2. XmodemInv /\ [Next]_vars => [AllBytesArrive => Abstract!TransferNext]_<<buf, pc \in Reading>>
    <2>1. XmodemInv /\ Next => [AllBytesArrive => Abstract!TransferNext]_<<buf, pc \in Reading>>
      BY TransferStep
    <2>2. UNCHANGED vars => UNCHANGED <<buf, pc \in Reading>>
      BY DEF vars, receiver
    <2> QED
      BY <2>1, <2>2
  <1> QED
    BY <1>1, <1>2, InvAlways, PTL DEF Spec, IsTransfer

===============================================================================
