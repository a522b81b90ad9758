------------------------------- MODULE BootProofs -------------------------------
(***************************************************************************)
(* The boot loader trusts a size and a buffer only when they hold the file *)
(* that was received, forgets them with a reset, and puts the segments of  *)
(* a tidy file where their headers say: for any sizes of the memory's      *)
(* areas, any files and any lines.                                         *)
(***************************************************************************)
EXTENDS BootProperties, SequenceTheorems, WellFoundedInduction, TLAPS

-------------------------------------------------------------------------------
\* Numbers.

LEMMA Quotient ==
    ASSUME NEW b \in Nat \ {0}, NEW x \in Nat, x % b = 0
    PROVE  \E k \in Nat : x = k * b
  <1>1. x \div b \in Nat /\ x = b * (x \div b) + (x % b)
    OBVIOUS
  <1> QED
    BY <1>1

LEMMA Multiple ==
    ASSUME NEW b \in Nat \ {0}, NEW k \in Nat
    PROVE  (k * b) % b = 0
  <1> DEFINE x == k * b
  <1>1. x \in Nat /\ x \div b \in Nat /\ x % b \in 0..(b - 1) /\ x = b * (x \div b) + (x % b)
    OBVIOUS
  <1> DEFINE q == x \div b
             r == x % b
  <1>2. q \in Nat /\ r \in Nat /\ r < b /\ k * b = b * q + r
    BY <1>1
  <1> HIDE DEF x, q, r
  <1>3. CASE k <= q
    <2>1. PICK d \in Nat : q = k + d
      <3>1. q - k \in Nat /\ q = k + (q - k)
        BY <1>2, <1>3
      <3> QED
        BY <3>1
    <2>2. b * q = k * b + b * d /\ b * d >= 0 /\ k * b \in Nat /\ b * d \in Nat
      BY <2>1
    <2>3. r = 0
      BY <1>2, <2>2
    <2> QED
      BY <2>3 DEF r, x
  <1>4. CASE q < k
    <2>1. PICK d \in Nat : k = q + 1 + d
      <3>1. k - (q + 1) \in Nat /\ k = q + 1 + (k - (q + 1))
        BY <1>2, <1>4
      <3> QED
        BY <3>1
    <2>2. k * b = b * q + b + b * d /\ b * d >= 0 /\ b * q \in Nat /\ b * d \in Nat
      BY <1>2, <2>1
    <2> QED
      BY <1>2, <2>2
  <1> QED
    BY <1>2, <1>3, <1>4

\* The next block of a file of whole blocks is all there.
LEMMA NextBlock ==
    ASSUME NEW b \in Nat \ {0}, NEW x \in Nat, NEW y \in Nat, x % b = 0, y % b = 0, x < y
    PROVE  x + b <= y /\ (x + b) % b = 0
  <1>1. PICK k \in Nat, m \in Nat : x = k * b /\ y = m * b
    BY Quotient
  <1>2. k < m
    <2> SUFFICES ASSUME m <= k PROVE m * b <= k * b
      BY <1>1
    <2>1. PICK d \in Nat : k = m + d
      <3>1. k - m \in Nat /\ k = m + (k - m)
        OBVIOUS
      <3> QED
        BY <3>1
    <2>2. k * b = m * b + d * b /\ d * b >= 0 /\ m * b \in Nat
      BY <2>1
    <2> QED
      BY <2>2
  <1>3. PICK d \in Nat : m = (k + 1) + d
    <2>1. m - (k + 1) \in Nat /\ m = (k + 1) + (m - (k + 1))
      BY <1>2
    <2> QED
      BY <2>1
  <1>4. m * b = (k + 1) * b + d * b /\ d * b >= 0 /\ (k + 1) * b \in Nat /\ x + b = (k + 1) * b
    BY <1>1, <1>3
  <1>5. ((k + 1) * b) % b = 0
    BY Multiple
  <1> QED
    BY <1>1, <1>4, <1>5

LEMMA FirstOf ==
    ASSUME NEW S, S \subseteq Nat, S # {}
    PROVE  \E n \in S : \A m \in S : n <= m
  <1> DEFINE R == {x \in Nat \X Nat : x[1] < x[2]}
  <1>1. IsWellFoundedOn(R, Nat)
    BY NatLessThanWellFounded DEF OpToRel
  <1>2. PICK n \in S : \A m \in S : ~(<<m, n>> \in R)
    BY <1>1, WFMin
  <1>3. ASSUME NEW m \in S PROVE n <= m
    <2>1. m \in Nat /\ n \in Nat
      OBVIOUS
    <2>2. <<m, n>> \in R <=> m < n
      BY <2>1
    <2> QED
      BY <1>2, <2>1, <2>2
  <1> QED
    BY <1>3

-------------------------------------------------------------------------------
(***************************************************************************)
(* The memory.  m is one that a step may leave: integers, the ROM intact.  *)
(***************************************************************************)
Space == Rom \cup Ram
IsMemory(m) == m \in [Space -> Int] /\ \A a \in Rom : m[a] = RomImage[a]

LEMMA Layout ==
    /\ SOFTVEC_SIZE \in Nat /\ PROGRAM_SIZE \in Nat /\ BUFFER_SIZE \in Nat
    /\ BUF_SIZE \in Nat \ {0} /\ BLOCK_SIZE \in Nat \ {0}
    /\ erodata = 16 /\ softvec = 19 /\ program = 19 + SOFTVEC_SIZE
    /\ buffer_start = program + PROGRAM_SIZE /\ data_start = buffer_start + BUFFER_SIZE
    /\ edata = data_start + 3 /\ bss_start = data_start + 3 /\ ebss = data_start + 6 + BUF_SIZE
    /\ sizeAt = data_start + 2 /\ loadbufAt = data_start + 5 /\ bufAt = data_start + 6
    /\ program \in Nat /\ buffer_start \in Nat /\ data_start \in Nat /\ ebss \in Nat
    /\ Rom = 0..18 /\ Ram = 19..(ebss - 1) /\ Space = 0..(ebss - 1)
  <1>1. Len(DataImage) = 3
    BY DEF DataImage
  <1>2. /\ SOFTVEC_SIZE \in Nat /\ PROGRAM_SIZE \in Nat /\ BUFFER_SIZE \in Nat
        /\ BUF_SIZE \in Nat \ {0} /\ BLOCK_SIZE \in Nat \ {0}
    BY BootAssumption
  <1>3. erodata = 16 /\ softvec = 19 /\ program = 19 + SOFTVEC_SIZE /\ program \in Nat
    BY <1>1, <1>2 DEF VECTORS, erodata, softvec, program
  <1>4. /\ buffer_start = program + PROGRAM_SIZE /\ buffer_start \in Nat
        /\ data_start = buffer_start + BUFFER_SIZE /\ data_start \in Nat
    BY <1>2, <1>3 DEF buffer_start, data_start
  <1>5. /\ edata = data_start + 3 /\ bss_start = data_start + 3
        /\ sizeAt = data_start + 2 /\ loadbufAt = data_start + 5 /\ bufAt = data_start + 6
    BY <1>1, <1>4 DEF edata, bss_start, sizeAt, loadbufAt, bufAt
  <1>6. ebss = data_start + 6 + BUF_SIZE /\ ebss \in Nat /\ ebss > 19
    BY <1>2, <1>3, <1>4, <1>5 DEF ebss
  <1>7. Rom = 0..18 /\ Ram = 19..(ebss - 1)
    BY <1>3 DEF Rom, Ram
  <1>8. Space = 0..(ebss - 1)
    <2>1. ASSUME NEW x PROVE x \in 0..18 \cup 19..(ebss - 1) <=> x \in 0..(ebss - 1)
      BY <1>6
    <2> QED
      BY <1>7, <2>1 DEF Space
  <1> QED
    BY <1>2, <1>3, <1>4, <1>5, <1>6, <1>7, <1>8

LEMMA PeekAt ==
    ASSUME NEW m \in [Space -> Int], NEW a
    PROVE  Peek(m, a) \in Int /\ (a \in Space => Peek(m, a) = m[a])
  BY DEF Peek

\* The three ways the library writes: which cells, and what.
LEMMA StoreCells ==
    ASSUME NEW m \in [Space -> Int], NEW at \in Int, NEW cells \in Seq(Int),
           NEW g, g = Store(m, at, cells)
    PROVE  /\ g \in [Space -> Int]
           /\ \A a \in Space : g[a] = IF a >= at /\ a < at + Len(cells)
                                      THEN cells[a - at + 1] ELSE m[a]
  <1>1. \A a \in Space : a \in Int
    BY Layout
  <1>2. g = [a \in Space |-> IF a >= at /\ a < at + Len(cells) THEN cells[a - at + 1] ELSE m[a]]
    BY DEF Store
  <1>3. \A a \in Space : a >= at /\ a < at + Len(cells) => cells[a - at + 1] \in Int
    <2> SUFFICES ASSUME NEW a \in Space, a >= at, a < at + Len(cells)
                 PROVE  cells[a - at + 1] \in Int
      OBVIOUS
    <2>1. a - at + 1 \in 1..Len(cells)
      BY <1>1
    <2> QED
      BY <2>1
  <1> QED
    BY <1>2, <1>3

LEMMA SetCells ==
    ASSUME NEW m \in [Space -> Int], NEW b, NEW c \in Int, NEW len, NEW g, g = memset(m, b, c, len)
    PROVE  /\ g \in [Space -> Int]
           /\ \A a \in Space : g[a] = IF a >= b /\ a < b + len THEN c ELSE m[a]
  BY DEF memset

LEMMA CopyCells ==
    ASSUME NEW m \in [Space -> Int], NEW dst, NEW src, NEW len, NEW g, g = memcpy(m, dst, src, len)
    PROVE  /\ g \in [Space -> Int]
           /\ \A a \in Space : g[a] = IF a < dst \/ a >= dst + len THEN m[a]
                 ELSE Peek(m, src + IF src < dst THEN (a - dst) % (dst - src) ELSE a - dst)
  <1>1. g = [a \in Space |-> IF a < dst \/ a >= dst + len THEN m[a]
                 ELSE Peek(m, src + IF src < dst THEN (a - dst) % (dst - src) ELSE a - dst)]
    BY DEF memcpy
  <1>2. \A a : Peek(m, a) \in Int
    BY PeekAt
  <1> QED
    BY <1>1, <1>2

LEMMA RomImageIs ==
    ASSUME NEW a \in Rom
    PROVE  RomImage[a] \in Int /\ RomImage[18] = -1
  <1>1. a \in Int /\ a >= 0 /\ a <= 18 /\ 18 \in Rom
    BY Layout
  <1>2. \A x \in Rom : RomImage[x] = IF x < 16 THEN 1 ELSE DataImage[x - 16 + 1]
    BY Layout DEF RomImage
  <1>3. DataImage[1] = 16 /\ DataImage[2] = 32 /\ DataImage[3] = -1
    BY DEF DataImage
  <1>4. CASE a < 16
    BY <1>1, <1>2, <1>3, <1>4
  <1>5. CASE a >= 16
    <2>1. a - 16 + 1 \in {1, 2, 3}
      BY <1>1, <1>5
    <2> QED
      BY <1>1, <1>2, <1>3, <1>5, <2>1
  <1> QED
    BY <1>1, <1>4, <1>5

\* A write of the loader to RAM leaves a memory.
LEMMA WrittenCells ==
    ASSUME NEW m \in [Space -> Int], NEW g, g = Written(m)
    PROVE  IsMemory(g) /\ \A a \in Ram : g[a] = m[a]
  <1>1. Rom \subseteq Space /\ Ram \subseteq Space /\ \A a \in Ram : a \notin Rom
    BY Layout DEF Space
  <1>2. g = [a \in Space |-> IF a \in Rom THEN RomImage[a] ELSE m[a]]
    BY DEF Written
  <1> QED
    BY <1>1, <1>2, RomImageIs DEF IsMemory

LEMMA StoreInRam ==
    ASSUME NEW m, IsMemory(m), NEW at \in Ram, NEW cells \in Seq(Int),
           NEW g, g = Store(m, at, cells)
    PROVE  /\ IsMemory(g)
           /\ \A a \in Space : g[a] = IF a >= at /\ a < at + Len(cells)
                                      THEN cells[a - at + 1] ELSE m[a]
  <1>1. /\ g \in [Space -> Int]
        /\ \A a \in Space : g[a] = IF a >= at /\ a < at + Len(cells)
                                   THEN cells[a - at + 1] ELSE m[a]
    <2>1. m \in [Space -> Int] /\ at \in Int
      BY Layout DEF IsMemory
    <2> QED
      BY <2>1, StoreCells
  <1>2. \A a \in Rom : a \in Space /\ ~(a >= at)
    BY Layout
  <1> QED
    BY <1>1, <1>2 DEF IsMemory

\* After init the loader has no size and no buffer.
LEMMA InitCells ==
    ASSUME NEW m, IsMemory(m), NEW g, g = init(m)
    PROVE  IsMemory(g) /\ g[sizeAt] = -1 /\ g[loadbufAt] = NULL
  <1> DEFINE m1 == memcpy(m, data_start, erodata, edata - data_start)
             m2 == memset(m1, bss_start, 0, ebss - bss_start)
  <1>1. edata - data_start = 3
    BY Layout
  <1>2. /\ m1 \in [Space -> Int]
        /\ \A a \in Space : m1[a] = IF a < data_start \/ a >= data_start + 3 THEN m[a]
              ELSE Peek(m, 16 + IF 16 < data_start THEN (a - data_start) % (data_start - 16)
                                ELSE a - data_start)
    <2>1. m1 = memcpy(m, data_start, 16, 3) /\ m \in [Space -> Int]
      BY <1>1, Layout DEF IsMemory
    <2> HIDE DEF m1
    <2> QED
      BY <2>1, CopyCells
  <1> HIDE DEF m1
  <1>3. /\ m2 \in [Space -> Int]
        /\ \A a \in Space : m2[a] = IF a >= bss_start /\ a < bss_start + (ebss - bss_start)
                                    THEN 0 ELSE m1[a]
    BY <1>2, SetCells
  <1> HIDE DEF m2
  <1>4. g = memset(m2, softvec, NULL, SOFTVEC_SIZE) /\ NULL \in Int
    BY DEF init, m1, m2, NULL
  <1>5. /\ g \in [Space -> Int]
        /\ \A a \in Space : g[a] = IF a >= softvec /\ a < softvec + SOFTVEC_SIZE
                                   THEN NULL ELSE m2[a]
    BY <1>3, <1>4, SetCells
  <1>6. sizeAt \in Space /\ loadbufAt \in Space /\ 18 \in Space /\ 18 \in Rom
    BY Layout
  <1>7. m1[sizeAt] = -1
    <2>1. sizeAt - data_start = 2 /\ 16 < data_start /\ 2 % (data_start - 16) = 2
      BY Layout
    <2>2. m1[sizeAt] = Peek(m, 16 + 2)
      BY <1>2, <1>6, <2>1, Layout
    <2>3. m1[sizeAt] = m[18]
      BY <1>6, <2>2, PeekAt DEF IsMemory
    <2> QED
      BY <1>6, <2>3, RomImageIs DEF IsMemory
  <1>8. g[sizeAt] = -1
    BY <1>3, <1>5, <1>6, <1>7, Layout
  <1>9. g[loadbufAt] = NULL
    BY <1>3, <1>5, <1>6, Layout DEF NULL
  <1>10. ASSUME NEW a \in Rom PROVE g[a] = m[a]
    <2>1. a \in Space /\ a < 19 /\ a < data_start /\ a \in Int
      BY Layout
    <2>2. m1[a] = m[a]
      BY <1>2, <2>1
    <2>3. m2[a] = m1[a]
      BY <1>3, <2>1, Layout
    <2> QED
      BY <1>5, <2>1, <2>2, <2>3, Layout
  <1> QED
    BY <1>5, <1>8, <1>9, <1>10 DEF IsMemory

\* A line that is typed goes to the cells of buf and to no other.
LEMMA GetsCells ==
    ASSUME NEW m, IsMemory(m), NEW line \in Lines, NEW g, g = gets(m, bufAt, Append(line, CR))
    PROVE  IsMemory(g) /\ \A a \in Space : a < bufAt => g[a] = m[a]
  <1> DEFINE typed == Append(line, CR)
             read == [i \in 1..Len(typed) |-> IF getc(typed[i]) = LF THEN NUL ELSE typed[i]]
             end  == CHOOSE n \in 1..Len(read) : /\ read[n] = NUL
                                                 /\ \A k \in 1..(n - 1) : read[k] # NUL
  <1>1. line \in Seq(0..255) /\ Len(line) < BUF_SIZE
    BY BootAssumption
  <1>2. typed \in Seq(0..255) /\ Len(typed) = Len(line) + 1 /\ typed[Len(line) + 1] = CR
    BY <1>1 DEF CR
  <1>3. read \in Seq(Int) /\ Len(read) = Len(line) + 1 /\ read[Len(line) + 1] = NUL
    <2>1. \A i \in 1..Len(typed) : typed[i] \in Int
      <3> HIDE DEF typed
      <3>1. typed \in Seq(0..255)
        BY <1>2
      <3>2. \A i \in 1..Len(typed) : typed[i] \in 0..255
        BY <3>1, ElementOfSeq
      <3>3. 0..255 \subseteq Int
        OBVIOUS
      <3> QED
        BY <3>2, <3>3
    <2>2. \A i \in 1..Len(typed) : (IF getc(typed[i]) = LF THEN NUL ELSE typed[i]) \in Int
      BY <2>1 DEF NUL
    <2>3. read \in [1..Len(typed) -> Int]
      BY <2>2
    <2>4. read \in Seq(Int) /\ Len(read) = Len(typed)
      BY <1>1, <1>2, <2>3
    <2>5. read[Len(line) + 1] = NUL
      BY <1>1, <1>2 DEF getc
    <2> QED
      BY <1>2, <2>4, <2>5
  <1> HIDE DEF read, typed
  <1>4. end \in 1..Len(read)
    <2> DEFINE S == {n \in 1..Len(read) : read[n] = NUL}
    <2>1. S \subseteq Nat /\ S # {}
      BY <1>1, <1>3
    <2>2. PICK n \in S : \A k \in S : n <= k
      BY <2>1, FirstOf
    <2>3. \A k \in 1..(n - 1) : read[k] # NUL
      <3> SUFFICES ASSUME NEW k \in 1..(n - 1), read[k] = NUL PROVE FALSE
        OBVIOUS
      <3>1. n \in Nat /\ n <= Len(read) /\ Len(read) \in Nat /\ k \in S /\ k < n
        BY <1>3
      <3> QED
        BY <2>2, <3>1
    <2> QED
      BY <2>2, <2>3
  <1> HIDE DEF end
  <1> DEFINE cells == SubSeq(read, 1, end)
  <1>5. cells \in Seq(Int) /\ Len(cells) <= BUF_SIZE /\ Len(cells) \in Nat
    BY <1>1, <1>3, <1>4, Layout
  <1>6. g = Store(m, bufAt, cells)
    BY DEF gets, cells, end, read, typed
  <1> HIDE DEF cells
  <1>7. bufAt \in Ram
    BY Layout
  <1>8. \A a \in Space : a < bufAt => ~(a >= bufAt)
    BY Layout
  <1> QED
    BY <1>5, <1>6, <1>7, <1>8, StoreInRam

\* A segment may go anywhere, but the ROM stays.
LEMMA SegmentCells ==
    ASSUME NEW m \in [Space -> Int], NEW b, NEW p
    PROVE  elf_load_program(m, b, p) \in [Space -> Int]
  <1> DEFINE copied == memcpy(m, p.physical_addr, b + p.offset, p.file_size)
  <1>1. copied \in [Space -> Int]
    BY CopyCells
  <1> HIDE DEF copied
  <1>2. memset(copied, p.physical_addr + p.file_size, 0, p.memory_size - p.file_size)
            \in [Space -> Int]
    BY <1>1, SetCells
  <1> QED
    BY <1>2 DEF elf_load_program, copied


-------------------------------------------------------------------------------
(***************************************************************************)
(* What the invariant says of the files and the memory.                    *)
(***************************************************************************)
LEMMA CellsAre == Cells <=> IsMemory(mem)
  BY DEF Cells, IsMemory, Space

LEMMA FileIs ==
    ASSUME NEW f \in Files
    PROVE  /\ f \in Seq(0..255) /\ Len(f) \in Nat /\ Len(f) <= BUFFER_SIZE
           /\ Len(f) % BLOCK_SIZE = 0
           /\ \A i \in 1..Len(f) : f[i] \in 0..255 /\ f[i] \in Int
  <1>1. f \in Seq(0..255) /\ Len(f) <= BUFFER_SIZE /\ Len(f) % BLOCK_SIZE = 0
    BY BootAssumption
  <1>2. \A i \in 1..Len(f) : f[i] \in 0..255
    BY <1>1, ElementOfSeq
  <1>3. \A x \in 0..255 : x \in Int
    OBVIOUS
  <1>4. Len(f) \in Nat
    BY <1>1, LenProperties
  <1>5. \A i \in 1..Len(f) : f[i] \in Int
    BY <1>2, <1>3
  <1> QED
    BY <1>1, <1>2, <1>4, <1>5, SMTT(30)

\* The cells whose values the loader relies on are those below its line.
LEMMA LoaderCells ==
    /\ sizeAt \in Space /\ loadbufAt \in Space /\ sizeAt # loadbufAt
    /\ sizeAt < bufAt /\ loadbufAt < bufAt
    /\ sizeAt \in Ram /\ loadbufAt \in Ram
    /\ \A i \in 1..BUFFER_SIZE : LET a == buffer_start + i - 1
                                 IN  a \in Ram /\ a \in Space /\ a < sizeAt /\ a < bufAt
                                     /\ a # loadbufAt
  BY Layout

\* The empty lines of ROM are no ELF header.
LEMMA RomIsNoElf ==
    ASSUME NEW m, IsMemory(m)
    PROVE  ~elf_check(m, NULL)
  <1> DEFINE s == [i \in 1..4 |-> Peek(m, NULL + HeaderField.magic + i - 1)]
  <1>1. Char(s, 1) = 1
    <2>1. 0 \in Rom /\ 0 \in Space
      BY Layout
    <2>2. RomImage[0] = 1
      BY <2>1, Layout DEF RomImage
    <2>3. Peek(m, 0) = 1
      BY <2>1, <2>2, PeekAt DEF IsMemory
    <2>4. s \in Seq(Int) /\ Len(s) = 4
      <3>1. s \in [1..4 -> Int]
        BY PeekAt DEF IsMemory
      <3> QED
        BY <3>1
    <2>5. s[1] = Peek(m, NULL + HeaderField.magic + 1 - 1)
      OBVIOUS
    <2>6. NULL + HeaderField.magic + 1 - 1 = 0
      BY DEF NULL, HeaderField
    <2> HIDE DEF s
    <2> QED
      BY <2>3, <2>4, <2>5, <2>6 DEF Char
  <1>2. Char(MAGIC, 1) = 127
    BY DEF Char, MAGIC
  <1> HIDE DEF s
  <1>3. FirstDifference(s, MAGIC, 4) = 1
    <2> DEFINE P(i) == /\ i = 4 + 1 \/ Char(s, i) # Char(MAGIC, i)
                       /\ \A j \in 1..(i - 1) : Char(s, j) = Char(MAGIC, j)
    <2>1. 1 \in 1..(4 + 1) /\ P(1)
      BY <1>1, <1>2
    <2>2. \A i \in 1..(4 + 1) : P(i) => i = 1
      <3> SUFFICES ASSUME NEW i \in 1..(4 + 1), P(i), i # 1 PROVE FALSE
        OBVIOUS
      <3>1. 1 \in 1..(i - 1)
        OBVIOUS
      <3> QED
        BY <1>1, <1>2, <3>1
    <2> QED
      BY <2>1, <2>2 DEF FirstDifference
  <1>4. strncmp(s, MAGIC, 4) = -1
    BY <1>1, <1>2, <1>3 DEF strncmp, CompareAt
  <1>5. memcmp(s, MAGIC, 4) # 0
    BY <1>4 DEF memcmp
  <1> QED
    BY <1>5 DEF elf_check, s

\* Only a load changes what the file says of itself.
LEMMA SameFile ==
    ASSUME file' = file
    PROVE  /\ Tidy' = Tidy /\ Loadable' = Loadable
           /\ \A i : Extent(i)' = Extent(i)
           /\ \A i, a : InSegment(i, a)' = InSegment(i, a)
  BY DEF Tidy, WholeElf, Loadable, Extent, InSegment, Field, At


-------------------------------------------------------------------------------
(***************************************************************************)
(* The steps, but those of the ELF loader.                                 *)
(***************************************************************************)
LEMMA StartStep ==
    ASSUME BootInv, Start
    PROVE  BootInv'
  <1>1. /\ IsMemory(mem') /\ mem'[sizeAt] = -1 /\ mem'[loadbufAt] = NULL
    BY InitCells, CellsAre DEF BootInv, Start
  <1>2. Cells' /\ Untouched'
    BY <1>1 DEF Cells, IsMemory, Space, BootInv, Start, Untouched, size, loadbuf
  <1>3. /\ pc' = "prompt" /\ result' = "none" /\ seg' = seg /\ ran' = ran
    BY DEF BootInv, Start
  <1> QED
    BY <1>2, <1>3 DEF BootInv

LEMMA ResetStep ==
    ASSUME BootInv, Reset
    PROVE  BootInv'
  <1>1. pc' = "init" /\ result' = "none" /\ seg' = -1 /\ ~ran' /\ mem' = mem
    BY DEF Reset
  <1>2. Cells'
    BY <1>1 DEF BootInv, Cells
  <1> QED
    BY <1>1, <1>2 DEF BootInv

\* load: nothing has arrived yet.
LEMMA LoadStep ==
    ASSUME BootInv, NEW typed, IsMemory(typed),
           mem' = [typed EXCEPT ![loadbufAt] = buffer_start],
           pc' = "load", result' = "running", file' \in Files, stored' = <<>>,
           seg' = -1, UNCHANGED ran
    PROVE  BootInv'
  <1>1. mem' \in [Space -> Int] /\ mem'[loadbufAt] = buffer_start
    BY LoaderCells, Layout DEF IsMemory
  <1>2. \A a \in Rom : mem'[a] = RomImage[a]
    <2>1. loadbufAt \notin Rom /\ Rom \subseteq Space
      BY Layout
    <2> QED
      BY <2>1 DEF IsMemory
  <1>3. Cells'
    BY <1>1, <1>2 DEF Cells, Space
  <1>4. Arriving'
    <2>1. Len(stored') = 0 /\ SubSeq(file', 1, 0) = <<>>
      BY FileIs
    <2>2. 0 % BLOCK_SIZE = 0 /\ Len(file') >= 0
      BY FileIs, Layout
    <2>3. \A i \in 1..0 : mem'[buffer_start + i - 1] = file'[i]
      OBVIOUS
    <2> QED
      BY <1>1, <2>1, <2>2, <2>3 DEF Arriving, InBuffer, loadbuf
  <1> QED
    BY <1>3, <1>4 DEF BootInv

\* A step that leaves the cells the loader relies on, and the file, keeps what
\* the invariant says of them.
SameCells == /\ mem'[sizeAt] = mem[sizeAt] /\ mem'[loadbufAt] = mem[loadbufAt]
             /\ \A i \in 1..BUFFER_SIZE :
                    mem'[buffer_start + i - 1] = mem[buffer_start + i - 1]

LEMMA WholeKept ==
    ASSUME Whole, SameCells, file' = file, pc' = "run" => buf' = buffer_start
    PROVE  Whole'
  <1>1. size' = size /\ loadbuf' = loadbuf
    BY DEF SameCells, size, loadbuf
  <1>2. \A i \in 1..Len(file) : i \in 1..BUFFER_SIZE
    BY FileIs, Layout DEF Whole
  <1>3. InBuffer(Len(file))'
    BY <1>1, <1>2 DEF SameCells, InBuffer, Whole
  <1> QED
    BY <1>1, <1>3 DEF Whole

\* Any other line: dump, run, or nothing.
LEMMA OtherLineStep ==
    ASSUME BootInv, pc = "prompt", IsMemory(mem'),
           \A a \in Space : a < bufAt => mem'[a] = mem[a],
           pc' \in {"dump", "run", "prompt"}, seg' = -1, buf' = loadbuf,
           UNCHANGED <<file, stored, result, ran>>
    PROVE  BootInv'
  <1>1. Cells'
    BY DEF Cells, IsMemory, Space
  <1>2. SameCells
    BY LoaderCells DEF SameCells
  <1>3. size' = size /\ loadbuf' = loadbuf
    BY <1>2 DEF SameCells, size, loadbuf
  <1>4. result = "none" => Untouched'
    BY <1>3 DEF BootInv, Untouched
  <1>5. ASSUME result = "received", ~ran \/ Tidy PROVE Whole'
    <2>1. Whole
      BY <1>5 DEF BootInv
    <2>2. buf' = buffer_start
      BY <2>1 DEF Whole, InBuffer
    <2> QED
      BY <1>2, <2>1, <2>2, WholeKept
  <1>6. ASSUME result = "received", Tidy PROVE Placed'
    <2>1. Whole /\ file \in Files
      BY <1>6 DEF BootInv, Whole
    <2>2. \A i \in Loadable : ~(i < -1)
      <3>1. At(HeaderField.program_header_num) \in Int
        <4>1. 14 \in 1..Len(file)
          BY <1>6, <2>1, FileIs DEF Tidy, WholeElf, HeaderField
        <4> QED
          BY <2>1, <4>1, FileIs DEF At, HeaderField
      <3> QED
        BY <3>1 DEF Loadable
    <2>3. InPlaceBefore(-1)'
      BY <2>2, SameFile DEF InPlaceBefore
    <2> QED
      BY <2>3 DEF Placed
  <1>7. Tidy' = Tidy
    BY SameFile
  <1> QED
    BY <1>1, <1>3, <1>4, <1>5, <1>6, <1>7 DEF BootInv

LEMMA CommandStep ==
    ASSUME BootInv, Command
    PROVE  BootInv'
  <1>1. PICK line \in Lines : \E typed \in {gets(mem, bufAt, Append(line, CR))} :
          LET is(command) == strcmp(StringAt(typed, bufAt), command) = 0
          IN  \/ /\ is(Load) /\ loads < MAX_LOADS /\ loads' = loads + 1
                 /\ pc' = "load" /\ mem' = [typed EXCEPT ![loadbufAt] = buffer_start]
                 /\ file' \in Files /\ stored' = <<>> /\ result' = "running"
              \/ /\ ~is(Load) /\ mem' = typed
                 /\ pc' = IF is(Dump) THEN "dump" ELSE IF is(Run) THEN "run" ELSE "prompt"
                 /\ UNCHANGED <<file, stored, result, loads>>
    BY DEF Command
  <1> DEFINE typed == gets(mem, bufAt, Append(line, CR))
  <1>2. pc = "prompt" /\ seg' = -1 /\ buf' = loadbuf /\ UNCHANGED ran
    BY DEF Command
  <1>3. IsMemory(typed) /\ \A a \in Space : a < bufAt => typed[a] = mem[a]
    BY GetsCells, CellsAre DEF BootInv
  <1>4. \/ /\ pc' = "load" /\ mem' = [typed EXCEPT ![loadbufAt] = buffer_start]
           /\ file' \in Files /\ stored' = <<>> /\ result' = "running"
        \/ /\ mem' = typed /\ pc' \in {"dump", "run", "prompt"}
           /\ UNCHANGED <<file, stored, result>>
    BY <1>1
  <1> HIDE DEF typed
  <1> QED
    BY <1>2, <1>3, <1>4, LoadStep, OtherLineStep


\* Where the next block goes: behind what has arrived, inside the buffer.
LEMMA RoomForBlock ==
    ASSUME BootInv, pc = "load", Len(stored) < Len(file)
    PROVE  /\ file \in Files /\ Len(stored) \in Nat /\ BLOCK_SIZE \in Nat
           /\ Len(stored) + BLOCK_SIZE <= Len(file)
           /\ (Len(stored) + BLOCK_SIZE) % BLOCK_SIZE = 0
           /\ loadbuf = buffer_start /\ buffer_start + Len(stored) \in Ram
           /\ buffer_start + Len(stored) + BLOCK_SIZE <= data_start
  <1>1. /\ file \in Files /\ Len(stored) % BLOCK_SIZE = 0 /\ loadbuf = buffer_start
        /\ stored = SubSeq(file, 1, Len(stored)) /\ Len(stored) <= Len(file)
    BY DEF BootInv, Arriving, InBuffer
  <1>2. file \in Seq(0..255) /\ Len(file) \in Nat /\ Len(file) <= BUFFER_SIZE
        /\ Len(file) % BLOCK_SIZE = 0 /\ BLOCK_SIZE \in Nat \ {0}
    BY <1>1, FileIs, Layout
  <1>3. Len(stored) \in Nat
    BY <1>1, <1>2
  <1>4. /\ Len(stored) + BLOCK_SIZE <= Len(file)
        /\ (Len(stored) + BLOCK_SIZE) % BLOCK_SIZE = 0
    BY <1>1, <1>2, <1>3, NextBlock
  <1> QED
    BY <1>1, <1>2, <1>3, <1>4, Layout

LEMMA BlockStoredStep ==
    ASSUME BootInv, BlockStored
    PROVE  BootInv'
  <1> DEFINE n == Len(stored)
             cells == SubSeq(file, n + 1, n + BLOCK_SIZE)
  <1>1. /\ pc = "load" /\ n < Len(file) /\ pc' = pc /\ file' = file /\ result' = result
        /\ stored' = SubSeq(file, 1, n + BLOCK_SIZE)
        /\ mem' = Store(mem, loadbuf + n, cells)
        /\ seg' = seg /\ ran' = ran
    BY DEF BlockStored, transfer!Arrive, Block
  <1>2. /\ file \in Files /\ n \in Nat /\ BLOCK_SIZE \in Nat /\ n + BLOCK_SIZE <= Len(file)
        /\ (n + BLOCK_SIZE) % BLOCK_SIZE = 0
        /\ loadbuf = buffer_start /\ buffer_start + n \in Ram
        /\ buffer_start + n + BLOCK_SIZE <= data_start
    BY <1>1, RoomForBlock
  <1>3. /\ IsMemory(mem) /\ \A i \in 1..n : mem[buffer_start + i - 1] = file[i]
        /\ result = "running"
    BY <1>1, CellsAre DEF BootInv, Arriving, InBuffer
  <1> HIDE DEF n
  <1>4. /\ cells \in Seq(Int) /\ Len(cells) = BLOCK_SIZE
        /\ \A k \in 1..BLOCK_SIZE : cells[k] = file[n + k]
    <2>1. file \in Seq(Int) /\ Len(file) \in Nat
      <3>1. file \in Seq(0..255) /\ Len(file) \in Nat /\ \A i \in 1..Len(file) : file[i] \in Int
        BY <1>2, FileIs
      <3>2. file = [i \in 1..Len(file) |-> file[i]]
        BY <3>1
      <3> QED
        BY <3>1, <3>2
    <2> QED
      BY <1>2, <2>1
  <1> HIDE DEF cells
  <1>5. /\ IsMemory(mem')
        /\ \A a \in Space : mem'[a] = IF a >= buffer_start + n
                                         /\ a < buffer_start + n + BLOCK_SIZE
                                      THEN cells[a - (buffer_start + n) + 1] ELSE mem[a]
    BY <1>1, <1>2, <1>3, <1>4, StoreInRam
  <1>6. mem'[loadbufAt] = mem[loadbufAt]
    BY <1>2, <1>5, LoaderCells, Layout
  <1>7. Len(stored') = n + BLOCK_SIZE /\ stored' = SubSeq(file, 1, Len(stored'))
    <2>1. file \in Seq(0..255) /\ Len(file) \in Nat
      BY <1>2, FileIs
    <2> QED
      BY <1>1, <1>2, <2>1
  <1>8. ASSUME NEW i \in 1..(n + BLOCK_SIZE)
        PROVE  mem'[buffer_start + i - 1] = file[i]
    <2> DEFINE a == buffer_start + i - 1
    <2>1. a \in Space /\ a \in Int
      BY <1>2, Layout
    <2>2. CASE i <= n
      <3>1. ~(a >= buffer_start + n)
        BY <1>2, <2>2, Layout
      <3>2. mem'[a] = mem[a]
        BY <1>5, <2>1, <3>1
      <3>3. i \in 1..n
        BY <1>2, <2>2
      <3>4. mem[buffer_start + i - 1] = file[i]
        BY <1>3, <3>3
      <3> QED
        BY <3>2, <3>4
    <2>3. CASE i > n
      <3>1. a >= buffer_start + n /\ a < buffer_start + n + BLOCK_SIZE
        BY <1>2, <2>3, Layout
      <3>2. a - (buffer_start + n) + 1 = i - n /\ i - n \in 1..BLOCK_SIZE /\ n + (i - n) = i
        BY <1>2, <2>3, Layout
      <3>3. mem'[a] = cells[i - n]
        BY <1>5, <2>1, <3>1, <3>2
      <3> QED
        BY <1>4, <3>2, <3>3
    <2> QED
      BY <1>2, <2>2, <2>3
  <1>9. Arriving'
    <2>1. loadbuf' = buffer_start
      BY <1>2, <1>6 DEF loadbuf
    <2>2. \A i \in 1..Len(stored') : mem'[buffer_start + i - 1] = file'[i]
      BY <1>1, <1>7, <1>8
    <2>3. Len(stored') <= Len(file') /\ Len(stored') % BLOCK_SIZE = 0
      BY <1>1, <1>2, <1>7
    <2>4. stored' = SubSeq(file', 1, Len(stored')) /\ file' \in Files
      BY <1>1, <1>2, <1>7
    <2> QED
      BY <2>1, <2>2, <2>3, <2>4 DEF Arriving, InBuffer
  <1>10. Cells'
    BY <1>5 DEF Cells, IsMemory, Space
  <1> QED
    BY <1>1, <1>3, <1>9, <1>10 DEF BootInv

\* A block that is refused spoils only cells that nothing has arrived in.
LEMMA BlockRefusedStep ==
    ASSUME BootInv, BlockRefused
    PROVE  BootInv'
  <1>1. PICK k \in {1, BLOCK_SIZE} : mem' = Block([i \in 1..k |-> JUNK])
    BY DEF BlockRefused
  <1> DEFINE n == Len(stored)
             cells == [i \in 1..k |-> JUNK]
  <1>2. /\ pc = "load" /\ n < Len(file) /\ UNCHANGED <<pc, file, stored, result, seg, ran>>
        /\ mem' = Store(mem, loadbuf + n, cells) /\ result = "running"
    BY <1>1 DEF BlockRefused, Block
  <1>3. /\ file \in Files /\ n \in Nat /\ BLOCK_SIZE \in Nat \ {0}
        /\ loadbuf = buffer_start /\ buffer_start + n \in Ram
        /\ buffer_start + n + BLOCK_SIZE <= data_start
    BY <1>2, RoomForBlock, Layout
  <1>4. /\ IsMemory(mem) /\ \A i \in 1..n : mem[buffer_start + i - 1] = file[i]
        /\ n <= BUFFER_SIZE
    BY <1>2, <1>3, CellsAre, Layout DEF BootInv, Arriving, InBuffer
  <1>5. cells \in Seq(Int) /\ Len(cells) = k /\ k \in Nat /\ k <= BLOCK_SIZE
    <2>1. k \in Nat /\ k <= BLOCK_SIZE
      BY <1>3
    <2>2. cells \in [1..k -> Int]
      BY DEF JUNK
    <2> QED
      BY <2>1, <2>2
  <1> HIDE DEF n, cells
  <1>6. /\ IsMemory(mem')
        /\ \A a \in Space : a < buffer_start + n \/ a >= data_start => mem'[a] = mem[a]
    <2>1. /\ IsMemory(mem')
          /\ \A a \in Space : mem'[a] = IF a >= buffer_start + n /\ a < buffer_start + n + k
                                        THEN cells[a - (buffer_start + n) + 1] ELSE mem[a]
      BY <1>2, <1>3, <1>4, <1>5, StoreInRam
    <2>2. \A a \in Space : a < buffer_start + n \/ a >= data_start =>
              ~(a >= buffer_start + n /\ a < buffer_start + n + k)
      BY <1>3, <1>5, Layout
    <2> QED
      BY <2>1, <2>2
  <1>7. mem'[loadbufAt] = mem[loadbufAt]
    BY <1>6, LoaderCells, Layout
  <1>8. \A i \in 1..n : mem'[buffer_start + i - 1] = mem[buffer_start + i - 1]
    <2>1. \A i \in 1..n : buffer_start + i - 1 \in Space /\ buffer_start + i - 1 < buffer_start + n
      BY <1>3, <1>4, Layout
    <2> QED
      BY <1>6, <2>1
  <1>9. Arriving'
    <2>1. loadbuf' = buffer_start
      BY <1>3, <1>7 DEF loadbuf
    <2>2. \A i \in 1..n : mem'[buffer_start + i - 1] = file'[i]
      BY <1>2, <1>4, <1>8
    <2>3. \A i \in 1..Len(stored') : mem'[buffer_start + i - 1] = file'[i]
      BY <1>2, <2>2 DEF n
    <2>4. /\ file' \in Files /\ Len(stored') <= Len(file') /\ Len(stored') % BLOCK_SIZE = 0
          /\ stored' = SubSeq(file', 1, Len(stored'))
      BY <1>2 DEF BootInv, Arriving
    <2> QED
      BY <2>1, <2>3, <2>4 DEF Arriving, InBuffer
  <1>10. Cells'
    BY <1>6 DEF Cells, IsMemory, Space
  <1> QED
    BY <1>2, <1>9, <1>10 DEF BootInv

\* The end of a load: the size is that of the file, or none.
LEMMA ReceivedStep ==
    ASSUME BootInv, Received
    PROVE  BootInv'
  <1>1. /\ pc = "load" /\ pc' = "prompt" /\ file' = file /\ stored' = stored
        /\ result = "running" /\ seg' = seg /\ ran' = ran
        /\ mem' = [mem EXCEPT ![sizeAt] = IF result' = "received" THEN Len(stored) ELSE -1]
        /\ (result' = "received" /\ stored = file) \/ result' = "aborted"
    BY DEF Received, transfer!Succeed, transfer!Fail
  <1>2. /\ IsMemory(mem) /\ Arriving /\ file \in Files
        /\ \A i \in 1..Len(stored) : mem[buffer_start + i - 1] = file[i]
        /\ loadbuf = buffer_start /\ Len(stored) <= Len(file)
        /\ stored = SubSeq(file, 1, Len(stored))
    BY <1>1, CellsAre DEF BootInv, Arriving, InBuffer
  <1>3. Len(stored) \in Nat /\ Len(file) <= BUFFER_SIZE
    <2>1. file \in Seq(0..255) /\ Len(file) \in Nat /\ Len(file) <= BUFFER_SIZE
      BY <1>2, FileIs
    <2> QED
      BY <1>2, <2>1
  <1> DEFINE v == IF result' = "received" THEN Len(stored) ELSE -1
  <1>4. v \in Int
    BY <1>3
  <1>5. mem' = [mem EXCEPT ![sizeAt] = v]
    BY <1>1
  <1>6. v = IF result' = "received" THEN Len(stored) ELSE -1
    OBVIOUS
  <1> HIDE DEF v
  <1>7. /\ mem' \in [Space -> Int] /\ mem'[sizeAt] = v
        /\ \A a \in Space : a # sizeAt => mem'[a] = mem[a]
    BY <1>2, <1>4, <1>5, LoaderCells DEF IsMemory
  <1>8. Cells'
    <2>1. \A a \in Rom : a \in Space /\ a # sizeAt
      BY Layout
    <2> QED
      BY <1>2, <1>7, <2>1 DEF Cells, IsMemory, Space
  <1>9. loadbuf' = loadbuf /\ size' = v
    BY <1>7, LoaderCells DEF loadbuf, size
  <1>10. ASSUME result' = "received" PROVE Whole'
    <2>1. stored = file /\ Len(stored) = Len(file)
      BY <1>1, <1>10
    <2>2. \A i \in 1..Len(file) : mem'[buffer_start + i - 1] = file[i]
      <3> SUFFICES ASSUME NEW i \in 1..Len(file)
                   PROVE  mem'[buffer_start + i - 1] = file[i]
        OBVIOUS
      <3>1. i \in 1..BUFFER_SIZE
        BY <1>3, <2>1, Layout
      <3>2. buffer_start + i - 1 \in Space /\ buffer_start + i - 1 # sizeAt
        BY <3>1, LoaderCells, Layout
      <3> QED
        BY <1>2, <1>7, <2>1, <3>2
    <2>3. InBuffer(Len(file))'
      BY <1>1, <1>2, <1>9, <2>2 DEF InBuffer
    <2> QED
      BY <1>1, <1>2, <1>6, <1>9, <1>10, <2>1, <2>3 DEF Whole
  <1>11. result' = "aborted" => size' = -1
    BY <1>6, <1>9
  <1> QED
    BY <1>1, <1>8, <1>10, <1>11 DEF BootInv, Placed

LEMMA DumpStep ==
    ASSUME BootInv, DumpBuffer
    PROVE  BootInv'
  <1>1. pc = "dump" /\ pc' = "prompt" /\ UNCHANGED <<mem, buf, seg, file, stored, result, ran>>
    BY DEF DumpBuffer
  <1>2. Cells' /\ size' = size /\ loadbuf' = loadbuf
    BY <1>1 DEF BootInv, Cells, size, loadbuf
  <1>3. result = "none" => Untouched'
    BY <1>1, <1>2 DEF BootInv, Untouched
  <1>4. ASSUME result = "received", ~ran \/ Tidy PROVE Whole'
    BY <1>1, <1>4, WholeKept DEF BootInv, SameCells
  <1>5. Tidy' = Tidy
    BY <1>1, SameFile
  <1> QED
    BY <1>1, <1>2, <1>3, <1>4, <1>5 DEF BootInv, Placed

-------------------------------------------------------------------------------
(***************************************************************************)
(* The steps of the ELF loader.  While the file is whole in the buffer,    *)
(* what it reads of the headers is what the file says.                     *)
(***************************************************************************)
LEMMA BufferIsFile ==
    ASSUME BootInv, Whole, NEW k \in Nat, k < Len(file)
    PROVE  Peek(mem, buffer_start + k) = At(k) /\ At(k) \in Nat
  <1>1. file \in Files /\ \A i \in 1..Len(file) : mem[buffer_start + i - 1] = file[i]
    BY DEF Whole, InBuffer
  <1>2. Len(file) \in Nat /\ Len(file) <= BUFFER_SIZE /\ \A i \in 1..Len(file) : file[i] \in 0..255
    BY <1>1, FileIs
  <1>3. k + 1 \in 1..Len(file) /\ k + 1 \in 1..BUFFER_SIZE
    BY <1>2, Layout
  <1>4. mem[buffer_start + (k + 1) - 1] = At(k) /\ At(k) \in 0..255
    BY <1>1, <1>2, <1>3 DEF At
  <1>5. buffer_start + (k + 1) - 1 = buffer_start + k /\ buffer_start + k \in Space
    BY <1>3, Layout
  <1>6. \A x \in 0..255 : x \in Nat
    OBVIOUS
  <1> QED
    BY <1>4, <1>5, <1>6, PeekAt, CellsAre DEF BootInv, IsMemory

\* The number of segments, and each program header, as the file has them.
LEMMA HeadersAre ==
    ASSUME BootInv, Whole, WholeElf, pc = "run"
    PROVE  /\ buf = buffer_start
           /\ Segments = At(HeaderField.program_header_num)
           /\ At(HeaderField.program_header_num) \in Nat
           /\ \A i \in 0..(At(HeaderField.program_header_num) - 1) :
                 \A f \in DOMAIN ProgramField :
                     /\ pheader(mem, buf, i)[f] = Field(i, f)
                     /\ Field(i, f) \in Nat
  <1>1. buf = buffer_start /\ buffer_start \in Nat
    BY Layout DEF Whole
  <1>2. /\ HeaderField.program_header_num = 13 /\ HeaderField.program_header_offset = 11
        /\ HeaderField.program_header_size = 12 /\ ProgramField.memory_size = 4
        /\ DOMAIN ProgramField = {"type", "offset", "physical_addr", "file_size", "memory_size"}
        /\ \A f \in DOMAIN ProgramField : ProgramField[f] \in 0..4
    BY DEF HeaderField, ProgramField
  <1>3. 13 < Len(file) /\ Len(file) \in Nat
    BY <1>2, FileIs DEF WholeElf, Whole
  <1>4. \A k \in {11, 12, 13} : Peek(mem, buffer_start + k) = At(k) /\ At(k) \in Nat
    BY <1>3, BufferIsFile
  <1>5. Segments = At(13) /\ At(13) \in Nat
    BY <1>1, <1>2, <1>4 DEF Segments, header
  <1>6. ASSUME NEW i \in 0..(At(13) - 1), NEW f \in DOMAIN ProgramField
        PROVE  pheader(mem, buf, i)[f] = Field(i, f) /\ Field(i, f) \in Nat
    <2> DEFINE at == buffer_start + At(11) + At(12) * i
               k  == At(11) + i * At(12) + ProgramField[f]
    <2>1. /\ At(11) \in Nat /\ At(12) \in Nat /\ i \in Nat /\ ProgramField[f] \in Nat
          /\ ProgramField[f] <= 4
      BY <1>2, <1>4, <1>5
    <2>2. i * At(12) \in Nat /\ At(12) * i = i * At(12)
      BY <2>1
    <2>3. At(11) + i * At(12) + 4 < Len(file)
      BY <1>2 DEF WholeElf
    <2>4. k \in Nat /\ k < Len(file) /\ at + ProgramField[f] = buffer_start + k
      <3> DEFINE o == At(11)
                 x == i * At(12)
                 d == ProgramField[f]
      <3>1. at = buffer_start + o + x /\ k = o + x + d
        BY <2>2
      <3>2. o \in Nat /\ x \in Nat /\ d \in Nat /\ d <= 4 /\ o + x + 4 < Len(file)
        BY <2>1, <2>2, <2>3
      <3> HIDE DEF at, k, o, x, d
      <3>3. k \in Nat /\ k < Len(file) /\ at + d = buffer_start + k
        BY <1>1, <1>3, <3>1, <3>2
      <3> QED
        BY <3>3 DEF d
    <2>5. pheader(mem, buf, i)[f] = Peek(mem, at + ProgramField[f])
      BY <1>1, <1>2, <1>4 DEF pheader, header
    <2>6. Field(i, f) = At(k)
      BY <1>2 DEF Field
    <2> HIDE DEF at, k
    <2> QED
      BY <2>4, <2>5, <2>6, BufferIsFile
  <1> QED
    BY <1>1, <1>2, <1>5, <1>6

\* A tidy segment fills its own cells, with its data and then zeros.
LEMMA SegmentPlaced ==
    ASSUME BootInv, Whole, Tidy, pc = "run", NEW s \in Loadable,
           NEW g, g = elf_load_program(mem, buf, pheader(mem, buf, s))
    PROVE  /\ g \in [Space -> Int]
           /\ \A a \in Space : g[a] = IF a \in Extent(s) THEN InSegment(s, a) ELSE mem[a]
  <1> DEFINE p   == pheader(mem, buf, s)
             pa  == Field(s, "physical_addr")
             fs  == Field(s, "file_size")
             ms  == Field(s, "memory_size")
             off == Field(s, "offset")
  <1>1. /\ buf = buffer_start /\ buffer_start \in Nat
        /\ s \in 0..(At(HeaderField.program_header_num) - 1)
        /\ \A f \in DOMAIN ProgramField : p[f] = Field(s, f) /\ Field(s, f) \in Nat
    BY HeadersAre, Layout DEF Tidy, Loadable
  <1>2. /\ p.type = Field(s, "type") /\ p.physical_addr = pa /\ p.file_size = fs
        /\ p.memory_size = ms /\ p.offset = off
        /\ pa \in Nat /\ fs \in Nat /\ ms \in Nat /\ off \in Nat
    BY <1>1 DEF ProgramField
  <1>3. /\ p.type = 1 /\ fs <= ms /\ off + fs <= Len(file)
        /\ Extent(s) = pa..(pa + ms - 1) /\ Extent(s) \subseteq program..(buffer_start - 1)
    BY <1>2 DEF Loadable, Tidy, WholeElf, Extent
  <1>4. file \in Files /\ Len(file) \in Nat
    BY FileIs DEF Whole
  <1>5. \A a : InSegment(s, a) = IF a - pa < fs THEN At(off + (a - pa)) ELSE 0
    BY DEF InSegment
  <1>6. mem \in [Space -> Int]
    BY CellsAre DEF BootInv, IsMemory
  <1> DEFINE src    == buffer_start + off
             copied == memcpy(mem, pa, src, fs)
  <1>7. g = memset(copied, pa + fs, 0, ms - fs)
    BY <1>1, <1>2, <1>3 DEF elf_load_program
  <1> HIDE DEF pa, fs, ms, off, p
  <1>8. /\ copied \in [Space -> Int]
        /\ \A a \in Space : copied[a] = IF a < pa \/ a >= pa + fs THEN mem[a]
              ELSE Peek(mem, src + IF src < pa THEN (a - pa) % (pa - src) ELSE a - pa)
    BY <1>6, CopyCells
  <1>9. src \in Nat /\ src = buffer_start + off
    BY <1>1, <1>2
  <1> HIDE DEF copied, src
  <1>10. /\ g \in [Space -> Int]
         /\ \A a \in Space : g[a] = IF a >= pa + fs /\ a < pa + fs + (ms - fs)
                                    THEN 0 ELSE copied[a]
    BY <1>7, <1>8, SetCells
  <1>11. ASSUME NEW a \in Space
         PROVE  g[a] = IF a \in Extent(s) THEN InSegment(s, a) ELSE mem[a]
    <2>1. a \in Int
      BY Layout
    <2>2. CASE a < pa \/ a >= pa + ms
      <3>1. a \notin Extent(s)
        BY <1>2, <1>3, <2>1, <2>2
      <3>2. copied[a] = mem[a]
        BY <1>2, <1>3, <1>8, <2>1, <2>2
      <3>3. ~(a >= pa + fs /\ a < pa + fs + (ms - fs))
        BY <1>2, <1>3, <2>1, <2>2
      <3> QED
        BY <1>10, <3>1, <3>2, <3>3
    <2>3. CASE a >= pa + fs /\ a < pa + ms
      <3>1. a \in Extent(s) /\ ~(a - pa < fs)
        BY <1>2, <1>3, <2>1, <2>3
      <3>2. a >= pa + fs /\ a < pa + fs + (ms - fs)
        BY <1>2, <2>1, <2>3
      <3> QED
        BY <1>5, <1>10, <3>1, <3>2
    <2>4. CASE a >= pa /\ a < pa + fs
      <3> DEFINE k == off + (a - pa)
      <3>1. a \in Extent(s) /\ a - pa < fs
        BY <1>2, <1>3, <2>1, <2>4
      <3>2. ~(src < pa)
        <4>1. pa \in Extent(s)
          BY <1>2, <1>3, <2>1, <2>4
        <4>2. pa <= buffer_start - 1
          BY <1>3, <4>1, Layout
        <4> QED
          BY <1>1, <1>2, <1>9, <4>2
      <3>3. copied[a] = Peek(mem, src + (a - pa))
        BY <1>2, <1>8, <2>1, <2>4, <3>2
      <3>4. k \in Nat /\ k < Len(file) /\ src + (a - pa) = buffer_start + k
        BY <1>1, <1>2, <1>3, <1>4, <1>9, <2>1, <2>4
      <3>5. copied[a] = At(k)
        <4> HIDE DEF k
        <4> QED
          BY <3>3, <3>4, BufferIsFile
      <3>6. ~(a >= pa + fs)
        BY <1>2, <2>1, <2>4
      <3> QED
        BY <1>5, <1>10, <3>1, <3>5, <3>6
    <2> QED
      BY <1>2, <1>3, <2>1, <2>2, <2>3, <2>4
  <1> QED
    BY <1>10, <1>11

LEMMA CheckElfStep ==
    ASSUME BootInv, CheckElf
    PROVE  BootInv'
  <1>1. pc = "run" /\ seg = -1 /\ UNCHANGED <<mem, buf, file, stored, result>>
    BY DEF CheckElf
  <1>2. Cells' /\ size' = size /\ loadbuf' = loadbuf /\ SameCells
    BY <1>1 DEF BootInv, Cells, size, loadbuf, SameCells
  <1>3. Tidy' = Tidy
    BY <1>1, SameFile
  <1>4. ASSUME result = "received", ~ran \/ Tidy PROVE Whole'
    <2>1. Whole
      BY <1>4 DEF BootInv
    <2> QED
      BY <1>1, <1>2, <2>1, WholeKept DEF Whole
  <1>5. CASE elf_check(mem, buf)
    <2>1. seg' = 0 /\ ran' /\ pc' = pc
      BY <1>5 DEF CheckElf
    <2>2. result # "none"
      <3> SUFFICES ASSUME result = "none" PROVE FALSE
        OBVIOUS
      <3>1. buf = NULL /\ IsMemory(mem)
        BY <1>1, CellsAre DEF BootInv, Untouched
      <3> QED
        BY <1>5, <3>1, RomIsNoElf
    <2>3. ASSUME result = "received", Tidy PROVE Placed'
      <3>1. Whole
        BY <2>3 DEF BootInv
      <3>2. At(HeaderField.program_header_num) \in Nat
        BY <1>1, <3>1, HeadersAre, <2>3 DEF Tidy
      <3>3. \A i \in Loadable : ~(i < 0)
        BY <3>2 DEF Loadable
      <3>4. Loadable' = Loadable
        BY <1>1, SameFile
      <3> QED
        BY <1>1, <2>1, <3>3, <3>4 DEF Placed, InPlaceBefore
    <2> QED
      BY <1>1, <1>2, <1>3, <1>4, <2>1, <2>2, <2>3 DEF BootInv
  <1>6. CASE ~elf_check(mem, buf)
    <2>1. pc' = "prompt" /\ seg' = seg /\ ran' = ran
      BY <1>6 DEF CheckElf
    <2>2. result = "none" => Untouched'
      BY <1>1, <1>2, <2>1 DEF BootInv, Untouched
    <2> QED
      BY <1>1, <1>2, <1>3, <1>4, <2>1, <2>2 DEF BootInv, Placed
  <1> QED
    BY <1>5, <1>6

\* The next segment of a tidy file goes to its place, and nothing else moves.
LEMMA TidySegmentStep ==
    ASSUME BootInv, Whole, Tidy, LoadSegment, InPlaceBefore(seg)
    PROVE  /\ SameCells
           /\ \A i \in Loadable : i < seg + 1 =>
                 \A a \in Extent(i) : mem'[a] = InSegment(i, a)
  <1> DEFINE g == elf_load_program(mem, buf, pheader(mem, buf, seg))
             Moves(a) == seg \in Loadable /\ a \in Extent(seg)
  <1>1. pc = "run" /\ seg \in 0..(Segments - 1) /\ mem' = Written(g)
    BY DEF LoadSegment
  <1>2. /\ Segments = At(HeaderField.program_header_num)
        /\ At(HeaderField.program_header_num) \in Nat
        /\ pheader(mem, buf, seg).type = Field(seg, "type")
    BY <1>1, HeadersAre DEF Tidy, ProgramField
  <1>3. seg \in 0..(At(HeaderField.program_header_num) - 1) /\ seg \in Int
    BY <1>1, <1>2
  <1>4. IsMemory(mem)
    BY CellsAre DEF BootInv
  <1>5. /\ g \in [Space -> Int]
        /\ \A a \in Space : g[a] = IF Moves(a) THEN InSegment(seg, a) ELSE mem[a]
    <2>1. CASE seg \in Loadable
      BY <1>1, <2>1, SegmentPlaced
    <2>2. CASE seg \notin Loadable
      <3>1. Field(seg, "type") # 1
        BY <1>3, <2>2 DEF Loadable
      <3>2. g = mem
        BY <1>2, <3>1 DEF elf_load_program
      <3> QED
        BY <1>4, <2>2, <3>2 DEF IsMemory
    <2> QED
      BY <2>1, <2>2
  <1> HIDE DEF g
  <1>6. /\ \A i \in Loadable : Extent(i) \subseteq program..(buffer_start - 1)
        /\ \A i, j \in Loadable : i # j => Extent(i) \cap Extent(j) = {}
    BY DEF Tidy
  <1>7. \A a \in Ram : mem'[a] = IF Moves(a) THEN InSegment(seg, a) ELSE mem[a]
    <2>1. \A a \in Ram : a \in Space
      BY DEF Space
    <2> QED
      BY <1>1, <1>5, <2>1, WrittenCells
  <1>8. \A i \in Loadable : \A a \in Extent(i) : a \in Ram /\ a < buffer_start
    <2>1. \A a \in program..(buffer_start - 1) : a \in Ram /\ a < buffer_start
      BY Layout
    <2> QED
      BY <1>6, <2>1
  <1>9. \A a \in Ram : a >= buffer_start => mem'[a] = mem[a]
    <2>1. \A a \in Ram : ~(a >= buffer_start /\ a < buffer_start)
      BY Layout
    <2> QED
      BY <1>7, <1>8, <2>1
  <1>10. SameCells
    <2>1. /\ sizeAt >= buffer_start /\ loadbufAt >= buffer_start
          /\ \A i \in 1..BUFFER_SIZE : buffer_start + i - 1 >= buffer_start
      BY Layout
    <2> QED
      BY <1>9, <2>1, LoaderCells DEF SameCells
  <1>11. ASSUME NEW i \in Loadable, i < seg + 1, NEW a \in Extent(i)
         PROVE  mem'[a] = InSegment(i, a)
    <2>1. CASE i = seg
      BY <1>7, <1>8, <1>11, <2>1
    <2>2. CASE i # seg
      <3>1. i < seg
        <4>1. i \in Int
          BY <1>2, <1>11 DEF Loadable
        <4> QED
          BY <1>3, <1>11, <2>2, <4>1
      <3>2. ~Moves(a)
        BY <1>6, <1>11, <2>2
      <3> QED
        BY <1>7, <1>8, <1>11, <3>1, <3>2 DEF InPlaceBefore
    <2> QED
      BY <2>1, <2>2
  <1> QED
    BY <1>10, <1>11

LEMMA LoadSegmentStep ==
    ASSUME BootInv, LoadSegment
    PROVE  BootInv'
  <1> DEFINE g == elf_load_program(mem, buf, pheader(mem, buf, seg))
  <1>1. /\ pc = "run" /\ seg \in 0..(Segments - 1) /\ mem' = Written(g) /\ seg' = seg + 1
        /\ UNCHANGED <<pc, buf, file, stored, result, ran>>
    BY DEF LoadSegment
  <1>2. ran /\ seg \in Int /\ seg >= 0 /\ seg' \in Int /\ seg' >= 0
    BY <1>1 DEF BootInv
  <1>3. result # "none"
    BY <1>1, <1>2 DEF BootInv, Untouched
  <1>4. Cells'
    <2>1. mem \in [Space -> Int]
      BY CellsAre DEF BootInv, IsMemory
    <2>2. g \in [Space -> Int]
      BY <2>1, SegmentCells
    <2> HIDE DEF g
    <2>3. IsMemory(mem')
      BY <1>1, <2>2, WrittenCells
    <2> QED
      BY <2>3 DEF Cells, IsMemory, Space
  <1>5. /\ Tidy' = Tidy /\ Loadable' = Loadable
        /\ \A i : Extent(i)' = Extent(i)
        /\ \A i, a : InSegment(i, a)' = InSegment(i, a)
    BY <1>1, SameFile
  <1>6. ASSUME result = "received", Tidy PROVE Whole' /\ Placed'
    <2>1. Whole /\ InPlaceBefore(seg)
      BY <1>1, <1>6 DEF BootInv, Placed
    <2>2. /\ SameCells
          /\ \A i \in Loadable : i < seg + 1 =>
                \A a \in Extent(i) : mem'[a] = InSegment(i, a)
      BY <1>6, <2>1, TidySegmentStep
    <2>3. Whole'
      BY <1>1, <2>1, <2>2, WholeKept DEF Whole
    <2>4. \A i \in Loadable' : i < seg' =>
                \A a \in Extent(i)' : mem'[a] = InSegment(i, a)'
      BY <1>1, <1>5, <2>2
    <2> QED
      BY <1>1, <2>3, <2>4 DEF Placed, InPlaceBefore
  <1> HIDE DEF g
  <1> QED
    BY <1>1, <1>2, <1>3, <1>4, <1>5, <1>6 DEF BootInv

LEMMA StartProgramStep ==
    ASSUME BootInv, StartProgram
    PROVE  BootInv'
  <1>1. /\ pc = "run" /\ pc' \in {"prompt", "started"} /\ seg >= 0 /\ seg >= Segments
        /\ UNCHANGED <<mem, buf, seg, file, stored, result, ran>>
    BY DEF StartProgram
  <1>2. Cells' /\ size' = size /\ loadbuf' = loadbuf /\ SameCells
    BY <1>1 DEF BootInv, Cells, size, loadbuf, SameCells
  <1>3. result # "none"
    BY <1>1 DEF BootInv, Untouched
  <1>4. ASSUME result = "received", ~ran \/ Tidy PROVE Whole'
    BY <1>1, <1>2, <1>4, WholeKept DEF BootInv
  <1>5. /\ Tidy' = Tidy /\ Loadable' = Loadable
        /\ \A i : Extent(i)' = Extent(i)
        /\ \A i, a : InSegment(i, a)' = InSegment(i, a)
    BY <1>1, SameFile
  <1>6. ASSUME result = "received", Tidy PROVE InPlace'
    <2>1. Whole /\ InPlaceBefore(seg)
      BY <1>1, <1>6 DEF BootInv, Placed
    <2>2. At(HeaderField.program_header_num) \in Nat
          /\ seg >= At(HeaderField.program_header_num) /\ seg \in Int
      BY <1>1, <1>6, <2>1, HeadersAre DEF Tidy, BootInv
    <2>3. \A i \in Loadable : i < seg
      BY <2>2 DEF Loadable
    <2>4. \A i \in Loadable : \A a \in Extent(i) : mem[a] = InSegment(i, a)
      BY <2>1, <2>3 DEF InPlaceBefore
    <2>5. \A i \in Loadable' : \A a \in Extent(i)' : mem'[a] = InSegment(i, a)'
      BY <1>1, <1>5, <2>4
    <2> QED
      BY <2>5 DEF InPlace
  <1>7. ASSUME result = "received", Tidy, pc' = "started" PROVE EntryShown'
    <2>1. Whole /\ WholeElf /\ IsMemory(mem)
      BY <1>1, <1>7, CellsAre DEF BootInv, Tidy
    <2>2. HeaderField.entry_point = 10 /\ HeaderField.program_header_num = 13
      BY DEF HeaderField
    <2>3. 10 < Len(file)
      BY <2>1, <2>2, FileIs DEF WholeElf, Whole
    <2>4. buf = buffer_start
      BY <1>1, <2>1 DEF Whole
    <2>5. Entry = At(HeaderField.entry_point)
      BY <2>1, <2>2, <2>3, <2>4, BufferIsFile DEF Entry, header
    <2>6. out' = putxval(Entry, 0) \o puts(<<LF>>)
      BY <1>1, <1>7 DEF StartProgram
    <2>7. At(HeaderField.entry_point)' = At(HeaderField.entry_point)
      BY <1>1 DEF At
    <2> QED
      BY <2>5, <2>6, <2>7 DEF EntryShown
  <1> QED
    BY <1>1, <1>2, <1>3, <1>4, <1>5, <1>6, <1>7 DEF BootInv, Placed

-------------------------------------------------------------------------------
(***************************************************************************)
(* The invariant, and what follows from it.                                *)
(***************************************************************************)
LEMMA InitInv ==
    ASSUME Init
    PROVE  BootInv
  <1>1. mem = [a \in Space |-> IF a \in Rom THEN RomImage[a] ELSE JUNK]
    BY DEF Init, Space
  <1>2. Rom \subseteq Space /\ JUNK \in Int /\ \A a \in Rom : RomImage[a] \in Int
    BY RomImageIs DEF Space, JUNK
  <1>3. Cells
    BY <1>1, <1>2 DEF Cells, Space
  <1> QED
    BY <1>3 DEF Init, BootInv

LEMMA StepInv ==
    ASSUME BootInv, [Next]_vars
    PROVE  BootInv'
  <1>1. CASE Next
    <2>1. CASE Start
      BY <2>1, StartStep
    <2>2. CASE Command
      BY <2>2, CommandStep
    <2>3. CASE Loading
      BY <2>3, BlockStoredStep, ReceivedStep DEF Loading
    <2>4. CASE BlockRefused
      BY <2>4, BlockRefusedStep
    <2>5. CASE DumpBuffer
      BY <2>5, DumpStep
    <2>6. CASE Running
      BY <2>6, CheckElfStep, LoadSegmentStep, StartProgramStep DEF Running
    <2>7. CASE Reset
      BY <2>7, ResetStep
    <2> QED
      BY <1>1, <2>1, <2>2, <2>3, <2>4, <2>5, <2>6, <2>7 DEF Next
  <1>2. CASE UNCHANGED vars
    <2>1. UNCHANGED <<pc, mem, buf, seg, out, file, stored, result, ran>>
      BY <1>2 DEF vars
    <2>2. (Tidy' = Tidy) /\ (InPlace' = InPlace) /\ (InPlaceBefore(seg)' = InPlaceBefore(seg))
      BY <2>1 DEF Tidy, WholeElf, InPlace, InPlaceBefore, Loadable, Extent, InSegment, Field, At
    <2>3. (Cells' = Cells) /\ (size' = size) /\ (loadbuf' = loadbuf)
      BY <2>1 DEF Cells, size, loadbuf
    <2>4. (Arriving' = Arriving) /\ (Untouched' = Untouched) /\ (Whole' = Whole)
      BY <2>1, <2>3 DEF Arriving, InBuffer, Untouched, Whole
    <2>5. Placed' = Placed
      BY <2>1, <2>2 DEF Placed, EntryShown, At
    <2> QED
      BY <2>1, <2>2, <2>3, <2>4, <2>5 DEF BootInv
  <1> QED
    BY <1>1, <1>2

\* The inductive invariant: what the memory, the file and the command under way have
\* to do with each other in every state the boot loader reaches.
THEOREM BootInvariant == Spec => []BootInv
  <1>1. Init => BootInv
    BY InitInv
  <1>2. BootInv /\ [Next]_vars => BootInv'
    BY StepInv
  <1> QED
    BY <1>1, <1>2, PTL DEF Spec

\* The buffer, cell by cell, is the file.
LEMMA BufferHoldsFile ==
    ASSUME Whole
    PROVE  loadbuf = buffer_start /\ size = Len(file) /\ SubSeq(Buffer, 1, size) = file
  <1>1. /\ file \in Files /\ size = Len(file) /\ loadbuf = buffer_start
        /\ \A i \in 1..Len(file) : mem[buffer_start + i - 1] = file[i]
    BY DEF Whole, InBuffer
  <1>2. /\ file \in Seq(0..255) /\ Len(file) \in Nat /\ Len(file) <= BUFFER_SIZE
        /\ BUFFER_SIZE \in Nat
    BY <1>1, FileIs, Layout
  <1>3. \A i \in 1..Len(file) : Buffer[i] = file[i]
    <2>1. \A i \in 1..Len(file) : i \in 1..BUFFER_SIZE
      BY <1>2
    <2>2. \A i \in 1..BUFFER_SIZE : Buffer[i] = mem[buffer_start + i - 1]
      BY DEF Buffer
    <2> QED
      BY <1>1, <2>1, <2>2
  <1>4. SubSeq(Buffer, 1, Len(file)) = [i \in 1..Len(file) |-> Buffer[i]]
    BY <1>2
  <1>5. file = [i \in 1..Len(file) |-> file[i]]
    BY <1>2
  <1> QED
    BY <1>1, <1>3, <1>4, <1>5

\* What dump and run trust: wherever they may start, a size is that of the last file
\* received, and that file is in the buffer as it was sent.
THEOREM SizeTrusted == Spec => []SizeMatchesBuffer
  <1>1. BootInv => SizeMatchesBuffer
    <2> SUFFICES ASSUME BootInv, pc \in {"prompt", "dump"}, ~ran, size >= 0
                 PROVE  Whole
      BY BufferHoldsFile DEF SizeMatchesBuffer
    <2>1. result # "none"
      BY DEF BootInv, Untouched
    <2>2. result # "running" /\ result # "aborted"
      BY DEF BootInv
    <2> QED
      BY <2>1, <2>2 DEF BootInv
  <1> QED
    BY <1>1, BootInvariant, PTL

\* After a reset, and until a load is asked for, there is no size, no buffer and
\* nothing that can be started, although the RAM was not cleared.
THEOREM ResetIsForgotten == Spec => []ResetForgets
  <1>1. BootInv => ResetForgets
    BY DEF BootInv, Untouched, ResetForgets
  <1> QED
    BY <1>1, BootInvariant, PTL

\* When a tidy file is started, every segment is where its header says, data and
\* zeros, the file is still in the buffer, and its entry point is the one shown.
THEOREM SegmentsInPlace == Spec => []RunsWhatWasLoaded
  <1>1. BootInv => RunsWhatWasLoaded
    BY BufferHoldsFile DEF BootInv, Placed, RunsWhatWasLoaded, Loaded
  <1> QED
    BY <1>1, BootInvariant, PTL

===============================================================================
