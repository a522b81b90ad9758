---------------------------------- MODULE Lib ----------------------------------
(***************************************************************************)
(* The library of the boot loader and of the kernel (lib.c, the same file  *)
(* in both), as operators.  A memory is a function from addresses to       *)
(* cells; a string is the sequence of its characters without the 0.        *)
(***************************************************************************)
EXTENDS Integers, Sequences, FiniteSets, SequencesExt

Peek(m, a) == IF a \in DOMAIN m THEN m[a] ELSE 0
Store(m, at, cells) == [a \in DOMAIN m |-> IF a >= at /\ a < at + Len(cells)
                                           THEN cells[a - at + 1] ELSE m[a]]

\* From the first cell to the last: a copy upwards onto itself repeats its beginning.
memcpy(m, dst, src, len) ==
    [a \in DOMAIN m |->
        IF a < dst \/ a >= dst + len THEN m[a]
        ELSE Peek(m, src + IF src < dst THEN (a - dst) % (dst - src) ELSE a - dst)]

memset(m, b, c, len) == [a \in DOMAIN m |-> IF a >= b /\ a < b + len THEN c ELSE m[a]]

\* The loops of the comparisons stop at the first position that differs, at the
\* end of both strings, or after len characters.
Char(s, i) == IF i \in 1..Len(s) THEN s[i] ELSE 0
CompareAt(s1, s2, i) == IF Char(s1, i) = Char(s2, i) THEN 0
                        ELSE IF Char(s1, i) > Char(s2, i) THEN 1 ELSE -1
FirstDifference(s1, s2, len) ==
    CHOOSE i \in 1..(len + 1) : /\ i = len + 1 \/ Char(s1, i) # Char(s2, i)
                                /\ \A j \in 1..(i - 1) : Char(s1, j) = Char(s2, j)

strncmp(s1, s2, len) ==
    LET i == FirstDifference(s1, s2, len)
    IN  IF i > len THEN 0 ELSE CompareAt(s1, s2, i)

memcmp(b1, b2, len) == strncmp(b1, b2, len)
strcmp(s1, s2) == strncmp(s1, s2, Len(s1) + Len(s2))

\* The string at an address of a memory, its length, and a copy of it with its 0.
strlen(m, s) == CHOOSE n \in 0..Cardinality(DOMAIN m) :
                    /\ Peek(m, s + n) = 0
                    /\ \A k \in 0..(n - 1) : Peek(m, s + k) # 0
StringAt(m, s) == [i \in 1..strlen(m, s) |-> m[s + i - 1]]
strcpy(m, dst, src) == memcpy(m, dst, src, strlen(m, src) + 1)

\* Characters, as codes.
NUL   == 0
LF    == 10
CR    == 13
SPACE == 32

putc(c) == IF c = LF THEN <<CR, LF>> ELSE <<c>>
puts(s) == FlattenSeq([i \in 1..Len(s) |-> putc(s[i])])

\* The hexadecimal digits of an unsigned long: as many as it has, column at least, and one.
Digit(value, k) == LET d == (value \div 16^k) % 16 IN IF d < 10 THEN 48 + d ELSE 87 + d

\* Mutant of putxval: no leading zeros.
putxvalShort(value, column) ==
    LET last[k \in 0..8] ==
          IF k = 0 THEN <<>>
          ELSE (IF k = 1 \/ value \div 16^(k - 1) # 0 THEN <<Digit(value, k - 1)>> ELSE <<>>)
                 \o last[k - 1]
    IN  last[8]

putxval(value, column) ==
    LET last[k \in 0..8] ==
          IF k = 0 THEN <<>>
          ELSE (IF k = 1 \/ k <= column \/ value \div 16^(k - 1) # 0
                THEN <<Digit(value, k - 1)>> ELSE <<>>) \o last[k - 1]
    IN  last[8]

\* The memory after a line has been typed: a CR or an LF ends it.
getc(c) == IF c = CR THEN LF ELSE c
gets(m, buf, typed) ==
    LET read == [i \in 1..Len(typed) |-> IF getc(typed[i]) = LF THEN NUL ELSE typed[i]]
        end  == CHOOSE n \in 1..Len(read) : /\ read[n] = NUL
                                            /\ \A k \in 1..(n - 1) : read[k] # NUL
    IN  Store(m, buf, SubSeq(read, 1, end))

================================================================================
