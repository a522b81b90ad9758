-------------------------------- MODULE MCBoot ---------------------------------
(***************************************************************************)
(* Files of blocks of ten cells for a buffer of forty.  With the sizes of *)
(* MCBoot.cfg the program area is 21..28 and the buffer 29..68.            *)
(***************************************************************************)
EXTENDS BootProperties

Header(phnum, arch) == MAGIC \o <<1, 2, 1, 2, arch, 1, 21, 14, 5, phnum>>

\* Data and zeros, the second segment right below the first; it ends with padding.
TwoSegments == Header(2, 46) \o <<1, 24, 25, 2, 4>> \o <<1, 26, 21, 1, 4>>
                             \o <<201, 202, 203, 26, 26, 26>>
\* One to be skipped before one to be loaded; as long as the buffer.
FullBuffer  == Header(3, 47) \o <<6, 0, 21, 5, 5>> \o <<1, 32, 23, 6, 6>> \o <<1, 29, 21, 2, 2>>
                             \o <<1, 2, 3>> \o <<10, 240, 26, 9, 0, 255, 26, 26>>
\* The first segment is copied over the header of the second.
Overlaps    == Header(2, 46) \o <<1, 24, 46, 4, 6>> \o <<1, 26, 21, 1, 4>>
                             \o <<1, 25, 22, 2, 26, 26>>
NoElf       == Header(1, 45) \o <<1, 19, 21, 1, 1>> \o <<7>>

MCFiles == {TwoSegments, FullBuffer, Overlaps, NoElf, <<>>}

\* The commands, a beginning of one, a longer one, and an empty line.
MCLines == {Load, Dump, Run, SubSeq(Load, 1, 3), Append(Run, 115), <<>>}

(***************************************************************************)
(* The library, against what its functions are for, on short strings.      *)
(***************************************************************************)
Strings == UNION {[1..n -> 1..3] : n \in 0..3}
Small   == [a \in 1..6 |-> a]

CellByCell(d, s, n) ==
    LET done[k \in 0..n] == IF k = 0 THEN Small
                            ELSE [done[k - 1] EXCEPT ![d + k - 1] = done[k - 1][s + k - 1]]
    IN  done[n]

ASSUME LibMeaning ==
    /\ \A s, t \in Strings :
            /\ strcmp(s, t) = 0 <=> s = t
            /\ strcmp(s, t) = -strcmp(t, s)
            /\ \A n \in 0..4 : strncmp(s, t, n) = 0 <=>
                    SubSeq(s, 1, IF n < Len(s) THEN n ELSE Len(s))
                        = SubSeq(t, 1, IF n < Len(t) THEN n ELSE Len(t))
    /\ \A s \in Strings :
            LET m == gets([a \in 1..8 |-> 9], 1, Append(s, CR))
            IN  /\ StringAt(m, 1) = s /\ strlen(m, 1) = Len(s)
                /\ StringAt(strcpy(m, 5, 1), 5) = s
    /\ \A d, s \in 1..6, n \in 0..3 :
            d + n <= 7 /\ s + n <= 7 => memcpy(Small, d, s, n) = CellByCell(d, s, n)
    /\ putxval(0, 0) = <<48>> /\ putxval(-1, 0) = [i \in 1..8 |-> 102]
    /\ putxval(160, 0) = <<97, 48>>

================================================================================
