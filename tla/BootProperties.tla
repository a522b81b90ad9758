---------------------------- MODULE BootProperties -----------------------------
(***************************************************************************)
(* What the boot loader promises the user who loads and starts a program.  *)
(***************************************************************************)
EXTENDS Boot

\* The file that the last load command received whole.
Loaded == result = "received" /\ size >= 0

Buffer == [i \in 1..BUFFER_SIZE |-> mem[buffer_start + i - 1]]

(***************************************************************************)
(* Every variable keeps its type, and until a program is copied into the   *)
(* memory the loader's own cells have the values it gives them: nothing    *)
(* that is typed, loaded or dumped runs over them.                         *)
(***************************************************************************)
BootTypeOK ==
    /\ pc \in {"init", "prompt", "load", "dump", "run", "started"}
    /\ mem \in [Rom \cup Ram -> -1..255]
    /\ \A a \in Rom : mem[a] = RomImage[a]
    /\ buf \in {NULL, buffer_start} /\ seg \in -1..255
    /\ out \in Seq(0..255)
    /\ file \in Files \cup {<<>>} /\ IsPrefix(stored, file)
    /\ result \in {"none", "running", "received", "aborted"}
    /\ loads \in 0..MAX_LOADS /\ resets \in 0..MAX_RESETS
    /\ ran \in BOOLEAN
    /\ pc # "init" /\ ~ran =>
            /\ SubSeq([i \in 1..3 |-> mem[data_start + i - 1]], 1, 2) = SubSeq(DataImage, 1, 2)
            /\ mem[bss_start] = 0 /\ mem[bss_start + 1] = 0
            /\ size \in -1..BUFFER_SIZE /\ loadbuf \in {NULL, buffer_start}
            /\ \A a \in softvec..(program - 1) : mem[a] = NULL

(***************************************************************************)
(* dump and run trust size and loadbuf: a size is there only if the buffer *)
(* holds the file of that size, as it was sent, whatever loads failed      *)
(* halfway and whenever the board was reset.                               *)
(***************************************************************************)
SizeMatchesBuffer ==
    pc \in {"prompt", "dump"} /\ ~ran /\ size >= 0 =>
        /\ loadbuf = buffer_start /\ size = Len(file)
        /\ SubSeq(Buffer, 1, size) = file

(***************************************************************************)
(* A reset forgets the last load although the RAM still holds it: until    *)
(* the next load there is nothing to dump and no buffer to run.            *)
(***************************************************************************)
ResetForgets ==
    result = "none" /\ pc # "init" => size = -1 /\ loadbuf = NULL /\ pc # "started"

\* What a dump shows, read back: its digits two by two, after the line with the size.
Value(c) == IF c < 58 THEN c - 48 ELSE c - 87
ReadBack(text) ==
    LET lines  == SelectSeq(text, LAMBDA c : c \notin {CR, SPACE})
        end    == CHOOSE i \in 1..Len(lines) : /\ lines[i] = LF
                                              /\ \A j \in 1..(i - 1) : lines[j] # LF
        digits == SelectSeq(SubSeq(lines, end, Len(lines)), LAMBDA c : c # LF)
    IN  [i \in 1..(Len(digits) \div 2) |->
            16 * Value(digits[2 * i - 1]) + Value(digits[2 * i])]

(***************************************************************************)
(* A dump shows the file that was received, every cell of it and nothing   *)
(* else.                                                                   *)
(***************************************************************************)
DumpShowsFile ==
    [][pc = "dump" /\ pc' = "prompt" /\ ~ran =>
          ReadBack(out') = IF Loaded THEN file ELSE <<>>]_vars

\* The program of a file: its loadable segments as <<address, offset, data, memory>>.
At(k) == file[k + 1]
Field(i, f) == At(At(HeaderField.program_header_offset)
                  + i * At(HeaderField.program_header_size) + ProgramField[f])
Loadable == {i \in 0..(At(HeaderField.program_header_num) - 1) : Field(i, "type") = 1}
Extent(i) == Field(i, "physical_addr")..(Field(i, "physical_addr") + Field(i, "memory_size") - 1)
InSegment(i, a) == LET k == a - Field(i, "physical_addr")
                   IN  IF k < Field(i, "file_size") THEN At(Field(i, "offset") + k) ELSE 0

\* Its headers, and what its segments have of data, lie in the file.
WholeElf ==
    /\ HeaderField.program_header_num < Len(file)
    /\ \A i \in 0..(At(HeaderField.program_header_num) - 1) :
            At(HeaderField.program_header_offset) + i * At(HeaderField.program_header_size)
                + ProgramField.memory_size < Len(file)
    /\ \A i \in Loadable : /\ Field(i, "file_size") <= Field(i, "memory_size")
                           /\ Field(i, "offset") + Field(i, "file_size") <= Len(file)

\* And the segments lie apart, in the RAM the loader does not use.
Tidy == /\ WholeElf
        /\ \A i \in Loadable : Extent(i) \subseteq program..(buffer_start - 1)
        /\ \A i, j \in Loadable : i # j => Extent(i) \cap Extent(j) = {}

EntryShown == out = putxval(At(HeaderField.entry_point), 0) \o puts(<<LF>>)
InPlace == \A i \in Loadable : \A a \in Extent(i) : mem[a] = InSegment(i, a)

(***************************************************************************)
(* A program is started as its file says: every segment is in its place,   *)
(* with its data and its zeros whatever the order of the headers, control  *)
(* goes to its entry point, and the file and the loader are still there.   *)
(***************************************************************************)
RunsWhatWasLoaded ==
    pc = "started" /\ Loaded /\ Tidy =>
        /\ InPlace
        /\ SubSeq(Buffer, 1, size) = file
        /\ EntryShown

(***************************************************************************)
(* The invariant behind SizeMatchesBuffer, ResetForgets and                *)
(* RunsWhatWasLoaded.  A load under way has stored what has arrived; the   *)
(* file received is in the buffer until a segment is copied that is not    *)
(* tidy; the segments passed are in their places.                          *)
(***************************************************************************)
Cells == mem \in [Rom \cup Ram -> Int] /\ \A a \in Rom : mem[a] = RomImage[a]

InBuffer(n) == loadbuf = buffer_start /\ \A i \in 1..n : mem[buffer_start + i - 1] = file[i]
Arriving == /\ file \in Files
            /\ Len(stored) <= Len(file) /\ Len(stored) % BLOCK_SIZE = 0
            /\ stored = SubSeq(file, 1, Len(stored))
            /\ InBuffer(Len(stored))

InPlaceBefore(n) ==
    \A i \in Loadable : i < n => \A a \in Extent(i) : mem[a] = InSegment(i, a)

Untouched == /\ ~ran /\ size = -1 /\ loadbuf = NULL
             /\ pc # "started" /\ (pc = "run" => buf = NULL)
Whole == /\ file \in Files /\ size = Len(file) /\ InBuffer(Len(file))
         /\ pc = "run" => buf = buffer_start
Placed == /\ pc = "run" => InPlaceBefore(seg)
          /\ pc = "started" => InPlace /\ EntryShown

BootInv ==
    /\ pc \in {"init", "prompt", "load", "dump", "run", "started"}
    /\ result \in {"none", "running", "received", "aborted"}
    /\ Cells
    /\ seg \in Int /\ seg >= -1 /\ (seg >= 0 => ran)
    /\ pc = "init" => result = "none" /\ ~ran
    /\ pc = "load" <=> result = "running"
    /\ pc = "load" => Arriving
    /\ result = "none" /\ pc # "init" => Untouched
    /\ result = "aborted" /\ ~ran => size = -1
    /\ result = "received" /\ (~ran \/ Tidy) => Whole
    /\ result = "received" /\ Tidy => Placed

(***************************************************************************)
(* Every command ends: with the prompt, the program or a reset.            *)
(***************************************************************************)
CommandsEnd == pc \in {"load", "dump", "run"} ~> pc \in {"prompt", "started", "init"}

================================================================================
