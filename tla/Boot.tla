---------------------------------- MODULE Boot ---------------------------------
(***************************************************************************)
(* The boot loader (bootload/main.c): initialisation, and the commands     *)
(* load, dump and run over the memory they share.  A load is a transfer as *)
(* Transfer specifies it, which Xmodem implements.  The variables of the   *)
(* loader are cells of that memory, laid out as in ld.scr; a reset leaves  *)
(* the RAM as it is.  Messages and the echo of the line are left out.      *)
(***************************************************************************)
EXTENDS Elf

CONSTANTS SOFTVEC_SIZE, PROGRAM_SIZE, BUFFER_SIZE,  \* of ld.scr
          BUF_SIZE,                                 \* of the line buffer: 16 in the code
          BLOCK_SIZE,
          Files, Lines,       \* what the user sends and types
          MAX_LOADS, MAX_RESETS                     \* bounds

\* The user keeps to the size of both buffers, which nothing checks.
ASSUME BootAssumption ==
    /\ {SOFTVEC_SIZE, PROGRAM_SIZE, BUFFER_SIZE, BUF_SIZE, BLOCK_SIZE} \subseteq Nat \ {0}
    /\ \A f \in Files : /\ f \in Seq(0..255)
                        /\ Len(f) <= BUFFER_SIZE /\ Len(f) % BLOCK_SIZE = 0
    /\ \A l \in Lines : l \in Seq(0..255) /\ Len(l) < BUF_SIZE

\* ROM: the vectors, then the initial values of global_data, static_data and size.
DataImage == <<16, 32, -1>>
VECTORS   == 16
erodata   == VECTORS
softvec      == erodata + Len(DataImage)
program      == softvec + SOFTVEC_SIZE        \* RAM that nothing of the loader uses
buffer_start == program + PROGRAM_SIZE
data_start   == buffer_start + BUFFER_SIZE
edata        == data_start + Len(DataImage)
bss_start    == edata                         \* global_bss, static_bss, loadbuf, buf
ebss         == bss_start + 3 + BUF_SIZE

sizeAt    == data_start + 2
loadbufAt == bss_start + 2
bufAt     == bss_start + 3
NULL      == 0
JUNK      == 170        \* in RAM before anything is stored, and in a block that is refused
Rom  == 0..(softvec - 1)
Ram  == softvec..(ebss - 1)

RomImage == [a \in Rom |-> IF a < erodata THEN 1 ELSE DataImage[a - erodata + 1]]

VARIABLES
    pc,             \* where main is
    mem,
    buf, seg,       \* header and i of elf_load_program, -1 before its loop
    out,            \* what the last command printed, the wording of messages aside
    file, stored, result,       \* the transfer; result is "none" before the first one
    ran,            \* whether segments have been copied since the last reset
    loads, resets   \* counted for the bounds

vars == <<pc, mem, buf, seg, out, file, stored, result, ran, loads, resets>>

transfer == INSTANCE Transfer

size    == mem[sizeAt]
loadbuf == mem[loadbufAt]
\* ROM keeps what it has.
Written(m) == [a \in DOMAIN m |-> IF a \in Rom THEN RomImage[a] ELSE m[a]]

Init ==
    /\ pc = "init" /\ buf = NULL /\ seg = -1 /\ out = <<>>
    /\ mem = [a \in Rom \cup Ram |-> IF a \in Rom THEN RomImage[a] ELSE JUNK]
    /\ file = <<>> /\ stored = <<>> /\ result = "none"
    /\ ran = FALSE /\ loads = 0 /\ resets = 0

\* Mutant of init: .bss is not cleared.
initKeepsBss(m) ==
    memset(memcpy(m, data_start, erodata, edata - data_start), softvec, NULL, SOFTVEC_SIZE)

\* init: .data from ROM, .bss, and the software vectors.
init(m) ==
    memset(memset(memcpy(m, data_start, erodata, edata - data_start),
                  bss_start, 0, ebss - bss_start),
           softvec, NULL, SOFTVEC_SIZE)

Start ==
    /\ pc = "init" /\ pc' = "prompt" /\ mem' = init(mem)
    /\ UNCHANGED <<buf, seg, out, file, stored, result, ran, loads, resets>>

\* gets, and the commands it is compared with.
Load == <<108, 111, 97, 100>>
Dump == <<100, 117, 109, 112>>
Run  == <<114, 117, 110>>

Command ==
    /\ pc = "prompt" /\ out' = <<>>
    /\ \E line \in Lines : \E typed \in {gets(mem, bufAt, Append(line, CR))} :
        LET is(command) == strcmp(StringAt(typed, bufAt), command) = 0
        IN  \/ /\ is(Load) /\ loads < MAX_LOADS /\ loads' = loads + 1
               /\ pc' = "load" /\ mem' = [typed EXCEPT ![loadbufAt] = buffer_start]
               /\ file' \in Files /\ stored' = <<>> /\ result' = "running"
            \/ /\ ~is(Load) /\ mem' = typed
               /\ pc' = IF is(Dump) THEN "dump" ELSE IF is(Run) THEN "run" ELSE "prompt"
               /\ UNCHANGED <<file, stored, result, loads>>
    /\ seg' = -1 /\ buf' = loadbuf /\ UNCHANGED <<ran, resets>>

\* xmodem_recv stores a block, or some of a block it then refuses.
Block(cells) == Store(mem, loadbuf + Len(stored), cells)
BlockStored ==
    /\ pc = "load" /\ transfer!Arrive
    /\ mem' = Block(SubSeq(file, Len(stored) + 1, Len(stored) + BLOCK_SIZE))
    /\ UNCHANGED <<pc, buf, seg, out, ran, loads, resets>>
BlockRefused ==
    /\ pc = "load" /\ result = "running" /\ Len(stored) < Len(file)
    /\ \E n \in {1, BLOCK_SIZE} : mem' = Block([i \in 1..n |-> JUNK])
    /\ UNCHANGED <<pc, buf, seg, out, file, stored, result, ran, loads, resets>>

\* Mutant of Received: an error leaves the size of the last file.
ReceivedKeepsSize ==
    /\ pc = "load" /\ (transfer!Succeed \/ transfer!Fail)
    /\ mem' = [mem EXCEPT ![sizeAt] = IF result' = "received" THEN Len(stored) ELSE @]
    /\ pc' = "prompt" /\ UNCHANGED <<buf, seg, out, ran, loads, resets>>

\* Mutant of Received: the size counts one block more.
ReceivedOneMore ==
    /\ pc = "load" /\ (transfer!Succeed \/ transfer!Fail)
    /\ mem' = [mem EXCEPT ![sizeAt] = IF result' = "received" THEN Len(stored) + BLOCK_SIZE
                                      ELSE -1]
    /\ pc' = "prompt" /\ UNCHANGED <<buf, seg, out, ran, loads, resets>>

\* It returns the size, or a negative one.
Received ==
    /\ pc = "load" /\ (transfer!Succeed \/ transfer!Fail)
    /\ mem' = [mem EXCEPT ![sizeAt] = IF result' = "received" THEN Len(stored) ELSE -1]
    /\ pc' = "prompt" /\ UNCHANGED <<buf, seg, out, ran, loads, resets>>

\* dump: two digits a cell, wider after the 8th of a row, a line after the 16th.
Gap(i) == IF i % 16 = 15 THEN puts(<<LF>>) ELSE IF i % 16 = 7 THEN <<SPACE, SPACE>> ELSE <<>>
dump(m, b, n) ==
    LET text[i \in 0..n] == IF i = 0 THEN <<>>
                            ELSE text[i - 1] \o putxval(m[b + i - 1], 2) \o Gap(i - 1)
    IN  IF n < 0 THEN <<>> ELSE text[n] \o puts(<<LF>>)
DumpBuffer ==
    /\ pc = "dump" /\ pc' = "prompt"
    /\ out' = putxval(size, 0) \o puts(<<LF>>) \o dump(mem, loadbuf, size)
    /\ UNCHANGED <<mem, buf, seg, file, stored, result, ran, loads, resets>>

\* run: elf_load checks the header, loads the segments and gives the entry point;
\* the program takes over.
CheckElf ==
    /\ pc = "run" /\ seg = -1
    /\ IF elf_check(mem, buf) THEN seg' = 0 /\ ran' = TRUE /\ UNCHANGED pc
                                  ELSE pc' = "prompt" /\ UNCHANGED <<seg, ran>>
    /\ UNCHANGED <<mem, buf, out, file, stored, result, loads, resets>>

Segments == header(mem, buf, "program_header_num")

\* Mutant of LoadSegment: a segment that is not loaded is not passed either.
LoadSegmentStuck ==
    /\ pc = "run" /\ seg \in 0..(Segments - 1)
    /\ \E p \in {pheader(mem, buf, seg)} :
            /\ mem' = Written(elf_load_program(mem, buf, p))
            /\ seg' = IF p.type = 1 THEN seg + 1 ELSE seg
    /\ UNCHANGED <<pc, buf, out, file, stored, result, ran, loads, resets>>

LoadSegment ==
    /\ pc = "run" /\ seg \in 0..(Segments - 1)
    /\ \E p \in {pheader(mem, buf, seg)} : mem' = Written(elf_load_program(mem, buf, p))
    /\ seg' = seg + 1
    /\ UNCHANGED <<pc, buf, out, file, stored, result, ran, loads, resets>>

Entry == header(mem, buf, "entry_point")
StartProgram ==
    /\ pc = "run" /\ seg >= 0 /\ seg >= Segments
    /\ pc' = IF Entry = NULL THEN "prompt" ELSE "started"
    /\ out' = IF Entry = NULL THEN out ELSE putxval(Entry, 0) \o puts(<<LF>>)
    /\ UNCHANGED <<mem, buf, seg, file, stored, result, ran, loads, resets>>

\* The reset button, at any time.
Reset ==
    /\ resets < MAX_RESETS /\ resets' = resets + 1
    /\ pc' = "init" /\ out' = <<>> /\ buf' = NULL /\ seg' = -1
    /\ file' = <<>> /\ stored' = <<>> /\ result' = "none"
    /\ ran' = FALSE /\ UNCHANGED <<mem, loads>>

Loading == BlockStored \/ Received
Running == CheckElf \/ LoadSegment \/ StartProgram
Next == Start \/ Command \/ Loading \/ BlockRefused \/ DumpBuffer \/ Running \/ Reset
Spec == Init /\ [][Next]_vars

\* The processor goes on; a transfer ends because xmodem_recv does (TransferEnds).
FairSpec == Spec /\ WF_vars(Start \/ DumpBuffer \/ Running) /\ WF_vars(Loading)

================================================================================
