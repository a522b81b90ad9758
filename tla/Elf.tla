---------------------------------- MODULE Elf ----------------------------------
(***************************************************************************)
(* The ELF loader (bootload/elf.c) over a memory.  Every field of a header *)
(* that the loader reads is one cell; the others have none.                *)
(***************************************************************************)
EXTENDS Lib

MAGIC == <<127, 69, 76, 70>>

\* Offsets in struct elf_header and struct elf_program_header.
HeaderField  == [magic |-> 0, class |-> 4, format |-> 5, id_version |-> 6, type |-> 7,
                 arch |-> 8, version |-> 9, entry_point |-> 10,
                 program_header_offset |-> 11, program_header_size |-> 12,
                 program_header_num |-> 13]
ProgramField == [type |-> 0, offset |-> 1, physical_addr |-> 2, file_size |-> 3,
                 memory_size |-> 4]

header(m, buf, f) == Peek(m, buf + HeaderField[f])

elf_check(m, buf) ==
    LET is(f, n) == header(m, buf, f) = n
    IN  /\ memcmp([i \in 1..4 |-> Peek(m, buf + HeaderField.magic + i - 1)], MAGIC, 4) = 0
        /\ is("class", 1) /\ is("format", 2) /\ is("id_version", 1)
        /\ is("type", 2) /\ is("version", 1)
        /\ is("arch", 46) \/ is("arch", 47)

\* A program header is read where it lies, when its turn comes.
pheader(m, buf, i) ==
    LET at == buf + header(m, buf, "program_header_offset")
                  + header(m, buf, "program_header_size") * i
    IN  [f \in DOMAIN ProgramField |-> Peek(m, at + ProgramField[f])]

\* Mutant of elf_load_program: the whole of memory_size is cleared after the data.
elf_load_programClears(m, buf, p) ==
    IF p.type # 1 THEN m
    ELSE memset(memcpy(m, p.physical_addr, buf + p.offset, p.file_size),
                p.physical_addr + p.file_size, 0, p.memory_size)

\* One turn of its loop, for the program header p: memcpy, and memset of the rest.
elf_load_program(m, buf, p) ==
    IF p.type # 1 THEN m
    ELSE memset(memcpy(m, p.physical_addr, buf + p.offset, p.file_size),
                p.physical_addr + p.file_size, 0, p.memory_size - p.file_size)

================================================================================
