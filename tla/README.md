# Verification of kozos

kozos is a small operating system for the H8/3069F (a 16-bit-`int` H8/300H with
three serial channels), built along the book "12 steps to an embedded OS".  A
boot loader in ROM (`src/src/bootload`) receives an ELF image by XMODEM and
starts it; the image is the OS (`src/src/os`): a cooperative fixed-priority
kernel with messages and a block allocator, a console driver and a command
thread.  A host program, `src/src/tools/h8write`, puts the boot loader into the
ROM.

This directory holds TLA+ models of that code, the TLC configurations that
check them on small instances, and TLAPS proofs, for every value of the
constants: of the invariants and the refinement of the kernel and of the XMODEM
receiver, and of invariants of the console, the boot loader and the flash writer.

## 1. Inventory

### Ready queues and scheduler (`os/kozos.c` 68-123, 438-453)

*State.* `current`; `readyque[p].head/tail`; in each TCB `next`, `priority`,
`flags` (the READY bit).
*Operations.* `getcurrent` (unlink the current thread from the **head** of its
queue, without looking whether it is there), `putcurrent` (append it, once),
`schedule` (take the head of the first non-empty queue, or go down).
*Hard.* Every handler retargets `current` in the middle; the operations are
right only if the thread that is taken off is the head.
*Correct when* queue p always links exactly the READY threads of priority p;
the thread that runs is the head of the best queue; queues are FIFO and an
interrupt does not cost a thread its turn; no READY thread starves behind
threads of its own priority.

### System calls and threads (`os/kozos.c` 126-264, 361-435, 456-529; `os/syscall.c`)

*State.* `threads[]` (a TCB is free when `init.func` is NULL), the parameter
block of the call a thread is in, which lies **on its stack**, `handlers[]`.
*Operations.* `kz_run, kz_exit, kz_wait, kz_sleep, kz_wakeup, kz_getid,
kz_chpri, kz_kmalloc, kz_kmfree, kz_send, kz_recv, kz_setintr`; from handlers
`kx_wakeup, kx_kmalloc, kx_kmfree, kx_send`; a fault (`softerr_intr`); the
device interrupt (`thread_intr`); `kz_start`; `kz_sysdown`.
*Interaction.* A call traps with interrupts masked; `syscall_proc` takes the
caller off its queue, the handler decides whether it goes back, `thread_intr`
schedules and dispatches.  A service call sets `current` to NULL instead and
returns to its handler.
*Correct when* no thread is forgotten: whoever is not READY can still be woken
or sent to; a thread that runs again has the answer of its call.

### Messages (`os/kozos.c` 45-65, 267-357)

*State.* Per box the blocked receiver and a linked queue of `kz_msgbuf`, which
are heap blocks.
*Operations.* `sendmsg`, `recvmsg`; `thread_send` hands a message to a waiting
receiver by queueing and dequeueing it in one call.
*Correct when* messages are FIFO, neither lost nor duplicated, and keep sender
and payload; the receiver of a box really waits in `kz_recv` on it, since
`recvmsg` writes through its parameter block.

### Dynamic memory (`os/memory.c`)

*State.* Three pools with LIFO free lists linked through 6-byte headers.
*Operations.* `kzmem_init`, `kzmem_alloc` (first pool that fits, **or down**),
`kzmem_free` (pool chosen by the size in the header).
*Correct when* every block has one owner at any time.

### Interrupt entry (`bootload/intr.S`, `vector.c`, `*/interrupt.c`)

Saves the registers, switches stacks and calls the handler registered in
`SOFTVECS`.  State seen by the kernel: whether a handler is registered, and
the interrupt mask in each thread's CCR.

### Console driver, command thread, serial device (`os/consdrv.c`, `command.c`, `serial.c`, `main.c`)

*State.* `consreg` (user thread, two 24-byte heap buffers, two lengths), SCI
registers (TDRE, RDRF, TIE, RIE).
*Operations.* the USE and WRITE commands in the driver thread, the receive and
transmit halves of the interrupt handler, the command loop.
*Hard.* the driver thread and the handler share the send buffer; USE publishes
the console before its buffers exist; both buffers are appended to without a
bound.

### Boot loader (`bootload/main.c`, `xmodem.c`, `elf.c`, `serial.c`)

*State.* `loadbuf`, `size` and the line buffer, which are cells of the RAM that
also holds the received file and receives the segments; in a transfer the
expected block number, the write pointer and whether a block header has been
seen.
*Operations.* `init`; the commands `load`, `dump`, `run`; `xmodem_wait`,
`xmodem_read_block`, `xmodem_recv`; `elf_check`, `elf_load_program`.
*Hard.* the line corrupts and loses bytes; resynchronisation after a bad block;
the retry timeout exists only before the first block; a reset keeps the RAM; a
load that fails halfway has overwritten the file before it; segments may be
copied over the image they are read from.
*Correct when* what `size` counts is the file as it was sent; a dump shows it; a
program is started as its file says, and every command ends.

### String and console library (`bootload/lib.c`, `os/lib.c`)

Stateless.  *Correct when* the copies and comparisons do what their names say
on every short input; no function looks at the end of the memory it writes.

### Flash writer (`tools/h8write/h8write.c`)

*State.* The serial line and its speed; what the device has told of itself
(code, area of the ROM, page size); the image of the ROM and the pages that
have some of it; which question it is at.
*Operations.* The questions of the 3069's boot program (`query_device` to
`query_pagesize`, `select_device`, `select_clock`, `change_bitrate`, erase,
format, pages, end), the older protocol (a program that is sent first, pages
without a check sum), the loop over the S file.
*Hard.* A dialogue in which every answer is waited for without a timeout, over a
line that may flip bits; both sides change their speed in the middle; the writer
may be stopped between any two steps after the ROM has been erased, and be run
again on a device that was not reset.
*Correct when* "successed" without a warning means that the ROM is what the file
says, and a run that is stopped leaves nothing in the ROM but its old contents,
or blanks and bytes of the file at their place.

### Not modelled at all

The sample threads `test*.c` (not linked into the system; the kernel model's
clients are arbitrary threads), the makefiles and the linker scripts, of which
the models take the layout and the sizes.

## 2. Plan

| order | module | models | abstract specification | proofs |
|---|---|---|---|---|
| 1 (done) | `LinkedList`, `ThreadQueue`, `Memory`, `Msgbox`, `Kernel`, `KernelProperties`, `MCKernel` | the kernel | `PriorityRoundRobin` | `KernelInv`, `HeapInv`, their parts, `FifoDelivery`, `HandOver`, the refinement (done) |
| 2 | channel specification of a message box | `kz_send`/`kz_recv` as an unbounded FIFO with blocking receive, implemented by `Kernel` | itself | from `FifoDelivery`, `HandOver` |
| 3 (done) | `Console`, `ConsoleProperties`, `MCConsole` | driver thread, handler, command thread and SCI on the kernel's calls | an echo terminal (to do) | `ConsoleInv`: output, buffers, requests; `SessionInv`: blocks, turns, input (done) |
| 4 (done) | `Xmodem`, `XmodemProperties`, `MCXmodem` | receiver against a sender over a lossy line | `Transfer` | `XmodemInv`: all three invariants and the refinement (done) |
| 5 (done) | `Lib`, `Elf`, `Boot`, `BootProperties`, `MCBoot` | the loader's commands over one memory, on `Transfer` | the program of a file (`Tidy`, `InSegment`) | `BootInv` and three of the invariants (done) |
| 6 (done) | `H8write`, `H8writeProperties`, `MCH8write` | the flash writer against the boot mode of the device | the image of an S file (`Image`) | `TypeInv`, `FlashInv`: nothing else in the ROM of a 3069 (done) |

## 3. The modules of the kernel

`LinkedList` relates the intrusive lists of the code (a head pointer and `next`
fields) to the sequence a list is meant to hold.  The sequences are history
variables: no handler reads them, and `Linked` says that the pointers spell
them out.

`ThreadQueue`, `Memory` and `Msgbox` translate the static functions of the
code.  Each C function becomes a function on the record of statics it reads and
writes, so that a handler can be written as the composition of the calls the C
handler makes, in their order: `thread_wakeup` is
`putcurrent([putcurrent(Entry) EXCEPT !.current = id])`.

`Kernel` is the state machine.  A kernel entry is one step: traps and
interrupts run with interrupts masked on a single processor.  Each action is
the whole entry: the caller taken off its queue (`Entry`), the handler, then
`schedule` and `dispatch` (`Finish`, `Dispatch`).  The service calls of an
interrupt handler are steps of their own between `IntrEnter` and `IntrLeave`,
since a handler makes any number of them; nothing else runs in between.

| variable | code |
|---|---|
| `sched` | `current`, `readyque[]`, `next`/`priority`/`flags` of the TCBs, plus the history `order` |
| `live` | the TCBs whose `init.func` is set |
| `syscall` | `syscall.type/param` of each thread that is not READY: NULL once the call has returned and its frame is gone |
| `ipc` | `msgboxes[]`, the fields of the `kz_msgbuf`s, plus the history `queue` |
| `mem` | `pool[].free` and the block headers, plus the history `stack` |
| `held`, `lost` | which client owns which block (ghosts) |
| `serintr`, `masked`, `mode` | the registered device handler, the CCR mask of each thread, what is executing |

Clients are arbitrary: the running thread makes any call with any argument the
headers allow.  Three obligations are assumed of them: they free or send only
blocks they own, wake only threads that exist, and (while `WakeReceivers` is
FALSE) wake no thread that is in `kz_recv`.  The last one is what the run
`wakeup_of_receiver` shows to be necessary.

`PriorityRoundRobin` is the abstract scheduler: FIFO queues, one per priority,
the running thread at the head of the best one; a step may append threads, take
the running one away or rotate it, never reorder the others.  `KernelProperties`
states the properties, the refinement (`TakesTurns`) and the two inductive
invariants behind them, `KernelInv` and `HeapInv` (section 10).  `MCKernel` instantiates
all of it.

Definitions whose comment says "Mutant of" are not part of the model: each is a
plausible bug that one of the properties must detect.

## 4. The modules of the console

`Console` is the system `main.c` starts, composed with `Kernel`: the idle
thread, the driver thread, the command thread and the interrupt handler are
clients whose calls *are* the actions of `Kernel`, with the arguments the code
passes.  Threads run when the kernel's scheduler says so, with the real
priorities (0 then 15, 1, 8), on the real heap (8 x 16, 8 x 32, 4 x 64 bytes).

| variable | code |
|---|---|
| `pc` | the next instruction of each thread: one step per system call, and per instruction of the write command an interrupt could fall between |
| `hpc` | where the handler is; it is cut at its service calls only, since nothing but the hardware runs beside it |
| `todo`, `line` | the requests `command_main` is about to send; its `p` |
| `text` | what the heap blocks contain (a message's size is the length of its text) |
| `cons` | `consreg[0]`; `send` and `recv` are the contents of the two buffers |
| `sci` | TDR/TDRE, RDR/RDRF, TIE, RIE |
| `typed`, `shown` | the terminal |
| `asked`, `taken` | history: what `send_string` was given, the lines the command thread got |

The write command is cut finely (`DriverMask`, `DriverAppend`, `DriverStart`,
`DriverByte`, `DriverShift`, `DriverUnmask`) because its INTR_DISABLE is what
makes it safe: without it the handler may send the character the driver has sent
but not yet shifted out.  `serial_send_byte` waits for TDRE: its step is not
enabled before.

External are the transmitter (`Transmit`, at any moment) and the user (`Type`):
a character never overruns one that has not been read, and the user starts when
the receive interrupt is on.

`ConsoleProperties` states what the parts owe each other, and the inductive
invariants `ConsoleInv` and `SessionInv` behind it (section 10).  `ConsoleAssumption` says what the
code relies on without looking: some pool has blocks of CONS_BUFFER_SIZE bytes,
and the characters the programs write are characters of the terminal.

## 5. The module of the XMODEM receiver

`Xmodem` is the receiver of the boot loader, one action per byte it reads: `pc`
names the `serial_recv_byte` the code is in, `ReadHeader` is the loop of
`xmodem_recv`, `ReadNumber`, `ReadInverse`, `ReadData` and `ReadSum` are the
parts of `xmodem_read_block` with what `xmodem_recv` does when they return, and
`Timeout` is the counter of `xmodem_wait`.  `recieving` is a counter in the code
and only ever tested against 0.  `buf` is the part of the load buffer that
`size` counts; `part` is what a block in progress has stored behind it.

The sender is external: it answers NAK with the last block and ACK with the
next one, repeats a block that is not answered, and may give up.  So is the
line: it flips bits, loses bytes and replies.  Two choices make the promise of
the code checkable at all: a frame has at most one flipped bit (two could cancel
out in an 8-bit sum) and flips are the only damage of the safety run (a lost
byte can be made up by the next one).  Bytes have four bits and blocks two
bytes; the control bytes keep the property of the real ones (0x01, 0x04, 0x18)
that no single flip turns one into another.

`PlainFile` has no block that begins with SOH, EOT or CAN.  That is a
restriction, and `xmodem_eot_in_data` is what happens without it.  Inside a
block control bytes are allowed.  What the theorems of section 10 need is weaker
and is stated as `Unmistakable`: no byte at which the receiver looks for a header
after a bad block is SOH or EOT.  There are two such bytes, the first of a
block's data and, when a block may come twice or its number is damaged, the
complement of its number, as sent or with a bit flipped.  In the code's own
terms only the first matters: the load area of `ld.scr` holds 0x1d00 bytes, 58
blocks, whose complements 254 to 197 have their two highest bits set, and so are
neither 0x01 nor 0x04, nor one flip away from them.

`scenario` is chosen once: the file that is sent, on which part of a frame the
line may flip a bit, and the faults that can happen besides.  `MCScenario` lists
four of them, so that one run covers the whole protocol.

`Transfer` is what the boot loader makes of all this: the blocks of a file
arrive in order, the transfer can fail at any time and succeeds only when all of
it has arrived.  `IsTransfer` is the refinement (`file` and `stored` are the
blocks flattened; `result` is what `xmodem_recv` returns).  It is stated for
transfers that lose no bytes, because with lost bytes a check sum of eight bits
proves nothing, and for plain files, because of `xmodem_eot_in_data`.

## 6. The modules of the boot loader's main loop

`Lib` holds the library as operators: a memory is a function from addresses to
cells, a string a sequence without its 0.  `MCBoot` compares them with reference
definitions on all strings of up to three characters and all small copies
(`LibMeaning`).  `char` is unsigned where the ROM is compiled for, so `dump`
hands `putxval` a value of one byte.

`Elf` is `elf_check` and one turn of the loop of `elf_load_program`, over that
memory: a header field is one cell, with its place in the header
(`HeaderField`, `ProgramField`).

`Boot` is the loader.  Its memory is laid out as in `ld.scr`: the ROM with the
initial values, the software vectors, the RAM for programs, the load buffer,
`.data` and `.bss`.  The variables of the loader *are* cells of it (`sizeAt`,
`loadbufAt`, `bufAt`), because that is what can go wrong: a block, a line or a
segment may land on them.

| variable | code |
|---|---|
| `pc` | `init`, the prompt, inside a command, or the loaded program |
| `mem` | the memory |
| `buf`, `seg` | `header` and `i` of `elf_load_program` |
| `out` | what the last command has printed: digits and line feeds, not words |
| `file`, `stored`, `result` | the transfer, as `Transfer` has it |
| `ran` | history: segments have been copied since the last reset |
| `loads`, `resets` | counters for the bounds |

`BlockStored` and `Received` conjoin the actions of `Transfer` with what they do
to the memory; `BlockRefused` is a block, or the beginning of one, that is
stored and then refused.  `LoadSegment` is one segment; a copy upwards onto
itself repeats its beginning, as the byte loop of `memcpy` does.  A store into
the ROM has no effect.  `Reset` happens at any time and keeps the RAM.  A
program that has started does not come back.

`BootProperties` says what the commands owe each other, and what a program's
memory must be when it is started.  `WholeElf` says that the headers and the data of a file lie inside it, `Tidy`
that its segments lie apart too, clear of the buffer and of the loader: the
obligation of whoever links a program.  The run also loads files that do not keep
to it, which `BootTypeOK` and `CommandsEnd` still cover.  `EntryShown` is what
`run` prints before it calls the program, the address it then jumps to, and
`BootInv` the inductive invariant of section 10.

## 7. The modules of the flash writer

`H8write` is the writer against a device.  `pc` names the question it is at, and
a question is what it sends before it blocks in `getbyte`: the two bytes of an
older H8's page number are two questions, each byte of its program is one.  `Ask`
sends it, the action of that name reads the answer, byte for byte as the
`getbyte`s of the code do, and goes on or to `fatal`.  Nothing times out: a
writer whose answer is short waits for ever.

| variable | code |
|---|---|
| `pc`, `asked`, `tries`, `sent` | where `main` is; `i` of `query_device` and of the loop that sends the program |
| `rate` | the speed of the last `initcom` |
| `devcode`, `area`, `pagesize` | `devcode`; `startrom` and `endrom`; `pagesize` |
| `rombuf`, `enable`, `page` | `rombuf`, `romenable`, `i` of the last loop |
| `tx`, `rx` | the line |
| `dev`, `devrate`, `flash` | the device (external): what it waits for, its speed, its ROM |
| `heard`, `burnt` | what it has received of something that is not complete yet, and how much of a page the program in an older H8 has written |
| `scenario`, `flips`, `reruns`, `fresh`, `skipped` | the run: the options and the file, what has gone wrong so far, and whether a record was skipped |
| `warm` | history: a run has begun on a device that was not reset |
| `misheard` | history: a run has taken another area or page size than the device's |

Both sides of `if(cpuid > 0x100)` are there: the boot program of the 3069, and
the older H8s, to which a program is sent first and which take pages without a
check sum.  The boot modes are external and are modelled from what the writer
expects of them: that of the 3069 checks sums, takes the commands in order,
changes its speed after it has answered, hears nothing at the wrong one, and
waits for the rest of a command that is not complete.  That of an older H8 echoes
a program byte by byte and starts it.  The program itself is in the code, as an
array (`bin3048` to `bin7045`): `ProgramByte` and `Burn` are what it does.  It
echoes a byte and the two of a page number, then takes the bytes of the page as
they come, with no frame and no check sum, and programs them one by one, showing
each; programming clears bits and sets none.

`ReadFile` is the loop over the S file: the record types, the comparison with
the area, the pages a record enables.  An `endrom` past the buffers is the state
`overrun`, since the code would clear memory beyond them (`Overruns` compares it
with the ends of both buffers); `QueryArea` gets there because it does not look
at the sum of that answer.

`Rerun` stops the writer anywhere and starts it again, with or without a reset of
the device.  Of a question that is on its way all, nothing or any number of first
bytes may have gone out (`LeftOnLine`), and what the device has of it, it keeps
unless it is reset.  `H8writeProperties` states what a run promises:
`SuccessMeansWritten` compares the ROM with `Image`, a direct reading of the S
file, and `FlashNeverMixes` says what a run that is stopped may have left there.
Excluded by name: runs in which a record was skipped with a warning, or that took
another area or page size than the device's (`Told`), files whose last record has
no newline (`ReadWhole`), and of an older H8 (`Protected`) flips on the way to
it, since it has no check sum, and runs after one that has begun without a reset
(`warm`), which section 9 describes.  That only the area can be mistaken is
`PageSizeHeard`: the page size is the device's, whatever bit is flipped and
whatever answers an earlier run has left on the line.  Section 9 says what a
mistaken area does.

The constants keep to four assumptions.  `H8writeAssumption` is their types;
`AddressAssumption` keeps addresses in a positive `int` and page numbers in two
bytes, as the code's buffers do; `PageAssumption` says that the ROM is a number
of pages whose size is a power of two.  `PowerAssumption` is no restriction: it
says of `^`, which the provers do not know, what a power of two is.

## 8. Runs

| run | instance | checks |
|---|---|---|
| `kernel_sched` | 4 threads, 2 priorities, no messages | `TypeOK`, `ReadyQueues`, `RunsHighest`, `NoThreadForgotten`, refinement `TakesTurns` |
| `kernel_messages` | 3 threads, 1 priority, 2 boxes, 1 small and 2 large blocks | `HeapPartition`, `BoxQueues`, `ReceiverWaits`, `FifoDelivery`, `HandOver` |
| `kernel_liveness` | 3 threads, 2 priorities | `NoStarvation` |
| `run_without_tcb` | 2 threads | expects `RunReturns` violated |
| `wakeup_of_receiver` | 2 threads, `WakeReceivers` | expects `ReceiverWaits` violated |
| `console_safety` | boot, then three lines in short words, typed at any moment | `ConsoleTypeOK`, `OutputInOrder`, `OutputDriven`, `InputInOrder`, `BuffersExist`, `DriverFirst`, `NothingLeaks`, `DownByTypingAhead` |
| `console_answers` | the words of `command.c`, an `echo` of 11 characters, the user waits for each echo | `BuffersHold`, `SessionAnswered` |
| `console_long_echo` | the same with 16 characters | expects `BuffersHold` violated |
| `xmodem` | four scenarios, 3 faults: flips anywhere, lost replies, an early timeout, repeats, with and without cancel; lost bytes; 18 blocks with flips in data or sums | `TypeOK`, `AcceptedPrefix`, `CompleteOnSuccess`, `AckedIsStored`, refinement `IsTransfer`, `TransferEnds`, `RecoversFromDataErrors` |
| `xmodem_eot_in_data` | 2 blocks, the second begins with EOT, 1 flip | expects `CompleteOnSuccess` violated |
| `boot` | 5 files, 6 lines, 2 loads, 1 reset | `BootTypeOK`, `SizeMatchesBuffer`, `ResetForgets`, `RunsWhatWasLoaded`, `DumpShowsFile`, `CommandsEnd` |
| `h8write` | ROM of 4 pages of 4 bytes, both protocols, 1 flipped bit, 1 more run | `TypeOK`, `SuccessMeansWritten`, `PageSizeHeard`, `AckedPagesWritten`, `FlashNeverMixes`, `CleanRunSucceeds` |

*Bounds.* Four threads make a queue of three behind a caller, enough for a
removal in the middle, a splice of two queues and a rotation; two priorities
give preemption.  In the message run a box can hold two buffers, a receiver and
a sender exist beside a third thread that competes for the box, and the pools
run dry, which takes the system down in the middle of a call.  The TCB table is
exhausted in every run.  `Calls` selects the calls of a run; between them the
passing runs take every action.  No counter of the kernel needs a bound: its
state is finite.  In the XMODEM runs `MAX_ERRORS` bounds the faults of one
behaviour; three are a damaged block, a damaged retry and a reply lost on top.
In the console runs the session is the bound; a second line arrives
while the first is anywhere between the receive buffer and its answer, and a
third is what it takes to empty the pool of the console buffers and with it end
the system.  The sizes are the code's.
Eighteen blocks are more than a byte of four bits can number, so that the block
number wraps.

In `boot` the files are one with two adjacent segments, one as long as the
buffer whose first header is not to be loaded, one whose first segment covers
the header of the second, one that is no ELF file, and an empty one.  Two loads
let a failed one follow a good one; the reset can fall anywhere between.  The
lines are the commands, a beginning of one, a longer one and an empty line.  A
block is ten cells, so that a refused block leaves part of a header or of data.

In `h8write` a record goes across pages, another over part of it, and a page is
covered by none; one ends with the last byte of the ROM.
`BIT_RATE_SET_MAX_3069`, `BIT_RATE_SET_MAX` and `TRIES` are the lengths of the
rows that set the speed and the attempts of `query_device`; 3 and 4 zeros, and 4
attempts, are enough to have the loop end both ways, and to make zeros a part of
a page number or of a page.  One flip can
fall on every bit of every question and answer.  One more run starts on a device
left in any state by the first, in the middle of a command or of a page too.

*Deadlock* is checked for the kernel: the loop of `kz_sysdown` is the action
`Spin`.  It is not for XMODEM, where a transfer ends, nor for the console, where the
user stops typing, nor for the boot loader, which has started a program, nor for
the flash writer, which has ended or waits for an answer.

*Fairness.* `NoStarvation` is checked under `FairSpec`: strong fairness of
each thread's next call, which is what a cooperative kernel asks of its threads
(an interrupt may take the processor from a thread before its call, again and
again), and weak fairness of `IntrLeave`, since a handler returns.  Nothing is
assumed about when devices interrupt.  `SessionAnswered` assumes
that the processor executes whatever is next, that the transmitter transmits and
that the user types the session.  The liveness of XMODEM assumes weak
fairness of the receiver, which polls in a loop, and of the sender: it reads its
replies and, in the scenarios that have `repeat`, repeats what is not answered.  Without such a
sender the receiver does hang, since its own timeout ends with the first SOH.

`CommandsEnd` assumes that the processor goes on and that a transfer goes on:
`TransferEnds` is the property of `Xmodem` that justifies it.  Nothing is
assumed about the user or the reset.  `CleanRunSucceeds` assumes
that writer and device go on; nobody owes a flip or another run.

## 9. What the runs found

* **`kz_run` without a free TCB never returns** (`kozos.c` 156-158).
  `thread_run` returns -1 before the `putcurrent` that every other path makes,
  so the caller is in no queue.  `NoThreadForgotten` carries this as its named
  exception (`RunFailed`).
* **`kz_wakeup` of a receiver** (`kozos.c` 222-229) makes a thread READY that
  its box still names as receiver; the next send writes through a parameter
  block that no longer exists.
* **The send buffer is too small for its own answers** (`consdrv.c` 36-44).
  `send_string` has no bound.  The driver, of better priority than the command
  thread, puts the echoed line feed, the answer, its line feed and the prompt into
  the 24-byte buffer (26 usable bytes of a 32-byte block) before a character has
  left.  `echo` with 11 characters just fits; with 16, a line the receive buffer
  holds, it does not.
* **A data byte is taken for EOT** (`xmodem.c` 36-43).  A block whose number or
  complement is damaged is rejected at once, and its data are read as headers.
  If they begin with 0x04, the loader acknowledges the end of the transfer and
  prints "XMODEM recieve succeeded." with a part of the file.  If they begin
  with any other byte that is no control byte, the transfer is aborted: only
  damage to data and check sums is recovered from, as the name of
  `RecoversFromDataErrors` says, and a block repeated after a lost ACK aborts
  the transfer too.

What follows was met while modelling and has no run of its own that expects a
violation; the models contain it, and the properties name it as an exception.

* **A record at the end of the ROM is skipped** (`h8write.c` 1631).
  `(addr + s) > endrom` compares the address behind the record with the last
  address of the ROM.  A record that ends with the last byte is skipped as "out
  of range", and the run still prints that it succeeded.
* **A stopped run of an older H8 has to be followed by a reset** (`h8write.c`
  1707-1711).  The program in the device waits for the rest of a page number or of
  a page.  A run without a reset begins with 256 zeros (1511-1512), which it takes
  for that rest: it programs a page of zeros, or puts zeros into the page it had
  begun.  The ROM then holds bytes that are neither blank nor the file's:
  `FlashNeverMixes` without `~warm` in `Protected` fails so.  A
  run after a reset erases the ROM first.
* **The sum of the area is not compared** (`h8write.c` 965), where the other
  queries end with "Check sum error on boot mode command".  A flipped bit gives
  other bounds, and the history `misheard` of the model notes it.  With a lower
  end the writer clears less of its buffer and reports success for a ROM whose
  last page ends in zeros, which the file leaves blank: `SuccessMeansWritten`
  without its `Told` fails so.  Other bits skip records, with a warning, or put the
  end past the buffers, where the clearing loop runs over what follows
  (`overrun`).
* **A last line without a newline is dropped** (`h8write.c` 1608), without a
  warning.
* **The file is opened after the ROM has been erased** (`h8write.c` 1580, 1601):
  a mistyped name costs the ROM's content.
* **A device that is in query mode already**, and answers each byte of the row of
  zeros with an error, gets a warning and the writer goes on (`h8write.c` 1501-1507).
  It has read one of these answers; the others are taken for the answers of the
  attempts of `query_device`, whose own answers then meet later questions.  No
  such run of the model ends in success.
* **`run` after a failed load** (`main.c` 95) tests neither `size` nor the result
  of the last load.  The model reaches programs started from the header of one
  file and data of another, and, after an empty file was received successfully,
  the program before it.
* **The load area is smaller than its comment says** (`ld.scr` 14): 0x1d00 bytes
  are 7424, not 8KB, and no write is compared with its end.

## 10. Proofs

The theorems hold for every value of the constants that the named assumptions
allow: any number of threads, priorities, boxes, pools and blocks, any session,
any files and lines.  Those of the kernel assume `~WakeReceivers`, the
obligation of section 3 that the run `wakeup_of_receiver` shows to be necessary.
Those of the console do not: none of its threads wakes anybody.

| module | theorem | states |
|---|---|---|
| `KernelProofs` | `KernelInvariant` | `Spec => []KernelInv` |
| | `TypesKept`, `ReadyQueuesKept`, `HighestRuns`, `ReceiversWait`, `NobodyForgotten` | its conjuncts, each of which a run checks |
| `HeapProofs` | `HeapInvariant` | `Spec => [](KernelInv /\ HeapInv)` |
| | `HeapPartitioned`, `BoxQueuesKept` | `HeapPartition`, `BoxQueues` |
| | `DeliveredInOrder`, `ReceiversServed` | the action properties `FifoDelivery`, `HandOver` |
| `KernelProofs` | `KernelTakesTurns` | the kernel implements `PriorityRoundRobin` (`TakesTurns`) |
| `ConsoleProofs` | `ConsoleInvariant` | `ConsoleSpec => [](SystemInv /\ ConsoleInv)` |
| | `ConsoleTypesKept`, `OutputShownInOrder`, `OutputStaysDriven`, `HandlerFindsBuffers` | `ConsoleTypeOK`, `OutputInOrder`, `OutputDriven`, `BuffersExist` |
| | `ConsoleHeapPartitioned` | `HeapPartition` of the kernel, under the console's threads |
| `SessionProofs` | `SessionInvariant` | `ConsoleSpec => []SessionInv` |
| | `DriverGoesFirst`, `BlocksComeBack`, `InputTakenInOrder` | `DriverFirst`, `NothingLeaks`, `InputInOrder` |
| `BootProofs` | `BootInvariant` | `Spec => []BootInv` |
| | `SizeTrusted`, `ResetIsForgotten`, `SegmentsInPlace` | `SizeMatchesBuffer`, `ResetForgets`, `RunsWhatWasLoaded` |
| `XmodemProofs` | `TransferTyped` | `TypeOK` |
| | `AcceptedIsPrefix`, `SuccessIsComplete`, `AcknowledgedIsStored` | `AcceptedPrefix`, `CompleteOnSuccess`, `AckedIsStored`, of `Unmistakable` transfers |
| | `ImplementsTransfer` | `xmodem_recv` implements `Transfer` (`IsTransfer`), of `Unmistakable` transfers |
| `H8writeProofs` | `WriterTypes` | `TypeOK` |
| | `NothingElseInFlash` | `FlashNeverMixes` of a 3069, if at most one bit of what the writer sends is flipped (`OneFlip`) |

`KernelProofs` begins with the lemmas on the operators: unlinking the first
element and linking at either end keep `Linked` and `Distinct` of one list and
leave disjoint lists alone; `getcurrent` of a head and `putcurrent` of an
unqueued thread keep `WellFormed`; what `sendmsg`, `recvmsg` and the allocator do
to each field.  `SequenceLemmas` holds what the console, XMODEM and h8write share
about sequences: concatenation, sub-sequences, and `FlattenSeq`.

*The kernel.*  No conjunct of `KernelInv` is inductive alone.  `getcurrent` is
right only if the caller is the head of its queue (`RunsHighest`), which only
well-formed queues give `schedule` (`ReadyQueues`).  Giving a message to a
receiver appends it to a queue, right only if it is in none (`ReceiverWaits`);
that the box is empty then, so that `recvmsg` takes the message just sent, needs
the ends of the box to agree (`EndsMatch`).  `NoThreadForgotten` needs all of
them to know that whoever leaves a queue enters one of the places it lists.
`KernelProofs` states what `Entry` and `Finish` guarantee, then has one lemma per
action.

*Blocks and messages.*  That a free list or a box keeps its links when another
list changes needs the two to share no block, so `HeapInv` says of the five
places a block can be in (free lists, buffers in boxes, their payloads, clients,
lost to a thread that ended) that they are disjoint, and of boxes, payloads and
clients that they are disjoint among themselves.  Each call moves one block or
two between two places; `AllocAccounted`, `FreeAccounted`, `SendAccounted`,
`RecvAccounted` say so once, and the hand-over of `kz_send` to a waiting receiver
is the third followed by the fourth, as in the code.  `FifoDelivery` and
`HandOver` are then read off the same steps.

*The refinement.*  `KernelProofs` shows that each entry is a step of
`PriorityRoundRobin` or leaves its state alone: `Entry` takes the head away
(`EntryLeaves`), each handler appends at most the caller, its target or both
(`CallerRejoins`, `TargetFollows`), and `Finish` elects the head of the best
queue (`FinishTakesTurns`).  An interrupt leaves the queues but for the threads
its service calls append, and so costs the interrupted thread nothing.

*The console.*  `Console` runs three known threads on the kernel's actions, so
`SystemStep` carries `KernelInv /\ HeapInv` over: what the console calls with is
what `Kernel` allows its clients.  On top, `ConsoleInv` needs, for the output to
be right, that the driver thread masks interrupts in the region it shares with
the handler (`Masked`), that it holds the blocks it is about to write or free
(`Holds`), that the requests in the box are its USE before the WRITEs and each
carries the text that was asked for (`InOrder`), and that nothing was asked or
shown before the USE was served (`Fresh`).  `OutputInOrder` is
an equation over what is shown, in the transmitter and in the send buffer; every
step moves a character from one to the next or appends the same text to both
sides, provided that the transmitter is free when a character goes into it,
which is what `Masked` and `OutputDriven` are for.  `FlattenSeq`, behind the
expansion of line ends, is a recursive function of the community modules; that
it has a value is shown by the least index at which it would not (`Flattened`).

*A session.*  The other promises of the console rest on a second invariant,
proved on top of the first.  `DriverFirst` is a matter of scheduling: kz_run has
given the driver priority 1 and the command thread 8 (`Started`), the threads
block in kz_recv and nowhere else (`Blocks`), and the kernel runs the head of the
best queue (`RunsHighest`); so while the command thread runs the driver waits in
its box, and a request sent to that box never stays in it (`OutputBoxStep`).
`NothingLeaks` needs to know which blocks each program owns at each place of it
(`Ownership`): the line and one request at most in the command thread, the copy
of the line in the handler, its two buffers and one request in the driver
(`Holds`).  Between kz_kmalloc and kz_kmfree nobody else may come to own them,
which is the kernel's accounting (`HeapInv`); `RestLeaksNothing` adds up what
is left when both threads wait.  `InputInOrder` is an equation again, over what
the command thread has taken, its hands, the messages of the box, the receive
buffer, the handler's hands and the session; every step moves the first line or
the last character across one boundary.  A step that writes a block must not
write one of a message under way, which is `HeapInv` once more.  What
`FlattenSeq` does at either end of a sequence of lines (`FlattenAppend`,
`FlattenFirst`) is again shown by a least counterexample.  `SessionInv` says
nothing of the threads' blocks once the system is down: a heap that runs dry in
the middle of a call ends it there.

The proofs use one assumption beside those of the components, `NullIsNoCall`:
the value for "not in a system call" is none of the calls a thread can block in.

*The boot loader.*  `BootInv` follows one memory.  ROM keeps its image, since
everything the loader writes lies in the RAM (`Cells`, `StoreInRam`), and the
regions of the linker script are apart (`Layout`), so that storing a block or a
line hits neither `size` nor `loadbuf`.  While a transfer runs the buffer begins
with what has arrived (`Arriving`), after it with the whole file (`Whole`), unless
segments that reach over it have been copied since; during `run` every segment
before the current one is in place (`Placed`), which `LoadSegmentStep` keeps
because the segments of a `Tidy` file are apart from each other and lie in the
program's region, where neither the file nor the loader's data is.

*XMODEM.*  The invariant is
`XmodemInv == TypeInv /\ Unmistakable /\ (AllBytesArrive => TransferInv)`.
`TransferInv` says that there is a number m of blocks such that `buf` is the
first m blocks of the file and the number expected is that of the next
(`Accepted`), that the sender is at block m or m + 1 and the replies under way
are those that belong there (`Told`), and where the receiver is in the bytes on
the line (`Where`): between two frames, inside one of block m or m + 1 whose
remaining bytes are the head of the line, or in one it has lost track of, whose
next byte leads to an error or, after the last block, to the end it would have
reached anyway.  It takes all three together: which frames can follow the one that is being
read depends on the replies that have not arrived yet, a repeated block has to be
refused by its number before its data, equal or not, are looked at, and only a
refused header moves the receiver out of step.  `Unmistakable` is what makes the
last case end; the run `xmodem_eot_in_data` is a transfer without it.  A frame
damaged in its data keeps its length, and its sum shows the flip (`Flips` changes
a byte by a power of two below the modulus), so it is refused in step.  With
lost bytes nothing of this holds, and the properties say so (`AllBytesArrive`).
Each step of `TransferInv` accepts nothing or the next block (`AcceptsNext`),
which is the refinement.

*The flash writer.*  `TypeInv` strengthens `TypeOK` with what the writer knows at
each question, chiefly that `rombuf` and `enable` were made from the area and the
page size it still has.  Of the answers it says only that
they are bytes, so that no step relies on what the device answers.  `FlashInv` is
about the ROM of a 3069: its bytes are the old ones, or each is blank or the
file's (`RomInv`).  Only a frame that is a page for the device writes it, hence
it is enough that every question on the line is harmless, *however much of it
goes out before the writer is stopped* (`Safe`): no beginning of it is a page of
the right length, first byte and sum, unless its bytes are those of the file at
the address it names.  The pages the writer sends are, because `rombuf` is the
file's image (`ImageInv`: each byte is that of the last record that covers it, by
a least counterexample over the lines read), provided that area and page size are
the device's (`HeardInv`, `Told`); the other questions are too short or begin with
another byte (`QuestionHarmless`).  That a flip keeps a question safe is the
second thing `LineInv` says of one that has met no flip yet (`Checked`): it is
shorter than a page, or of its length with a sum that then fails, or it begins
with 0 or 63, more than one bit away from the 80 of a page.  All this holds *if
the flip is the only one*: two can cancel in a sum modulo 256, a limit of the
protocol and not of the proof, and so `OneFlip` is a hypothesis.  What the device
has of a command that is not complete is no page, since it waits for the rest of
a command only before it takes any (`PartsInv`).  Stopping the writer anywhere
and running it again, with a reset or without, keeps all of this because the ROM
is erased before any page is taken (`Taking`).  A device that was not reset may
answer anything: the invariant asks nothing of it.

*Only model-checked.*

* `NoStarvation`, `SessionAnswered`, `CommandsEnd`, `TransferEnds`,
  `RecoversFromDataErrors`, `CleanRunSucceeds`: liveness under fairness is beyond
  the proof system, and so is ENABLED.
* `DownByTypingAhead` and `BuffersHold`: true of the sessions of the runs and of
  buffers and pools of the code's sizes, false for others (`console_long_echo`),
  hence no theorems.
* `FlashNeverMixes` of an older H8, whose pages have no check sum and no frame.
* `SuccessMeansWritten`, `AckedPagesWritten` and `PageSizeHeard` of h8write.  They
  need every answer on the line to be matched with the question it belongs to,
  across a flipped bit that makes the device answer once for each byte of a frame,
  and across the stale answers of a run that was stopped: an invariant over the
  contents of both directions of the line.  Nor do they hold for every value of the
  constants: whether bytes that are read out of step happen to form a frame with
  the right sum depends on the numbers in them.
* `BootTypeOK`, whose ranges are those of the run's files, and `DumpShowsFile`,
  whose reading back of the digits filters sequences.
* Equality of `Lib`'s operators with their reference definitions (recursive
  operators, which the proof system does not expand).

## 11. Abstractions

Register contexts, stacks and names are left out: a thread is its TCB index.
The size of a message belongs to its payload.  `kz_run`'s stack allocation,
which only grows, is not modelled yet.  Priorities are valid or negative;
larger ones would index past `readyque` and are an obligation of the callers.
`recvmsg` leaves stale fields in a freed buffer, which the model clears because
the next owner overwrites them before they are read.

The console has one device and the driver ignores no unknown command, since no
client sends one.  What an overfull buffer overwrites is not modelled: the model
keeps the characters, and `BuffersHold` says that it should not happen.  A
console whose user types while the heap's 32-byte pool is empty takes the system
down in `kx_kmalloc`; three lines ahead of the command thread are enough, and
`DownByTypingAhead` says that nothing less is.

In the boot loader a header field is one cell, whatever its width; the echo of
`gets`, the wording of messages and the delay of `wait` are left out.  A file
fits the load buffer and a line fits `buf`: the code compares neither with its
end, and what a longer one destroys is not modelled.  The files and lines are
those of the run.

Of `h8write`, the parsing of options and of device names, hexadecimal text, the
opening of the line, the progress output and the Windows variant are left out;
`scenario` stands for what options and file select.  Device codes are two bytes,
the list of devices has two entries, the program sent to an older H8 two bytes.
A name that reaches past the end of the answer does not match, where the code
would compare what the buffer held before; an answer too short for its numbers
leaves a few values that stand for any.  A 3069 takes what is sent to it before
the writer waits as one step, and writes a page in one: its boot program is not
in the repository, and nothing but the writer being stopped, which `LeftOnLine`
models byte by byte, can fall between.  The program of the older H8s ends a page
early when a receive error, such as an overrun while it programs, comes up; the
line of the model damages bytes but does not do that.  Whether both sides have
the same speed is looked at when a question is taken.
