-------------------------------- MODULE Console --------------------------------
(***************************************************************************)
(* The system that main.c starts: the idle thread, the console driver      *)
(* thread with its interrupt handler (consdrv.c), the command thread       *)
(* (command.c), the serial channel (serial.c) and the terminal behind it.  *)
(* It composes with Kernel: each of these programs is a client whose       *)
(* calls are the actions of Kernel, with the arguments the code passes,    *)
(* in the order the code makes them.  pc says where a thread is, hpc where *)
(* the handler is.                                                         *)
(***************************************************************************)
EXTENDS Kernel

CONSTANTS CONSINPUT, CONSOUTPUT,    \* the two message boxes
          CONS_BUFFER_SIZE,
          Char,                     \* the characters of a run
          Prompt, Unknown,          \* "command> " and "unknown.\n"
          EchoWord,                 \* "echo"
          Session,                  \* what the user types
          TypeAhead                 \* whether the user types while output is pending

SeqExt == INSTANCE SequencesExt

LF == "\n"
CR == "\r"

ASSUME ConsoleAssumption ==
    /\ Box = {CONSINPUT, CONSOUTPUT} /\ CONSINPUT # CONSOUTPUT
    /\ {"kmalloc", "kmfree", "send", "recv", "setintr", "run", "chpri"} \subseteq Calls
    /\ THREAD_NUM >= 3 /\ PRIORITY_NUM = 16
    /\ CONS_BUFFER_SIZE \in Nat /\ Fitting(CONS_BUFFER_SIZE) # {}
    /\ TypeAhead \in BOOLEAN
    /\ {Prompt, Unknown, EchoWord, Session} \subseteq Seq(Char)
    /\ {LF, CR, "0", "1", "u", "w"} \subseteq Char

\* kz_run takes the first free TCB: these are the ids the threads get.
Idle == 0
Driver == 1
Command == 2

VARIABLES
    pc, hpc,    \* where each thread, and the interrupt handler, is
    todo,       \* the requests the command thread is about to send
    line,       \* its p: the block of the line it is answering
    text,       \* what the blocks of the heap contain
    cons,       \* consreg[0]; send and recv are what lies in the two buffers
    sci,        \* the registers of the serial channel
    typed,      \* what the user has still to type
    shown,      \* what the terminal shows
    asked,      \* history: everything send_string was asked to send
    taken       \* history: the lines the command thread has received

program  == <<pc, hpc, todo, line, text>>
terminal == <<typed, shown>>
history  == <<asked, taken>>
consoleVars == <<vars, program, cons, sci, terminal, history>>

ConsoleTypeOK ==
    /\ TypeOK
    /\ pc \in [{Idle, Driver, Command} ->
               {"run driver", "run command", "chpri", "enable", "sleep",
                "setintr", "recv", "request", "alloc send_buf", "alloc recv_buf",
                "serial_init", "mask", "append", "start", "byte", "shift",
                "unmask", "free", "alloc", "send", "line"}]
    /\ hpc \in {"read", "alloc", "send", "transmit"}
    /\ todo \in Seq(Seq(Char)) /\ line \in BlockOrNull
    /\ todo # <<>> <=> pc[Command] \in {"alloc", "send"}
    /\ text \in [Block -> Seq(Char)]
    /\ cons \in [id : TcbOrNull, send_buf : BlockOrNull, recv_buf : BlockOrNull,
                 send : Seq(Char), recv : Seq(Char)]
    /\ sci \in [tdre : BOOLEAN, tdr : Char, tie : BOOLEAN,
                rdrf : BOOLEAN, rdr : Char, rie : BOOLEAN]
    /\ typed \in Seq(Char) /\ shown \in Seq(Char)
    /\ asked \in Seq(Char) /\ taken \in Seq(Char)

-------------------------------------------------------------------------------
\* send_use and send_write: the messages to the driver.
UseRequest    == <<"0", "u", "1">>
WriteRequest(str) == <<"0", "w">> \o str

\* Mutant of Answer: the whole line is echoed, the command included.
AnswerWhole(str) ==
    IF SeqExt!IsPrefix(EchoWord, str)
    THEN <<WriteRequest(str), WriteRequest(<<LF>>)>>
    ELSE <<WriteRequest(Unknown)>>

\* What the command thread has written to the console for a line.
Answer(str) ==
    IF SeqExt!IsPrefix(EchoWord, str)
    THEN <<WriteRequest(SubSeq(str, Len(EchoWord) + 1, Len(str))), WriteRequest(<<LF>>)>>
    ELSE <<WriteRequest(Unknown)>>

\* serial_init has run in the boot loader; no interrupt is enabled.
InitialSci == [tdre |-> TRUE, tdr |-> LF, tie |-> FALSE,
               rdrf |-> FALSE, rdr |-> LF, rie |-> FALSE]

ConsoleInit ==
    /\ Init
    /\ pc = [t \in {Idle, Driver, Command} |->
               CASE t = Idle   -> "run driver"
                 [] t = Driver -> "setintr"
                 [] OTHER      -> "alloc"]
    /\ hpc = "read"
    /\ todo = <<UseRequest, WriteRequest(Prompt)>> /\ line = NULL
    /\ text = [b \in Block |-> <<>>]
    /\ cons = [id |-> NULL, send_buf |-> NULL, recv_buf |-> NULL,
               send |-> <<>>, recv |-> <<>>]
    /\ sci = InitialSci
    /\ typed = Session /\ shown = <<>>
    /\ asked = <<>> /\ taken = <<>>

At(t, label) == mode = "user" /\ sched.current = t /\ pc[t] = label
Goto(t, label) == pc' = [pc EXCEPT ![t] = label]

INTR_ENABLE  == IntrMask /\ masked' = masked \ {sched.current}
INTR_DISABLE == IntrMask /\ masked' = masked \cup {sched.current}

\* Mutant of IdleStep: both threads get the priority of the driver.
IdleStepEqual ==
    /\ \/ At(Idle, "run driver")  /\ KzRun(1)     /\ Goto(Idle, "run command")
       \/ At(Idle, "run command") /\ KzRun(1)     /\ Goto(Idle, "chpri")
       \/ At(Idle, "chpri")       /\ KzChpri(15)  /\ Goto(Idle, "enable")
       \/ At(Idle, "enable")      /\ INTR_ENABLE  /\ Goto(Idle, "sleep")
    /\ UNCHANGED <<hpc, todo, line, text, cons, sci, terminal, history>>

-------------------------------------------------------------------------------
\* The idle thread (start_threads): priority 0 until both threads exist.
IdleStep ==
    /\ \/ At(Idle, "run driver")  /\ KzRun(1)     /\ Goto(Idle, "run command")
       \/ At(Idle, "run command") /\ KzRun(8)     /\ Goto(Idle, "chpri")
       \/ At(Idle, "chpri")       /\ KzChpri(15)  /\ Goto(Idle, "enable")
       \/ At(Idle, "enable")      /\ INTR_ENABLE  /\ Goto(Idle, "sleep")
    /\ UNCHANGED <<hpc, todo, line, text, cons, sci, terminal, history>>

-------------------------------------------------------------------------------
\* The command thread (command_main, send_use, send_write).
CommandAlloc ==
    /\ At(Command, "alloc")
    /\ KzKmalloc(Len(Head(todo)))
    /\ Goto(Command, "send")
    /\ UNCHANGED <<hpc, todo, line, text, cons, sci, terminal, history>>

\* Mutant of CommandSend: it goes on although nothing is left to send.
CommandSendMiscounts ==
    /\ At(Command, "send")
    /\ \E p \in held[Command] \ {line} :
        /\ text' = [text EXCEPT ![p] = Head(todo)]
        /\ KzSend(CONSOUTPUT, p)
    /\ todo' = Tail(todo)
    /\ Goto(Command, IF todo # <<>> THEN "alloc"
                     ELSE IF line = NULL THEN "recv" ELSE "free")
    /\ UNCHANGED <<hpc, line, cons, sci, terminal, history>>

CommandSend ==
    /\ At(Command, "send")
    /\ \E p \in held[Command] \ {line} :
        /\ text' = [text EXCEPT ![p] = Head(todo)]
        /\ KzSend(CONSOUTPUT, p)
    /\ todo' = Tail(todo)
    /\ Goto(Command, IF Tail(todo) # <<>> THEN "alloc"
                     ELSE IF line = NULL THEN "recv" ELSE "free")
    /\ UNCHANGED <<hpc, line, cons, sci, terminal, history>>

CommandRecv ==
    /\ At(Command, "recv")
    /\ KzRecv(CONSINPUT)
    /\ Goto(Command, "line")
    /\ UNCHANGED <<hpc, todo, line, text, cons, sci, terminal, history>>

CommandLine ==
    /\ At(Command, "line")
    /\ \E p \in held[Command] :
        /\ line' = p
        /\ todo' = Answer(text[p])
        /\ taken' = taken \o Append(text[p], LF)
    /\ Goto(Command, "alloc")
    /\ UNCHANGED <<vars, hpc, text, cons, sci, terminal, asked>>

\* Mutant of CommandFree: the block of the line is not given back.
CommandFreeForgets ==
    /\ At(Command, "free")
    /\ UNCHANGED vars
    /\ line' = NULL
    /\ todo' = <<WriteRequest(Prompt)>>
    /\ Goto(Command, "alloc")
    /\ UNCHANGED <<hpc, text, cons, sci, terminal, history>>

CommandFree ==
    /\ At(Command, "free")
    /\ KzKmfree(line)
    /\ line' = NULL
    /\ todo' = <<WriteRequest(Prompt)>>
    /\ Goto(Command, "alloc")
    /\ UNCHANGED <<hpc, text, cons, sci, terminal, history>>

CommandStep == CommandAlloc \/ CommandSend \/ CommandRecv \/ CommandLine \/ CommandFree

-------------------------------------------------------------------------------
(***************************************************************************)
(* The console's output.  send_string appends to the send buffer, a line   *)
(* feed as two characters, and starts the transmitter unless its interrupt *)
(* is on already; send_char takes one character off the front.             *)
(***************************************************************************)
Expand(str) == SeqExt!FlattenSeq([i \in 1..Len(str) |->
                                    IF str[i] = LF THEN <<CR, LF>> ELSE <<str[i]>>])
Buffered(c, str) == [c EXCEPT !.send = @ \o Expand(str)]
MustStart(c) == c.send # <<>> /\ ~sci.tie
Shifted(c)   == [c EXCEPT !.send = SubSeq(@, 2, Len(@))]
\* send_buf[0]; of an empty buffer it is still the character sent last.
First(c)     == IF c.send = <<>> THEN sci.tdr ELSE Head(c.send)

\* serial_send_byte, once TDRE says that the transmitter is free.
SendByte(s, c) == [s EXCEPT !.tdr = c, !.tdre = FALSE]

\* The driver thread (consdrv_main, consdrv_command).
DriverSetintr ==
    /\ At(Driver, "setintr")
    /\ KzSetintr
    /\ Goto(Driver, "recv")
    /\ UNCHANGED <<hpc, todo, line, text, cons, sci, terminal, history>>

\* Mutant of DriverRecv: the driver listens to the wrong box.
DriverRecvInput ==
    /\ At(Driver, "recv")
    /\ KzRecv(CONSINPUT)
    /\ Goto(Driver, "request")
    /\ UNCHANGED <<hpc, todo, line, text, cons, sci, terminal, history>>

DriverRecv ==
    /\ At(Driver, "recv")
    /\ KzRecv(CONSOUTPUT)
    /\ Goto(Driver, "request")
    /\ UNCHANGED <<hpc, todo, line, text, cons, sci, terminal, history>>

\* The message being served: what the driver owns beside its two buffers.
Request == CHOOSE p \in held[Driver] : p \notin {cons.send_buf, cons.recv_buf}

\* Mutant of DriverRequest: USE enables the receive interrupt first.
DriverRequestEnables ==
    /\ At(Driver, "request")
    /\ \/ /\ text[Request][2] = "u"
          /\ cons' = [cons EXCEPT !.id = Command]
          /\ sci' = [sci EXCEPT !.rie = TRUE]
          /\ Goto(Driver, "alloc send_buf")
       \/ /\ text[Request][2] = "w"
          /\ Goto(Driver, "mask")
          /\ UNCHANGED <<cons, sci>>
    /\ UNCHANGED <<vars, hpc, todo, line, text, terminal, history>>

\* Only the command thread sends to the driver.
DriverRequest ==
    /\ At(Driver, "request")
    /\ \/ /\ text[Request][2] = "u"
          /\ cons' = [cons EXCEPT !.id = Command]
          /\ Goto(Driver, "alloc send_buf")
       \/ /\ text[Request][2] = "w"
          /\ Goto(Driver, "mask")
          /\ UNCHANGED cons
    /\ UNCHANGED <<vars, hpc, todo, line, text, sci, terminal, history>>

\* CONSDRV_CMD_USE.  The block being asked for is the one the heap gives next.
DriverAllocSend ==
    /\ At(Driver, "alloc send_buf")
    /\ KzKmalloc(CONS_BUFFER_SIZE)
    /\ cons' = [cons EXCEPT !.send_buf = AllocBlock(mem, CONS_BUFFER_SIZE)]
    /\ Goto(Driver, "alloc recv_buf")
    /\ UNCHANGED <<hpc, todo, line, text, sci, terminal, history>>

DriverAllocRecv ==
    /\ At(Driver, "alloc recv_buf")
    /\ KzKmalloc(CONS_BUFFER_SIZE)
    /\ cons' = [cons EXCEPT !.recv_buf = AllocBlock(mem, CONS_BUFFER_SIZE)]
    /\ Goto(Driver, "serial_init")
    /\ UNCHANGED <<hpc, todo, line, text, sci, terminal, history>>

DriverInit ==
    /\ At(Driver, "serial_init")
    /\ cons' = [cons EXCEPT !.send = <<>>, !.recv = <<>>]
    /\ sci' = [InitialSci EXCEPT !.rie = TRUE]
    /\ Goto(Driver, "free")
    /\ UNCHANGED <<vars, hpc, todo, line, text, terminal, history>>

\* Mutant of DriverMask: the write command leaves interrupts enabled.
DriverMaskForgets ==
    /\ At(Driver, "mask")
    /\ Goto(Driver, "append")
    /\ UNCHANGED <<vars, hpc, todo, line, text, cons, sci, terminal, history>>

\* CONSDRV_CMD_WRITE: send_string with interrupts masked.
DriverMask ==
    /\ At(Driver, "mask")
    /\ INTR_DISABLE
    /\ Goto(Driver, "append")
    /\ UNCHANGED <<hpc, todo, line, text, cons, sci, terminal, history>>

DriverAppend ==
    /\ At(Driver, "append")
    /\ LET str == SubSeq(text[Request], 3, Len(text[Request]))
       IN  cons' = Buffered(cons, str) /\ asked' = asked \o Expand(str)
    /\ Goto(Driver, "start")
    /\ UNCHANGED <<vars, hpc, todo, line, text, sci, terminal, taken>>

DriverStart ==
    /\ At(Driver, "start")
    /\ IF MustStart(cons)
       THEN sci' = [sci EXCEPT !.tie = TRUE] /\ Goto(Driver, "byte")
       ELSE UNCHANGED sci /\ Goto(Driver, "unmask")
    /\ UNCHANGED <<vars, hpc, todo, line, text, cons, terminal, history>>

DriverByte ==
    /\ At(Driver, "byte")
    /\ sci.tdre
    /\ sci' = SendByte(sci, First(cons))
    /\ Goto(Driver, "shift")
    /\ UNCHANGED <<vars, hpc, todo, line, text, cons, terminal, history>>

DriverShift ==
    /\ At(Driver, "shift")
    /\ cons' = Shifted(cons)
    /\ Goto(Driver, "unmask")
    /\ UNCHANGED <<vars, hpc, todo, line, text, sci, terminal, history>>

DriverUnmask ==
    /\ At(Driver, "unmask")
    /\ INTR_ENABLE
    /\ Goto(Driver, "free")
    /\ UNCHANGED <<hpc, todo, line, text, cons, sci, terminal, history>>

DriverFree ==
    /\ At(Driver, "free")
    /\ KzKmfree(Request)
    /\ Goto(Driver, "recv")
    /\ UNCHANGED <<hpc, todo, line, text, cons, sci, terminal, history>>

DriverStep == DriverSetintr \/ DriverRecv \/ DriverRequest \/ DriverAllocSend
              \/ DriverAllocRecv \/ DriverInit \/ DriverMask \/ DriverAppend
              \/ DriverStart \/ DriverByte \/ DriverShift \/ DriverUnmask \/ DriverFree

-------------------------------------------------------------------------------
(***************************************************************************)
(* The interrupt handler (consdrv_intr, consdrv_intrproc).  Nothing but    *)
(* the hardware runs beside it, so it is cut only at its service calls.    *)
(***************************************************************************)
Pending == (sci.tdre /\ sci.tie) \/ (sci.rdrf /\ sci.rie)

HandlerEnter ==
    /\ Pending
    /\ IntrEnter
    /\ hpc' = "read"
    /\ UNCHANGED <<pc, todo, line, text, cons, sci, terminal, history>>

\* The receive half: echo, then store the character or pass the line on.
HandlerRead ==
    /\ mode = "handler" /\ hpc = "read"
    /\ IF cons.id # NULL /\ sci.rdrf
       THEN LET c      == IF sci.rdr = CR THEN LF ELSE sci.rdr
                read   == [sci EXCEPT !.rdrf = FALSE]
                echoed == Buffered(cons, <<c>>)
                stored(k) == IF c = LF THEN k ELSE [k EXCEPT !.recv = Append(@, c)]
            IN  /\ asked' = asked \o Expand(<<c>>)
                /\ hpc' = IF c = LF THEN "alloc" ELSE "transmit"
                /\ IF MustStart(echoed)
                   THEN /\ sci.tdre
                        /\ sci' = SendByte([read EXCEPT !.tie = TRUE], First(echoed))
                        /\ cons' = stored(Shifted(echoed))
                   ELSE sci' = read /\ cons' = stored(echoed)
       ELSE hpc' = "transmit" /\ UNCHANGED <<cons, sci, asked>>
    /\ UNCHANGED <<vars, pc, todo, line, text, terminal, taken>>

HandlerAlloc ==
    /\ mode = "handler" /\ hpc = "alloc"
    /\ KzKmalloc(CONS_BUFFER_SIZE)
    /\ text' = [text EXCEPT ![AllocBlock(mem, CONS_BUFFER_SIZE)] = cons.recv]
    /\ hpc' = "send"
    /\ UNCHANGED <<pc, todo, line, cons, sci, terminal, history>>

\* Mutant of HandlerSend: the receive buffer is not emptied.
HandlerSendKeeps ==
    /\ mode = "handler" /\ hpc = "send"
    /\ \E p \in held[NULL] : KzSend(CONSINPUT, p)
    /\ hpc' = "transmit"
    /\ UNCHANGED <<pc, todo, line, text, cons, sci, terminal, history>>

HandlerSend ==
    /\ mode = "handler" /\ hpc = "send"
    /\ \E p \in held[NULL] : KzSend(CONSINPUT, p)
    /\ cons' = [cons EXCEPT !.recv = <<>>]
    /\ hpc' = "transmit"
    /\ UNCHANGED <<pc, todo, line, text, sci, terminal, history>>

\* Mutant of HandlerTransmit: the interrupt goes off with a character left.
HandlerTransmitStops ==
    /\ mode = "handler" /\ hpc = "transmit"
    /\ IF cons.id = NULL \/ ~sci.tdre THEN UNCHANGED <<cons, sci>>
       ELSE IF Len(cons.send) <= 1
       THEN sci' = [sci EXCEPT !.tie = FALSE] /\ UNCHANGED cons
       ELSE sci' = SendByte(sci, First(cons)) /\ cons' = Shifted(cons)
    /\ IntrLeave
    /\ UNCHANGED <<program, terminal, history>>

\* The transmit half, and the way out of the interrupt.
HandlerTransmit ==
    /\ mode = "handler" /\ hpc = "transmit"
    /\ IF cons.id = NULL \/ ~sci.tdre THEN UNCHANGED <<cons, sci>>
       ELSE IF cons.send = <<>>
       THEN sci' = [sci EXCEPT !.tie = FALSE] /\ UNCHANGED cons
       ELSE sci' = SendByte(sci, First(cons)) /\ cons' = Shifted(cons)
    /\ IntrLeave
    /\ UNCHANGED <<program, terminal, history>>

HandlerStep == HandlerRead \/ HandlerAlloc \/ HandlerSend \/ HandlerTransmit

-------------------------------------------------------------------------------
\* The hardware and the user.

Transmit ==
    /\ ~sci.tdre
    /\ sci' = [sci EXCEPT !.tdre = TRUE]
    /\ shown' = Append(shown, sci.tdr)
    /\ UNCHANGED <<vars, program, cons, typed, history>>

\* A character arrives; it never overruns one that has not been read, and the
\* user starts when the console is up.
Type ==
    /\ typed # <<>>
    /\ sci.rie /\ ~sci.rdrf
    /\ TypeAhead \/ (cons.send = <<>> /\ sci.tdre /\ mode = "user" /\ sched.current = Idle)
    /\ sci' = [sci EXCEPT !.rdrf = TRUE, !.rdr = Head(typed)]
    /\ typed' = Tail(typed)
    /\ UNCHANGED <<vars, program, cons, shown, history>>

-------------------------------------------------------------------------------
Processor == IdleStep \/ CommandStep \/ DriverStep \/ HandlerEnter \/ HandlerStep

ConsoleNext == Processor \/ Transmit \/ Type

ConsoleSpec == ConsoleInit /\ [][ConsoleNext]_consoleVars

\* The processor executes, the transmitter transmits, the user types it all.
ConsoleFairSpec == /\ ConsoleSpec
                   /\ WF_consoleVars(Processor)
                   /\ WF_consoleVars(Transmit)
                   /\ WF_consoleVars(Type)

===============================================================================
