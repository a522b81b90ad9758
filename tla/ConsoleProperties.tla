--------------------------- MODULE ConsoleProperties ---------------------------
(***************************************************************************)
(* What makes the console correct: the kernel's promises put to use by the *)
(* driver, its interrupt handler and the command thread.                   *)
(***************************************************************************)
EXTENDS Console

Waiting(t, id) == syscall[t] = Receiving(id)

InTransmitter == IF sci.tdre THEN <<>> ELSE <<sci.tdr>>
Unsent == IF pc[Driver] = "shift" THEN Shifted(cons).send ELSE cons.send

(***************************************************************************)
(* The terminal shows what was written and echoed, in the order of the     *)
(* send_string calls, nothing lost and nothing twice, although the driver  *)
(* and the interrupt handler take characters off the same buffer.          *)
(***************************************************************************)
OutputInOrder == shown \o InTransmitter \o Unsent = asked

(***************************************************************************)
(* Output never gets stuck in the buffer: while there is some, and nobody  *)
(* is just starting it, the transmit interrupt is on.                      *)
(***************************************************************************)
OutputDriven == cons.send # <<>> /\ pc[Driver] # "start" => sci.tie

\* The input on its way from the channel to the command thread.
WholeLine(p) == Append(text[p], LF)
InHand    == IF pc[Command] = "line" /\ held[Command] # {}
             THEN WholeLine(CHOOSE p \in held[Command] : TRUE) ELSE <<>>
InBox     == LET q == ipc.queue[CONSINPUT]
             IN  SeqExt!FlattenSeq([i \in 1..Len(q) |-> WholeLine(ipc.p[q[i]])])
InHandler == IF mode = "handler" /\ hpc \in {"alloc", "send"} THEN <<LF>> ELSE <<>>
Arrived   == LET n == Len(Session) - Len(typed) - IF sci.rdrf THEN 1 ELSE 0
             IN  [i \in 1..n |-> IF Session[i] = CR THEN LF ELSE Session[i]]

(***************************************************************************)
(* The command thread gets the lines that were typed, whole and in order:  *)
(* a character is in exactly one of the receive buffer, a message and the  *)
(* hands of the command thread, however fast the user types.               *)
(***************************************************************************)
InputInOrder ==
    mode # "down" => taken \o InHand \o InBox \o cons.recv \o InHandler = Arrived

(***************************************************************************)
(* The handler never runs on a console that is only half set up: the USE   *)
(* command publishes cons->id before the buffers exist.                    *)
(***************************************************************************)
BuffersExist ==
    mode = "handler" =>
        /\ cons.id # NULL
        /\ cons.send_buf # cons.recv_buf
        /\ {cons.send_buf, cons.recv_buf} \subseteq held[Driver]

(***************************************************************************)
(* The command thread runs only while the driver waits for it, so that at  *)
(* most one request exists and is served before the next is built.         *)
(***************************************************************************)
DriverFirst ==
    /\ Len(ipc.queue[CONSOUTPUT]) <= 1
    /\ mode = "user" /\ sched.current = Command => Waiting(Driver, CONSOUTPUT)

\* Both threads wait for a message, and so does the user.
AtRest == /\ mode = "user" /\ cons.id # NULL
          /\ Waiting(Driver, CONSOUTPUT) /\ Waiting(Command, CONSINPUT)

(***************************************************************************)
(* Nothing leaks: when both threads are back in kz_recv, only the two      *)
(* console buffers are taken from the heap.                                *)
(***************************************************************************)
NothingLeaks ==
    AtRest => Block \ FreeBlocks(mem) = {cons.send_buf, cons.recv_buf}

\* The lines that have arrived and are not answered: the handler has at least
\* begun with each, and the command thread may be about to answer one.
Lines(str)    == Cardinality({i \in 1..Len(str) : str[i] = LF})
LinesWaiting  == Lines(Arrived) - Lines(taken) + IF line = NULL THEN 0 ELSE 1

(***************************************************************************)
(* A user who types ahead, and nothing else, takes the system down: the    *)
(* blocks of the size of a console buffer are all in use, and three lines  *)
(* or more wait for their answer.  No block that kz_kmalloc might have     *)
(* given is missed, no second receiver meets a first one in a box, and the *)
(* idle thread is always there to run.                                     *)
(***************************************************************************)
DownByTypingAhead ==
    mode = "down" => /\ \A b \in FreeBlocks(mem) : PoolOf(b) # Min(Fitting(CONS_BUFFER_SIZE))
                     /\ LinesWaiting >= 3

(***************************************************************************)
(* The CONS_BUFFER_SIZE bytes asked for each console buffer hold what      *)
(* send_string and the handler append to them.                             *)
(***************************************************************************)
BuffersHold == Len(cons.send) <= CONS_BUFFER_SIZE /\ Len(cons.recv) <= CONS_BUFFER_SIZE

(***************************************************************************)
(* The invariant behind OutputInOrder, OutputDriven and BuffersExist.      *)
(*                                                                         *)
(* Masked: between INTR_DISABLE and INTR_ENABLE the driver has the         *)
(* processor to itself.  Holds: what the driver owns is its two buffers    *)
(* and the request it serves.  InOrder: the USE request is served first,   *)
(* and nothing is written before it has been; every later one is a WRITE.  *)
(* Fresh: until then the channel is as the boot loader left it.            *)
(***************************************************************************)
Critical == {"append", "start", "byte", "shift", "unmask"}
Setup    == {"alloc send_buf", "alloc recv_buf", "serial_init"}
Listens  == {"setintr", "recv"}

Masked == pc[Driver] \in Critical =>
              mode = "user" /\ sched.current = Driver /\ Driver \in masked

ConsoleBuffers == {cons.send_buf, cons.recv_buf} \ {NULL}
Serves(p) == p \in Block \ ConsoleBuffers /\ held[Driver] = ConsoleBuffers \cup {p}
Waits     == ipc.receiver[CONSOUTPUT] = Driver
Holds ==
    /\ ConsoleBuffers \subseteq held[Driver]
    /\ pc[Driver] \in Listens => held[Driver] = ConsoleBuffers
    /\ pc[Driver] = "request" /\ Waits => held[Driver] = ConsoleBuffers
    /\ pc[Driver] \notin Listens /\ ~Waits => \E p \in Block : Serves(p)
    /\ Waits => pc[Driver] = "request"
    /\ ipc.receiver[CONSOUTPUT] \in {NULL, Driver} /\ ipc.receiver[CONSINPUT] # Driver

\* Up: the USE request has been served.
Up == sci.rie
BuffersSet ==
    IF Up THEN NULL \notin {cons.id, cons.send_buf, cons.recv_buf}
               /\ cons.send_buf # cons.recv_buf
    ELSE /\ pc[Driver] \notin Setup => cons.id = NULL
         /\ pc[Driver] \in Setup => cons.id # NULL
         /\ pc[Driver] \in {"alloc recv_buf", "serial_init"} <=> cons.send_buf # NULL
         /\ pc[Driver] = "serial_init" <=> cons.recv_buf # NULL
         /\ cons.recv_buf # NULL => cons.send_buf # cons.recv_buf

Says(p, letter) == text[p][2] = letter
Unsaid == todo # <<>> /\ todo[1] = UseRequest
InOrder ==
    /\ \A i \in 1..Len(todo) : todo[i][2] = "w" \/ (i = 1 /\ Unsaid)
    /\ \A mp \in Range(ipc.queue[CONSOUTPUT]) : ipc.p[mp] \in Block
    /\ \A i \in 1..Len(ipc.queue[CONSOUTPUT]) :
          Says(ipc.p[ipc.queue[CONSOUTPUT][i]],
               IF i = 1 /\ ~Up /\ pc[Driver] \in Listens THEN "u" ELSE "w")
    /\ \A p \in Block : pc[Driver] = "request" /\ Serves(p) => Says(p, IF Up THEN "w" ELSE "u")
    /\ pc[Driver] \in Setup => ~Up
    /\ pc[Driver] \in Critical \cup {"mask", "free"} => Up
    /\ ~Up => (Unsaid <=> Waits \/ (pc[Driver] \in Listens
                                       /\ ipc.queue[CONSOUTPUT] = <<>>))
    /\ Up => ~Unsaid

Fresh == ~Up => sci = InitialSci /\ cons.send = <<>> /\ asked = <<>> /\ shown = <<>>

ConsoleInv ==
    /\ ConsoleTypeOK /\ Masked /\ Fresh
    /\ mode = "handler" => Up
    /\ mode # "down" => Holds /\ BuffersSet /\ InOrder
    /\ pc[Driver] = "byte" => cons.send # <<>>
    /\ OutputInOrder /\ OutputDriven

(***************************************************************************)
(* The invariant behind DriverFirst, NothingLeaks and InputInOrder.        *)
(*                                                                         *)
(* Started: kz_run has given the threads their ids and priorities.         *)
(* Blocks: a thread that is not READY is in kz_recv and nowhere else.      *)
(* CommandOwns, HandlerOwns: the blocks each program has at each place of  *)
(* it, a line as the handler fills it included.  Typing: what the user has *)
(* still to type, and the character in the channel, are those of the       *)
(* session; nothing has been stored before the console is up.              *)
(***************************************************************************)
Started ==
    /\ live = CASE pc[Idle] = "run driver"  -> {Idle}
                [] pc[Idle] = "run command" -> {Idle, Driver}
                [] OTHER                    -> {Idle, Driver, Command}
    /\ Driver \in live => sched.priority[Driver] = 1
    /\ Command \in live => sched.priority[Command] = 8

Blocks == \A t \in Tcb : syscall[t] # NULL =>
              t \in live /\ ~sched.ready[t] /\ syscall[t] \in {Receiving(id) : id \in Box}

Listening == ipc.receiver[CONSINPUT] = Command
LineHeld  == {line} \ {NULL}
CommandOwns ==
    /\ ipc.receiver[CONSINPUT] \in {NULL, Command}
    /\ Listening => pc[Command] = "line"
    /\ pc[Command] \in {"recv", "line"} => line = NULL
    /\ pc[Command] = "free" => line # NULL
    /\ IF pc[Command] = "send" \/ (pc[Command] = "line" /\ ~Listening)
       THEN \E p \in Block \ LineHeld : held[Command] = LineHeld \cup {p}
       ELSE held[Command] = LineHeld

HandlerOwns ==
    IF mode = "handler" /\ hpc = "send"
    THEN \E p \in Block : held[NULL] = {p} /\ text[p] = cons.recv
    ELSE held[NULL] = {}

LinesQueued    == \A mp \in Range(ipc.queue[CONSINPUT]) : ipc.p[mp] \in Block
NobodyElseOwns == lost = {} /\ \A t \in Tcb \ {Driver, Command} : held[t] = {}
Ownership      == CommandOwns /\ HandlerOwns /\ LinesQueued /\ NobodyElseOwns

Typing ==
    /\ Len(typed) <= Len(Session)
    /\ typed = SubSeq(Session, Len(Session) - Len(typed) + 1, Len(Session))
    /\ sci.rdrf => /\ Len(typed) < Len(Session)
                   /\ sci.rdr = Session[Len(Session) - Len(typed)]
    /\ ~Up => cons.recv = <<>>

SessionInv ==
    /\ Started /\ Blocks /\ ipc.queue[CONSOUTPUT] = <<>>
    /\ mode # "down" => Ownership /\ Typing /\ InputInOrder

(***************************************************************************)
(* Every session is answered: the command thread takes all the lines, all  *)
(* output is shown, and the system waits for the user again.               *)
(***************************************************************************)
SessionAnswered ==
    <>[](AtRest /\ typed = <<>> /\ taken = Arrived /\ shown = asked)

===============================================================================
