----------------------------- MODULE ConsoleProofs -----------------------------
(***************************************************************************)
(* The console keeps the kernel's invariants and its own: what is written  *)
(* and echoed is shown in order, the transmitter is never left idle with   *)
(* output to send, and the handler never meets a console half set up.      *)
(***************************************************************************)
EXTENDS ConsoleProperties, HeapProofs, SequenceLemmas

\* The lemmas on FlattenSeq, for the instance the console uses.
LEMMA Flattened ==
    ASSUME NEW S, NEW s \in Seq(Seq(S))
    PROVE  SeqExt!FlattenSeq(s) \in Seq(S)
  BY JoinedType DEF SeqExt!FlattenSeq, Seqs!FlattenSeq

LEMMA FlattenEmpty == SeqExt!FlattenSeq(<<>>) = <<>>
  BY DEF SeqExt!FlattenSeq

LEMMA FlattenAppend ==
    ASSUME NEW S, NEW s \in Seq(Seq(S)), NEW x \in Seq(S)
    PROVE  SeqExt!FlattenSeq(Append(s, x)) = SeqExt!FlattenSeq(s) \o x
  BY JoinedAppend DEF SeqExt!FlattenSeq, Seqs!FlattenSeq

LEMMA FlattenFirst ==
    ASSUME NEW S, NEW s \in Seq(Seq(S)), s # <<>>
    PROVE  SeqExt!FlattenSeq(s) = s[1] \o SeqExt!FlattenSeq(Tail(s))
  BY JoinedFirst DEF SeqExt!FlattenSeq, Seqs!FlattenSeq

LEMMA ExpandType ==
    ASSUME NEW str \in Seq(Char)
    PROVE  Expand(str) \in Seq(Char)
  <1> DEFINE s == [i \in 1..Len(str) |-> IF str[i] = LF THEN <<CR, LF>> ELSE <<str[i]>>]
  <1>1. LF \in Char /\ CR \in Char
    BY ConsoleAssumption
  <1>2. Len(str) \in Nat /\ \A i \in 1..Len(str) : str[i] \in Char
    OBVIOUS
  <1>3. \A i \in 1..Len(str) : (IF str[i] = LF THEN <<CR, LF>> ELSE <<str[i]>>) \in Seq(Char)
    BY <1>1, <1>2
  <1>4. s \in Seq(Seq(Char))
    BY <1>2, <1>3
  <1> HIDE DEF s
  <1>5. SeqExt!FlattenSeq(s) \in Seq(Char)
    BY <1>4, Flattened
  <1> QED
    BY <1>5 DEF Expand, s

-------------------------------------------------------------------------------
(***************************************************************************)
(* What the calls of the console do, for any state the kernel can be in.   *)
(***************************************************************************)
SystemInv == KernelInv /\ HeapInv

LEMMA Threads ==
    /\ Idle \in Tcb /\ Driver \in Tcb /\ Command \in Tcb
    /\ Idle # Driver /\ Idle # Command /\ Driver # Command
    /\ NULL \notin {Idle, Driver, Command} /\ {Idle, Driver, Command} \subseteq TcbOrNull
    /\ CONSINPUT \in Box /\ CONSOUTPUT \in Box /\ CONSINPUT # CONSOUTPUT
  <1>1. THREAD_NUM \in Nat /\ THREAD_NUM >= 3
    BY ThreadQueueAssumption, ConsoleAssumption
  <1>2. Idle \in Tcb /\ Driver \in Tcb /\ Command \in Tcb
    BY <1>1 DEF Tcb, Idle, Driver, Command
  <1>3. Idle # Driver /\ Idle # Command /\ Driver # Command
    BY DEF Idle, Driver, Command
  <1> QED
    BY <1>2, <1>3, NullAssumption, ConsoleAssumption DEF TcbOrNull

\* A call leaves the masks alone and the mode as it is, unless it is the end.
Returns == masked' = masked /\ mode' \in {mode, "down"}

LEMMA FinishReturns ==
    ASSUME Active, NEW s, NEW call, Finish(s, call)
    PROVE  mode' \in {mode, "down"}
  BY DEF Active, Finish, Dispatch

LEMMA QuietCall ==
    ASSUME SystemInv, \/ \E priority \in Prio \ {0} : KzRun(priority)
                      \/ \E priority \in Prio : KzChpri(priority)
                      \/ KzSetintr
    PROVE  SystemInv' /\ Returns /\ ipc' = ipc /\ held' = held
  <1>1. KernelInv'
    BY KzRunFullStep, KzRunNewStep, KzChpriStep, KzWaitStep DEF SystemInv
  <1>2. UNCHANGED <<ipc, mem, held, lost>> /\ masked' = masked
    BY DEF KzRun, KzChpri, KzSetintr
  <1>3. Safe
    BY <1>2, StillStep DEF SystemInv
  <1>4. mode' \in {mode, "down"}
    BY InvokeIsActive, FinishReturns DEF KzRun, KzChpri, KzSetintr
  <1> QED
    BY <1>1, <1>2, <1>3, <1>4 DEF SystemInv, Safe, Returns

\* The block b, that was free, becomes the caller's.
Allocates(b) ==
    /\ ipc' = ipc
    /\ b \in Block /\ b \notin ClientBlocks(held) /\ b \notin Payloads(ipc)
    /\ \A t \in TcbOrNull : held'[t] = IF t = Caller THEN held[t] \cup {b} ELSE held[t]

LEMMA AllocCall ==
    ASSUME SystemInv, NEW size, KzKmalloc(size)
    PROVE  SystemInv' /\ Returns /\ (mode' = "down" \/ Allocates(AllocBlock(mem, size)))
  <1> DEFINE b == AllocBlock(mem, size)
  <1>1. KernelInv' /\ Safe
    BY KzKmallocStep, KmallocSafe DEF SystemInv
  <1>2. CASE Crash
    BY <1>1, <1>2 DEF Crash, SystemInv, Safe, Returns
  <1>3. CASE ~Crash
    <2>1. /\ CanAlloc(mem, size) /\ ipc' = ipc /\ masked' = masked
          /\ held' = [held EXCEPT ![Caller] = @ \cup {b}]
          /\ Active /\ Finish(putcurrent(Entry), NULL)
      BY <1>3, InvokeIsActive DEF KzKmalloc
    <2>2. mem \in Mem /\ held \in [TcbOrNull -> SUBSET Block] /\ FreeListsLinked(mem)
          /\ EveryBlockOnce(FreeBlocks(mem), Buffers(ipc), Payloads(ipc),
                            ClientBlocks(held), lost)
      BY CurrentTypes DEF SystemInv, HeapTypes, HeapInv, Accounted
    <2>3. b \in Block /\ b \in FreeBlocks(mem)
      BY <2>1, <2>2, AllocUnlinks
    <2>4. b \notin ClientBlocks(held) /\ b \notin Payloads(ipc)
      BY <2>2, <2>3 DEF EveryBlockOnce
    <2> HIDE DEF b
    <2>5. \A t \in TcbOrNull : held'[t] = IF t = Caller THEN held[t] \cup {b} ELSE held[t]
      BY <2>1, <2>2
    <2>6. Allocates(b)
      BY <2>1, <2>3, <2>4, <2>5 DEF Allocates
    <2>7. mode' \in {mode, "down"}
      BY <2>1, FinishReturns
    <2> QED
      BY <1>1, <2>1, <2>6, <2>7 DEF SystemInv, Safe, Returns, b
  <1> QED
    BY <1>2, <1>3

LEMMA FreeCall ==
    ASSUME SystemInv, NEW p, KzKmfree(p)
    PROVE  /\ SystemInv' /\ Returns /\ ipc' = ipc /\ p \in held[Caller]
           /\ \A t \in TcbOrNull : held'[t] = IF t = Caller THEN held[t] \ {p} ELSE held[t]
  <1>1. /\ p \in held[Caller] /\ held' = [held EXCEPT ![Caller] = @ \ {p}]
        /\ ipc' = ipc /\ masked' = masked /\ Active /\ Finish(putcurrent(Entry), NULL)
    BY InvokeIsActive DEF KzKmfree
  <1>2. held \in [TcbOrNull -> SUBSET Block] /\ Caller \in TcbOrNull
    BY <1>1, CurrentTypes, CallerIsReady DEF HeapTypes, SystemInv
  <1>3. p \in Block
    BY <1>1, <1>2
  <1>4. KernelInv' /\ Safe
    BY <1>3, KzKmfreeStep, KmfreeSafe DEF SystemInv
  <1>5. \A t \in TcbOrNull : held'[t] = IF t = Caller THEN held[t] \ {p} ELSE held[t]
    BY <1>1, <1>2
  <1>6. mode' \in {mode, "down"}
    BY <1>1, FinishReturns
  <1> QED
    BY <1>1, <1>4, <1>5, <1>6 DEF SystemInv, Safe, Returns

\* The payloads of the buffers that stay in a box stay what they are.
PayloadsKept ==
    \A id \in Box : \A mp \in Range(ipc.queue[id]) \cap Range(ipc'.queue[id]) :
        ipc'.p[mp] = ipc.p[mp]

LEMMA SendCall ==
    ASSUME SystemInv, NEW id \in Box, NEW p \in Block, KzSend(id, p)
    PROVE  /\ SystemInv' /\ Returns /\ PayloadsKept
           /\ mode' = "down" \/ Enqueues(id, p) \/ PassesOn(id, p)
  <1>1. p \in Payload
    BY DEF Payload
  <1>2. KernelInv' /\ Safe /\ (Crash \/ Enqueues(id, p) \/ PassesOn(id, p))
    BY <1>1, KzSendStep, SendSafe DEF SystemInv
  <1>3. masked' = masked /\ mode' \in {mode, "down"}
    <2>1. CASE Crash
      BY <2>1 DEF Crash
    <2>2. CASE ~Crash
      <3>1. Active /\ masked' = masked /\ \E s : Finish(s, NULL)
        BY <2>2, InvokeIsActive DEF KzSend
      <3> QED
        BY <3>1, FinishReturns
    <2> QED
      BY <2>1, <2>2
  <1>4. PayloadsKept
    BY <1>2 DEF Safe, FifoStep, PayloadsKept
  <1> QED
    BY <1>2, <1>3, <1>4 DEF SystemInv, Safe, Returns, Crash

LEMMA RecvCall ==
    ASSUME SystemInv, NEW id \in Box, KzRecv(id)
    PROVE  /\ SystemInv' /\ Returns /\ PayloadsKept
           /\ mode' = "down" \/ Awaits(id) \/ Collects(id)
  <1>2. KernelInv' /\ Safe /\ (Crash \/ Awaits(id) \/ Collects(id))
    BY KzRecvStep, RecvSafe DEF SystemInv
  <1>3. masked' = masked /\ mode' \in {mode, "down"}
    <2>1. CASE Crash
      BY <2>1 DEF Crash
    <2>2. CASE ~Crash
      <3>1. Active /\ masked' = masked /\ \E s, c : Finish(s, c)
        BY <2>2, InvokeIsActive DEF KzRecv
      <3> QED
        BY <3>1, FinishReturns
    <2> QED
      BY <2>1, <2>2
  <1>4. PayloadsKept
    BY <1>2 DEF Safe, FifoStep, PayloadsKept
  <1> QED
    BY <1>2, <1>3, <1>4 DEF SystemInv, Safe, Returns, Crash

LEMMA MaskCall ==
    ASSUME SystemInv, IntrMask
    PROVE  SystemInv'
  BY InterruptStep, StillStep DEF Interrupt, IntrMask, SystemInv, Safe

LEMMA InterruptCall ==
    ASSUME SystemInv, IntrEnter \/ IntrLeave
    PROVE  SystemInv' /\ UNCHANGED <<ipc, held, masked>>
  <1>1. UNCHANGED <<ipc, mem, held, lost, masked>>
    BY DEF IntrEnter, IntrLeave
  <1>2. KernelInv' /\ Safe
    BY <1>1, InterruptStep, StillStep DEF Interrupt, SystemInv
  <1> QED
    BY <1>1, <1>2 DEF SystemInv, Safe

LEMMA SystemStays ==
    ASSUME SystemInv, UNCHANGED vars
    PROVE  SystemInv'
  <1>1. UNCHANGED <<ipc, mem, held, lost>>
    BY DEF vars
  <1>2. Safe
    BY <1>1, StillStep DEF SystemInv
  <1>3. KernelInv'
    BY DEF SystemInv, vars, KernelInv, TypeOK, ReadyQueues, ReadyThreads, RunsHighest,
           ReceiverWaits, WaitsOn, NoThreadForgotten, EndsMatch
  <1> QED
    BY <1>2, <1>3 DEF SystemInv, Safe

-------------------------------------------------------------------------------
(***************************************************************************)
(* Whoever acts: the running thread is the caller of its calls and waits   *)
(* for nothing; a thread other than the driver, or the handler, acts only  *)
(* while the driver is not in its critical section.                        *)
(***************************************************************************)
MessageInv == Holds /\ BuffersSet /\ InOrder
OutputInv ==
    /\ Masked /\ Fresh
    /\ mode = "handler" => Up
    /\ pc[Driver] = "byte" => cons.send # <<>>
    /\ OutputInOrder /\ OutputDriven

LEMMA ConsoleInvParts ==
    ConsoleInv <=> ConsoleTypeOK /\ OutputInv /\ (mode # "down" => MessageInv)
  BY DEF ConsoleInv, OutputInv, MessageInv

LEMMA RunningThread ==
    ASSUME NEW t, NEW label, At(t, label)
    PROVE  mode = "user" /\ sched.current = t /\ pc[t] = label /\ Caller = t /\ Active
  BY DEF At, Caller, Active

LEMMA HandlerRuns ==
    ASSUME mode = "handler"
    PROVE  Caller = NULL /\ Active
  BY DEF Caller, Active

LEMMA NobodyWaitsThatRuns ==
    ASSUME SystemInv, NEW t, NEW label, At(t, label), NEW id \in Box
    PROVE  ipc.receiver[id] # t
  <1>1. Caller = t /\ Active
    BY RunningThread
  <1>2. t # NULL
    BY <1>1, CallerIsReady, NullAssumption DEF SystemInv, At
  <1> QED
    BY <1>1, <1>2, ReceiversAreBlocked DEF SystemInv

\* The driver is at work on the one request it owns.
LEMMA TheRequest ==
    ASSUME SystemInv, ConsoleInv, NEW label, At(Driver, label), label \notin Listens
    PROVE  Request \in Block /\ Serves(Request)
  <1>1. pc[Driver] = label /\ mode = "user"
    BY DEF At
  <1>2. ~Waits
    BY NobodyWaitsThatRuns, Threads DEF Waits
  <1>3. PICK p \in Block : Serves(p)
    BY <1>1, <1>2 DEF ConsoleInv, Holds
  <1>4. p # NULL /\ p \in held[Driver] /\ p \notin {cons.send_buf, cons.recv_buf}
        /\ \A q \in held[Driver] : q \notin {cons.send_buf, cons.recv_buf} => q = p
    BY <1>3, NullIsNoBlock DEF Serves, ConsoleBuffers
  <1>5. Request \in held[Driver] /\ Request \notin {cons.send_buf, cons.recv_buf}
    BY <1>4 DEF Request
  <1> QED
    BY <1>3, <1>4, <1>5

\* The driver in its critical section cannot be disturbed.
LEMMA Undisturbed ==
    ASSUME OutputInv, pc[Driver] \in Critical
    PROVE  /\ mode # "handler" /\ ~IntrEnter
           /\ \A label : ~At(Idle, label) /\ ~At(Command, label)
  BY Threads DEF OutputInv, Masked, At, IntrEnter

(***************************************************************************)
(* The kernel's invariants hold through every step of the console.         *)
(***************************************************************************)
LEMMA SystemStep ==
    ASSUME SystemInv, ConsoleInv, [ConsoleNext]_consoleVars
    PROVE  SystemInv'
  <1>1. 1 \in Prio \ {0} /\ 8 \in Prio \ {0} /\ 15 \in Prio
    BY ConsoleAssumption DEF Prio
  <1>2. held \in [TcbOrNull -> SUBSET Block] /\ NULL \in TcbOrNull
    BY CurrentTypes DEF SystemInv, HeapTypes, TcbOrNull
  <1>3. held[Command] \subseteq Block /\ held[NULL] \subseteq Block
    BY <1>2, Threads
  <1>4. CASE UNCHANGED vars
    BY <1>4, SystemStays
  <1>5. CASE IdleStep
    BY <1>1, <1>5, QuietCall, MaskCall DEF IdleStep, INTR_ENABLE
  <1>6. CASE CommandStep
    <2>1. CASE CommandAlloc
      BY <2>1, AllocCall DEF CommandAlloc
    <2>2. CASE CommandSend
      BY <1>3, <2>2, SendCall, Threads DEF CommandSend
    <2>3. CASE CommandRecv
      BY <2>3, RecvCall, Threads DEF CommandRecv
    <2>4. CASE CommandLine
      BY <2>4, SystemStays DEF CommandLine
    <2>5. CASE CommandFree
      BY <2>5, FreeCall DEF CommandFree
    <2> QED
      BY <1>6, <2>1, <2>2, <2>3, <2>4, <2>5 DEF CommandStep
  <1>7. CASE DriverStep
    <2>1. CASE DriverSetintr
      BY <2>1, QuietCall DEF DriverSetintr
    <2>2. CASE DriverRecv
      BY <2>2, RecvCall, Threads DEF DriverRecv
    <2>3. CASE DriverAllocSend \/ DriverAllocRecv
      BY <2>3, AllocCall DEF DriverAllocSend, DriverAllocRecv
    <2>4. CASE DriverMask \/ DriverUnmask
      BY <2>4, MaskCall DEF DriverMask, DriverUnmask, INTR_ENABLE, INTR_DISABLE
    <2>5. CASE DriverFree
      BY <2>5, FreeCall DEF DriverFree
    <2>6. CASE DriverRequest \/ DriverInit \/ DriverAppend \/ DriverStart
               \/ DriverByte \/ DriverShift
      BY <2>6, SystemStays DEF DriverRequest, DriverInit, DriverAppend, DriverStart,
                               DriverByte, DriverShift
    <2> QED
      BY <1>7, <2>1, <2>2, <2>3, <2>4, <2>5, <2>6 DEF DriverStep
  <1>8. CASE HandlerEnter
    BY <1>8, InterruptCall DEF HandlerEnter
  <1>9. CASE HandlerStep
    <2>1. CASE HandlerRead
      BY <2>1, SystemStays DEF HandlerRead
    <2>2. CASE HandlerAlloc
      BY <2>2, AllocCall DEF HandlerAlloc
    <2>3. CASE HandlerSend
      BY <1>3, <2>3, SendCall, Threads DEF HandlerSend
    <2>4. CASE HandlerTransmit
      BY <2>4, InterruptCall DEF HandlerTransmit
    <2> QED
      BY <1>9, <2>1, <2>2, <2>3, <2>4 DEF HandlerStep
  <1>10. CASE Transmit \/ Type
    BY <1>10, SystemStays DEF Transmit, Type
  <1> QED
    BY <1>4, <1>5, <1>6, <1>7, <1>8, <1>9, <1>10 DEF ConsoleNext, Processor, consoleVars

-------------------------------------------------------------------------------
(***************************************************************************)
(* Types.  A step of a program leaves the type of what it does not write.  *)
(***************************************************************************)
ProgramTypes ==
    /\ pc \in [{Idle, Driver, Command} ->
               {"run driver", "run command", "chpri", "enable", "sleep",
                "setintr", "recv", "request", "alloc send_buf", "alloc recv_buf",
                "serial_init", "mask", "append", "start", "byte", "shift",
                "unmask", "free", "alloc", "send", "line"}]
    /\ hpc \in {"read", "alloc", "send", "transmit"}
    /\ todo \in Seq(Seq(Char)) /\ line \in BlockOrNull
    /\ todo # <<>> <=> pc[Command] \in {"alloc", "send"}
    /\ text \in [Block -> Seq(Char)]

SciTypes == sci \in [tdre : BOOLEAN, tdr : Char, tie : BOOLEAN,
                     rdrf : BOOLEAN, rdr : Char, rie : BOOLEAN]

DeviceTypes ==
    /\ cons \in [id : TcbOrNull, send_buf : BlockOrNull, recv_buf : BlockOrNull,
                 send : Seq(Char), recv : Seq(Char)]
    /\ SciTypes
    /\ typed \in Seq(Char) /\ shown \in Seq(Char)
    /\ asked \in Seq(Char) /\ taken \in Seq(Char)

LEMMA TypeParts == ConsoleTypeOK <=> TypeOK /\ ProgramTypes /\ DeviceTypes
  BY DEF ConsoleTypeOK, ProgramTypes, DeviceTypes, SciTypes

LEMMA Characters == {LF, CR, "0", "1", "u", "w"} \subseteq Char
  BY ConsoleAssumption

LEMMA WriteType ==
    ASSUME NEW str \in Seq(Char)
    PROVE  /\ WriteRequest(str) \in Seq(Char) /\ Len(WriteRequest(str)) >= 2
           /\ WriteRequest(str)[2] = "w" /\ WriteRequest(str) # UseRequest
  <1>1. <<"0", "w">> \in Seq(Char)
    BY Characters
  <1>2. /\ <<"0", "w">> \o str \in Seq(Char)
        /\ Len(<<"0", "w">> \o str) = 2 + Len(str)
        /\ (<<"0", "w">> \o str)[2] = "w"
    BY <1>1
  <1>3. UseRequest[2] = "u"
    BY DEF UseRequest
  <1> QED
    BY <1>2, <1>3 DEF WriteRequest

\* What the command thread answers is a number of write requests.
AllWrites(s) == s \in Seq(Seq(Char)) /\ s # <<>> /\ \A i \in 1..Len(s) : s[i][2] = "w"

LEMMA AnswerWrites ==
    ASSUME NEW str \in Seq(Char)
    PROVE  AllWrites(Answer(str)) /\ AllWrites(<<WriteRequest(Prompt)>>)
  <1>1. Unknown \in Seq(Char) /\ EchoWord \in Seq(Char) /\ Prompt \in Seq(Char) /\ <<LF>> \in Seq(Char)
    BY ConsoleAssumption, Characters
  <1>2. SubSeq(str, Len(EchoWord) + 1, Len(str)) \in Seq(Char)
    BY <1>1
  <1> DEFINE a == WriteRequest(SubSeq(str, Len(EchoWord) + 1, Len(str)))
             b == WriteRequest(<<LF>>)
             c == WriteRequest(Unknown)
             d == WriteRequest(Prompt)
  <1>3. /\ a \in Seq(Char) /\ b \in Seq(Char) /\ c \in Seq(Char) /\ d \in Seq(Char)
        /\ a[2] = "w" /\ b[2] = "w" /\ c[2] = "w" /\ d[2] = "w"
    BY <1>1, <1>2, WriteType
  <1>4. Answer(str) \in {<<a, b>>, <<c>>}
    BY DEF Answer
  <1> HIDE DEF a, b, c, d
  <1>5. AllWrites(<<a, b>>) /\ AllWrites(<<c>>) /\ AllWrites(<<d>>)
    BY <1>3 DEF AllWrites
  <1> QED
    BY <1>4, <1>5 DEF d

LEMMA IdleTypes ==
    ASSUME ProgramTypes, DeviceTypes, IdleStep
    PROVE  ProgramTypes' /\ DeviceTypes'
  <1>1. PICK label \in {"run command", "chpri", "enable", "sleep"} :
            pc' = [pc EXCEPT ![Idle] = label]
    BY DEF IdleStep, Goto
  <1>2. UNCHANGED <<hpc, todo, line, text, cons, sci, typed, shown, asked, taken>>
    BY DEF IdleStep, terminal, history
  <1>3. ProgramTypes'
    BY <1>1, <1>2, Threads DEF ProgramTypes
  <1> QED
    BY <1>2, <1>3 DEF DeviceTypes, SciTypes

LEMMA CommandTypes ==
    ASSUME TypeOK, ProgramTypes, DeviceTypes, CommandStep
    PROVE  ProgramTypes' /\ DeviceTypes'
  <1>1. pc[Command] \in {"alloc", "send", "recv", "line", "free"} /\ sched.current = Command
    BY DEF CommandStep, CommandAlloc, CommandSend, CommandRecv, CommandLine, CommandFree, At
  <1>2. held[Command] \subseteq Block
    BY Threads DEF TypeOK
  <1>3. CASE CommandAlloc
    <2>1. /\ pc[Command] = "alloc" /\ pc' = [pc EXCEPT ![Command] = "send"]
          /\ UNCHANGED <<hpc, todo, line, text, cons, sci, typed, shown, asked, taken>>
      BY <1>3 DEF CommandAlloc, Goto, At, terminal, history
    <2> QED
      BY <2>1, Threads DEF ProgramTypes, DeviceTypes, SciTypes
  <1>4. CASE CommandSend
    <2>1. /\ pc[Command] = "send" /\ todo' = Tail(todo)
          /\ pc' = [pc EXCEPT ![Command] = IF Tail(todo) # <<>> THEN "alloc"
                                           ELSE IF line = NULL THEN "recv" ELSE "free"]
          /\ UNCHANGED <<hpc, line, cons, sci, typed, shown, asked, taken>>
      BY <1>4 DEF CommandSend, Goto, At, terminal, history
    <2>2. PICK p \in held[Command] : text' = [text EXCEPT ![p] = Head(todo)]
      BY <1>4 DEF CommandSend
    <2>3. todo # <<>> /\ todo \in Seq(Seq(Char))
      BY <2>1 DEF ProgramTypes
    <2>4. Tail(todo) \in Seq(Seq(Char)) /\ Head(todo) \in Seq(Char)
      BY <2>3
    <2>5. text' \in [Block -> Seq(Char)]
      BY <1>2, <2>2, <2>4 DEF ProgramTypes
    <2> QED
      BY <2>1, <2>4, <2>5, Threads DEF ProgramTypes, DeviceTypes, SciTypes
  <1>5. CASE CommandRecv
    <2>1. /\ pc[Command] = "recv" /\ pc' = [pc EXCEPT ![Command] = "line"]
          /\ UNCHANGED <<hpc, todo, line, text, cons, sci, typed, shown, asked, taken>>
      BY <1>5 DEF CommandRecv, Goto, At, terminal, history
    <2> QED
      BY <2>1, Threads DEF ProgramTypes, DeviceTypes, SciTypes
  <1>6. CASE CommandLine
    <2>1. /\ pc[Command] = "line" /\ pc' = [pc EXCEPT ![Command] = "alloc"]
          /\ UNCHANGED <<hpc, text, cons, sci, typed, shown, asked>>
      BY <1>6 DEF CommandLine, Goto, At, terminal
    <2>2. PICK p \in held[Command] :
              line' = p /\ todo' = Answer(text[p]) /\ taken' = taken \o Append(text[p], LF)
      BY <1>6 DEF CommandLine
    <2>3. text[p] \in Seq(Char) /\ p \in BlockOrNull
      BY <1>2 DEF ProgramTypes, BlockOrNull
    <2>4. todo' \in Seq(Seq(Char)) /\ todo' # <<>>
      BY <2>2, <2>3, AnswerWrites DEF AllWrites
    <2>5. taken' \in Seq(Char)
      <3>1. LF \in Char /\ taken \in Seq(Char)
        BY Characters DEF DeviceTypes
      <3> QED
        BY <2>2, <2>3, <3>1
    <2> QED
      BY <2>1, <2>2, <2>3, <2>4, <2>5, Threads DEF ProgramTypes, DeviceTypes, SciTypes
  <1>7. CASE CommandFree
    <2>1. /\ pc[Command] = "free" /\ pc' = [pc EXCEPT ![Command] = "alloc"]
          /\ line' = NULL /\ todo' = <<WriteRequest(Prompt)>>
          /\ UNCHANGED <<hpc, text, cons, sci, typed, shown, asked, taken>>
      BY <1>7 DEF CommandFree, Goto, At, terminal, history
    <2>2. todo' \in Seq(Seq(Char)) /\ todo' # <<>>
      <3>1. <<>> \in Seq(Char)
        OBVIOUS
      <3> QED
        BY <2>1, <3>1, AnswerWrites DEF AllWrites
    <2> QED
      BY <2>1, <2>2, Threads DEF ProgramTypes, DeviceTypes, SciTypes, BlockOrNull
  <1> QED
    BY <1>3, <1>4, <1>5, <1>6, <1>7 DEF CommandStep

\* A label the driver goes to keeps the types of the program.
LEMMA DriverGoes ==
    ASSUME ProgramTypes, UNCHANGED <<hpc, todo, line, text>>,
           NEW label \in {"setintr", "recv", "request", "alloc send_buf", "alloc recv_buf",
                          "serial_init", "mask", "append", "start", "byte", "shift",
                          "unmask", "free"},
           Goto(Driver, label)
    PROVE  ProgramTypes'
  BY Threads DEF ProgramTypes, Goto

LEMMA DriverTypes ==
    ASSUME SystemInv, ConsoleInv, DriverStep
    PROVE  ProgramTypes' /\ DeviceTypes'
  <1>0. TypeOK /\ ProgramTypes /\ DeviceTypes
    BY TypeParts DEF ConsoleInv
  <1>1. UNCHANGED <<hpc, todo, line, text, typed, shown, taken>>
    BY DEF DriverStep, DriverSetintr, DriverRecv, DriverRequest, DriverAllocSend,
           DriverAllocRecv, DriverInit, DriverMask, DriverAppend, DriverStart, DriverByte,
           DriverShift, DriverUnmask, DriverFree, terminal, history
  <1>2. ProgramTypes'
    <2>1. CASE DriverSetintr \/ DriverRecv \/ DriverRequest \/ DriverAllocSend \/ DriverAllocRecv
      BY <1>0, <1>1, <2>1, DriverGoes DEF DriverSetintr, DriverRecv, DriverRequest,
                                          DriverAllocSend, DriverAllocRecv
    <2>2. CASE DriverInit \/ DriverMask \/ DriverAppend \/ DriverStart
      BY <1>0, <1>1, <2>2, DriverGoes DEF DriverInit, DriverMask, DriverAppend, DriverStart
    <2>3. CASE DriverByte \/ DriverShift \/ DriverUnmask \/ DriverFree
      BY <1>0, <1>1, <2>3, DriverGoes DEF DriverByte, DriverShift, DriverUnmask, DriverFree
    <2> QED
      BY <2>1, <2>2, <2>3 DEF DriverStep
  <1>3. CASE UNCHANGED <<cons, sci, asked>>
    BY <1>0, <1>1, <1>2, <1>3 DEF DeviceTypes, SciTypes
  <1>4. CASE DriverRequest
    <2>1. cons' \in {cons, [cons EXCEPT !.id = Command]} /\ UNCHANGED <<sci, asked>>
      BY <1>4 DEF DriverRequest, history
    <2> QED
      BY <1>0, <1>1, <1>2, <2>1, Threads DEF DeviceTypes, SciTypes
  <1>5. CASE DriverAllocSend \/ DriverAllocRecv
    <2> DEFINE b == AllocBlock(mem, CONS_BUFFER_SIZE)
    <2>1. b \in BlockOrNull
      <3>1. mem \in Mem
        BY <1>0 DEF TypeOK
      <3> QED
        BY <3>1, MemFields, FirstFit, ConsoleAssumption DEF AllocBlock
    <2>2. cons' \in {[cons EXCEPT !.send_buf = b], [cons EXCEPT !.recv_buf = b]}
          /\ UNCHANGED <<sci, asked>>
      BY <1>5 DEF DriverAllocSend, DriverAllocRecv, history
    <2> HIDE DEF b
    <2> QED
      BY <1>0, <1>1, <1>2, <2>1, <2>2 DEF DeviceTypes, SciTypes
  <1>6. CASE DriverInit
    <2>1. /\ cons' = [cons EXCEPT !.send = <<>>, !.recv = <<>>]
          /\ sci' = [InitialSci EXCEPT !.rie = TRUE] /\ asked' = asked
      BY <1>6 DEF DriverInit, history
    <2>2. SciTypes'
      BY <2>1, Characters DEF InitialSci, SciTypes
    <2>3. <<>> \in Seq(Char)
      OBVIOUS
    <2> QED
      BY <1>0, <1>1, <1>2, <2>1, <2>2, <2>3 DEF DeviceTypes
  <1>7. CASE DriverAppend
    <2> DEFINE str == SubSeq(text[Request], 3, Len(text[Request]))
    <2>1. /\ At(Driver, "append") /\ cons' = Buffered(cons, str)
          /\ asked' = asked \o Expand(str) /\ sci' = sci
      BY <1>7 DEF DriverAppend
    <2>2. Request \in Block
      BY <2>1, TheRequest DEF Listens
    <2>3. text[Request] \in Seq(Char)
      BY <1>0, <2>2 DEF ProgramTypes
    <2>4. str \in Seq(Char)
      BY <2>3
    <2> HIDE DEF str
    <2>5. Expand(str) \in Seq(Char)
      BY <2>4, ExpandType
    <2> HIDE DEF Expand
    <2>6. cons.send \o Expand(str) \in Seq(Char) /\ asked' \in Seq(Char)
      BY <1>0, <2>1, <2>5 DEF DeviceTypes
    <2> QED
      BY <1>0, <1>1, <1>2, <2>1, <2>6 DEF DeviceTypes, SciTypes, Buffered
  <1>8. CASE DriverStart
    <2>1. sci' \in {sci, [sci EXCEPT !.tie = TRUE]} /\ UNCHANGED <<cons, asked>>
      BY <1>8 DEF DriverStart, history
    <2>2. SciTypes'
      BY <1>0, <2>1 DEF DeviceTypes, SciTypes
    <2> QED
      BY <1>0, <1>1, <1>2, <2>1, <2>2 DEF DeviceTypes
  <1>9. CASE DriverByte
    <2>1. sci' = SendByte(sci, First(cons)) /\ UNCHANGED <<cons, asked>>
      BY <1>9 DEF DriverByte, history
    <2>2. First(cons) \in Char
      BY <1>0 DEF First, DeviceTypes, SciTypes
    <2>3. SciTypes'
      BY <1>0, <2>1, <2>2 DEF DeviceTypes, SciTypes, SendByte
    <2> QED
      BY <1>0, <1>1, <1>2, <2>1, <2>3 DEF DeviceTypes
  <1>10. CASE DriverShift
    <2>1. cons' = Shifted(cons) /\ UNCHANGED <<sci, asked>>
      BY <1>10 DEF DriverShift, history
    <2>2. SubSeq(cons.send, 2, Len(cons.send)) \in Seq(Char)
      BY <1>0 DEF DeviceTypes
    <2> QED
      BY <1>0, <1>1, <1>2, <2>1, <2>2 DEF DeviceTypes, SciTypes, Shifted
  <1>11. \/ UNCHANGED <<cons, sci, asked>>
         \/ DriverRequest \/ DriverAllocSend \/ DriverAllocRecv \/ DriverInit \/ DriverAppend
         \/ DriverStart \/ DriverByte \/ DriverShift
    BY DEF DriverStep, DriverSetintr, DriverRecv, DriverMask, DriverUnmask, DriverFree, history
  <1> QED
    BY <1>2, <1>3, <1>4, <1>5, <1>6, <1>7, <1>8, <1>9, <1>10, <1>11

\* Taking a character off the send buffer and sending it keeps the types.
LEMMA SendTypes ==
    ASSUME NEW s, s \in [tdre : BOOLEAN, tdr : Char, tie : BOOLEAN,
                         rdrf : BOOLEAN, rdr : Char, rie : BOOLEAN],
           NEW c \in Char
    PROVE  SendByte(s, c) \in [tdre : BOOLEAN, tdr : Char, tie : BOOLEAN,
                               rdrf : BOOLEAN, rdr : Char, rie : BOOLEAN]
  BY DEF SendByte

LEMMA HandlerTypes ==
    ASSUME SystemInv, ConsoleInv, HandlerStep \/ HandlerEnter
    PROVE  ProgramTypes' /\ DeviceTypes'
  <1>0. TypeOK /\ ProgramTypes /\ DeviceTypes
    BY TypeParts DEF ConsoleInv
  <1>1. CASE HandlerEnter
    <2>1. /\ hpc' = "read"
          /\ UNCHANGED <<pc, todo, line, text, cons, sci, typed, shown, asked, taken>>
      BY <1>1 DEF HandlerEnter, terminal, history
    <2> QED
      BY <1>0, <2>1 DEF ProgramTypes, DeviceTypes, SciTypes
  <1>2. CASE HandlerRead
    <2>1. UNCHANGED <<pc, todo, line, text, typed, shown, taken>>
      BY <1>2 DEF HandlerRead, terminal
    <2>2. CASE ~(cons.id # NULL /\ sci.rdrf)
      <3>1. hpc' = "transmit" /\ UNCHANGED <<cons, sci, asked>>
        BY <1>2, <2>2 DEF HandlerRead
      <3> QED
        BY <1>0, <2>1, <3>1 DEF ProgramTypes, DeviceTypes, SciTypes
    <2>3. CASE cons.id # NULL /\ sci.rdrf
      <3> DEFINE c == IF sci.rdr = CR THEN LF ELSE sci.rdr
                 e == Expand(<<c>>)
                 read == [sci EXCEPT !.rdrf = FALSE]
                 echoed == Buffered(cons, <<c>>)
                 stored(k) == IF c = LF THEN k ELSE [k EXCEPT !.recv = Append(@, c)]
      <3>1. c \in Char
        BY <1>0, Characters DEF DeviceTypes, SciTypes
      <3>2. e \in Seq(Char)
        <4>1. <<c>> \in Seq(Char)
          BY <3>1
        <4> HIDE DEF c
        <4> QED
          BY <4>1, ExpandType
      <3>3. /\ asked' = asked \o e
            /\ hpc' = IF c = LF THEN "alloc" ELSE "transmit"
            /\ IF MustStart(echoed)
               THEN /\ sci' = SendByte([read EXCEPT !.tie = TRUE], First(echoed))
                    /\ cons' = stored(Shifted(echoed))
               ELSE sci' = read /\ cons' = stored(echoed)
        BY <1>2, <2>3 DEF HandlerRead
      <3>4. echoed = [cons EXCEPT !.send = @ \o e]
        BY DEF Buffered
      <3> HIDE DEF c, e, echoed
      <3>5. asked' \in Seq(Char) /\ hpc' \in {"alloc", "transmit"}
        BY <1>0, <3>2, <3>3 DEF DeviceTypes
      <3> DEFINE K == [id : TcbOrNull, send_buf : BlockOrNull, recv_buf : BlockOrNull,
                       send : Seq(Char), recv : Seq(Char)]
      <3>6. echoed \in K
        <4>1. cons.send \o e \in Seq(Char)
          BY <1>0, <3>2 DEF DeviceTypes
        <4> QED
          BY <1>0, <3>4, <4>1 DEF DeviceTypes
      <3>7. Shifted(echoed) \in K
        <4>1. SubSeq(echoed.send, 2, Len(echoed.send)) \in Seq(Char)
          BY <3>6
        <4> QED
          BY <3>6, <4>1 DEF Shifted
      <3>8. ASSUME NEW k \in K PROVE stored(k) \in K
        <4>1. Append(k.recv, c) \in Seq(Char)
          BY <3>1
        <4> QED
          BY <4>1
      <3>9. First(echoed) \in Char
        BY <1>0, <3>6 DEF First, DeviceTypes, SciTypes
      <3> DEFINE S == [tdre : BOOLEAN, tdr : Char, tie : BOOLEAN,
                       rdrf : BOOLEAN, rdr : Char, rie : BOOLEAN]
                 started == [read EXCEPT !.tie = TRUE]
      <3>10. read \in S /\ started \in S
        BY <1>0 DEF DeviceTypes, SciTypes
      <3>11. SendByte(started, First(echoed)) \in S
        <4> HIDE DEF started
        <4> QED
          BY <3>9, <3>10, SendTypes
      <3>12. sci' \in S /\ cons' \in K
        <4>1. cons' \in {stored(Shifted(echoed)), stored(echoed)}
          BY <3>3
        <4>2. sci' \in {SendByte(started, First(echoed)), read}
          BY <3>3
        <4> HIDE DEF K, stored, read, started, S
        <4> QED
          BY <3>6, <3>7, <3>8, <3>10, <3>11, <4>1, <4>2
      <3> QED
        BY <1>0, <2>1, <3>5, <3>12 DEF ProgramTypes, DeviceTypes, SciTypes
    <2> QED
      BY <2>2, <2>3
  <1>3. CASE HandlerAlloc
    <2>1. /\ hpc' = "send" /\ UNCHANGED <<pc, todo, line, cons, sci, typed, shown, asked, taken>>
          /\ text' = [text EXCEPT ![AllocBlock(mem, CONS_BUFFER_SIZE)] = cons.recv]
      BY <1>3 DEF HandlerAlloc, terminal, history
    <2>2. cons.recv \in Seq(Char)
      BY <1>0 DEF DeviceTypes
    <2> QED
      BY <1>0, <2>1, <2>2 DEF ProgramTypes, DeviceTypes, SciTypes
  <1>4. CASE HandlerSend
    <2>1. /\ hpc' = "transmit" /\ cons' = [cons EXCEPT !.recv = <<>>]
          /\ UNCHANGED <<pc, todo, line, text, sci, typed, shown, asked, taken>>
      BY <1>4 DEF HandlerSend, terminal, history
    <2>2. <<>> \in Seq(Char)
      OBVIOUS
    <2> QED
      BY <1>0, <2>1, <2>2 DEF ProgramTypes, DeviceTypes, SciTypes
  <1>5. CASE HandlerTransmit
    <2>1. UNCHANGED <<pc, hpc, todo, line, text, typed, shown, asked, taken>>
      BY <1>5 DEF HandlerTransmit, program, terminal, history
    <2>2. \/ UNCHANGED <<cons, sci>>
          \/ sci' = [sci EXCEPT !.tie = FALSE] /\ UNCHANGED cons
          \/ sci' = SendByte(sci, First(cons)) /\ cons' = Shifted(cons)
      BY <1>5 DEF HandlerTransmit
    <2>3. First(cons) \in Char /\ SubSeq(cons.send, 2, Len(cons.send)) \in Seq(Char)
      BY <1>0 DEF First, DeviceTypes, SciTypes
    <2>4. SciTypes'
      BY <1>0, <2>2, <2>3 DEF DeviceTypes, SciTypes, SendByte
    <2> QED
      BY <1>0, <2>1, <2>2, <2>3, <2>4 DEF ProgramTypes, DeviceTypes, Shifted
  <1> QED
    BY <1>1, <1>2, <1>3, <1>4, <1>5 DEF HandlerStep

LEMMA HardwareTypes ==
    ASSUME ProgramTypes, DeviceTypes, Transmit \/ Type
    PROVE  ProgramTypes' /\ DeviceTypes'
  <1>1. CASE Transmit
    <2>1. /\ sci' = [sci EXCEPT !.tdre = TRUE] /\ shown' = Append(shown, sci.tdr)
          /\ UNCHANGED <<pc, hpc, todo, line, text, cons, typed, asked, taken>>
      BY <1>1 DEF Transmit, program, history
    <2>2. shown' \in Seq(Char)
      <3>1. shown \in Seq(Char) /\ sci.tdr \in Char
        BY DEF DeviceTypes, SciTypes
      <3> QED
        BY <2>1, <3>1
    <2>3. SciTypes'
      BY <2>1 DEF DeviceTypes, SciTypes
    <2> QED
      BY <2>1, <2>2, <2>3 DEF ProgramTypes, DeviceTypes
  <1>2. CASE Type
    <2>1. /\ typed # <<>> /\ typed' = Tail(typed)
          /\ sci' = [sci EXCEPT !.rdrf = TRUE, !.rdr = Head(typed)]
          /\ UNCHANGED <<pc, hpc, todo, line, text, cons, shown, asked, taken>>
      BY <1>2 DEF Type, program, history
    <2>2. Head(typed) \in Char /\ Tail(typed) \in Seq(Char)
      BY <2>1 DEF DeviceTypes
    <2> QED
      BY <2>1, <2>2 DEF ProgramTypes, DeviceTypes, SciTypes
  <1> QED
    BY <1>1, <1>2

LEMMA TypesStep ==
    ASSUME SystemInv, ConsoleInv, [ConsoleNext]_consoleVars
    PROVE  ConsoleTypeOK'
  <1>1. TypeOK'
    BY SystemStep DEF SystemInv, KernelInv
  <1>2. TypeOK /\ ProgramTypes /\ DeviceTypes
    BY TypeParts DEF ConsoleInv
  <1>3. UNCHANGED consoleVars => ProgramTypes' /\ DeviceTypes'
    BY <1>2 DEF consoleVars, program, terminal, history, ProgramTypes, DeviceTypes, SciTypes
  <1>4. ProgramTypes' /\ DeviceTypes'
    BY <1>2, <1>3, IdleTypes, CommandTypes, DriverTypes, HandlerTypes, HardwareTypes
       DEF ConsoleNext, Processor
  <1>5. ConsoleTypeOK' <=> TypeOK' /\ ProgramTypes' /\ DeviceTypes'
    BY DEF ConsoleTypeOK, ProgramTypes, DeviceTypes, SciTypes
  <1> QED
    BY <1>1, <1>4, <1>5

-------------------------------------------------------------------------------
(***************************************************************************)
(* The output.  Most steps do not touch it.                                *)
(***************************************************************************)
Sending == {"start", "byte", "shift"}

LEMMA QuietOutput ==
    ASSUME ConsoleInv, UNCHANGED <<sci, shown, asked>>, cons'.send = cons.send,
           pc[Driver] \notin Sending, pc'[Driver] \notin Sending,
           pc'[Driver] \in Critical =>
               mode' = "user" /\ sched'.current = Driver /\ Driver \in masked',
           mode' = "handler" => Up
    PROVE  OutputInv'
  <1>1. Up' = Up /\ InTransmitter' = InTransmitter
    BY DEF Up, InTransmitter
  <1>2. Unsent' = cons.send /\ Unsent = cons.send
    BY DEF Unsent, Sending
  <1>3. OutputInOrder' /\ OutputDriven'
    BY <1>1, <1>2 DEF ConsoleInv, OutputInOrder, OutputDriven, Sending
  <1>4. Fresh'
    BY <1>1 DEF ConsoleInv, Fresh
  <1> QED
    BY <1>1, <1>3, <1>4 DEF OutputInv, Masked, Sending

\* A step that leaves the driver where it is, outside of its critical section.
LEMMA ElsewhereOutput ==
    ASSUME ConsoleInv, UNCHANGED <<sci, shown, asked>>, cons'.send = cons.send,
           pc'[Driver] = pc[Driver], pc[Driver] \notin Critical,
           mode' = "handler" => Up
    PROVE  OutputInv'
  BY QuietOutput DEF Sending, Critical

LEMMA OutsideOutput ==
    ASSUME SystemInv, ConsoleInv, IdleStep \/ CommandStep
    PROVE  OutputInv'
  <1>1. UNCHANGED <<sci, shown, asked, cons>>
    BY DEF IdleStep, CommandStep, CommandAlloc, CommandSend, CommandRecv, CommandLine,
           CommandFree, terminal, history
  <1>2. \E t \in {Idle, Command} : \E label : At(t, label) /\ \E next : Goto(t, next)
    BY DEF IdleStep, CommandStep, CommandAlloc, CommandSend, CommandRecv, CommandLine,
           CommandFree
  <1>3. pc'[Driver] = pc[Driver] /\ pc[Driver] \notin Critical
    <2> QED
      BY <1>2, Undisturbed, ConsoleInvParts, TypeParts, Threads DEF Goto, ProgramTypes
  <1>4. mode = "user" /\ mode' # "handler"
    <2>1. mode = "user"
      BY <1>2 DEF At
    <2>2. CASE IdleStep
      <3>1. 1 \in Prio \ {0} /\ 8 \in Prio \ {0} /\ 15 \in Prio
        BY ConsoleAssumption DEF Prio
      <3> QED
        BY <2>1, <2>2, <3>1, QuietCall DEF IdleStep, INTR_ENABLE, IntrMask, Returns
    <2>3. CASE CommandStep
      <3>1. held[Command] \subseteq Block
        BY CurrentTypes, Threads DEF SystemInv, HeapTypes
      <3>2. CASE CommandSend
        BY <2>1, <3>1, <3>2, SendCall, Threads DEF CommandSend, Returns
      <3>3. CASE CommandAlloc \/ CommandRecv \/ CommandFree
        BY <2>1, <3>3, AllocCall, RecvCall, FreeCall, Threads
           DEF CommandAlloc, CommandRecv, CommandFree, Returns
      <3>4. CASE CommandLine
        BY <2>1, <3>4 DEF CommandLine, vars
      <3> QED
        BY <2>3, <3>2, <3>3, <3>4 DEF CommandStep
    <2> QED
      BY <2>2, <2>3
  <1> QED
    BY <1>1, <1>3, <1>4, ElsewhereOutput

\* A sequence is its first element and the rest.
LEMMA FirstAndRest ==
    ASSUME NEW S, NEW s \in Seq(S), s # <<>>
    PROVE  /\ Head(s) \in S /\ SubSeq(s, 2, Len(s)) \in Seq(S)
           /\ <<Head(s)>> \o SubSeq(s, 2, Len(s)) = s
  <1>1. Len(s) \in Nat /\ 1 \in 1..Len(s) /\ Len(s) \in 1..Len(s)
    OBVIOUS
  <1>2. SubSeq(s, 1, Len(s)) = <<s[1]>> \o SubSeq(s, 1 + 1, Len(s))
    BY <1>1, SubSeqRecursiveFirst
  <1>3. SubSeq(s, 1, Len(s)) = s /\ SubSeq(s, 2, Len(s)) \in Seq(S)
    BY SubSeqFull
  <1>4. Head(s) = s[1] /\ Head(s) \in S
    OBVIOUS
  <1> QED
    BY <1>2, <1>3, <1>4

LEMMA OutputTypes ==
    ASSUME DeviceTypes
    PROVE  /\ shown \in Seq(Char) /\ asked \in Seq(Char) /\ cons.send \in Seq(Char)
           /\ sci.tdr \in Char /\ sci.tdre \in BOOLEAN /\ InTransmitter \in Seq(Char)
           /\ sci.tie \in BOOLEAN /\ sci.rie \in BOOLEAN
  <1>1. /\ shown \in Seq(Char) /\ asked \in Seq(Char) /\ cons.send \in Seq(Char)
        /\ sci.tdr \in Char /\ sci.tdre \in BOOLEAN
        /\ sci.tie \in BOOLEAN /\ sci.rie \in BOOLEAN
    BY DEF DeviceTypes, SciTypes
  <1>2. <<sci.tdr>> \in Seq(Char) /\ <<>> \in Seq(Char)
    BY <1>1
  <1> QED
    BY <1>1, <1>2 DEF InTransmitter

\* What is asked for is put behind what waits.
LEMMA OutputAppended ==
    ASSUME DeviceTypes, NEW e \in Seq(Char), shown \o InTransmitter \o cons.send = asked
    PROVE  shown \o InTransmitter \o (cons.send \o e) = asked \o e
  <1>1. shown \in Seq(Char) /\ InTransmitter \in Seq(Char) /\ cons.send \in Seq(Char)
    BY OutputTypes
  <1>2. PICK sent \in Seq(Char) : sent = shown \o InTransmitter
    BY <1>1, ConcatProperties
  <1>3. PICK unsent \in Seq(Char) : unsent = cons.send
    BY <1>1
  <1>4. (sent \o unsent) \o e = sent \o (unsent \o e)
    BY ConcatAssociative
  <1> QED
    BY <1>2, <1>3, <1>4

\* The first character that waits goes into the free transmitter.
LEMMA OutputShifted ==
    ASSUME DeviceTypes, sci.tdre, NEW q \in Seq(Char), q # <<>>,
           NEW all, shown \o InTransmitter \o q = all
    PROVE  shown \o <<Head(q)>> \o SubSeq(q, 2, Len(q)) = all
  <1>1. PICK a \in Seq(Char) : a = shown
    BY OutputTypes
  <1>2. PICK h \in Seq(Char), r \in Seq(Char) :
            h = <<Head(q)>> /\ r = SubSeq(q, 2, Len(q)) /\ h \o r = q
    <2>1. Head(q) \in Char /\ SubSeq(q, 2, Len(q)) \in Seq(Char)
          /\ <<Head(q)>> \o SubSeq(q, 2, Len(q)) = q
      BY FirstAndRest
    <2>2. <<Head(q)>> \in Seq(Char)
      BY <2>1
    <2> QED
      BY <2>1, <2>2
  <1>3. a \o <<>> = a /\ (a \o h) \o r = a \o (h \o r)
    BY ConcatEmptySeq, ConcatAssociative, SMTT(30)
  <1> QED
    BY <1>1, <1>2, <1>3 DEF InTransmitter

LEMMA SciFields ==
    ASSUME DeviceTypes, NEW c
    PROVE  /\ SendByte(sci, c).tdr = c /\ SendByte(sci, c).tdre = FALSE
           /\ SendByte(sci, c).tie = sci.tie /\ SendByte(sci, c).rie = sci.rie
  BY DEF DeviceTypes, SciTypes, SendByte

LEMMA ShiftedSend ==
    ASSUME NEW k \in [id : TcbOrNull, send_buf : BlockOrNull, recv_buf : BlockOrNull,
                      send : Seq(Char), recv : Seq(Char)]
    PROVE  Shifted(k).send = SubSeq(k.send, 2, Len(k.send))
  BY DEF Shifted

\* The steps of the driver that leave the output alone.
LEMMA DriverQuietOutput ==
    ASSUME SystemInv, ConsoleInv,
           \/ DriverSetintr \/ DriverRecv \/ DriverRequest \/ DriverAllocSend
           \/ DriverAllocRecv \/ DriverMask \/ DriverUnmask \/ DriverFree
    PROVE  OutputInv'
  <1>0. ProgramTypes /\ DeviceTypes
    BY TypeParts DEF ConsoleInv
  <1>1. UNCHANGED <<sci, shown, asked>> /\ cons'.send = cons.send
    <2>1. UNCHANGED <<sci, shown, asked>>
      BY DEF DriverSetintr, DriverRecv, DriverRequest, DriverAllocSend, DriverAllocRecv,
             DriverMask, DriverUnmask, DriverFree, terminal, history
    <2>2. cons' = cons \/ \E x : cons' \in {[cons EXCEPT !.id = x], [cons EXCEPT !.send_buf = x],
                                            [cons EXCEPT !.recv_buf = x]}
      BY DEF DriverSetintr, DriverRecv, DriverRequest, DriverAllocSend, DriverAllocRecv,
             DriverMask, DriverUnmask, DriverFree
    <2> QED
      BY <1>0, <2>1, <2>2 DEF DeviceTypes
  <1>2. mode = "user" /\ pc[Driver] \notin Sending /\ sched.current = Driver
    BY DEF DriverSetintr, DriverRecv, DriverRequest, DriverAllocSend, DriverAllocRecv,
           DriverMask, DriverUnmask, DriverFree, At, Sending
  <1>3. mode' # "handler"
    <2>1. CASE DriverSetintr \/ DriverAllocSend \/ DriverAllocRecv \/ DriverFree \/ DriverRecv
      BY <1>2, <2>1, QuietCall, AllocCall, FreeCall, RecvCall, Threads
         DEF DriverSetintr, DriverAllocSend, DriverAllocRecv, DriverFree, DriverRecv, Returns
    <2>2. CASE DriverRequest \/ DriverMask \/ DriverUnmask
      BY <1>2, <2>2 DEF DriverRequest, DriverMask, DriverUnmask, vars, INTR_DISABLE,
                        INTR_ENABLE, IntrMask
    <2> QED
      BY <2>1, <2>2
  <1>4. pc'[Driver] \in {"recv", "request", "alloc send_buf", "alloc recv_buf", "serial_init",
                         "mask", "append", "free"}
        /\ (pc'[Driver] = "append" => DriverMask)
    BY <1>0, Threads DEF ProgramTypes, Goto, DriverSetintr, DriverRecv, DriverRequest,
        DriverAllocSend, DriverAllocRecv, DriverMask, DriverUnmask, DriverFree
  <1>5. DriverMask => mode' = "user" /\ sched'.current = Driver /\ Driver \in masked'
    BY <1>2 DEF DriverMask, INTR_DISABLE, IntrMask
  <1> QED
    BY <1>1, <1>2, <1>3, <1>4, <1>5, QuietOutput DEF Sending, Critical

\* What the steps of the critical section, and serial_init, start from.
LEMMA AtTheDevice ==
    ASSUME ConsoleInv, NEW label, At(Driver, label), UNCHANGED vars
    PROVE  /\ mode = "user" /\ mode' = "user" /\ pc[Driver] = label
           /\ label \in Critical =>
                 /\ Up /\ sched'.current = Driver /\ Driver \in masked'
           /\ label = "serial_init" => ~Up
  <1>1. mode = "user" /\ pc[Driver] = label /\ mode' = mode /\ sched' = sched /\ masked' = masked
    BY DEF At, vars
  <1> QED
    BY <1>1 DEF ConsoleInv, Masked, InOrder, Setup

LEMMA InitOutput ==
    ASSUME ConsoleInv, DriverInit
    PROVE  OutputInv'
  <1>0. ProgramTypes /\ DeviceTypes
    BY TypeParts DEF ConsoleInv
  <1>1. /\ At(Driver, "serial_init") /\ UNCHANGED vars
        /\ cons' = [cons EXCEPT !.send = <<>>, !.recv = <<>>]
        /\ sci' = [InitialSci EXCEPT !.rie = TRUE]
        /\ UNCHANGED <<shown, asked>> /\ Goto(Driver, "free")
    BY DEF DriverInit, terminal, history
  <1>2. ~Up /\ mode' = "user" /\ pc'[Driver] = "free"
    BY <1>0, <1>1, AtTheDevice, Threads DEF Goto, ProgramTypes
  <1>3. shown' = <<>> /\ asked' = <<>> /\ cons'.send = <<>> /\ sci'.tdre /\ sci'.rie
    BY <1>0, <1>1, <1>2 DEF ConsoleInv, Fresh, DeviceTypes, InitialSci
  <1>4. OutputInOrder'
    BY <1>2, <1>3 DEF OutputInOrder, InTransmitter, Unsent
  <1> QED
    BY <1>2, <1>3, <1>4 DEF OutputInv, Masked, Critical, Fresh, Up, OutputDriven

LEMMA AppendOutput ==
    ASSUME SystemInv, ConsoleInv, DriverAppend
    PROVE  OutputInv'
  <1>0. ProgramTypes /\ DeviceTypes
    BY TypeParts DEF ConsoleInv
  <1> DEFINE str == SubSeq(text[Request], 3, Len(text[Request]))
  <1>1. /\ At(Driver, "append") /\ UNCHANGED vars /\ Goto(Driver, "start")
        /\ cons' = [cons EXCEPT !.send = @ \o Expand(str)]
        /\ asked' = asked \o Expand(str) /\ UNCHANGED <<sci, shown>>
    BY DEF DriverAppend, terminal, Buffered
  <1>2. Expand(str) \in Seq(Char)
    <2>1. text[Request] \in Seq(Char)
      BY <1>0, <1>1, TheRequest DEF Listens, ProgramTypes
    <2>2. str \in Seq(Char)
      BY <2>1
    <2> HIDE DEF str
    <2> QED
      BY <2>2, ExpandType
  <1>3. PICK e \in Seq(Char) : e = Expand(str)
    BY <1>2
  <1> HIDE DEF str
  <1>4. /\ Up /\ mode' = "user" /\ sched'.current = Driver /\ Driver \in masked'
        /\ pc[Driver] = "append" /\ pc'[Driver] = "start"
    BY <1>0, <1>1, AtTheDevice, Threads DEF Critical, Goto, ProgramTypes
  <1>5. cons'.send = cons.send \o e /\ asked' = asked \o e
    BY <1>0, <1>1, <1>3 DEF DeviceTypes
  <1>6. shown \o InTransmitter \o cons.send = asked
    BY <1>4 DEF ConsoleInv, OutputInOrder, Unsent
  <1>7. shown \o InTransmitter \o (cons.send \o e) = asked \o e
    BY <1>0, <1>6, OutputAppended
  <1>8. OutputInOrder'
    BY <1>1, <1>4, <1>5, <1>7 DEF OutputInOrder, InTransmitter, Unsent
  <1> QED
    BY <1>1, <1>4, <1>8 DEF OutputInv, Masked, Fresh, Up, OutputDriven

LEMMA StartOutput ==
    ASSUME ConsoleInv, DriverStart
    PROVE  OutputInv'
  <1>0. ProgramTypes /\ DeviceTypes
    BY TypeParts DEF ConsoleInv
  <1>1. /\ At(Driver, "start") /\ UNCHANGED vars /\ UNCHANGED <<cons, shown, asked>>
        /\ \/ MustStart(cons) /\ sci' = [sci EXCEPT !.tie = TRUE] /\ Goto(Driver, "byte")
           \/ ~MustStart(cons) /\ sci' = sci /\ Goto(Driver, "unmask")
    BY DEF DriverStart, terminal, history
  <1>2. /\ Up /\ mode' = "user" /\ sched'.current = Driver /\ Driver \in masked'
        /\ pc[Driver] = "start"
    BY <1>1, AtTheDevice DEF Critical
  <1>3. /\ sci'.tdre = sci.tdre /\ sci'.tdr = sci.tdr /\ sci'.rie = sci.rie
        /\ cons.send # <<>> => sci'.tie
        /\ pc'[Driver] \in {"byte", "unmask"} /\ (pc'[Driver] = "byte" => cons.send # <<>>)
    BY <1>0, <1>1, Threads DEF MustStart, DeviceTypes, SciTypes, Goto, ProgramTypes
  <1>4. InTransmitter' = InTransmitter /\ Unsent' = cons.send /\ Unsent = cons.send
    BY <1>1, <1>2, <1>3 DEF InTransmitter, Unsent
  <1>5. OutputInOrder'
    BY <1>1, <1>4 DEF ConsoleInv, OutputInOrder
  <1> QED
    BY <1>1, <1>2, <1>3, <1>5 DEF OutputInv, Masked, Fresh, Up, OutputDriven

LEMMA ByteOutput ==
    ASSUME ConsoleInv, DriverByte
    PROVE  OutputInv'
  <1>0. ProgramTypes /\ DeviceTypes
    BY TypeParts DEF ConsoleInv
  <1>1. /\ At(Driver, "byte") /\ UNCHANGED vars /\ UNCHANGED <<cons, shown, asked>>
        /\ sci.tdre /\ sci' = SendByte(sci, First(cons)) /\ Goto(Driver, "shift")
    BY DEF DriverByte, terminal, history
  <1>2. /\ Up /\ mode' = "user" /\ sched'.current = Driver /\ Driver \in masked'
        /\ pc[Driver] = "byte" /\ pc'[Driver] = "shift"
    BY <1>0, <1>1, AtTheDevice, Threads DEF Critical, Goto, ProgramTypes
  <1>3. cons.send # <<>> /\ sci.tie /\ cons.send \in Seq(Char)
    BY <1>0, <1>2, OutputTypes DEF ConsoleInv, OutputDriven
  <1>4. sci'.tdr = Head(cons.send) /\ ~sci'.tdre /\ sci'.tie /\ sci'.rie = sci.rie
    BY <1>0, <1>1, <1>3, SciFields DEF First
  <1> DEFINE r == SubSeq(cons.send, 2, Len(cons.send))
  <1>5. Unsent' = r /\ InTransmitter' = <<Head(cons.send)>>
    BY <1>0, <1>1, <1>2, <1>4, ShiftedSend DEF Unsent, InTransmitter, DeviceTypes
  <1>6. shown \o InTransmitter \o cons.send = asked
    BY <1>2 DEF ConsoleInv, OutputInOrder, Unsent
  <1>8. shown \o <<Head(cons.send)>> \o r = asked
    BY <1>0, <1>1, <1>3, <1>6, OutputShifted
  <1>9. OutputInOrder'
    BY <1>1, <1>5, <1>8 DEF OutputInOrder
  <1> QED
    BY <1>1, <1>2, <1>4, <1>9 DEF OutputInv, Masked, Critical, Fresh, Up, OutputDriven

LEMMA ShiftOutput ==
    ASSUME ConsoleInv, DriverShift
    PROVE  OutputInv'
  <1>0. ProgramTypes /\ DeviceTypes
    BY TypeParts DEF ConsoleInv
  <1>1. /\ At(Driver, "shift") /\ UNCHANGED vars /\ UNCHANGED <<sci, shown, asked>>
        /\ cons' = Shifted(cons) /\ Goto(Driver, "unmask")
    BY DEF DriverShift, terminal, history
  <1>2. /\ Up /\ mode' = "user" /\ sched'.current = Driver /\ Driver \in masked'
        /\ pc[Driver] = "shift" /\ pc'[Driver] = "unmask"
    BY <1>0, <1>1, AtTheDevice, Threads DEF Critical, Goto, ProgramTypes
  <1>3. Unsent' = Unsent /\ InTransmitter' = InTransmitter
    BY <1>1, <1>2 DEF Unsent, InTransmitter
  <1>4. OutputInOrder'
    BY <1>1, <1>3 DEF ConsoleInv, OutputInOrder
  <1>5. cons'.send # <<>> => sci.tie
    <2>1. cons.send = <<>> => SubSeq(cons.send, 2, Len(cons.send)) = <<>>
      OBVIOUS
    <2> QED
      BY <1>0, <1>1, <1>2, <2>1, ShiftedSend DEF ConsoleInv, OutputDriven, DeviceTypes
  <1> QED
    BY <1>1, <1>2, <1>4, <1>5 DEF OutputInv, Masked, Fresh, Up, OutputDriven

\* A step of the handler or the channel, once the console is up.
LEMMA DeviceOutput ==
    ASSUME Up, sci'.rie = sci.rie, pc'[Driver] = pc[Driver], pc[Driver] \notin Critical,
           shown' \o InTransmitter' \o cons'.send = asked',
           cons'.send # <<>> => sci'.tie
    PROVE  OutputInv'
  <1>1. OutputInOrder' /\ OutputDriven'
    BY DEF OutputInOrder, OutputDriven, Unsent, Critical
  <1> QED
    BY <1>1 DEF OutputInv, Masked, Fresh, Up, Critical

\* The handler finds the console up and the driver out of its way.
LEMMA AtInterrupt ==
    ASSUME ConsoleInv, mode = "handler"
    PROVE  /\ Up /\ pc[Driver] \notin Critical
           /\ shown \o InTransmitter \o cons.send = asked
           /\ cons.send # <<>> => sci.tie \/ pc[Driver] = "start"
  <1>1. Up /\ pc[Driver] \notin Critical
    BY Undisturbed, ConsoleInvParts DEF ConsoleInv
  <1> QED
    BY <1>1 DEF ConsoleInv, OutputInOrder, OutputDriven, Unsent, Critical

LEMMA EnterOutput ==
    ASSUME ConsoleInv, HandlerEnter
    PROVE  OutputInv'
  <1>1. /\ Pending /\ IntrEnter /\ mode' = "handler"
        /\ UNCHANGED <<pc, cons, sci, shown, asked>>
    BY DEF HandlerEnter, IntrEnter, terminal, history
  <1>2. Up
    BY <1>1 DEF ConsoleInv, Fresh, Pending, InitialSci
  <1>3. pc[Driver] \notin Critical
    BY <1>1, Undisturbed, ConsoleInvParts
  <1> QED
    BY <1>1, <1>2, <1>3, ElsewhereOutput

LEMMA ServiceOutput ==
    ASSUME ConsoleInv, HandlerAlloc \/ HandlerSend
    PROVE  OutputInv'
  <1>0. DeviceTypes
    BY TypeParts DEF ConsoleInv
  <1>1. /\ mode = "handler" /\ UNCHANGED <<pc, sci, shown, asked>>
        /\ cons' \in {cons, [cons EXCEPT !.recv = <<>>]}
    BY DEF HandlerAlloc, HandlerSend, terminal, history
  <1>2. cons'.send = cons.send
    BY <1>0, <1>1 DEF DeviceTypes
  <1>3. Up /\ pc[Driver] \notin Critical
    BY <1>1, AtInterrupt
  <1> QED
    BY <1>1, <1>2, <1>3, ElsewhereOutput

\* The character typed is asked for again: that is the echo.
LEMMA ReadOutput ==
    ASSUME ConsoleInv, HandlerRead
    PROVE  OutputInv'
  <1>0. DeviceTypes
    BY TypeParts DEF ConsoleInv
  <1>1. /\ mode = "handler" /\ UNCHANGED <<pc, shown>>
    BY DEF HandlerRead, terminal
  <1>2. /\ Up /\ pc[Driver] \notin Critical
        /\ shown \o InTransmitter \o cons.send = asked
        /\ cons.send # <<>> => sci.tie \/ pc[Driver] = "start"
    BY <1>1, AtInterrupt
  <1>3. CASE ~(cons.id # NULL /\ sci.rdrf)
    <2>1. UNCHANGED <<cons, sci, asked>>
      BY <1>3 DEF HandlerRead
    <2> QED
      BY <1>1, <1>2, <2>1, ElsewhereOutput
  <1>4. CASE cons.id # NULL /\ sci.rdrf
    <2> DEFINE c == IF sci.rdr = CR THEN LF ELSE sci.rdr
               read == [sci EXCEPT !.rdrf = FALSE]
               echoed == [cons EXCEPT !.send = @ \o Expand(<<c>>)]
               stored(k) == IF c = LF THEN k ELSE [k EXCEPT !.recv = Append(@, c)]
               started == [read EXCEPT !.tie = TRUE]
    <2>1. Expand(<<c>>) \in Seq(Char)
      <3>1. c \in Char
        BY <1>0, Characters DEF DeviceTypes, SciTypes
      <3>2. <<c>> \in Seq(Char)
        BY <3>1
      <3> HIDE DEF c
      <3> QED
        BY <3>2, ExpandType
    <2>2. PICK e \in Seq(Char) : e = Expand(<<c>>)
      BY <2>1
    <2>3. /\ asked' = asked \o Expand(<<c>>)
          /\ \/ /\ MustStart(echoed) /\ sci.tdre
                /\ sci' = SendByte(started, First(echoed))
                /\ cons' = stored(Shifted(echoed))
             \/ ~MustStart(echoed) /\ sci' = read /\ cons' = stored(echoed)
      BY <1>4 DEF HandlerRead, Buffered
    <2> DEFINE K == [id : TcbOrNull, send_buf : BlockOrNull, recv_buf : BlockOrNull,
                     send : Seq(Char), recv : Seq(Char)]
               q == cons.send \o e
    <2>4. q \in Seq(Char) /\ cons \in K
      <3>1. cons.send \in Seq(Char) /\ cons \in K
        BY <1>0 DEF DeviceTypes
      <3> QED
        BY <3>1
    <2>5. echoed \in K /\ echoed.send = q
      BY <2>2, <2>4
    <2>6. shown \o InTransmitter \o q = asked'
      BY <1>0, <1>2, <2>2, <2>3, OutputAppended
    <2> HIDE DEF c, q, echoed
    <2>7. \A k \in K : stored(k).send = k.send
      OBVIOUS
    <2>8. Shifted(echoed) \in K /\ Shifted(echoed).send = SubSeq(q, 2, Len(q))
      <3>1. SubSeq(q, 2, Len(q)) \in Seq(Char)
        BY <2>4
      <3> QED
        BY <2>5, <3>1 DEF Shifted
    <2> HIDE DEF stored
    <2>9. CASE MustStart(echoed)
      <3>1. q # <<>> /\ First(echoed) = Head(q) /\ sci.tdre
        BY <2>3, <2>5, <2>9 DEF MustStart, First
      <3>2. sci' = SendByte(started, Head(q)) /\ cons' = stored(Shifted(echoed))
        BY <2>3, <2>9, <3>1
      <3>3. sci'.tdr = Head(q) /\ ~sci'.tdre /\ sci'.tie /\ sci'.rie = sci.rie
        BY <1>0, <3>2 DEF SendByte, DeviceTypes, SciTypes
      <3>4. cons'.send = SubSeq(q, 2, Len(q)) /\ InTransmitter' = <<Head(q)>>
        BY <2>7, <2>8, <3>2, <3>3 DEF InTransmitter
      <3>5. shown \o <<Head(q)>> \o SubSeq(q, 2, Len(q)) = asked'
        BY <1>0, <2>4, <2>6, <3>1, OutputShifted
      <3> QED
        BY <1>1, <1>2, <3>3, <3>4, <3>5, DeviceOutput
    <2>10. CASE ~MustStart(echoed)
      <3>1. sci' = read /\ cons' = stored(echoed)
        BY <2>3, <2>10
      <3>2. /\ sci'.tdr = sci.tdr /\ sci'.tdre = sci.tdre /\ sci'.tie = sci.tie
            /\ sci'.rie = sci.rie
        BY <1>0, <3>1 DEF DeviceTypes, SciTypes
      <3>3. cons'.send = q /\ InTransmitter' = InTransmitter
        BY <2>5, <2>7, <3>1, <3>2 DEF InTransmitter
      <3>4. cons'.send # <<>> => sci'.tie
        BY <2>5, <2>10, <3>2, <3>3 DEF MustStart
      <3> QED
        BY <1>1, <1>2, <2>6, <3>2, <3>3, <3>4, DeviceOutput
    <2> QED
      BY <2>9, <2>10
  <1> QED
    BY <1>3, <1>4

LEMMA TransmitOutput ==
    ASSUME ConsoleInv, HandlerTransmit
    PROVE  OutputInv'
  <1>0. DeviceTypes
    BY TypeParts DEF ConsoleInv
  <1>1. mode = "handler" /\ UNCHANGED <<pc, shown, asked>>
    BY DEF HandlerTransmit, program, terminal, history
  <1>2. /\ Up /\ pc[Driver] \notin Critical
        /\ shown \o InTransmitter \o cons.send = asked
        /\ cons.send # <<>> => sci.tie
    BY <1>1, AtInterrupt DEF Critical
  <1>3. CASE UNCHANGED <<cons, sci>>
    BY <1>1, <1>2, <1>3, ElsewhereOutput
  <1>4. CASE cons.send = <<>> /\ sci' = [sci EXCEPT !.tie = FALSE] /\ cons' = cons
    <2>1. sci'.tdr = sci.tdr /\ sci'.tdre = sci.tdre /\ sci'.rie = sci.rie
      BY <1>0, <1>4 DEF DeviceTypes, SciTypes
    <2>2. InTransmitter' = InTransmitter
      BY <2>1 DEF InTransmitter
    <2> QED
      BY <1>1, <1>2, <1>4, <2>1, <2>2, DeviceOutput
  <1>5. CASE /\ cons.send # <<>> /\ sci.tdre
             /\ sci' = SendByte(sci, First(cons)) /\ cons' = Shifted(cons)
    <2>1. PICK q \in Seq(Char) : q = cons.send
      BY <1>0, OutputTypes
    <2>2. q # <<>> /\ First(cons) = Head(q)
      BY <1>5, <2>1 DEF First
    <2>3. sci'.tdr = Head(q) /\ ~sci'.tdre /\ sci'.tie = sci.tie /\ sci'.rie = sci.rie
      BY <1>0, <1>5, <2>2, SciFields
    <2>4. cons'.send = SubSeq(q, 2, Len(q)) /\ InTransmitter' = <<Head(q)>>
      BY <1>0, <1>5, <2>1, <2>3, ShiftedSend DEF InTransmitter, DeviceTypes
    <2>5. shown \o <<Head(q)>> \o SubSeq(q, 2, Len(q)) = asked
      BY <1>0, <1>2, <1>5, <2>1, <2>2, OutputShifted
    <2> QED
      BY <1>1, <1>2, <1>5, <2>3, <2>4, <2>5, DeviceOutput
  <1> QED
    BY <1>3, <1>4, <1>5 DEF HandlerTransmit

\* The transmitter is done with its character, or a character arrives.
LEMMA HardwareOutput ==
    ASSUME ConsoleInv, Transmit \/ Type
    PROVE  OutputInv'
  <1>0. DeviceTypes
    BY TypeParts DEF ConsoleInv
  <1>1. UNCHANGED <<sched, masked, mode, pc, cons, asked>>
    BY DEF Transmit, Type, vars, program, history
  <1>2. OutputInv /\ OutputInOrder
    BY ConsoleInvParts DEF ConsoleInv
  <1>3. Unsent' = Unsent
    BY <1>1 DEF Unsent, Shifted
  <1>4. CASE Transmit
    <2>1. ~sci.tdre /\ sci' = [sci EXCEPT !.tdre = TRUE] /\ shown' = Append(shown, sci.tdr)
      BY <1>4 DEF Transmit
    <2>2. sci'.tdre /\ sci'.tie = sci.tie /\ sci'.rie = sci.rie
      BY <1>0, <2>1 DEF DeviceTypes, SciTypes
    <2>3. shown' \o <<>> = shown \o <<sci.tdr>>
      <3>1. PICK a \in Seq(Char), x \in Char : a = shown /\ x = sci.tdr
        BY <1>0, OutputTypes
      <3>2. Append(a, x) \o <<>> = a \o <<x>>
        OBVIOUS
      <3> QED
        BY <2>1, <3>1, <3>2
    <2>4. OutputInOrder'
      BY <1>1, <1>2, <1>3, <2>1, <2>2, <2>3 DEF OutputInOrder, InTransmitter
    <2>5. Up
      BY <1>2, <2>1 DEF OutputInv, Fresh, InitialSci
    <2> QED
      BY <1>1, <1>2, <2>2, <2>4, <2>5 DEF OutputInv, Masked, Fresh, Up, OutputDriven
  <1>5. CASE Type
    <2>1. /\ sci.rie /\ shown' = shown
          /\ sci' = [sci EXCEPT !.rdrf = TRUE, !.rdr = Head(typed)]
      BY <1>5 DEF Type
    <2>2. /\ sci'.tdr = sci.tdr /\ sci'.tdre = sci.tdre /\ sci'.tie = sci.tie
          /\ sci'.rie = sci.rie
      BY <1>0, <2>1 DEF DeviceTypes, SciTypes
    <2>3. OutputInOrder'
      BY <1>1, <1>2, <1>3, <2>1, <2>2 DEF OutputInOrder, InTransmitter
    <2> QED
      BY <1>1, <1>2, <2>1, <2>2, <2>3 DEF OutputInv, Masked, Fresh, Up, OutputDriven
  <1> QED
    BY <1>4, <1>5

LEMMA OutputStep ==
    ASSUME SystemInv, ConsoleInv, [ConsoleNext]_consoleVars
    PROVE  OutputInv'
  <1>1. CASE UNCHANGED consoleVars
    <2>1. UNCHANGED <<sched, masked, mode, pc, cons, sci, shown, asked>>
      BY <1>1 DEF consoleVars, vars, program, terminal, history
    <2> QED
      BY <2>1, ConsoleInvParts DEF OutputInv, Masked, Fresh, Up, OutputInOrder, OutputDriven,
                                   InTransmitter, Unsent, Shifted
  <1>2. CASE IdleStep \/ CommandStep
    BY <1>2, OutsideOutput
  <1>3. CASE DriverStep
    BY <1>3, DriverQuietOutput, InitOutput, AppendOutput, StartOutput, ByteOutput, ShiftOutput
       DEF DriverStep
  <1>4. CASE HandlerEnter \/ HandlerStep
    BY <1>4, EnterOutput, ServiceOutput, ReadOutput, TransmitOutput DEF HandlerStep
  <1>5. CASE Transmit \/ Type
    BY <1>5, HardwareOutput
  <1> QED
    BY <1>1, <1>2, <1>3, <1>4, <1>5 DEF ConsoleNext, Processor

-------------------------------------------------------------------------------
(***************************************************************************)
(* The requests.  Most steps neither send, serve nor rewrite one: the      *)
(* driver stays in the same phase of its work, and the box, the blocks it  *)
(* owns and what lies in them stay as they are.                            *)
(***************************************************************************)
SamePhase ==
    \/ pc'[Driver] = pc[Driver]
    \/ {pc[Driver], pc'[Driver]} \subseteq Listens
    \/ {pc[Driver], pc'[Driver]} \subseteq Critical \cup {"mask", "free"}
SameConsole ==
    /\ cons'.id = cons.id /\ cons'.send_buf = cons.send_buf /\ cons'.recv_buf = cons.recv_buf
    /\ sci'.rie = sci.rie
SameBox ==
    /\ ipc'.queue[CONSOUTPUT] = ipc.queue[CONSOUTPUT]
    /\ ipc'.receiver[CONSOUTPUT] = ipc.receiver[CONSOUTPUT]
    /\ ipc'.receiver[CONSINPUT] # Driver
    /\ \A mp \in Range(ipc.queue[CONSOUTPUT]) : /\ ipc'.p[mp] = ipc.p[mp]
                                                /\ text'[ipc.p[mp]] = text[ipc.p[mp]]
SameBlocks ==
    /\ held'[Driver] = held[Driver]
    /\ \A p \in held[Driver] : text'[p] = text[p]
SameTodo ==
    /\ Unsaid' = Unsaid
    /\ \A i \in 1..Len(todo') : todo'[i][2] = "w" \/ (i = 1 /\ Unsaid')

LEMMA InRange ==
    ASSUME NEW s, NEW i \in 1..Len(s), DOMAIN s = 1..Len(s)
    PROVE  s[i] \in Range(s)
  BY DEF Range

LEMMA MessagesKept ==
    ASSUME SystemInv, MessageInv, SamePhase, SameConsole, SameBox, SameBlocks, SameTodo
    PROVE  MessageInv'
  <1> DEFINE q == ipc.queue[CONSOUTPUT]
  <1>1. /\ Listens \cap (Critical \cup {"mask", "free", "request"} \cup Setup) = {}
        /\ Setup \cap (Critical \cup {"mask", "free", "request"}) = {}
        /\ "request" \notin Critical
    BY DEF Listens, Critical, Setup
  <1>2. /\ pc'[Driver] \in Listens <=> pc[Driver] \in Listens
        /\ pc'[Driver] \in Setup <=> pc[Driver] \in Setup
        /\ pc'[Driver] = "request" <=> pc[Driver] = "request"
        /\ pc'[Driver] \in Critical \cup {"mask", "free"}
               <=> pc[Driver] \in Critical \cup {"mask", "free"}
        /\ pc'[Driver] = pc[Driver] \/ pc'[Driver] \notin Setup
    BY <1>1 DEF SamePhase
  <1>3. /\ ConsoleBuffers' = ConsoleBuffers /\ Waits' = Waits /\ Up' = Up
        /\ \A p \in Block : Serves(p)' <=> Serves(p)
    BY DEF SameConsole, SameBox, SameBlocks, ConsoleBuffers, Waits, Up, Serves
  <1>4. Holds'
    BY <1>2, <1>3 DEF MessageInv, Holds, SameBox, SameBlocks
  <1>5. BuffersSet'
    <2>1. CASE Up
      BY <1>3, <2>1 DEF MessageInv, BuffersSet, SameConsole
    <2>2. CASE ~Up
      <3>1. /\ pc'[Driver] \in {"alloc recv_buf", "serial_init"}
                   <=> pc[Driver] \in {"alloc recv_buf", "serial_init"}
            /\ pc'[Driver] = "serial_init" <=> pc[Driver] = "serial_init"
        BY <1>2 DEF Setup
      <3> QED
        BY <1>2, <1>3, <2>2, <3>1 DEF MessageInv, BuffersSet, SameConsole
    <2> QED
      BY <2>1, <2>2
  <1>6. InOrder'
    <2>0. q \in Seq(Block) /\ DOMAIN q = 1..Len(q)
      BY Threads DEF SystemInv, KernelInv, TypeOK, Boxes
    <2> HIDE DEF q
    <2>1. \A mp \in Range(ipc'.queue[CONSOUTPUT]) : ipc'.p[mp] \in Block
      BY DEF MessageInv, InOrder, SameBox
    <2>2. ASSUME NEW i \in 1..Len(ipc'.queue[CONSOUTPUT])
          PROVE  Says(ipc.p[ipc.queue[CONSOUTPUT][i]],
                      IF i = 1 /\ ~Up /\ pc[Driver] \in Listens THEN "u" ELSE "w")'
      <3>1. ipc'.queue[CONSOUTPUT] = q /\ i \in 1..Len(q) /\ q[i] \in Range(q)
        BY <2>0, InRange DEF SameBox, q
      <3>2. ipc'.p[q[i]] = ipc.p[q[i]] /\ text'[ipc.p[q[i]]] = text[ipc.p[q[i]]]
        BY <3>1 DEF SameBox, q
      <3>3. text[ipc.p[q[i]]][2] = IF i = 1 /\ ~Up /\ pc[Driver] \in Listens THEN "u" ELSE "w"
        BY <3>1 DEF MessageInv, InOrder, Says, q
      <3> QED
        BY <1>2, <1>3, <3>1, <3>2, <3>3 DEF Says
    <2>3. ASSUME NEW p \in Block, pc'[Driver] = "request", Serves(p)'
          PROVE  Says(p, IF Up THEN "w" ELSE "u")'
      <3>1. pc[Driver] = "request" /\ Serves(p) /\ p \in held[Driver]
        BY <1>2, <1>3, <2>3 DEF Serves
      <3>2. text'[p] = text[p]
        BY <3>1 DEF SameBlocks
      <3> QED
        BY <1>3, <3>1, <3>2 DEF MessageInv, InOrder, Says
    <2>4. /\ pc'[Driver] \in Setup => ~Up'
          /\ pc'[Driver] \in Critical \cup {"mask", "free"} => Up'
          /\ ~Up' => (Unsaid' <=> Waits' \/ (pc'[Driver] \in Listens
                                              /\ ipc'.queue[CONSOUTPUT] = <<>>))
          /\ Up' => ~Unsaid'
      BY <1>2, <1>3 DEF MessageInv, InOrder, SameBox, SameTodo
    <2> QED
      BY <2>1, <2>2, <2>3, <2>4 DEF InOrder, SameTodo
  <1> QED
    BY <1>4, <1>5, <1>6 DEF MessageInv

\* A step that makes no call about messages.
LEMMA MessagesUntouched ==
    ASSUME SystemInv, MessageInv, SamePhase, SameConsole, SameTodo,
           text' = text, ipc' = ipc, held'[Driver] = held[Driver]
    PROVE  MessageInv'
  <1>1. SameBox /\ SameBlocks
    BY DEF SameBox, SameBlocks, MessageInv, Holds
  <1> QED
    BY <1>1, MessagesKept

LEMMA TodoKept ==
    ASSUME MessageInv, todo' = todo
    PROVE  SameTodo
  BY DEF SameTodo, Unsaid, MessageInv, InOrder

LEMMA TodoAnswers ==
    ASSUME ProgramTypes, pc[Command] \notin {"alloc", "send"}, AllWrites(todo')
    PROVE  SameTodo
  <1>1. ~Unsaid
    BY DEF ProgramTypes, Unsaid
  <1>2. Len(todo') \in Nat /\ Len(todo') >= 1 /\ todo'[1][2] = "w"
    BY DEF AllWrites
  <1>3. ~Unsaid'
    BY <1>2 DEF Unsaid, UseRequest
  <1>4. Unsaid' = Unsaid
    BY <1>1, <1>3 DEF Unsaid
  <1> QED
    BY <1>4 DEF SameTodo, AllWrites

\* The driver's calls and registers, its critical section, the hardware.
LEMMA QuietMessages ==
    ASSUME SystemInv, ConsoleInv, MessageInv,
           \/ IdleStep \/ HandlerEnter \/ HandlerRead \/ HandlerTransmit \/ Transmit \/ Type
           \/ DriverSetintr \/ DriverMask \/ DriverAppend \/ DriverStart \/ DriverByte
           \/ DriverShift \/ DriverUnmask
    PROVE  MessageInv'
  <1>0. ProgramTypes /\ DeviceTypes
    BY TypeParts DEF ConsoleInv
  <1>1. UNCHANGED <<todo, text>>
    BY DEF IdleStep, HandlerEnter, HandlerRead, HandlerTransmit, Transmit, Type, DriverSetintr,
           DriverMask, DriverAppend, DriverStart, DriverByte, DriverShift, DriverUnmask, program
  <1>2. SameTodo
    BY <1>1, TodoKept
  <1>3. ipc' = ipc /\ held' = held
    <2>1. 1 \in Prio \ {0} /\ 8 \in Prio \ {0} /\ 15 \in Prio
      BY ConsoleAssumption DEF Prio
    <2>2. CASE IdleStep
      BY <2>1, <2>2, QuietCall DEF IdleStep, INTR_ENABLE, IntrMask
    <2>3. CASE DriverSetintr
      BY <2>3, QuietCall DEF DriverSetintr
    <2>4. CASE HandlerEnter \/ HandlerTransmit
      BY <2>4, InterruptCall DEF HandlerEnter, HandlerTransmit
    <2>5. CASE DriverMask \/ DriverUnmask
      BY <2>5 DEF DriverMask, DriverUnmask, INTR_ENABLE, INTR_DISABLE, IntrMask
    <2>6. CASE \/ HandlerRead \/ Transmit \/ Type
               \/ DriverAppend \/ DriverStart \/ DriverByte \/ DriverShift
      BY <2>6 DEF HandlerRead, Transmit, Type, DriverAppend, DriverStart, DriverByte,
                  DriverShift, vars
    <2> QED
      BY <2>2, <2>3, <2>4, <2>5, <2>6
  <1>4. SamePhase
    <2>1. CASE IdleStep
      <3>1. \E label : pc' = [pc EXCEPT ![Idle] = label]
        BY <2>1 DEF IdleStep, Goto
      <3> QED
        BY <1>0, <3>1, Threads DEF SamePhase, ProgramTypes
    <2>2. CASE HandlerEnter \/ HandlerRead \/ HandlerTransmit \/ Transmit \/ Type
      BY <2>2 DEF HandlerEnter, HandlerRead, HandlerTransmit, Transmit, Type, SamePhase, program
    <2>3. ASSUME NEW from, NEW to, pc[Driver] = from, Goto(Driver, to)
          PROVE  pc[Driver] = from /\ pc'[Driver] = to
      BY <1>0, <2>3, Threads DEF Goto, ProgramTypes
    <2>4. CASE DriverSetintr
      BY <2>3, <2>4 DEF DriverSetintr, At, SamePhase, Listens
    <2>5. CASE DriverMask \/ DriverAppend
      BY <2>3, <2>5 DEF DriverMask, DriverAppend, At, SamePhase, Critical
    <2>6. CASE DriverStart \/ DriverByte
      BY <2>3, <2>6 DEF DriverStart, DriverByte, At, SamePhase, Critical
    <2>7. CASE DriverShift \/ DriverUnmask
      BY <2>3, <2>7 DEF DriverShift, DriverUnmask, At, SamePhase, Critical
    <2> QED
      BY <2>1, <2>2, <2>4, <2>5, <2>6, <2>7
  <1>5. SameConsole
    <2>1. CASE UNCHANGED <<cons, sci>>
      BY <2>1 DEF SameConsole
    <2>2. CASE HandlerRead
      <3> DEFINE c == IF sci.rdr = CR THEN LF ELSE sci.rdr
                 read == [sci EXCEPT !.rdrf = FALSE]
                 echoed == Buffered(cons, <<c>>)
                 stored(k) == IF c = LF THEN k ELSE [k EXCEPT !.recv = Append(@, c)]
      <3>1. \/ UNCHANGED <<cons, sci>>
            \/ /\ sci' = SendByte([read EXCEPT !.tie = TRUE], First(echoed))
               /\ cons' = stored(Shifted(echoed))
            \/ sci' = read /\ cons' = stored(echoed)
        BY <2>2 DEF HandlerRead
      <3> HIDE DEF c
      <3>2. sci'.rie = sci.rie
        BY <1>0, <3>1 DEF SendByte, DeviceTypes, SciTypes
      <3>3. cons'.id = cons.id /\ cons'.send_buf = cons.send_buf /\ cons'.recv_buf = cons.recv_buf
        BY <1>0, <3>1 DEF Shifted, Buffered, DeviceTypes
      <3> QED
        BY <3>2, <3>3 DEF SameConsole
    <2>3. CASE HandlerTransmit \/ Transmit
      <3>1. \E c : sci' \in {sci, [sci EXCEPT !.tie = FALSE], SendByte(sci, c),
                             [sci EXCEPT !.tdre = TRUE]}
        BY <2>3 DEF HandlerTransmit, Transmit
      <3>2. cons' \in {cons, Shifted(cons)}
        BY <2>3 DEF HandlerTransmit, Transmit
      <3>3. sci'.rie = sci.rie
        BY <1>0, <3>1 DEF SendByte, DeviceTypes, SciTypes
      <3> QED
        BY <1>0, <3>2, <3>3 DEF Shifted, DeviceTypes, SameConsole
    <2>4. CASE Type
      BY <1>0, <2>4 DEF Type, SameConsole, DeviceTypes, SciTypes
    <2>5. CASE DriverAppend
      <3>1. \E str : cons' = Buffered(cons, str) /\ sci' = sci
        BY <2>5 DEF DriverAppend
      <3> QED
        BY <1>0, <3>1 DEF Buffered, DeviceTypes, SameConsole
    <2>6. CASE DriverStart \/ DriverByte
      <3>1. /\ \E c : sci' \in {sci, [sci EXCEPT !.tie = TRUE], SendByte(sci, c)}
            /\ cons' = cons
        BY <2>6 DEF DriverStart, DriverByte
      <3> QED
        BY <1>0, <3>1 DEF SendByte, DeviceTypes, SciTypes, SameConsole
    <2>7. CASE DriverShift
      <3>1. cons' = Shifted(cons) /\ sci' = sci
        BY <2>7 DEF DriverShift
      <3> QED
        BY <1>0, <3>1 DEF Shifted, DeviceTypes, SameConsole
    <2> QED
      BY <2>1, <2>2, <2>3, <2>4, <2>5, <2>6, <2>7 DEF IdleStep, HandlerEnter, DriverSetintr,
                                                      DriverMask, DriverUnmask
  <1> QED
    BY <1>1, <1>2, <1>3, <1>4, <1>5, MessagesUntouched

LEMMA Owned ==
    ASSUME SystemInv
    PROVE  /\ held \in [TcbOrNull -> SUBSET Block]
           /\ \A t \in TcbOrNull : held[t] \subseteq ClientBlocks(held) /\ held[t] \subseteq Block
           /\ \A t, u \in TcbOrNull : t # u => held[t] \cap held[u] = {}
           /\ Payloads(ipc) \cap ClientBlocks(held) = {}
           /\ \A mp \in Range(ipc.queue[CONSOUTPUT]) :
                  ipc.p[mp] \in Block => ipc.p[mp] \in Payloads(ipc)
  <1>1. held \in [TcbOrNull -> SUBSET Block]
    BY CurrentTypes DEF SystemInv, HeapTypes
  <1>2. \A t \in TcbOrNull : held[t] \subseteq ClientBlocks(held) /\ held[t] \subseteq Block
    BY <1>1 DEF ClientBlocks
  <1>3. /\ \A t, u \in TcbOrNull : t # u => held[t] \cap held[u] = {}
        /\ Payloads(ipc) \cap ClientBlocks(held) = {}
    BY DEF SystemInv, HeapInv, Accounted, ClientsApart, EveryBlockOnce
  <1>4. \A mp \in Range(ipc.queue[CONSOUTPUT]) :
            ipc.p[mp] \in Block => ipc.p[mp] \in Payloads(ipc)
    BY Threads DEF Payloads, Buffers
  <1> QED
    BY <1>1, <1>2, <1>3, <1>4

LEMMA CommandMessages ==
    ASSUME SystemInv, ConsoleInv, MessageInv, mode' # "down",
           CommandAlloc \/ CommandRecv \/ CommandLine \/ CommandFree
    PROVE  MessageInv'
  <1>0. ProgramTypes /\ DeviceTypes
    BY TypeParts DEF ConsoleInv
  <1>1. /\ UNCHANGED <<text, cons, sci>>
        /\ sched.current = Command /\ mode = "user"
        /\ \E label : pc' = [pc EXCEPT ![Command] = label]
    BY DEF CommandAlloc, CommandRecv, CommandLine, CommandFree, At, Goto
  <1>2. SamePhase /\ SameConsole
    BY <1>0, <1>1, Threads DEF SamePhase, SameConsole, ProgramTypes
  <1>3. Caller = Command
    BY <1>1 DEF Caller
  <1>4. CASE CommandAlloc
    <2>1. ipc' = ipc /\ held'[Driver] = held[Driver]
      BY <1>3, <1>4, AllocCall, Threads DEF CommandAlloc, Allocates
    <2>2. SameTodo
      BY <1>4, TodoKept DEF CommandAlloc
    <2> QED
      BY <1>1, <1>2, <2>1, <2>2, MessagesUntouched
  <1>5. CASE CommandRecv
    <2>1. KzRecv(CONSINPUT) /\ SameTodo
      BY <1>5, TodoKept DEF CommandRecv
    <2>2. PayloadsKept /\ (Awaits(CONSINPUT) \/ Collects(CONSINPUT))
      BY <2>1, RecvCall, Threads
    <2>3. /\ ipc'.queue[CONSOUTPUT] = ipc.queue[CONSOUTPUT]
          /\ ipc'.receiver[CONSOUTPUT] = ipc.receiver[CONSOUTPUT]
          /\ ipc'.receiver[CONSINPUT] # Driver
          /\ held'[Driver] = held[Driver]
      BY <1>3, <2>2, Threads, NullAssumption DEF Awaits, Collects, OtherBoxesKept
    <2>4. SameBox /\ SameBlocks
      BY <1>1, <2>2, <2>3, Threads DEF SameBox, SameBlocks, PayloadsKept
    <2> QED
      BY <1>2, <2>1, <2>4, MessagesKept
  <1>6. CASE CommandLine
    <2>1. PICK p \in held[Command] : todo' = Answer(text[p])
      BY <1>6 DEF CommandLine
    <2>2. text[p] \in Seq(Char) /\ pc[Command] = "line"
      BY <1>0, <1>6, Owned, Threads DEF CommandLine, At, ProgramTypes
    <2>3. SameTodo
      BY <1>0, <2>1, <2>2, AnswerWrites, TodoAnswers
    <2>4. UNCHANGED vars
      BY <1>6 DEF CommandLine
    <2> QED
      BY <1>1, <1>2, <2>3, <2>4, MessagesUntouched DEF vars
  <1>7. CASE CommandFree
    <2>1. KzKmfree(line) /\ pc[Command] = "free" /\ todo' = <<WriteRequest(Prompt)>>
      BY <1>7 DEF CommandFree, At
    <2>2. ipc' = ipc /\ held'[Driver] = held[Driver]
      BY <1>3, <2>1, FreeCall, Threads
    <2>3. AllWrites(<<WriteRequest(Prompt)>>)
      <3>1. <<>> \in Seq(Char)
        OBVIOUS
      <3> QED
        BY <3>1, AnswerWrites
    <2>4. SameTodo
      BY <1>0, <2>1, <2>3, TodoAnswers
    <2> QED
      BY <1>1, <1>2, <2>2, <2>4, MessagesUntouched
  <1> QED
    BY <1>4, <1>5, <1>6, <1>7

LEMMA HandlerMessages ==
    ASSUME SystemInv, ConsoleInv, MessageInv, mode' # "down", HandlerAlloc \/ HandlerSend
    PROVE  MessageInv'
  <1>0. ProgramTypes /\ DeviceTypes
    BY TypeParts DEF ConsoleInv
  <1>1. UNCHANGED <<pc, todo, sci>> /\ mode = "handler"
    BY DEF HandlerAlloc, HandlerSend
  <1>2. Caller = NULL /\ NULL \in TcbOrNull \ {Driver} /\ Driver \in TcbOrNull
    BY <1>1, Threads DEF Caller, TcbOrNull
  <1>3. SamePhase /\ SameTodo
    BY <1>1, TodoKept DEF SamePhase
  <1>4. CASE HandlerAlloc
    <2> DEFINE b == AllocBlock(mem, CONS_BUFFER_SIZE)
    <2>1. KzKmalloc(CONS_BUFFER_SIZE) /\ text' = [text EXCEPT ![b] = cons.recv] /\ cons' = cons
      BY <1>4 DEF HandlerAlloc
    <2>2. Allocates(b)
      BY <2>1, AllocCall
    <2> HIDE DEF b
    <2>3. ipc' = ipc /\ held'[Driver] = held[Driver]
      BY <1>2, <2>2 DEF Allocates
    <2>4. b \notin ClientBlocks(held) /\ b \notin Payloads(ipc)
      BY <2>2 DEF Allocates
    <2>5. \A p \in Block \ {b} : text'[p] = text[p]
      BY <1>0, <2>1 DEF ProgramTypes
    <2>6. SameBlocks
      BY <1>2, <2>3, <2>4, <2>5, Owned DEF SameBlocks
    <2>7. SameBox
      BY <2>3, <2>4, <2>5, Owned DEF SameBox, MessageInv, Holds, InOrder
    <2>8. SameConsole
      BY <1>1, <2>1 DEF SameConsole
    <2> QED
      BY <1>3, <2>6, <2>7, <2>8, MessagesKept
  <1>5. CASE HandlerSend
    <2>1. PICK p \in held[NULL] : KzSend(CONSINPUT, p)
      BY <1>5 DEF HandlerSend
    <2>2. text' = text /\ cons' = [cons EXCEPT !.recv = <<>>]
      BY <1>5 DEF HandlerSend
    <2>3. p \in Block
      BY <1>2, Owned
    <2>4. PayloadsKept /\ (Enqueues(CONSINPUT, p) \/ PassesOn(CONSINPUT, p))
      BY <2>1, <2>3, SendCall, Threads
    <2>5. ipc.receiver[CONSINPUT] # Driver
      BY DEF MessageInv, Holds
    <2>6. /\ ipc'.queue[CONSOUTPUT] = ipc.queue[CONSOUTPUT]
          /\ ipc'.receiver[CONSOUTPUT] = ipc.receiver[CONSOUTPUT]
          /\ ipc'.receiver[CONSINPUT] # Driver
          /\ held'[Driver] = held[Driver]
      BY <1>2, <2>4, <2>5, Threads DEF Enqueues, PassesOn, OtherBoxesKept
    <2>7. SameBox /\ SameBlocks
      BY <2>2, <2>4, <2>6, Threads DEF SameBox, SameBlocks, PayloadsKept
    <2>8. SameConsole
      BY <1>0, <1>1, <2>2 DEF SameConsole, DeviceTypes
    <2> QED
      BY <1>3, <2>7, <2>8, MessagesKept
  <1> QED
    BY <1>4, <1>5

\* The request that is sent is the one that is due: USE to a driver that has not
\* been set up, WRITE to one that has, or has a USE to serve first.
LEMMA SendMessages ==
    ASSUME SystemInv, ConsoleInv, MessageInv, mode' # "down", CommandSend
    PROVE  MessageInv'
  <1> DEFINE q == ipc.queue[CONSOUTPUT]
  <1>0. ProgramTypes /\ DeviceTypes
    BY TypeParts DEF ConsoleInv
  <1>1. /\ todo' = Tail(todo) /\ UNCHANGED <<cons, sci>>
        /\ At(Command, "send") /\ \E label : pc' = [pc EXCEPT ![Command] = label]
    BY DEF CommandSend, Goto
  <1>2. PICK p \in held[Command] : text' = [text EXCEPT ![p] = Head(todo)] /\ KzSend(CONSOUTPUT, p)
    BY DEF CommandSend
  <1>3. Caller = Command /\ pc[Command] = "send"
    BY <1>1, RunningThread
  <1>4. /\ p \in Block /\ p \notin held[Driver] /\ p \notin Payloads(ipc)
    BY <1>2, Owned, Threads
  <1>5. pc'[Driver] = pc[Driver]
    BY <1>0, <1>1, Threads DEF ProgramTypes
  <1>6. todo # <<>> /\ todo \in Seq(Seq(Char)) /\ text \in [Block -> Seq(Char)]
    BY <1>0, <1>3 DEF ProgramTypes
  <1>7. /\ text'[p] = todo[1] /\ \A b \in Block \ {p} : text'[b] = text[b]
    <2>1. Head(todo) = todo[1]
      BY <1>6
    <2> QED
      BY <1>2, <1>4, <1>6, <2>1
  <1>8. IF Unsaid THEN todo[1][2] = "u" ELSE todo[1][2] = "w"
    <2>1. 1 \in 1..Len(todo)
      BY <1>6
    <2>2. todo[1][2] = "w" \/ Unsaid
      BY <2>1 DEF MessageInv, InOrder
    <2> QED
      BY <2>2 DEF Unsaid, UseRequest
  <1>9. \A i \in 1..Len(todo') : todo'[i][2] = "w"
    <2>1. ASSUME NEW i \in 1..Len(todo') PROVE todo'[i][2] = "w"
      <3>1. i + 1 \in 1..Len(todo) /\ i + 1 # 1 /\ todo'[i] = todo[i + 1]
        BY <1>1, <1>6, <2>1
      <3> QED
        BY <3>1 DEF MessageInv, InOrder
    <2> QED
      BY <2>1
  <1>10. ~Unsaid'
    <2>1. todo' \in Seq(Seq(Char))
      BY <1>1, <1>6
    <2>2. todo' # <<>> => 1 \in 1..Len(todo')
      BY <2>1
    <2> QED
      BY <1>9, <2>2 DEF Unsaid, UseRequest
  <1>11. ConsoleBuffers' = ConsoleBuffers /\ Up' = Up /\ BuffersSet'
    BY <1>1, <1>5 DEF ConsoleBuffers, Up, MessageInv, BuffersSet
  <1>12. PayloadsKept /\ (Enqueues(CONSOUTPUT, p) \/ PassesOn(CONSOUTPUT, p))
    BY <1>2, <1>4, SendCall, Threads
  <1>13. ipc'.receiver[CONSINPUT] # Driver
    BY <1>12, Threads DEF Enqueues, PassesOn, OtherBoxesKept, MessageInv, Holds
  <1>14. q \in Seq(Block)
    BY Threads DEF SystemInv, KernelInv, TypeOK, Boxes
  <1>15. Driver \in TcbOrNull /\ Driver # Command /\ Driver # NULL
    BY Threads
  <1> HIDE DEF q
  <1>16. CASE Enqueues(CONSOUTPUT, p)
    <2>1. /\ ~Waits /\ ~Waits' /\ held'[Driver] = held[Driver]
          /\ ipc'.receiver[CONSOUTPUT] = NULL
      BY <1>3, <1>15, <1>16 DEF Enqueues, Waits
    <2>2. PICK mp \in Block : ipc'.queue[CONSOUTPUT] = Append(q, mp) /\ ipc'.p[mp] = p
      BY <1>16 DEF Enqueues, q
    <2> DEFINE r == Append(q, mp)
    <2>3. /\ Len(r) = Len(q) + 1 /\ Len(q) \in Nat /\ r[Len(r)] = mp /\ r # <<>>
          /\ \A i \in 1..Len(q) : r[i] = q[i] /\ q[i] \in Range(q) /\ q[i] \in Range(r)
          /\ Range(r) = Range(q) \cup {mp}
      BY <1>14, InRange, AppendProperties DEF Range
    <2> HIDE DEF r
    <2>4. \A b \in Range(q) : /\ ipc'.p[b] = ipc.p[b] /\ ipc.p[b] \in Block
                              /\ text'[ipc.p[b]] = text[ipc.p[b]]
      <3>1. ASSUME NEW b \in Range(q)
            PROVE  /\ ipc'.p[b] = ipc.p[b] /\ ipc.p[b] \in Block
                   /\ text'[ipc.p[b]] = text[ipc.p[b]]
        <4>1. ipc'.p[b] = ipc.p[b]
          BY <1>12, <2>2, <2>3, Threads DEF PayloadsKept, q, r
        <4>2. ipc.p[b] \in Block
          BY DEF MessageInv, InOrder, q
        <4>3. ipc.p[b] # p
          BY <1>4, <4>2, Owned DEF q
        <4> QED
          BY <1>7, <4>1, <4>2, <4>3
      <3> QED
        BY <3>1
    <2>5. Holds'
      BY <1>5, <1>11, <1>13, <2>1 DEF MessageInv, Holds, Serves
    <2>6. ASSUME NEW i \in 1..Len(r)
          PROVE  text'[ipc'.p[r[i]]][2]
                     = IF i = 1 /\ ~Up /\ pc[Driver] \in Listens THEN "u" ELSE "w"
      <3>1. CASE i \in 1..Len(q)
        <4>1. r[i] = q[i] /\ text'[ipc'.p[r[i]]] = text[ipc.p[q[i]]]
          BY <2>3, <2>4, <3>1
        <4>2. Says(ipc.p[q[i]], IF i = 1 /\ ~Up /\ pc[Driver] \in Listens THEN "u" ELSE "w")
          BY <3>1 DEF MessageInv, InOrder, q
        <4> QED
          BY <4>1, <4>2 DEF Says
      <3>2. CASE i = Len(r)
        <4>1. text'[ipc'.p[r[i]]] = todo[1]
          BY <1>7, <2>2, <2>3, <3>2 DEF r
        <4>2. i = 1 <=> q = <<>>
          BY <1>14, <2>3, <3>2
        <4>3. Unsaid <=> (i = 1 /\ ~Up /\ pc[Driver] \in Listens)
          BY <2>1, <4>2 DEF MessageInv, InOrder, q
        <4> QED
          BY <1>8, <4>1, <4>3
      <3> QED
        BY <2>3, <3>1, <3>2
    <2>7. ipc'.queue[CONSOUTPUT] = r
      BY <2>2 DEF r
    <2>8. \A i \in 1..Len(ipc'.queue[CONSOUTPUT]) :
              Says(ipc.p[ipc.queue[CONSOUTPUT][i]],
                   IF i = 1 /\ ~Up /\ pc[Driver] \in Listens THEN "u" ELSE "w")'
      BY <1>5, <1>11, <2>6, <2>7 DEF Says
    <2>9. \A b \in Range(ipc'.queue[CONSOUTPUT]) : ipc'.p[b] \in Block
      BY <1>4, <2>2, <2>3, <2>4, <2>7
    <2>10. \A b \in Block : (pc[Driver] = "request" /\ Serves(b)
                                => Says(b, IF Up THEN "w" ELSE "u"))'
      <3>1. \A b \in Block : Serves(b)' => Serves(b) /\ b # p
        BY <1>4, <1>11, <2>1 DEF Serves
      <3> QED
        BY <1>5, <1>7, <1>11, <3>1 DEF MessageInv, InOrder, Says
    <2>11. InOrder'
      BY <1>5, <1>9, <1>10, <1>11, <2>1, <2>3, <2>7, <2>8, <2>9, <2>10 DEF MessageInv, InOrder
    <2> QED
      BY <1>11, <2>5, <2>11 DEF MessageInv
  <1>17. CASE PassesOn(CONSOUTPUT, p)
    <2>1. ipc.receiver[CONSOUTPUT] = Driver /\ Waits
      BY <1>17, NullAssumption DEF PassesOn, MessageInv, Holds, Waits
    <2>2. pc[Driver] = "request" /\ held[Driver] = ConsoleBuffers
      BY <2>1 DEF MessageInv, Holds
    <2>3. held'[Driver] = ConsoleBuffers \cup {p} /\ ~Waits'
          /\ ipc'.receiver[CONSOUTPUT] = NULL /\ ipc'.queue[CONSOUTPUT] = <<>>
      BY <1>3, <1>4, <1>15, <1>17, <2>1, <2>2 DEF PassesOn, Waits
    <2>4. \A b \in Block : Serves(b)' <=> b = p
      BY <1>4, <1>11, <2>2, <2>3 DEF Serves
    <2>5. Holds'
      BY <1>4, <1>5, <1>11, <1>13, <2>2, <2>3, <2>4 DEF Holds, Listens
    <2>6. Says(p, IF Up THEN "w" ELSE "u")'
      BY <1>7, <1>8, <1>11, <2>1 DEF MessageInv, InOrder, Says
    <2>7. InOrder'
      <3>1. Range(ipc'.queue[CONSOUTPUT]) = {} /\ 1..Len(ipc'.queue[CONSOUTPUT]) = {}
        BY <2>3 DEF Range
      <3>2. \A b \in Block : (pc[Driver] = "request" /\ Serves(b)
                                  => Says(b, IF Up THEN "w" ELSE "u"))'
        BY <2>4, <2>6
      <3>3. pc'[Driver] \notin Setup \cup Critical \cup {"mask", "free"} \cup Listens
        BY <1>5, <2>2 DEF Setup, Critical, Listens
      <3> QED
        BY <1>9, <1>10, <2>3, <3>1, <3>2, <3>3 DEF InOrder
    <2> QED
      BY <1>11, <2>5, <2>7 DEF MessageInv
  <1> QED
    BY <1>12, <1>16, <1>17

\* The driver asks for a request: none is there, or it takes the first of the box.
LEMMA RecvMessages ==
    ASSUME SystemInv, ConsoleInv, MessageInv, mode' # "down", DriverRecv
    PROVE  MessageInv'
  <1> DEFINE q == ipc.queue[CONSOUTPUT]
  <1>0. ProgramTypes /\ DeviceTypes
    BY TypeParts DEF ConsoleInv
  <1>1. /\ UNCHANGED <<todo, text, cons, sci>> /\ At(Driver, "recv") /\ KzRecv(CONSOUTPUT)
        /\ Goto(Driver, "request")
    BY DEF DriverRecv
  <1>2. Caller = Driver /\ pc[Driver] = "recv" /\ pc'[Driver] = "request"
    BY <1>0, <1>1, RunningThread, Threads DEF Goto, ProgramTypes
  <1>3. Driver \in TcbOrNull /\ Driver # NULL
    BY Threads
  <1>4. PayloadsKept /\ (Awaits(CONSOUTPUT) \/ Collects(CONSOUTPUT))
    BY <1>1, RecvCall, Threads
  <1>5. /\ held[Driver] = ConsoleBuffers /\ ConsoleBuffers' = ConsoleBuffers
        /\ Up' = Up /\ Unsaid' = Unsaid /\ SameTodo
    BY <1>1, <1>2, TodoKept DEF MessageInv, Holds, Listens, ConsoleBuffers, Up, Unsaid
  <1>6. ~Waits /\ ipc'.receiver[CONSINPUT] # Driver
    BY <1>3, <1>4, Threads DEF Awaits, Collects, Waits, OtherBoxesKept, MessageInv, Holds
  <1>7. BuffersSet'
    BY <1>1, <1>2 DEF MessageInv, BuffersSet, Up, Setup
  <1>8. /\ pc'[Driver] \notin Setup \cup Critical \cup {"mask", "free"} \cup Listens
        /\ pc[Driver] \in Listens
    BY <1>2 DEF Setup, Critical, Listens
  <1>9. q \in Seq(Block)
    BY Threads DEF SystemInv, KernelInv, TypeOK, Boxes
  <1>10. /\ ~Up => (Unsaid <=> q = <<>>)
         /\ Up => ~Unsaid
    BY <1>6, <1>8 DEF MessageInv, InOrder
  <1> HIDE DEF q
  <1>11. CASE Awaits(CONSOUTPUT)
    <2>1. /\ Waits' /\ held'[Driver] = ConsoleBuffers /\ q = <<>>
          /\ ipc'.queue[CONSOUTPUT] = <<>> /\ ipc'.receiver[CONSOUTPUT] = Driver
      BY <1>2, <1>5, <1>11 DEF Awaits, Waits, q
    <2>2. Holds'
      BY <1>2, <1>5, <1>6, <1>8, <2>1 DEF Holds
    <2>3. \A b \in Block : ~Serves(b)'
      BY <1>5, <2>1 DEF Serves
    <2>4. Range(ipc'.queue[CONSOUTPUT]) = {} /\ 1..Len(ipc'.queue[CONSOUTPUT]) = {}
      BY <2>1 DEF Range
    <2>5. InOrder'
      BY <1>5, <1>8, <1>10, <2>1, <2>3, <2>4 DEF InOrder, SameTodo
    <2> QED
      BY <1>7, <2>2, <2>5 DEF MessageInv
  <1>12. CASE Collects(CONSOUTPUT)
    <2>1. q # <<>> /\ ipc'.queue[CONSOUTPUT] = Tail(q) /\ ipc'.receiver[CONSOUTPUT] = NULL
      BY <1>12 DEF Collects, q
    <2>2. /\ 1 \in 1..Len(q) /\ q[1] \in Range(q)
          /\ \A i \in 1..Len(Tail(q)) : /\ i + 1 \in 1..Len(q) /\ i + 1 # 1
                                        /\ Tail(q)[i] = q[i + 1]
                                        /\ q[i + 1] \in Range(q) /\ q[i + 1] \in Range(Tail(q))
          /\ Range(Tail(q)) \subseteq Range(q)
      <3>1. Len(q) \in Nat \ {0} /\ Tail(q) \in Seq(Block) /\ Len(Tail(q)) = Len(q) - 1
            /\ DOMAIN q = 1..Len(q) /\ DOMAIN Tail(q) = 1..Len(Tail(q))
        BY <1>9, <2>1
      <3>2. \A i \in 1..Len(Tail(q)) : i + 1 \in 1..Len(q) /\ i + 1 # 1 /\ Tail(q)[i] = q[i + 1]
        BY <1>9, <2>1, <3>1
      <3>3. \A i \in 1..Len(Tail(q)) : q[i + 1] \in Range(q) /\ q[i + 1] \in Range(Tail(q))
        BY <3>1, <3>2, InRange
      <3> QED
        BY <3>1, <3>2, <3>3 DEF Range
    <2>3. PICK m \in Block : m = ipc.p[q[1]] /\ m \notin ConsoleBuffers
      <3>1. ipc.p[q[1]] \in Block
        BY <2>2 DEF MessageInv, InOrder, q
      <3>2. ipc.p[q[1]] \notin ClientBlocks(held)
        BY <1>12, <3>1 DEF Collects, q
      <3> QED
        BY <1>3, <1>5, <3>1, <3>2, Owned
    <2>4. held'[Driver] = ConsoleBuffers \cup {m} /\ ~Waits'
      BY <1>2, <1>3, <1>5, <1>12, <2>1, <2>3 DEF Collects, Waits, q
    <2>5. \A b \in Block : Serves(b)' <=> b = m
      BY <1>5, <2>3, <2>4 DEF Serves
    <2>6. Holds'
      BY <1>2, <1>5, <1>6, <1>8, <2>1, <2>3, <2>4, <2>5 DEF Holds
    <2>7. Says(m, IF Up THEN "w" ELSE "u")'
      <3>1. Says(m, IF ~Up THEN "u" ELSE "w")
        BY <1>8, <2>2, <2>3 DEF MessageInv, InOrder, q
      <3> QED
        BY <1>1, <1>5, <3>1 DEF Says
    <2>8. \A i \in 1..Len(Tail(q)) : text'[ipc'.p[Tail(q)[i]]][2] = "w"
      <3>1. ASSUME NEW i \in 1..Len(Tail(q))
            PROVE  text'[ipc'.p[Tail(q)[i]]][2] = "w"
        <4>1. ipc'.p[q[i + 1]] = ipc.p[q[i + 1]]
          BY <1>4, <2>1, <2>2, Threads DEF PayloadsKept, q
        <4>2. Says(ipc.p[q[i + 1]], "w")
          BY <2>2 DEF MessageInv, InOrder, q
        <4> QED
          BY <1>1, <2>2, <4>1, <4>2 DEF Says
      <3> QED
        BY <3>1
    <2>9. \A b \in Range(Tail(q)) : ipc'.p[b] \in Block
      <3>1. ASSUME NEW b \in Range(Tail(q)) PROVE ipc'.p[b] \in Block
        <4>1. ipc'.p[b] = ipc.p[b]
          BY <1>4, <2>1, <2>2, Threads DEF PayloadsKept, q
        <4> QED
          BY <2>2, <4>1 DEF MessageInv, InOrder, q
      <3> QED
        BY <3>1
    <2>10. InOrder'
      <3>1. \A i \in 1..Len(ipc'.queue[CONSOUTPUT]) :
                Says(ipc.p[ipc.queue[CONSOUTPUT][i]],
                     IF i = 1 /\ ~Up /\ pc[Driver] \in Listens THEN "u" ELSE "w")'
        BY <1>8, <2>1, <2>8 DEF Says
      <3>2. \A b \in Block : (pc[Driver] = "request" /\ Serves(b)
                                  => Says(b, IF Up THEN "w" ELSE "u"))'
        BY <2>5, <2>7
      <3> QED
        BY <1>5, <1>8, <1>10, <2>1, <2>4, <2>9, <3>1, <3>2 DEF InOrder, SameTodo
    <2> QED
      BY <1>7, <2>6, <2>10 DEF MessageInv
  <1> QED
    BY <1>4, <1>11, <1>12

\* The driver goes on with the request it has, and may come up by it.
LEMMA DriverMoves ==
    ASSUME SystemInv, MessageInv, UNCHANGED <<todo, text>>, ipc' = ipc,
           ~Waits, pc[Driver] \notin Listens, pc'[Driver] \notin Listens \cup {"request"},
           Up => Up', pc'[Driver] \in Setup => ~Up',
           pc'[Driver] \in Critical \cup {"mask", "free"} => Up',
           ConsoleBuffers' \subseteq held'[Driver], \E p \in Block : Serves(p)', BuffersSet'
    PROVE  MessageInv'
  <1>1. ~Unsaid /\ ~Unsaid' /\ ~Waits' /\ SameTodo
    BY TodoKept DEF MessageInv, InOrder, Waits, Unsaid
  <1>2. Holds'
    BY DEF MessageInv, Holds, Waits
  <1>3. \A i \in 1..Len(ipc'.queue[CONSOUTPUT]) :
            Says(ipc.p[ipc.queue[CONSOUTPUT][i]],
                 IF i = 1 /\ ~Up /\ pc[Driver] \in Listens THEN "u" ELSE "w")'
    BY DEF MessageInv, InOrder, Says
  <1>4. InOrder'
    BY <1>1, <1>3 DEF MessageInv, InOrder, SameTodo
  <1> QED
    BY <1>2, <1>4 DEF MessageInv

LEMMA ServeMessages ==
    ASSUME SystemInv, ConsoleInv, MessageInv, mode' # "down",
           DriverRequest \/ DriverAllocSend \/ DriverAllocRecv \/ DriverInit
    PROVE  MessageInv'
  <1> DEFINE b == AllocBlock(mem, CONS_BUFFER_SIZE)
  <1>0. ProgramTypes /\ DeviceTypes
    BY TypeParts DEF ConsoleInv
  <1>1. \E label \in {"request"} \cup Setup : At(Driver, label)
    BY DEF DriverRequest, DriverAllocSend, DriverAllocRecv, DriverInit, Setup
  <1>2. PICK R \in Block : R = Request /\ Serves(R)
    BY <1>1, TheRequest DEF Listens, Setup
  <1>3. ~Waits /\ Caller = Driver /\ pc[Driver] \in {"request"} \cup Setup
    BY <1>1, NobodyWaitsThatRuns, RunningThread, Threads DEF Waits
  <1>4. pc[Driver] \notin Listens
    BY <1>3 DEF Listens, Setup
  <1>5. UNCHANGED <<todo, text>>
    BY DEF DriverRequest, DriverAllocSend, DriverAllocRecv, DriverInit
  <1>6. \A to : Goto(Driver, to) => pc'[Driver] = to
    BY <1>0, Threads DEF Goto, ProgramTypes
  <1>7. Driver \in TcbOrNull /\ Command # NULL
    BY Threads
  <1> HIDE DEF b
  <1>8. /\ \A p \in held[Driver] : p \in Block
        /\ ConsoleBuffers \subseteq held[Driver] /\ R \in held[Driver] /\ R \notin ConsoleBuffers
        /\ held[Driver] = ConsoleBuffers \cup {R}
    BY <1>2, <1>7, Owned DEF Serves
  <1>9. CASE DriverRequest
    <2>1. ipc' = ipc /\ held' = held /\ sci' = sci /\ At(Driver, "request")
      BY <1>9 DEF DriverRequest, vars
    <2>2. pc[Driver] = "request" /\ Says(R, IF Up THEN "w" ELSE "u")
      BY <1>2, <2>1 DEF At, MessageInv, InOrder
    <2>3. Up' = Up
      BY <2>1 DEF Up
    <2>4. CASE text[R][2] = "u" /\ cons' = [cons EXCEPT !.id = Command]
               /\ Goto(Driver, "alloc send_buf")
      <3>1. ~Up /\ pc'[Driver] = "alloc send_buf"
        BY <1>6, <2>2, <2>4 DEF Says
      <3>2. /\ cons'.id = Command /\ cons'.send_buf = cons.send_buf
            /\ cons'.recv_buf = cons.recv_buf
        BY <1>0, <2>4 DEF DeviceTypes
      <3>3. ConsoleBuffers' = ConsoleBuffers /\ Serves(R)'
        BY <1>2, <2>1, <3>2 DEF ConsoleBuffers, Serves
      <3>4. BuffersSet'
        BY <1>7, <2>2, <2>3, <3>1, <3>2 DEF MessageInv, BuffersSet, Setup
      <3>5. pc'[Driver] \notin Listens \cup Critical \cup {"request", "mask", "free"}
        BY <3>1 DEF Listens, Critical
      <3> QED
        BY <1>2, <1>3, <1>4, <1>5, <1>8, <2>1, <2>3, <3>1, <3>3, <3>4, <3>5, DriverMoves
    <2>5. CASE text[R][2] = "w" /\ cons' = cons /\ Goto(Driver, "mask")
      <3>1. Up /\ pc'[Driver] = "mask"
        BY <1>6, <2>2, <2>5 DEF Says
      <3>2. ConsoleBuffers' = ConsoleBuffers /\ Serves(R)' /\ BuffersSet'
        BY <1>2, <2>1, <2>3, <2>5, <3>1 DEF ConsoleBuffers, Serves, MessageInv, BuffersSet
      <3>3. pc'[Driver] \notin Listens \cup Setup \cup {"request"}
        BY <3>1 DEF Listens, Setup
      <3> QED
        BY <1>2, <1>3, <1>4, <1>5, <1>8, <2>1, <2>3, <3>1, <3>2, <3>3, DriverMoves
    <2> QED
      BY <1>2, <1>9, <2>4, <2>5 DEF DriverRequest
  <1>10. CASE DriverAllocSend \/ DriverAllocRecv
    <2>1. sci' = sci /\ KzKmalloc(CONS_BUFFER_SIZE) /\ pc[Driver] \in Setup
      BY <1>10 DEF DriverAllocSend, DriverAllocRecv, At, Setup
    <2>2. ipc' = ipc /\ b \in Block /\ b \notin held[Driver] /\ held'[Driver] = held[Driver] \cup {b}
      BY <1>3, <1>7, <2>1, AllocCall, Owned DEF Allocates, b
    <2>3. ~Up /\ ~Up' /\ Up' = Up
      BY <2>1 DEF Up, MessageInv, InOrder
    <2>4. b # NULL
      BY <2>2, NullIsNoBlock
    <2>5. CASE DriverAllocSend
      <3>1. /\ pc[Driver] = "alloc send_buf" /\ pc'[Driver] = "alloc recv_buf"
            /\ cons' = [cons EXCEPT !.send_buf = b]
        BY <1>6, <2>5 DEF DriverAllocSend, At, b
      <3>2. cons'.id = cons.id /\ cons'.send_buf = b /\ cons'.recv_buf = cons.recv_buf
        BY <1>0, <3>1 DEF DeviceTypes
      <3>3. cons.id # NULL /\ cons.send_buf = NULL /\ cons.recv_buf = NULL
        BY <2>1, <2>3, <3>1 DEF MessageInv, BuffersSet
      <3>4. ConsoleBuffers = {} /\ ConsoleBuffers' = {b}
        BY <2>4, <3>2, <3>3 DEF ConsoleBuffers
      <3>5. ConsoleBuffers' \subseteq held'[Driver] /\ Serves(R)'
        BY <1>2, <1>8, <2>2, <3>4 DEF Serves
      <3>6. BuffersSet'
        BY <2>3, <2>4, <3>1, <3>2, <3>3 DEF BuffersSet, Setup
      <3>7. pc'[Driver] \notin Listens \cup Critical \cup {"request", "mask", "free"}
        BY <3>1 DEF Listens, Critical
      <3> QED
        BY <1>2, <1>3, <1>4, <1>5, <2>2, <2>3, <3>5, <3>6, <3>7, DriverMoves
    <2>6. CASE DriverAllocRecv
      <3>1. /\ pc[Driver] = "alloc recv_buf" /\ pc'[Driver] = "serial_init"
            /\ cons' = [cons EXCEPT !.recv_buf = b]
        BY <1>6, <2>6 DEF DriverAllocRecv, At, b
      <3>2. cons'.id = cons.id /\ cons'.send_buf = cons.send_buf /\ cons'.recv_buf = b
        BY <1>0, <3>1 DEF DeviceTypes
      <3>3. cons.id # NULL /\ cons.send_buf # NULL /\ cons.recv_buf = NULL
        BY <2>1, <2>3, <3>1 DEF MessageInv, BuffersSet
      <3>4. ConsoleBuffers = {cons.send_buf} /\ ConsoleBuffers' = {cons.send_buf, b}
        BY <2>4, <3>2, <3>3 DEF ConsoleBuffers
      <3>5. ConsoleBuffers' \subseteq held'[Driver] /\ Serves(R)' /\ cons.send_buf # b
        BY <1>2, <1>8, <2>2, <3>4 DEF Serves
      <3>6. BuffersSet'
        BY <2>3, <2>4, <3>1, <3>2, <3>3, <3>5 DEF BuffersSet, Setup
      <3>7. pc'[Driver] \notin Listens \cup Critical \cup {"request", "mask", "free"}
        BY <3>1 DEF Listens, Critical
      <3> QED
        BY <1>2, <1>3, <1>4, <1>5, <2>2, <2>3, <3>5, <3>6, <3>7, DriverMoves
    <2> QED
      BY <1>10, <2>5, <2>6
  <1>11. CASE DriverInit
    <2>1. /\ ipc' = ipc /\ held' = held /\ pc[Driver] = "serial_init" /\ pc'[Driver] = "free"
          /\ cons' = [cons EXCEPT !.send = <<>>, !.recv = <<>>]
          /\ sci' = [InitialSci EXCEPT !.rie = TRUE]
      BY <1>6, <1>11 DEF DriverInit, vars, At
    <2>2. Up' /\ ~Up
      BY <2>1 DEF Up, InitialSci, MessageInv, InOrder, Setup
    <2>3. /\ cons'.id = cons.id /\ cons'.send_buf = cons.send_buf
          /\ cons'.recv_buf = cons.recv_buf
      BY <1>0, <2>1 DEF DeviceTypes
    <2>4. ConsoleBuffers' = ConsoleBuffers /\ Serves(R)'
      BY <1>2, <2>1, <2>3 DEF ConsoleBuffers, Serves
    <2>5. BuffersSet'
      BY <2>1, <2>2, <2>3 DEF MessageInv, BuffersSet, Setup
    <2>6. pc'[Driver] \notin Listens \cup Setup \cup {"request"}
      BY <2>1 DEF Listens, Setup
    <2> QED
      BY <1>2, <1>3, <1>4, <1>5, <1>8, <2>1, <2>2, <2>4, <2>5, <2>6, DriverMoves
  <1> QED
    BY <1>9, <1>10, <1>11

\* The request has been served: the driver has its two buffers and listens again.
LEMMA FreeMessages ==
    ASSUME SystemInv, ConsoleInv, MessageInv, mode' # "down", DriverFree
    PROVE  MessageInv'
  <1>0. ProgramTypes /\ DeviceTypes
    BY TypeParts DEF ConsoleInv
  <1>1. /\ UNCHANGED <<todo, text, cons, sci>> /\ At(Driver, "free") /\ KzKmfree(Request)
        /\ Goto(Driver, "recv")
    BY DEF DriverFree
  <1>2. Caller = Driver /\ pc[Driver] = "free" /\ pc'[Driver] = "recv"
    BY <1>0, <1>1, RunningThread, Threads DEF Goto, ProgramTypes
  <1>3. ~Waits /\ Serves(Request)
    BY <1>1, NobodyWaitsThatRuns, TheRequest, Threads DEF Waits, Listens
  <1>4. ipc' = ipc /\ held'[Driver] = held[Driver] \ {Request}
    BY <1>1, <1>2, FreeCall, Threads
  <1>5. /\ ConsoleBuffers' = ConsoleBuffers /\ Up' = Up /\ Waits' = Waits /\ Unsaid' = Unsaid
        /\ SameTodo
    BY <1>1, <1>4, TodoKept DEF ConsoleBuffers, Up, Waits, Unsaid
  <1>6. held'[Driver] = ConsoleBuffers
    BY <1>3, <1>4 DEF Serves
  <1>7. Up /\ ~Unsaid
    BY <1>2 DEF MessageInv, InOrder
  <1>8. /\ pc'[Driver] \in Listens /\ pc'[Driver] # "request"
        /\ pc'[Driver] \notin Setup \cup Critical \cup {"mask", "free"}
    BY <1>2 DEF Listens, Setup, Critical
  <1>9. Holds'
    BY <1>3, <1>4, <1>5, <1>6, <1>8 DEF Holds, MessageInv
  <1>10. BuffersSet'
    BY <1>1, <1>5, <1>7 DEF BuffersSet, MessageInv
  <1>11. InOrder'
    <2>1. \A i \in 1..Len(ipc'.queue[CONSOUTPUT]) :
              Says(ipc.p[ipc.queue[CONSOUTPUT][i]],
                   IF i = 1 /\ ~Up /\ pc[Driver] \in Listens THEN "u" ELSE "w")'
      BY <1>1, <1>4, <1>5, <1>7 DEF MessageInv, InOrder, Says
    <2> QED
      BY <1>4, <1>5, <1>7, <1>8, <2>1 DEF MessageInv, InOrder, SameTodo
  <1> QED
    BY <1>9, <1>10, <1>11 DEF MessageInv

\* kz_sysdown is the end of it.
LEMMA DownIsForGood ==
    ASSUME [ConsoleNext]_consoleVars, mode' # "down"
    PROVE  mode # "down"
  <1>1. ASSUME mode = "down" PROVE UNCHANGED mode
    <2>1. \A t, label : ~At(t, label)
      BY <1>1 DEF At
    <2>2. ~Processor
      BY <1>1, <2>1
         DEF Processor, IdleStep, CommandStep, CommandAlloc, CommandSend, CommandRecv,
             CommandLine, CommandFree, DriverStep, DriverSetintr, DriverRecv, DriverRequest,
             DriverAllocSend, DriverAllocRecv, DriverInit, DriverMask, DriverAppend,
             DriverStart, DriverByte, DriverShift, DriverUnmask, DriverFree, HandlerEnter,
             IntrEnter, HandlerStep, HandlerRead, HandlerAlloc, HandlerSend, HandlerTransmit
    <2> QED
      BY <2>2 DEF ConsoleNext, Transmit, Type, consoleVars, vars
  <1> QED
    BY <1>1

LEMMA MessageStep ==
    ASSUME SystemInv, ConsoleInv, [ConsoleNext]_consoleVars, mode' # "down"
    PROVE  MessageInv'
  <1>1. mode # "down"
    BY DownIsForGood
  <1>2. MessageInv
    BY <1>1, ConsoleInvParts
  <1>3. CASE UNCHANGED consoleVars
    <2>1. UNCHANGED <<ipc, held, pc, todo, text, cons, sci>>
      BY <1>3 DEF consoleVars, vars, program
    <2>2. SamePhase /\ SameConsole /\ SameTodo
      BY <1>2, <2>1, TodoKept DEF SamePhase, SameConsole
    <2> QED
      BY <1>2, <2>1, <2>2, MessagesUntouched
  <1>4. CASE IdleStep \/ HandlerEnter \/ Transmit \/ Type
    BY <1>2, <1>4, QuietMessages
  <1>5. CASE CommandStep
    BY <1>2, <1>5, CommandMessages, SendMessages DEF CommandStep
  <1>6. CASE DriverStep
    BY <1>2, <1>6, QuietMessages, RecvMessages, ServeMessages, FreeMessages DEF DriverStep
  <1>7. CASE HandlerStep
    BY <1>2, <1>7, QuietMessages, HandlerMessages DEF HandlerStep
  <1> QED
    BY <1>3, <1>4, <1>5, <1>6, <1>7 DEF ConsoleNext, Processor

LEMMA ConsoleInitStep ==
    ASSUME ConsoleInit
    PROVE  SystemInv /\ ConsoleInv
  <1>1. SystemInv
    BY InitStep, HeapInit DEF ConsoleInit, SystemInv
  <1>2. ipc = ClearedBoxes /\ held = [t \in TcbOrNull |-> {}] /\ mode = "user"
    BY DEF ConsoleInit, Init
  <1>3. /\ ipc.receiver[CONSOUTPUT] = NULL /\ ipc.receiver[CONSINPUT] = NULL
        /\ ipc.queue[CONSOUTPUT] = <<>> /\ held[Driver] = {}
    BY <1>2, Threads DEF ClearedBoxes
  <1>4. pc[Driver] = "setintr" /\ pc[Command] = "alloc" /\ hpc = "read"
    BY Threads DEF ConsoleInit
  <1>5. /\ todo = <<UseRequest, WriteRequest(Prompt)>> /\ line = NULL
        /\ text = [b \in Block |-> <<>>]
        /\ cons = [id |-> NULL, send_buf |-> NULL, recv_buf |-> NULL, send |-> <<>>, recv |-> <<>>]
        /\ sci = InitialSci /\ typed = Session /\ shown = <<>> /\ asked = <<>> /\ taken = <<>>
    BY DEF ConsoleInit
  <1>6. /\ UseRequest \in Seq(Char) /\ WriteRequest(Prompt) \in Seq(Char)
        /\ WriteRequest(Prompt)[2] = "w" /\ Session \in Seq(Char)
    BY ConsoleAssumption, Characters, WriteType DEF UseRequest
  <1>7. /\ Len(todo) = 2 /\ todo[1] = UseRequest /\ todo[2][2] = "w" /\ todo # <<>>
        /\ todo \in Seq(Seq(Char))
    <2> DEFINE w == WriteRequest(Prompt)
    <2> HIDE DEF w
    <2>1. <<UseRequest, w>> \in Seq(Seq(Char))
      BY <1>6 DEF w
    <2> QED
      BY <1>5, <1>6, <2>1 DEF w
  <1>8. ConsoleTypeOK
    <2>1. TypeOK
      BY <1>1 DEF SystemInv, KernelInv
    <2>2. ProgramTypes
      <3>1. pc \in [{Idle, Driver, Command} -> {"run driver", "setintr", "alloc"}]
        BY DEF ConsoleInit
      <3>2. text \in [Block -> Seq(Char)]
        BY <1>5
      <3> QED
        BY <1>4, <1>5, <1>7, <3>1, <3>2 DEF ProgramTypes, BlockOrNull
    <2>3. DeviceTypes
      <3>1. SciTypes
        BY <1>5, Characters DEF SciTypes, InitialSci
      <3>2. <<>> \in Seq(Char)
        OBVIOUS
      <3> QED
        BY <1>5, <1>6, <3>1, <3>2 DEF DeviceTypes, TcbOrNull, BlockOrNull
    <2> QED
      BY <2>1, <2>2, <2>3, TypeParts
  <1>9. OutputInv
    <2>1. cons.send = <<>> /\ sci.tdre /\ ~Up
      BY <1>5 DEF InitialSci, Up
    <2>2. InTransmitter = <<>> /\ Unsent = <<>>
      BY <1>4, <2>1 DEF InTransmitter, Unsent
    <2>3. OutputInOrder
      BY <1>5, <2>2 DEF OutputInOrder
    <2> QED
      BY <1>2, <1>4, <1>5, <2>1, <2>3 DEF OutputInv, Masked, Critical, Fresh, OutputDriven
  <1>10. MessageInv
    <2>1. ConsoleBuffers = {} /\ ~Waits /\ ~Up /\ Unsaid
      BY <1>3, <1>5, <1>7, Threads DEF ConsoleBuffers, Waits, Up, InitialSci, Unsaid
    <2>2. Holds
      BY <1>3, <1>4, <2>1, Threads DEF Holds, Listens
    <2>3. BuffersSet
      BY <1>4, <1>5, <2>1 DEF BuffersSet, Setup
    <2>4. \A i \in 1..Len(todo) : todo[i][2] = "w" \/ (i = 1 /\ Unsaid)
      <3>1. \A i \in 1..Len(todo) : i = 1 \/ i = 2
        BY <1>7
      <3> QED
        BY <1>7, <2>1, <3>1
    <2>5. Range(ipc.queue[CONSOUTPUT]) = {} /\ 1..Len(ipc.queue[CONSOUTPUT]) = {}
      BY <1>3 DEF Range
    <2>6. InOrder
      BY <1>3, <1>4, <2>1, <2>4, <2>5 DEF InOrder, Listens, Setup, Critical
    <2> QED
      BY <2>2, <2>3, <2>6 DEF MessageInv
  <1> QED
    BY <1>1, <1>8, <1>9, <1>10, ConsoleInvParts

-------------------------------------------------------------------------------
(***************************************************************************)
(* The kernel under the console and the console itself: whatever the user  *)
(* types and however the interrupts fall, both invariants hold.  Nothing   *)
(* is assumed of wakeups, since no thread of the console makes one.        *)
(***************************************************************************)
THEOREM ConsoleInvariant == ConsoleSpec => [](SystemInv /\ ConsoleInv)
  <1>1. ConsoleInit => SystemInv /\ ConsoleInv
    BY ConsoleInitStep
  <1>2. SystemInv /\ ConsoleInv /\ [ConsoleNext]_consoleVars => (SystemInv /\ ConsoleInv)'
    <2> SUFFICES ASSUME SystemInv, ConsoleInv, [ConsoleNext]_consoleVars
                 PROVE  SystemInv' /\ ConsoleInv'
      OBVIOUS
    <2>1. SystemInv' /\ ConsoleTypeOK' /\ OutputInv' /\ (mode' # "down" => MessageInv')
      BY SystemStep, TypesStep, OutputStep, MessageStep
    <2> QED
      BY <2>1 DEF ConsoleInv, OutputInv, MessageInv
  <1> QED
    BY <1>1, <1>2, PTL DEF ConsoleSpec

\* Registers, buffers, messages and the places of the threads keep their types.
THEOREM ConsoleTypesKept == ConsoleSpec => []ConsoleTypeOK
  <1>1. SystemInv /\ ConsoleInv => ConsoleTypeOK
    BY DEF ConsoleInv
  <1> QED
    BY <1>1, ConsoleInvariant, PTL

(***************************************************************************)
(* The terminal shows what send_string was asked to send, in order, with   *)
(* nothing lost or doubled: what is not shown yet is in the transmitter    *)
(* and in the buffer that the driver and the handler share.                *)
(***************************************************************************)
THEOREM OutputShownInOrder == ConsoleSpec => []OutputInOrder
  <1>1. SystemInv /\ ConsoleInv => OutputInOrder
    BY DEF ConsoleInv
  <1> QED
    BY <1>1, ConsoleInvariant, PTL

\* Whenever the buffer holds output and nobody is just about to start it, the
\* transmit interrupt is enabled, so that send_char will be called again.
THEOREM OutputStaysDriven == ConsoleSpec => []OutputDriven
  <1>1. SystemInv /\ ConsoleInv => OutputDriven
    BY DEF ConsoleInv
  <1> QED
    BY <1>1, ConsoleInvariant, PTL

\* The interrupt handler finds cons->id and two buffers of the driver's own,
\* although the USE command publishes cons->id before it has allocated them.
THEOREM HandlerFindsBuffers == ConsoleSpec => []BuffersExist
  <1>1. SystemInv /\ ConsoleInv => BuffersExist
    BY DEF ConsoleInv, BuffersExist, Holds, BuffersSet, ConsoleBuffers
  <1> QED
    BY <1>1, ConsoleInvariant, PTL

\* The kernel's accounting of its heap holds under the console too.
THEOREM ConsoleHeapPartitioned == ConsoleSpec => []HeapPartition
  <1>1. SystemInv => HeapPartition
    BY OneOwner, CurrentTypes DEF SystemInv, HeapInv, Accounted, HeapPartition, HeapTypes
  <1> QED
    BY <1>1, ConsoleInvariant, PTL

===============================================================================
