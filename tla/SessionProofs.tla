----------------------------- MODULE SessionProofs -----------------------------
(***************************************************************************)
(* The console keeps SessionInv: its threads have the ids and priorities   *)
(* they should, block only in kz_recv, own the blocks of their place in    *)
(* the program, and the input flows through them in order.                 *)
(***************************************************************************)
EXTENDS ConsoleProofs

-------------------------------------------------------------------------------
(***************************************************************************)
(* Which threads exist, their priorities, and where they block.            *)
(***************************************************************************)
Steady == live' = live /\ sched'.priority = sched.priority /\ Blocks'

LEMMA FinishKeeps ==
    ASSUME KernelInv, Active, Blocks, live \subseteq live', live' \subseteq Tcb,
           NEW s, Good(s, live'),
           NEW call \in {NULL} \cup {Receiving(id) : id \in Box}, Finish(s, call)
    PROVE  Blocks' /\ sched'.priority = s.priority
  <1>1. call \in Blocked \cup {NULL}
    BY DEF Blocked, Receiving
  <1>2. sched'.ready = s.ready
    BY <1>1, FinishElects
  <1>3. syscall' = [t \in Tcb |-> IF s.ready[t] THEN NULL
                                  ELSE IF t = Caller THEN call ELSE syscall[t]]
    BY DEF Finish
  <1>4. Blocks'
    <2> SUFFICES ASSUME NEW t \in Tcb, syscall'[t] # NULL
                 PROVE  /\ t \in live' /\ ~sched'.ready[t]
                        /\ syscall'[t] \in {Receiving(id) : id \in Box}
      BY DEF Blocks
    <2>1. ~s.ready[t] /\ syscall'[t] = IF t = Caller THEN call ELSE syscall[t]
      BY <1>3
    <2>2. CASE t = Caller
      <3>1. t \in live
        BY <2>2, CallerIsReady, NullAssumption
      <3> QED
        BY <1>2, <2>1, <2>2, <3>1
    <2>3. CASE t # Caller
      BY <1>2, <2>1, <2>3 DEF Blocks
    <2> QED
      BY <2>2, <2>3
  <1>5. sched' = s \/ (Runnable(s) # {} /\ sched' = schedule(s))
    BY DEF Finish, Dispatch
  <1>6. sched'.priority = s.priority
    BY <1>5, ScheduleFields DEF Good
  <1> QED
    BY <1>4, <1>6

\* A call that puts its caller back.
LEMMA PutBackKeeps ==
    ASSUME KernelInv, Active, Blocks, live' = live, Finish(putcurrent(Entry), NULL)
    PROVE  Steady
  <1> DEFINE s == putcurrent(Entry)
  <1>1. live \subseteq Tcb
    BY DEF KernelInv, TypeOK
  <1>2. Good(s, live) /\ s.priority = sched.priority
    BY <1>1, EntryIsGood, CallerIsReady, GoodPutcurrent
  <1> HIDE DEF s
  <1>3. Finish(s, NULL)
    BY DEF s
  <1> QED
    BY <1>1, <1>2, <1>3, FinishKeeps DEF Steady

LEMMA StaysPut ==
    ASSUME Blocks, UNCHANGED <<live, sched, syscall>>
    PROVE  Steady
  BY DEF Steady, Blocks

LEMMA AllocKeeps ==
    ASSUME KernelInv, Blocks, NEW size, KzKmalloc(size)
    PROVE  Steady
  <1>1. CASE Crash
    BY <1>1, StaysPut DEF Crash
  <1>2. CASE ~Crash
    BY <1>2, PutBackKeeps, InvokeIsActive DEF KzKmalloc
  <1> QED
    BY <1>1, <1>2

LEMMA FreeKeeps ==
    ASSUME KernelInv, Blocks, NEW p, KzKmfree(p)
    PROVE  Steady
  BY PutBackKeeps, InvokeIsActive DEF KzKmfree

LEMMA SetintrKeeps ==
    ASSUME KernelInv, Blocks, KzSetintr
    PROVE  Steady
  BY PutBackKeeps, InvokeIsActive DEF KzSetintr

LEMMA SendKeeps ==
    ASSUME KernelInv, Blocks, NEW id \in Box, NEW p, KzSend(id, p)
    PROVE  Steady
  <1> DEFINE e == putcurrent(Entry)
             r == ipc.receiver[id]
             n == [e EXCEPT !.current = r]
             s == putcurrent(n)
  <1>1. CASE Crash
    BY <1>1, StaysPut DEF Crash
  <1>2. CASE ~Crash /\ r = NULL
    BY <1>2, PutBackKeeps, InvokeIsActive DEF KzSend
  <1>3. CASE ~Crash /\ r # NULL
    <2>1. Active /\ live' = live /\ Finish(s, NULL)
      BY <1>3, InvokeIsActive DEF KzSend
    <2>2. live \subseteq Tcb
      BY DEF KernelInv, TypeOK
    <2>3. Good(e, live) /\ e.priority = sched.priority
      BY <2>1, <2>2, EntryIsGood, CallerIsReady, GoodPutcurrent
    <2>4. r \in live /\ r \in Tcb
      BY <1>3, <2>1, ReceiversAreBlocked
    <2> HIDE DEF e, r
    <2>5. Good(n, live) /\ n.current = r /\ n.priority = sched.priority
      BY <2>3, <2>4, GoodRetarget DEF TcbOrNull
    <2> HIDE DEF n
    <2>6. Good(s, live) /\ s.priority = sched.priority
      BY <2>2, <2>4, <2>5, GoodPutcurrent
    <2> HIDE DEF s
    <2> QED
      BY <2>1, <2>2, <2>6, FinishKeeps DEF Steady
  <1> QED
    BY <1>1, <1>2, <1>3

LEMMA RecvKeeps ==
    ASSUME KernelInv, Blocks, NEW id \in Box, KzRecv(id)
    PROVE  Steady
  <1>1. CASE Crash
    BY <1>1, StaysPut DEF Crash
  <1>2. CASE ~Crash /\ ipc.head[id] = NULL
    <2>1. Active /\ live' = live /\ Finish(Entry, Receiving(id))
      BY <1>2, InvokeIsActive DEF KzRecv
    <2>2. Good(Entry, live) /\ Entry.priority = sched.priority /\ live \subseteq Tcb
      BY <2>1, EntryIsGood DEF KernelInv, TypeOK
    <2> QED
      BY <2>1, <2>2, FinishKeeps DEF Steady
  <1>3. CASE ~Crash /\ ipc.head[id] # NULL
    BY <1>3, PutBackKeeps, InvokeIsActive DEF KzRecv
  <1> QED
    BY <1>1, <1>2, <1>3

\* The caller is the only thread whose priority changes, and to this.
LEMMA ChpriKeeps ==
    ASSUME KernelInv, Blocks, NEW priority \in Prio, KzChpri(priority)
    PROVE  /\ live' = live /\ Blocks'
           /\ sched'.priority = [sched.priority EXCEPT ![Caller] = priority]
  <1> DEFINE e == [Entry EXCEPT !.priority[Caller] = priority]
             s == putcurrent(e)
  <1>1. Active /\ mode = "user" /\ live' = live /\ Finish(s, NULL)
    <2>1. priority >= 0
      BY DEF Prio
    <2> QED
      BY <2>1, InvokeIsActive DEF KzChpri, Invoke, ServiceCall
  <1>2. live \subseteq Tcb
    BY DEF KernelInv, TypeOK
  <1>3. /\ Good(Entry, live) /\ Entry.current = Caller /\ Caller \in Tcb /\ Caller \in live
        /\ ~Entry.ready[Caller] /\ Entry.priority = sched.priority
    BY <1>1, EntryIsGood, CallerIsReady
  <1>4. /\ Good(e, live) /\ e.current = Caller
        /\ e.priority = [sched.priority EXCEPT ![Caller] = priority]
    <2>1. Good(e, live) /\ e.current = Caller
      BY <1>3, GoodReprioritise
    <2>2. e.priority = [Entry.priority EXCEPT ![Caller] = priority]
      BY <1>3 DEF Good, Sched
    <2> QED
      BY <1>3, <2>1, <2>2
  <1> HIDE DEF e
  <1>5. Good(s, live) /\ s.priority = e.priority
    BY <1>2, <1>3, <1>4, GoodPutcurrent
  <1> HIDE DEF s
  <1> QED
    BY <1>1, <1>2, <1>4, <1>5, FinishKeeps

\* kz_run takes the first free TCB and gives it the priority asked for.
LEMMA RunKeeps ==
    ASSUME KernelInv, Blocks, NEW priority \in Prio, KzRun(priority), live # Tcb,
           NEW thp, thp = Min(Tcb \ live)
    PROVE  /\ thp \in Tcb \ live /\ live' = live \cup {thp} /\ Blocks'
           /\ sched'.priority = [sched.priority EXCEPT ![thp] = priority]
  <1> DEFINE e == putcurrent(Entry)
             c == ClearTcb(e, thp)
             r == [c EXCEPT !.priority[thp] = priority]
             n == [r EXCEPT !.current = thp]
             s == putcurrent(n)
  <1>1. /\ Active /\ Finish(s, NULL) /\ live' = live \cup {thp}
    BY InvokeIsActive DEF KzRun
  <1>2. thp \in Tcb \ live
    BY FreeTcb DEF KernelInv, TypeOK
  <1>3. live' \subseteq Tcb /\ live \subseteq Tcb
    BY <1>1, <1>2 DEF KernelInv, TypeOK
  <1>4. Good(e, live) /\ e.priority = sched.priority
    BY <1>1, <1>3, EntryIsGood, CallerIsReady, GoodPutcurrent
  <1> HIDE DEF e
  <1>5. ~e.ready[thp]
    BY <1>2, <1>4 DEF Good
  <1>6. /\ Good(c, live) /\ c.ready = e.ready
        /\ r.priority = [sched.priority EXCEPT ![thp] = priority]
    <2>1. Good(c, live) /\ c.ready = e.ready
      BY <1>2, <1>4, <1>5, GoodClear
    <2>2. r.priority = [e.priority EXCEPT ![thp] = priority]
      BY <1>2, <1>4 DEF ClearTcb, Good, Sched
    <2> QED
      BY <1>4, <2>1, <2>2
  <1> HIDE DEF c
  <1>7. Good(r, live)
    BY <1>2, <1>5, <1>6, GoodReprioritise
  <1> HIDE DEF r
  <1>8. Good(n, live) /\ n.current = thp /\ n.priority = r.priority
    BY <1>2, <1>7, GoodRetarget DEF TcbOrNull
  <1> HIDE DEF n
  <1>9. Good(n, live')
    BY <1>1, <1>8 DEF Good
  <1>10. Good(s, live') /\ s.priority = n.priority
    BY <1>1, <1>3, <1>8, <1>9, GoodPutcurrent
  <1> HIDE DEF s
  <1> QED
    BY <1>1, <1>2, <1>3, <1>6, <1>8, <1>10, FinishKeeps

LEMMA MaskKeeps ==
    ASSUME Blocks, IntrMask
    PROVE  Steady
  BY StaysPut DEF IntrMask

LEMMA InterruptKeeps ==
    ASSUME KernelInv, Blocks, IntrEnter \/ IntrLeave
    PROVE  Steady
  <1>1. CASE IntrEnter
    BY <1>1, StaysPut DEF IntrEnter
  <1>2. CASE IntrLeave
    <2>1. /\ sched \in Sched /\ UNCHANGED <<live, syscall>>
          /\ sched' = sched \/ (Runnable(sched) # {} /\ sched' = schedule(sched))
      BY <1>2 DEF IntrLeave, Dispatch, KernelInv, TypeOK
    <2>2. sched'.priority = sched.priority /\ sched'.ready = sched.ready
      BY <2>1, ScheduleFields
    <2> QED
      BY <2>1, <2>2 DEF Steady, Blocks
  <1> QED
    BY <1>1, <1>2
-------------------------------------------------------------------------------
(***************************************************************************)
(* The idle thread starts the driver first, then the command thread.       *)
(***************************************************************************)
LEMMA FirstFree ==
    /\ Min(Tcb \ {Idle}) = Driver /\ Min(Tcb \ {Idle, Driver}) = Command
    /\ {Idle} # Tcb /\ {Idle, Driver} # Tcb
  <1>1. \A t \in Tcb \ {Idle} : t \in Nat /\ t >= 1
    BY ThreadQueueAssumption DEF Tcb, Idle
  <1>2. \A t \in Tcb \ {Idle, Driver} : t \in Nat /\ t >= 2
    BY ThreadQueueAssumption DEF Tcb, Idle, Driver
  <1>3. Driver \in Tcb \ {Idle} /\ Command \in Tcb \ {Idle, Driver} /\ Driver = 1 /\ Command = 2
    BY Threads DEF Driver, Command
  <1>4. ASSUME NEW S, NEW n \in S, n \in Nat, \A t \in S : t \in Nat /\ t >= n
        PROVE  Min(S) = n
    <2>1. n \in S /\ \A y \in S : n <= y
      BY <1>4
    <2>2. Min(S) \in S /\ \A y \in S : Min(S) <= y
      BY <2>1 DEF Min
    <2>3. PICK m \in S : m = Min(S)
      BY <2>2
    <2>4. m \in Nat /\ m <= n /\ n <= m
      BY <1>4, <2>1, <2>2, <2>3
    <2> QED
      BY <1>4, <2>3, <2>4
  <1> QED
    BY <1>1, <1>2, <1>3, <1>4

LEMMA StartedKept ==
    ASSUME Started, live' = live, sched'.priority = sched.priority,
           pc'[Idle] = pc[Idle] \/ {pc[Idle], pc'[Idle]} \subseteq {"chpri", "enable", "sleep"}
    PROVE  Started'
  BY DEF Started

LEMMA IdleThreads ==
    ASSUME SystemInv, ConsoleInv, Started, Blocks, IdleStep
    PROVE  Started' /\ Blocks'
  <1>0. ProgramTypes /\ KernelInv
    BY TypeParts DEF ConsoleInv, SystemInv
  <1>1. 1 \in Prio /\ 8 \in Prio /\ 15 \in Prio
    BY ConsoleAssumption DEF Prio
  <1>2. sched.priority \in [Tcb -> Prio]
    BY <1>0, SchedFields DEF KernelInv, TypeOK
  <1>3. \A label : Goto(Idle, label) => pc'[Idle] = label
    BY <1>0, Threads DEF Goto, ProgramTypes
  <1>4. CASE At(Idle, "run driver") /\ KzRun(1) /\ Goto(Idle, "run command")
    <2>1. live = {Idle} /\ pc'[Idle] = "run command"
      BY <1>3, <1>4 DEF Started, At
    <2>2. /\ live' = {Idle} \cup {Driver} /\ Blocks'
          /\ sched'.priority = [sched.priority EXCEPT ![Driver] = 1]
      BY <1>0, <1>1, <1>4, <2>1, FirstFree, RunKeeps
    <2>3. Command \notin live' /\ live' = {Idle, Driver} /\ sched'.priority[Driver] = 1
      BY <1>2, <2>2, Threads
    <2> QED
      BY <2>1, <2>2, <2>3 DEF Started
  <1>5. CASE At(Idle, "run command") /\ KzRun(8) /\ Goto(Idle, "chpri")
    <2>1. live = {Idle, Driver} /\ pc'[Idle] = "chpri" /\ sched.priority[Driver] = 1
      BY <1>3, <1>5 DEF Started, At
    <2>2. /\ live' = {Idle, Driver} \cup {Command} /\ Blocks'
          /\ sched'.priority = [sched.priority EXCEPT ![Command] = 8]
      BY <1>0, <1>1, <1>5, <2>1, FirstFree, RunKeeps
    <2>3. /\ live' = {Idle, Driver, Command} /\ sched'.priority[Driver] = 1
          /\ sched'.priority[Command] = 8
      BY <1>2, <2>1, <2>2, Threads
    <2> QED
      BY <2>1, <2>2, <2>3 DEF Started
  <1>6. CASE At(Idle, "chpri") /\ KzChpri(15) /\ Goto(Idle, "enable")
    <2>1. pc[Idle] = "chpri" /\ pc'[Idle] = "enable" /\ Caller = Idle
      BY <1>3, <1>6 DEF At, Caller
    <2>2. /\ live' = live /\ Blocks'
          /\ sched'.priority = [sched.priority EXCEPT ![Idle] = 15]
      BY <1>0, <1>1, <1>6, <2>1, ChpriKeeps
    <2>3. sched'.priority[Driver] = sched.priority[Driver]
          /\ sched'.priority[Command] = sched.priority[Command]
      BY <1>2, <2>2, Threads
    <2> QED
      BY <2>1, <2>2, <2>3 DEF Started
  <1>7. CASE At(Idle, "enable") /\ INTR_ENABLE /\ Goto(Idle, "sleep")
    <2>1. pc[Idle] = "enable" /\ pc'[Idle] = "sleep"
      BY <1>3, <1>7 DEF At
    <2>2. Steady
      BY <1>7, MaskKeeps DEF INTR_ENABLE
    <2> QED
      BY <2>1, <2>2, StartedKept DEF Steady
  <1> QED
    BY <1>4, <1>5, <1>6, <1>7 DEF IdleStep

LEMMA ThreadsStep ==
    ASSUME SystemInv, ConsoleInv, Started, Blocks, [ConsoleNext]_consoleVars
    PROVE  Started' /\ Blocks'
  <1>0. ProgramTypes /\ KernelInv
    BY TypeParts DEF ConsoleInv, SystemInv
  <1>1. CASE IdleStep
    BY <1>1, IdleThreads
  <1>2. ASSUME ~IdleStep
        PROVE  Steady /\ pc'[Idle] = pc[Idle]
    <2>1. CASE CommandStep
      <3>1. pc'[Idle] = pc[Idle]
        BY <1>0, <2>1, Threads DEF CommandStep, CommandAlloc, CommandSend, CommandRecv,
                                   CommandLine, CommandFree, Goto, ProgramTypes
      <3>2. Steady
        BY <1>0, <2>1, AllocKeeps, FreeKeeps, SendKeeps, RecvKeeps, StaysPut, Threads
           DEF CommandStep, CommandAlloc, CommandSend, CommandRecv, CommandLine, CommandFree, vars
      <3> QED
        BY <3>1, <3>2
    <2>2. CASE DriverStep
      <3>1. pc'[Idle] = pc[Idle]
        <4>1. \E label : Goto(Driver, label)
          BY <2>2 DEF DriverStep, DriverSetintr, DriverRecv, DriverRequest, DriverAllocSend,
                      DriverAllocRecv, DriverInit, DriverMask, DriverAppend, DriverStart,
                      DriverByte, DriverShift, DriverUnmask, DriverFree
        <4> QED
          BY <1>0, <4>1, Threads DEF Goto, ProgramTypes
      <3>2. CASE DriverSetintr \/ DriverRecv \/ DriverAllocSend \/ DriverAllocRecv \/ DriverFree
        BY <1>0, <3>1, <3>2, AllocKeeps, FreeKeeps, RecvKeeps, SetintrKeeps, Threads
           DEF DriverSetintr, DriverRecv, DriverAllocSend, DriverAllocRecv, DriverFree
      <3>3. CASE DriverMask \/ DriverUnmask
        BY <3>1, <3>3, MaskKeeps DEF DriverMask, DriverUnmask, INTR_ENABLE, INTR_DISABLE
      <3>4. CASE DriverRequest \/ DriverInit \/ DriverAppend \/ DriverStart \/ DriverByte
                 \/ DriverShift
        BY <3>1, <3>4, StaysPut DEF DriverRequest, DriverInit, DriverAppend, DriverStart,
                                    DriverByte, DriverShift, vars
      <3> QED
        BY <2>2, <3>2, <3>3, <3>4 DEF DriverStep
    <2>3. CASE HandlerEnter \/ HandlerStep
      <3>1. pc' = pc
        BY <2>3 DEF HandlerEnter, HandlerStep, HandlerRead, HandlerAlloc, HandlerSend,
                    HandlerTransmit, program
      <3>2. CASE HandlerEnter \/ HandlerTransmit
        BY <1>0, <3>1, <3>2, InterruptKeeps DEF HandlerEnter, HandlerTransmit
      <3>3. CASE HandlerAlloc \/ HandlerSend
        BY <1>0, <3>1, <3>3, AllocKeeps, SendKeeps, Threads DEF HandlerAlloc, HandlerSend
      <3>4. CASE HandlerRead
        BY <3>1, <3>4, StaysPut DEF HandlerRead, vars
      <3> QED
        BY <2>3, <3>2, <3>3, <3>4 DEF HandlerStep
    <2>4. CASE Transmit \/ Type \/ UNCHANGED consoleVars
      BY <2>4, StaysPut DEF Transmit, Type, consoleVars, vars, program
    <2> QED
      BY <1>2, <2>1, <2>2, <2>3, <2>4 DEF ConsoleNext, Processor
  <1> QED
    BY <1>1, <1>2, StartedKept DEF Steady

\* A thread blocked in kz_recv is the receiver of that box.
LEMMA BlockedReceives ==
    ASSUME SystemInv, Blocks, NEW t \in Tcb, syscall[t] # NULL
    PROVE  \E id \in Box : syscall[t] = Receiving(id) /\ ipc.receiver[id] = t
  <1>1. t \in live /\ t \notin ReadyThreads /\ syscall[t] \in {Receiving(id) : id \in Box}
    BY DEF Blocks, ReadyThreads
  <1>2. syscall[t] \notin {Sleeping, RunFailed}
    BY <1>1 DEF Receiving, Sleeping, RunFailed
  <1> QED
    BY <1>1, <1>2 DEF SystemInv, KernelInv, NoThreadForgotten, WaitsOn

LEMMA SleeperReceives ==
    ASSUME SystemInv, Blocks, NEW t \in live, ~sched.ready[t]
    PROVE  \E id \in Box : syscall[t] = Receiving(id) /\ ipc.receiver[id] = t
  <1>1. t \in Tcb /\ t \in live \ ReadyThreads
    BY DEF SystemInv, KernelInv, TypeOK, ReadyThreads
  <1>2. syscall[t] # NULL
    <2>1. Sleeping \in Blocked /\ RunFailed \in Blocked /\ \A id \in Box : Receiving(id) \in Blocked
      BY DEF Blocked, Sleeping, RunFailed, Receiving
    <2>2. \/ syscall[t] \in {Sleeping, RunFailed}
          \/ \E id \in Box : syscall[t] = Receiving(id)
      BY <1>1 DEF SystemInv, KernelInv, NoThreadForgotten, WaitsOn
    <2> QED
      BY <2>1, <2>2, NullIsNoCall
  <1> QED
    BY <1>1, <1>2, BlockedReceives

\* The command thread has the processor only while the driver waits.
LEMMA DriverServesFirst ==
    ASSUME SystemInv, ConsoleInv, Started, Blocks, mode = "user", sched.current = Command
    PROVE  Waits /\ syscall[Driver] = Receiving(CONSOUTPUT)
  <1>1. /\ Command \in live /\ IsElected(sched, Command)
        /\ sched \in Sched /\ WellFormed(sched)
    BY DEF SystemInv, KernelInv, TypeOK, RunsHighest, ReadyQueues
  <1>2. Driver \in live /\ sched.priority[Driver] = 1 /\ sched.priority[Command] = 8
    BY <1>1, Threads DEF Started
  <1>3. 1 \in Prio /\ sched.head[1] = NULL
    BY <1>1, <1>2, ConsoleAssumption DEF IsElected, Prio
  <1>4. sched.order[1] = <<>>
    BY <1>1, <1>3, QueueOf, NullAssumption DEF Linked, HeadOf
  <1>5. ~sched.ready[Driver]
    <2>1. Range(sched.order[1]) = {}
      BY <1>4 DEF Range
    <2> QED
      BY <1>1, <1>2, <1>3, <2>1, QueueOf, Threads
  <1>6. PICK id \in Box : syscall[Driver] = Receiving(id) /\ ipc.receiver[id] = Driver
    BY <1>2, <1>5, SleeperReceives
  <1>7. id = CONSOUTPUT
    BY <1>6, ConsoleAssumption DEF ConsoleInv, Holds
  <1> QED
    BY <1>6, <1>7 DEF Waits


(***************************************************************************)
(* No request ever waits in the box of the driver: it is there to take it. *)
(***************************************************************************)
LEMMA OutputBoxStep ==
    ASSUME SystemInv, ConsoleInv, Started, Blocks, ipc.queue[CONSOUTPUT] = <<>>,
           [ConsoleNext]_consoleVars
    PROVE  ipc'.queue[CONSOUTPUT] = <<>>
  <1>1. held[Command] \subseteq Block /\ held[NULL] \subseteq Block
    BY Owned, Threads DEF TcbOrNull
  <1>2. CASE CommandSend
    <2>1. PICK p \in held[Command] : KzSend(CONSOUTPUT, p)
      BY <1>2 DEF CommandSend
    <2>2. ipc.receiver[CONSOUTPUT] # NULL
      BY <1>2, DriverServesFirst, Threads DEF CommandSend, At, Waits
    <2>3. Crash \/ Enqueues(CONSOUTPUT, p) \/ PassesOn(CONSOUTPUT, p)
      BY <1>1, <2>1, SendSafe, Threads DEF SystemInv, Payload
    <2> QED
      BY <2>2, <2>3 DEF Crash, Enqueues, PassesOn
  <1>3. CASE DriverRecv
    <2>1. Crash \/ Awaits(CONSOUTPUT) \/ Collects(CONSOUTPUT)
      BY <1>3, RecvSafe, Threads DEF DriverRecv, SystemInv
    <2> QED
      BY <2>1 DEF Crash, Awaits, Collects
  <1>4. CASE CommandRecv
    <2>1. Crash \/ Awaits(CONSINPUT) \/ Collects(CONSINPUT)
      BY <1>4, RecvSafe, Threads DEF CommandRecv, SystemInv
    <2> QED
      BY <2>1, Threads DEF Crash, Awaits, Collects, OtherBoxesKept
  <1>5. CASE HandlerSend
    <2>1. PICK p \in held[NULL] : KzSend(CONSINPUT, p)
      BY <1>5 DEF HandlerSend
    <2>2. Crash \/ Enqueues(CONSINPUT, p) \/ PassesOn(CONSINPUT, p)
      BY <1>1, <2>1, SendSafe, Threads DEF SystemInv, Payload
    <2> QED
      BY <2>2, Threads DEF Crash, Enqueues, PassesOn, OtherBoxesKept
  <1>6. CASE ipc' = ipc
    BY <1>6
  <1>7. \/ ipc' = ipc \/ CommandSend \/ DriverRecv \/ CommandRecv \/ HandlerSend
    <2>1. CASE IdleStep
      BY <2>1 DEF IdleStep, KzRun, KzChpri, INTR_ENABLE, IntrMask
    <2>2. CASE CommandStep \/ HandlerStep \/ HandlerEnter
      BY <2>2 DEF CommandStep, CommandAlloc, CommandLine, CommandFree, HandlerStep, HandlerRead,
                  HandlerAlloc, HandlerTransmit, HandlerEnter, IntrEnter, IntrLeave,
                  KzKmalloc, KzKmfree, Crash, vars
    <2>3. CASE DriverStep
      <3>1. CASE DriverSetintr \/ DriverAllocSend \/ DriverAllocRecv \/ DriverFree
        BY <3>1 DEF DriverSetintr, DriverAllocSend, DriverAllocRecv, DriverFree, KzSetintr,
                    KzKmalloc, KzKmfree, Crash
      <3>2. CASE \/ DriverRequest \/ DriverInit \/ DriverMask \/ DriverAppend \/ DriverStart
                 \/ DriverByte \/ DriverShift \/ DriverUnmask
        BY <3>2 DEF DriverRequest, DriverInit, DriverMask, DriverAppend, DriverStart, DriverByte,
                    DriverShift, DriverUnmask, INTR_ENABLE, INTR_DISABLE, IntrMask, vars
      <3> QED
        BY <2>3, <3>1, <3>2 DEF DriverStep
    <2>4. CASE Transmit \/ Type \/ UNCHANGED consoleVars
      BY <2>4 DEF Transmit, Type, consoleVars, vars
    <2> QED
      BY <2>1, <2>2, <2>3, <2>4 DEF ConsoleNext, Processor
  <1> QED
    BY <1>2, <1>3, <1>4, <1>5, <1>6, <1>7

-------------------------------------------------------------------------------
(***************************************************************************)
(* Who owns which block.                                                   *)
(***************************************************************************)
LEMMA NothingLost ==
    ASSUME [ConsoleNext]_consoleVars
    PROVE  lost' = lost
  <1>1. CASE IdleStep
    BY <1>1 DEF IdleStep, KzRun, KzChpri, INTR_ENABLE, IntrMask
  <1>2. CASE CommandStep
    BY <1>2 DEF CommandStep, CommandAlloc, CommandSend, CommandRecv, CommandLine, CommandFree,
                KzKmalloc, KzKmfree, KzSend, KzRecv, Crash, vars
  <1>3. CASE DriverSetintr \/ DriverRecv \/ DriverAllocSend \/ DriverAllocRecv \/ DriverFree
    BY <1>3 DEF DriverSetintr, DriverRecv, DriverAllocSend, DriverAllocRecv, DriverFree,
                KzSetintr, KzRecv, KzKmalloc, KzKmfree, Crash
  <1>4. CASE \/ DriverRequest \/ DriverInit \/ DriverMask \/ DriverAppend \/ DriverStart
             \/ DriverByte \/ DriverShift \/ DriverUnmask
    BY <1>4 DEF DriverRequest, DriverInit, DriverMask, DriverAppend, DriverStart, DriverByte,
                DriverShift, DriverUnmask, INTR_ENABLE, INTR_DISABLE, IntrMask, vars
  <1>5. CASE HandlerEnter \/ HandlerStep
    BY <1>5 DEF HandlerEnter, HandlerStep, HandlerRead, HandlerAlloc, HandlerSend,
                HandlerTransmit, IntrEnter, IntrLeave, KzKmalloc, KzSend, Crash, vars
  <1>6. CASE Transmit \/ Type \/ UNCHANGED consoleVars
    BY <1>6 DEF Transmit, Type, consoleVars, vars
  <1> QED
    BY <1>1, <1>2, <1>3, <1>4, <1>5, <1>6 DEF ConsoleNext, Processor, DriverStep

\* What the handler has in its hands, in a step that is not its own.
Emptyhanded == ~(mode = "handler" /\ hpc = "send")

\* A step that leaves the command thread, the lines and all owners but the driver alone.
LEMMA OwnersKept ==
    ASSUME Ownership, lost' = lost,
           ipc'.receiver[CONSINPUT] = ipc.receiver[CONSINPUT],
           ipc'.queue[CONSINPUT] = ipc.queue[CONSINPUT],
           \A mp \in Range(ipc.queue[CONSINPUT]) : ipc'.p[mp] = ipc.p[mp],
           pc'[Command] = pc[Command], line' = line,
           \A t \in TcbOrNull \ {Driver} : held'[t] = held[t],
           Emptyhanded, Emptyhanded'
    PROVE  Ownership'
  <1>1. held'[Command] = held[Command] /\ held'[NULL] = held[NULL]
        /\ \A t \in Tcb \ {Driver, Command} : held'[t] = held[t]
    BY Threads DEF TcbOrNull
  <1>2. CommandOwns'
    BY <1>1 DEF Ownership, CommandOwns, Listening, LineHeld
  <1>3. HandlerOwns'
    BY <1>1 DEF Ownership, HandlerOwns, Emptyhanded
  <1>4. LinesQueued' /\ NobodyElseOwns'
    BY <1>1 DEF Ownership, LinesQueued, NobodyElseOwns
  <1> QED
    BY <1>2, <1>3, <1>4 DEF Ownership

\* A step of the command thread, which may hand a block to the driver.
LEMMA CommandOwnersKept ==
    ASSUME Ownership, lost' = lost, mode = "user", mode' # "handler",
           ipc'.queue[CONSINPUT] = ipc.queue[CONSINPUT],
           \A mp \in Range(ipc.queue[CONSINPUT]) : ipc'.p[mp] = ipc.p[mp],
           \A t \in TcbOrNull \ {Driver, Command} : held'[t] = held[t],
           CommandOwns'
    PROVE  Ownership'
  <1>1. held'[NULL] = held[NULL] /\ \A t \in Tcb \ {Driver, Command} : held'[t] = held[t]
    BY Threads DEF TcbOrNull
  <1>2. HandlerOwns'
    BY <1>1 DEF Ownership, HandlerOwns
  <1>3. LinesQueued' /\ NobodyElseOwns'
    BY <1>1 DEF Ownership, LinesQueued, NobodyElseOwns
  <1> QED
    BY <1>2, <1>3 DEF Ownership

\* The block the command thread has beside its line.
LEMMA OnlyOneMore ==
    ASSUME NEW p0 \in Block, p0 \notin LineHeld, held[Command] = LineHeld \cup {p0},
           NEW p \in held[Command] \ {line}
    PROVE  p = p0 /\ held[Command] \ {p} = LineHeld
  BY DEF LineHeld

LEMMA CommandOwners ==
    ASSUME SystemInv, ConsoleInv, Ownership, lost' = lost, mode' # "down", CommandStep
    PROVE  Ownership'
  <1>0. ProgramTypes
    BY TypeParts DEF ConsoleInv
  <1>1. /\ mode = "user" /\ Caller = Command
        /\ \A from, to : At(Command, from) /\ Goto(Command, to)
               => pc[Command] = from /\ pc'[Command] = to
    BY <1>0, Threads DEF CommandStep, CommandAlloc, CommandSend, CommandRecv, CommandLine,
                         CommandFree, At, Caller, Goto, ProgramTypes
  <1>2. ~Listening
    BY NobodyWaitsThatRuns, Threads
       DEF CommandStep, CommandAlloc, CommandSend, CommandRecv, CommandLine, CommandFree, Listening
  <1>3. /\ ipc.receiver[CONSINPUT] = NULL
        /\ pc[Command] \in {"recv", "line"} => line = NULL
        /\ pc[Command] = "free" => line # NULL
        /\ IF pc[Command] \in {"send", "line"}
           THEN \E p \in Block \ LineHeld : held[Command] = LineHeld \cup {p}
           ELSE held[Command] = LineHeld
    BY <1>2 DEF Ownership, CommandOwns, Listening
  <1>4. Command \in TcbOrNull /\ Command # NULL
    BY Threads
  <1>5. CASE CommandAlloc
    <2> DEFINE b == AllocBlock(mem, Len(Head(todo)))
    <2>1. /\ pc[Command] = "alloc" /\ pc'[Command] = "send" /\ line' = line
          /\ KzKmalloc(Len(Head(todo)))
      BY <1>1, <1>5 DEF CommandAlloc
    <2>2. Allocates(b) /\ mode' # "handler"
      BY <1>1, <2>1, AllocCall DEF Returns
    <2> HIDE DEF b
    <2>3. b \in Block /\ b \notin held[Command] /\ ipc' = ipc
      BY <1>4, <2>2, Owned DEF Allocates
    <2>4. held'[Command] = LineHeld \cup {b} /\ b \notin LineHeld
      BY <1>1, <1>3, <1>4, <2>1, <2>2, <2>3 DEF Allocates
    <2>5. CommandOwns'
      BY <1>3, <2>1, <2>3, <2>4, Threads DEF CommandOwns, Listening, LineHeld
    <2> QED
      BY <1>1, <2>2, <2>3, <2>5, CommandOwnersKept DEF Allocates
  <1>6. CASE CommandSend
    <2>1. /\ pc[Command] = "send" /\ line' = line
          /\ pc'[Command] \in {"alloc", IF line = NULL THEN "recv" ELSE "free"}
      BY <1>1, <1>6 DEF CommandSend
    <2>2. PICK p \in held[Command] \ {line} : KzSend(CONSOUTPUT, p)
      BY <1>6 DEF CommandSend
    <2>3. p \in Block /\ held[Command] \ {p} = LineHeld
      BY <1>3, <2>1, <2>2, OnlyOneMore
    <2>4. /\ PayloadsKept /\ mode' # "handler"
          /\ Enqueues(CONSOUTPUT, p) \/ PassesOn(CONSOUTPUT, p)
      BY <1>1, <2>2, <2>3, SendCall, Threads DEF Returns
    <2>5. ipc.receiver[CONSOUTPUT] \in {NULL, Driver}
      BY <1>1 DEF ConsoleInv, Holds
    <2>6. /\ ipc'.queue[CONSINPUT] = ipc.queue[CONSINPUT]
          /\ ipc'.receiver[CONSINPUT] = ipc.receiver[CONSINPUT]
          /\ held'[Command] = LineHeld
          /\ \A t \in TcbOrNull \ {Driver, Command} : held'[t] = held[t]
      <3>1. CASE Enqueues(CONSOUTPUT, p)
        BY <1>1, <1>4, <2>3, <3>1, Threads DEF Enqueues, OtherBoxesKept
      <3>2. CASE PassesOn(CONSOUTPUT, p)
        BY <1>1, <1>4, <2>3, <2>5, <3>2, Threads, NullAssumption DEF PassesOn, OtherBoxesKept
      <3> QED
        BY <2>4, <3>1, <3>2
    <2>7. \A mp \in Range(ipc.queue[CONSINPUT]) : ipc'.p[mp] = ipc.p[mp]
      BY <2>4, <2>6, Threads DEF PayloadsKept
    <2>8. CommandOwns'
      BY <1>3, <2>1, <2>6, Threads DEF CommandOwns, Listening, LineHeld
    <2> QED
      BY <1>1, <2>4, <2>6, <2>7, <2>8, CommandOwnersKept
  <1>7. CASE CommandRecv
    <2>1. /\ pc[Command] = "recv" /\ pc'[Command] = "line" /\ line' = line
          /\ KzRecv(CONSINPUT)
      BY <1>1, <1>7 DEF CommandRecv
    <2>2. /\ PayloadsKept /\ mode' # "handler"
          /\ Awaits(CONSINPUT) \/ Collects(CONSINPUT)
      BY <1>1, <2>1, RecvCall, Threads DEF Returns
    <2>3. line = NULL /\ LineHeld = {} /\ held[Command] = {}
      BY <1>3, <2>1 DEF LineHeld
    <2>4. CASE Awaits(CONSINPUT)
      <3>1. ipc'.receiver[CONSINPUT] = Command /\ held' = held
        BY <1>1, <2>4 DEF Awaits
      <3>2. CommandOwns'
        BY <2>1, <2>3, <3>1 DEF CommandOwns, Listening, LineHeld
      <3>3. Range(ipc.queue[CONSINPUT]) = {}
        BY <2>4 DEF Awaits, Range
      <3> QED
        BY <1>1, <2>2, <2>4, <3>2, <3>3, CommandOwnersKept DEF Awaits
    <2>5. CASE Collects(CONSINPUT)
      <3> DEFINE q == ipc.queue[CONSINPUT]
      <3>1. q \in Seq(Block) /\ q # <<>>
        BY <2>5, Threads DEF Collects, SystemInv, KernelInv, TypeOK, Boxes
      <3>2. /\ ipc'.queue[CONSINPUT] = Tail(q) /\ ipc'.receiver[CONSINPUT] = NULL
            /\ held'[Command] = held[Command] \cup ({ipc.p[q[1]]} \cap Block)
            /\ \A t \in TcbOrNull \ {Command} : held'[t] = held[t]
        BY <1>1, <1>4, <2>5 DEF Collects
      <3> HIDE DEF q
      <3>3. q[1] \in Range(q) /\ Range(Tail(q)) \subseteq Range(q)
        <4>1. 1 \in DOMAIN q /\ DOMAIN Tail(q) = 1..Len(Tail(q))
              /\ \A i \in 1..Len(Tail(q)) : i + 1 \in DOMAIN q /\ Tail(q)[i] = q[i + 1]
          BY <3>1
        <4> QED
          BY <4>1 DEF Range
      <3>4. ipc.p[q[1]] \in Block
        BY <3>3 DEF Ownership, LinesQueued, q
      <3>5. held'[Command] = {ipc.p[q[1]]}
        BY <2>3, <3>2, <3>4
      <3>6. CommandOwns'
        BY <1>4, <2>1, <2>3, <3>2, <3>4, <3>5 DEF CommandOwns, Listening, LineHeld
      <3>7. LinesQueued'
        <4>1. \A mp \in Range(Tail(q)) : ipc'.p[mp] = ipc.p[mp]
          BY <2>2, <3>2, <3>3, Threads DEF PayloadsKept, q
        <4> QED
          BY <3>2, <3>3, <4>1 DEF Ownership, LinesQueued, q
      <3>8. HandlerOwns' /\ NobodyElseOwns'
        <4>1. held'[NULL] = held[NULL] /\ \A t \in Tcb \ {Driver, Command} : held'[t] = held[t]
          BY <1>4, <3>2, Threads DEF TcbOrNull
        <4> QED
          BY <1>1, <2>2, <4>1 DEF Ownership, HandlerOwns, NobodyElseOwns
      <3> QED
        BY <3>6, <3>7, <3>8 DEF Ownership
    <2> QED
      BY <2>2, <2>4, <2>5
  <1>8. CASE CommandLine
    <2>1. /\ pc[Command] = "line" /\ pc'[Command] = "alloc"
          /\ UNCHANGED <<ipc, held, mode>>
      BY <1>1, <1>8 DEF CommandLine, vars
    <2>2. PICK p \in held[Command] : line' = p
      BY <1>8 DEF CommandLine
    <2>3. line = NULL /\ held[Command] = {p} /\ p # NULL
      BY <1>3, <2>1, <2>2, NullIsNoBlock DEF LineHeld
    <2>4. CommandOwns'
      BY <1>3, <1>4, <2>1, <2>2, <2>3 DEF CommandOwns, Listening, LineHeld
    <2> QED
      BY <1>1, <2>1, <2>4, CommandOwnersKept
  <1>9. CASE CommandFree
    <2>1. /\ pc[Command] = "free" /\ pc'[Command] = "alloc" /\ line' = NULL /\ KzKmfree(line)
      BY <1>1, <1>9 DEF CommandFree
    <2>2. /\ mode' # "handler" /\ ipc' = ipc
          /\ \A t \in TcbOrNull : held'[t] = IF t = Command THEN held[t] \ {line} ELSE held[t]
      BY <1>1, <2>1, FreeCall DEF Returns
    <2>3. held'[Command] = {}
      BY <1>3, <1>4, <2>1, <2>2 DEF LineHeld
    <2>4. CommandOwns'
      BY <1>3, <1>4, <2>1, <2>2, <2>3 DEF CommandOwns, Listening, LineHeld
    <2> QED
      BY <1>1, <2>2, <2>4, CommandOwnersKept
  <1> QED
    BY <1>5, <1>6, <1>7, <1>8, <1>9 DEF CommandStep

LEMMA DriverOwners ==
    ASSUME SystemInv, ConsoleInv, Ownership, lost' = lost, mode' # "down", DriverStep
    PROVE  Ownership'
  <1>0. ProgramTypes
    BY TypeParts DEF ConsoleInv
  <1>1. /\ mode = "user" /\ Caller = Driver /\ line' = line
        /\ \E label : Goto(Driver, label)
    BY DEF DriverStep, DriverSetintr, DriverRecv, DriverRequest, DriverAllocSend,
           DriverAllocRecv, DriverInit, DriverMask, DriverAppend, DriverStart,
           DriverByte, DriverShift, DriverUnmask, DriverFree, At, Caller
  <1>2. pc'[Command] = pc[Command]
    BY <1>0, <1>1, Threads DEF Goto, ProgramTypes
  <1>3. CASE DriverSetintr
    BY <1>1, <1>2, <1>3, QuietCall, OwnersKept DEF DriverSetintr, Returns, Emptyhanded
  <1>4. CASE DriverRecv
    <2>1. /\ PayloadsKept /\ mode' # "handler"
          /\ Awaits(CONSOUTPUT) \/ Collects(CONSOUTPUT)
      BY <1>1, <1>4, RecvCall, Threads DEF DriverRecv, Returns
    <2>2. /\ ipc'.queue[CONSINPUT] = ipc.queue[CONSINPUT]
          /\ ipc'.receiver[CONSINPUT] = ipc.receiver[CONSINPUT]
          /\ \A t \in TcbOrNull \ {Driver} : held'[t] = held[t]
      BY <1>1, <2>1, Threads DEF Awaits, Collects, OtherBoxesKept
    <2>3. \A mp \in Range(ipc.queue[CONSINPUT]) : ipc'.p[mp] = ipc.p[mp]
      BY <2>1, <2>2, Threads DEF PayloadsKept
    <2> QED
      BY <1>1, <1>2, <2>1, <2>2, <2>3, OwnersKept DEF Emptyhanded
  <1>5. CASE DriverAllocSend \/ DriverAllocRecv
    <2>1. Returns /\ Allocates(AllocBlock(mem, CONS_BUFFER_SIZE))
      BY <1>5, AllocCall DEF DriverAllocSend, DriverAllocRecv
    <2> QED
      BY <1>1, <1>2, <2>1, OwnersKept DEF Allocates, Returns, Emptyhanded
  <1>6. CASE DriverFree
    BY <1>1, <1>2, <1>6, FreeCall, OwnersKept DEF DriverFree, Returns, Emptyhanded
  <1>7. CASE \/ DriverRequest \/ DriverInit \/ DriverMask \/ DriverAppend \/ DriverStart
             \/ DriverByte \/ DriverShift \/ DriverUnmask
    <2>1. UNCHANGED <<ipc, held, mode>>
      BY <1>7 DEF DriverRequest, DriverInit, DriverMask, DriverAppend, DriverStart, DriverByte,
                  DriverShift, DriverUnmask, INTR_ENABLE, INTR_DISABLE, IntrMask, vars
    <2> QED
      BY <1>1, <1>2, <2>1, OwnersKept DEF Emptyhanded
  <1> QED
    BY <1>3, <1>4, <1>5, <1>6, <1>7 DEF DriverStep

LEMMA HandlerOwners ==
    ASSUME SystemInv, ConsoleInv, Ownership, lost' = lost, mode' # "down",
           HandlerEnter \/ HandlerStep
    PROVE  Ownership'
  <1>0. ProgramTypes
    BY TypeParts DEF ConsoleInv
  <1>1. UNCHANGED <<pc, line>>
    BY DEF HandlerEnter, HandlerStep, HandlerRead, HandlerAlloc, HandlerSend, HandlerTransmit,
           program
  <1>2. CASE HandlerEnter \/ HandlerRead \/ HandlerTransmit
    <2>1. /\ Emptyhanded /\ Emptyhanded' /\ UNCHANGED <<ipc, held>>
      BY <1>2 DEF HandlerEnter, HandlerRead, HandlerTransmit, IntrEnter, IntrLeave, Dispatch,
                  Emptyhanded, vars
    <2> QED
      BY <1>1, <2>1, OwnersKept
  <1>3. CASE HandlerAlloc \/ HandlerSend
    <2>1. mode = "handler" /\ Caller = NULL
      BY <1>3 DEF HandlerAlloc, HandlerSend, Caller
    <2>2. NULL \in TcbOrNull /\ Command \in TcbOrNull /\ Command # NULL /\ Driver # NULL
          /\ \A t \in Tcb : t \in TcbOrNull /\ t # NULL
      BY Threads, NullAssumption DEF TcbOrNull
    <2>3. CASE HandlerAlloc
      <3> DEFINE b == AllocBlock(mem, CONS_BUFFER_SIZE)
      <3>1. /\ hpc = "alloc" /\ hpc' = "send" /\ cons' = cons
            /\ text' = [text EXCEPT ![b] = cons.recv] /\ KzKmalloc(CONS_BUFFER_SIZE)
        BY <2>3 DEF HandlerAlloc
      <3>2. Returns /\ Allocates(b)
        BY <3>1, AllocCall
      <3> HIDE DEF b
      <3>3. /\ b \in Block /\ ipc' = ipc /\ mode' = "handler"
            /\ \A t \in TcbOrNull : held'[t] = IF t = NULL THEN held[t] \cup {b} ELSE held[t]
        BY <2>1, <3>2 DEF Allocates, Returns
      <3>4. held'[NULL] = {b} /\ text'[b] = cons'.recv
        <4>1. held[NULL] = {}
          BY <3>1 DEF Ownership, HandlerOwns
        <4> QED
          BY <1>0, <2>2, <3>1, <3>3, <4>1 DEF ProgramTypes
      <3>5. HandlerOwns'
        BY <3>1, <3>3, <3>4 DEF HandlerOwns
      <3>6. CommandOwns' /\ LinesQueued' /\ NobodyElseOwns'
        BY <1>1, <2>2, <3>3, Threads
           DEF Ownership, CommandOwns, Listening, LineHeld, LinesQueued, NobodyElseOwns
      <3> QED
        BY <3>5, <3>6 DEF Ownership
    <2>4. CASE HandlerSend
      <3>1. hpc = "send" /\ hpc' = "transmit"
        BY <2>4 DEF HandlerSend
      <3>2. PICK p \in Block : held[NULL] = {p} /\ KzSend(CONSINPUT, p)
        BY <2>1, <2>4, <3>1 DEF HandlerSend, Ownership, HandlerOwns
      <3>3. PayloadsKept /\ (Enqueues(CONSINPUT, p) \/ PassesOn(CONSINPUT, p))
        BY <3>2, SendCall, Threads
      <3>4. ipc.receiver[CONSINPUT] \in {NULL, Command}
        BY DEF Ownership, CommandOwns
      <3>5. /\ held'[NULL] = {} /\ \A t \in Tcb \ {Command} : held'[t] = held[t]
            /\ ipc'.receiver[CONSINPUT] = NULL
        BY <2>1, <2>2, <3>2, <3>3, <3>4 DEF Enqueues, PassesOn
      <3>6. HandlerOwns' /\ NobodyElseOwns'
        BY <3>1, <3>5 DEF Ownership, HandlerOwns, NobodyElseOwns
      <3>7. CASE Enqueues(CONSINPUT, p)
        <4> DEFINE q == ipc.queue[CONSINPUT]
        <4>1. PICK mp \in Block : ipc'.queue[CONSINPUT] = Append(q, mp) /\ ipc'.p[mp] = p
          BY <3>7 DEF Enqueues
        <4>2. q \in Seq(Block)
          BY Threads DEF SystemInv, KernelInv, TypeOK, Boxes
        <4> HIDE DEF q
        <4>3. Range(Append(q, mp)) = Range(q) \cup {mp}
          <5>1. /\ DOMAIN q = 1..Len(q) /\ DOMAIN Append(q, mp) = 1..(Len(q) + 1)
                /\ Append(q, mp)[Len(q) + 1] = mp
                /\ \A i \in 1..Len(q) : Append(q, mp)[i] = q[i]
            BY <4>2, AppendProperties
          <5>2. Len(q) \in Nat
            BY <4>2
          <5> QED
            BY <5>1, <5>2 DEF Range
        <4>4. \A m \in Range(q) : ipc'.p[m] \in Block
          BY <3>3, <4>1, <4>3, Threads DEF PayloadsKept, Ownership, LinesQueued, q
        <4>5. LinesQueued'
          BY <4>1, <4>3, <4>4 DEF LinesQueued
        <4>6. CommandOwns'
          <5>1. held'[Command] = held[Command] /\ ipc.receiver[CONSINPUT] = NULL
            BY <2>1, <2>2, <3>7 DEF Enqueues
          <5> QED
            BY <1>1, <2>2, <3>5, <5>1 DEF Ownership, CommandOwns, Listening, LineHeld
        <4> QED
          BY <3>6, <4>5, <4>6 DEF Ownership
      <3>8. CASE PassesOn(CONSINPUT, p)
        <4>1. ipc.receiver[CONSINPUT] = Command /\ ipc'.queue[CONSINPUT] = <<>>
          BY <2>2, <3>4, <3>8, NullAssumption DEF PassesOn
        <4>2. pc[Command] = "line" /\ line = NULL /\ held[Command] = {}
          BY <4>1 DEF Ownership, CommandOwns, Listening, LineHeld
        <4>3. held'[Command] = {p}
          BY <2>1, <2>2, <3>2, <3>8, <4>1, <4>2 DEF PassesOn
        <4>4. CommandOwns'
          BY <1>1, <2>2, <3>5, <4>2, <4>3 DEF CommandOwns, Listening, LineHeld
        <4>5. LinesQueued'
          BY <4>1 DEF LinesQueued, Range
        <4> QED
          BY <3>6, <4>4, <4>5 DEF Ownership
      <3> QED
        BY <3>3, <3>7, <3>8
    <2> QED
      BY <1>3, <2>3, <2>4
  <1> QED
    BY <1>2, <1>3 DEF HandlerStep

LEMMA OwnersStep ==
    ASSUME SystemInv, ConsoleInv, Ownership, mode' # "down", [ConsoleNext]_consoleVars
    PROVE  Ownership'
  <1>0. ProgramTypes /\ lost' = lost
    BY NothingLost, TypeParts DEF ConsoleInv
  <1>1. CASE IdleStep
    <2>1. \E label : Goto(Idle, label)
      BY <1>1 DEF IdleStep
    <2>2. pc'[Command] = pc[Command]
      BY <1>0, <2>1, Threads DEF Goto, ProgramTypes
    <2>3. 1 \in Prio \ {0} /\ 8 \in Prio \ {0} /\ 15 \in Prio
      BY ConsoleAssumption DEF Prio
    <2>4. line' = line /\ mode = "user"
      BY <1>1 DEF IdleStep, At
    <2>5. ipc' = ipc /\ held' = held /\ mode' # "handler"
      BY <1>1, <2>3, <2>4, QuietCall DEF IdleStep, INTR_ENABLE, IntrMask, Returns
    <2> QED
      BY <1>0, <2>2, <2>4, <2>5, OwnersKept DEF Emptyhanded
  <1>2. CASE CommandStep \/ DriverStep \/ HandlerEnter \/ HandlerStep
    BY <1>0, <1>2, CommandOwners, DriverOwners, HandlerOwners
  <1>3. CASE Transmit \/ Type \/ UNCHANGED consoleVars
    <2>1. UNCHANGED <<vars, pc, hpc, line, text>> /\ cons' = cons
      BY <1>3 DEF Transmit, Type, consoleVars, program
    <2> QED
      BY <2>1 DEF Ownership, CommandOwns, Listening, LineHeld, HandlerOwns, LinesQueued,
                  NobodyElseOwns, vars
  <1> QED
    BY <1>1, <1>2, <1>3 DEF ConsoleNext, Processor

\* At rest every block is free or one of the two console buffers.
LEMMA RestLeaksNothing ==
    ASSUME SystemInv, ConsoleInv, Blocks, Ownership, AtRest
    PROVE  Block \ FreeBlocks(mem) = {cons.send_buf, cons.recv_buf}
  <1>1. ipc.receiver[CONSOUTPUT] = Driver /\ ipc.receiver[CONSINPUT] = Command
    <2>1. ASSUME NEW t \in Tcb, NEW id \in Box, syscall[t] = Receiving(id)
          PROVE  ipc.receiver[id] = t
      <3>1. Receiving(id) \in Blocked /\ \A j \in Box : Receiving(j) = Receiving(id) => j = id
        BY DEF Receiving, Blocked
      <3>2. syscall[t] # NULL
        BY <2>1, <3>1, NullIsNoCall
      <3> QED
        BY <2>1, <3>1, <3>2, BlockedReceives
    <2> QED
      BY <2>1, Threads DEF AtRest, Waiting
  <1>2. \A id \in Box : ipc.queue[id] = <<>>
    <2>1. \A id \in Box : ipc.head[id] = NULL
      BY <1>1, Threads, ConsoleAssumption DEF SystemInv, KernelInv, ReceiverWaits
    <2>2. ASSUME NEW id \in Box PROVE ipc.queue[id] = <<>>
      <3>1. ipc.queue[id] \in Seq(Block) /\ HeadOf(ipc.queue[id]) = NULL
        BY <2>1 DEF SystemInv, KernelInv, TypeOK, Boxes, HeapInv, Accounted, BoxesLinked, Linked
      <3> QED
        BY <3>1, EndsOf, NullIsNoBlock
    <2> QED
      BY <2>2
  <1>3. Buffers(ipc) = {} /\ Payloads(ipc) = {}
    BY <1>2 DEF Buffers, Payloads, Range
  <1>4. /\ held[Driver] = ConsoleBuffers /\ held[Command] = {} /\ held[NULL] = {} /\ lost = {}
        /\ \A t \in Tcb \ {Driver, Command} : held[t] = {}
    BY <1>1 DEF AtRest, ConsoleInv, Holds, Waits, Ownership, CommandOwns, Listening, LineHeld,
                HandlerOwns, NobodyElseOwns
  <1>5. ClientBlocks(held) = ConsoleBuffers
    BY <1>4, Threads DEF ClientBlocks, TcbOrNull
  <1>6. NULL \notin {cons.send_buf, cons.recv_buf}
    BY <1>1 DEF AtRest, ConsoleInv, Holds, Waits, BuffersSet, Setup
  <1>7. EveryBlockOnce(FreeBlocks(mem), {}, {}, ConsoleBuffers, {})
    BY <1>3, <1>4, <1>5 DEF SystemInv, HeapInv, Accounted
  <1> QED
    BY <1>6, <1>7 DEF EveryBlockOnce, ConsoleBuffers

-------------------------------------------------------------------------------
(***************************************************************************)
(* Input: where the characters are that have arrived.                      *)
(***************************************************************************)
LineAt(i) == WholeLine(ipc.p[ipc.queue[CONSINPUT][i]])
LinesIn   == [i \in 1..Len(ipc.queue[CONSINPUT]) |-> LineAt(i)]

LEMMA LineType ==
    ASSUME ProgramTypes, NEW p \in Block
    PROVE  text[p] \in Seq(Char) /\ WholeLine(p) \in Seq(Char) /\ <<LF>> \in Seq(Char)
           /\ WholeLine(p) = text[p] \o <<LF>>
  <1>1. LF \in Char /\ text[p] \in Seq(Char)
    BY Characters DEF ProgramTypes
  <1>2. Append(text[p], LF) \in Seq(Char) /\ Append(text[p], LF) = text[p] \o <<LF>>
    BY <1>1, AppendIsConcat
  <1> QED
    BY <1>1, <1>2 DEF WholeLine

\* The blocks of the lines in the box belong to nobody.
LEMMA LineBlocks ==
    ASSUME SystemInv, LinesQueued
    PROVE  /\ ipc.queue[CONSINPUT] \in Seq(Block)
           /\ \A mp \in Range(ipc.queue[CONSINPUT]) : ipc.p[mp] \in Payloads(ipc)
           /\ \A i \in 1..Len(ipc.queue[CONSINPUT]) :
                 /\ ipc.queue[CONSINPUT][i] \in Range(ipc.queue[CONSINPUT])
                 /\ ipc.p[ipc.queue[CONSINPUT][i]] \in Block
  <1>1. ipc.queue[CONSINPUT] \in Seq(Block)
    BY Threads DEF SystemInv, KernelInv, TypeOK, Boxes
  <1>2. \A mp \in Range(ipc.queue[CONSINPUT]) : ipc.p[mp] \in Payloads(ipc)
    BY Threads DEF LinesQueued, Payloads, Buffers
  <1>3. \A i \in 1..Len(ipc.queue[CONSINPUT]) :
            ipc.queue[CONSINPUT][i] \in Range(ipc.queue[CONSINPUT])
    BY <1>1 DEF Range
  <1> QED
    BY <1>1, <1>2, <1>3 DEF LinesQueued

LEMMA LinesType ==
    ASSUME SystemInv, ProgramTypes, LinesQueued
    PROVE  /\ LinesIn \in Seq(Seq(Char)) /\ Len(LinesIn) = Len(ipc.queue[CONSINPUT])
           /\ InBox \in Seq(Char) /\ InBox = SeqExt!FlattenSeq(LinesIn)
  <1> DEFINE n == Len(ipc.queue[CONSINPUT])
  <1>1. n \in Nat /\ \A i \in 1..n : ipc.p[ipc.queue[CONSINPUT][i]] \in Block
    BY LineBlocks
  <1>2. \A i \in 1..n : LineAt(i) \in Seq(Char)
    BY <1>1, LineType DEF LineAt
  <1>3. LinesIn = [i \in 1..n |-> LineAt(i)]
    BY DEF LinesIn
  <1> HIDE DEF n
  <1>4. LinesIn \in Seq(Seq(Char)) /\ Len(LinesIn) = n
    BY <1>1, <1>2, <1>3
  <1>5. InBox = SeqExt!FlattenSeq(LinesIn)
    BY DEF InBox, LinesIn, LineAt
  <1> QED
    BY <1>4, <1>5, Flattened DEF n

\* What the command thread has in its hands depends on its place alone.
LEMMA HandOf ==
    ASSUME Ownership
    PROVE  /\ pc[Command] = "line" /\ ~Listening =>
                  \E p \in Block : /\ held[Command] = {p} /\ line = NULL
                                   /\ InHand = WholeLine(p)
           /\ ~(pc[Command] = "line" /\ ~Listening) => InHand = <<>>
  <1>1. CASE pc[Command] = "line" /\ ~Listening
    <2>1. line = NULL
      BY <1>1 DEF Ownership, CommandOwns
    <2>2. PICK p \in Block : held[Command] = {p}
      BY <1>1, <2>1 DEF Ownership, CommandOwns, LineHeld
    <2>3. (CHOOSE b \in {p} : TRUE) = p
      OBVIOUS
    <2> QED
      BY <1>1, <2>1, <2>2, <2>3 DEF InHand
  <1>2. CASE pc[Command] = "line" /\ Listening
    BY <1>2 DEF Ownership, CommandOwns, LineHeld, InHand
  <1>3. CASE pc[Command] # "line"
    BY <1>3 DEF InHand
  <1> QED
    BY <1>1, <1>2, <1>3

LEMMA InputTypes ==
    ASSUME SystemInv, ConsoleInv, Ownership
    PROVE  /\ taken \in Seq(Char) /\ InHand \in Seq(Char) /\ InBox \in Seq(Char)
           /\ cons.recv \in Seq(Char) /\ InHandler \in Seq(Char)
  <1>1. ProgramTypes /\ DeviceTypes
    BY TypeParts DEF ConsoleInv
  <1>2. taken \in Seq(Char) /\ cons.recv \in Seq(Char)
    BY <1>1 DEF DeviceTypes
  <1>3. <<>> \in Seq(Char) /\ <<LF>> \in Seq(Char)
    BY Characters
  <1>4. InHand \in Seq(Char)
    BY <1>1, <1>3, HandOf, LineType
  <1>5. InBox \in Seq(Char)
    BY <1>1, LinesType DEF Ownership
  <1> QED
    BY <1>2, <1>3, <1>4, <1>5 DEF InHandler

\* The lines in the box are those they were.
LEMMA InBoxKept ==
    ASSUME SystemInv, LinesQueued,
           ipc'.queue[CONSINPUT] = ipc.queue[CONSINPUT],
           \A mp \in Range(ipc.queue[CONSINPUT]) : ipc'.p[mp] = ipc.p[mp],
           \A p \in Payloads(ipc) : text'[p] = text[p]
    PROVE  InBox' = InBox
  <1> DEFINE n == Len(ipc.queue[CONSINPUT])
  <1>1. Len(ipc'.queue[CONSINPUT]) = n
    OBVIOUS
  <1>2. \A i \in 1..n : LineAt(i)' = LineAt(i)
    <2> TAKE i \in 1..n
    <2> DEFINE mp == ipc.queue[CONSINPUT][i]
    <2>1. mp \in Range(ipc.queue[CONSINPUT]) /\ ipc'.queue[CONSINPUT][i] = mp
      BY LineBlocks
    <2>2. ipc'.p[mp] = ipc.p[mp] /\ text'[ipc.p[mp]] = text[ipc.p[mp]]
      BY <2>1, LineBlocks
    <2> QED
      BY <2>1, <2>2 DEF LineAt, WholeLine
  <1>3. [i \in 1..n |-> LineAt(i)'] = [i \in 1..n |-> LineAt(i)]
    BY <1>2
  <1>4. LinesIn' = LinesIn
    BY <1>1, <1>3 DEF LinesIn
  <1> QED
    BY <1>4 DEF InBox, LinesIn, LineAt

LEMMA ArrivedKept ==
    ASSUME typed' = typed, sci'.rdrf = sci.rdrf
    PROVE  Arrived' = Arrived
  BY DEF Arrived

\* A step that moves no input.
LEMMA InputKept ==
    ASSUME Typing, InputInOrder, mode # "down", UNCHANGED <<typed, taken>>,
           sci'.rdrf = sci.rdrf, sci'.rdr = sci.rdr, cons'.recv = cons.recv, Up => Up',
           InHand' = InHand, InBox' = InBox, InHandler' = InHandler
    PROVE  Typing' /\ InputInOrder'
  <1>1. Typing'
    BY DEF Typing
  <1>2. Arrived' = Arrived
    BY ArrivedKept
  <1> QED
    BY <1>1, <1>2 DEF InputInOrder

\* A step that leaves the command thread, the lines and their blocks alone.
LEMMA InputElsewhere ==
    ASSUME SystemInv, Ownership, Typing, InputInOrder, mode # "down",
           UNCHANGED <<typed, taken>>,
           sci'.rdrf = sci.rdrf, sci'.rdr = sci.rdr, cons'.recv = cons.recv, Up => Up',
           InHandler' = InHandler,
           pc'[Command] = pc[Command], held'[Command] = held[Command],
           ipc'.queue[CONSINPUT] = ipc.queue[CONSINPUT],
           \A mp \in Range(ipc.queue[CONSINPUT]) : ipc'.p[mp] = ipc.p[mp],
           \A p \in Payloads(ipc) \cup held[Command] : text'[p] = text[p]
    PROVE  Typing' /\ InputInOrder'
  <1>1. InHand' = InHand
    <2> DEFINE c == CHOOSE p \in held[Command] : TRUE
    <2>1. held[Command] # {} => c \in held[Command] /\ text'[c] = text[c]
      OBVIOUS
    <2>2. held[Command] # {} => WholeLine(c)' = WholeLine(c)
      BY <2>1 DEF WholeLine
    <2> QED
      BY <2>2 DEF InHand
  <1>2. InBox' = InBox
    BY InBoxKept DEF Ownership
  <1> QED
    BY <1>1, <1>2, InputKept

LEMMA IdleInput ==
    ASSUME SystemInv, ConsoleInv, Ownership, Typing, InputInOrder, mode' # "down", IdleStep
    PROVE  Typing' /\ InputInOrder'
  <1>0. ProgramTypes
    BY TypeParts DEF ConsoleInv
  <1>1. \E label : Goto(Idle, label)
    BY DEF IdleStep
  <1>2. pc'[Command] = pc[Command]
    BY <1>0, <1>1, Threads DEF Goto, ProgramTypes
  <1>3. 1 \in Prio \ {0} /\ 8 \in Prio \ {0} /\ 15 \in Prio
    BY ConsoleAssumption DEF Prio
  <1>4. mode = "user" /\ UNCHANGED <<text, cons, sci, typed, taken>>
    BY DEF IdleStep, At, terminal, history
  <1>5. ipc' = ipc /\ held' = held /\ mode' # "handler"
    BY <1>3, <1>4, QuietCall DEF IdleStep, INTR_ENABLE, IntrMask, Returns
  <1>6. InHandler' = InHandler
    BY <1>4, <1>5 DEF InHandler
  <1>7. Up' = Up
    BY <1>4 DEF Up
  <1> QED
    BY <1>2, <1>4, <1>5, <1>6, <1>7, InputElsewhere

LEMMA DriverInput ==
    ASSUME SystemInv, ConsoleInv, Ownership, Typing, InputInOrder, mode' # "down", DriverStep
    PROVE  Typing' /\ InputInOrder'
  <1>0. ProgramTypes /\ DeviceTypes
    BY TypeParts DEF ConsoleInv
  <1>1. /\ mode = "user" /\ Caller = Driver /\ UNCHANGED <<text, typed, taken>>
        /\ \E label : Goto(Driver, label)
    BY DEF DriverStep, DriverSetintr, DriverRecv, DriverRequest, DriverAllocSend,
           DriverAllocRecv, DriverInit, DriverMask, DriverAppend, DriverStart,
           DriverByte, DriverShift, DriverUnmask, DriverFree, At, Caller, terminal, history
  <1>2. pc'[Command] = pc[Command]
    BY <1>0, <1>1, Threads DEF Goto, ProgramTypes
  <1>3. /\ mode' # "handler" /\ held'[Command] = held[Command]
        /\ ipc'.queue[CONSINPUT] = ipc.queue[CONSINPUT]
        /\ \A mp \in Range(ipc.queue[CONSINPUT]) : ipc'.p[mp] = ipc.p[mp]
    <2>1. CASE DriverSetintr
      BY <1>1, <2>1, QuietCall DEF DriverSetintr, Returns
    <2>2. CASE DriverRecv
      <3>1. /\ PayloadsKept /\ mode' # "handler"
            /\ Awaits(CONSOUTPUT) \/ Collects(CONSOUTPUT)
        BY <1>1, <2>2, RecvCall, Threads DEF DriverRecv, Returns
      <3>2. /\ ipc'.queue[CONSINPUT] = ipc.queue[CONSINPUT]
            /\ \A t \in TcbOrNull \ {Driver} : held'[t] = held[t]
        BY <1>1, <3>1, Threads DEF Awaits, Collects, OtherBoxesKept
      <3> QED
        BY <3>1, <3>2, Threads DEF PayloadsKept
    <2>3. CASE DriverAllocSend \/ DriverAllocRecv
      <3>1. Returns /\ Allocates(AllocBlock(mem, CONS_BUFFER_SIZE))
        BY <2>3, AllocCall DEF DriverAllocSend, DriverAllocRecv
      <3> QED
        BY <1>1, <3>1, Threads DEF Allocates, Returns
    <2>4. CASE DriverFree
      BY <1>1, <2>4, FreeCall, Threads DEF DriverFree, Returns
    <2>5. CASE \/ DriverRequest \/ DriverInit \/ DriverMask \/ DriverAppend \/ DriverStart
               \/ DriverByte \/ DriverShift \/ DriverUnmask
      <3>1. UNCHANGED <<ipc, held, mode>>
        BY <2>5 DEF DriverRequest, DriverInit, DriverMask, DriverAppend, DriverStart,
                    DriverByte, DriverShift, DriverUnmask, INTR_ENABLE, INTR_DISABLE,
                    IntrMask, vars
      <3> QED
        BY <1>1, <3>1
    <2> QED
      BY <2>1, <2>2, <2>3, <2>4, <2>5 DEF DriverStep
  <1>4. sci'.rdrf = sci.rdrf /\ sci'.rdr = sci.rdr /\ cons'.recv = cons.recv /\ (Up => Up')
    <2>1. CASE DriverInit
      <3>1. mode # "down" /\ pc[Driver] = "serial_init" /\ ~Up
        BY <1>1, <2>1 DEF DriverInit, At, ConsoleInv, InOrder, Setup
      <3>2. sci = InitialSci /\ cons.recv = <<>>
        BY <3>1 DEF ConsoleInv, Fresh, Typing
      <3>3. sci' = [InitialSci EXCEPT !.rie = TRUE] /\ cons' = [cons EXCEPT !.send = <<>>, !.recv = <<>>]
        BY <2>1 DEF DriverInit
      <3> QED
        BY <1>0, <3>1, <3>2, <3>3 DEF InitialSci, DeviceTypes
    <2>2. CASE DriverStart \/ DriverByte
      <3>1. cons' = cons /\ sci' \in {sci, [sci EXCEPT !.tie = TRUE], SendByte(sci, First(cons))}
        BY <2>2 DEF DriverStart, DriverByte
      <3> QED
        BY <1>0, <3>1 DEF SendByte, DeviceTypes, SciTypes, Up
    <2>3. CASE DriverAppend \/ DriverShift
      <3>1. sci' = sci /\ \E str : cons' \in {Buffered(cons, str), Shifted(cons)}
        BY <2>3 DEF DriverAppend, DriverShift
      <3> QED
        BY <1>0, <3>1 DEF Buffered, Shifted, DeviceTypes, Up
    <2>4. CASE DriverRequest \/ DriverAllocSend \/ DriverAllocRecv
      <3>1. sci' = sci /\ \E x : cons' \in {cons, [cons EXCEPT !.id = x], [cons EXCEPT !.send_buf = x],
                                            [cons EXCEPT !.recv_buf = x]}
        BY <2>4 DEF DriverRequest, DriverAllocSend, DriverAllocRecv
      <3> QED
        BY <1>0, <3>1 DEF DeviceTypes, Up
    <2>5. CASE DriverSetintr \/ DriverRecv \/ DriverMask \/ DriverUnmask \/ DriverFree
      BY <2>5 DEF DriverSetintr, DriverRecv, DriverMask, DriverUnmask, DriverFree, Up
    <2> QED
      BY <2>1, <2>2, <2>3, <2>4, <2>5 DEF DriverStep
  <1>5. InHandler' = InHandler
    BY <1>1, <1>3 DEF InHandler
  <1> QED
    BY <1>1, <1>2, <1>3, <1>4, <1>5, InputElsewhere

LEMMA AppendOne ==
    ASSUME NEW S, NEW s \in Seq(S), NEW e \in S, NEW n \in Nat, Len(s) = n
    PROVE  /\ Append(s, e) \in Seq(S) /\ Len(Append(s, e)) = n + 1
           /\ Append(s, e)[n + 1] = e
           /\ \A i \in 1..n : Append(s, e)[i] = s[i]
  BY AppendProperties

LEMMA SeqIsFunction ==
    ASSUME NEW S, NEW s \in Seq(S), NEW n, Len(s) = n
    PROVE  s = [i \in 1..n |-> s[i]]
  OBVIOUS

\* The first line of the box goes into the hands of the command thread.
LEMMA Collected ==
    ASSUME NEW a \in Seq(Char), NEW l \in Seq(Char), NEW b \in Seq(Char)
    PROVE  a \o <<>> \o (l \o b) = a \o l \o b
  <1>1. a \o <<>> = a
    BY ConcatEmptySeq
  <1>2. (a \o l) \o b = a \o (l \o b)
    BY Regroup
  <1> QED
    BY <1>1, <1>2

LEMMA CommandInput ==
    ASSUME SystemInv, ConsoleInv, Ownership, Ownership', Typing, InputInOrder,
           mode' # "down", CommandStep
    PROVE  Typing' /\ InputInOrder'
  <1>0. ProgramTypes /\ mode # "down"
    BY TypeParts DEF ConsoleInv, CommandStep, CommandAlloc, CommandSend, CommandRecv,
                     CommandLine, CommandFree, At
  <1>1. /\ mode = "user" /\ Caller = Command
        /\ \A from, to : At(Command, from) /\ Goto(Command, to)
               => pc[Command] = from /\ pc'[Command] = to
    BY <1>0, Threads DEF CommandStep, CommandAlloc, CommandSend, CommandRecv, CommandLine,
                         CommandFree, At, Caller, Goto, ProgramTypes
  <1>2. ~Listening
    BY NobodyWaitsThatRuns, Threads
       DEF CommandStep, CommandAlloc, CommandSend, CommandRecv, CommandLine, CommandFree, Listening
  <1>3. UNCHANGED <<cons, sci, typed>> /\ Typing' /\ Arrived' = Arrived
    <2>1. UNCHANGED <<cons, sci, typed>>
      BY DEF CommandStep, CommandAlloc, CommandSend, CommandRecv, CommandLine, CommandFree,
             terminal
    <2>2. Typing'
      BY <2>1 DEF Typing, Up
    <2> QED
      BY <2>1, <2>2, ArrivedKept
  <1>4. LinesQueued
    BY DEF Ownership
  <1>5. ASSUME InHand' = InHand, InBox' = InBox, mode' # "handler", taken' = taken
        PROVE  InputInOrder'
    <2>1. InHandler' = InHandler /\ cons'.recv = cons.recv
      BY <1>1, <1>3, <1>5 DEF InHandler
    <2> QED
      BY <1>0, <1>3, <1>5, <2>1 DEF InputInOrder
  <1>6. CASE CommandAlloc \/ CommandFree
    <2>1. pc[Command] # "line" /\ pc'[Command] # "line" /\ UNCHANGED <<text, taken>>
      BY <1>1, <1>6 DEF CommandAlloc, CommandFree, history
    <2>2. ipc' = ipc /\ mode' # "handler"
      <3>1. CASE CommandAlloc
        BY <1>1, <3>1, AllocCall DEF CommandAlloc, Returns, Allocates
      <3>2. CASE CommandFree
        BY <1>1, <3>2, FreeCall DEF CommandFree, Returns
      <3> QED
        BY <1>6, <3>1, <3>2
    <2>3. InHand' = InHand
      BY <2>1 DEF InHand
    <2>4. InBox' = InBox
      BY <1>4, <2>1, <2>2, InBoxKept
    <2> QED
      BY <1>3, <1>5, <2>1, <2>2, <2>3, <2>4
  <1>7. CASE CommandSend
    <2>1. /\ pc[Command] = "send" /\ pc'[Command] \in {"alloc", "recv", "free"} /\ taken' = taken
      BY <1>1, <1>7 DEF CommandSend, history
    <2>2. PICK p \in held[Command] : /\ KzSend(CONSOUTPUT, p)
                                     /\ text' = [text EXCEPT ![p] = Head(todo)]
      BY <1>7 DEF CommandSend
    <2>3. p \in Block /\ p \notin Payloads(ipc)
      BY <2>2, Owned, Threads
    <2>4. /\ PayloadsKept /\ mode' # "handler"
          /\ Enqueues(CONSOUTPUT, p) \/ PassesOn(CONSOUTPUT, p)
      BY <1>1, <2>2, <2>3, SendCall, Threads DEF Returns
    <2>5. /\ ipc'.queue[CONSINPUT] = ipc.queue[CONSINPUT]
          /\ \A mp \in Range(ipc.queue[CONSINPUT]) : ipc'.p[mp] = ipc.p[mp]
      <3>1. ipc'.queue[CONSINPUT] = ipc.queue[CONSINPUT]
        BY <2>4, Threads DEF Enqueues, PassesOn, OtherBoxesKept
      <3> QED
        BY <2>4, <3>1, Threads DEF PayloadsKept
    <2>6. \A b \in Payloads(ipc) : text'[b] = text[b]
      <3>1. Payloads(ipc) \subseteq Block
        BY DEF Payloads
      <3> QED
        BY <1>0, <2>2, <2>3, <3>1 DEF ProgramTypes
    <2>7. InBox' = InBox
      BY <1>4, <2>5, <2>6, InBoxKept
    <2>8. InHand' = InHand
      BY <2>1 DEF InHand
    <2> QED
      BY <1>3, <1>5, <2>1, <2>4, <2>7, <2>8
  <1>8. CASE CommandRecv
    <2>1. /\ pc[Command] = "recv" /\ pc'[Command] = "line" /\ UNCHANGED <<text, taken>>
          /\ KzRecv(CONSINPUT)
      BY <1>1, <1>8 DEF CommandRecv, history
    <2>2. /\ PayloadsKept /\ mode' # "handler"
          /\ Awaits(CONSINPUT) \/ Collects(CONSINPUT)
      BY <1>1, <2>1, RecvCall, Threads DEF Returns
    <2>3. InHand = <<>>
      BY <2>1 DEF InHand
    <2>4. CASE Awaits(CONSINPUT)
      <3>2. InHand' = <<>>
        BY <1>2, <2>1, <2>4 DEF Ownership, CommandOwns, LineHeld, InHand, Awaits
      <3>3. InBox' = InBox
        <4>1. Range(ipc.queue[CONSINPUT]) = {} /\ ipc'.queue[CONSINPUT] = ipc.queue[CONSINPUT]
          BY <2>4 DEF Awaits, Range
        <4> QED
          BY <1>4, <2>1, <4>1, InBoxKept
      <3> QED
        BY <1>3, <1>5, <2>1, <2>2, <2>3, <3>2, <3>3
    <2>5. CASE Collects(CONSINPUT)
      <3> DEFINE q == ipc.queue[CONSINPUT]
                 p == ipc.p[q[1]]
      <3>1. q \in Seq(Block) /\ q # <<>> /\ 1 \in 1..Len(q) /\ p \in Block
            /\ \A i \in 1..(Len(q) - 1) : i + 1 \in 1..Len(q) /\ Tail(q)[i] = q[i + 1]
            /\ Len(Tail(q)) = Len(q) - 1
        <4>1. q \in Seq(Block) /\ q # <<>>
          BY <1>4, <2>5, LineBlocks DEF Collects
        <4> HIDE DEF q
        <4>2. 1 \in 1..Len(q)
          BY <4>1
        <4>3. p \in Block
          BY <1>4, <4>2, LineBlocks DEF q
        <4> QED
          BY <4>1, <4>2, <4>3
      <3>2. /\ ipc'.queue[CONSINPUT] = Tail(q) /\ Command \in TcbOrNull
            /\ held'[Command] = held[Command] \cup ({p} \cap Block)
        BY <1>1, <2>5, Threads DEF Collects
      <3>3. held[Command] = {}
        BY <1>2, <2>1 DEF Ownership, CommandOwns, LineHeld
      <3>4. InHand' = WholeLine(p)
        <4>1. held'[Command] = {p}
          BY <3>1, <3>2, <3>3
        <4>2. (CHOOSE b \in {p} : TRUE) = p
          OBVIOUS
        <4> HIDE DEF p
        <4>3. InHand' = WholeLine(p)
          BY <2>1, <4>1, <4>2 DEF InHand, WholeLine
        <4> QED
          BY <4>3
      <3>5. LinesIn' = Tail(LinesIn)
        <4>1. \A i \in 1..(Len(q) - 1) : LineAt(i)' = LineAt(i + 1)
          <5> TAKE i \in 1..(Len(q) - 1)
          <5>1. ipc'.queue[CONSINPUT][i] = q[i + 1] /\ i + 1 \in 1..Len(q)
                /\ i \in 1..Len(Tail(q))
            BY <3>1, <3>2
          <5>2. q[i + 1] \in Range(q)
            BY <1>4, <5>1, LineBlocks
          <5>3. q[i + 1] \in Range(ipc'.queue[CONSINPUT])
            <6>1. DOMAIN Tail(q) = 1..Len(Tail(q))
              BY <3>1
            <6> QED
              BY <3>2, <5>1, <6>1 DEF Range
          <5>4. ipc'.p[q[i + 1]] = ipc.p[q[i + 1]]
            BY <2>2, <5>2, <5>3, Threads DEF PayloadsKept
          <5> QED
            BY <2>1, <5>1, <5>4 DEF LineAt, WholeLine
        <4>2. Len(ipc'.queue[CONSINPUT]) = Len(q) - 1
          BY <3>1, <3>2
        <4>3. LinesIn' = [i \in 1..(Len(q) - 1) |-> LineAt(i + 1)]
          <5>1. LinesIn' = [i \in 1..(Len(q) - 1) |-> LineAt(i)']
            BY <4>2 DEF LinesIn
          <5> HIDE DEF q
          <5> QED
            BY <4>1, <5>1
        <4>4. Tail(LinesIn) = [i \in 1..(Len(q) - 1) |-> LineAt(i + 1)]
          <5>1. LinesIn = [i \in 1..Len(q) |-> LineAt(i)]
            BY DEF LinesIn
          <5>2. LinesIn \in Seq(Seq(Char)) /\ Len(LinesIn) = Len(q) /\ Len(q) \in Nat \ {0}
            BY <1>0, <1>4, <3>1, LinesType
          <5> HIDE DEF q
          <5>3. /\ Tail(LinesIn) \in Seq(Seq(Char)) /\ Len(Tail(LinesIn)) = Len(q) - 1
                /\ \A i \in 1..(Len(q) - 1) : Tail(LinesIn)[i] = LinesIn[i + 1]
            BY <5>2
          <5>4. Tail(LinesIn) = [i \in 1..(Len(q) - 1) |-> Tail(LinesIn)[i]]
            BY <5>3, SeqIsFunction
          <5>5. \A i \in 1..(Len(q) - 1) : Tail(LinesIn)[i] = LineAt(i + 1)
            BY <5>1, <5>2, <5>3
          <5> QED
            BY <5>4, <5>5
        <4> QED
          BY <4>3, <4>4
      <3>6. LinesIn[1] = WholeLine(p) /\ LinesIn # <<>>
        BY <3>1 DEF LinesIn, LineAt
      <3> HIDE DEF q, p
      <3>7. InBox = WholeLine(p) \o InBox'
        <4>1. LinesIn \in Seq(Seq(Char)) /\ InBox = SeqExt!FlattenSeq(LinesIn)
          BY <1>0, <1>4, LinesType
        <4>2. InBox' = SeqExt!FlattenSeq(LinesIn')
          BY DEF InBox, LinesIn, LineAt
        <4> QED
          BY <3>5, <3>6, <4>1, <4>2, FlattenFirst
      <3>8. InBox' \in Seq(Char) /\ taken \in Seq(Char) /\ WholeLine(p) \in Seq(Char)
        <4>1. LinesIn \in Seq(Seq(Char)) /\ LinesIn # <<>>
          BY <1>0, <1>4, <3>6, LinesType
        <4>2. Tail(LinesIn) \in Seq(Seq(Char))
          BY <4>1
        <4>3. InBox' = SeqExt!FlattenSeq(LinesIn')
          BY DEF InBox, LinesIn, LineAt
        <4> QED
          BY <1>0, <3>1, <3>5, <4>2, <4>3, Flattened, InputTypes, LineType
      <3>9. InHandler' = InHandler /\ cons'.recv = cons.recv
        BY <1>1, <1>3, <2>2 DEF InHandler
      <3>10. PICK a \in Seq(Char), l \in Seq(Char), b \in Seq(Char) :
                 a = taken /\ l = WholeLine(p) /\ b = InBox'
        BY <3>8
      <3>11. a \o <<>> \o (l \o b) \o cons.recv \o InHandler = Arrived
        BY <1>0, <2>3, <3>7, <3>10 DEF InputInOrder
      <3>12. a \o <<>> \o (l \o b) = a \o l \o b
        BY Collected
      <3>13. taken' \o InHand' \o InBox' \o cons'.recv \o InHandler' = Arrived'
        BY <1>3, <2>1, <3>4, <3>9, <3>10, <3>11, <3>12
      <3> QED
        BY <1>3, <3>13 DEF InputInOrder
    <2> QED
      BY <2>2, <2>4, <2>5
  <1>9. CASE CommandLine
    <2>1. /\ pc[Command] = "line" /\ pc'[Command] = "alloc" /\ UNCHANGED <<ipc, mode, text>>
      BY <1>1, <1>9 DEF CommandLine, vars
    <2>2. PICK p \in Block : held[Command] = {p} /\ InHand = WholeLine(p)
      BY <1>2, <2>1, HandOf
    <2>3. taken' = taken \o WholeLine(p)
      BY <1>9, <2>2 DEF CommandLine, WholeLine
    <2>4. InHand' = <<>>
      BY <2>1 DEF InHand
    <2>5. InBox' = InBox
      BY <1>4, <2>1, InBoxKept
    <2>6. (taken \o WholeLine(p)) \o <<>> = taken \o WholeLine(p)
      <3>1. taken \in Seq(Char) /\ WholeLine(p) \in Seq(Char)
        BY <1>0, InputTypes, LineType
      <3>2. taken \o WholeLine(p) \in Seq(Char)
        BY <3>1, ConcatProperties
      <3> QED
        BY <3>2, ConcatEmptySeq
    <2>7. InHandler' = InHandler /\ cons'.recv = cons.recv
      BY <1>1, <1>3, <2>1 DEF InHandler
    <2> QED
      BY <1>0, <1>3, <2>2, <2>3, <2>4, <2>5, <2>6, <2>7 DEF InputInOrder
  <1> QED
    BY <1>6, <1>7, <1>8, <1>9 DEF CommandStep

\* A character, or the end of the line, is stored behind what the buffer holds.
LEMMA Stored ==
    ASSUME NEW x \in Seq(Char), NEW r \in Seq(Char), NEW c \in Char
    PROVE  /\ x \o r \o <<c>> = Append(x \o r \o <<>>, c)
           /\ x \o Append(r, c) \o <<>> = Append(x \o r \o <<>>, c)
  <1>1. <<c>> \in Seq(Char) /\ Append(r, c) = r \o <<c>> /\ x \o r \in Seq(Char)
    BY AppendIsConcat, ConcatProperties
  <1>2. (x \o r) \o <<>> = x \o r /\ Append(x \o r, c) = (x \o r) \o <<c>>
    BY <1>1, ConcatEmptySeq, AppendIsConcat
  <1>3. (x \o r) \o <<c>> = x \o (r \o <<c>>)
    BY <1>1, Regroup
  <1>4. r \o <<c>> \in Seq(Char)
    BY <1>1, ConcatProperties
  <1>5. x \o (r \o <<c>>) \in Seq(Char)
    BY <1>4, ConcatProperties
  <1>6. (x \o (r \o <<c>>)) \o <<>> = x \o (r \o <<c>>)
    BY <1>5, ConcatEmptySeq
  <1> QED
    BY <1>1, <1>2, <1>3, <1>6

\* The line in the buffer becomes a message, or goes to a thread that waits for it.
LEMMA Queued ==
    ASSUME NEW x \in Seq(Char), NEW b \in Seq(Char), NEW l \in Seq(Char)
    PROVE  x \o b \o l = x \o (b \o l) \o <<>> \o <<>>
  <1>1. x \o (b \o l) \in Seq(Char)
    BY ConcatProperties
  <1>2. (x \o (b \o l)) \o <<>> = x \o (b \o l)
    BY <1>1, ConcatEmptySeq
  <1>3. (x \o b) \o l = x \o (b \o l)
    BY Regroup
  <1> QED
    BY <1>2, <1>3

LEMMA PassedOn ==
    ASSUME NEW x \in Seq(Char), NEW l \in Seq(Char)
    PROVE  x \o <<>> \o <<>> \o l = x \o l \o <<>> \o <<>> \o <<>>
  <1>1. x \o l \in Seq(Char)
    BY ConcatProperties
  <1>2. (x \o l) \o <<>> = x \o l /\ x \o <<>> = x
    BY <1>1, ConcatEmptySeq
  <1> QED
    BY <1>2

\* One more character of the session has been taken out of the channel.
LEMMA OneMoreArrived ==
    ASSUME DeviceTypes, Typing, sci.rdrf, ~sci'.rdrf, typed' = typed
    PROVE  Arrived' = Append(Arrived, IF sci.rdr = CR THEN LF ELSE sci.rdr)
  <1> DEFINE n == Len(Session) - Len(typed)
             e(i) == IF Session[i] = CR THEN LF ELSE Session[i]
  <1>1. n \in Nat \ {0} /\ sci.rdr = Session[n]
    <2>1. Len(Session) \in Nat /\ Len(typed) \in Nat
      BY ConsoleAssumption DEF DeviceTypes
    <2> QED
      BY <2>1 DEF Typing
  <1>2. Arrived = [i \in 1..(n - 1) |-> e(i)] /\ Arrived' = [i \in 1..(n - 0) |-> e(i)]
    BY DEF Arrived
  <1>3. e(n) = IF sci.rdr = CR THEN LF ELSE sci.rdr
    BY <1>1
  <1> HIDE DEF n, e
  <1>4. Arrived' = [i \in 1..n |-> e(i)]
    BY <1>1, <1>2
  <1>5. [i \in 1..n |-> e(i)] = Append([i \in 1..(n - 1) |-> e(i)], e(n))
    <2> DEFINE s == [i \in 1..(n - 1) |-> e(i)]
               S == {e(i) : i \in 1..n}
    <2>1. s \in Seq(S) /\ Len(s) = n - 1 /\ e(n) \in S
      BY <1>1
    <2>2. s = [i \in 1..(n - 1) |-> e(i)]
      OBVIOUS
    <2> HIDE DEF s, S
    <2>3. /\ DOMAIN Append(s, e(n)) = 1..n /\ Append(s, e(n)) \in Seq(S)
          /\ \A i \in 1..n : Append(s, e(n))[i] = e(i)
      <3>1. /\ Append(s, e(n)) \in Seq(S) /\ Len(Append(s, e(n))) = n
            /\ \A i \in 1..(n - 1) : Append(s, e(n))[i] = s[i]
            /\ Append(s, e(n))[n] = e(n)
        BY <1>1, <2>1, AppendProperties
      <3>2. \A i \in 1..n : i = n \/ i \in 1..(n - 1)
        BY <1>1
      <3>3. \A i \in 1..(n - 1) : s[i] = e(i)
        BY <2>2
      <3>4. \A i \in 1..n : Append(s, e(n))[i] = e(i)
        BY <3>1, <3>2, <3>3
      <3>5. DOMAIN Append(s, e(n)) = 1..n
        BY <3>1
      <3> QED
        BY <3>1, <3>4, <3>5
    <2>4. Append(s, e(n)) = [i \in 1..n |-> Append(s, e(n))[i]]
      BY <1>1, <2>1, <2>3, SeqIsFunction, AppendProperties
    <2> QED
      BY <2>2, <2>3, <2>4
  <1> QED
    BY <1>2, <1>3, <1>4, <1>5

LEMMA ReadInput ==
    ASSUME SystemInv, ConsoleInv, Ownership, Typing, InputInOrder, HandlerRead
    PROVE  Typing' /\ InputInOrder'
  <1>0. ProgramTypes /\ DeviceTypes
    BY TypeParts DEF ConsoleInv
  <1>1. /\ mode = "handler" /\ hpc = "read" /\ UNCHANGED <<vars, pc, text, typed, taken>>
    BY DEF HandlerRead, terminal
  <1>2. InHand' = InHand /\ InBox' = InBox /\ InHandler = <<>>
    <2>1. UNCHANGED <<ipc, held, mode>>
      BY <1>1 DEF vars
    <2> QED
      BY <1>1, <2>1 DEF InHand, InBox, InHandler, WholeLine
  <1>3. mode' = "handler" /\ Up /\ ConsoleInv
    BY <1>1 DEF vars, ConsoleInv
  <1>4. CASE ~(cons.id # NULL /\ sci.rdrf)
    <2>1. hpc' = "transmit" /\ UNCHANGED <<cons, sci>>
      BY <1>4 DEF HandlerRead
    <2>2. InHandler' = InHandler /\ Up'
      BY <1>2, <1>3, <2>1 DEF InHandler, Up
    <2> QED
      BY <1>1, <1>2, <2>1, <2>2, InputKept
  <1>5. CASE cons.id # NULL /\ sci.rdrf
    <2> DEFINE c == IF sci.rdr = CR THEN LF ELSE sci.rdr
    <2>1. /\ hpc' = IF c = LF THEN "alloc" ELSE "transmit"
          /\ ~sci'.rdrf /\ sci'.rie = sci.rie
          /\ cons'.recv = IF c = LF THEN cons.recv ELSE Append(cons.recv, c)
      <3> DEFINE read   == [sci EXCEPT !.rdrf = FALSE]
                 echoed == Buffered(cons, <<c>>)
                 stored(k) == IF c = LF THEN k ELSE [k EXCEPT !.recv = Append(@, c)]
      <3>1. /\ hpc' = IF c = LF THEN "alloc" ELSE "transmit"
            /\ \/ /\ sci' = SendByte([read EXCEPT !.tie = TRUE], First(echoed))
                  /\ cons' = stored(Shifted(echoed))
               \/ sci' = read /\ cons' = stored(echoed)
        BY <1>5 DEF HandlerRead
      <3>2. ~sci'.rdrf /\ sci'.rie = sci.rie
        BY <1>0, <3>1 DEF SendByte, DeviceTypes, SciTypes
      <3>3. \A k \in {echoed, Shifted(echoed)} :
                stored(k).recv = IF c = LF THEN cons.recv ELSE Append(cons.recv, c)
        BY <1>0 DEF Buffered, Shifted, DeviceTypes
      <3> QED
        BY <3>1, <3>2, <3>3
    <2>2. c \in Char /\ cons.recv \in Seq(Char)
      BY <1>0, Characters DEF DeviceTypes, SciTypes
    <2>3. Arrived' = Append(Arrived, c)
      BY <1>0, <1>1, <1>5, <2>1, OneMoreArrived
    <2>4. InHandler' = IF c = LF THEN <<c>> ELSE <<>>
      BY <1>3, <2>1 DEF InHandler
    <2>5. Typing'
      BY <1>1, <1>3, <2>1 DEF Typing, Up
    <2> HIDE DEF c
    <2>6. taken \in Seq(Char) /\ InHand \in Seq(Char) /\ InBox \in Seq(Char)
      BY InputTypes
    <2>7. taken \o InHand \o InBox \in Seq(Char)
      BY <2>6, ConcatProperties
    <2>8. PICK x \in Seq(Char) : x = taken \o InHand \o InBox
      BY <2>7
    <2>9. x \o cons.recv \o <<>> = Arrived
      BY <1>1, <1>2, <2>8 DEF InputInOrder
    <2>10. x \o cons'.recv \o InHandler' = Append(x \o cons.recv \o <<>>, c)
      BY <2>1, <2>2, <2>4, Stored, SMTT(30)
    <2>11. taken' \o InHand' \o InBox' \o cons'.recv \o InHandler' = Arrived'
      BY <1>1, <1>2, <2>3, <2>8, <2>9, <2>10
    <2> QED
      BY <2>5, <2>11 DEF InputInOrder
  <1> QED
    BY <1>4, <1>5

LEMMA SendInput ==
    ASSUME SystemInv, ConsoleInv, Ownership, Typing, InputInOrder, mode' # "down", HandlerSend
    PROVE  Typing' /\ InputInOrder'
  <1>0. ProgramTypes /\ DeviceTypes
    BY TypeParts DEF ConsoleInv
  <1>1. /\ mode = "handler" /\ hpc = "send" /\ hpc' = "transmit" /\ Caller = NULL
        /\ UNCHANGED <<pc, text, sci, typed, taken>> /\ cons' = [cons EXCEPT !.recv = <<>>]
    BY DEF HandlerSend, Caller, terminal, history
  <1>2. PICK p \in Block : /\ held[NULL] = {p} /\ text[p] = cons.recv
                           /\ KzSend(CONSINPUT, p)
    BY <1>1 DEF HandlerSend, Ownership, HandlerOwns
  <1>3. PayloadsKept /\ (Enqueues(CONSINPUT, p) \/ PassesOn(CONSINPUT, p))
    BY <1>2, SendCall, Threads
  <1>4. /\ Typing' /\ Arrived' = Arrived /\ cons'.recv = <<>> /\ InHandler' = <<>>
        /\ InHandler = <<LF>>
    <2>1. cons'.recv = <<>>
      BY <1>0, <1>1 DEF DeviceTypes
    <2> QED
      BY <1>1, <2>1, ArrivedKept DEF Typing, Up, InHandler
  <1>5. /\ taken \in Seq(Char) /\ InHand \in Seq(Char) /\ InBox \in Seq(Char)
        /\ cons.recv \in Seq(Char) /\ <<LF>> \in Seq(Char)
        /\ WholeLine(p) = cons.recv \o <<LF>> /\ WholeLine(p) \in Seq(Char)
    BY <1>0, <1>2, InputTypes, LineType
  <1>6. NULL \in TcbOrNull /\ Command \in TcbOrNull /\ Command # NULL
    BY Threads DEF TcbOrNull
  <1>7. taken \o InHand \o InBox \o WholeLine(p) = Arrived
    <2>1. PICK x \in Seq(Char) : x = taken \o InHand \o InBox
      BY <1>5, ConcatProperties
    <2>2. PICK r \in Seq(Char), n \in Seq(Char) : r = cons.recv /\ n = <<LF>>
      BY <1>5
    <2>3. x \o r \o n = x \o (r \o n)
      BY Regroup
    <2> QED
      BY <1>1, <1>4, <1>5, <2>1, <2>2, <2>3 DEF InputInOrder
  <1>8. CASE Enqueues(CONSINPUT, p)
    <2> DEFINE q == ipc.queue[CONSINPUT]
    <2>1. PICK mp \in Block : ipc'.queue[CONSINPUT] = Append(q, mp) /\ ipc'.p[mp] = p
      BY <1>8 DEF Enqueues
    <2>2. q \in Seq(Block) /\ Len(q) \in Nat
      BY Threads DEF SystemInv, KernelInv, TypeOK, Boxes
    <2>3. InHand' = InHand
      <3>1. held'[Command] = held[Command]
        BY <1>1, <1>6, <1>8 DEF Enqueues
      <3> QED
        BY <1>1, <3>1 DEF InHand, WholeLine
    <2>4. LinesIn' = Append(LinesIn, WholeLine(p))
      <3>0. LinesQueued
        BY DEF Ownership
      <3>1. \A i \in 1..Len(q) : LineAt(i)' = LineAt(i)
        <4> TAKE i \in 1..Len(q)
        <4>1. Append(q, mp)[i] = q[i] /\ DOMAIN Append(q, mp) = 1..(Len(q) + 1)
              /\ i \in 1..(Len(q) + 1)
          BY <2>2, AppendProperties
        <4>2. q[i] \in Range(q)
          BY <3>0, LineBlocks
        <4>3. q[i] \in Range(ipc'.queue[CONSINPUT])
          BY <2>1, <4>1 DEF Range
        <4>4. ipc'.p[q[i]] = ipc.p[q[i]]
          BY <1>3, <4>2, <4>3, Threads DEF PayloadsKept
        <4> QED
          BY <1>1, <2>1, <4>1, <4>4 DEF LineAt, WholeLine
      <3>2. PICK n \in Nat : n = Len(q)
        BY <2>2
      <3>3. LineAt(n + 1)' = WholeLine(p) /\ Len(ipc'.queue[CONSINPUT]) = n + 1
        <4>1. ipc'.queue[CONSINPUT][n + 1] = mp /\ Len(ipc'.queue[CONSINPUT]) = n + 1
          BY <2>1, <2>2, <3>2, AppendProperties
        <4>2. ipc'.p[ipc'.queue[CONSINPUT][n + 1]] = p
          BY <2>1, <4>1
        <4> QED
          BY <1>1, <4>1, <4>2 DEF LineAt, WholeLine
      <3>4. LinesIn \in Seq(Seq(Char)) /\ Len(LinesIn) = n
            /\ \A i \in 1..n : LinesIn[i] = LineAt(i)
        BY <1>0, <3>0, <3>2, LinesType DEF LinesIn
      <3>5. LinesIn' = [i \in 1..(n + 1) |-> LineAt(i)']
        BY <3>3 DEF LinesIn
      <3>6. Append(LinesIn, WholeLine(p)) = [i \in 1..(n + 1) |-> LineAt(i)']
        <4> DEFINE r == Append(LinesIn, WholeLine(p))
        <4>1. /\ r \in Seq(Seq(Char)) /\ Len(r) = n + 1 /\ r[n + 1] = WholeLine(p)
              /\ \A i \in 1..n : r[i] = LinesIn[i]
          <5>1. PICK m \in Seq(Seq(Char)) : m = LinesIn
            BY <3>4
          <5>2. PICK w \in Seq(Char) : w = WholeLine(p)
            BY <1>5
          <5>3. /\ Append(m, w) \in Seq(Seq(Char)) /\ Len(Append(m, w)) = n + 1
                /\ Append(m, w)[n + 1] = w
                /\ \A i \in 1..n : Append(m, w)[i] = m[i]
            BY <3>2, <3>4, <5>1, <5>2, AppendOne
          <5> QED
            BY <5>1, <5>2, <5>3
        <4> HIDE DEF r
        <4>2. r = [i \in 1..(n + 1) |-> r[i]]
          BY <4>1, SeqIsFunction
        <4>3. \A i \in 1..(n + 1) : r[i] = LineAt(i)'
          <5>1. \A i \in 1..(n + 1) : i = n + 1 \/ i \in 1..n
            BY <3>2
          <5>2. \A i \in 1..n : r[i] = LineAt(i)'
            BY <3>1, <3>2, <3>4, <4>1
          <5> QED
            BY <3>3, <4>1, <5>1, <5>2
        <4> QED
          BY <4>2, <4>3 DEF r
      <3> QED
        BY <3>5, <3>6
    <2>5. InBox' = InBox \o WholeLine(p)
      <3>1. LinesIn \in Seq(Seq(Char)) /\ InBox = SeqExt!FlattenSeq(LinesIn)
        BY <1>0, LinesType DEF Ownership
      <3>2. InBox' = SeqExt!FlattenSeq(LinesIn')
        BY DEF InBox, LinesIn, LineAt
      <3> QED
        BY <1>5, <2>4, <3>1, <3>2, FlattenAppend
    <2>7. PICK x \in Seq(Char), b \in Seq(Char), l \in Seq(Char) :
              x = taken \o InHand /\ b = InBox /\ l = WholeLine(p)
      BY <1>5, ConcatProperties
    <2>8. x \o b \o l = x \o (b \o l) \o <<>> \o <<>>
      BY Queued
    <2>9. taken' \o InHand' \o InBox' \o cons'.recv \o InHandler' = Arrived'
      BY <1>1, <1>4, <1>7, <2>3, <2>5, <2>7, <2>8
    <2> QED
      BY <1>4, <2>9 DEF InputInOrder
  <1>9. CASE PassesOn(CONSINPUT, p)
    <2>1. ipc.receiver[CONSINPUT] = Command /\ ipc.queue[CONSINPUT] = <<>>
          /\ ipc'.queue[CONSINPUT] = <<>>
      BY <1>6, <1>9, NullAssumption DEF PassesOn, Ownership, CommandOwns
    <2>2. pc[Command] = "line" /\ held[Command] = {}
      BY <2>1 DEF Ownership, CommandOwns, Listening, LineHeld
    <2>3. held'[Command] = {p}
      BY <1>1, <1>6, <1>9, <2>1, <2>2 DEF PassesOn
    <2>4. InHand = <<>> /\ InHand' = WholeLine(p)
      <3>1. (CHOOSE b \in {p} : TRUE) = p
        OBVIOUS
      <3> QED
        BY <1>1, <2>2, <2>3, <3>1 DEF InHand, WholeLine
    <2>5. InBox = <<>> /\ InBox' = <<>>
      <3>1. LinesIn = <<>> /\ LinesIn' = <<>>
        BY <2>1 DEF LinesIn
      <3>2. SeqExt!FlattenSeq(<<>>) = <<>>
        BY FlattenEmpty
      <3>3. InBox = SeqExt!FlattenSeq(LinesIn) /\ InBox' = SeqExt!FlattenSeq(LinesIn')
        BY DEF InBox, LinesIn, LineAt
      <3> QED
        BY <3>1, <3>2, <3>3
    <2>6. PICK x \in Seq(Char), l \in Seq(Char) : x = taken /\ l = WholeLine(p)
      BY <1>5
    <2>7. x \o <<>> \o <<>> \o l = x \o l \o <<>> \o <<>> \o <<>>
      BY PassedOn
    <2>8. taken' \o InHand' \o InBox' \o cons'.recv \o InHandler' = Arrived'
      BY <1>1, <1>4, <1>7, <2>4, <2>5, <2>6, <2>7
    <2> QED
      BY <1>4, <2>8 DEF InputInOrder
  <1> QED
    BY <1>3, <1>8, <1>9

LEMMA HandlerInput ==
    ASSUME SystemInv, ConsoleInv, Ownership, Typing, InputInOrder, mode' # "down",
           HandlerEnter \/ HandlerStep
    PROVE  Typing' /\ InputInOrder'
  <1>0. ProgramTypes /\ DeviceTypes
    BY TypeParts DEF ConsoleInv
  <1>1. CASE HandlerEnter
    <2>1. /\ mode = "user" /\ hpc' = "read"
          /\ UNCHANGED <<pc, text, cons, sci, typed, taken, ipc, held>>
      BY <1>1 DEF HandlerEnter, IntrEnter, terminal, history
    <2>2. InHandler = <<>> /\ InHandler' = <<>> /\ Up' = Up
      BY <2>1 DEF InHandler, Up
    <2> QED
      BY <2>1, <2>2, InputElsewhere
  <1>2. CASE HandlerAlloc
    <2> DEFINE b == AllocBlock(mem, CONS_BUFFER_SIZE)
    <2>1. /\ mode = "handler" /\ hpc = "alloc" /\ hpc' = "send" /\ text' = [text EXCEPT ![b] = cons.recv]
          /\ KzKmalloc(CONS_BUFFER_SIZE) /\ UNCHANGED <<pc, cons, sci, typed, taken>>
      BY <1>2 DEF HandlerAlloc, terminal, history
    <2>2. Returns /\ Allocates(b)
      BY <2>1, AllocCall
    <2> HIDE DEF b
    <2>3. mode' = "handler" /\ ipc' = ipc /\ held'[Command] = held[Command]
      BY <2>1, <2>2, Threads DEF Allocates, Returns, Caller
    <2>4. \A p \in Payloads(ipc) \cup held[Command] : text'[p] = text[p]
      <3>1. Payloads(ipc) \subseteq Block /\ held[Command] \subseteq Block
            /\ held[Command] \subseteq ClientBlocks(held)
        BY Owned, Threads DEF Payloads
      <3>2. b \notin Payloads(ipc) \cup held[Command]
        BY <2>2, <3>1 DEF Allocates
      <3> QED
        BY <1>0, <2>1, <3>1, <3>2 DEF ProgramTypes
    <2>5. InHandler' = InHandler /\ Up' = Up
      BY <2>1, <2>3 DEF InHandler, Up
    <2> QED
      BY <2>1, <2>3, <2>4, <2>5, InputElsewhere
  <1>3. CASE HandlerTransmit
    <2>1. /\ mode = "handler" /\ hpc = "transmit" /\ UNCHANGED <<pc, hpc, text, typed, taken, ipc, held>>
          /\ cons' \in {cons, Shifted(cons)}
          /\ sci' \in {sci, [sci EXCEPT !.tie = FALSE], SendByte(sci, First(cons))}
      BY <1>3 DEF HandlerTransmit, IntrLeave, program, terminal, history
    <2>2. /\ cons'.recv = cons.recv
          /\ sci'.rdrf = sci.rdrf /\ sci'.rdr = sci.rdr /\ sci'.rie = sci.rie
      BY <1>0, <2>1 DEF Shifted, SendByte, DeviceTypes, SciTypes
    <2>3. InHandler' = InHandler /\ Up' = Up
      BY <2>1, <2>2 DEF InHandler, Up
    <2> QED
      BY <2>1, <2>2, <2>3, InputElsewhere
  <1>4. CASE HandlerRead \/ HandlerSend
    BY <1>4, ReadInput, SendInput
  <1> QED
    BY <1>1, <1>2, <1>3, <1>4 DEF HandlerStep

LEMMA HardwareInput ==
    ASSUME SystemInv, ConsoleInv, Ownership, Typing, InputInOrder, mode' # "down",
           Transmit \/ Type \/ UNCHANGED consoleVars
    PROVE  Typing' /\ InputInOrder'
  <1>0. DeviceTypes
    BY TypeParts DEF ConsoleInv
  <1>1. /\ UNCHANGED <<vars, pc, hpc, text, cons, taken>> /\ UNCHANGED <<ipc, held, mode>>
    BY DEF Transmit, Type, consoleVars, vars, program, history
  <1>2. InHandler' = InHandler /\ InHand' = InHand /\ InBox' = InBox
    BY <1>1 DEF InHandler, InHand, InBox, WholeLine
  <1>3. CASE Transmit \/ UNCHANGED consoleVars
    <2>1. typed' = typed /\ sci' \in {sci, [sci EXCEPT !.tdre = TRUE]}
      BY <1>3 DEF Transmit, consoleVars, terminal
    <2>2. sci'.rdrf = sci.rdrf /\ sci'.rdr = sci.rdr /\ sci'.rie = sci.rie
      BY <1>0, <2>1 DEF DeviceTypes, SciTypes
    <2> QED
      BY <1>1, <1>2, <2>1, <2>2, InputKept DEF Up
  <1>4. CASE Type
    <2>1. /\ typed # <<>> /\ ~sci.rdrf /\ Up /\ typed' = Tail(typed)
          /\ sci' = [sci EXCEPT !.rdrf = TRUE, !.rdr = Head(typed)]
      BY <1>4 DEF Type, Up
    <2>2. sci'.rdrf /\ sci'.rdr = typed[1] /\ sci'.rie = sci.rie
      BY <1>0, <2>1 DEF DeviceTypes, SciTypes
    <2> DEFINE n == Len(Session)
               m == Len(typed)
    <2>3. /\ n \in Nat /\ m \in Nat \ {0} /\ m <= n /\ Session \in Seq(Char)
          /\ typed \in Seq(Char) /\ typed = SubSeq(Session, n - m + 1, n)
      BY <1>0, <2>1, ConsoleAssumption DEF DeviceTypes, Typing
    <2>4. Len(typed') = m - 1 /\ typed[1] = Session[n - m + 1]
          /\ typed' = SubSeq(Session, n - (m - 1) + 1, n)
      <3>1. Len(Tail(typed)) = m - 1
        BY <2>3
      <3>2. \A i \in 1..m : typed[i] = Session[(n - m + 1) + i - 1]
        BY <2>3
      <3>3. typed[1] = Session[n - m + 1]
        BY <2>3, <3>2
      <3>4. Tail(typed) = SubSeq(Session, n - (m - 1) + 1, n)
        BY <2>3, <3>1, <3>2
      <3> QED
        BY <2>1, <3>1, <3>3, <3>4
    <2> HIDE DEF n, m
    <2>5. Typing'
      <3>1. sci'.rdr = Session[n - (m - 1)] /\ m - 1 < n /\ n - (m - 1) = n - m + 1
        BY <2>2, <2>3, <2>4
      <3>2. Up'
        BY <2>1, <2>2 DEF Up
      <3> QED
        BY <2>2, <2>3, <2>4, <3>1, <3>2 DEF Typing, n
    <2>6. Arrived' = Arrived
      <3>1. n - (m - 1) - 1 = n - m - 0
        BY <2>3
      <3> QED
        BY <2>1, <2>2, <2>4, <3>1 DEF Arrived, n, m
    <2>7. mode # "down"
      BY <1>1
    <2> QED
      BY <1>1, <1>2, <2>5, <2>6, <2>7 DEF InputInOrder
  <1> QED
    BY <1>3, <1>4

LEMMA InputStep ==
    ASSUME SystemInv, ConsoleInv, Ownership, Typing, InputInOrder, mode' # "down",
           [ConsoleNext]_consoleVars
    PROVE  Typing' /\ InputInOrder'
  <1>1. Ownership'
    BY OwnersStep
  <1> QED
    BY <1>1, IdleInput, CommandInput, DriverInput, HandlerInput, HardwareInput
       DEF ConsoleNext, Processor

-------------------------------------------------------------------------------
LEMMA SessionInitStep ==
    ASSUME ConsoleInit
    PROVE  SessionInv
  <1>1. /\ ipc = ClearedBoxes /\ held = [t \in TcbOrNull |-> {}] /\ mode = "user" /\ lost = {}
        /\ live = {Idle} /\ syscall = [t \in Tcb |-> NULL]
    BY DEF ConsoleInit, Init, Idle
  <1>2. /\ ipc.receiver[CONSINPUT] = NULL /\ ipc.queue[CONSINPUT] = <<>>
        /\ ipc.queue[CONSOUTPUT] = <<>> /\ \A t \in TcbOrNull : held[t] = {}
    BY <1>1, Threads DEF ClearedBoxes
  <1>3. /\ pc[Idle] = "run driver" /\ pc[Command] = "alloc" /\ hpc = "read" /\ line = NULL
        /\ cons.recv = <<>> /\ ~sci.rdrf /\ typed = Session /\ taken = <<>>
    BY Threads DEF ConsoleInit, InitialSci
  <1>4. Started /\ Blocks
    BY <1>1, <1>3, Threads DEF Started, Blocks
  <1>5. Ownership
    <2>1. CommandOwns
      BY <1>2, <1>3, Threads DEF CommandOwns, Listening, LineHeld
    <2>2. HandlerOwns /\ LinesQueued /\ NobodyElseOwns
      BY <1>1, <1>2, Threads DEF HandlerOwns, LinesQueued, NobodyElseOwns, TcbOrNull, Range
    <2> QED
      BY <2>1, <2>2 DEF Ownership
  <1>6. Session \in Seq(Char) /\ Len(Session) \in Nat /\ Len(typed) = Len(Session)
    <2>1. Len(typed) = Len(Session)
      BY <1>3, Zenon
    <2> QED
      BY <2>1, ConsoleAssumption
  <1>7. Typing
    <2>1. Session = SubSeq(Session, Len(Session) - Len(Session) + 1, Len(Session))
      BY <1>6
    <2>2. typed = SubSeq(Session, Len(Session) - Len(typed) + 1, Len(Session))
      BY <1>3, <2>1, Zenon
    <2>3. Len(typed) <= Len(Session)
      BY <1>6
    <2> QED
      BY <1>3, <2>2, <2>3, Zenon DEF Typing
  <1>8. InputInOrder
    <2>1. InHand = <<>> /\ InHandler = <<>>
      BY <1>1, <1>3 DEF InHand, InHandler
    <2>2. InBox = <<>>
      <3>1. LinesIn = <<>>
        BY <1>2 DEF LinesIn
      <3>2. InBox = SeqExt!FlattenSeq(LinesIn)
        BY DEF InBox, LinesIn, LineAt
      <3> QED
        BY <3>1, <3>2, FlattenEmpty
    <2>3. Arrived = <<>>
      <3>1. Len(Session) - Len(typed) - (IF sci.rdrf THEN 1 ELSE 0) = 0
        <4>1. ~sci.rdrf
          BY <1>3
        <4>2. (IF sci.rdrf THEN 1 ELSE 0) = 0
          BY <4>1, Zenon
        <4>3. Len(Session) - Len(typed) - 0 = 0
          BY <1>6
        <4> QED
          BY <4>2, <4>3, Zenon
      <3>2. Arrived = [i \in 1..0 |-> IF Session[i] = CR THEN LF ELSE Session[i]]
        BY <3>1, Zenon DEF Arrived
      <3> QED
        BY <3>2
    <2> QED
      <3>1. <<>> \in Seq(Char)
        OBVIOUS
      <3>2. <<>> \o <<>> = <<>>
        BY <3>1, ConcatEmptySeq
      <3> QED
        BY <1>3, <2>1, <2>2, <2>3, <3>2, Zenon DEF InputInOrder
  <1> QED
    BY <1>1, <1>2, <1>4, <1>5, <1>7, <1>8 DEF SessionInv

LEMMA SessionStep ==
    ASSUME SystemInv, ConsoleInv, SessionInv, [ConsoleNext]_consoleVars
    PROVE  SessionInv'
  <1>1. Started' /\ Blocks' /\ ipc'.queue[CONSOUTPUT] = <<>>
    BY ThreadsStep, OutputBoxStep DEF SessionInv
  <1>2. ASSUME mode' # "down" PROVE Ownership' /\ Typing' /\ InputInOrder'
    <2>1. Ownership /\ Typing /\ InputInOrder
      BY <1>2, DownIsForGood DEF SessionInv
    <2> QED
      BY <1>2, <2>1, OwnersStep, InputStep
  <1> QED
    BY <1>1, <1>2 DEF SessionInv

(***************************************************************************)
(* Whatever the user types and however the interrupts fall: the threads    *)
(* block only in kz_recv, no request waits in the box of the driver, each  *)
(* program owns the blocks of its place, and the input is in order.        *)
(***************************************************************************)
THEOREM SessionInvariant == ConsoleSpec => []SessionInv
  <1>1. ConsoleInit => SessionInv
    BY SessionInitStep
  <1>2. SystemInv /\ ConsoleInv /\ SessionInv /\ [ConsoleNext]_consoleVars => SessionInv'
    BY SessionStep
  <1> QED
    BY <1>1, <1>2, ConsoleInvariant, PTL DEF ConsoleSpec

\* The command thread, of priority 8, runs only while the driver, of priority 1,
\* waits in kz_recv: a request is served before the next one is built.
THEOREM DriverGoesFirst == ConsoleSpec => []DriverFirst
  <1>1. SystemInv /\ ConsoleInv /\ SessionInv => DriverFirst
    BY DriverServesFirst DEF SessionInv, DriverFirst, Waiting
  <1> QED
    BY <1>1, ConsoleInvariant, SessionInvariant, PTL

\* Once the driver and the command thread wait for a message again, kz_kmfree has
\* given back every block but the two buffers that the USE command allocated.
THEOREM BlocksComeBack == ConsoleSpec => []NothingLeaks
  <1>1. SystemInv /\ ConsoleInv /\ SessionInv => NothingLeaks
    BY RestLeaksNothing DEF SessionInv, NothingLeaks, AtRest
  <1> QED
    BY <1>1, ConsoleInvariant, SessionInvariant, PTL

(***************************************************************************)
(* The command thread gets what was typed, in order: a character that has  *)
(* arrived is in the receive buffer, in the handler's hands, in a message  *)
(* of the box, in the command thread's hands, or has been taken by it.     *)
(***************************************************************************)
THEOREM InputTakenInOrder == ConsoleSpec => []InputInOrder
  <1>1. SessionInv => InputInOrder
    BY DEF SessionInv, InputInOrder
  <1> QED
    BY <1>1, SessionInvariant, PTL

===============================================================================
