-------------------------------- MODULE Kernel --------------------------------
(***************************************************************************)
(* The kozos kernel (os/kozos.c with os/memory.c): a uniprocessor,         *)
(* cooperative, fixed-priority kernel.  A thread enters it by a system     *)
(* call (trapa #0) or by a fault; a device enters it by an interrupt,      *)
(* whose handler may make service calls.  Traps and interrupts run with    *)
(* interrupts masked, so every entry is one step of the model; between the *)
(* service calls of a handler nothing else runs either, but there they are *)
(* steps of their own because a handler makes any number of them.          *)
(*                                                                         *)
(* Threads are arbitrary clients: the running one makes any call with any  *)
(* argument the header files allow.  Of their discipline only this is      *)
(* assumed: a pointer passed to kz_kmfree or kz_send is one the caller     *)
(* got from kz_kmalloc or kz_recv and still owns, and an id passed to      *)
(* kz_wakeup is that of a thread that exists.                              *)
(***************************************************************************)
EXTENDS Msgbox

CONSTANTS Calls,            \* the calls clients make: bounds a run, not the code
          Sizes,            \* the sizes asked of kz_kmalloc
          WakeReceivers     \* whether kz_wakeup may target a thread in kz_recv

CallName == {"run", "exit", "wait", "sleep", "wakeup", "getid", "chpri",
             "kmalloc", "kmfree", "send", "recv", "setintr"}
\* The calls that exist as kx_ service calls, the ones a handler may make.
ServiceCall == {"wakeup", "kmalloc", "kmfree", "send"}

ASSUME KernelAssumption ==
    /\ Calls \subseteq CallName
    /\ Sizes \subseteq Nat
    /\ WakeReceivers \in BOOLEAN

VARIABLES
    sched,      \* current, the ready queues and the TCB fields they use
    live,       \* the TCBs in use: init.func is not NULL
    syscall,    \* the parameter block of the call each blocked thread is in
    ipc,        \* msgboxes[] and the message buffers
    mem,        \* the free lists of pool[]
    held,       \* the heap blocks each client owns; held[NULL]: the handlers
    lost,       \* the heap blocks owned by threads that have ended
    serintr,    \* whether a handler is registered for the device interrupt
    masked,     \* the threads whose saved CCR masks interrupts
    mode        \* what runs: a thread, an interrupt handler, or kz_sysdown

vars == <<sched, live, syscall, ipc, mem, held, lost, serintr, masked, mode>>

\* The parameter block of a call a thread can be blocked in; it lies in the
\* stack frame of the call, so a thread that is READY again has none.
Blocked == [type : {"run", "sleep", "recv"}, box : Box \cup {NULL}]
Sleeping      == [type |-> "sleep", box |-> NULL]
Receiving(id) == [type |-> "recv",  box |-> id]
RunFailed     == [type |-> "run",   box |-> NULL]

ASSUME NullIsNoCall == NULL \notin Blocked

TypeOK ==
    /\ sched \in Sched
    /\ live \subseteq Tcb
    /\ syscall \in [Tcb -> Blocked \cup {NULL}]
    /\ ipc \in Boxes
    /\ mem \in Mem
    /\ held \in [TcbOrNull -> SUBSET Block]
    /\ lost \subseteq Block
    /\ serintr \in BOOLEAN
    /\ masked \subseteq Tcb
    /\ mode \in {"user", "handler", "down"}

-------------------------------------------------------------------------------
\* kz_start: the initial thread, TCB 0, at priority 0.  A thread of priority 0
\* starts with interrupts masked (thread_run puts 0xc0 in its CCR).
Init ==
    /\ sched = putcurrent([ClearedSched EXCEPT !.current = 0])
    /\ live = {0}
    /\ syscall = [t \in Tcb |-> NULL]
    /\ ipc = ClearedBoxes
    /\ mem = kzmem_init
    /\ held = [t \in TcbOrNull |-> {}]
    /\ lost = {}
    /\ serintr = FALSE
    /\ masked = {0}
    /\ mode = "user"

(***************************************************************************)
(* Entering and leaving the kernel.  A system call takes the caller off    *)
(* its queue (syscall_proc) and ends with schedule and dispatch            *)
(* (thread_intr).  A service call clears current instead (srvcall_proc)    *)
(* and returns to its handler.                                             *)
(***************************************************************************)
Invoke(type) ==
    /\ type \in Calls
    /\ mode = "user" \/ (mode = "handler" /\ type \in ServiceCall)

Caller == IF mode = "handler" THEN NULL ELSE sched.current
Entry  == IF mode = "handler" THEN [sched EXCEPT !.current = NULL]
                              ELSE getcurrent(sched)

Dispatch(s) == IF Runnable(s) = {} THEN sched' = s /\ mode' = "down"
                                   ELSE sched' = schedule(s) /\ mode' = "user"

\* The call ends with the scheduler's data in state s; "call" is the parameter
\* block of the caller, alive as long as the call has not returned.
Finish(s, call) ==
    /\ IF mode = "handler" THEN sched' = s /\ mode' = mode ELSE Dispatch(s)
    /\ syscall' = [t \in Tcb |-> IF s.ready[t] THEN NULL
                                 ELSE IF t = Caller THEN call ELSE syscall[t]]

\* kz_sysdown, called inside the kernel: interrupts are masked and stay so.
Crash == mode' = "down" /\ UNCHANGED <<sched, live, syscall, ipc, mem, held,
                                       lost, serintr, masked>>

\* What a thread leaves behind when its TCB is cleared.
Bury(t) ==
    /\ live' = live \ {t}
    /\ masked' = masked \ {t}
    /\ lost' = lost \cup held[t]
    /\ held' = [held EXCEPT ![t] = {}]

-------------------------------------------------------------------------------
\* Thread management.

\* thread_run takes the first free TCB.  The new thread is queued behind the
\* caller.  With no free TCB it returns before it has put the caller back.
KzRun(priority) ==
    /\ Invoke("run")
    /\ LET s   == putcurrent(Entry)
           thp == Min(Tcb \ live)
           new == [ClearTcb(s, thp) EXCEPT !.priority[thp] = priority,
                                           !.current = thp]
       IN  IF live = Tcb
           THEN Finish(Entry, RunFailed) /\ UNCHANGED <<live, masked>>
           ELSE /\ Finish(putcurrent(new), NULL)
                /\ live' = live \cup {thp}
                /\ masked' = IF priority = 0 THEN masked \cup {thp} ELSE masked
    /\ UNCHANGED <<ipc, mem, held, lost, serintr>>

KzExit ==
    /\ Invoke("exit")
    /\ Finish(ClearTcb(Entry, Caller), NULL)
    /\ Bury(Caller)
    /\ UNCHANGED <<ipc, mem, serintr>>

\* A fault of the running thread: softerr_intr ends it as kz_exit would.
SoftErr ==
    /\ mode = "user"
    /\ "exit" \in Calls
    /\ Finish(ClearTcb(getcurrent(sched), sched.current), NULL)
    /\ Bury(sched.current)
    /\ UNCHANGED <<ipc, mem, serintr>>

KzWait ==
    /\ Invoke("wait")
    /\ Finish(putcurrent(Entry), NULL)
    /\ UNCHANGED <<live, ipc, mem, held, lost, serintr, masked>>

KzSleep ==
    /\ Invoke("sleep")
    /\ Finish(Entry, Sleeping)
    /\ UNCHANGED <<live, ipc, mem, held, lost, serintr, masked>>

\* kz_wakeup and kx_wakeup.  The code asks nothing of the target.
KzWakeup(id) ==
    /\ Invoke("wakeup")
    /\ id \in live
    /\ WakeReceivers \/ syscall[id] \notin {Receiving(b) : b \in Box}
    /\ Finish(putcurrent([putcurrent(Entry) EXCEPT !.current = id]), NULL)
    /\ UNCHANGED <<live, ipc, mem, held, lost, serintr, masked>>

KzGetid ==
    /\ Invoke("getid")
    /\ Finish(putcurrent(Entry), NULL)
    /\ UNCHANGED <<live, ipc, mem, held, lost, serintr, masked>>

\* Mutant of KzChpri: a negative priority returns before the caller is put back.
KzChpriReturnsEarly(priority) ==
    /\ Invoke("chpri")
    /\ Finish(IF priority < 0 THEN Entry
              ELSE putcurrent([Entry EXCEPT !.priority[Caller] = priority]), NULL)
    /\ UNCHANGED <<live, ipc, mem, held, lost, serintr, masked>>

\* Mutant of KzChpri: any priority is stored, with the caller back in its queue.
KzChpriStoresLate(priority) ==
    /\ Invoke("chpri")
    /\ Finish([putcurrent(Entry) EXCEPT !.priority[Caller] = priority], NULL)
    /\ UNCHANGED <<live, ipc, mem, held, lost, serintr, masked>>

\* A negative priority leaves it as it is.
KzChpri(priority) ==
    /\ Invoke("chpri")
    /\ LET s == IF priority >= 0 THEN [Entry EXCEPT !.priority[Caller] = priority]
                                 ELSE Entry
       IN  Finish(putcurrent(s), NULL)
    /\ UNCHANGED <<live, ipc, mem, held, lost, serintr, masked>>

-------------------------------------------------------------------------------
\* Memory management: kz_kmalloc, kz_kmfree, kx_kmalloc, kx_kmfree.

KzKmalloc(size) ==
    /\ Invoke("kmalloc")
    /\ \/ ~CanAlloc(mem, size) /\ Crash
       \/ /\ CanAlloc(mem, size)
          /\ mem' = kzmem_alloc(mem, size)
          /\ held' = [held EXCEPT ![Caller] = @ \cup {AllocBlock(mem, size)}]
          /\ Finish(putcurrent(Entry), NULL)
          /\ UNCHANGED <<live, ipc, lost, serintr, masked>>

KzKmfree(p) ==
    /\ Invoke("kmfree")
    /\ p \in held[Caller]
    /\ mem' = kzmem_free(mem, p)
    /\ held' = [held EXCEPT ![Caller] = @ \ {p}]
    /\ Finish(putcurrent(Entry), NULL)
    /\ UNCHANGED <<live, ipc, lost, serintr, masked>>

-------------------------------------------------------------------------------
\* Messages: kz_send, kx_send and kz_recv.  Sending a heap block passes its
\* ownership on; receiving one takes it over.

Give(h, t, p) == [h EXCEPT ![t] = @ \cup ({p} \cap Block)]
Take(h, t, p) == [h EXCEPT ![t] = @ \ {p}]

KzSend(id, p) ==
    /\ Invoke("send")
    /\ p \in held[Caller] \cup {STATIC}
    /\ LET s    == putcurrent(Entry)
           sent == sendmsg(ipc, id, AllocBlock(mem, MSGBUF), s.current, p)
           used == kzmem_alloc(mem, MSGBUF)
           r    == ipc.receiver[id]
           mp   == sent.head[id]
       IN  \/ ~CanAlloc(mem, MSGBUF) /\ Crash
           \/ /\ CanAlloc(mem, MSGBUF)
              /\ r = NULL
              /\ ipc' = sent
              /\ mem' = used
              /\ held' = Take(held, Caller, p)
              /\ Finish(s, NULL)
              /\ UNCHANGED <<live, lost, serintr, masked>>
           \/ /\ CanAlloc(mem, MSGBUF)
              /\ r # NULL
              /\ ipc' = recvmsg(sent, id)
              /\ mem' = kzmem_free(used, mp)
              /\ held' = Give(Take(held, Caller, p), r, sent.p[mp])
              /\ Finish(putcurrent([s EXCEPT !.current = r]), NULL)
              /\ UNCHANGED <<live, lost, serintr, masked>>

\* Mutant of KzRecv: a second receiver takes the place of the first.
KzRecvDisplaces(id) ==
    /\ Invoke("recv")
    /\ ipc.head[id] = NULL
    /\ ipc' = [ipc EXCEPT !.receiver[id] = Caller]
    /\ Finish(Entry, Receiving(id))
    /\ UNCHANGED <<live, mem, held, lost, serintr, masked>>

KzRecv(id) ==
    /\ Invoke("recv")
    /\ LET waiting == [ipc EXCEPT !.receiver[id] = Caller]
           mp      == ipc.head[id]
       IN  \/ ipc.receiver[id] # NULL /\ Crash
           \/ /\ ipc.receiver[id] = NULL
              /\ mp = NULL
              /\ ipc' = waiting
              /\ Finish(Entry, Receiving(id))
              /\ UNCHANGED <<live, mem, held, lost, serintr, masked>>
           \/ /\ ipc.receiver[id] = NULL
              /\ mp # NULL
              /\ ipc' = recvmsg(waiting, id)
              /\ mem' = kzmem_free(mem, mp)
              /\ held' = Give(held, Caller, ipc.p[mp])
              /\ Finish(putcurrent(Entry), NULL)
              /\ UNCHANGED <<live, lost, serintr, masked>>

-------------------------------------------------------------------------------
\* Interrupts.

KzSetintr ==
    /\ Invoke("setintr")
    /\ serintr' = TRUE
    /\ Finish(putcurrent(Entry), NULL)
    /\ UNCHANGED <<live, ipc, mem, held, lost, masked>>

\* The device interrupts a thread that does not mask it, once a handler is
\* registered; thread_intr runs the handler, then schedules.
IntrEnter ==
    /\ mode = "user"
    /\ serintr
    /\ sched.current \notin masked
    /\ mode' = "handler"
    /\ UNCHANGED <<sched, live, syscall, ipc, mem, held, lost, serintr, masked>>

\* Mutant of IntrLeave: the interrupted thread goes to the end of its queue.
IntrLeaveRotates ==
    /\ mode = "handler"
    /\ Dispatch(putcurrent(getcurrent(sched)))
    /\ UNCHANGED <<live, syscall, ipc, mem, held, lost, serintr, masked>>

IntrLeave ==
    /\ mode = "handler"
    /\ Dispatch(sched)
    /\ UNCHANGED <<live, syscall, ipc, mem, held, lost, serintr, masked>>

\* INTR_ENABLE and INTR_DISABLE change the CCR of the running thread.
IntrMask ==
    /\ mode = "user"
    /\ "setintr" \in Calls
    /\ \/ masked' = masked \cup {sched.current}
       \/ masked' = masked \ {sched.current}
    /\ UNCHANGED <<sched, live, syscall, ipc, mem, held, lost, serintr, mode>>

\* The endless loop of kz_sysdown.
Spin == mode = "down" /\ UNCHANGED vars

-------------------------------------------------------------------------------
SystemCall ==
    \/ \E priority \in Prio : KzRun(priority)
    \/ KzExit \/ KzWait \/ KzSleep \/ KzGetid
    \/ \E id \in Tcb : KzWakeup(id)
    \/ \E priority \in Prio \cup {-1} : KzChpri(priority)
    \/ \E size \in Sizes : KzKmalloc(size)
    \/ \E p \in Block : KzKmfree(p)
    \/ \E id \in Box, p \in Payload : KzSend(id, p)
    \/ \E id \in Box : KzRecv(id)
    \/ KzSetintr

Interrupt == IntrEnter \/ IntrLeave \/ IntrMask

Next == SystemCall \/ SoftErr \/ Interrupt \/ Spin

Spec == Init /\ [][Next]_vars

(***************************************************************************)
(* Cooperative scheduling: a thread that is given the processor again and  *)
(* again (interrupts may take it away) makes its next system call, and a   *)
(* handler returns.                                                        *)
(***************************************************************************)
UserCall(t) == mode = "user" /\ sched.current = t /\ (SystemCall \/ SoftErr)
Fairness == /\ \A t \in Tcb : SF_vars(UserCall(t))
            /\ WF_vars(IntrLeave)
FairSpec == Spec /\ Fairness

===============================================================================
