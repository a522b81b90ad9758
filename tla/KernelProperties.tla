--------------------------- MODULE KernelProperties ---------------------------
(***************************************************************************)
(* What makes the kernel correct.                                          *)
(***************************************************************************)
EXTENDS Kernel

\* The threads that run or wait for the processor.
ReadyThreads == {t \in Tcb : sched.ready[t]}

\* t waits in kz_recv on box id.
WaitsOn(t, id) == syscall[t] = Receiving(id)

(***************************************************************************)
(* The ready queues always hold what they should: after every composition  *)
(* of getcurrent and putcurrent by the handlers, queue p links exactly the *)
(* READY threads of priority p, each once, and only threads that exist.    *)
(* getcurrent unlinks the head of a queue, whoever that is: any handler    *)
(* that lets current and the head part loses a thread or splices queues.   *)
(***************************************************************************)
ReadyQueues == WellFormed(sched) /\ ReadyThreads \subseteq live

(***************************************************************************)
(* Whenever a thread executes, it is the head of the best non-empty queue: *)
(* a call or an interrupt that readies a better thread switches to it at   *)
(* once, and one that does not leaves the interrupted thread in place.     *)
(***************************************************************************)
RunsHighest == mode = "user" => /\ sched.current \in live
                                /\ IsElected(sched, sched.current)

(***************************************************************************)
(* A box's receiver really waits for it: it is blocked in kz_recv on that  *)
(* box and no other, its parameter block is alive for recvmsg to write the *)
(* answer through, and no message lies in the box meanwhile.               *)
(***************************************************************************)
ReceiverWaits ==
    \A id \in Box : ipc.receiver[id] # NULL =>
        /\ ipc.receiver[id] \in live
        /\ ~sched.ready[ipc.receiver[id]]
        /\ WaitsOn(ipc.receiver[id], id)
        /\ ipc.head[id] = NULL

(***************************************************************************)
(* No thread is forgotten: one that exists and is in no ready queue sleeps *)
(* (so a wakeup can reach it), or is the receiver of a box (so a send      *)
(* can), or is the known exception, a kz_run that found no free TCB.       *)
(***************************************************************************)
NoThreadForgotten ==
    \A t \in live \ ReadyThreads :
        \/ syscall[t] \in {Sleeping, RunFailed}
        \/ \E id \in Box : WaitsOn(t, id) /\ ipc.receiver[id] = t

(***************************************************************************)
(* Every block of the heap has exactly one owner at any time: it is free,  *)
(* or holds a queued message, or is the payload of one, or belongs to a    *)
(* client, or was left behind by a thread that ended.  A message handed to *)
(* a waiting receiver passes through three of them in one call.            *)
(***************************************************************************)
Owners(b) ==
    {<<"free", i>> : i \in {j \in Pool : b \in Range(mem.stack[j])}}
    \cup {<<"buffer", id>> : id \in {j \in Box : b \in Range(ipc.queue[j])}}
    \cup {<<"payload", mp>> : mp \in {m \in Buffers(ipc) : ipc.p[m] = b}}
    \cup {<<"client", t>> : t \in {u \in TcbOrNull : b \in held[u]}}
    \cup {<<"lost", x>> : x \in lost \cap {b}}
HeapPartition ==
    /\ FreeListsLinked(mem)
    /\ \A b \in Block : Cardinality(Owners(b)) = 1

\* The pointers of a box link its buffers in the order they were sent, to the
\* tail and no further, however sends and receives have emptied and refilled it.
BoxQueues == BoxesLinked(ipc)

(***************************************************************************)
(* Messages are neither lost, duplicated, reordered nor changed.  In one   *)
(* step a box stays as it is, takes one buffer at its end, or gives its    *)
(* first to the thread that asked for it, with its payload; a buffer keeps *)
(* sender and payload while it is queued.                                  *)
(***************************************************************************)
Delivered(id) ==
    LET mp == ipc.queue[id][1]
    IN  /\ ipc.queue[id] # <<>>
        /\ ipc'.queue[id] = Tail(ipc.queue[id])
        /\ {ipc.p[mp]} \cap Block = held'[Caller] \ held[Caller]
Appended(id) ==
    \E mp \in Block : /\ ipc'.queue[id] = Append(ipc.queue[id], mp)
                      /\ ipc'.sender[mp] = Caller
                      /\ {ipc'.p[mp]} \cap Block = held[Caller] \ held'[Caller]
FifoStep ==
    \A id \in Box :
        /\ ipc'.queue[id] = ipc.queue[id] \/ Appended(id) \/ Delivered(id)
        /\ \A mp \in Range(ipc.queue[id]) \cap Range(ipc'.queue[id]) :
              ipc'.sender[mp] = ipc.sender[mp] /\ ipc'.p[mp] = ipc.p[mp]
FifoDelivery == [][FifoStep]_vars

(***************************************************************************)
(* A blocked receiver leaves its box only by being given a message: it is  *)
(* READY again and owns what the sender no longer does.  Neither a wakeup, *)
(* nor the end of another thread, nor a second receiver displaces it.      *)
(***************************************************************************)
HandedOver(r) ==
    /\ sched'.ready[r]
    /\ held'[r] \ held[r] = held[Caller] \ held'[Caller]
    /\ held[r] \subseteq held'[r]
HandOverStep ==
    \A id \in Box : LET r == ipc.receiver[id]
                    IN  r # NULL => ipc'.receiver[id] = r \/ HandedOver(r)
HandOver == [][HandOverStep]_vars

(***************************************************************************)
(* The invariant behind the scheduling and blocking properties: they hold  *)
(* together or not at all.  EndsMatch is what hand-over needs of the boxes.*)
(***************************************************************************)
KernelInv == /\ TypeOK /\ ReadyQueues /\ RunsHighest
             /\ ReceiverWaits /\ NoThreadForgotten /\ EndsMatch(ipc)

(***************************************************************************)
(* The invariant behind the ownership of blocks and the order of messages. *)
(* Owners(b) has one element because the five places a block can be in are *)
(* disjoint, and so are the boxes, the payloads and the clients among      *)
(* themselves; each list keeps its links because no other one shares its   *)
(* blocks.                                                                 *)
(***************************************************************************)
ClientBlocks(h) == UNION {h[t] : t \in TcbOrNull}

QueuesApart(x) == \A i, j \in Box : i # j => Range(x.queue[i]) \cap Range(x.queue[j]) = {}
PayloadsApart(x) ==
    \A a, b \in Buffers(x) : x.p[a] = x.p[b] /\ x.p[a] \in Block => a = b
ClientsApart(h) == \A t, u \in TcbOrNull : t # u => h[t] \cap h[u] = {}

\* Free, buffer, payload, client, lost: every block is in one of the five.
EveryBlockOnce(F, B, P, C, L) ==
    /\ F \cup B \cup P \cup C \cup L = Block
    /\ F \cap (B \cup P \cup C \cup L) = {}
    /\ B \cap (P \cup C \cup L) = {}
    /\ P \cap (C \cup L) = {}
    /\ C \cap L = {}

Accounted(m, x, h, l) ==
    /\ FreeListsLinked(m) /\ BoxesLinked(x)
    /\ QueuesApart(x) /\ PayloadsApart(x) /\ ClientsApart(h)
    /\ EveryBlockOnce(FreeBlocks(m), Buffers(x), Payloads(x), ClientBlocks(h), l)
HeapInv == Accounted(mem, ipc, held, lost)

-------------------------------------------------------------------------------
(***************************************************************************)
(* The kernel implements PriorityRoundRobin: no sequence of calls, wakeups *)
(* and interrupts makes a thread jump its queue, lose its turn to an       *)
(* interrupt, or run while a better one could.                             *)
(***************************************************************************)
Scheduler == INSTANCE PriorityRoundRobin WITH
                Thread  <- Tcb,
                Level   <- Prio,
                None    <- NULL,
                First   <- 0,
                queue   <- sched.order,
                running <- IF mode = "user" THEN sched.current ELSE NULL
TakesTurns == Scheduler!PriorityRoundRobinSpec

(***************************************************************************)
(* Round robin within a priority: a READY thread gets the processor, or a  *)
(* better one is READY, or the system goes down.  (A thread is READY until *)
(* it runs: no other thread can take it off its queue.)                    *)
(***************************************************************************)
Preferred(t) == {u \in ReadyThreads : sched.priority[u] < sched.priority[t]}
NoStarvation ==
    \A t \in Tcb :
        sched.ready[t] ~> \/ mode = "user" /\ sched.current = t
                          \/ Preferred(t) # {}
                          \/ mode = "down"

-------------------------------------------------------------------------------
(***************************************************************************)
(* "No room: return -1" and "put the thread that made the call back in the *)
(* queue", say the comments of thread_run: a kz_run always returns to its  *)
(* caller.                                                                 *)
(***************************************************************************)
RunReturns == \A t \in Tcb : syscall[t] # RunFailed

===============================================================================
