-------------------------- MODULE PriorityRoundRobin --------------------------
(***************************************************************************)
(* What the kernel promises about the processor, whatever the calls are:   *)
(* a thread runs until it makes a system call or is interrupted; threads   *)
(* of one priority take turns in the order they joined their queue; a      *)
(* thread that joins a better queue takes over at once; an interrupted     *)
(* thread keeps its turn.                                                  *)
(***************************************************************************)
EXTENDS Integers, Sequences, FiniteSetsExt, Functions

CONSTANTS Thread,       \* the threads
          Level,        \* the priorities, integers; the smallest is the best
          None,         \* no thread
          First         \* the first thread, at priority 0

VARIABLES queue,        \* the threads of each priority that want the processor
          running       \* the thread that has it, or None

abstractVars == <<queue, running>>

Queued(q) == UNION {Range(q[p]) : p \in Level}
Best(q)   == Min({p \in Level : q[p] # <<>>})
Elected(q) == IF Queued(q) = {} THEN None ELSE Head(q[Best(q)])

Join(q, t, p) == [q EXCEPT ![p] = Append(@, t)]

\* q, or q after a thread that was in none of its queues has joined one.
Joined(q, candidates) ==
    {q} \cup {Join(q, t, p) : t \in candidates \ Queued(q), p \in Level}

Start == /\ queue = [p \in Level |-> IF p = 0 THEN <<First>> ELSE <<>>]
         /\ running = First

\* A system call: the caller leaves the head of its queue, may go to the end of
\* one, and may bring one other thread with it.
Call ==
    /\ running # None
    /\ \E left \in Joined([queue EXCEPT ![Best(queue)] = Tail(@)], {running}) :
          queue' \in Joined(left, Thread \ {running})
    /\ running' = Elected(queue')

\* An interrupt, or the end of the system.
Stop == running # None /\ running' = None /\ UNCHANGED queue

\* A handler readies a thread; the handler returns.
Ready  == running = None /\ queue' \in Joined(queue, Thread) /\ UNCHANGED running
Resume == running = None /\ running' = Elected(queue) /\ UNCHANGED queue

PriorityRoundRobinSpec == Start /\ [][Call \/ Stop \/ Ready \/ Resume]_abstractVars

===============================================================================
