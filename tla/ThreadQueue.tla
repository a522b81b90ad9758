----------------------------- MODULE ThreadQueue ------------------------------
(***************************************************************************)
(* The ready queues of os/kozos.c: the TCB fields that link a thread into  *)
(* them, and getcurrent, putcurrent and schedule, which are all that ever  *)
(* touches the links.  Each C function becomes a function on the record    *)
(* of the static variables it reads and writes, so a handler is written    *)
(* below as the composition of the calls the C handler makes.              *)
(***************************************************************************)
EXTENDS LinkedList, FiniteSetsExt

CONSTANTS THREAD_NUM,       \* size of the array threads[]
          PRIORITY_NUM      \* number of ready queues; 0 is the best priority

ASSUME ThreadQueueAssumption ==
    /\ THREAD_NUM \in Nat \ {0}
    /\ PRIORITY_NUM \in Nat \ {0}

Tcb  == 0..(THREAD_NUM - 1)          \* a thread is the index of its TCB
Prio == 0..(PRIORITY_NUM - 1)

ASSUME NullAssumption == NULL \notin Tcb

TcbOrNull == Tcb \cup {NULL}

(***************************************************************************)
(* current, the arrays readyque[].head and readyque[].tail, and the TCB    *)
(* fields next, priority and flags (of which READY is the only bit).       *)
(* "order" is the history variable: the threads each queue should hold.    *)
(***************************************************************************)
Sched == [current  : TcbOrNull,
          head     : [Prio -> TcbOrNull],
          tail     : [Prio -> TcbOrNull],
          next     : [Tcb -> TcbOrNull],
          priority : [Tcb -> Prio],
          ready    : [Tcb -> BOOLEAN],
          order    : [Prio -> Seq(Tcb)]]

\* The statics after the memset calls of kz_start.
ClearedSched == [current  |-> NULL,
                 head     |-> [p \in Prio |-> NULL],
                 tail     |-> [p \in Prio |-> NULL],
                 next     |-> [t \in Tcb |-> NULL],
                 priority |-> [t \in Tcb |-> 0],
                 ready    |-> [t \in Tcb |-> FALSE],
                 order    |-> [p \in Prio |-> <<>>]]

\* Mutant of getcurrent: unlinking the last thread leaves the tail pointer.
getcurrentStaleTail(s) ==
    LET c == s.current
        p == s.priority[c]
    IN  IF c = NULL \/ ~s.ready[c] THEN s
        ELSE [s EXCEPT !.head[p] = s.next[c], !.ready[c] = FALSE, !.next[c] = NULL,
                       !.order[p] = Rest(@)]

(***************************************************************************)
(* Take the current thread off its queue.  The code does not search: it    *)
(* makes the thread's next the new head, which is right only if the        *)
(* thread is the head.                                                     *)
(***************************************************************************)
getcurrent(s) ==
    LET c == s.current
        p == s.priority[c]
    IN  IF c = NULL \/ ~s.ready[c] THEN s
        ELSE [s EXCEPT !.head[p]  = s.next[c],
                       !.tail[p]  = IF s.next[c] = NULL THEN NULL ELSE @,
                       !.ready[c] = FALSE,
                       !.next[c]  = NULL,
                       !.order[p] = Rest(@)]

\* Mutant of putcurrent: the thread goes to the front of its queue.
putcurrentInFront(s) ==
    LET c == s.current
        p == s.priority[c]
    IN  IF c = NULL \/ s.ready[c] THEN s
        ELSE [s EXCEPT !.next[c] = s.head[p], !.head[p] = c, !.ready[c] = TRUE,
                       !.tail[p] = IF @ = NULL THEN c ELSE @,
                       !.order[p] = <<c>> \o @]

\* Append the current thread to the queue of its priority, once.
putcurrent(s) ==
    LET c == s.current
        p == s.priority[c]
        linked == IF s.tail[p] # NULL THEN [s EXCEPT !.next[s.tail[p]] = c]
                                      ELSE [s EXCEPT !.head[p] = c]
    IN  IF c = NULL \/ s.ready[c] THEN s
        ELSE [linked EXCEPT !.tail[p]  = c,
                            !.ready[c] = TRUE,
                            !.order[p] = Append(@, c)]

\* memset(thp, 0, sizeof(*thp)): what it does to the fields kept here.
ClearTcb(s, t) == [s EXCEPT !.next[t] = NULL, !.priority[t] = 0, !.ready[t] = FALSE]

\* The queues the loop of schedule would stop at; the first one wins.
Runnable(s) == {p \in Prio : s.head[p] # NULL}
\* Mutant of schedule: the loop runs from the worst priority to the best.
scheduleWorst(s) == [s EXCEPT !.current = s.head[Max(Runnable(s))]]
schedule(s) == [s EXCEPT !.current = s.head[Min(Runnable(s))]]

-------------------------------------------------------------------------------
(***************************************************************************)
(* What the links must mean: queue p lists, in order and without           *)
(* repetition, exactly the READY threads of priority p; the tail pointer   *)
(* is its last element; a thread in no queue has a null next.              *)
(***************************************************************************)
QueuesLinked(s) ==
    \A p \in Prio :
        /\ Linked(s.head[p], s.next, s.order[p])
        /\ s.tail[p] = TailOf(s.order[p])
        /\ Distinct(s.order[p])
QueuesExact(s) ==
    /\ \A p \in Prio : Range(s.order[p]) = {t \in Tcb : s.ready[t] /\ s.priority[t] = p}
    /\ \A t \in Tcb : ~s.ready[t] => s.next[t] = NULL

WellFormed(s) == QueuesLinked(s) /\ QueuesExact(s)

\* The thread schedule picks: the head of the best queue that is not empty.
IsElected(s, t) ==
    /\ s.ready[t]
    /\ s.head[s.priority[t]] = t
    /\ \A p \in Prio : p < s.priority[t] => s.head[p] = NULL

===============================================================================
