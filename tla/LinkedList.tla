------------------------------ MODULE LinkedList ------------------------------
(***************************************************************************)
(* The intrusive singly linked lists of kozos.  A ready queue, a message   *)
(* box and the free list of a memory pool are each a head pointer (and,    *)
(* for the first two, a tail pointer) and a "next" field in the elements.  *)
(* The models keep those pointers, and beside them the sequence the list   *)
(* is meant to hold: a history variable no handler reads.  Linked relates  *)
(* the two.                                                                *)
(***************************************************************************)
EXTENDS Integers, Sequences, Functions

CONSTANT NULL       \* the null pointer

HeadOf(q) == IF q = <<>> THEN NULL ELSE q[1]
TailOf(q) == IF q = <<>> THEN NULL ELSE q[Len(q)]

\* What is left of q when its first element is unlinked.
Rest(q) == IF q = <<>> THEN <<>> ELSE Tail(q)

(***************************************************************************)
(* Following next from head visits exactly the elements of q, in order,    *)
(* and ends in a null pointer.                                             *)
(***************************************************************************)
Linked(head, next, q) ==
    /\ head = HeadOf(q)
    /\ \A i \in 1..Len(q) : next[q[i]] = IF i = Len(q) THEN NULL ELSE q[i + 1]

\* No element is in the list twice.
Distinct(q) == \A i, j \in 1..Len(q) : q[i] = q[j] => i = j

===============================================================================
