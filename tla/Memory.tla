-------------------------------- MODULE Memory --------------------------------
(***************************************************************************)
(* os/memory.c: three pools of fixed-size blocks, each with a LIFO free    *)
(* list linked through the block headers.                                  *)
(***************************************************************************)
EXTENDS LinkedList, FiniteSetsExt

CONSTANTS PoolSize,     \* pool[i].size, a sequence of block sizes
          PoolNum,      \* pool[i].num, the number of blocks of each pool
          HEADER        \* sizeof(kzmem_block), taken from every block

ASSUME MemoryAssumption ==
    /\ HEADER \in Nat
    /\ PoolSize \in Seq(Nat)
    /\ PoolNum \in [1..Len(PoolSize) -> Nat \ {0}]
    /\ \A i, j \in 1..Len(PoolSize) : i < j => PoolSize[i] < PoolSize[j]

Pool == 1..Len(PoolSize)

(***************************************************************************)
(* A block is known by its pool, which the size field of its header tells  *)
(* (the sizes differ), and by its place in the pool's area.                *)
(***************************************************************************)
Block == UNION {{i} \X (1..PoolNum[i]) : i \in Pool}
PoolOf(b) == b[1]

ASSUME NullIsNoBlock == NULL \notin Block

BlockOrNull == Block \cup {NULL}

\* "stack" is the history variable: the blocks each free list should hold.
Mem == [free  : [Pool -> BlockOrNull],
        next  : [Block -> BlockOrNull],
        stack : [Pool -> Seq(Block)]]

\* Every block of every pool on its free list, in the order of addresses.
kzmem_init ==
    [free  |-> [i \in Pool |-> <<i, 1>>],
     next  |-> [b \in Block |-> IF b[2] = PoolNum[b[1]] THEN NULL
                                                        ELSE <<b[1], b[2] + 1>>],
     stack |-> [i \in Pool |-> [j \in 1..PoolNum[i] |-> <<i, j>>]]]

(***************************************************************************)
(* The first pool whose payload holds the request is the only one tried:   *)
(* when its free list is empty the system goes down, whatever the larger   *)
(* pools have left.  A request no pool fits takes the system down too.     *)
(***************************************************************************)
Fitting(size) == {i \in Pool : size <= PoolSize[i] - HEADER}
CanAlloc(m, size) == Fitting(size) # {} /\ m.free[Min(Fitting(size))] # NULL

AllocBlock(m, size) == m.free[Min(Fitting(size))]
\* Mutant of kzmem_alloc: the last block of a free list is not unlinked.
kzmem_allocKeepsLast(m, size) ==
    LET i  == Min(Fitting(size))
        mp == m.free[i]
    IN  [m EXCEPT !.free[i]  = IF m.next[mp] = NULL THEN mp ELSE m.next[mp],
                  !.next[mp] = NULL,
                  !.stack[i] = IF m.next[mp] = NULL THEN @ ELSE Rest(@)]
kzmem_alloc(m, size) ==
    LET i  == Min(Fitting(size))
        mp == m.free[i]
    IN  [m EXCEPT !.free[i]  = m.next[mp],
                  !.next[mp] = NULL,
                  !.stack[i] = Rest(@)]

kzmem_free(m, mp) ==
    LET i == PoolOf(mp)
    IN  [m EXCEPT !.next[mp] = m.free[i],
                  !.free[i]  = mp,
                  !.stack[i] = <<mp>> \o @]

-------------------------------------------------------------------------------
(***************************************************************************)
(* What the free lists must be: pool i links blocks of pool i only, none   *)
(* of them twice.                                                          *)
(***************************************************************************)
FreeListsLinked(m) ==
    \A i \in Pool : /\ Linked(m.free[i], m.next, m.stack[i])
                    /\ Distinct(m.stack[i])
                    /\ \A b \in Range(m.stack[i]) : PoolOf(b) = i

FreeBlocks(m) == UNION {Range(m.stack[i]) : i \in Pool}

===============================================================================
