------------------------------ MODULE HeapProofs ------------------------------
(***************************************************************************)
(* Every block of the heap has one owner, and every message box links its  *)
(* buffers in the order they were sent, whatever the threads do.           *)
(***************************************************************************)
EXTENDS KernelProofs, FiniteSetTheorems

(***************************************************************************)
(* Lists that share the next field: what does not touch a list keeps it.   *)
(***************************************************************************)
LEMMA LinkedElsewhere ==
    ASSUME NEW S, NEW q \in Seq(S), NEW head, NEW next, Linked(head, next, q),
           NEW next2, Agree(next, next2, Range(q))
    PROVE  Linked(head, next2, q)
  <1>1. \A i \in 1..Len(q) : q[i] \in Range(q)
    BY ElementsOf
  <1> QED
    BY <1>1 DEF Linked, Agree

LEMMA EndsOf ==
    ASSUME NEW S, NULL \notin S, NEW q \in Seq(S)
    PROVE  /\ HeadOf(q) = NULL <=> q = <<>>
           /\ TailOf(q) = NULL <=> q = <<>>
           /\ q # <<>> => /\ HeadOf(q) \in Range(q) /\ TailOf(q) \in Range(q)
                          /\ HeadOf(q) = q[1] /\ 1 \in 1..Len(q)
  <1>1. CASE q = <<>>
    BY <1>1 DEF HeadOf, TailOf
  <1>2. CASE q # <<>>
    <2>1. Len(q) \in Nat /\ Len(q) >= 1
      BY <1>2, RestOf
    <2>2. 1 \in 1..Len(q) /\ Len(q) \in 1..Len(q)
      BY <2>1
    <2>3. HeadOf(q) = q[1] /\ TailOf(q) = q[Len(q)]
      BY <1>2 DEF HeadOf, TailOf
    <2>4. q[1] \in S /\ q[1] \in Range(q) /\ q[Len(q)] \in S /\ q[Len(q)] \in Range(q)
      BY <2>2, ElementsOf
    <2> QED
      BY <1>2, <2>2, <2>3, <2>4
  <1> QED
    BY <1>1, <1>2

-------------------------------------------------------------------------------
(***************************************************************************)
(* The free lists under the allocator.                                     *)
(***************************************************************************)
LEMMA InFreeBlocks ==
    ASSUME NEW m, NEW b
    PROVE  b \in FreeBlocks(m) <=> \E i \in Pool : b \in Range(m.stack[i])
  BY DEF FreeBlocks

\* An allocation takes the first block off its free list.
LEMMA AllocUnlinks ==
    ASSUME NEW m \in Mem, FreeListsLinked(m), NEW size, CanAlloc(m, size),
           NEW mp, mp = AllocBlock(m, size), NEW a, a = kzmem_alloc(m, size)
    PROVE  /\ mp \in Block /\ mp \in FreeBlocks(m)
           /\ a \in Mem /\ FreeListsLinked(a)
           /\ FreeBlocks(a) = FreeBlocks(m) \ {mp}
  <1> DEFINE i == Min(Fitting(size))
  <1>1. mp \in Block /\ a \in Mem
    BY AllocYieldsBlock
  <1>2. i \in Pool /\ mp = m.free[i] /\ mp # NULL
    BY FirstFit DEF CanAlloc, AllocBlock
  <1>3. a = [m EXCEPT !.free[i] = m.next[mp], !.next[mp] = NULL, !.stack[i] = Rest(@)]
    BY <1>2 DEF kzmem_alloc
  <1> HIDE DEF i
  <1>4. /\ a.free = [m.free EXCEPT ![i] = m.next[mp]]
        /\ a.next = [m.next EXCEPT ![mp] = NULL]
        /\ a.stack = [m.stack EXCEPT ![i] = Rest(@)]
    BY <1>3 DEF Mem
  <1>5. /\ m.stack \in [Pool -> Seq(Block)] /\ m.free \in [Pool -> BlockOrNull]
        /\ m.next \in [Block -> BlockOrNull]
    BY MemFields
  <1>6. \A j \in Pool : /\ m.stack[j] \in Seq(Block) /\ Linked(m.free[j], m.next, m.stack[j])
                        /\ Distinct(m.stack[j])
                        /\ \A b \in Range(m.stack[j]) : PoolOf(b) = j /\ b \in Block
    BY <1>5, ElementsOf DEF FreeListsLinked
  <1> DEFINE q == m.stack[i]
  <1>7. q \in Seq(Block) /\ q # <<>> /\ mp \in Range(q) /\ PoolOf(mp) = i
    <2>1. mp = HeadOf(q) /\ q \in Seq(Block)
      BY <1>2, <1>6 DEF Linked
    <2>2. q # <<>> /\ mp \in Range(q)
      BY <1>2, <2>1, EndsOf, NullIsNoBlock
    <2> QED
      BY <1>2, <1>6, <2>1, <2>2
  <1>8. Agree(m.next, a.next, Range(q) \ {mp})
    BY <1>2, <1>4, <1>5, <1>6 DEF Agree
  <1>9. /\ Linked(m.next[mp], a.next, Rest(q)) /\ Distinct(Rest(q))
        /\ Range(Rest(q)) = Range(q) \ {mp}
    <2>1. Linked(mp, m.next, q) /\ Distinct(q)
      BY <1>2, <1>6
    <2> HIDE DEF q
    <2> QED
      BY <1>7, <1>8, <2>1, UnlinkFirst, NullIsNoBlock
  <1>10. a.free[i] = m.next[mp] /\ a.stack[i] = Rest(q)
    BY <1>2, <1>4, <1>5
  <1> HIDE DEF q
  <1>11. ASSUME NEW j \in Pool
         PROVE  /\ Range(a.stack[j]) = Range(m.stack[j]) \ {mp}
                /\ Linked(a.free[j], a.next, a.stack[j]) /\ Distinct(a.stack[j])
    <2>1. CASE j = i
      BY <1>9, <1>10, <2>1 DEF q
    <2>2. CASE j # i
      <3>1. a.stack[j] = m.stack[j] /\ a.free[j] = m.free[j]
        BY <1>4, <1>5, <2>2
      <3>2. mp \notin Range(m.stack[j])
        BY <1>6, <1>7, <2>2
      <3>3. Agree(m.next, a.next, Range(m.stack[j]))
        BY <1>4, <1>5, <1>6, <3>2 DEF Agree
      <3> QED
        BY <1>6, <3>1, <3>2, <3>3, LinkedElsewhere
    <2> QED
      BY <2>1, <2>2
  <1>12. FreeListsLinked(a)
    BY <1>6, <1>11 DEF FreeListsLinked
  <1>13. FreeBlocks(a) = FreeBlocks(m) \ {mp} /\ mp \in FreeBlocks(m)
    <2>1. \A b : b \in FreeBlocks(a) <=> b \in FreeBlocks(m) /\ b # mp
      BY <1>11, InFreeBlocks
    <2>2. mp \in FreeBlocks(m)
      BY <1>2, <1>7, InFreeBlocks DEF q
    <2> QED
      BY <2>1, <2>2
  <1> QED
    BY <1>1, <1>12, <1>13

\* A block that is freed goes to the head of the list of its pool.
LEMMA FreeLinks ==
    ASSUME NEW m \in Mem, FreeListsLinked(m), NEW mp \in Block, mp \notin FreeBlocks(m),
           NEW a, a = kzmem_free(m, mp)
    PROVE  /\ a \in Mem /\ FreeListsLinked(a)
           /\ FreeBlocks(a) = FreeBlocks(m) \cup {mp}
  <1> DEFINE i == PoolOf(mp)
  <1>1. i \in Pool /\ a \in Mem
    BY PoolOfBlock, FreeKeepsMem
  <1>2. a = [m EXCEPT !.next[mp] = m.free[i], !.free[i] = mp, !.stack[i] = <<mp>> \o @]
    BY DEF kzmem_free
  <1>3. PoolOf(mp) = i
    OBVIOUS
  <1> HIDE DEF i
  <1>4. /\ a.free = [m.free EXCEPT ![i] = mp]
        /\ a.next = [m.next EXCEPT ![mp] = m.free[i]]
        /\ a.stack = [m.stack EXCEPT ![i] = <<mp>> \o @]
    BY <1>2 DEF Mem
  <1>5. /\ m.stack \in [Pool -> Seq(Block)] /\ m.free \in [Pool -> BlockOrNull]
        /\ m.next \in [Block -> BlockOrNull]
    BY MemFields
  <1>6. \A j \in Pool : /\ m.stack[j] \in Seq(Block) /\ Linked(m.free[j], m.next, m.stack[j])
                        /\ Distinct(m.stack[j]) /\ mp \notin Range(m.stack[j])
                        /\ \A b \in Range(m.stack[j]) : PoolOf(b) = j /\ b \in Block
    BY <1>5, ElementsOf, InFreeBlocks DEF FreeListsLinked
  <1> DEFINE q == m.stack[i]
  <1>7. a.next[mp] = m.free[i] /\ Agree(m.next, a.next, Range(q))
    BY <1>1, <1>4, <1>5, <1>6 DEF Agree
  <1>8. /\ a.free[i] = mp /\ a.stack[i] = <<mp>> \o q
        /\ q \in Seq(Block) /\ Linked(m.free[i], m.next, q) /\ Distinct(q) /\ mp \notin Range(q)
    BY <1>1, <1>4, <1>5, <1>6
  <1> HIDE DEF q
  <1>9. IsList(mp, a.next, <<mp>> \o q, Range(q) \cup {mp}, TailOf(<<mp>> \o q))
    BY <1>7, <1>8, LinkFirst, NullIsNoBlock
  <1>10. /\ Linked(a.free[i], a.next, a.stack[i]) /\ Distinct(a.stack[i])
         /\ Range(a.stack[i]) = Range(m.stack[i]) \cup {mp}
    BY <1>8, <1>9 DEF IsList, q
  <1>11. ASSUME NEW j \in Pool, j # i
         PROVE  /\ a.stack[j] = m.stack[j]
                /\ Linked(a.free[j], a.next, a.stack[j]) /\ Distinct(a.stack[j])
    <2>1. a.stack[j] = m.stack[j] /\ a.free[j] = m.free[j]
      BY <1>4, <1>5, <1>11
    <2>2. Agree(m.next, a.next, Range(m.stack[j]))
      BY <1>4, <1>5, <1>6 DEF Agree
    <2> QED
      BY <1>6, <2>1, <2>2, LinkedElsewhere
  <1>12. FreeListsLinked(a)
    <2>1. \A j \in Pool : \A b \in Range(a.stack[j]) : PoolOf(b) = j
      BY <1>3, <1>6, <1>10, <1>11
    <2> QED
      BY <1>10, <1>11, <2>1 DEF FreeListsLinked
  <1>13. FreeBlocks(a) = FreeBlocks(m) \cup {mp}
    BY <1>1, <1>10, <1>11, InFreeBlocks
  <1> QED
    BY <1>1, <1>12, <1>13

\* kzmem_init: everything is free, in the order of addresses.
LEMMA InitialFreeLists ==
    FreeListsLinked(kzmem_init) /\ FreeBlocks(kzmem_init) = Block
  <1> DEFINE m == kzmem_init
             s(i) == [j \in 1..PoolNum[i] |-> <<i, j>>]
  <1>1. \A i \in Pool : PoolNum[i] \in Nat \ {0} /\ Pool \subseteq Nat
    BY MemoryAssumption DEF Pool
  <1>2. /\ m.free = [i \in Pool |-> <<i, 1>>] /\ m.stack = [i \in Pool |-> s(i)]
        /\ m.next = [b \in Block |-> IF b[2] = PoolNum[b[1]] THEN NULL
                                     ELSE <<b[1], b[2] + 1>>]
    BY DEF kzmem_init
  <1>3. \A i \in Pool : \A j \in 1..PoolNum[i] : <<i, j>> \in Block
    BY DEF Block
  <1> HIDE DEF m
  <1>4. ASSUME NEW i \in Pool
        PROVE  /\ Linked(m.free[i], m.next, m.stack[i]) /\ Distinct(m.stack[i])
               /\ Range(m.stack[i]) = {i} \X (1..PoolNum[i])
    <2> DEFINE n == PoolNum[i]
    <2>1. n \in Nat /\ n # 0 /\ 1 \in 1..n
      BY <1>1
    <2>2. m.stack[i] = s(i) /\ m.free[i] = <<i, 1>>
      BY <1>2
    <2>3. DOMAIN s(i) = 1..n /\ \A j \in 1..n : s(i)[j] = <<i, j>>
      OBVIOUS
    <2> HIDE DEF n, s
    <2>4. Len(s(i)) = n /\ s(i) # <<>>
      BY <2>1, <2>3
    <2>5. HeadOf(s(i)) = <<i, 1>>
      BY <2>1, <2>3, <2>4 DEF HeadOf
    <2>6. ASSUME NEW j \in 1..n
          PROVE  m.next[s(i)[j]] = IF j = n THEN NULL ELSE s(i)[j + 1]
      <3>1. <<i, j>> \in Block /\ s(i)[j] = <<i, j>>
        BY <1>3, <2>3 DEF n
      <3>2. m.next[<<i, j>>] = IF j = n THEN NULL ELSE <<i, j + 1>>
        BY <1>2, <3>1 DEF n
      <3>3. j # n => j + 1 \in 1..n
        BY <2>1
      <3> QED
        BY <2>3, <3>1, <3>2, <3>3
    <2>7. Distinct(s(i))
      BY <2>3, <2>4 DEF Distinct
    <2>8. Range(s(i)) = {i} \X (1..n)
      BY <2>3, SMTT(30) DEF Range
    <2> QED
      BY <2>2, <2>4, <2>5, <2>6, <2>7, <2>8 DEF Linked, n
  <1>5. FreeListsLinked(m)
    BY <1>4 DEF FreeListsLinked, PoolOf
  <1>6. FreeBlocks(m) = Block
    BY <1>4 DEF FreeBlocks, Block
  <1> QED
    BY <1>5, <1>6 DEF m

-------------------------------------------------------------------------------
(***************************************************************************)
(* The message boxes under sendmsg and recvmsg.                            *)
(***************************************************************************)
LEMMA InBuffers ==
    ASSUME NEW x, NEW b
    PROVE  b \in Buffers(x) <=> \E id \in Box : b \in Range(x.queue[id])
  BY DEF Buffers

LEMMA QueueElements ==
    ASSUME NEW x \in Boxes, NEW id \in Box
    PROVE  /\ x.queue[id] \in Seq(Block)
           /\ \A b \in Range(x.queue[id]) : b \in Block /\ b \in Buffers(x)
  <1>1. x.queue[id] \in Seq(Block)
    BY BoxesFields
  <1> QED
    BY <1>1, ElementsOf, InBuffers

LEMMA LinkedBoxesEnd ==
    ASSUME NEW x \in Boxes, BoxesLinked(x)
    PROVE  EndsMatch(x)
  <1> SUFFICES ASSUME NEW id \in Box PROVE x.head[id] = NULL <=> x.tail[id] = NULL
    BY DEF EndsMatch
  <1>1. x.queue[id] \in Seq(Block)
    BY BoxesFields
  <1>2. x.head[id] = HeadOf(x.queue[id]) /\ x.tail[id] = TailOf(x.queue[id])
    BY DEF BoxesLinked, Linked
  <1> QED
    BY <1>1, <1>2, EndsOf, NullIsNoBlock

\* y is x with mp, filled in, appended to box id.
Sent(x, y, id, mp, thp, p) ==
    /\ y.receiver = x.receiver
    /\ y.queue = [x.queue EXCEPT ![id] = Append(@, mp)]
    /\ y.sender = [x.sender EXCEPT ![mp] = thp]
    /\ y.p = [x.p EXCEPT ![mp] = p]
    /\ y.tail = [x.tail EXCEPT ![id] = mp]
    /\ \A j \in Box : y.head[j] = IF j = id /\ x.tail[id] = NULL THEN mp ELSE x.head[j]
    /\ \A b \in Block : y.next[b] = IF b = mp THEN NULL
                                    ELSE IF b = x.tail[id] THEN mp ELSE x.next[b]

\* y is x with mp, now empty, off the head of box id, and no receiver there.
Received(x, y, id, mp) ==
    /\ y.receiver = [x.receiver EXCEPT ![id] = NULL]
    /\ y.head = [x.head EXCEPT ![id] = x.next[mp]]
    /\ y.tail = [x.tail EXCEPT ![id] = IF x.next[mp] = NULL THEN NULL ELSE @]
    /\ y.next = [x.next EXCEPT ![mp] = NULL]
    /\ y.sender = [x.sender EXCEPT ![mp] = NULL]
    /\ y.p = [x.p EXCEPT ![mp] = NULL]
    /\ y.queue = [x.queue EXCEPT ![id] = Rest(@)]

LEMMA SendmsgFields ==
    ASSUME NEW x \in Boxes, NEW id \in Box, NEW mp \in Block, NEW thp \in TcbOrNull,
           NEW p \in Payload, EndsMatch(x), NEW y, y = sendmsg(x, id, mp, thp, p)
    PROVE  y \in Boxes /\ Sent(x, y, id, mp, thp, p)
  <1>1. y \in Boxes
    BY SendmsgAppends
  <1>2. CASE x.tail[id] # NULL
    <2>1. y = [x EXCEPT !.next[x.tail[id]] = mp,
                        !.next[mp]   = NULL,
                        !.sender[mp] = thp,
                        !.p[mp]      = p,
                        !.tail[id]   = mp,
                        !.queue[id]  = Append(@, mp)]
      BY <1>2 DEF sendmsg
    <2>2. /\ y.receiver = x.receiver /\ y.head = x.head
          /\ y.queue = [x.queue EXCEPT ![id] = Append(@, mp)]
          /\ y.sender = [x.sender EXCEPT ![mp] = thp]
          /\ y.p = [x.p EXCEPT ![mp] = p]
          /\ y.tail = [x.tail EXCEPT ![id] = mp]
          /\ y.next = [[x.next EXCEPT ![x.tail[id]] = mp] EXCEPT ![mp] = NULL]
      BY <2>1 DEF Boxes
    <2> QED
      BY <1>1, <1>2, <2>2, BoxesFields DEF Sent
  <1>3. CASE x.tail[id] = NULL
    <2>1. y = [x EXCEPT !.head[id]   = mp,
                        !.next[mp]   = NULL,
                        !.sender[mp] = thp,
                        !.p[mp]      = p,
                        !.tail[id]   = mp,
                        !.queue[id]  = Append(@, mp)]
      BY <1>3 DEF sendmsg
    <2>2. /\ y.receiver = x.receiver /\ y.head = [x.head EXCEPT ![id] = mp]
          /\ y.queue = [x.queue EXCEPT ![id] = Append(@, mp)]
          /\ y.sender = [x.sender EXCEPT ![mp] = thp]
          /\ y.p = [x.p EXCEPT ![mp] = p]
          /\ y.tail = [x.tail EXCEPT ![id] = mp]
          /\ y.next = [x.next EXCEPT ![mp] = NULL]
      BY <2>1 DEF Boxes
    <2> QED
      BY <1>1, <1>3, <2>2, BoxesFields, NullIsNoBlock DEF Sent
  <1> QED
    BY <1>2, <1>3

\* A block in no box becomes the last buffer of one.
LEMMA SendmsgLinks ==
    ASSUME NEW x \in Boxes, NEW id \in Box, NEW mp \in Block, NEW thp \in TcbOrNull,
           NEW p \in Payload, NEW y, y = sendmsg(x, id, mp, thp, p),
           BoxesLinked(x), QueuesApart(x), mp \notin Buffers(x)
    PROVE  BoxesLinked(y) /\ QueuesApart(y) /\ Buffers(y) = Buffers(x) \cup {mp}
  <1> DEFINE q == x.queue[id]
  <1>1. /\ y.queue = [x.queue EXCEPT ![id] = Append(@, mp)]
        /\ y.tail = [x.tail EXCEPT ![id] = mp]
        /\ \A j \in Box : y.head[j] = IF j = id /\ x.tail[id] = NULL THEN mp ELSE x.head[j]
        /\ \A b \in Block : y.next[b] = IF b = mp THEN NULL
                                        ELSE IF b = x.tail[id] THEN mp ELSE x.next[b]
    <2>1. EndsMatch(x)
      BY LinkedBoxesEnd
    <2>2. Sent(x, y, id, mp, thp, p)
      BY <2>1, SendmsgFields
    <2> QED
      BY <2>2 DEF Sent
  <1>2. \A j \in Box : /\ x.queue[j] \in Seq(Block) /\ Linked(x.head[j], x.next, x.queue[j])
                       /\ x.tail[j] = TailOf(x.queue[j]) /\ Distinct(x.queue[j])
                       /\ mp \notin Range(x.queue[j])
                       /\ \A b \in Range(x.queue[j]) : b \in Block
    BY QueueElements, InBuffers DEF BoxesLinked
  <1>3. /\ q \in Seq(Block) /\ (x.tail[id] = NULL <=> q = <<>>)
        /\ q # <<>> => x.tail[id] \in Range(q)
    BY <1>2, EndsOf, NullIsNoBlock
  <1>4. /\ y.queue[id] = Append(q, mp) /\ y.tail[id] = mp
        /\ \A j \in Box \ {id} : y.queue[j] = x.queue[j] /\ y.tail[j] = x.tail[j]
    BY <1>1, BoxesFields
  <1> HIDE DEF q
  <1>5. IsList(y.head[id], y.next, Append(q, mp), Range(q) \cup {mp}, mp)
    <2>1. /\ Linked(x.head[id], x.next, q) /\ Distinct(q) /\ mp \notin Range(q)
          /\ x.tail[id] = TailOf(q)
      BY <1>2 DEF q
    <2>2. y.head[id] = IF q = <<>> THEN mp ELSE x.head[id]
      BY <1>1, <1>3
    <2>3. y.next[mp] = NULL
      BY <1>1
    <2>4. q # <<>> => y.next[TailOf(q)] = mp
      BY <1>1, <1>2, <1>3, <2>1 DEF q
    <2>5. Agree(x.next, y.next, Range(q) \ {TailOf(q)})
      BY <1>1, <1>2, <2>1 DEF Agree, q
    <2> QED
      BY <1>3, <2>1, <2>2, <2>3, <2>4, <2>5, LinkLast, NullIsNoBlock
  <1>6. /\ Linked(y.head[id], y.next, y.queue[id]) /\ Distinct(y.queue[id])
        /\ y.tail[id] = TailOf(y.queue[id])
        /\ Range(y.queue[id]) = Range(x.queue[id]) \cup {mp}
    BY <1>4, <1>5 DEF IsList, q
  <1>7. ASSUME NEW j \in Box, j # id
        PROVE  /\ y.queue[j] = x.queue[j] /\ Linked(y.head[j], y.next, y.queue[j])
               /\ Distinct(y.queue[j]) /\ y.tail[j] = TailOf(y.queue[j])
    <2>1. y.queue[j] = x.queue[j] /\ y.head[j] = x.head[j] /\ y.tail[j] = x.tail[j]
      BY <1>1, <1>4, <1>7
    <2>2. x.tail[id] \notin Range(x.queue[j])
      <3>1. CASE q = <<>>
        BY <1>2, <1>3, <3>1, NullIsNoBlock
      <3>2. CASE q # <<>>
        BY <1>3, <1>7, <3>2 DEF QueuesApart, q
      <3> QED
        BY <3>1, <3>2
    <2>3. Agree(x.next, y.next, Range(x.queue[j]))
      BY <1>1, <1>2, <2>2 DEF Agree
    <2>4. Linked(x.head[j], y.next, x.queue[j])
      BY <1>2, <2>3, LinkedElsewhere
    <2> QED
      BY <1>2, <2>1, <2>4
  <1>8. BoxesLinked(y)
    BY <1>6, <1>7 DEF BoxesLinked
  <1>9. QueuesApart(y)
    <2> SUFFICES ASSUME NEW i \in Box, NEW j \in Box, i # j,
                        NEW b, b \in Range(y.queue[i]), b \in Range(y.queue[j])
                 PROVE  FALSE
      BY DEF QueuesApart
    <2>1. \A k \in Box : b \in Range(y.queue[k]) =>
                            b \in Range(x.queue[k]) \/ (k = id /\ b = mp)
      BY <1>6, <1>7
    <2>2. ~(b \in Range(x.queue[i]) /\ b \in Range(x.queue[j]))
      BY DEF QueuesApart
    <2> QED
      BY <1>2, <2>1, <2>2
  <1>10. \A b : b \in Buffers(y) <=> b \in Buffers(x) \/ b = mp
    BY <1>6, <1>7, InBuffers
  <1> QED
    BY <1>8, <1>9, <1>10

\* Its payload, unless another message carries it, is one more payload.
LEMMA SendmsgPayloads ==
    ASSUME NEW x \in Boxes, NEW mp \in Block, NEW p \in Payload, NEW y \in Boxes,
           PayloadsApart(x), mp \notin Buffers(x), p \notin Payloads(x),
           Buffers(y) = Buffers(x) \cup {mp}, y.p = [x.p EXCEPT ![mp] = p]
    PROVE  PayloadsApart(y) /\ Payloads(y) = Payloads(x) \cup ({p} \cap Block)
  <1>1. y.p[mp] = p /\ \A b \in Buffers(x) : y.p[b] = x.p[b]
    <2>1. \A b \in Buffers(x) : b \in Block
      BY InBuffers, QueueElements
    <2> QED
      BY <2>1, BoxesFields
  <1>2. Payloads(y) = Payloads(x) \cup ({p} \cap Block)
    BY <1>1 DEF Payloads
  <1>3. \A b \in Buffers(x) : x.p[b] = p => p \notin Block
    BY DEF Payloads
  <1>4. PayloadsApart(y)
    BY <1>1, <1>3 DEF PayloadsApart
  <1> QED
    BY <1>2, <1>4

LEMMA RecvmsgFields ==
    ASSUME NEW x \in Boxes, NEW id \in Box, NEW mp, mp = x.head[id], mp \in Block,
           EndsMatch(x), NEW y, y = recvmsg(x, id)
    PROVE  y \in Boxes /\ Received(x, y, id, mp)
  <1>1. y \in Boxes
    BY RecvmsgUnlinks
  <1>2. y = [x EXCEPT !.head[id]     = x.next[mp],
                      !.tail[id]     = IF x.next[mp] = NULL THEN NULL ELSE @,
                      !.next[mp]     = NULL,
                      !.sender[mp]   = NULL,
                      !.p[mp]        = NULL,
                      !.receiver[id] = NULL,
                      !.queue[id]    = Rest(@)]
    BY DEF recvmsg
  <1>3. /\ y.receiver = [x.receiver EXCEPT ![id] = NULL]
        /\ y.head = [x.head EXCEPT ![id] = x.next[mp]]
        /\ y.tail = [x.tail EXCEPT ![id] = IF x.next[mp] = NULL THEN NULL ELSE @]
        /\ y.next = [x.next EXCEPT ![mp] = NULL]
        /\ y.sender = [x.sender EXCEPT ![mp] = NULL]
        /\ y.p = [x.p EXCEPT ![mp] = NULL]
        /\ y.queue = [x.queue EXCEPT ![id] = Rest(@)]
    BY <1>2 DEF Boxes
  <1> QED
    BY <1>1, <1>3 DEF Received

\* The same, box by box and block by block.
LEMMA ReceivedFields ==
    ASSUME NEW x \in Boxes, NEW id \in Box, NEW mp \in Block, NEW y, Received(x, y, id, mp)
    PROVE  /\ y.queue[id] = Rest(x.queue[id]) /\ y.receiver[id] = NULL
           /\ \A j \in Box \ {id} : /\ y.queue[j] = x.queue[j] /\ y.receiver[j] = x.receiver[j]
           /\ \A b \in Block : b # mp => y.sender[b] = x.sender[b] /\ y.p[b] = x.p[b]
  <1>1. /\ x.receiver \in [Box -> TcbOrNull] /\ x.queue \in [Box -> Seq(Block)]
        /\ x.sender \in [Block -> TcbOrNull] /\ x.p \in [Block -> Payload \cup {NULL}]
    BY BoxesFields
  <1>2. /\ y.receiver = [x.receiver EXCEPT ![id] = NULL]
        /\ y.queue = [x.queue EXCEPT ![id] = Rest(@)]
        /\ y.sender = [x.sender EXCEPT ![mp] = NULL]
        /\ y.p = [x.p EXCEPT ![mp] = NULL]
    BY DEF Received
  <1> QED
    BY <1>1, <1>2

\* The first buffer of a box leaves it.
LEMMA RecvmsgLinks ==
    ASSUME NEW x \in Boxes, NEW id \in Box, NEW mp, mp = x.head[id], mp # NULL,
           NEW y, y = recvmsg(x, id), BoxesLinked(x), QueuesApart(x)
    PROVE  /\ mp \in Block /\ mp \in Buffers(x)
           /\ x.queue[id] # <<>> /\ mp = x.queue[id][1]
           /\ BoxesLinked(y) /\ QueuesApart(y) /\ Buffers(y) = Buffers(x) \ {mp}
  <1> DEFINE q == x.queue[id]
  <1>1. \A j \in Box : /\ x.queue[j] \in Seq(Block) /\ Linked(x.head[j], x.next, x.queue[j])
                       /\ x.tail[j] = TailOf(x.queue[j]) /\ Distinct(x.queue[j])
                       /\ \A b \in Range(x.queue[j]) : b \in Block /\ b \in Buffers(x)
    BY QueueElements DEF BoxesLinked
  <1>2. q \in Seq(Block) /\ mp = HeadOf(q) /\ q # <<>> /\ mp \in Range(q) /\ mp = q[1]
    <2>1. q \in Seq(Block) /\ mp = HeadOf(q)
      BY <1>1 DEF Linked
    <2> QED
      BY <2>1, EndsOf, NullIsNoBlock
  <1>3. mp \in Block /\ mp \in Buffers(x)
    BY <1>1, <1>2
  <1>4. /\ y.head = [x.head EXCEPT ![id] = x.next[mp]]
        /\ y.tail = [x.tail EXCEPT ![id] = IF x.next[mp] = NULL THEN NULL ELSE @]
        /\ y.next = [x.next EXCEPT ![mp] = NULL]
        /\ y.queue = [x.queue EXCEPT ![id] = Rest(@)]
    <2>1. EndsMatch(x)
      BY LinkedBoxesEnd
    <2>2. Received(x, y, id, mp)
      BY <1>3, <2>1, RecvmsgFields
    <2> QED
      BY <2>2 DEF Received
  <1>5. \A b \in Block : b # mp => y.next[b] = x.next[b]
    BY <1>4, BoxesFields
  <1>6. /\ y.head[id] = x.next[mp] /\ y.queue[id] = Rest(q)
        /\ y.tail[id] = IF x.next[mp] = NULL THEN NULL ELSE TailOf(q)
        /\ \A j \in Box \ {id} : /\ y.queue[j] = x.queue[j] /\ y.tail[j] = x.tail[j]
                                 /\ y.head[j] = x.head[j]
    BY <1>1, <1>4, BoxesFields
  <1>7. Linked(mp, x.next, q) /\ Distinct(q) /\ Agree(x.next, y.next, Range(q) \ {mp})
    BY <1>1, <1>5 DEF Agree
  <1> HIDE DEF q
  <1>8. /\ Linked(x.next[mp], y.next, Rest(q)) /\ Distinct(Rest(q))
        /\ Range(Rest(q)) = Range(q) \ {mp}
        /\ TailOf(Rest(q)) = IF x.next[mp] = NULL THEN NULL ELSE TailOf(q)
    BY <1>2, <1>7, UnlinkFirst, NullIsNoBlock
  <1>9. /\ Linked(y.head[id], y.next, y.queue[id]) /\ Distinct(y.queue[id])
        /\ y.tail[id] = TailOf(y.queue[id])
        /\ Range(y.queue[id]) = Range(x.queue[id]) \ {mp}
    BY <1>6, <1>8 DEF q
  <1>10. ASSUME NEW j \in Box, j # id
         PROVE  /\ y.queue[j] = x.queue[j] /\ Linked(y.head[j], y.next, y.queue[j])
                /\ Distinct(y.queue[j]) /\ y.tail[j] = TailOf(y.queue[j])
                /\ mp \notin Range(x.queue[j])
    <2>1. y.queue[j] = x.queue[j] /\ y.head[j] = x.head[j] /\ y.tail[j] = x.tail[j]
      BY <1>6, <1>10
    <2>2. mp \notin Range(x.queue[j])
      BY <1>2, <1>10 DEF QueuesApart, q
    <2>3. Agree(x.next, y.next, Range(x.queue[j]))
      BY <1>1, <1>5, <2>2 DEF Agree
    <2>4. Linked(x.head[j], y.next, x.queue[j])
      BY <1>1, <2>3, LinkedElsewhere
    <2> QED
      BY <1>1, <2>1, <2>2, <2>4
  <1>11. BoxesLinked(y)
    BY <1>9, <1>10 DEF BoxesLinked
  <1>12. QueuesApart(y)
    BY <1>9, <1>10 DEF QueuesApart
  <1>13. \A b : b \in Buffers(y) <=> b \in Buffers(x) /\ b # mp
    BY <1>9, <1>10, InBuffers
  <1> QED
    BY <1>2, <1>3, <1>11, <1>12, <1>13 DEF q

LEMMA RecvmsgPayloads ==
    ASSUME NEW x \in Boxes, NEW mp \in Buffers(x), NEW y \in Boxes, PayloadsApart(x),
           Buffers(y) = Buffers(x) \ {mp}, \A b \in Block : b # mp => y.p[b] = x.p[b]
    PROVE  /\ PayloadsApart(y) /\ Payloads(y) = Payloads(x) \ {x.p[mp]}
           /\ {x.p[mp]} \cap Block \subseteq Payloads(x)
  <1>1. \A b \in Buffers(x) \ {mp} : y.p[b] = x.p[b]
    <2>1. \A b \in Buffers(x) : b \in Block
      BY InBuffers, QueueElements
    <2> QED
      BY <2>1, BoxesFields
  <1>2. PayloadsApart(y)
    BY <1>1 DEF PayloadsApart
  <1>3. \A b \in Buffers(x) \ {mp} : x.p[b] \in Block => x.p[b] # x.p[mp]
    BY DEF PayloadsApart
  <1>4. Payloads(y) = Payloads(x) \ {x.p[mp]}
    BY <1>1, <1>3 DEF Payloads
  <1> QED
    BY <1>2, <1>4 DEF Payloads

-------------------------------------------------------------------------------
(***************************************************************************)
(* The calls, as moves of one block from one kind of owner to another.     *)
(***************************************************************************)
HeapTypes(m, x, h, l) ==
    m \in Mem /\ x \in Boxes /\ h \in [TcbOrNull -> SUBSET Block] /\ l \subseteq Block

LEMMA InClientBlocks ==
    ASSUME NEW h, NEW b
    PROVE  b \in ClientBlocks(h) <=> \E t \in TcbOrNull : b \in h[t]
  BY DEF ClientBlocks

\* g is h with the blocks S given to t, or taken from it.
Given(h, g, t, S) ==
    \A u \in TcbOrNull : g[u] = IF u = t THEN h[t] \cup S ELSE h[u]
Taken(h, g, t, S) ==
    \A u \in TcbOrNull : g[u] = IF u = t THEN h[t] \ S ELSE h[u]

\* A client is given blocks that no client has.
LEMMA ClientGains ==
    ASSUME NEW h \in [TcbOrNull -> SUBSET Block], ClientsApart(h), NEW t \in TcbOrNull,
           NEW S, S \subseteq Block, S \cap ClientBlocks(h) = {},
           NEW g, Given(h, g, t, S)
    PROVE  ClientsApart(g) /\ ClientBlocks(g) = ClientBlocks(h) \cup S
  <1>1. \A u \in TcbOrNull : g[u] = IF u = t THEN h[t] \cup S ELSE h[u]
    BY DEF Given
  <1>2. \A u \in TcbOrNull : h[u] \cap S = {}
    BY InClientBlocks
  <1>3. ClientsApart(g)
    BY <1>1, <1>2 DEF ClientsApart
  <1>4. \A b : b \in ClientBlocks(g) <=> b \in ClientBlocks(h) \/ b \in S
    BY <1>1, InClientBlocks
  <1> QED
    BY <1>3, <1>4

\* A client gives up blocks.
LEMMA ClientLoses ==
    ASSUME NEW h \in [TcbOrNull -> SUBSET Block], ClientsApart(h), NEW t \in TcbOrNull,
           NEW S, S \cap ClientBlocks(h) \subseteq h[t],
           NEW g, Taken(h, g, t, S)
    PROVE  ClientsApart(g) /\ ClientBlocks(g) = ClientBlocks(h) \ S
  <1>1. \A u \in TcbOrNull : g[u] = IF u = t THEN h[t] \ S ELSE h[u]
    BY DEF Taken
  <1>2. \A u \in TcbOrNull : u # t => h[u] \cap S = {}
    BY InClientBlocks DEF ClientsApart
  <1>3. ClientsApart(g)
    BY <1>1 DEF ClientsApart
  <1>4. \A b : b \in ClientBlocks(g) <=> b \in ClientBlocks(h) /\ b \notin S
    BY <1>1, <1>2, InClientBlocks
  <1> QED
    BY <1>3, <1>4

\* kzmem_alloc for a client.
LEMMA AllocAccounted ==
    ASSUME NEW m, NEW x, NEW h, NEW l, HeapTypes(m, x, h, l), Accounted(m, x, h, l),
           NEW size, CanAlloc(m, size), NEW t \in TcbOrNull, NEW a, NEW g,
           a = kzmem_alloc(m, size), g = [h EXCEPT ![t] = @ \cup {AllocBlock(m, size)}]
    PROVE  Accounted(a, x, g, l)
  <1> DEFINE mp == AllocBlock(m, size)
  <1>1. /\ mp \in Block /\ mp \in FreeBlocks(m)
        /\ FreeListsLinked(a) /\ FreeBlocks(a) = FreeBlocks(m) \ {mp}
    BY AllocUnlinks DEF Accounted, HeapTypes
  <1> HIDE DEF mp
  <1>2. EveryBlockOnce(FreeBlocks(m), Buffers(x), Payloads(x), ClientBlocks(h), l)
    BY DEF Accounted
  <1>3. mp \notin ClientBlocks(h)
    BY <1>1, <1>2 DEF EveryBlockOnce
  <1>4. ClientsApart(g) /\ ClientBlocks(g) = ClientBlocks(h) \cup {mp}
    <2>1. Given(h, g, t, {mp})
      BY DEF mp, HeapTypes, Given
    <2>2. {mp} \subseteq Block /\ {mp} \cap ClientBlocks(h) = {}
      BY <1>1, <1>3
    <2>3. h \in [TcbOrNull -> SUBSET Block] /\ ClientsApart(h)
      BY DEF HeapTypes, Accounted
    <2> QED
      BY <2>1, <2>2, <2>3, ClientGains
  <1>5. EveryBlockOnce(FreeBlocks(a), Buffers(x), Payloads(x), ClientBlocks(g), l)
    BY <1>1, <1>2, <1>4, ZenonT(30) DEF EveryBlockOnce
  <1> QED
    BY <1>1, <1>4, <1>5 DEF Accounted

\* kzmem_free of a block the client owns.
LEMMA FreeAccounted ==
    ASSUME NEW m, NEW x, NEW h, NEW l, HeapTypes(m, x, h, l), Accounted(m, x, h, l),
           NEW t \in TcbOrNull, NEW p \in h[t], NEW a, NEW g,
           a = kzmem_free(m, p), g = [h EXCEPT ![t] = @ \ {p}]
    PROVE  Accounted(a, x, g, l)
  <1>1. EveryBlockOnce(FreeBlocks(m), Buffers(x), Payloads(x), ClientBlocks(h), l)
    BY DEF Accounted
  <1>2. p \in Block /\ p \in ClientBlocks(h) /\ p \notin FreeBlocks(m)
    BY <1>1, InClientBlocks DEF HeapTypes, EveryBlockOnce
  <1>3. FreeListsLinked(a) /\ FreeBlocks(a) = FreeBlocks(m) \cup {p}
    BY <1>2, FreeLinks DEF Accounted, HeapTypes
  <1>4. ClientsApart(g) /\ ClientBlocks(g) = ClientBlocks(h) \ {p}
    <2>1. Taken(h, g, t, {p})
      BY DEF HeapTypes, Taken
    <2>2. {p} \cap ClientBlocks(h) \subseteq h[t]
      OBVIOUS
    <2>3. h \in [TcbOrNull -> SUBSET Block] /\ ClientsApart(h)
      BY DEF HeapTypes, Accounted
    <2> QED
      BY <2>1, <2>2, <2>3, ClientLoses
  <1>5. EveryBlockOnce(FreeBlocks(a), Buffers(x), Payloads(x), ClientBlocks(g), l)
    BY <1>1, <1>2, <1>3, <1>4, ZenonT(30) DEF EveryBlockOnce
  <1> QED
    BY <1>3, <1>4, <1>5 DEF Accounted

\* The end of a thread: what it owned is lost.
LEMMA BuryAccounted ==
    ASSUME NEW m, NEW x, NEW h, NEW l, HeapTypes(m, x, h, l), Accounted(m, x, h, l),
           NEW t \in TcbOrNull, NEW g, NEW k,
           g = [h EXCEPT ![t] = {}], k = l \cup h[t]
    PROVE  Accounted(m, x, g, k)
  <1>1. EveryBlockOnce(FreeBlocks(m), Buffers(x), Payloads(x), ClientBlocks(h), l)
    BY DEF Accounted
  <1>2. h[t] \subseteq ClientBlocks(h)
    BY InClientBlocks
  <1>3. ClientsApart(g) /\ ClientBlocks(g) = ClientBlocks(h) \ h[t]
    <2>1. Taken(h, g, t, h[t])
      BY DEF HeapTypes, Taken
    <2>2. h[t] \cap ClientBlocks(h) \subseteq h[t]
      OBVIOUS
    <2>3. h \in [TcbOrNull -> SUBSET Block] /\ ClientsApart(h)
      BY DEF HeapTypes, Accounted
    <2> QED
      BY <2>1, <2>2, <2>3, ClientLoses
  <1>4. EveryBlockOnce(FreeBlocks(m), Buffers(x), Payloads(x), ClientBlocks(g), k)
    BY <1>1, <1>2, <1>3 DEF EveryBlockOnce
  <1> QED
    BY <1>3, <1>4 DEF Accounted

\* sendmsg, with the buffer kzmem_alloc yields: the buffer comes from the heap
\* and the payload, if it is a block, from the sender.
LEMMA SendAccounted ==
    ASSUME NEW m, NEW x, NEW h, NEW l, HeapTypes(m, x, h, l), Accounted(m, x, h, l),
           CanAlloc(m, MSGBUF), NEW mp, mp = AllocBlock(m, MSGBUF),
           NEW t \in TcbOrNull, NEW thp \in TcbOrNull, NEW id \in Box,
           NEW p \in Payload, p \in h[t] \cup {STATIC}, NEW a, NEW y, NEW g,
           a = kzmem_alloc(m, MSGBUF), y = sendmsg(x, id, mp, thp, p), g = Take(h, t, p)
    PROVE  /\ HeapTypes(a, y, g, l) /\ Accounted(a, y, g, l)
           /\ mp \in Block /\ mp \notin Buffers(x) /\ Sent(x, y, id, mp, thp, p)
  <1>1. m \in Mem /\ x \in Boxes /\ h \in [TcbOrNull -> SUBSET Block] /\ l \subseteq Block
    BY DEF HeapTypes
  <1>2. /\ FreeListsLinked(m) /\ BoxesLinked(x)
        /\ QueuesApart(x) /\ PayloadsApart(x) /\ ClientsApart(h)
        /\ EveryBlockOnce(FreeBlocks(m), Buffers(x), Payloads(x), ClientBlocks(h), l)
    BY DEF Accounted
  <1>3. /\ mp \in Block /\ mp \in FreeBlocks(m) /\ a \in Mem
        /\ FreeListsLinked(a) /\ FreeBlocks(a) = FreeBlocks(m) \ {mp}
    BY <1>1, <1>2, AllocUnlinks
  <1>4. mp \notin Buffers(x) /\ mp \notin ClientBlocks(h)
    BY <1>2, <1>3 DEF EveryBlockOnce
  <1>5. EndsMatch(x)
    BY <1>1, <1>2, LinkedBoxesEnd
  <1>6. y \in Boxes /\ Sent(x, y, id, mp, thp, p)
    BY <1>1, <1>3, <1>5, SendmsgFields
  <1>7. BoxesLinked(y) /\ QueuesApart(y) /\ Buffers(y) = Buffers(x) \cup {mp}
    BY <1>1, <1>2, <1>3, <1>4, SendmsgLinks
  <1>8. /\ p \in Block => p \in h[t] /\ p \in ClientBlocks(h)
        /\ p \notin Payloads(x)
    <2>1. p \in Block => p \in h[t]
      BY MsgboxAssumption DEF BlockOrNull
    <2> QED
      BY <1>2, <2>1, InClientBlocks DEF EveryBlockOnce, Payloads
  <1>9. PayloadsApart(y) /\ Payloads(y) = Payloads(x) \cup ({p} \cap Block)
    <2>1. y.p = [x.p EXCEPT ![mp] = p]
      BY <1>6 DEF Sent
    <2> QED
      BY <1>1, <1>2, <1>3, <1>4, <1>6, <1>7, <1>8, <2>1, SendmsgPayloads
  <1>10. ClientsApart(g) /\ ClientBlocks(g) = ClientBlocks(h) \ {p}
    <2>1. ClientBlocks(h) \subseteq Block
      BY <1>1, InClientBlocks
    <2>2. {p} \cap ClientBlocks(h) \subseteq h[t]
      BY <1>8, <2>1
    <2>3. Taken(h, g, t, {p})
      BY <1>1 DEF Take, Taken
    <2> QED
      BY <1>1, <1>2, <2>2, <2>3, ClientLoses
  <1>11. EveryBlockOnce(FreeBlocks(a), Buffers(y), Payloads(y), ClientBlocks(g), l)
    BY <1>2, <1>3, <1>7, <1>8, <1>9, <1>10 DEF EveryBlockOnce
  <1>12. g \in [TcbOrNull -> SUBSET Block]
    BY <1>1, HeldTypes
  <1>13. Accounted(a, y, g, l)
    BY <1>3, <1>7, <1>9, <1>10, <1>11 DEF Accounted
  <1>14. HeapTypes(a, y, g, l)
    BY <1>1, <1>3, <1>6, <1>12 DEF HeapTypes
  <1> QED
    BY <1>3, <1>4, <1>6, <1>13, <1>14

\* kz_recv frees the buffer mp and passes its payload p, which may be no block, to a client.
LEMMA OnceReceived ==
    ASSUME NEW F, NEW B, NEW P, NEW C, NEW L, EveryBlockOnce(F, B, P, C, L),
           NEW mp \in B, NEW p, {p} \cap Block \subseteq P, P \subseteq Block
    PROVE  EveryBlockOnce(F \cup {mp}, B \ {mp}, P \ {p}, C \cup ({p} \cap Block), L)
  <1>1. /\ F \cup B \cup P \cup C \cup L = Block
        /\ F \cap (B \cup P \cup C \cup L) = {}
        /\ B \cap (P \cup C \cup L) = {}
        /\ P \cap (C \cup L) = {} /\ C \cap L = {}
    BY DEF EveryBlockOnce
  <1>2. (F \cup {mp}) \cup (B \ {mp}) = F \cup B
    OBVIOUS
  <1>3. (P \ {p}) \cup (C \cup ({p} \cap Block)) = P \cup C
    OBVIOUS
  <1>4. (F \cup {mp}) \cup (B \ {mp}) \cup (P \ {p}) \cup (C \cup ({p} \cap Block)) \cup L = Block
    BY <1>1, <1>2, <1>3
  <1>5. /\ mp \notin P \cup C \cup L
        /\ (F \cup {mp}) \cap ((B \ {mp}) \cup P \cup C \cup L) = {}
    BY <1>1
  <1>6. (P \ {p}) \cap ((C \cup ({p} \cap Block)) \cup L) = {}
        /\ (C \cup ({p} \cap Block)) \cap L = {}
    BY <1>1
  <1>7. /\ (F \cup {mp}) \cap ((B \ {mp}) \cup (P \ {p}) \cup (C \cup ({p} \cap Block)) \cup L) = {}
        /\ (B \ {mp}) \cap ((P \ {p}) \cup (C \cup ({p} \cap Block)) \cup L) = {}
    BY <1>1, <1>3, <1>5
  <1> QED
    BY <1>4, <1>6, <1>7 DEF EveryBlockOnce

\* recvmsg: the buffer goes back to the heap, the payload to the receiver.
LEMMA RecvAccounted ==
    ASSUME NEW m, NEW x, NEW h, NEW l, HeapTypes(m, x, h, l), Accounted(m, x, h, l),
           NEW id \in Box, NEW mp, mp = x.head[id], mp # NULL,
           NEW t \in TcbOrNull, NEW a, NEW y, NEW g,
           a = kzmem_free(m, mp), y = recvmsg(x, id), g = Give(h, t, x.p[mp])
    PROVE  /\ HeapTypes(a, y, g, l) /\ Accounted(a, y, g, l)
           /\ mp \in Block /\ mp \in Buffers(x) /\ mp \notin Buffers(y)
           /\ Received(x, y, id, mp)
           /\ x.queue[id] # <<>> /\ mp = x.queue[id][1]
           /\ {x.p[mp]} \cap Block \cap ClientBlocks(h) = {}
  <1> DEFINE p == x.p[mp]
  <1>1. m \in Mem /\ x \in Boxes /\ h \in [TcbOrNull -> SUBSET Block] /\ l \subseteq Block
    BY DEF HeapTypes
  <1>2. /\ FreeListsLinked(m) /\ BoxesLinked(x)
        /\ QueuesApart(x) /\ PayloadsApart(x) /\ ClientsApart(h)
        /\ EveryBlockOnce(FreeBlocks(m), Buffers(x), Payloads(x), ClientBlocks(h), l)
    BY DEF Accounted
  <1>3. /\ mp \in Block /\ mp \in Buffers(x)
        /\ x.queue[id] # <<>> /\ mp = x.queue[id][1]
        /\ BoxesLinked(y) /\ QueuesApart(y) /\ Buffers(y) = Buffers(x) \ {mp}
    BY <1>1, <1>2, RecvmsgLinks
  <1>4. EndsMatch(x)
    BY <1>1, <1>2, LinkedBoxesEnd
  <1>5. y \in Boxes /\ Received(x, y, id, mp)
    BY <1>1, <1>3, <1>4, RecvmsgFields
  <1>6. mp \notin FreeBlocks(m)
    BY <1>2, <1>3 DEF EveryBlockOnce
  <1>7. a \in Mem /\ FreeListsLinked(a) /\ FreeBlocks(a) = FreeBlocks(m) \cup {mp}
    BY <1>1, <1>2, <1>3, <1>6, FreeLinks
  <1>8. /\ PayloadsApart(y) /\ Payloads(y) = Payloads(x) \ {p}
        /\ {p} \cap Block \subseteq Payloads(x)
    <2>1. \A b \in Block : b # mp => y.p[b] = x.p[b]
      BY <1>1, <1>5, BoxesFields DEF Received
    <2> QED
      BY <1>1, <1>2, <1>3, <1>5, <2>1, RecvmsgPayloads
  <1>9. Payloads(x) \subseteq Block
    BY DEF Payloads
  <1> HIDE DEF p
  <1>10. {p} \cap Block \cap ClientBlocks(h) = {}
    BY <1>2, <1>8 DEF EveryBlockOnce
  <1>11. ClientsApart(g) /\ ClientBlocks(g) = ClientBlocks(h) \cup ({p} \cap Block)
    <2> DEFINE S == {p} \cap Block
    <2>1. Given(h, g, t, S)
      BY <1>1 DEF Give, Given, p
    <2>2. S \subseteq Block /\ S \cap ClientBlocks(h) = {}
      BY <1>10
    <2> HIDE DEF S
    <2>3. ClientsApart(g) /\ ClientBlocks(g) = ClientBlocks(h) \cup S
      BY <1>1, <1>2, <2>1, <2>2, ClientGains
    <2> QED
      BY <2>3 DEF S
  <1>12. EveryBlockOnce(FreeBlocks(a), Buffers(y), Payloads(y), ClientBlocks(g), l)
    BY <1>2, <1>3, <1>7, <1>8, <1>9, <1>11, OnceReceived
  <1>13. g \in [TcbOrNull -> SUBSET Block]
    BY <1>1, HeldTypes
  <1>14. Accounted(a, y, g, l)
    BY <1>3, <1>7, <1>8, <1>11, <1>12 DEF Accounted
  <1>15. HeapTypes(a, y, g, l)
    BY <1>1, <1>5, <1>7, <1>13 DEF HeapTypes
  <1> QED
    BY <1>3, <1>5, <1>10, <1>14, <1>15 DEF p

\* A receiver that registers changes no queue.
Awaited(x, y, id, t) ==
    /\ y.head = x.head /\ y.tail = x.tail /\ y.next = x.next
    /\ y.queue = x.queue /\ y.sender = x.sender /\ y.p = x.p
    /\ y \in Boxes
    /\ \A j \in Box : y.receiver[j] = IF j = id THEN t ELSE x.receiver[j]

LEMMA WaitAccounted ==
    ASSUME NEW m, NEW x, NEW h, NEW l, HeapTypes(m, x, h, l), Accounted(m, x, h, l),
           NEW id, NEW t, NEW y, Awaited(x, y, id, t)
    PROVE  HeapTypes(m, y, h, l) /\ Accounted(m, y, h, l)
  <1>2. /\ y.head = x.head /\ y.tail = x.tail /\ y.next = x.next
        /\ y.queue = x.queue /\ y.sender = x.sender /\ y.p = x.p
        /\ y \in Boxes
    BY DEF Awaited
  <1>3. /\ BoxesLinked(y) <=> BoxesLinked(x)
        /\ QueuesApart(y) <=> QueuesApart(x)
        /\ Buffers(y) = Buffers(x)
    BY <1>2 DEF BoxesLinked, QueuesApart, Buffers
  <1>4. Payloads(y) = Payloads(x) /\ (PayloadsApart(y) <=> PayloadsApart(x))
    BY <1>2, <1>3 DEF Payloads, PayloadsApart
  <1> QED
    BY <1>2, <1>3, <1>4 DEF Accounted, HeapTypes

-------------------------------------------------------------------------------
(***************************************************************************)
(* Every step keeps HeapInv, delivers in order and hands over.             *)
(***************************************************************************)
Safe == HeapInv' /\ FifoStep /\ HandOverStep

(***************************************************************************)
(* What a send or a receive does to the boxes and the owners, by the way   *)
(* it goes: a message joins the queue, or passes to the waiting receiver;  *)
(* the caller waits, or takes the first message.                           *)
(***************************************************************************)
OtherBoxesKept(id) ==
    \A j \in Box \ {id} : ipc'.queue[j] = ipc.queue[j] /\ ipc'.receiver[j] = ipc.receiver[j]

Enqueues(id, p) ==
    /\ OtherBoxesKept(id)
    /\ ipc.receiver[id] = NULL /\ ipc'.receiver[id] = NULL
    /\ \E mp \in Block : ipc'.queue[id] = Append(ipc.queue[id], mp) /\ ipc'.p[mp] = p
    /\ \A t \in TcbOrNull : held'[t] = IF t = Caller THEN held[t] \ {p} ELSE held[t]

PassesOn(id, p) ==
    /\ OtherBoxesKept(id)
    /\ ipc.receiver[id] \in Tcb \ {Caller} /\ ipc'.receiver[id] = NULL
    /\ ipc.queue[id] = <<>> /\ ipc'.queue[id] = <<>>
    /\ \A t \in TcbOrNull : held'[t] = IF t = Caller THEN held[t] \ {p}
                                        ELSE IF t = ipc.receiver[id]
                                        THEN held[t] \cup ({p} \cap Block)
                                        ELSE held[t]

Awaits(id) ==
    /\ OtherBoxesKept(id)
    /\ ipc.receiver[id] = NULL /\ ipc'.receiver[id] = Caller
    /\ ipc.queue[id] = <<>> /\ ipc'.queue[id] = <<>>
    /\ held' = held

Collects(id) ==
    /\ OtherBoxesKept(id)
    /\ ipc.receiver[id] = NULL /\ ipc'.receiver[id] = NULL
    /\ ipc.queue[id] # <<>> /\ ipc'.queue[id] = Tail(ipc.queue[id])
    /\ {ipc.p[ipc.queue[id][1]]} \cap ClientBlocks(held) \cap Block = {}
    /\ \A t \in TcbOrNull :
          held'[t] = IF t = Caller THEN held[t] \cup ({ipc.p[ipc.queue[id][1]]} \cap Block)
                     ELSE held[t]

LEMMA CurrentTypes ==
    ASSUME KernelInv
    PROVE  HeapTypes(mem, ipc, held, lost)
  BY DEF KernelInv, TypeOK, HeapTypes

\* What leaves the boxes alone delivers nothing and displaces nobody.
LEMMA QuietBoxes ==
    ASSUME ipc' = ipc, HeapInv'
    PROVE  Safe
  BY DEF Safe, FifoStep, HandOverStep

LEMMA StillStep ==
    ASSUME HeapInv, UNCHANGED <<ipc, mem, held, lost>>
    PROVE  Safe
  BY QuietBoxes DEF HeapInv

LEMMA KmallocSafe ==
    ASSUME KernelInv, HeapInv, NEW size, KzKmalloc(size)
    PROVE  Safe
  <1>1. CASE Crash
    BY <1>1, StillStep DEF Crash
  <1>2. CASE ~Crash
    <2>1. /\ CanAlloc(mem, size) /\ mem' = kzmem_alloc(mem, size)
          /\ held' = [held EXCEPT ![Caller] = @ \cup {AllocBlock(mem, size)}]
          /\ UNCHANGED <<ipc, lost>>
      BY <1>2 DEF KzKmalloc
    <2>2. Caller \in TcbOrNull
      BY InvokeIsActive, CallerIsReady DEF KzKmalloc
    <2>3. Accounted(mem', ipc, held', lost)
      BY <2>1, <2>2, CurrentTypes, AllocAccounted DEF HeapInv
    <2> QED
      BY <2>1, <2>3, QuietBoxes DEF HeapInv
  <1> QED
    BY <1>1, <1>2

LEMMA KmfreeSafe ==
    ASSUME KernelInv, HeapInv, NEW p \in Block, KzKmfree(p)
    PROVE  Safe
  <1>1. /\ p \in held[Caller] /\ mem' = kzmem_free(mem, p)
        /\ held' = [held EXCEPT ![Caller] = @ \ {p}] /\ UNCHANGED <<ipc, lost>>
    BY DEF KzKmfree
  <1>2. Caller \in TcbOrNull
    BY InvokeIsActive, CallerIsReady DEF KzKmfree
  <1>3. Accounted(mem', ipc, held', lost)
    BY <1>1, <1>2, CurrentTypes, FreeAccounted DEF HeapInv
  <1> QED
    BY <1>1, <1>3, QuietBoxes DEF HeapInv

\* kz_exit, or a fault.
LEMMA EndSafe ==
    ASSUME KernelInv, HeapInv, KzExit \/ SoftErr
    PROVE  Safe
  <1>1. /\ mode = "user" /\ Active
        /\ Bury(Caller) /\ UNCHANGED <<ipc, mem>>
    BY DEF KzExit, SoftErr, Invoke, ServiceCall, Active, Caller
  <1>2. Caller \in TcbOrNull
    BY <1>1, CallerIsReady
  <1>3. held' = [held EXCEPT ![Caller] = {}] /\ lost' = lost \cup held[Caller]
    BY <1>1 DEF Bury
  <1>4. Accounted(mem, ipc, held', lost')
    BY <1>2, <1>3, CurrentTypes, BuryAccounted DEF HeapInv
  <1> QED
    BY <1>1, <1>4, QuietBoxes DEF HeapInv

\* A message is queued.
LEMMA SendQueueSafe ==
    ASSUME KernelInv, HeapInv, NEW id \in Box, NEW p \in Payload, Active,
           p \in held[Caller] \cup {STATIC}, CanAlloc(mem, MSGBUF),
           ipc' = sendmsg(ipc, id, AllocBlock(mem, MSGBUF), putcurrent(Entry).current, p),
           mem' = kzmem_alloc(mem, MSGBUF),
           held' = Take(held, Caller, p),
           lost' = lost
    PROVE  Safe /\ (ipc.receiver[id] = NULL => Enqueues(id, p))
  <1> DEFINE mp == AllocBlock(mem, MSGBUF)
  <1>1. putcurrent(Entry).current = Caller /\ Caller \in TcbOrNull
    BY EntryPutBack, CallerIsReady
  <1>2. ipc' = sendmsg(ipc, id, mp, Caller, p)
    BY <1>1
  <1> HIDE DEF mp
  <1>3. /\ Accounted(mem', ipc', held', lost)
        /\ mp \in Block /\ mp \notin Buffers(ipc) /\ Sent(ipc, ipc', id, mp, Caller, p)
    BY <1>1, <1>2, CurrentTypes, SendAccounted DEF HeapInv, mp
  <1>4. /\ ipc'.receiver = ipc.receiver
        /\ ipc'.queue[id] = Append(ipc.queue[id], mp)
        /\ \A j \in Box \ {id} : ipc'.queue[j] = ipc.queue[j]
        /\ ipc'.sender[mp] = Caller /\ ipc'.p[mp] = p
        /\ \A b \in Block : b # mp => ipc'.sender[b] = ipc.sender[b] /\ ipc'.p[b] = ipc.p[b]
    BY <1>3, CurrentTypes, BoxesFields DEF Sent, HeapTypes
  <1>5. \A j \in Box : \A b \in Range(ipc.queue[j]) : b \in Block /\ b # mp
    BY <1>3, CurrentTypes, QueueElements DEF HeapTypes
  <1>6. {p} \cap Block = held[Caller] \ held'[Caller]
    <2>1. held \in [TcbOrNull -> SUBSET Block]
      BY CurrentTypes DEF HeapTypes
    <2>2. held'[Caller] = held[Caller] \ {p} /\ held[Caller] \subseteq Block
      BY <1>1, <2>1 DEF Take
    <2>3. p = STATIC => p \notin Block
      BY MsgboxAssumption DEF BlockOrNull
    <2> QED
      BY <2>2, <2>3
  <1>7. Appended(id)
    BY <1>3, <1>4, <1>6 DEF Appended
  <1>8. FifoStep
    BY <1>4, <1>5, <1>7 DEF FifoStep
  <1>9. \A t \in TcbOrNull : held'[t] = IF t = Caller THEN held[t] \ {p} ELSE held[t]
    BY <1>1, CurrentTypes DEF HeapTypes, Take
  <1>10. ipc.receiver[id] = NULL => Enqueues(id, p)
    BY <1>3, <1>4, <1>9 DEF Enqueues, OtherBoxesKept
  <1> QED
    BY <1>3, <1>4, <1>8, <1>10 DEF Safe, HeapInv, HandOverStep

\* A message passes through the empty box of a waiting receiver.
LEMMA SendHandOverSafe ==
    ASSUME KernelInv, HeapInv, NEW id \in Box, NEW p \in Payload, Active,
           p \in held[Caller] \cup {STATIC}, CanAlloc(mem, MSGBUF),
           NEW r, r = ipc.receiver[id], r # NULL, NEW sent,
           sent = sendmsg(ipc, id, AllocBlock(mem, MSGBUF), putcurrent(Entry).current, p),
           ipc' = recvmsg(sent, id),
           mem' = kzmem_free(kzmem_alloc(mem, MSGBUF), sent.head[id]),
           held' = Give(Take(held, Caller, p), r, sent.p[sent.head[id]]),
           Finish(putcurrent([putcurrent(Entry) EXCEPT !.current = r]), NULL),
           UNCHANGED <<live, lost>>
    PROVE  Safe /\ PassesOn(id, p)
  <1> DEFINE mp == AllocBlock(mem, MSGBUF)
             used == kzmem_alloc(mem, MSGBUF)
             taken == Take(held, Caller, p)
  <1>1. putcurrent(Entry).current = Caller /\ Caller \in TcbOrNull
    BY EntryPutBack, CallerIsReady
  <1>2. /\ r \in live /\ r \in Tcb /\ r \in TcbOrNull /\ r # Caller /\ ~sched.ready[r]
        /\ ipc.head[id] = NULL
    BY ReceiversAreBlocked DEF TcbOrNull
  <1>3. /\ ipc \in Boxes /\ held \in [TcbOrNull -> SUBSET Block]
        /\ BoxesLinked(ipc) /\ EndsMatch(ipc) /\ ClientsApart(held)
    BY CurrentTypes, LinkedBoxesEnd DEF HeapTypes, HeapInv, Accounted
  <1>4. sent = sendmsg(ipc, id, mp, Caller, p)
    BY <1>1
  <1> HIDE DEF mp, used
  <1>5. /\ HeapTypes(used, sent, taken, lost) /\ Accounted(used, sent, taken, lost)
        /\ mp \in Block /\ mp \notin Buffers(ipc) /\ Sent(ipc, sent, id, mp, Caller, p)
    BY <1>1, <1>4, CurrentTypes, SendAccounted DEF HeapInv, mp, used
  <1>6. /\ ipc.tail[id] = NULL /\ sent.head[id] = mp
        /\ sent.receiver = ipc.receiver
        /\ sent.queue[id] = Append(ipc.queue[id], mp)
        /\ \A j \in Box \ {id} : sent.queue[j] = ipc.queue[j]
        /\ sent.p[mp] = p
        /\ \A b \in Block : b # mp => sent.sender[b] = ipc.sender[b] /\ sent.p[b] = ipc.p[b]
    BY <1>2, <1>3, <1>5, BoxesFields DEF Sent, EndsMatch
  <1>7. mp # NULL /\ mem' = kzmem_free(used, mp) /\ held' = Give(taken, r, sent.p[mp])
    BY <1>5, <1>6, NullIsNoBlock DEF used
  <1>8. /\ Accounted(mem', ipc', held', lost) /\ Received(sent, ipc', id, mp)
    BY <1>2, <1>5, <1>6, <1>7, RecvAccounted
  <1>9. /\ ipc'.queue[id] = Rest(sent.queue[id])
        /\ \A j \in Box \ {id} : /\ ipc'.queue[j] = sent.queue[j]
                                 /\ ipc'.receiver[j] = sent.receiver[j]
        /\ \A b \in Block : b # mp => ipc'.sender[b] = sent.sender[b] /\ ipc'.p[b] = sent.p[b]
    <2>1. sent \in Boxes
      BY <1>5 DEF HeapTypes
    <2>2. mp \in Block /\ Received(sent, ipc', id, mp)
      BY <1>5, <1>8
    <2> QED
      BY <2>1, <2>2, ReceivedFields
  <1>10. ipc.queue[id] = <<>>
    <2>1. ipc.queue[id] \in Seq(Block) /\ HeadOf(ipc.queue[id]) = NULL
      BY <1>2, <1>3, BoxesFields DEF BoxesLinked, Linked
    <2> QED
      BY <2>1, EndsOf, NullIsNoBlock
  <1>11. Rest(Append(<<>>, mp)) = <<>>
    <2>1. Append(<<>>, mp) = <<mp>> /\ <<mp>> # <<>> /\ Tail(<<mp>>) = <<>>
      OBVIOUS
    <2> QED
      BY <2>1 DEF Rest
  <1>12. \A j \in Box : ipc'.queue[j] = ipc.queue[j]
    BY <1>6, <1>9, <1>10, <1>11
  <1>13. \A j \in Box : \A b \in Range(ipc.queue[j]) : b \in Block /\ b # mp
    BY <1>3, <1>5, QueueElements
  <1>14. FifoStep
    BY <1>6, <1>9, <1>12, <1>13 DEF FifoStep
  <1>15. sched'.ready[r]
    <2> DEFINE e == putcurrent(Entry)
               n == [e EXCEPT !.current = r]
               s == putcurrent(n)
    <2>1. Good(e, live)
      BY EntryPutBack
    <2> HIDE DEF e
    <2>2. Good(n, live) /\ n.current = r
      BY <1>2, <2>1, GoodRetarget
    <2> HIDE DEF n
    <2>3. live' \subseteq Tcb /\ live' = live
      BY DEF KernelInv, TypeOK
    <2>4. Good(s, live') /\ s.ready[r]
      BY <1>2, <2>2, <2>3, GoodPutcurrent
    <2>5. Finish(s, NULL)
      BY DEF s, n, e
    <2> HIDE DEF s
    <2>6. sched'.ready = s.ready
      BY <2>3, <2>4, <2>5, FinishElects
    <2> QED
      BY <2>4, <2>6
  <1>16. /\ held'[r] = held[r] \cup ({p} \cap Block)
         /\ held'[Caller] = held[Caller] \ {p}
    BY <1>1, <1>2, <1>3, <1>6, <1>7 DEF Give, Take
  <1>17. held'[r] \ held[r] = held[Caller] \ held'[Caller] /\ held[r] \subseteq held'[r]
    <2>1. p = STATIC => p \notin Block
      BY MsgboxAssumption DEF BlockOrNull
    <2>2. held[Caller] \cap held[r] = {} /\ held[Caller] \subseteq Block
      BY <1>1, <1>2, <1>3 DEF ClientsApart
    <2>3. CASE p = STATIC
      <3>1. p \notin held[Caller] /\ {p} \cap Block = {}
        BY <2>1, <2>2, <2>3
      <3>2. held'[r] = held[r] /\ held'[Caller] = held[Caller]
        BY <1>16, <3>1
      <3> QED
        BY <3>2
    <2>4. CASE p \in held[Caller]
      <3>1. p \notin held[r] /\ {p} \cap Block = {p}
        BY <2>2, <2>4
      <3>2. held'[r] = held[r] \cup {p} /\ held'[Caller] = held[Caller] \ {p}
        BY <1>16, <3>1
      <3>3. held'[r] \ held[r] = {p} /\ held[Caller] \ held'[Caller] = {p}
        BY <2>4, <3>1, <3>2, ZenonT(30)
      <3> QED
        BY <3>2, <3>3
    <2> QED
      BY <2>3, <2>4
  <1>18. HandOverStep
    <2>1. HandedOver(r)
      BY <1>15, <1>17 DEF HandedOver
    <2>2. \A j \in Box : j # id => ipc'.receiver[j] = ipc.receiver[j]
      BY <1>6, <1>9
    <2> QED
      BY <2>1, <2>2 DEF HandOverStep
  <1>19. \A t \in TcbOrNull : held'[t] = IF t = Caller THEN held[t] \ {p}
                                        ELSE IF t = r THEN held[t] \cup ({p} \cap Block)
                                        ELSE held[t]
    BY <1>1, <1>2, <1>3, <1>6, <1>7 DEF Give, Take
  <1>20. ipc'.receiver[id] = NULL
    <2>1. sent \in Boxes
      BY <1>5 DEF HeapTypes
    <2>2. mp \in Block /\ Received(sent, ipc', id, mp)
      BY <1>5, <1>8
    <2> QED
      BY <2>1, <2>2, ReceivedFields
  <1>21. PassesOn(id, p)
    BY <1>2, <1>6, <1>9, <1>10, <1>12, <1>19, <1>20, ZenonT(30) DEF PassesOn, OtherBoxesKept
  <1> QED
    BY <1>8, <1>14, <1>18, <1>21 DEF Safe, HeapInv

LEMMA SendSafe ==
    ASSUME KernelInv, HeapInv, NEW id \in Box, NEW p \in Payload, KzSend(id, p)
    PROVE  Safe /\ (Crash \/ Enqueues(id, p) \/ PassesOn(id, p))
  <1>1. Active /\ p \in held[Caller] \cup {STATIC}
    BY InvokeIsActive DEF KzSend
  <1>2. CASE Crash
    BY <1>2, StillStep DEF Crash
  <1>3. CASE ~Crash
    <2>1. CASE ipc.receiver[id] = NULL
      <3>1. /\ CanAlloc(mem, MSGBUF)
            /\ ipc' = sendmsg(ipc, id, AllocBlock(mem, MSGBUF), putcurrent(Entry).current, p)
            /\ mem' = kzmem_alloc(mem, MSGBUF)
            /\ held' = Take(held, Caller, p)
            /\ lost' = lost
        BY <1>3, <2>1 DEF KzSend
      <3> QED
        BY <1>1, <2>1, <3>1, SendQueueSafe
    <2>2. CASE ipc.receiver[id] # NULL
      BY <1>1, <1>3, <2>2, SendHandOverSafe DEF KzSend
    <2> QED
      BY <2>1, <2>2
  <1> QED
    BY <1>2, <1>3

\* The caller takes the first message of a box, or waits for it.
LEMMA RecvSafe ==
    ASSUME KernelInv, HeapInv, NEW id \in Box, KzRecv(id)
    PROVE  Safe /\ (Crash \/ Awaits(id) \/ Collects(id))
  <1> DEFINE waiting == [ipc EXCEPT !.receiver[id] = Caller]
             mp == ipc.head[id]
             p == ipc.p[mp]
  <1>1. Caller \in TcbOrNull /\ waiting = [ipc EXCEPT !.receiver[id] = Caller]
    BY InvokeIsActive, CallerIsReady DEF KzRecv
  <1>3. KzRecv(id) => \/ Crash
                      \/ /\ ipc.receiver[id] = NULL /\ mp = NULL /\ ipc' = waiting
                         /\ UNCHANGED <<mem, held, lost>>
                      \/ /\ ipc.receiver[id] = NULL /\ mp # NULL /\ ipc' = recvmsg(waiting, id)
                         /\ mem' = kzmem_free(mem, mp) /\ held' = Give(held, Caller, p)
                         /\ lost' = lost
    BY DEF KzRecv
  <1> HIDE DEF waiting
  <1>2. /\ HeapTypes(mem, waiting, held, lost) /\ Accounted(mem, waiting, held, lost)
        /\ waiting.head = ipc.head /\ waiting.queue = ipc.queue
        /\ waiting.sender = ipc.sender /\ waiting.p = ipc.p
        /\ \A j \in Box : waiting.receiver[j] = IF j = id THEN Caller ELSE ipc.receiver[j]
    <2>1. ipc \in Boxes
      BY CurrentTypes DEF HeapTypes
    <2>2. Awaited(ipc, waiting, id, Caller)
      BY <1>1, <2>1 DEF Awaited, Boxes
    <2>3. HeapTypes(mem, waiting, held, lost) /\ Accounted(mem, waiting, held, lost)
      BY <2>2, CurrentTypes, WaitAccounted DEF HeapInv
    <2> QED
      BY <2>2, <2>3 DEF Awaited
  <1>4. CASE Crash
    BY <1>4, StillStep DEF Crash
  <1>5. CASE /\ ipc.receiver[id] = NULL /\ mp = NULL /\ ipc' = waiting
             /\ UNCHANGED <<mem, held, lost>>
    <2>1. HeapInv' /\ FifoStep
      BY <1>2, <1>5 DEF HeapInv, FifoStep
    <2>2. HandOverStep
      BY <1>2, <1>5 DEF HandOverStep
    <2>3. ipc.queue[id] = <<>>
      <3>1. ipc \in Boxes /\ BoxesLinked(ipc)
        BY CurrentTypes DEF HeapTypes, HeapInv, Accounted
      <3>2. ipc.queue[id] \in Seq(Block) /\ HeadOf(ipc.queue[id]) = NULL
        BY <1>5, <3>1, BoxesFields DEF BoxesLinked, Linked
      <3> QED
        BY <3>2, EndsOf, NullIsNoBlock
    <2>4. Awaits(id)
      BY <1>2, <1>5, <2>3 DEF Awaits, OtherBoxesKept
    <2> QED
      BY <2>1, <2>2, <2>4 DEF Safe
  <1>6. CASE /\ ipc.receiver[id] = NULL /\ mp # NULL /\ ipc' = recvmsg(waiting, id)
             /\ mem' = kzmem_free(mem, mp) /\ held' = Give(held, Caller, p)
             /\ lost' = lost
    <2> HIDE DEF mp, p
    <2>1. mp = waiting.head[id] /\ p = waiting.p[mp]
      BY <1>2 DEF mp, p
    <2>2. /\ Accounted(mem', ipc', held', lost)
          /\ mp \in Block /\ mp \in Buffers(waiting) /\ mp \notin Buffers(ipc')
          /\ Received(waiting, ipc', id, mp)
          /\ waiting.queue[id] # <<>> /\ mp = waiting.queue[id][1]
          /\ {p} \cap Block \cap ClientBlocks(held) = {}
      <3>0. Caller \in TcbOrNull /\ mp = waiting.head[id]
        BY <1>1, <2>1
      <3>1. /\ HeapTypes(mem, waiting, held, lost) /\ Accounted(mem, waiting, held, lost)
            /\ mp # NULL /\ mem' = kzmem_free(mem, mp) /\ ipc' = recvmsg(waiting, id)
            /\ held' = Give(held, Caller, waiting.p[mp])
        BY <1>2, <1>6, <2>1
      <3>2. HeapTypes(mem', ipc', held', lost) /\ Accounted(mem', ipc', held', lost)
        BY <3>0, <3>1, RecvAccounted
      <3>3. /\ mp \in Block /\ mp \in Buffers(waiting) /\ mp \notin Buffers(ipc')
            /\ Received(waiting, ipc', id, mp)
            /\ waiting.queue[id] # <<>> /\ mp = waiting.queue[id][1]
            /\ {waiting.p[mp]} \cap Block \cap ClientBlocks(held) = {}
        BY <3>0, <3>1, RecvAccounted
      <3> QED
        BY <1>6, <2>1, <3>2, <3>3
    <2>3. /\ \A j \in Box : ipc'.receiver[j] = ipc.receiver[j]
          /\ ipc'.queue[id] = Tail(ipc.queue[id])
          /\ \A j \in Box \ {id} : ipc'.queue[j] = ipc.queue[j]
          /\ \A b \in Block : b # mp => ipc'.sender[b] = ipc.sender[b] /\ ipc'.p[b] = ipc.p[b]
      <3>1. waiting \in Boxes
        BY <1>2 DEF HeapTypes
      <3>2. Rest(ipc.queue[id]) = Tail(ipc.queue[id])
        BY <1>2, <2>2 DEF Rest
      <3>3. /\ ipc'.queue[id] = Rest(waiting.queue[id]) /\ ipc'.receiver[id] = NULL
            /\ \A j \in Box \ {id} : /\ ipc'.queue[j] = waiting.queue[j]
                                     /\ ipc'.receiver[j] = waiting.receiver[j]
            /\ \A b \in Block : b # mp => /\ ipc'.sender[b] = waiting.sender[b]
                                          /\ ipc'.p[b] = waiting.p[b]
        BY <2>2, <3>1, ReceivedFields
      <3>4. \A j \in Box : ipc'.receiver[j] = ipc.receiver[j]
        BY <1>2, <1>6, <3>3
      <3> QED
        BY <1>2, <3>2, <3>3, <3>4
    <2>4. {p} \cap Block = held'[Caller] \ held[Caller]
      <3>1. held \in [TcbOrNull -> SUBSET Block]
        BY CurrentTypes DEF HeapTypes
      <3>2. held'[Caller] = held[Caller] \cup ({p} \cap Block)
        BY <1>1, <1>6, <3>1 DEF Give
      <3>3. held[Caller] \subseteq ClientBlocks(held)
        BY <1>1, InClientBlocks
      <3> QED
        BY <2>2, <3>2, <3>3
    <2>5. Delivered(id)
      <3>1. ipc.queue[id] # <<>> /\ ipc.queue[id][1] = mp /\ p = ipc.p[mp]
        BY <1>2, <2>1, <2>2
      <3> QED
        BY <2>3, <2>4, <3>1 DEF Delivered
    <2>6. \A j \in Box : \A b \in Range(ipc'.queue[j]) : b # mp
      BY <2>2, InBuffers
    <2>7. \A j \in Box : \A b \in Range(ipc.queue[j]) : b \in Block
      BY CurrentTypes, QueueElements DEF HeapTypes
    <2>8. FifoStep
      BY <2>3, <2>5, <2>6, <2>7 DEF FifoStep
    <2>9. HandOverStep
      BY <2>3 DEF HandOverStep
    <2>10. Collects(id)
      <3>1. ipc.queue[id] # <<>> /\ ipc.queue[id][1] = mp /\ p = ipc.p[mp]
        BY <1>2, <2>1, <2>2
      <3>2. \A t \in TcbOrNull : held'[t] = IF t = Caller THEN held[t] \cup ({p} \cap Block)
                                            ELSE held[t]
        BY <1>1, <1>6, CurrentTypes DEF HeapTypes, Give
      <3> QED
        BY <1>6, <2>2, <2>3, <3>1, <3>2 DEF Collects, OtherBoxesKept
    <2> QED
      BY <1>6, <2>2, <2>8, <2>9, <2>10 DEF Safe, HeapInv
  <1> QED
    BY <1>3, <1>4, <1>5, <1>6

LEMMA SafeStep ==
    ASSUME KernelInv, HeapInv, [Next]_vars
    PROVE  Safe
  <1>1. CASE UNCHANGED <<ipc, mem, held, lost>>
    BY <1>1, StillStep
  <1>2. CASE \/ \E size \in Sizes : KzKmalloc(size)
             \/ \E p \in Block : KzKmfree(p)
             \/ KzExit \/ SoftErr
    BY <1>2, KmallocSafe, KmfreeSafe, EndSafe
  <1>3. CASE \/ \E id \in Box, p \in Payload : KzSend(id, p)
             \/ \E id \in Box : KzRecv(id)
    BY <1>3, SendSafe, RecvSafe
  <1>4. \/ UNCHANGED <<ipc, mem, held, lost>>
        \/ \E size \in Sizes : KzKmalloc(size)
        \/ \E p \in Block : KzKmfree(p)
        \/ KzExit \/ SoftErr
        \/ \E id \in Box, p \in Payload : KzSend(id, p)
        \/ \E id \in Box : KzRecv(id)
    BY DEF Next, SystemCall, Interrupt, Spin, vars, KzRun, KzWait, KzSleep, KzGetid,
           KzWakeup, KzChpri, KzSetintr, IntrEnter, IntrLeave, IntrMask
  <1> QED
    BY <1>1, <1>2, <1>3, <1>4

-------------------------------------------------------------------------------
\* kz_start: every block is free, every box is empty.
LEMMA HeapInit ==
    ASSUME Init
    PROVE  HeapInv
  <1>1. ipc = ClearedBoxes /\ mem = kzmem_init /\ held = [t \in TcbOrNull |-> {}] /\ lost = {}
    BY DEF Init
  <1>2. /\ ipc.queue = [id \in Box |-> <<>>] /\ ipc.head = [id \in Box |-> NULL]
        /\ ipc.tail = [id \in Box |-> NULL]
    BY <1>1 DEF ClearedBoxes
  <1>3. FreeListsLinked(mem) /\ FreeBlocks(mem) = Block
    BY <1>1, InitialFreeLists
  <1>4. BoxesLinked(ipc)
    BY <1>2 DEF BoxesLinked, Linked, HeadOf, TailOf, Distinct
  <1>5. \A id \in Box : Range(ipc.queue[id]) = {}
    BY <1>2 DEF Range
  <1>6. Buffers(ipc) = {} /\ QueuesApart(ipc)
    BY <1>5 DEF Buffers, QueuesApart
  <1>7. Payloads(ipc) = {} /\ PayloadsApart(ipc)
    BY <1>6 DEF Payloads, PayloadsApart
  <1>8. ClientBlocks(held) = {} /\ ClientsApart(held)
    BY <1>1 DEF ClientBlocks, ClientsApart
  <1>9. EveryBlockOnce(FreeBlocks(mem), Buffers(ipc), Payloads(ipc), ClientBlocks(held), lost)
    BY <1>1, <1>3, <1>6, <1>7, <1>8 DEF EveryBlockOnce
  <1> QED
    BY <1>3, <1>4, <1>6, <1>7, <1>8, <1>9 DEF HeapInv, Accounted

(***************************************************************************)
(* The two invariants together: the scheduler and the boxes, and the heap. *)
(***************************************************************************)
THEOREM HeapInvariant ==
    ASSUME ~WakeReceivers
    PROVE  Spec => [](KernelInv /\ HeapInv)
  <1>1. Init => KernelInv /\ HeapInv
    BY InitStep, HeapInit
  <1>2. KernelInv /\ HeapInv /\ [Next]_vars => KernelInv' /\ HeapInv'
    BY NextStep, SafeStep DEF Safe
  <1> QED
    BY <1>1, <1>2, PTL DEF Spec

LEMMA OneTagged ==
    ASSUME NEW tag, NEW S, NEW i \in S, \A j \in S : j = i
    PROVE  {<<tag, x>> : x \in S} = {<<tag, i>>}
  <1>1. S = {i}
    OBVIOUS
  <1> QED
    BY <1>1

\* The blocks apart have one owner each.
LEMMA OneOwner ==
    ASSUME HeapInv, NEW b \in Block
    PROVE  Cardinality(Owners(b)) = 1
  <1> DEFINE InF == \E i \in Pool : b \in Range(mem.stack[i])
             InB == \E id \in Box : b \in Range(ipc.queue[id])
             InP == \E mp \in Buffers(ipc) : ipc.p[mp] = b
             InC == \E t \in TcbOrNull : b \in held[t]
             InL == b \in lost
  <1>1. /\ FreeListsLinked(mem) /\ QueuesApart(ipc) /\ PayloadsApart(ipc) /\ ClientsApart(held)
        /\ EveryBlockOnce(FreeBlocks(mem), Buffers(ipc), Payloads(ipc), ClientBlocks(held), lost)
    BY DEF HeapInv, Accounted
  <1>2. /\ b \in FreeBlocks(mem) <=> InF
        /\ b \in Buffers(ipc) <=> InB
        /\ b \in Payloads(ipc) <=> InP
        /\ b \in ClientBlocks(held) <=> InC
    BY InFreeBlocks, InBuffers, InClientBlocks DEF Payloads
  <1>3. /\ InF \/ InB \/ InP \/ InC \/ InL
        /\ ~(InF /\ InB) /\ ~(InF /\ InP) /\ ~(InF /\ InC) /\ ~(InF /\ InL)
        /\ ~(InB /\ InP) /\ ~(InB /\ InC) /\ ~(InB /\ InL)
        /\ ~(InP /\ InC) /\ ~(InP /\ InL) /\ ~(InC /\ InL)
    <2> HIDE DEF InF, InB, InP, InC
    <2> QED
      BY <1>1, <1>2 DEF EveryBlockOnce
  <1>4. \A i, j \in Pool : b \in Range(mem.stack[i]) /\ b \in Range(mem.stack[j]) => i = j
    BY <1>1 DEF FreeListsLinked
  <1>5. \A i, j \in Box : b \in Range(ipc.queue[i]) /\ b \in Range(ipc.queue[j]) => i = j
    BY <1>1 DEF QueuesApart
  <1>6. \A i, j \in Buffers(ipc) : ipc.p[i] = b /\ ipc.p[j] = b => i = j
    BY <1>1 DEF PayloadsApart
  <1>7. \A i, j \in TcbOrNull : b \in held[i] /\ b \in held[j] => i = j
    BY <1>1 DEF ClientsApart
  <1> DEFINE F == {<<"free", i>> : i \in {j \in Pool : b \in Range(mem.stack[j])}}
             B == {<<"buffer", id>> : id \in {j \in Box : b \in Range(ipc.queue[j])}}
             P == {<<"payload", mp>> : mp \in {m \in Buffers(ipc) : ipc.p[m] = b}}
             C == {<<"client", t>> : t \in {u \in TcbOrNull : b \in held[u]}}
             L == {<<"lost", x>> : x \in lost \cap {b}}
  <1>8. Owners(b) = F \cup B \cup P \cup C \cup L
    BY DEF Owners
  <1>9. F = {} <=> ~InF
    OBVIOUS
  <1>10. B = {} <=> ~InB
    OBVIOUS
  <1>11. P = {} <=> ~InP
    OBVIOUS
  <1>12. C = {} <=> ~InC
    OBVIOUS
  <1>13. L = {} <=> ~InL
    OBVIOUS
  <1>14. ASSUME InF PROVE \E o : F = {o}
    <2> DEFINE S == {j \in Pool : b \in Range(mem.stack[j])}
    <2>1. PICK i \in S : TRUE
      BY <1>14
    <2>2. \A j \in S : j = i
      BY <1>4
    <2> HIDE DEF S
    <2>3. {<<"free", x>> : x \in S} = {<<"free", i>>}
      BY <2>1, <2>2, OneTagged
    <2> QED
      BY <2>3 DEF S
  <1>15. ASSUME InB PROVE \E o : B = {o}
    <2> DEFINE S == {j \in Box : b \in Range(ipc.queue[j])}
    <2>1. PICK i \in S : TRUE
      BY <1>15
    <2>2. \A j \in S : j = i
      BY <1>5
    <2> HIDE DEF S
    <2>3. {<<"buffer", x>> : x \in S} = {<<"buffer", i>>}
      BY <2>1, <2>2, OneTagged
    <2> QED
      BY <2>3 DEF S
  <1>16. ASSUME InP PROVE \E o : P = {o}
    <2> DEFINE S == {m \in Buffers(ipc) : ipc.p[m] = b}
    <2>1. PICK i \in S : TRUE
      BY <1>16
    <2>2. \A j \in S : j = i
      BY <1>6
    <2> HIDE DEF S
    <2>3. {<<"payload", x>> : x \in S} = {<<"payload", i>>}
      BY <2>1, <2>2, OneTagged
    <2> QED
      BY <2>3 DEF S
  <1>17. ASSUME InC PROVE \E o : C = {o}
    <2> DEFINE S == {u \in TcbOrNull : b \in held[u]}
    <2>1. PICK i \in S : TRUE
      BY <1>17
    <2>2. \A j \in S : j = i
      BY <1>7
    <2> HIDE DEF S
    <2>3. {<<"client", x>> : x \in S} = {<<"client", i>>}
      BY <2>1, <2>2, OneTagged
    <2> QED
      BY <2>3 DEF S
  <1>18. InL => \E o : L = {o}
    OBVIOUS
  <1> HIDE DEF F, B, P, C, L, InF, InB, InP, InC, InL
  <1>19. \E o : Owners(b) = {o}
    <2>1. CASE InF
      BY <1>3, <1>8, <1>10, <1>11, <1>12, <1>13, <1>14, <2>1
    <2>2. CASE InB
      BY <1>3, <1>8, <1>9, <1>11, <1>12, <1>13, <1>15, <2>2
    <2>3. CASE InP
      BY <1>3, <1>8, <1>9, <1>10, <1>12, <1>13, <1>16, <2>3
    <2>4. CASE InC
      BY <1>3, <1>8, <1>9, <1>10, <1>11, <1>13, <1>17, <2>4
    <2>5. CASE InL
      BY <1>3, <1>8, <1>9, <1>10, <1>11, <1>12, <1>18, <2>5
    <2> QED
      BY <1>3, <2>1, <2>2, <2>3, <2>4, <2>5
  <1> QED
    BY <1>19, FS_Singleton

\* Every block has exactly one owner: none leaks from the lists or is in two.
THEOREM HeapPartitioned ==
    ASSUME ~WakeReceivers
    PROVE  Spec => []HeapPartition
  <1>1. HeapInv => HeapPartition
    BY OneOwner DEF HeapPartition, HeapInv, Accounted
  <1> QED
    BY <1>1, HeapInvariant, PTL

\* The pointers of every box link its buffers, in the order they were sent.
THEOREM BoxQueuesKept ==
    ASSUME ~WakeReceivers
    PROVE  Spec => []BoxQueues
  <1>1. HeapInv => BoxQueues
    BY DEF BoxQueues, HeapInv, Accounted
  <1> QED
    BY <1>1, HeapInvariant, PTL

\* No message is lost, duplicated, reordered or changed by any step.
THEOREM DeliveredInOrder ==
    ASSUME ~WakeReceivers
    PROVE  Spec => FifoDelivery
  <1>1. KernelInv /\ HeapInv /\ [Next]_vars => [FifoStep]_vars
    BY SafeStep DEF Safe
  <1> QED
    BY <1>1, HeapInvariant, PTL DEF Spec, FifoDelivery

\* A blocked receiver leaves its box only with a message.
THEOREM ReceiversServed ==
    ASSUME ~WakeReceivers
    PROVE  Spec => HandOver
  <1>1. KernelInv /\ HeapInv /\ [Next]_vars => [HandOverStep]_vars
    BY SafeStep DEF Safe
  <1> QED
    BY <1>1, HeapInvariant, PTL DEF Spec, HandOver

===============================================================================
