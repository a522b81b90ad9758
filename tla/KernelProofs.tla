----------------------------- MODULE KernelProofs -----------------------------
(***************************************************************************)
(* The kernel keeps KernelInv, for any number of threads, priorities,      *)
(* boxes and blocks, as long as kz_wakeup leaves receivers alone, and      *)
(* implements PriorityRoundRobin.                                          *)
(***************************************************************************)
EXTENDS KernelProperties, WellFoundedInduction, TLAPS

(***************************************************************************)
(* What the three ways in which kozos updates a list do to it (unlinking   *)
(* its first element, linking one at its end, linking one at its head),    *)
(* and what getcurrent, putcurrent and schedule, which use them, do to     *)
(* well-formed ready queues.                                               *)
(***************************************************************************)
LEMMA RestOf ==
    ASSUME NEW S, NEW q \in Seq(S), q # <<>>
    PROVE  /\ Rest(q) \in Seq(S)
           /\ Len(q) \in Nat /\ Len(q) >= 1
           /\ Len(Rest(q)) = Len(q) - 1
           /\ \A i \in 1..(Len(q) - 1) : Rest(q)[i] = q[i + 1]
           /\ Rest(q) = <<>> <=> Len(q) = 1
  <1>1. Len(q) \in Nat /\ Len(q) # 0
    OBVIOUS
  <1>2. Rest(q) = Tail(q)
    BY DEF Rest
  <1>3. /\ Tail(q) \in Seq(S) /\ Len(Tail(q)) = Len(q) - 1
        /\ \A i \in 1..(Len(q) - 1) : Tail(q)[i] = q[i + 1]
    BY <1>1
  <1>4. Tail(q) = <<>> <=> Len(Tail(q)) = 0
    BY <1>3, SMTT(30)
  <1> QED
    BY <1>1, <1>2, <1>3, <1>4

LEMMA ElementsOf ==
    ASSUME NEW S, NEW q \in Seq(S)
    PROVE  /\ \A i \in 1..Len(q) : q[i] \in S /\ q[i] \in Range(q)
           /\ \A e \in Range(q) : e \in S /\ \E i \in 1..Len(q) : e = q[i]
           /\ Range(q) = {} <=> q = <<>>
  <1>1. DOMAIN q = 1..Len(q) /\ Len(q) \in Nat /\ (q = <<>> <=> Len(q) = 0)
    OBVIOUS
  <1>2. \A i \in 1..Len(q) : q[i] \in S
    OBVIOUS
  <1>3. Range(q) = {q[i] : i \in 1..Len(q)}
    BY <1>1 DEF Range
  <1>4. Range(q) = {} <=> 1..Len(q) = {}
    BY <1>3
  <1>5. 1..Len(q) = {} <=> Len(q) = 0
    <2>1. Len(q) # 0 => 1 \in 1..Len(q)
      BY <1>1
    <2>2. Len(q) = 0 => 1..Len(q) = {}
      BY <1>1
    <2> QED
      BY <2>1, <2>2
  <1> QED
    BY <1>1, <1>2, <1>3, <1>4, <1>5

\* The fields f and g agree on the elements of S.
Agree(f, g, S) == \A x \in S : g[x] = f[x]

\* head and next link q, whose elements are S and whose last is t.
IsList(head, next, q, S, t) ==
    Linked(head, next, q) /\ Distinct(q) /\ Range(q) = S /\ TailOf(q) = t

\* Unlinking the first element; next2 may differ from next at that element.
LEMMA UnlinkFirst ==
    ASSUME NEW S, NULL \notin S, NEW q \in Seq(S), q # <<>>,
           NEW head, NEW next, Linked(head, next, q), Distinct(q),
           NEW next2, Agree(next, next2, Range(q) \ {head})
    PROVE  /\ head = q[1] /\ head \in S
           /\ Linked(next[head], next2, Rest(q))
           /\ Distinct(Rest(q))
           /\ Range(Rest(q)) = Range(q) \ {head}
           /\ next[head] = NULL <=> Rest(q) = <<>>
           /\ TailOf(Rest(q)) = IF next[head] = NULL THEN NULL ELSE TailOf(q)
  <1> DEFINE n == Len(q)
             r == Rest(q)
  <1>1. /\ r \in Seq(S) /\ n \in Nat /\ n >= 1 /\ Len(r) = n - 1
        /\ \A i \in 1..(n - 1) : r[i] = q[i + 1]
        /\ r = <<>> <=> n = 1
    BY RestOf
  <1>2. \A i \in 1..n : q[i] \in S /\ q[i] # NULL /\ q[i] \in Range(q)
    BY ElementsOf
  <1>3. head = q[1] /\ head \in S
    BY <1>1, <1>2 DEF Linked, HeadOf
  <1>4. \A i \in 1..n : next[q[i]] = IF i = n THEN NULL ELSE q[i + 1]
    BY DEF Linked
  <1>5. \A i \in 2..n : q[i] # head
    BY <1>1, <1>3 DEF Distinct
  <1> HIDE DEF n, r
  <1>6. next[head] = IF n = 1 THEN NULL ELSE q[2]
    BY <1>1, <1>3, <1>4
  <1>7. next[head] = HeadOf(r)
    BY <1>1, <1>6 DEF HeadOf
  <1>8. ASSUME NEW i \in 1..Len(r)
        PROVE  next2[r[i]] = IF i = Len(r) THEN NULL ELSE r[i + 1]
    <2>1. r[i] = q[i + 1] /\ i + 1 \in 2..n /\ i + 1 \in 1..n
      BY <1>1
    <2>2. next2[r[i]] = next[q[i + 1]]
      BY <1>2, <1>5, <2>1 DEF Agree
    <2>3. CASE i = Len(r)
      BY <1>1, <1>4, <2>1, <2>2, <2>3
    <2>4. CASE i # Len(r)
      <3>1. i + 1 # n /\ i + 1 \in 1..(n - 1)
        BY <1>1, <2>4
      <3>2. next[q[i + 1]] = q[i + 2] /\ r[i + 1] = q[i + 2]
        BY <1>1, <1>4, <2>1, <3>1
      <3> QED
        BY <2>2, <2>4, <3>2
    <2> QED
      BY <2>3, <2>4
  <1>9. Distinct(r)
    <2> SUFFICES ASSUME NEW i \in 1..Len(r), NEW j \in 1..Len(r), r[i] = r[j]
                 PROVE  i = j
      BY DEF Distinct
    <2>1. q[i + 1] = q[j + 1] /\ i + 1 \in 1..n /\ j + 1 \in 1..n
      BY <1>1
    <2> QED
      BY <1>1, <2>1 DEF Distinct, n
  <1>10. Range(r) = Range(q) \ {head}
    <2>1. ASSUME NEW e \in Range(r) PROVE e \in Range(q) \ {head}
      <3>1. PICK i \in 1..Len(r) : e = r[i]
        BY <1>1, ElementsOf
      <3>2. e = q[i + 1] /\ i + 1 \in 2..n /\ i + 1 \in 1..n
        BY <1>1, <3>1
      <3> QED
        BY <1>2, <1>5, <3>2
    <2>2. ASSUME NEW e \in Range(q) \ {head} PROVE e \in Range(r)
      <3>1. PICK i \in 1..n : e = q[i]
        BY ElementsOf DEF n
      <3>2. i # 1
        BY <1>3, <3>1
      <3>3. i - 1 \in 1..(n - 1) /\ e = r[i - 1] /\ i - 1 \in 1..Len(r)
        BY <1>1, <3>1, <3>2
      <3> QED
        BY <1>1, <3>3, ElementsOf
    <2> QED
      BY <2>1, <2>2
  <1>11. next[head] = NULL <=> r = <<>>
    BY <1>1, <1>2, <1>6
  <1>12. TailOf(r) = IF next[head] = NULL THEN NULL ELSE TailOf(q)
    <2>1. CASE n = 1
      BY <1>1, <1>11, <2>1 DEF TailOf
    <2>2. CASE n # 1
      <3>1. r[Len(r)] = q[n]
        BY <1>1, <2>2
      <3> QED
        BY <1>1, <1>11, <2>2, <3>1 DEF TailOf, n
    <2> QED
      BY <2>1, <2>2
  <1> QED
    BY <1>3, <1>7, <1>8, <1>9, <1>10, <1>11, <1>12 DEF Linked, r

\* Linking a new element at the end; next2 differs from next only where told.
LEMMA LinkLast ==
    ASSUME NEW S, NULL \notin S, NEW q \in Seq(S), NEW e \in S, e \notin Range(q),
           NEW head, NEW next, Linked(head, next, q), Distinct(q),
           NEW head2, head2 = (IF q = <<>> THEN e ELSE head),
           NEW next2, next2[e] = NULL,
           q # <<>> => next2[TailOf(q)] = e,
           Agree(next, next2, Range(q) \ {TailOf(q)})
    PROVE  IsList(head2, next2, Append(q, e), Range(q) \cup {e}, e)
  <1> DEFINE n == Len(q)
             a == Append(q, e)
  <1>1. /\ a \in Seq(S) /\ n \in Nat /\ Len(a) = n + 1 /\ a # <<>>
        /\ \A i \in 1..n : a[i] = q[i]
        /\ a[n + 1] = e
        /\ q = <<>> <=> n = 0
    <2>1. a \in Seq(S) /\ n \in Nat /\ Len(a) = n + 1
      OBVIOUS
    <2>2. \A i \in 1..n : a[i] = q[i]
      OBVIOUS
    <2>3. a[n + 1] = e
      OBVIOUS
    <2>4. (q = <<>> <=> n = 0) /\ (a = <<>> <=> Len(a) = 0)
      BY <2>1
    <2> QED
      BY <2>1, <2>2, <2>3, <2>4
  <1>2. \A i \in 1..n : q[i] \in S /\ q[i] # NULL /\ q[i] \in Range(q) /\ q[i] # e
    BY ElementsOf
  <1>3. \A i \in 1..n : next[q[i]] = IF i = n THEN NULL ELSE q[i + 1]
    BY DEF Linked
  <1>4. q # <<>> => TailOf(q) = q[n] /\ n \in 1..n
    BY <1>1 DEF TailOf
  <1>5. TailOf(a) = e
    BY <1>1 DEF TailOf
  <1> HIDE DEF n, a
  <1>7. head2 = HeadOf(a)
    <2>1. CASE n = 0
      BY <1>1, <2>1 DEF HeadOf
    <2>2. CASE n # 0
      <3>1. head = q[1] /\ a[1] = q[1]
        BY <1>1, <2>2 DEF Linked, HeadOf
      <3> QED
        BY <1>1, <2>2, <3>1 DEF HeadOf
    <2> QED
      BY <2>1, <2>2
  <1>8. ASSUME NEW i \in 1..Len(a)
        PROVE  next2[a[i]] = IF i = Len(a) THEN NULL ELSE a[i + 1]
    <2>1. CASE i = n + 1
      BY <1>1, <2>1
    <2>2. CASE i = n
      BY <1>1, <1>4, <2>2
    <2>3. CASE i < n
      <3>1. i \in 1..n /\ n \in 1..n /\ i # n /\ i + 1 \in 1..n
        BY <1>1, <2>3
      <3>2. q[i] # q[n]
        BY <3>1 DEF Distinct, n
      <3>3. next2[q[i]] = next[q[i]] /\ next[q[i]] = q[i + 1]
        BY <1>1, <1>2, <1>3, <1>4, <3>1, <3>2 DEF Agree
      <3>4. i # Len(a) /\ a[i] = q[i] /\ a[i + 1] = q[i + 1]
        BY <1>1, <3>1
      <3> QED
        BY <3>3, <3>4
    <2> QED
      BY <1>1, <2>1, <2>2, <2>3
  <1>9. Distinct(a)
    <2> SUFFICES ASSUME NEW i \in 1..Len(a), NEW j \in 1..Len(a), a[i] = a[j]
                 PROVE  i = j
      BY DEF Distinct
    <2>1. CASE i \in 1..n /\ j \in 1..n
      BY <1>1, <2>1 DEF Distinct, n
    <2>2. CASE i = n + 1 \/ j = n + 1
      BY <1>1, <1>2, <2>2
    <2> QED
      BY <1>1, <2>1, <2>2
  <1>10. Range(a) = Range(q) \cup {e}
    <2>1. ASSUME NEW x \in Range(a) PROVE x \in Range(q) \cup {e}
      <3>1. PICK i \in 1..Len(a) : x = a[i]
        BY <1>1, ElementsOf
      <3>2. i \in 1..n \/ i = n + 1
        BY <1>1, <3>1
      <3> QED
        BY <1>1, <1>2, <3>1, <3>2
    <2>2. e \in Range(a)
      <3>1. n + 1 \in 1..Len(a)
        BY <1>1
      <3> QED
        BY <1>1, <3>1, ElementsOf
    <2>3. ASSUME NEW x \in Range(q) PROVE x \in Range(a)
      <3>1. PICK i \in 1..n : x = q[i]
        BY ElementsOf DEF n
      <3>2. i \in 1..Len(a) /\ x = a[i]
        BY <1>1, <3>1
      <3> QED
        BY <1>1, <3>2, ElementsOf
    <2> QED
      BY <2>1, <2>2, <2>3
  <1> QED
    BY <1>5, <1>7, <1>8, <1>9, <1>10 DEF Linked, IsList, a

\* Linking a new element at the head.
LEMMA LinkFirst ==
    ASSUME NEW S, NULL \notin S, NEW q \in Seq(S), NEW e \in S, e \notin Range(q),
           NEW head, NEW next, Linked(head, next, q), Distinct(q),
           NEW next2, next2[e] = head,
           Agree(next, next2, Range(q))
    PROVE  IsList(e, next2, <<e>> \o q, Range(q) \cup {e}, TailOf(<<e>> \o q))
  <1> DEFINE n == Len(q)
             a == <<e>> \o q
  <1>1. /\ a \in Seq(S) /\ n \in Nat /\ Len(a) = n + 1 /\ a # <<>>
        /\ a[1] = e
        /\ \A i \in 2..(n + 1) : a[i] = q[i - 1]
        /\ q = <<>> <=> n = 0
    <2>1. a \in Seq(S) /\ n \in Nat /\ Len(a) = n + 1
      OBVIOUS
    <2>2. a[1] = e
      OBVIOUS
    <2>3. \A i \in 2..(n + 1) : a[i] = q[i - 1]
      OBVIOUS
    <2>4. (q = <<>> <=> n = 0) /\ (a = <<>> <=> Len(a) = 0)
      BY <2>1
    <2> QED
      BY <2>1, <2>2, <2>3, <2>4
  <1>2. \A i \in 1..n : q[i] \in S /\ q[i] \in Range(q) /\ q[i] # e
    BY ElementsOf
  <1>3. \A i \in 1..n : next[q[i]] = IF i = n THEN NULL ELSE q[i + 1]
    BY DEF Linked
  <1>4. head = IF n = 0 THEN NULL ELSE q[1]
    BY <1>1 DEF Linked, HeadOf
  <1> HIDE DEF n, a
  <1>5. e = HeadOf(a)
    BY <1>1 DEF HeadOf
  <1>6. ASSUME NEW i \in 1..Len(a)
        PROVE  next2[a[i]] = IF i = Len(a) THEN NULL ELSE a[i + 1]
    <2>1. CASE i = 1
      <3>1. CASE n = 0
        BY <1>1, <1>4, <2>1, <3>1
      <3>2. CASE n # 0
        <4>1. 2 \in 2..(n + 1) /\ 1 # Len(a)
          BY <1>1, <3>2
        <4>2. a[2] = q[1]
          BY <1>1, <4>1
        <4> QED
          BY <1>1, <1>4, <2>1, <3>2, <4>1, <4>2
      <3> QED
        BY <3>1, <3>2
    <2>2. CASE i # 1
      <3>1. i \in 2..(n + 1) /\ i - 1 \in 1..n
        BY <1>1, <2>2
      <3>2. next2[a[i]] = next[q[i - 1]]
        BY <1>1, <1>2, <3>1 DEF Agree
      <3>3. next[q[i - 1]] = IF i - 1 = n THEN NULL ELSE q[i]
        BY <1>3, <3>1
      <3>4. i # Len(a) => i + 1 \in 2..(n + 1) /\ a[i + 1] = q[i]
        BY <1>1, <3>1
      <3> QED
        BY <1>1, <3>1, <3>2, <3>3, <3>4
    <2> QED
      BY <2>1, <2>2
  <1>7. Distinct(a)
    <2> SUFFICES ASSUME NEW i \in 1..Len(a), NEW j \in 1..Len(a), a[i] = a[j]
                 PROVE  i = j
      BY DEF Distinct
    <2>1. CASE i # 1 /\ j # 1
      <3>1. i - 1 \in 1..n /\ j - 1 \in 1..n /\ q[i - 1] = q[j - 1]
        BY <1>1, <2>1
      <3> QED
        BY <3>1 DEF Distinct, n
    <2>2. CASE i = 1 \/ j = 1
      <3>1. \A k \in 1..Len(a) : k # 1 => a[k] # e
        <4> TAKE k \in 1..Len(a)
        <4> HAVE k # 1
        <4>1. k - 1 \in 1..n /\ a[k] = q[k - 1]
          BY <1>1
        <4> QED
          BY <1>2, <4>1
      <3> QED
        BY <1>1, <2>2, <3>1
    <2> QED
      BY <2>1, <2>2
  <1>8. Range(a) = Range(q) \cup {e}
    <2>1. ASSUME NEW x \in Range(a) PROVE x \in Range(q) \cup {e}
      <3>1. PICK i \in 1..Len(a) : x = a[i]
        BY <1>1, ElementsOf
      <3>2. i = 1 \/ (i - 1 \in 1..n /\ a[i] = q[i - 1])
        BY <1>1, <3>1
      <3> QED
        BY <1>1, <1>2, <3>1, <3>2
    <2>2. e \in Range(a)
      <3>1. 1 \in 1..Len(a)
        BY <1>1
      <3> QED
        BY <1>1, <3>1, ElementsOf
    <2>3. ASSUME NEW x \in Range(q) PROVE x \in Range(a)
      <3>1. PICK i \in 1..n : x = q[i]
        BY ElementsOf DEF n
      <3>2. i + 1 \in 1..Len(a) /\ x = a[i + 1]
        BY <1>1, <3>1
      <3> QED
        BY <1>1, <3>2, ElementsOf
    <2> QED
      BY <2>1, <2>2, <2>3
  <1> QED
    BY <1>1, <1>5, <1>6, <1>7, <1>8 DEF Linked, IsList, a

-------------------------------------------------------------------------------
(***************************************************************************)
(* The fields after each function, one equation per field.                 *)
(***************************************************************************)
LEMMA GetcurrentNop ==
    ASSUME NEW s, s.current = NULL \/ ~s.ready[s.current]
    PROVE  getcurrent(s) = s
  BY DEF getcurrent

\* g is s with thread c unlinked from the head of its queue.
Unlinked(s, g, c) ==
    LET p == s.priority[c]
    IN  /\ g.current = c
        /\ g.head = [s.head EXCEPT ![p] = s.next[c]]
        /\ g.tail = [s.tail EXCEPT ![p] = IF s.next[c] = NULL THEN NULL ELSE @]
        /\ g.next = [s.next EXCEPT ![c] = NULL]
        /\ g.priority = s.priority
        /\ g.ready = [s.ready EXCEPT ![c] = FALSE]
        /\ g.order = [s.order EXCEPT ![p] = Rest(@)]
        /\ g \in Sched

\* g is s with thread c appended to the queue of its priority.
Enqueued(s, g, c) ==
    LET p == s.priority[c]
    IN  /\ g.current = c
        /\ g.head = IF s.tail[p] # NULL THEN s.head ELSE [s.head EXCEPT ![p] = c]
        /\ g.tail = [s.tail EXCEPT ![p] = c]
        /\ g.next = IF s.tail[p] # NULL THEN [s.next EXCEPT ![s.tail[p]] = c] ELSE s.next
        /\ g.priority = s.priority
        /\ g.ready = [s.ready EXCEPT ![c] = TRUE]
        /\ g.order = [s.order EXCEPT ![p] = Append(@, c)]
        /\ g \in Sched

LEMMA GetcurrentFields ==
    ASSUME NEW s \in Sched, s.current \in Tcb, s.ready[s.current],
           NEW c, c = s.current, NEW p, p = s.priority[c], NEW g, g = getcurrent(s)
    PROVE  Unlinked(s, g, c)
  <1>1. s.current # NULL
    BY NullAssumption
  <1>2. g = [s EXCEPT !.head[p]  = s.next[c],
                       !.tail[p]  = IF s.next[c] = NULL THEN NULL ELSE @,
                       !.ready[c] = FALSE,
                       !.next[c]  = NULL,
                       !.order[p] = Rest(@)]
    BY <1>1 DEF getcurrent
  <1>3. p \in Prio /\ c \in Tcb
    BY DEF Sched
  <1>4. /\ g.current = c
           /\ g.head = [s.head EXCEPT ![p] = s.next[c]]
           /\ g.tail = [s.tail EXCEPT ![p] = IF s.next[c] = NULL THEN NULL ELSE @]
           /\ g.next = [s.next EXCEPT ![c] = NULL]
           /\ g.priority = s.priority
           /\ g.ready = [s.ready EXCEPT ![c] = FALSE]
           /\ g.order = [s.order EXCEPT ![p] = Rest(@)]
    BY <1>2, <1>3 DEF Sched
  <1>5. Rest(s.order[p]) \in Seq(Tcb)
    BY <1>3 DEF Rest, Sched
  <1>6. /\ g.current \in TcbOrNull
        /\ g.head \in [Prio -> TcbOrNull]
        /\ g.tail \in [Prio -> TcbOrNull]
        /\ g.next \in [Tcb -> TcbOrNull]
        /\ g.priority \in [Tcb -> Prio]
        /\ g.ready \in [Tcb -> BOOLEAN]
        /\ g.order \in [Prio -> Seq(Tcb)]
    <2>1. s.next[c] \in TcbOrNull /\ NULL \in TcbOrNull
      BY <1>3 DEF Sched, TcbOrNull
    <2> QED
      BY <1>3, <1>4, <1>5, <2>1 DEF Sched
  <1>7. g = [current |-> g.current, head |-> g.head, tail |-> g.tail, next |-> g.next,
             priority |-> g.priority, ready |-> g.ready, order |-> g.order]
    BY <1>2 DEF Sched
  <1>8. g \in Sched
    BY <1>6, <1>7 DEF Sched
  <1> QED
    BY <1>4, <1>8 DEF Unlinked

LEMMA PutcurrentNop ==
    ASSUME NEW s, s.current = NULL \/ s.ready[s.current]
    PROVE  putcurrent(s) = s
  BY DEF putcurrent

LEMMA PutcurrentFields ==
    ASSUME NEW s \in Sched, s.current \in Tcb, ~s.ready[s.current],
           NEW c, c = s.current, NEW p, p = s.priority[c], NEW g, g = putcurrent(s)
    PROVE  Enqueued(s, g, c)
  <1>1. s.current # NULL
    BY NullAssumption
  <1>2. p \in Prio /\ c \in Tcb
    BY DEF Sched
  <1> DEFINE
        Fields ==
           /\ g.current = c
           /\ g.head = IF s.tail[p] # NULL THEN s.head ELSE [s.head EXCEPT ![p] = c]
           /\ g.tail = [s.tail EXCEPT ![p] = c]
           /\ g.next = IF s.tail[p] # NULL THEN [s.next EXCEPT ![s.tail[p]] = c] ELSE s.next
           /\ g.priority = s.priority
           /\ g.ready = [s.ready EXCEPT ![c] = TRUE]
           /\ g.order = [s.order EXCEPT ![p] = Append(@, c)]
        Whole ==
           g = [current |-> g.current, head |-> g.head, tail |-> g.tail, next |-> g.next,
                priority |-> g.priority, ready |-> g.ready, order |-> g.order]
  <1>3. ASSUME s.tail[p] # NULL PROVE Fields /\ Whole
    <2>1. g = [s EXCEPT !.next[s.tail[p]] = c,
                        !.tail[p]  = c,
                        !.ready[c] = TRUE,
                        !.order[p] = Append(@, c)]
      BY <1>1, <1>3 DEF putcurrent
    <2>2. /\ g.current = c
          /\ g.head = s.head
          /\ g.tail = [s.tail EXCEPT ![p] = c]
          /\ g.next = [s.next EXCEPT ![s.tail[p]] = c]
          /\ g.priority = s.priority
          /\ g.ready = [s.ready EXCEPT ![c] = TRUE]
          /\ g.order = [s.order EXCEPT ![p] = Append(@, c)]
      BY <2>1, <1>2, <1>3 DEF Sched
    <2>3. Whole
      BY <2>1 DEF Sched
    <2> QED
      BY <1>3, <2>2, <2>3
  <1>4. ASSUME s.tail[p] = NULL PROVE Fields /\ Whole
    <2>1. g = [s EXCEPT !.head[p]  = c,
                        !.tail[p]  = c,
                        !.ready[c] = TRUE,
                        !.order[p] = Append(@, c)]
      BY <1>1, <1>4 DEF putcurrent
    <2>2. /\ g.current = c
          /\ g.head = [s.head EXCEPT ![p] = c]
          /\ g.tail = [s.tail EXCEPT ![p] = c]
          /\ g.next = s.next
          /\ g.priority = s.priority
          /\ g.ready = [s.ready EXCEPT ![c] = TRUE]
          /\ g.order = [s.order EXCEPT ![p] = Append(@, c)]
      BY <2>1, <1>2, <1>4 DEF Sched
    <2>3. Whole
      BY <2>1 DEF Sched
    <2> QED
      BY <1>4, <2>2, <2>3
  <1>5. Fields /\ Whole
    BY <1>3, <1>4
  <1>6. g.current \in TcbOrNull /\ g.tail \in [Prio -> TcbOrNull]
    <2>1. s.tail \in [Prio -> TcbOrNull] /\ c \in TcbOrNull
      BY <1>2 DEF Sched, TcbOrNull
    <2>2. g.current = c /\ g.tail = [s.tail EXCEPT ![p] = c]
      BY <1>5
    <2> QED
      BY <2>1, <2>2
  <1>7. g.head \in [Prio -> TcbOrNull] /\ g.next \in [Tcb -> TcbOrNull]
    <2>1. CASE s.tail[p] # NULL
      <3>1. s.head \in [Prio -> TcbOrNull] /\ s.next \in [Tcb -> TcbOrNull] /\ c \in TcbOrNull
        BY <1>2 DEF Sched, TcbOrNull
      <3>2. g.head = s.head /\ g.next = [s.next EXCEPT ![s.tail[p]] = c]
        BY <2>1, <1>5
      <3> QED
        BY <3>1, <3>2
    <2>2. CASE s.tail[p] = NULL
      <3>1. s.head \in [Prio -> TcbOrNull] /\ s.next \in [Tcb -> TcbOrNull] /\ c \in TcbOrNull
        BY <1>2 DEF Sched, TcbOrNull
      <3>2. g.head = [s.head EXCEPT ![p] = c] /\ g.next = s.next
        BY <2>2, <1>5
      <3> QED
        BY <3>1, <3>2
    <2> QED
      BY <2>1, <2>2
  <1>8. g.priority \in [Tcb -> Prio] /\ g.ready \in [Tcb -> BOOLEAN]
    BY <1>2, <1>5, ZenonT(30) DEF Sched
  <1>9. g.order \in [Prio -> Seq(Tcb)]
    <2>1. Append(s.order[p], c) \in Seq(Tcb)
      BY <1>2 DEF Sched
    <2> QED
      BY <1>2, <1>5, <2>1, ZenonT(30) DEF Sched
  <1>10. g \in Sched
    BY <1>5, <1>6, <1>7, <1>8, <1>9 DEF Sched
  <1> QED
    BY <1>5, <1>10 DEF Enqueued

\* A set of natural numbers that is not empty has a least element.
LEMMA LeastElement ==
    ASSUME NEW S, S \subseteq Nat, S # {}
    PROVE  \E n \in S : \A m \in S : n <= m
  <1> DEFINE R == {x \in Nat \X Nat : x[1] < x[2]}
  <1>1. IsWellFoundedOn(R, Nat)
    BY NatLessThanWellFounded DEF OpToRel
  <1>2. PICK n \in S : \A m \in S : ~(<<m, n>> \in R)
    BY <1>1, WFMin
  <1>3. ASSUME NEW m \in S PROVE n <= m
    <2>1. m \in Nat /\ n \in Nat
      OBVIOUS
    <2>2. <<m, n>> \in R <=> m < n
      BY <2>1
    <2> QED
      BY <1>2, <2>1, <2>2
  <1> QED
    BY <1>3

LEMMA ScheduleFields ==
    ASSUME NEW s \in Sched, Runnable(s) # {}, NEW g, g = schedule(s)
    PROVE  /\ \E p \in Prio : /\ s.head[p] # NULL
                              /\ \A q \in Prio : q < p => s.head[q] = NULL
                              /\ g.current = s.head[p]
           /\ g.head = s.head /\ g.tail = s.tail /\ g.next = s.next
           /\ g.priority = s.priority /\ g.ready = s.ready /\ g.order = s.order
           /\ g \in Sched
  <1> DEFINE p == Min(Runnable(s))
  <1>1. Runnable(s) \subseteq Nat
    BY ThreadQueueAssumption DEF Runnable, Prio
  <1>2. PICK n \in Runnable(s) : \A m \in Runnable(s) : n <= m
    BY <1>1, LeastElement
  <1>3. p \in Runnable(s) /\ \A q \in Runnable(s) : p <= q
    BY <1>2 DEF Min
  <1>4. p \in Prio /\ s.head[p] # NULL /\ \A q \in Prio : q < p => s.head[q] = NULL
    BY <1>1, <1>3 DEF Runnable, Prio
  <1>5. g = [s EXCEPT !.current = s.head[p]]
    BY DEF schedule
  <1> HIDE DEF p
  <1>6. /\ g.current = s.head[p]
        /\ g.head = s.head /\ g.tail = s.tail /\ g.next = s.next
        /\ g.priority = s.priority /\ g.ready = s.ready /\ g.order = s.order
    BY <1>5 DEF Sched
  <1>7. g \in Sched
    BY <1>4, <1>5 DEF Sched
  <1> QED
    BY <1>4, <1>6, <1>7

-------------------------------------------------------------------------------
(***************************************************************************)
(* Each function keeps well-formed queues well-formed.                     *)
(***************************************************************************)

LEMMA SchedFields ==
    ASSUME NEW s \in Sched
    PROVE  /\ s.current \in TcbOrNull
           /\ s.head \in [Prio -> TcbOrNull] /\ s.tail \in [Prio -> TcbOrNull]
           /\ s.next \in [Tcb -> TcbOrNull] /\ s.priority \in [Tcb -> Prio]
           /\ s.ready \in [Tcb -> BOOLEAN] /\ s.order \in [Prio -> Seq(Tcb)]
  BY DEF Sched

\* The queues list READY threads of their priority, and all of them.
LEMMA QueueOf ==
    ASSUME NEW s \in Sched, WellFormed(s), NEW x \in Prio
    PROVE  /\ s.order[x] \in Seq(Tcb)
           /\ Linked(s.head[x], s.next, s.order[x])
           /\ s.tail[x] = TailOf(s.order[x])
           /\ Distinct(s.order[x])
           /\ Range(s.order[x]) = {t \in Tcb : s.ready[t] /\ s.priority[t] = x}
  BY SchedFields DEF WellFormed, QueuesLinked, QueuesExact

LEMMA SetMembers ==
    ASSUME NEW s, NEW x, NEW e,
           e \in {t \in Tcb : s.ready[t] /\ s.priority[t] = x}
    PROVE  e \in Tcb /\ s.ready[e] /\ s.priority[e] = x
  OBVIOUS

\* getcurrent is right when the current thread, if READY, heads its queue.
LEMMA UnlinkedWellFormed ==
    ASSUME NEW s \in Sched, WellFormed(s), NEW c \in Tcb, s.ready[c],
           NEW p, p = s.priority[c], s.head[p] = c, NEW g, Unlinked(s, g, c)
    PROVE  WellFormed(g)
  <1>0. /\ g.head = [s.head EXCEPT ![p] = s.next[c]]
        /\ g.tail = [s.tail EXCEPT ![p] = IF s.next[c] = NULL THEN NULL ELSE @]
        /\ g.next = [s.next EXCEPT ![c] = NULL]
        /\ g.priority = s.priority
        /\ g.ready = [s.ready EXCEPT ![c] = FALSE]
        /\ g.order = [s.order EXCEPT ![p] = Rest(@)]
        /\ g \in Sched /\ p \in Prio
    BY SchedFields DEF Unlinked
  <1> DEFINE q == s.order[p]
  <1>1. /\ q \in Seq(Tcb) /\ Linked(c, s.next, q) /\ s.tail[p] = TailOf(q) /\ Distinct(q)
        /\ Range(q) = {t \in Tcb : s.ready[t] /\ s.priority[t] = p}
    BY QueueOf, <1>0
  <1>2. c \in Range(q) /\ q # <<>>
    BY <1>1, ElementsOf
  <1>3. Agree(s.next, g.next, Range(q) \ {c})
    BY <1>1, SchedFields, <1>0 DEF Agree
  <1>4. /\ Linked(s.next[c], g.next, Rest(q))
        /\ Distinct(Rest(q))
        /\ Range(Rest(q)) = Range(q) \ {c}
        /\ TailOf(Rest(q)) = IF s.next[c] = NULL THEN NULL ELSE TailOf(q)
    BY <1>1, <1>2, <1>3, UnlinkFirst, NullAssumption
  <1>5. /\ g.head[p] = s.next[c] /\ g.order[p] = Rest(q)
        /\ g.tail[p] = IF s.next[c] = NULL THEN NULL ELSE TailOf(q)
    BY <1>1, SchedFields, <1>0
  <1> HIDE DEF q
  <1>6. ASSUME NEW x \in Prio, x # p
        PROVE  /\ Linked(g.head[x], g.next, g.order[x])
               /\ g.tail[x] = TailOf(g.order[x])
               /\ Distinct(g.order[x])
               /\ Range(g.order[x]) = {t \in Tcb : g.ready[t] /\ g.priority[t] = x}
    <2>1. g.head[x] = s.head[x] /\ g.tail[x] = s.tail[x] /\ g.order[x] = s.order[x]
      BY <1>6, SchedFields, <1>0
    <2>2. /\ Linked(s.head[x], s.next, s.order[x]) /\ s.tail[x] = TailOf(s.order[x])
          /\ Distinct(s.order[x]) /\ s.order[x] \in Seq(Tcb)
          /\ Range(s.order[x]) = {t \in Tcb : s.ready[t] /\ s.priority[t] = x}
      BY QueueOf, <1>0
    <2>3. \A i \in 1..Len(s.order[x]) : s.order[x][i] \in Tcb /\ s.order[x][i] # c
      BY <1>6, <2>2, ElementsOf
    <2>4. \A i \in 1..Len(s.order[x]) : g.next[s.order[x][i]] = s.next[s.order[x][i]]
      BY <2>3, SchedFields, <1>0
    <2>5. Linked(s.head[x], g.next, s.order[x])
      BY <2>2, <2>4 DEF Linked
    <2>6. {t \in Tcb : s.ready[t] /\ s.priority[t] = x}
             = {t \in Tcb : g.ready[t] /\ g.priority[t] = x}
      BY <1>6, SchedFields, <1>0
    <2> QED
      BY <2>1, <2>2, <2>5, <2>6
  <1>7. Range(Rest(q)) = {t \in Tcb : g.ready[t] /\ g.priority[t] = p}
    BY <1>1, <1>4, SchedFields, <1>0
  <1>8. \A t \in Tcb : ~g.ready[t] => g.next[t] = NULL
    BY SchedFields, <1>0 DEF WellFormed, QueuesExact
  <1> QED
    BY <1>4, <1>5, <1>6, <1>7, <1>8 DEF WellFormed, QueuesLinked, QueuesExact

LEMMA GetcurrentWellFormed ==
    ASSUME NEW s \in Sched, WellFormed(s), s.current \in Tcb,
           s.ready[s.current] => s.head[s.priority[s.current]] = s.current
    PROVE  /\ getcurrent(s) \in Sched /\ WellFormed(getcurrent(s))
           /\ getcurrent(s).current = s.current /\ getcurrent(s).priority = s.priority
           /\ getcurrent(s).ready = [s.ready EXCEPT ![s.current] = FALSE]
  <1>1. CASE ~s.ready[s.current]
    <2>1. getcurrent(s) = s
      BY <1>1, GetcurrentNop
    <2>2. s.ready = [s.ready EXCEPT ![s.current] = FALSE]
      BY <1>1, SchedFields
    <2> QED
      BY <2>1, <2>2
  <1>2. CASE s.ready[s.current]
    <2>1. Unlinked(s, getcurrent(s), s.current)
      BY <1>2, GetcurrentFields
    <2>2. WellFormed(getcurrent(s))
      BY <1>2, <2>1, UnlinkedWellFormed
    <2> QED
      BY <2>1, <2>2 DEF Unlinked
  <1> QED
    BY <1>1, <1>2

\* putcurrent appends the current thread, whatever the queues hold.
LEMMA EnqueuedWellFormed ==
    ASSUME NEW s \in Sched, WellFormed(s), NEW c \in Tcb, ~s.ready[c],
           NEW p, p = s.priority[c], NEW g, Enqueued(s, g, c)
    PROVE  WellFormed(g)
  <1>0. /\ g.head = IF s.tail[p] # NULL THEN s.head ELSE [s.head EXCEPT ![p] = c]
        /\ g.tail = [s.tail EXCEPT ![p] = c]
        /\ g.next = IF s.tail[p] # NULL THEN [s.next EXCEPT ![s.tail[p]] = c] ELSE s.next
        /\ g.priority = s.priority
        /\ g.ready = [s.ready EXCEPT ![c] = TRUE]
        /\ g.order = [s.order EXCEPT ![p] = Append(@, c)]
        /\ g \in Sched /\ p \in Prio
    BY SchedFields DEF Enqueued
  <1> DEFINE q == s.order[p]
  <1>1. /\ q \in Seq(Tcb) /\ Linked(s.head[p], s.next, q) /\ s.tail[p] = TailOf(q)
        /\ Distinct(q)
        /\ Range(q) = {t \in Tcb : s.ready[t] /\ s.priority[t] = p}
    BY QueueOf, <1>0
  <1>2. c \notin Range(q) /\ s.next[c] = NULL
    BY <1>1 DEF WellFormed, QueuesExact
  <1>3. (TailOf(q) = NULL <=> q = <<>>) /\ (q # <<>> => TailOf(q) \in Range(q))
    <2>1. q # <<>> => TailOf(q) = q[Len(q)] /\ Len(q) \in 1..Len(q)
      BY <1>1 DEF TailOf
    <2>2. q # <<>> => TailOf(q) \in Tcb /\ TailOf(q) \in Range(q)
      BY <1>1, <2>1, ElementsOf
    <2> QED
      BY <2>2, NullAssumption DEF TailOf
  <1>4. \A x \in Range(q) : x \in Tcb
    BY <1>1
  <1> HIDE DEF q
  <1>5. /\ \A x \in Prio : g.head[x] = IF x = p /\ q = <<>> THEN c ELSE s.head[x]
        /\ \A x \in Tcb : g.next[x] = IF q # <<>> /\ x = TailOf(q) THEN c ELSE s.next[x]
    <2>1. ASSUME q = <<>>
          PROVE  g.head = [s.head EXCEPT ![p] = c] /\ g.next = s.next
      BY <2>1, <1>0, <1>1, <1>3
    <2>2. ASSUME q # <<>>
          PROVE  g.head = s.head /\ g.next = [s.next EXCEPT ![TailOf(q)] = c]
      BY <2>2, <1>0, <1>1, <1>3
    <2>3. CASE q = <<>>
      BY <2>1, <2>3, <1>0, SchedFields, SMTT(30)
    <2>4. CASE q # <<>>
      BY <2>2, <2>4, <1>0, SchedFields
    <2> QED
      BY <2>3, <2>4
  <1>6. /\ g.next[c] = NULL
        /\ q # <<>> => g.next[TailOf(q)] = c
        /\ Agree(s.next, g.next, Range(q) \ {TailOf(q)})
        /\ g.head[p] = (IF q = <<>> THEN c ELSE s.head[p])
        /\ g.order[p] = Append(q, c) /\ g.tail[p] = c
    <2>1. g.order[p] = Append(q, c) /\ g.tail[p] = c
      BY <1>0, SchedFields DEF q
    <2>2. g.head[p] = (IF q = <<>> THEN c ELSE s.head[p])
      BY <1>0, <1>5
    <2>3. q # <<>> => TailOf(q) \in Tcb /\ TailOf(q) # c
      BY <1>2, <1>3, <1>4
    <2>4. g.next[c] = NULL /\ (q # <<>> => g.next[TailOf(q)] = c)
      BY <1>2, <1>5, <2>3
    <2>5. Agree(s.next, g.next, Range(q) \ {TailOf(q)})
      BY <1>4, <1>5 DEF Agree
    <2> QED
      BY <2>1, <2>2, <2>4, <2>5
  <1>7. /\ Linked(g.head[p], g.next, Append(q, c))
        /\ Distinct(Append(q, c))
        /\ Range(Append(q, c)) = Range(q) \cup {c}
        /\ TailOf(Append(q, c)) = c
    <2>1. IsList(g.head[p], g.next, Append(q, c), Range(q) \cup {c}, c)
      BY <1>1, <1>2, <1>6, LinkLast, NullAssumption
    <2> QED
      BY <2>1 DEF IsList
  <1>8. ASSUME NEW x \in Prio, x # p
        PROVE  /\ Linked(g.head[x], g.next, g.order[x])
               /\ g.tail[x] = TailOf(g.order[x])
               /\ Distinct(g.order[x])
               /\ Range(g.order[x]) = {t \in Tcb : g.ready[t] /\ g.priority[t] = x}
    <2>1. g.head[x] = s.head[x] /\ g.tail[x] = s.tail[x] /\ g.order[x] = s.order[x]
      <3>1. s.head \in [Prio -> TcbOrNull] /\ s.tail \in [Prio -> TcbOrNull]
            /\ s.order \in [Prio -> Seq(Tcb)]
        BY SchedFields
      <3>2. g.head[x] = s.head[x]
        BY <1>0, <1>8, <3>1
      <3>3. g.tail[x] = s.tail[x]
        BY <1>0, <1>8, <3>1
      <3>4. g.order[x] = s.order[x]
        BY <1>0, <1>8, <3>1
      <3> QED
        BY <3>2, <3>3, <3>4
    <2>2. /\ Linked(s.head[x], s.next, s.order[x]) /\ s.tail[x] = TailOf(s.order[x])
          /\ Distinct(s.order[x]) /\ s.order[x] \in Seq(Tcb)
          /\ Range(s.order[x]) = {t \in Tcb : s.ready[t] /\ s.priority[t] = x}
      BY QueueOf, <1>0
    <2>3. Range(s.order[x]) \cap Range(q) = {}
      BY <1>1, <1>8, <2>2
    <2>4. \A i \in 1..Len(s.order[x]) : s.order[x][i] \in Tcb /\ s.order[x][i] \notin Range(q)
      BY <2>2, <2>3, ElementsOf
    <2>5. \A i \in 1..Len(s.order[x]) : g.next[s.order[x][i]] = s.next[s.order[x][i]]
      BY <1>3, <1>5, <2>4
    <2>6. Linked(s.head[x], g.next, s.order[x])
      BY <2>2, <2>5 DEF Linked
    <2>7. {t \in Tcb : s.ready[t] /\ s.priority[t] = x}
             = {t \in Tcb : g.ready[t] /\ g.priority[t] = x}
      BY <1>8, SchedFields, <1>0
    <2> QED
      BY <2>1, <2>2, <2>6, <2>7
  <1>9. Range(Append(q, c)) = {t \in Tcb : g.ready[t] /\ g.priority[t] = p}
    <2>1. \A t \in Tcb : /\ g.ready[t] <=> (t = c \/ s.ready[t])
                         /\ g.priority[t] = s.priority[t]
      BY SchedFields, <1>0
    <2>2. {t \in Tcb : g.ready[t] /\ g.priority[t] = p}
             = {t \in Tcb : s.ready[t] /\ s.priority[t] = p} \cup {c}
      BY <2>1
    <2> QED
      BY <1>1, <1>7, <2>2
  <1>10. \A t \in Tcb : ~g.ready[t] => g.next[t] = NULL
    <2> SUFFICES ASSUME NEW t \in Tcb, ~g.ready[t] PROVE g.next[t] = NULL
      OBVIOUS
    <2>1. ~s.ready[t] /\ s.next[t] = NULL
      BY SchedFields, <1>0 DEF WellFormed, QueuesExact
    <2>2. t \notin Range(q)
      BY <1>1, <2>1
    <2> QED
      BY <1>1, <1>3, <1>5, <2>1, <2>2
  <1> QED
    <2>1. /\ Linked(g.head[p], g.next, g.order[p])
          /\ g.tail[p] = TailOf(g.order[p])
          /\ Distinct(g.order[p])
          /\ Range(g.order[p]) = {t \in Tcb : g.ready[t] /\ g.priority[t] = p}
      BY <1>6, <1>7, <1>9
    <2> QED
      BY <1>8, <1>10, <2>1 DEF WellFormed, QueuesLinked, QueuesExact

LEMMA PutcurrentWellFormed ==
    ASSUME NEW s \in Sched, WellFormed(s), s.current \in Tcb
    PROVE  /\ putcurrent(s) \in Sched /\ WellFormed(putcurrent(s))
           /\ putcurrent(s).current = s.current /\ putcurrent(s).priority = s.priority
           /\ putcurrent(s).ready = [s.ready EXCEPT ![s.current] = TRUE]
  <1>1. CASE s.ready[s.current]
    <2>1. putcurrent(s) = s
      BY <1>1, PutcurrentNop
    <2>2. s.ready = [s.ready EXCEPT ![s.current] = TRUE]
      BY <1>1, SchedFields
    <2> QED
      BY <2>1, <2>2
  <1>2. CASE ~s.ready[s.current]
    <2>1. Enqueued(s, putcurrent(s), s.current)
      BY <1>2, PutcurrentFields
    <2>2. WellFormed(putcurrent(s))
      BY <1>2, <2>1, EnqueuedWellFormed
    <2> QED
      BY <2>1, <2>2 DEF Enqueued
  <1> QED
    BY <1>1, <1>2

(***************************************************************************)
(* What the heap and the message boxes yield and keep.                     *)
(***************************************************************************)
LEMMA MemFields ==
    ASSUME NEW m \in Mem
    PROVE  /\ m.free \in [Pool -> BlockOrNull]
           /\ m.next \in [Block -> BlockOrNull]
           /\ m.stack \in [Pool -> Seq(Block)]
  BY DEF Mem

LEMMA PoolOfBlock ==
    ASSUME NEW b \in Block
    PROVE  PoolOf(b) \in Pool
  BY DEF Block, PoolOf

\* The pool kzmem_alloc picks is one of the pools that fit the request.
LEMMA FirstFit ==
    ASSUME NEW size, Fitting(size) # {}
    PROVE  Min(Fitting(size)) \in Pool
  <1>1. Fitting(size) \subseteq Nat
    BY MemoryAssumption DEF Fitting, Pool
  <1>2. PICK n \in Fitting(size) : \A k \in Fitting(size) : n <= k
    BY <1>1, LeastElement
  <1> QED
    BY <1>2 DEF Min, Fitting

\* An allocation that does not fail yields a block.
LEMMA AllocYieldsBlock ==
    ASSUME NEW m \in Mem, NEW size, CanAlloc(m, size)
    PROVE  AllocBlock(m, size) \in Block /\ kzmem_alloc(m, size) \in Mem
  <1> DEFINE i == Min(Fitting(size))
             a == kzmem_alloc(m, size)
  <1>1. i \in Pool /\ m.free[i] \in Block
    BY FirstFit, MemFields DEF CanAlloc, BlockOrNull
  <1>2. AllocBlock(m, size) \in Block
    BY <1>1 DEF AllocBlock
  <1>3. a = [m EXCEPT !.free[i] = m.next[m.free[i]],
                      !.next[m.free[i]] = NULL,
                      !.stack[i] = Rest(@)]
    BY DEF kzmem_alloc
  <1> HIDE DEF i, a
  <1>4. Rest(m.stack[i]) \in Seq(Block)
    BY <1>1, MemFields DEF Rest
  <1>5. /\ a.free = [m.free EXCEPT ![i] = m.next[m.free[i]]]
        /\ a.next = [m.next EXCEPT ![m.free[i]] = NULL]
        /\ a.stack = [m.stack EXCEPT ![i] = Rest(@)]
        /\ a = [free |-> a.free, next |-> a.next, stack |-> a.stack]
    BY <1>3 DEF Mem
  <1>6. /\ a.free \in [Pool -> BlockOrNull]
        /\ a.next \in [Block -> BlockOrNull]
        /\ a.stack \in [Pool -> Seq(Block)]
    BY <1>1, <1>4, <1>5, MemFields DEF BlockOrNull
  <1> QED
    BY <1>2, <1>5, <1>6 DEF Mem, a

LEMMA FreeKeepsMem ==
    ASSUME NEW m \in Mem, NEW mp \in Block
    PROVE  kzmem_free(m, mp) \in Mem
  <1> DEFINE i == PoolOf(mp)
             a == kzmem_free(m, mp)
  <1>1. i \in Pool
    BY PoolOfBlock
  <1>2. a = [m EXCEPT !.next[mp] = m.free[i], !.free[i] = mp, !.stack[i] = <<mp>> \o @]
    BY DEF kzmem_free
  <1> HIDE DEF i, a
  <1>3. <<mp>> \o m.stack[i] \in Seq(Block)
    BY <1>1, MemFields
  <1>4. /\ a.free = [m.free EXCEPT ![i] = mp]
        /\ a.next = [m.next EXCEPT ![mp] = m.free[i]]
        /\ a.stack = [m.stack EXCEPT ![i] = <<mp>> \o @]
        /\ a = [free |-> a.free, next |-> a.next, stack |-> a.stack]
    BY <1>2 DEF Mem
  <1>5. /\ a.free \in [Pool -> BlockOrNull]
        /\ a.next \in [Block -> BlockOrNull]
        /\ a.stack \in [Pool -> Seq(Block)]
    BY <1>1, <1>3, <1>4, MemFields DEF BlockOrNull
  <1> QED
    BY <1>4, <1>5 DEF Mem, a

LEMMA InitialMem == kzmem_init \in Mem
  <1>1. \A i \in Pool : PoolNum[i] \in Nat \ {0}
    BY MemoryAssumption DEF Pool
  <1>2. \A i \in Pool : <<i, 1>> \in Block
    BY <1>1 DEF Block
  <1>3. \A b \in Block : b[2] # PoolNum[b[1]] => <<b[1], b[2] + 1>> \in Block
    BY <1>1 DEF Block
  <1>4. \A i \in Pool : [j \in 1..PoolNum[i] |-> <<i, j>>] \in Seq(Block)
    <2> TAKE i \in Pool
    <2>1. PoolNum[i] \in Nat /\ \A j \in 1..PoolNum[i] : <<i, j>> \in Block
      BY <1>1 DEF Block
    <2> QED
      BY <2>1
  <1> QED
    BY <1>2, <1>3, <1>4 DEF kzmem_init, Mem, BlockOrNull

-------------------------------------------------------------------------------
LEMMA BoxesFields ==
    ASSUME NEW x \in Boxes
    PROVE  /\ x.receiver \in [Box -> TcbOrNull]
           /\ x.head \in [Box -> BlockOrNull] /\ x.tail \in [Box -> BlockOrNull]
           /\ x.next \in [Block -> BlockOrNull] /\ x.sender \in [Block -> TcbOrNull]
           /\ x.p \in [Block -> Payload \cup {NULL}] /\ x.queue \in [Box -> Seq(Block)]
  BY DEF Boxes

LEMMA SendmsgAppends ==
    ASSUME NEW x \in Boxes, NEW id \in Box, NEW mp \in Block, NEW thp \in TcbOrNull,
           NEW p \in Payload, EndsMatch(x), NEW y, y = sendmsg(x, id, mp, thp, p)
    PROVE  /\ y \in Boxes /\ EndsMatch(y)
           /\ y.receiver = x.receiver
           /\ \A j \in Box \ {id} : y.head[j] = x.head[j]
           /\ y.head[id] \in Block
           /\ x.head[id] = NULL => y.head[id] = mp
           /\ y.next[mp] = NULL
  <1>1. mp # NULL /\ mp \in BlockOrNull
    BY NullIsNoBlock DEF BlockOrNull
  <1>2. Append(x.queue[id], mp) \in Seq(Block)
    BY BoxesFields
  <1> DEFINE Fields(h, n) ==
          /\ y.receiver = x.receiver
          /\ y.head = h
          /\ y.tail = [x.tail EXCEPT ![id] = mp]
          /\ y.next = [n EXCEPT ![mp] = NULL]
          /\ y.sender = [x.sender EXCEPT ![mp] = thp]
          /\ y.p = [x.p EXCEPT ![mp] = p]
          /\ y.queue = [x.queue EXCEPT ![id] = Append(@, mp)]
          /\ y = [receiver |-> y.receiver, head |-> y.head, tail |-> y.tail,
                  next |-> y.next, sender |-> y.sender, p |-> y.p, queue |-> y.queue]
  <1>3. ASSUME x.tail[id] # NULL
        PROVE  Fields(x.head, [x.next EXCEPT ![x.tail[id]] = mp])
    <2>1. y = [x EXCEPT !.next[x.tail[id]] = mp,
                        !.next[mp]   = NULL,
                        !.sender[mp] = thp,
                        !.p[mp]      = p,
                        !.tail[id]   = mp,
                        !.queue[id]  = Append(@, mp)]
      BY <1>3 DEF sendmsg
    <2> QED
      BY <2>1 DEF Boxes
  <1>4. ASSUME x.tail[id] = NULL
        PROVE  Fields([x.head EXCEPT ![id] = mp], x.next)
    <2>1. y = [x EXCEPT !.head[id]   = mp,
                        !.next[mp]   = NULL,
                        !.sender[mp] = thp,
                        !.p[mp]      = p,
                        !.tail[id]   = mp,
                        !.queue[id]  = Append(@, mp)]
      BY <1>4 DEF sendmsg
    <2> QED
      BY <2>1 DEF Boxes
  <1>5. PICK h, n : /\ Fields(h, n)
                    /\ h \in [Box -> BlockOrNull] /\ n \in [Block -> BlockOrNull]
                    /\ \A j \in Box \ {id} : h[j] = x.head[j]
                    /\ h[id] \in Block
                    /\ x.head[id] = NULL => h[id] = mp
    <2>1. CASE x.tail[id] # NULL
      <3>1. x.head[id] # NULL
        BY <2>1 DEF EndsMatch
      <3> DEFINE h == x.head
                 n == [x.next EXCEPT ![x.tail[id]] = mp]
      <3>2. h \in [Box -> BlockOrNull] /\ h[id] \in Block /\ n \in [Block -> BlockOrNull]
        BY <1>1, <3>1, BoxesFields DEF BlockOrNull
      <3>3. Fields(h, n)
        BY <1>3, <2>1
      <3> HIDE DEF Fields, n
      <3> QED
        BY <3>1, <3>2, <3>3
    <2>2. CASE x.tail[id] = NULL
      BY <1>1, <1>4, <2>2, BoxesFields
    <2> QED
      BY <2>1, <2>2
  <1>6. y \in Boxes
    <2>1. /\ y.receiver \in [Box -> TcbOrNull]
          /\ y.head \in [Box -> BlockOrNull] /\ y.tail \in [Box -> BlockOrNull]
      BY <1>1, <1>5, BoxesFields
    <2>2. y.next \in [Block -> BlockOrNull] /\ y.sender \in [Block -> TcbOrNull]
      BY <1>1, <1>5, BoxesFields DEF BlockOrNull
    <2>3. y.p \in [Block -> Payload \cup {NULL}] /\ y.queue \in [Box -> Seq(Block)]
      BY <1>1, <1>2, <1>5, BoxesFields
    <2> QED
      BY <1>5, <2>1, <2>2, <2>3 DEF Boxes
  <1>7. EndsMatch(y)
    <2> SUFFICES ASSUME NEW j \in Box PROVE y.head[j] = NULL <=> y.tail[j] = NULL
      BY DEF EndsMatch
    <2>1. CASE j = id
      BY <1>1, <1>5, <2>1, BoxesFields, NullIsNoBlock
    <2>2. CASE j # id
      BY <1>5, <2>2, BoxesFields DEF EndsMatch
    <2> QED
      BY <2>1, <2>2
  <1> QED
    BY <1>5, <1>6, <1>7

LEMMA RecvmsgUnlinks ==
    ASSUME NEW x \in Boxes, NEW id \in Box, x.head[id] \in Block, EndsMatch(x),
           NEW y, y = recvmsg(x, id)
    PROVE  /\ y \in Boxes /\ EndsMatch(y)
           /\ y.receiver = [x.receiver EXCEPT ![id] = NULL]
           /\ \A j \in Box \ {id} : y.head[j] = x.head[j]
           /\ y.head[id] = x.next[x.head[id]]
  <1> DEFINE mp == x.head[id]
  <1>1. mp \in Block /\ mp # NULL /\ x.next[mp] \in BlockOrNull /\ x.tail[id] # NULL
    BY NullIsNoBlock, BoxesFields DEF EndsMatch
  <1>2. y = [x EXCEPT !.head[id]     = x.next[mp],
                      !.tail[id]     = IF x.next[mp] = NULL THEN NULL ELSE @,
                      !.next[mp]     = NULL,
                      !.sender[mp]   = NULL,
                      !.p[mp]        = NULL,
                      !.receiver[id] = NULL,
                      !.queue[id]    = Rest(@)]
    BY DEF recvmsg
  <1> HIDE DEF mp
  <1>3. /\ y.receiver = [x.receiver EXCEPT ![id] = NULL]
        /\ y.head = [x.head EXCEPT ![id] = x.next[mp]]
        /\ y.tail = [x.tail EXCEPT ![id] = IF x.next[mp] = NULL THEN NULL ELSE @]
        /\ y.next = [x.next EXCEPT ![mp] = NULL]
        /\ y.sender = [x.sender EXCEPT ![mp] = NULL]
        /\ y.p = [x.p EXCEPT ![mp] = NULL]
        /\ y.queue = [x.queue EXCEPT ![id] = Rest(@)]
        /\ y = [receiver |-> y.receiver, head |-> y.head, tail |-> y.tail,
                next |-> y.next, sender |-> y.sender, p |-> y.p, queue |-> y.queue]
    BY <1>2, ZenonT(30) DEF Boxes
  <1>4. Rest(x.queue[id]) \in Seq(Block)
    BY BoxesFields DEF Rest
  <1>5. NULL \in BlockOrNull /\ NULL \in TcbOrNull
    BY DEF BlockOrNull, TcbOrNull
  <1>6. y \in Boxes
    <2>1. /\ y.receiver \in [Box -> TcbOrNull]
          /\ y.head \in [Box -> BlockOrNull] /\ y.tail \in [Box -> BlockOrNull]
      BY <1>1, <1>3, <1>5, BoxesFields
    <2>2. y.next \in [Block -> BlockOrNull] /\ y.sender \in [Block -> TcbOrNull]
      BY <1>1, <1>3, <1>5, BoxesFields
    <2>3. y.p \in [Block -> Payload \cup {NULL}] /\ y.queue \in [Box -> Seq(Block)]
      BY <1>1, <1>3, <1>4, BoxesFields
    <2> QED
      BY <1>3, <2>1, <2>2, <2>3 DEF Boxes
  <1>7. EndsMatch(y)
    <2> SUFFICES ASSUME NEW j \in Box PROVE y.head[j] = NULL <=> y.tail[j] = NULL
      BY DEF EndsMatch
    <2>1. CASE j = id
      BY <1>1, <1>3, <2>1, BoxesFields
    <2>2. CASE j # id
      BY <1>3, <2>2, BoxesFields DEF EndsMatch
    <2> QED
      BY <2>1, <2>2
  <1>8. \A j \in Box \ {id} : y.head[j] = x.head[j]
    BY <1>3, BoxesFields
  <1> QED
    BY <1>3, <1>6, <1>7, <1>8, BoxesFields DEF mp

(***************************************************************************)
(* The ready queues, and the threads in them.                              *)
(***************************************************************************)
\* The queues in s are well-formed and their threads are all in L.
Good(s, L) == s \in Sched /\ WellFormed(s) /\ \A t \in Tcb : s.ready[t] => t \in L

(***************************************************************************)
(* The scheduler's data between the calls a handler is made of.            *)
(***************************************************************************)
LEMMA GoodRetarget ==
    ASSUME NEW s, NEW L, Good(s, L), NEW t \in TcbOrNull,
           NEW r, r = [s EXCEPT !.current = t]
    PROVE  Good(r, L) /\ r.current = t /\ r.priority = s.priority /\ r.ready = s.ready
  <1>1. /\ r.current = t /\ r.head = s.head /\ r.tail = s.tail /\ r.next = s.next
        /\ r.priority = s.priority /\ r.ready = s.ready /\ r.order = s.order
        /\ r \in Sched
    BY DEF Good, Sched
  <1>2. WellFormed(r)
    BY <1>1 DEF Good, WellFormed, QueuesLinked, QueuesExact
  <1> QED
    BY <1>1, <1>2 DEF Good

\* A thread in no queue may change its priority.
LEMMA GoodReprioritise ==
    ASSUME NEW s, NEW L, Good(s, L), NEW t \in Tcb, ~s.ready[t], NEW p \in Prio,
           NEW r, r = [s EXCEPT !.priority[t] = p]
    PROVE  Good(r, L) /\ r.current = s.current /\ r.ready = s.ready
  <1>1. /\ r.current = s.current /\ r.head = s.head /\ r.tail = s.tail /\ r.next = s.next
        /\ r.priority = [s.priority EXCEPT ![t] = p]
        /\ r.ready = s.ready /\ r.order = s.order
        /\ r \in Sched
    BY DEF Good, Sched
  <1>2. \A x \in Prio : {u \in Tcb : s.ready[u] /\ s.priority[u] = x}
                           = {u \in Tcb : r.ready[u] /\ r.priority[u] = x}
    BY <1>1 DEF Good, Sched
  <1>3. WellFormed(r)
    BY <1>1, <1>2 DEF Good, WellFormed, QueuesLinked, QueuesExact
  <1> QED
    BY <1>1, <1>3 DEF Good

\* The TCB of a thread in no queue may be cleared.
LEMMA GoodClear ==
    ASSUME NEW s, NEW L, Good(s, L), NEW t \in Tcb, ~s.ready[t],
           NEW r, r = ClearTcb(s, t)
    PROVE  Good(r, L) /\ r.current = s.current /\ r.ready = s.ready
  <1>1. s.ready = [s.ready EXCEPT ![t] = FALSE] /\ s.next = [s.next EXCEPT ![t] = NULL]
    BY DEF Good, Sched, WellFormed, QueuesExact
  <1>2. 0 \in Prio
    BY ThreadQueueAssumption DEF Prio
  <1>3. r = [s EXCEPT !.next[t] = NULL, !.priority[t] = 0, !.ready[t] = FALSE]
    BY DEF ClearTcb
  <1>4. /\ r.current = s.current /\ r.head = s.head /\ r.tail = s.tail /\ r.next = s.next
        /\ r.priority = [s.priority EXCEPT ![t] = 0]
        /\ r.ready = s.ready /\ r.order = s.order
        /\ r \in Sched
    <2>1. /\ r.current = s.current /\ r.head = s.head /\ r.tail = s.tail
          /\ r.next = [s.next EXCEPT ![t] = NULL]
          /\ r.priority = [s.priority EXCEPT ![t] = 0]
          /\ r.ready = [s.ready EXCEPT ![t] = FALSE] /\ r.order = s.order
          /\ r = [current |-> r.current, head |-> r.head, tail |-> r.tail, next |-> r.next,
                  priority |-> r.priority, ready |-> r.ready, order |-> r.order]
      BY <1>3 DEF Good, Sched
    <2>2. r.next = s.next /\ r.ready = s.ready
      BY <1>1, <2>1
    <2>3. r.priority \in [Tcb -> Prio]
      BY <1>2, <2>1, SchedFields DEF Good
    <2>4. r \in Sched
      BY <2>1, <2>2, <2>3, SchedFields DEF Good, Sched
    <2> QED
      BY <2>1, <2>2, <2>4
  <1>5. \A x \in Prio : {u \in Tcb : s.ready[u] /\ s.priority[u] = x}
                           = {u \in Tcb : r.ready[u] /\ r.priority[u] = x}
    BY <1>4 DEF Good, Sched
  <1>6. WellFormed(r)
    BY <1>4, <1>5 DEF Good, WellFormed, QueuesLinked, QueuesExact
  <1> QED
    BY <1>4, <1>6 DEF Good

LEMMA GoodPutcurrent ==
    ASSUME NEW s, NEW L, Good(s, L), s.current \in L \cup {NULL}, L \subseteq Tcb,
           NEW r, r = putcurrent(s)
    PROVE  /\ Good(r, L) /\ r.current = s.current /\ r.priority = s.priority
           /\ \A t \in Tcb : r.ready[t] <=> (s.ready[t] \/ t = s.current)
  <1>1. CASE s.current = NULL
    BY <1>1, PutcurrentNop, NullAssumption
  <1>2. CASE s.current \in Tcb
    <2>1. /\ r \in Sched /\ WellFormed(r) /\ r.current = s.current
          /\ r.priority = s.priority /\ r.ready = [s.ready EXCEPT ![s.current] = TRUE]
      BY <1>2, PutcurrentWellFormed DEF Good
    <2>2. \A t \in Tcb : r.ready[t] <=> (s.ready[t] \/ t = s.current)
      BY <2>1 DEF Good, Sched
    <2> QED
      BY <1>2, <2>1, <2>2, NullAssumption DEF Good
  <1> QED
    BY <1>1, <1>2

\* Whom schedule picks is the head of the best queue, and READY.
LEMMA GoodSchedule ==
    ASSUME NEW s, NEW L, Good(s, L), Runnable(s) # {}, NEW r, r = schedule(s)
    PROVE  /\ Good(r, L) /\ r.ready = s.ready
           /\ r.current \in L /\ r.current \in Tcb /\ IsElected(r, r.current)
  <1>1. PICK p \in Prio : /\ s.head[p] # NULL
                          /\ \A q \in Prio : q < p => s.head[q] = NULL
                          /\ r.current = s.head[p]
    BY ScheduleFields DEF Good
  <1>2. /\ r.head = s.head /\ r.tail = s.tail /\ r.next = s.next
        /\ r.priority = s.priority /\ r.ready = s.ready /\ r.order = s.order
        /\ r \in Sched
    BY ScheduleFields DEF Good
  <1>3. WellFormed(r)
    BY <1>2 DEF Good, WellFormed, QueuesLinked, QueuesExact
  <1> DEFINE t == s.head[p]
  <1>4. t \in Range(s.order[p])
    <2>1. s.order[p] \in Seq(Tcb) /\ Linked(s.head[p], s.next, s.order[p])
      BY QueueOf DEF Good
    <2>2. s.order[p] # <<>> /\ t = s.order[p][1] /\ Len(s.order[p]) \in Nat
      BY <1>1, <2>1 DEF Linked, HeadOf
    <2>3. Len(s.order[p]) # 0
      BY <2>1, <2>2
    <2>4. 1 \in 1..Len(s.order[p])
      BY <2>2, <2>3
    <2> QED
      BY <2>1, <2>2, <2>4, ElementsOf
  <1>5. t \in Tcb /\ s.ready[t] /\ s.priority[t] = p
    BY <1>4, QueueOf DEF Good
  <1> QED
    BY <1>1, <1>2, <1>3, <1>5 DEF Good, IsElected

-------------------------------------------------------------------------------
(***************************************************************************)
(* Entering the kernel takes the caller off its queue and nobody else.     *)
(***************************************************************************)
Active == mode = "user" \/ mode = "handler"

LEMMA CallerIsReady ==
    ASSUME KernelInv, Active
    PROVE  /\ Caller \in live \cup {NULL} /\ Caller \in TcbOrNull
           /\ Caller # NULL => Caller \in live /\ sched.ready[Caller]
           /\ mode = "user" => Caller \in Tcb /\ Caller \in live
  BY NullAssumption DEF KernelInv, TypeOK, RunsHighest, IsElected, Active, Caller, TcbOrNull

LEMMA EntryIsGood ==
    ASSUME KernelInv, Active
    PROVE  /\ Good(Entry, live) /\ Entry.current = Caller
           /\ Entry.priority = sched.priority
           /\ \A t \in Tcb : Entry.ready[t] <=> (sched.ready[t] /\ t # Caller)
  <1>1. Good(sched, live)
    BY DEF KernelInv, TypeOK, ReadyQueues, ReadyThreads, Good
  <1>2. CASE mode = "handler"
    <2>1. Entry = [sched EXCEPT !.current = NULL] /\ Caller = NULL
      BY <1>2 DEF Entry, Caller
    <2> QED
      BY <1>1, <2>1, GoodRetarget, NullAssumption DEF TcbOrNull
  <1>3. CASE mode = "user"
    <2>1. Entry = getcurrent(sched) /\ Caller = sched.current
      BY <1>3 DEF Entry, Caller
    <2>2. sched.current \in Tcb /\ IsElected(sched, sched.current)
      BY <1>3 DEF KernelInv, TypeOK, RunsHighest
    <2>3. /\ Entry \in Sched /\ WellFormed(Entry) /\ Entry.current = sched.current
          /\ Entry.priority = sched.priority
          /\ Entry.ready = [sched.ready EXCEPT ![sched.current] = FALSE]
      BY <1>1, <2>1, <2>2, GetcurrentWellFormed DEF Good, IsElected
    <2>4. \A t \in Tcb : Entry.ready[t] <=> (sched.ready[t] /\ t # Caller)
      BY <1>1, <2>1, <2>2, <2>3, SchedFields DEF Good
    <2> QED
      BY <1>1, <2>1, <2>3, <2>4 DEF Good
  <1> QED
    BY <1>2, <1>3 DEF Active

\* The caller back in its queue: the threads are those it found.
LEMMA EntryPutBack ==
    ASSUME KernelInv, Active, NEW r, r = putcurrent(Entry)
    PROVE  /\ Good(r, live) /\ r.current = Caller
           /\ \A t \in Tcb : r.ready[t] <=> sched.ready[t]
  <1>1. live \subseteq Tcb
    BY DEF KernelInv, TypeOK
  <1>2. /\ Good(r, live) /\ r.current = Caller
        /\ \A t \in Tcb : r.ready[t] <=> (Entry.ready[t] \/ t = Caller)
    BY <1>1, EntryIsGood, CallerIsReady, GoodPutcurrent
  <1> QED
    BY <1>2, EntryIsGood, CallerIsReady, NullAssumption

(***************************************************************************)
(* Leaving it: the queues are those of s, the best thread runs, and the    *)
(* parameter blocks of the threads that stay blocked are still there.      *)
(***************************************************************************)
LEMMA FinishElects ==
    ASSUME KernelInv, Active, live' \subseteq Tcb, NEW s, Good(s, live'),
           NEW call \in Blocked \cup {NULL}, Finish(s, call)
    PROVE  /\ sched' \in Sched /\ mode' \in {"user", "handler", "down"}
           /\ ReadyQueues' /\ RunsHighest' /\ sched'.ready = s.ready
           /\ syscall' \in [Tcb -> Blocked \cup {NULL}]
           /\ \A t \in Tcb : ~s.ready[t] =>
                 syscall'[t] = IF t = Caller THEN call ELSE syscall[t]
  <1>1. /\ syscall' = [t \in Tcb |-> IF s.ready[t] THEN NULL
                                     ELSE IF t = Caller THEN call ELSE syscall[t]]
        /\ syscall \in [Tcb -> Blocked \cup {NULL}]
    BY DEF Finish, KernelInv, TypeOK
  <1>2. /\ syscall' \in [Tcb -> Blocked \cup {NULL}]
        /\ \A t \in Tcb : ~s.ready[t] =>
              syscall'[t] = IF t = Caller THEN call ELSE syscall[t]
    BY <1>1
  <1>3. CASE sched' = s /\ mode' # "user" /\ mode' \in {"handler", "down"}
    BY <1>2, <1>3 DEF Good, ReadyQueues, ReadyThreads, RunsHighest
  <1>4. CASE Runnable(s) # {} /\ sched' = schedule(s) /\ mode' = "user"
    <2>1. /\ Good(sched', live') /\ sched'.ready = s.ready
          /\ sched'.current \in live' /\ IsElected(sched', sched'.current)
      BY <1>4, GoodSchedule
    <2> QED
      BY <1>2, <1>4, <2>1 DEF Good, ReadyQueues, ReadyThreads, RunsHighest
  <1> QED
    BY <1>3, <1>4 DEF Finish, Dispatch, Active

(***************************************************************************)
(* A call that touches no box: the receivers stay blocked where they were, *)
(* and the caller alone may join the blocked threads.                      *)
(***************************************************************************)
LEMMA BlockedStayBlocked ==
    ASSUME KernelInv, Active, live' \subseteq Tcb, NEW s, Good(s, live'),
           NEW call \in Blocked \cup {NULL}, Finish(s, call), ipc' = ipc,
           \A id \in Box : ipc.receiver[id] # NULL =>
               ipc.receiver[id] \in live' /\ ~s.ready[ipc.receiver[id]],
           \A t \in live' : ~s.ready[t] =>
               \/ t = Caller /\ call \in {Sleeping, RunFailed}
               \/ t # Caller /\ t \in live /\ ~sched.ready[t]
    PROVE  ReceiverWaits' /\ NoThreadForgotten' /\ EndsMatch(ipc)'
  <1>1. /\ sched'.ready = s.ready
        /\ \A t \in Tcb : ~s.ready[t] =>
              syscall'[t] = IF t = Caller THEN call ELSE syscall[t]
    BY FinishElects
  <1>2. ReceiverWaits'
    <2> SUFFICES ASSUME NEW id \in Box, ipc.receiver[id] # NULL
                 PROVE  /\ ipc.receiver[id] \in live'
                        /\ ~sched'.ready[ipc.receiver[id]]
                        /\ syscall'[ipc.receiver[id]] = Receiving(id)
                        /\ ipc.head[id] = NULL
      BY DEF ReceiverWaits, WaitsOn
    <2> DEFINE r == ipc.receiver[id]
    <2>1. /\ r \in live /\ ~sched.ready[r] /\ syscall[r] = Receiving(id)
          /\ ipc.head[id] = NULL
      BY DEF KernelInv, ReceiverWaits, WaitsOn
    <2>2. r # Caller
      BY <2>1, CallerIsReady
    <2>3. r \in Tcb /\ r \in live' /\ ~s.ready[r]
      BY <2>1 DEF KernelInv, TypeOK
    <2> QED
      BY <1>1, <2>1, <2>2, <2>3
  <1>3. NoThreadForgotten'
    <2> SUFFICES ASSUME NEW t \in live', ~sched'.ready[t]
                 PROVE  \/ syscall'[t] \in {Sleeping, RunFailed}
                        \/ \E id \in Box : syscall'[t] = Receiving(id) /\ ipc.receiver[id] = t
      BY DEF NoThreadForgotten, ReadyThreads, WaitsOn
    <2>1. t \in Tcb /\ ~s.ready[t]
      BY <1>1
    <2>2. CASE t = Caller /\ call \in {Sleeping, RunFailed}
      BY <1>1, <2>1, <2>2
    <2>3. CASE t # Caller /\ t \in live /\ ~sched.ready[t]
      <3>1. syscall'[t] = syscall[t]
        BY <1>1, <2>1, <2>3
      <3> QED
        BY <2>3, <2>1, <3>1 DEF KernelInv, NoThreadForgotten, ReadyThreads, WaitsOn
    <2> QED
      BY <2>1, <2>2, <2>3
  <1>4. EndsMatch(ipc)'
    BY DEF KernelInv, EndsMatch
  <1> QED
    BY <1>2, <1>3, <1>4

-------------------------------------------------------------------------------
\* What a step must re-establish, but for the types of the client's state.
SchedInv == /\ sched \in Sched /\ mode \in {"user", "handler", "down"}
            /\ syscall \in [Tcb -> Blocked \cup {NULL}]
            /\ ReadyQueues /\ RunsHighest /\ ReceiverWaits /\ NoThreadForgotten
            /\ EndsMatch(ipc)
ClientTypes == /\ live \subseteq Tcb /\ ipc \in Boxes /\ mem \in Mem
               /\ held \in [TcbOrNull -> SUBSET Block] /\ lost \subseteq Block
               /\ serintr \in BOOLEAN /\ masked \subseteq Tcb

LEMMA InvParts == KernelInv <=> SchedInv /\ ClientTypes
  BY DEF KernelInv, SchedInv, ClientTypes, TypeOK

LEMMA InvokeIsActive ==
    ASSUME NEW type, Invoke(type)
    PROVE  Active
  BY DEF Invoke, Active

LEMMA ReceiversAreBlocked ==
    ASSUME KernelInv, Active, NEW id \in Box, ipc.receiver[id] # NULL
    PROVE  /\ ipc.receiver[id] \in live /\ ipc.receiver[id] \in Tcb
           /\ ~sched.ready[ipc.receiver[id]] /\ ipc.receiver[id] # Caller
           /\ syscall[ipc.receiver[id]] = Receiving(id) /\ ipc.head[id] = NULL
  BY CallerIsReady DEF KernelInv, TypeOK, ReceiverWaits, WaitsOn

\* The calls that end by putting the caller back and change nobody else.
LEMMA ReturnsToCaller ==
    ASSUME KernelInv, Active, live' = live, ipc' = ipc, Finish(putcurrent(Entry), NULL)
    PROVE  SchedInv'
  <1> DEFINE s == putcurrent(Entry)
  <1>1. live' \subseteq Tcb
    BY DEF KernelInv, TypeOK
  <1>2. Good(s, live') /\ \A t \in Tcb : s.ready[t] <=> sched.ready[t]
    BY EntryPutBack
  <1> HIDE DEF s
  <1>3. Finish(s, NULL)
    BY DEF s
  <1>4. \A id \in Box : ipc.receiver[id] # NULL =>
            ipc.receiver[id] \in live' /\ ~s.ready[ipc.receiver[id]]
    BY <1>2, ReceiversAreBlocked
  <1>5. ASSUME NEW t \in live', ~s.ready[t]
        PROVE  t # Caller /\ t \in live /\ ~sched.ready[t]
    <2>1. t \in Tcb /\ t # NULL /\ ~sched.ready[t]
      BY <1>1, <1>2, <1>5, NullAssumption
    <2> QED
      BY <1>1, <2>1, CallerIsReady
  <1>6. ReceiverWaits' /\ NoThreadForgotten' /\ EndsMatch(ipc)'
    BY <1>1, <1>2, <1>3, <1>4, <1>5, BlockedStayBlocked
  <1> QED
    BY <1>1, <1>2, <1>3, <1>6, FinishElects DEF SchedInv

LEMMA KzWaitStep ==
    ASSUME KernelInv, KzWait \/ KzGetid \/ KzSetintr
    PROVE  KernelInv'
  <1>1. SchedInv'
    BY ReturnsToCaller, InvokeIsActive DEF KzWait, KzGetid, KzSetintr
  <1>2. ClientTypes'
    BY DEF KernelInv, TypeOK, ClientTypes, KzWait, KzGetid, KzSetintr
  <1> QED
    BY <1>1, <1>2, InvParts, PTL

\* kz_sysdown changes nothing but the mode.
LEMMA CrashStep ==
    ASSUME KernelInv, Crash
    PROVE  KernelInv'
  BY DEF KernelInv, TypeOK, Crash, ReadyQueues, ReadyThreads, RunsHighest, ReceiverWaits,
         WaitsOn, NoThreadForgotten, EndsMatch

LEMMA KzKmallocStep ==
    ASSUME KernelInv, NEW size, KzKmalloc(size)
    PROVE  KernelInv'
  <1>1. CASE Crash
    BY <1>1, CrashStep
  <1>2. CASE ~Crash
    <2>1. /\ CanAlloc(mem, size)
          /\ mem' = kzmem_alloc(mem, size)
          /\ held' = [held EXCEPT ![Caller] = @ \cup {AllocBlock(mem, size)}]
          /\ Finish(putcurrent(Entry), NULL)
          /\ UNCHANGED <<live, ipc, lost, serintr, masked>>
      BY <1>2 DEF KzKmalloc
    <2>2. SchedInv'
      BY <2>1, ReturnsToCaller, InvokeIsActive DEF KzKmalloc
    <2>3. mem' \in Mem /\ AllocBlock(mem, size) \in Block
      BY <2>1, AllocYieldsBlock DEF KernelInv, TypeOK
    <2>4. held' \in [TcbOrNull -> SUBSET Block]
      BY <2>1, <2>3 DEF KernelInv, TypeOK
    <2>5. ClientTypes'
      BY <2>1, <2>3, <2>4 DEF KernelInv, TypeOK, ClientTypes
    <2> QED
      BY <2>2, <2>5, InvParts, PTL
  <1> QED
    BY <1>1, <1>2

LEMMA KzKmfreeStep ==
    ASSUME KernelInv, NEW p \in Block, KzKmfree(p)
    PROVE  KernelInv'
  <1>1. SchedInv'
    BY ReturnsToCaller, InvokeIsActive DEF KzKmfree
  <1>2. mem' \in Mem
    BY FreeKeepsMem DEF KernelInv, TypeOK, KzKmfree
  <1>3. ClientTypes'
    BY <1>2 DEF KernelInv, TypeOK, ClientTypes, KzKmfree
  <1> QED
    BY <1>1, <1>3, InvParts, PTL

\* kz_sleep: the caller stays off its queue.
LEMMA KzSleepStep ==
    ASSUME KernelInv, KzSleep
    PROVE  KernelInv'
  <1>1. Active /\ Finish(Entry, Sleeping) /\ live' = live /\ ipc' = ipc
    BY InvokeIsActive DEF KzSleep
  <1>2. Good(Entry, live') /\ \A t \in Tcb : Entry.ready[t] <=> (sched.ready[t] /\ t # Caller)
    BY <1>1, EntryIsGood
  <1>3. live' \subseteq Tcb /\ Sleeping \in Blocked
    BY <1>1 DEF KernelInv, TypeOK, Sleeping, Blocked
  <1>4. \A id \in Box : ipc.receiver[id] # NULL =>
            ipc.receiver[id] \in live' /\ ~Entry.ready[ipc.receiver[id]]
    BY <1>1, <1>2, ReceiversAreBlocked
  <1>5. \A t \in live' : ~Entry.ready[t] =>
            t = Caller \/ (t # Caller /\ t \in live /\ ~sched.ready[t])
    BY <1>1, <1>2, <1>3
  <1>6. ReceiverWaits' /\ NoThreadForgotten' /\ EndsMatch(ipc)'
    BY <1>1, <1>2, <1>3, <1>4, <1>5, BlockedStayBlocked
  <1>7. SchedInv'
    BY <1>1, <1>2, <1>3, <1>6, FinishElects DEF SchedInv
  <1>8. ClientTypes'
    BY DEF KernelInv, TypeOK, ClientTypes, KzSleep
  <1> QED
    BY <1>7, <1>8, InvParts, PTL

\* kz_chpri: the caller, off its queue, joins the queue of its new priority.
LEMMA KzChpriStep ==
    ASSUME KernelInv, NEW priority \in Prio \cup {-1}, KzChpri(priority)
    PROVE  KernelInv'
  <1> DEFINE e == IF priority >= 0 THEN [Entry EXCEPT !.priority[Caller] = priority] ELSE Entry
             s == putcurrent(e)
  <1>1. Active /\ mode = "user" /\ Finish(s, NULL) /\ live' = live /\ ipc' = ipc
    BY InvokeIsActive DEF KzChpri, Invoke, ServiceCall
  <1>2. live' \subseteq Tcb /\ live \subseteq Tcb
    BY <1>1 DEF KernelInv, TypeOK
  <1>3. /\ Good(Entry, live) /\ Entry.current = Caller /\ Caller \in Tcb /\ Caller \in live
        /\ \A t \in Tcb : Entry.ready[t] <=> (sched.ready[t] /\ t # Caller)
    BY <1>1, EntryIsGood, CallerIsReady
  <1>4. Good(e, live) /\ e.current = Caller /\ e.ready = Entry.ready
    <2>1. CASE priority >= 0
      <3>1. priority \in Prio
        BY <2>1
      <3> QED
        BY <1>3, <2>1, <3>1, GoodReprioritise
    <2>2. CASE ~(priority >= 0)
      BY <1>3, <2>2
    <2> QED
      BY <2>1, <2>2
  <1> HIDE DEF e
  <1>5. Good(s, live') /\ \A t \in Tcb : s.ready[t] <=> (sched.ready[t] \/ t = Caller)
    BY <1>1, <1>2, <1>3, <1>4, GoodPutcurrent
  <1> HIDE DEF s
  <1>6. \A id \in Box : ipc.receiver[id] # NULL =>
            ipc.receiver[id] \in live' /\ ~s.ready[ipc.receiver[id]]
    BY <1>1, <1>5, ReceiversAreBlocked
  <1>7. \A t \in live' : ~s.ready[t] => t # Caller /\ t \in live /\ ~sched.ready[t]
    BY <1>1, <1>2, <1>5
  <1>8. ReceiverWaits' /\ NoThreadForgotten' /\ EndsMatch(ipc)'
    BY <1>1, <1>2, <1>5, <1>6, <1>7, BlockedStayBlocked
  <1>9. SchedInv'
    BY <1>1, <1>2, <1>5, <1>8, FinishElects DEF SchedInv
  <1>10. ClientTypes'
    BY DEF KernelInv, TypeOK, ClientTypes, KzChpri
  <1> QED
    BY <1>9, <1>10, InvParts, PTL

\* kz_wakeup, kx_wakeup: the target joins its queue unless it is in it.
LEMMA KzWakeupStep ==
    ASSUME KernelInv, ~WakeReceivers, NEW id \in Tcb, KzWakeup(id)
    PROVE  KernelInv'
  <1> DEFINE e == [putcurrent(Entry) EXCEPT !.current = id]
             s == putcurrent(e)
  <1>1. /\ Active /\ Finish(s, NULL) /\ live' = live /\ ipc' = ipc /\ id \in live
        /\ \A c \in Box : syscall[id] # Receiving(c)
    BY InvokeIsActive DEF KzWakeup
  <1>2. live' \subseteq Tcb /\ live \subseteq Tcb
    BY <1>1 DEF KernelInv, TypeOK
  <1>3. /\ Good(putcurrent(Entry), live)
        /\ \A t \in Tcb : putcurrent(Entry).ready[t] <=> sched.ready[t]
    BY <1>1, EntryPutBack
  <1>4. /\ Good(e, live) /\ e.current = id
        /\ \A t \in Tcb : e.ready[t] <=> sched.ready[t]
    BY <1>3, GoodRetarget DEF TcbOrNull
  <1> HIDE DEF e
  <1>5. Good(s, live') /\ \A t \in Tcb : s.ready[t] <=> (sched.ready[t] \/ t = id)
    BY <1>1, <1>2, <1>4, GoodPutcurrent
  <1> HIDE DEF s
  <1>6. \A c \in Box : ipc.receiver[c] # NULL =>
            ipc.receiver[c] \in live' /\ ~s.ready[ipc.receiver[c]]
    BY <1>1, <1>5, ReceiversAreBlocked
  <1>7. ASSUME NEW t \in live', ~s.ready[t]
        PROVE  t # Caller /\ t \in live /\ ~sched.ready[t]
    <2>1. t \in Tcb /\ t # NULL /\ ~sched.ready[t]
      BY <1>2, <1>5, <1>7, NullAssumption
    <2> QED
      BY <1>1, <2>1, CallerIsReady
  <1>8. ReceiverWaits' /\ NoThreadForgotten' /\ EndsMatch(ipc)'
    BY <1>1, <1>2, <1>5, <1>6, <1>7, BlockedStayBlocked
  <1>9. SchedInv'
    BY <1>1, <1>2, <1>5, <1>8, FinishElects DEF SchedInv
  <1>10. ClientTypes'
    BY DEF KernelInv, TypeOK, ClientTypes, KzWakeup
  <1> QED
    BY <1>9, <1>10, InvParts, PTL

-------------------------------------------------------------------------------
\* Threads come and go.

\* A thread ends: it was READY, so it is no receiver, and nobody else changes.
LEMMA EndOfThread ==
    ASSUME KernelInv, mode = "user",
           Finish(ClearTcb(Entry, Caller), NULL), Bury(Caller),
           UNCHANGED <<ipc, mem, serintr>>
    PROVE  KernelInv'
  <1> DEFINE s == ClearTcb(Entry, Caller)
  <1>1. Active /\ Finish(s, NULL) /\ live' = live \ {Caller} /\ ipc' = ipc
    BY DEF Active, Bury
  <1>2. live' \subseteq Tcb /\ live \subseteq Tcb
    BY <1>1 DEF KernelInv, TypeOK
  <1>3. /\ Good(Entry, live) /\ Entry.current = Caller /\ Caller \in Tcb /\ Caller \in live
        /\ \A t \in Tcb : Entry.ready[t] <=> (sched.ready[t] /\ t # Caller)
    BY <1>1, EntryIsGood, CallerIsReady
  <1>4. Good(s, live) /\ s.ready = Entry.ready
    BY <1>3, GoodClear
  <1> HIDE DEF s
  <1>5. Good(s, live')
    BY <1>1, <1>3, <1>4 DEF Good
  <1>6. \A id \in Box : ipc.receiver[id] # NULL =>
            ipc.receiver[id] \in live' /\ ~s.ready[ipc.receiver[id]]
    BY <1>1, <1>3, <1>4, ReceiversAreBlocked
  <1>7. \A t \in live' : ~s.ready[t] => t # Caller /\ t \in live /\ ~sched.ready[t]
    BY <1>1, <1>2, <1>3, <1>4
  <1>8. ReceiverWaits' /\ NoThreadForgotten' /\ EndsMatch(ipc)'
    BY <1>1, <1>2, <1>5, <1>6, <1>7, BlockedStayBlocked
  <1>9. SchedInv'
    BY <1>1, <1>2, <1>5, <1>8, FinishElects DEF SchedInv
  <1>10. ClientTypes'
    BY <1>3 DEF KernelInv, TypeOK, ClientTypes, Bury, TcbOrNull
  <1> QED
    BY <1>9, <1>10, InvParts, PTL

LEMMA KzExitStep ==
    ASSUME KernelInv, KzExit
    PROVE  KernelInv'
  <1>1. mode = "user"
    BY DEF KzExit, Invoke, ServiceCall
  <1> QED
    BY <1>1, EndOfThread DEF KzExit

LEMMA SoftErrStep ==
    ASSUME KernelInv, SoftErr
    PROVE  KernelInv'
  <1>1. mode = "user" /\ Entry = getcurrent(sched) /\ Caller = sched.current
    BY DEF SoftErr, Entry, Caller
  <1> QED
    BY <1>1, EndOfThread DEF SoftErr

\* The first free TCB, when there is one.
LEMMA FreeTcb ==
    ASSUME live \subseteq Tcb, live # Tcb
    PROVE  Min(Tcb \ live) \in Tcb \ live
  <1>1. Tcb \ live \subseteq Nat /\ Tcb \ live # {}
    <2>1. Tcb \subseteq Nat
      BY ThreadQueueAssumption DEF Tcb
    <2> QED
      BY <2>1
  <1>2. PICK n \in Tcb \ live : \A m \in Tcb \ live : n <= m
    BY <1>1, LeastElement
  <1> QED
    BY <1>2 DEF Min

LEMMA KzRunFullStep ==
    ASSUME KernelInv, NEW priority \in Prio, KzRun(priority), live = Tcb
    PROVE  KernelInv'
  <1>1. Active /\ Finish(Entry, RunFailed) /\ live' = live /\ ipc' = ipc
    BY InvokeIsActive DEF KzRun
  <1>2. Good(Entry, live') /\ \A t \in Tcb : Entry.ready[t] <=> (sched.ready[t] /\ t # Caller)
    BY <1>1, EntryIsGood
  <1>3. live' \subseteq Tcb /\ RunFailed \in Blocked
    BY <1>1 DEF KernelInv, TypeOK, RunFailed, Blocked
  <1>4. \A id \in Box : ipc.receiver[id] # NULL =>
            ipc.receiver[id] \in live' /\ ~Entry.ready[ipc.receiver[id]]
    BY <1>1, <1>2, ReceiversAreBlocked
  <1>5. \A t \in live' : ~Entry.ready[t] =>
            t = Caller \/ (t # Caller /\ t \in live /\ ~sched.ready[t])
    BY <1>1, <1>2, <1>3
  <1>6. ReceiverWaits' /\ NoThreadForgotten' /\ EndsMatch(ipc)'
    BY <1>1, <1>2, <1>3, <1>4, <1>5, BlockedStayBlocked
  <1>7. SchedInv'
    BY <1>1, <1>2, <1>3, <1>6, FinishElects DEF SchedInv
  <1>8. ClientTypes'
    BY DEF KernelInv, TypeOK, ClientTypes, KzRun
  <1> QED
    BY <1>7, <1>8, InvParts, PTL

LEMMA KzRunNewStep ==
    ASSUME KernelInv, NEW priority \in Prio, KzRun(priority), live # Tcb
    PROVE  KernelInv'
  <1> DEFINE thp == Min(Tcb \ live)
             e == putcurrent(Entry)
             c == ClearTcb(e, thp)
             r == [c EXCEPT !.priority[thp] = priority]
             n == [r EXCEPT !.current = thp]
             s == putcurrent(n)
  <1>1. /\ Active /\ Finish(s, NULL) /\ live' = live \cup {thp} /\ ipc' = ipc
        /\ masked' = IF priority = 0 THEN masked \cup {thp} ELSE masked
        /\ UNCHANGED <<mem, held, lost, serintr>>
    BY InvokeIsActive DEF KzRun
  <1>2. thp \in Tcb \ live
    BY FreeTcb DEF KernelInv, TypeOK
  <1>3. Good(e, live) /\ \A t \in Tcb : e.ready[t] <=> sched.ready[t]
    BY <1>1, EntryPutBack
  <1> HIDE DEF thp, e
  <1>4. ~e.ready[thp]
    BY <1>2, <1>3 DEF Good
  <1>5. Good(c, live) /\ c.ready = e.ready
    BY <1>2, <1>3, <1>4, GoodClear
  <1> HIDE DEF c
  <1>6. Good(r, live) /\ r.ready = e.ready
    BY <1>2, <1>4, <1>5, GoodReprioritise
  <1> HIDE DEF r
  <1>7. Good(n, live) /\ n.ready = e.ready /\ n.current = thp
    BY <1>2, <1>6, GoodRetarget DEF TcbOrNull
  <1> HIDE DEF n
  <1>8. live' \subseteq Tcb /\ live \subseteq Tcb
    BY <1>1, <1>2 DEF KernelInv, TypeOK
  <1>9. Good(n, live')
    BY <1>1, <1>7 DEF Good
  <1>10. Good(s, live') /\ \A t \in Tcb : s.ready[t] <=> (sched.ready[t] \/ t = thp)
    BY <1>1, <1>3, <1>7, <1>8, <1>9, GoodPutcurrent
  <1> HIDE DEF s
  <1>11. \A id \in Box : ipc.receiver[id] # NULL =>
            ipc.receiver[id] \in live' /\ ~s.ready[ipc.receiver[id]]
    BY <1>1, <1>2, <1>10, ReceiversAreBlocked
  <1>12. ASSUME NEW t \in live', ~s.ready[t]
         PROVE  t # Caller /\ t \in live /\ ~sched.ready[t]
    <2>1. t \in Tcb /\ t # NULL /\ ~sched.ready[t] /\ t # thp
      BY <1>8, <1>10, <1>12, NullAssumption
    <2> QED
      BY <1>1, <2>1, CallerIsReady
  <1>13. ReceiverWaits' /\ NoThreadForgotten' /\ EndsMatch(ipc)'
    BY <1>1, <1>8, <1>10, <1>11, <1>12, BlockedStayBlocked
  <1>14. SchedInv'
    BY <1>1, <1>8, <1>10, <1>13, FinishElects DEF SchedInv
  <1>15. ClientTypes'
    BY <1>1, <1>2, <1>8 DEF KernelInv, TypeOK, ClientTypes
  <1> QED
    BY <1>14, <1>15, InvParts, PTL

LEMMA InterruptStep ==
    ASSUME KernelInv, Interrupt
    PROVE  KernelInv'
  <1>1. CASE IntrEnter
    BY <1>1 DEF IntrEnter, KernelInv, TypeOK, ReadyQueues, ReadyThreads, RunsHighest,
           ReceiverWaits, WaitsOn, NoThreadForgotten, EndsMatch
  <1>2. CASE IntrMask
    BY <1>2 DEF IntrMask, KernelInv, TypeOK, ReadyQueues, ReadyThreads, RunsHighest,
           ReceiverWaits, WaitsOn, NoThreadForgotten, EndsMatch
  <1>3. CASE IntrLeave
    <2>1. /\ Good(sched, live) /\ Dispatch(sched) /\ mode = "handler"
          /\ UNCHANGED <<live, syscall, ipc, mem, held, lost, serintr, masked>>
      BY <1>3 DEF IntrLeave, KernelInv, TypeOK, ReadyQueues, ReadyThreads, Good
    <2>2. /\ Good(sched', live) /\ sched'.ready = sched.ready
          /\ mode' \in {"user", "down"}
          /\ mode' = "user" => sched'.current \in live /\ IsElected(sched', sched'.current)
      BY <2>1, GoodSchedule DEF Dispatch
    <2>3. SchedInv'
      BY <2>1, <2>2 DEF SchedInv, KernelInv, TypeOK, Good, ReadyQueues, ReadyThreads,
             RunsHighest, ReceiverWaits, WaitsOn, NoThreadForgotten, EndsMatch
    <2>4. ClientTypes'
      BY <2>1 DEF KernelInv, TypeOK, ClientTypes
    <2> QED
      BY <2>3, <2>4, InvParts, PTL
  <1> QED
    BY <1>1, <1>2, <1>3 DEF Interrupt

-------------------------------------------------------------------------------
\* Messages.

\* What Give and Take make of the clients' blocks are still sets of blocks.
LEMMA HeldTypes ==
    ASSUME NEW h \in [TcbOrNull -> SUBSET Block], NEW t \in TcbOrNull, NEW p
    PROVE  /\ Give(h, t, p) \in [TcbOrNull -> SUBSET Block]
           /\ Take(h, t, p) \in [TcbOrNull -> SUBSET Block]
  BY DEF Give, Take

\* A send to a box nobody waits on only adds a buffer.
LEMMA KzSendQueueStep ==
    ASSUME KernelInv, NEW id \in Box, NEW p \in Payload, Active,
           CanAlloc(mem, MSGBUF), ipc.receiver[id] = NULL,
           ipc' = sendmsg(ipc, id, AllocBlock(mem, MSGBUF), putcurrent(Entry).current, p),
           mem' = kzmem_alloc(mem, MSGBUF),
           held' = Take(held, Caller, p),
           Finish(putcurrent(Entry), NULL),
           UNCHANGED <<live, lost, serintr, masked>>
    PROVE  KernelInv'
  <1> DEFINE s == putcurrent(Entry)
             mp == AllocBlock(mem, MSGBUF)
  <1>1. /\ Good(s, live) /\ s.current = Caller
        /\ \A t \in Tcb : s.ready[t] <=> sched.ready[t]
    BY EntryPutBack
  <1> HIDE DEF s
  <1>2. Finish(s, NULL) /\ ipc' = sendmsg(ipc, id, mp, Caller, p)
    BY <1>1 DEF s
  <1>3. Caller \in TcbOrNull /\ mp \in Block /\ mem' \in Mem
    BY CallerIsReady, AllocYieldsBlock DEF KernelInv, TypeOK
  <1> HIDE DEF mp
  <1>4. /\ ipc' \in Boxes /\ EndsMatch(ipc') /\ ipc'.receiver = ipc.receiver
        /\ \A j \in Box \ {id} : ipc'.head[j] = ipc.head[j]
    BY <1>2, <1>3, SendmsgAppends DEF KernelInv, TypeOK
  <1>5. live' = live /\ live' \subseteq Tcb
    BY DEF KernelInv, TypeOK
  <1>6. /\ sched' \in Sched /\ mode' \in {"user", "handler", "down"}
        /\ ReadyQueues' /\ RunsHighest' /\ sched'.ready = s.ready
        /\ syscall' \in [Tcb -> Blocked \cup {NULL}]
        /\ \A t \in Tcb : ~s.ready[t] =>
              syscall'[t] = IF t = Caller THEN NULL ELSE syscall[t]
    BY <1>1, <1>2, <1>5, FinishElects
  <1>7. ASSUME NEW t \in live, ~sched.ready[t]
        PROVE  syscall'[t] = syscall[t] /\ t # Caller /\ t \in Tcb
    <2>1. t \in Tcb /\ t # NULL
      BY <1>5, NullAssumption
    <2> QED
      BY <1>1, <1>6, <1>7, <2>1, CallerIsReady
  <1>8. ReceiverWaits'
    <2> SUFFICES ASSUME NEW j \in Box, ipc'.receiver[j] # NULL
                 PROVE  /\ ipc'.receiver[j] \in live'
                        /\ ~sched'.ready[ipc'.receiver[j]]
                        /\ syscall'[ipc'.receiver[j]] = Receiving(j)
                        /\ ipc'.head[j] = NULL
      BY DEF ReceiverWaits, WaitsOn
    <2>1. ipc'.receiver[j] = ipc.receiver[j] /\ j # id
      BY <1>4
    <2>2. /\ ipc.receiver[j] \in live /\ ipc.receiver[j] \in Tcb
          /\ ~sched.ready[ipc.receiver[j]]
          /\ syscall[ipc.receiver[j]] = Receiving(j) /\ ipc.head[j] = NULL
      BY <2>1, ReceiversAreBlocked
    <2> QED
      BY <1>1, <1>4, <1>5, <1>6, <1>7, <2>1, <2>2
  <1>9. NoThreadForgotten'
    <2> SUFFICES ASSUME NEW t \in live', ~sched'.ready[t]
                 PROVE  \/ syscall'[t] \in {Sleeping, RunFailed}
                        \/ \E j \in Box : syscall'[t] = Receiving(j) /\ ipc'.receiver[j] = t
      BY <1>5 DEF NoThreadForgotten, ReadyThreads, WaitsOn
    <2>1. t \in Tcb /\ t \in live /\ ~sched.ready[t]
      BY <1>1, <1>5, <1>6
    <2>2. syscall'[t] = syscall[t]
      BY <1>7, <2>1
    <2> QED
      BY <1>4, <2>1, <2>2 DEF KernelInv, NoThreadForgotten, ReadyThreads, WaitsOn
  <1>10. SchedInv'
    BY <1>4, <1>6, <1>8, <1>9 DEF SchedInv
  <1>11. ClientTypes'
    BY <1>3, <1>4, HeldTypes DEF KernelInv, TypeOK, ClientTypes
  <1> QED
    BY <1>10, <1>11, InvParts, PTL

\* A send to a waiting receiver: the message passes through the empty box, and
\* the receiver is READY again.
LEMMA KzSendHandOverStep ==
    ASSUME KernelInv, NEW id \in Box, NEW p \in Payload, Active,
           CanAlloc(mem, MSGBUF), NEW r, r = ipc.receiver[id], r # NULL, NEW sent,
           sent = sendmsg(ipc, id, AllocBlock(mem, MSGBUF), putcurrent(Entry).current, p),
           ipc' = recvmsg(sent, id),
           mem' = kzmem_free(kzmem_alloc(mem, MSGBUF), sent.head[id]),
           held' = Give(Take(held, Caller, p), r, sent.p[sent.head[id]]),
           Finish(putcurrent([putcurrent(Entry) EXCEPT !.current = r]), NULL),
           UNCHANGED <<live, lost, serintr, masked>>
    PROVE  KernelInv'
  <1> DEFINE e == putcurrent(Entry)
             n == [e EXCEPT !.current = r]
             s == putcurrent(n)
             mp == AllocBlock(mem, MSGBUF)
  <1>1. /\ Good(e, live) /\ e.current = Caller
        /\ \A t \in Tcb : e.ready[t] <=> sched.ready[t]
    BY EntryPutBack
  <1>2. /\ r \in live /\ r \in Tcb /\ r # Caller /\ ~sched.ready[r]
        /\ syscall[r] = Receiving(id) /\ ipc.head[id] = NULL
    BY ReceiversAreBlocked
  <1> HIDE DEF e
  <1>3. Good(n, live) /\ n.ready = e.ready /\ n.current = r
    BY <1>1, <1>2, GoodRetarget DEF TcbOrNull
  <1> HIDE DEF n
  <1>4. live' = live /\ live' \subseteq Tcb /\ live \subseteq Tcb
    BY DEF KernelInv, TypeOK
  <1>5. Good(s, live) /\ \A t \in Tcb : s.ready[t] <=> (sched.ready[t] \/ t = r)
    BY <1>1, <1>2, <1>3, <1>4, GoodPutcurrent
  <1> HIDE DEF s
  <1>6. Finish(s, NULL) /\ sent = sendmsg(ipc, id, mp, Caller, p)
    BY <1>1 DEF s, n, e
  <1>7. Caller \in TcbOrNull /\ mp \in Block /\ kzmem_alloc(mem, MSGBUF) \in Mem
    BY CallerIsReady, AllocYieldsBlock DEF KernelInv, TypeOK
  <1> HIDE DEF mp
  <1>8. /\ sent \in Boxes /\ EndsMatch(sent) /\ sent.receiver = ipc.receiver
        /\ \A j \in Box \ {id} : sent.head[j] = ipc.head[j]
        /\ sent.head[id] = mp /\ sent.next[mp] = NULL
    BY <1>2, <1>6, <1>7, SendmsgAppends DEF KernelInv, TypeOK
  <1>9. /\ ipc' \in Boxes /\ EndsMatch(ipc')
        /\ ipc'.receiver = [ipc.receiver EXCEPT ![id] = NULL]
        /\ \A j \in Box \ {id} : ipc'.head[j] = ipc.head[j]
    BY <1>7, <1>8, RecvmsgUnlinks
  <1>10. mem' \in Mem
    BY <1>7, <1>8, FreeKeepsMem
  <1>11. /\ sched' \in Sched /\ mode' \in {"user", "handler", "down"}
         /\ ReadyQueues' /\ RunsHighest' /\ sched'.ready = s.ready
         /\ syscall' \in [Tcb -> Blocked \cup {NULL}]
         /\ \A t \in Tcb : ~s.ready[t] =>
               syscall'[t] = IF t = Caller THEN NULL ELSE syscall[t]
    BY <1>4, <1>5, <1>6, FinishElects
  <1>12. ASSUME NEW t \in live, ~sched.ready[t], t # r
         PROVE  syscall'[t] = syscall[t] /\ t \in Tcb /\ ~sched'.ready[t]
    <2>1. t \in Tcb /\ t # NULL
      BY <1>4, NullAssumption
    <2>2. ~s.ready[t] /\ t # Caller
      BY <1>5, <1>12, <2>1, CallerIsReady
    <2> QED
      BY <1>11, <2>1, <2>2
  <1>13. ReceiverWaits'
    <2> SUFFICES ASSUME NEW j \in Box, ipc'.receiver[j] # NULL
                 PROVE  /\ ipc'.receiver[j] \in live'
                        /\ ~sched'.ready[ipc'.receiver[j]]
                        /\ syscall'[ipc'.receiver[j]] = Receiving(j)
                        /\ ipc'.head[j] = NULL
      BY DEF ReceiverWaits, WaitsOn
    <2>1. j # id /\ ipc'.receiver[j] = ipc.receiver[j]
      BY <1>9, BoxesFields DEF KernelInv, TypeOK
    <2>2. /\ ipc.receiver[j] \in live /\ ~sched.ready[ipc.receiver[j]]
          /\ syscall[ipc.receiver[j]] = Receiving(j) /\ ipc.head[j] = NULL
      BY <2>1, ReceiversAreBlocked
    <2>3. ipc.receiver[j] # r
      BY <1>2, <2>1, <2>2 DEF Receiving
    <2> QED
      BY <1>4, <1>9, <1>12, <2>1, <2>2, <2>3
  <1>14. NoThreadForgotten'
    <2> SUFFICES ASSUME NEW t \in live', ~sched'.ready[t]
                 PROVE  \/ syscall'[t] \in {Sleeping, RunFailed}
                        \/ \E j \in Box : syscall'[t] = Receiving(j) /\ ipc'.receiver[j] = t
      BY <1>4 DEF NoThreadForgotten, ReadyThreads, WaitsOn
    <2>1. t \in Tcb /\ t \in live /\ ~sched.ready[t] /\ t # r
      BY <1>4, <1>5, <1>11
    <2>2. syscall'[t] = syscall[t]
      BY <1>12, <2>1
    <2>3. CASE syscall[t] \in {Sleeping, RunFailed}
      BY <2>2, <2>3
    <2>4. CASE \E j \in Box : syscall[t] = Receiving(j) /\ ipc.receiver[j] = t
      <3>1. PICK j \in Box : syscall[t] = Receiving(j) /\ ipc.receiver[j] = t
        BY <2>4
      <3>2. ipc'.receiver[j] = t
        BY <1>9, <2>1, <3>1, BoxesFields DEF KernelInv, TypeOK
      <3> QED
        BY <2>2, <3>1, <3>2
    <2> QED
      BY <2>1, <2>3, <2>4 DEF KernelInv, NoThreadForgotten, ReadyThreads, WaitsOn
  <1>15. SchedInv'
    BY <1>9, <1>11, <1>13, <1>14 DEF SchedInv
  <1>16. held' \in [TcbOrNull -> SUBSET Block]
    <2>1. Take(held, Caller, p) \in [TcbOrNull -> SUBSET Block]
      BY <1>7, HeldTypes DEF KernelInv, TypeOK
    <2>2. r \in TcbOrNull
      BY <1>2 DEF TcbOrNull
    <2> QED
      BY <2>1, <2>2, HeldTypes
  <1>17. ClientTypes'
    BY <1>9, <1>10, <1>16 DEF KernelInv, TypeOK, ClientTypes
  <1> QED
    BY <1>15, <1>17, InvParts, PTL

LEMMA KzSendStep ==
    ASSUME KernelInv, NEW id \in Box, NEW p \in Payload, KzSend(id, p)
    PROVE  KernelInv'
  <1>1. Active
    BY InvokeIsActive DEF KzSend
  <1> QED
    BY <1>1, CrashStep, KzSendQueueStep, KzSendHandOverStep DEF KzSend

\* A receive from an empty box: the caller becomes the receiver and blocks.
LEMMA KzRecvBlocksStep ==
    ASSUME KernelInv, NEW id \in Box, mode = "user",
           ipc.receiver[id] = NULL, ipc.head[id] = NULL,
           ipc' = [ipc EXCEPT !.receiver[id] = Caller],
           Finish(Entry, Receiving(id)),
           UNCHANGED <<live, mem, held, lost, serintr, masked>>
    PROVE  KernelInv'
  <1>1. /\ Active /\ Caller \in Tcb /\ Caller \in live /\ sched.ready[Caller]
        /\ Caller # NULL
    BY CallerIsReady, NullAssumption DEF Active
  <1>2. Good(Entry, live) /\ \A t \in Tcb : Entry.ready[t] <=> (sched.ready[t] /\ t # Caller)
    BY <1>1, EntryIsGood
  <1>3. live' = live /\ live' \subseteq Tcb /\ Receiving(id) \in Blocked
    BY DEF KernelInv, TypeOK, Receiving, Blocked
  <1>4. /\ sched' \in Sched /\ mode' \in {"user", "handler", "down"}
        /\ ReadyQueues' /\ RunsHighest' /\ sched'.ready = Entry.ready
        /\ syscall' \in [Tcb -> Blocked \cup {NULL}]
        /\ \A t \in Tcb : ~Entry.ready[t] =>
              syscall'[t] = IF t = Caller THEN Receiving(id) ELSE syscall[t]
    BY <1>1, <1>2, <1>3, FinishElects
  <1>5. /\ ipc' \in Boxes /\ ipc'.receiver = [ipc.receiver EXCEPT ![id] = Caller]
        /\ ipc'.head = ipc.head /\ ipc'.tail = ipc.tail
    BY <1>1 DEF KernelInv, TypeOK, Boxes, TcbOrNull
  <1>6. ipc.receiver \in [Box -> TcbOrNull]
    BY BoxesFields DEF KernelInv, TypeOK
  <1>7. ReceiverWaits'
    <2> SUFFICES ASSUME NEW j \in Box, ipc'.receiver[j] # NULL
                 PROVE  /\ ipc'.receiver[j] \in live'
                        /\ ~sched'.ready[ipc'.receiver[j]]
                        /\ syscall'[ipc'.receiver[j]] = Receiving(j)
                        /\ ipc'.head[j] = NULL
      BY DEF ReceiverWaits, WaitsOn
    <2>1. CASE j = id
      BY <1>1, <1>2, <1>3, <1>4, <1>5, <1>6, <2>1
    <2>2. CASE j # id
      <3>1. ipc'.receiver[j] = ipc.receiver[j]
        BY <1>5, <1>6, <2>2
      <3>2. /\ ipc.receiver[j] \in live /\ ipc.receiver[j] \in Tcb
            /\ ~sched.ready[ipc.receiver[j]] /\ ipc.receiver[j] # Caller
            /\ syscall[ipc.receiver[j]] = Receiving(j) /\ ipc.head[j] = NULL
        BY <1>1, <3>1, ReceiversAreBlocked
      <3> QED
        BY <1>2, <1>3, <1>4, <1>5, <3>1, <3>2
    <2> QED
      BY <2>1, <2>2
  <1>8. NoThreadForgotten'
    <2> SUFFICES ASSUME NEW t \in live', ~sched'.ready[t]
                 PROVE  \/ syscall'[t] \in {Sleeping, RunFailed}
                        \/ \E j \in Box : syscall'[t] = Receiving(j) /\ ipc'.receiver[j] = t
      BY <1>3 DEF NoThreadForgotten, ReadyThreads, WaitsOn
    <2>1. t \in Tcb /\ t \in live /\ ~Entry.ready[t]
      BY <1>3, <1>4
    <2>2. CASE t = Caller
      BY <1>4, <1>5, <1>6, <2>1, <2>2
    <2>3. CASE t # Caller
      <3>1. syscall'[t] = syscall[t] /\ ~sched.ready[t]
        BY <1>2, <1>4, <2>1, <2>3
      <3>2. CASE syscall[t] \in {Sleeping, RunFailed}
        BY <3>1, <3>2
      <3>3. CASE \E j \in Box : syscall[t] = Receiving(j) /\ ipc.receiver[j] = t
        <4>1. PICK j \in Box : syscall[t] = Receiving(j) /\ ipc.receiver[j] = t
          BY <3>3
        <4>2. j # id
          BY <2>1, <4>1, NullAssumption
        <4>3. ipc'.receiver[j] = t
          BY <1>5, <1>6, <4>1, <4>2
        <4> QED
          BY <3>1, <4>1, <4>3
      <3> QED
        BY <2>1, <3>1, <3>2, <3>3
           DEF KernelInv, NoThreadForgotten, ReadyThreads, WaitsOn
    <2> QED
      BY <2>2, <2>3
  <1>9. EndsMatch(ipc)'
    BY <1>5 DEF KernelInv, EndsMatch
  <1>10. SchedInv'
    BY <1>4, <1>7, <1>8, <1>9 DEF SchedInv
  <1>11. ClientTypes'
    BY <1>3, <1>5 DEF KernelInv, TypeOK, ClientTypes
  <1> QED
    BY <1>10, <1>11, InvParts, PTL

\* A receive from a box with messages returns to the caller at once.
LEMMA KzRecvMessageStep ==
    ASSUME KernelInv, NEW id \in Box, Active,
           ipc.receiver[id] = NULL, NEW mp, mp = ipc.head[id], mp # NULL, NEW waiting,
           waiting \in Boxes, EndsMatch(waiting), waiting.head = ipc.head,
           waiting.receiver = [ipc.receiver EXCEPT ![id] = Caller],
           ipc' = recvmsg(waiting, id),
           mem' = kzmem_free(mem, mp),
           held' = Give(held, Caller, ipc.p[mp]),
           Finish(putcurrent(Entry), NULL),
           UNCHANGED <<live, lost, serintr, masked>>
    PROVE  KernelInv'
  <1> DEFINE s == putcurrent(Entry)
  <1>1. Good(s, live) /\ \A t \in Tcb : s.ready[t] <=> sched.ready[t]
    BY EntryPutBack
  <1> HIDE DEF s
  <1>2. Finish(s, NULL) /\ live' = live /\ live' \subseteq Tcb
    BY DEF s, KernelInv, TypeOK
  <1>3. /\ sched' \in Sched /\ mode' \in {"user", "handler", "down"}
        /\ ReadyQueues' /\ RunsHighest' /\ sched'.ready = s.ready
        /\ syscall' \in [Tcb -> Blocked \cup {NULL}]
        /\ \A t \in Tcb : ~s.ready[t] =>
              syscall'[t] = IF t = Caller THEN NULL ELSE syscall[t]
    BY <1>1, <1>2, FinishElects
  <1>4. /\ Caller \in TcbOrNull /\ mp \in Block /\ ipc.receiver \in [Box -> TcbOrNull]
    BY CallerIsReady, BoxesFields DEF KernelInv, TypeOK, BlockOrNull
  <1>6. /\ ipc' \in Boxes
        /\ ipc'.receiver = [waiting.receiver EXCEPT ![id] = NULL]
        /\ \A j \in Box \ {id} : ipc'.head[j] = waiting.head[j]
        /\ EndsMatch(ipc')
    <2>1. waiting.head[id] \in Block
      BY <1>4
    <2> QED
      BY <2>1, RecvmsgUnlinks, SMTT(30)
  <1>7. ipc'.receiver = ipc.receiver
    BY <1>4, <1>6
  <1>8. ASSUME NEW t \in live, ~sched.ready[t]
        PROVE  syscall'[t] = syscall[t] /\ t # Caller /\ t \in Tcb
    <2>1. t \in Tcb /\ t # NULL
      BY <1>2, NullAssumption
    <2> QED
      BY <1>1, <1>3, <1>8, <2>1, CallerIsReady
  <1>9. ReceiverWaits'
    <2> SUFFICES ASSUME NEW j \in Box, ipc'.receiver[j] # NULL
                 PROVE  /\ ipc'.receiver[j] \in live'
                        /\ ~sched'.ready[ipc'.receiver[j]]
                        /\ syscall'[ipc'.receiver[j]] = Receiving(j)
                        /\ ipc'.head[j] = NULL
      BY DEF ReceiverWaits, WaitsOn
    <2>1. ipc'.receiver[j] = ipc.receiver[j] /\ j # id
      BY <1>7
    <2>2. /\ ipc.receiver[j] \in live /\ ipc.receiver[j] \in Tcb
          /\ ~sched.ready[ipc.receiver[j]]
          /\ syscall[ipc.receiver[j]] = Receiving(j) /\ ipc.head[j] = NULL
      BY <2>1, ReceiversAreBlocked
    <2> QED
      BY <1>1, <1>2, <1>3, <1>6, <1>8, <2>1, <2>2
  <1>10. NoThreadForgotten'
    <2> SUFFICES ASSUME NEW t \in live', ~sched'.ready[t]
                 PROVE  \/ syscall'[t] \in {Sleeping, RunFailed}
                        \/ \E j \in Box : syscall'[t] = Receiving(j) /\ ipc'.receiver[j] = t
      BY <1>2 DEF NoThreadForgotten, ReadyThreads, WaitsOn
    <2>1. t \in Tcb /\ t \in live /\ ~sched.ready[t]
      BY <1>1, <1>2, <1>3
    <2>2. syscall'[t] = syscall[t]
      BY <1>8, <2>1
    <2> QED
      BY <1>7, <2>1, <2>2 DEF KernelInv, NoThreadForgotten, ReadyThreads, WaitsOn
  <1>11. SchedInv'
    BY <1>3, <1>6, <1>9, <1>10 DEF SchedInv
  <1>12. mem' \in Mem
    BY <1>4, FreeKeepsMem DEF KernelInv, TypeOK
  <1>13. ClientTypes'
    BY <1>4, <1>6, <1>12, HeldTypes DEF KernelInv, TypeOK, ClientTypes
  <1> QED
    BY <1>11, <1>13, InvParts, PTL

LEMMA KzRecvStep ==
    ASSUME KernelInv, NEW id \in Box, KzRecv(id)
    PROVE  KernelInv'
  <1> DEFINE waiting == [ipc EXCEPT !.receiver[id] = Caller]
  <1>1. mode = "user" /\ Active
    BY DEF KzRecv, Invoke, ServiceCall, Active
  <1>2. /\ waiting \in Boxes /\ EndsMatch(waiting) /\ waiting.head = ipc.head
        /\ waiting.receiver = [ipc.receiver EXCEPT ![id] = Caller]
    BY <1>1, CallerIsReady DEF KernelInv, TypeOK, Boxes, EndsMatch
  <1> QED
    BY <1>1, <1>2, CrashStep, KzRecvBlocksStep, KzRecvMessageStep DEF KzRecv

-------------------------------------------------------------------------------
\* kz_start leaves the initial thread alone in its queue.
LEMMA InitStep ==
    ASSUME Init
    PROVE  KernelInv
  <1> DEFINE c == [ClearedSched EXCEPT !.current = 0]
  <1>1. 0 \in Tcb /\ 0 \in Prio
    BY ThreadQueueAssumption DEF Tcb, Prio
  <1>2. Good(ClearedSched, live)
    <2> DEFINE z == ClearedSched
    <2>1. /\ z.current = NULL /\ z.head = [p \in Prio |-> NULL] /\ z.tail = [p \in Prio |-> NULL]
          /\ z.next = [t \in Tcb |-> NULL] /\ z.priority = [t \in Tcb |-> 0]
          /\ z.ready = [t \in Tcb |-> FALSE] /\ z.order = [p \in Prio |-> <<>>]
      BY DEF ClearedSched
    <2>2. z \in Sched
      BY <1>1 DEF ClearedSched, Sched, TcbOrNull
    <2> HIDE DEF z
    <2>3. QueuesLinked(z)
      BY <2>1 DEF QueuesLinked, Linked, HeadOf, TailOf, Distinct
    <2>4. QueuesExact(z)
      BY <2>1 DEF QueuesExact, Range
    <2> QED
      BY <2>1, <2>2, <2>3, <2>4 DEF Good, WellFormed, z
  <1>3. /\ Good(c, live) /\ c.current = 0 /\ c \in Sched
        /\ c.priority = [t \in Tcb |-> 0] /\ c.ready = [t \in Tcb |-> FALSE]
        /\ c.head = [p \in Prio |-> NULL] /\ c.tail = [p \in Prio |-> NULL]
    <2>1. Good(c, live) /\ c.current = 0
      BY <1>1, <1>2, GoodRetarget DEF TcbOrNull
    <2>2. /\ c.priority = [t \in Tcb |-> 0] /\ c.ready = [t \in Tcb |-> FALSE]
          /\ c.head = [p \in Prio |-> NULL] /\ c.tail = [p \in Prio |-> NULL]
      BY DEF ClearedSched
    <2> HIDE DEF c
    <2> QED
      BY <2>1, <2>2 DEF Good
  <1>4. sched = putcurrent(c) /\ live = {0} /\ mode = "user"
    BY DEF Init
  <1> HIDE DEF c
  <1>5. /\ Good(sched, live) /\ sched.priority = c.priority
        /\ \A t \in Tcb : sched.ready[t] <=> t = 0
    BY <1>1, <1>3, <1>4, GoodPutcurrent
  <1>6. IsElected(sched, 0) /\ sched.current = 0
    <2>1. sched.ready[0] /\ sched.priority[0] = 0
      BY <1>1, <1>3, <1>5
    <2>2. Enqueued(c, sched, 0)
      BY <1>1, <1>3, <1>4, PutcurrentFields
    <2>3. sched.head[0] = 0 /\ sched.current = 0
      BY <1>1, <1>3, <2>2, NullAssumption DEF Enqueued
    <2> QED
      BY <2>1, <2>3, ThreadQueueAssumption DEF IsElected, Prio
  <1>7. SchedInv
    BY <1>1, <1>4, <1>5, <1>6, NullAssumption
       DEF Init, SchedInv, Good, ReadyQueues, ReadyThreads, RunsHighest, ReceiverWaits,
           NoThreadForgotten, EndsMatch, ClearedBoxes
  <1>8. ipc \in Boxes
    BY DEF Init, ClearedBoxes, Boxes, TcbOrNull, BlockOrNull
  <1>9. ClientTypes
    BY <1>1, <1>8, InitialMem DEF Init, ClientTypes
  <1> QED
    BY <1>7, <1>9, InvParts

\* Every step of the system keeps the invariant.
LEMMA NextStep ==
    ASSUME KernelInv, [Next]_vars, ~WakeReceivers
    PROVE  KernelInv'
  <1>1. CASE SystemCall
    <2>1. ASSUME NEW priority \in Prio, KzRun(priority) PROVE KernelInv'
      BY <2>1, KzRunFullStep, KzRunNewStep
    <2>2. ASSUME KzWait \/ KzGetid \/ KzSetintr PROVE KernelInv'
      BY <2>2, KzWaitStep
    <2>3. ASSUME NEW priority \in Prio \cup {-1}, KzChpri(priority) PROVE KernelInv'
      BY <2>3, KzChpriStep
    <2>4. ASSUME NEW size \in Sizes, KzKmalloc(size) PROVE KernelInv'
      BY <2>4, KzKmallocStep
    <2>5. ASSUME NEW p \in Block, KzKmfree(p) PROVE KernelInv'
      BY <2>5, KzKmfreeStep
    <2>6. ASSUME NEW id \in Tcb, KzWakeup(id) PROVE KernelInv'
      BY <2>6, KzWakeupStep
    <2>7. ASSUME NEW id \in Box, NEW p \in Payload, KzSend(id, p) PROVE KernelInv'
      BY <2>7, KzSendStep
    <2> QED
      BY <1>1, <2>1, <2>2, <2>3, <2>4, <2>5, <2>6, <2>7, KzExitStep, KzSleepStep,
         KzRecvStep DEF SystemCall
  <1>2. CASE SoftErr
    BY <1>2, SoftErrStep
  <1>3. CASE Interrupt
    BY <1>3, InterruptStep
  <1>4. CASE Spin \/ UNCHANGED vars
    BY <1>4 DEF Spin, vars, KernelInv, TypeOK, ReadyQueues, ReadyThreads, RunsHighest,
           ReceiverWaits, WaitsOn, NoThreadForgotten, EndsMatch
  <1> QED
    BY <1>1, <1>2, <1>3, <1>4 DEF Next

(***************************************************************************)
(* The scheduler's and the boxes' structures stay consistent together, as  *)
(* long as nobody calls kz_wakeup on a thread that is in kz_recv.          *)
(***************************************************************************)
THEOREM KernelInvariant ==
    ASSUME ~WakeReceivers
    PROVE  Spec => []KernelInv
  <1>1. Init => KernelInv
    BY InitStep
  <1>2. KernelInv /\ [Next]_vars => KernelInv'
    BY NextStep
  <1> QED
    BY <1>1, <1>2, PTL DEF Spec

\* Every field of every kernel structure keeps its type.
THEOREM TypesKept ==
    ASSUME ~WakeReceivers
    PROVE  Spec => []TypeOK
  BY KernelInvariant, PTL DEF KernelInv

\* The queues hold exactly the READY threads: no handler splices or drops one.
THEOREM ReadyQueuesKept ==
    ASSUME ~WakeReceivers
    PROVE  Spec => []ReadyQueues
  BY KernelInvariant, PTL DEF KernelInv

\* The thread that executes is always the first of the best queue.
THEOREM HighestRuns ==
    ASSUME ~WakeReceivers
    PROVE  Spec => []RunsHighest
  BY KernelInvariant, PTL DEF KernelInv

\* recvmsg always writes its answer to a thread that waits for it.
THEOREM ReceiversWait ==
    ASSUME ~WakeReceivers
    PROVE  Spec => []ReceiverWaits
  BY KernelInvariant, PTL DEF KernelInv

\* Every blocked thread can still be reached, but one that kz_run failed for.
THEOREM NobodyForgotten ==
    ASSUME ~WakeReceivers
    PROVE  Spec => []NoThreadForgotten
  BY KernelInvariant, PTL DEF KernelInv

-------------------------------------------------------------------------------
(***************************************************************************)
(* The kernel implements PriorityRoundRobin: every step is a system call,  *)
(* an interrupt, a wakeup by a handler or its return of that               *)
(* specification, or changes nothing it speaks of.                         *)
(***************************************************************************)

\* The threads in the queues are the READY ones.
LEMMA QueuedIsReady ==
    ASSUME NEW s \in Sched, WellFormed(s), NEW t
    PROVE  t \in Scheduler!Queued(s.order) <=> t \in Tcb /\ s.ready[t]
  <1>1. \A p \in Prio : Range(s.order[p]) = {u \in Tcb : s.ready[u] /\ s.priority[u] = p}
    BY QueueOf
  <1>2. \A u \in Tcb : s.priority[u] \in Prio
    BY SchedFields
  <1> QED
    BY <1>1, <1>2 DEF Scheduler!Queued, Scheduler!Range, Range

\* A queue has a first thread exactly when it is not empty.
LEMMA RunnableQueues ==
    ASSUME NEW s \in Sched, WellFormed(s)
    PROVE  /\ Runnable(s) = {p \in Prio : s.order[p] # <<>>}
           /\ \A p \in Runnable(s) : s.head[p] = Head(s.order[p])
  <1>1. ASSUME NEW p \in Prio
        PROVE  /\ s.head[p] # NULL <=> s.order[p] # <<>>
               /\ s.order[p] # <<>> => s.head[p] = Head(s.order[p])
    <2>1. s.order[p] \in Seq(Tcb) /\ s.head[p] = HeadOf(s.order[p])
      BY QueueOf DEF Linked
    <2>2. CASE s.order[p] = <<>>
      BY <2>1, <2>2 DEF HeadOf
    <2>3. CASE s.order[p] # <<>>
      <3>1. Head(s.order[p]) = s.order[p][1] /\ Head(s.order[p]) \in Tcb
        BY <2>1, <2>3
      <3> QED
        BY <2>1, <2>3, <3>1, NullAssumption DEF HeadOf
    <2> QED
      BY <2>2, <2>3
  <1> QED
    BY <1>1 DEF Runnable

\* The least element of a set of numbers is the one Min finds.
LEMMA MinIs ==
    ASSUME NEW S, S \subseteq Nat, NEW n \in S, \A m \in S : n <= m
    PROVE  Min(S) = n /\ Scheduler!Min(S) = n
  <1>1. \A k \in S : (\A m \in S : k <= m) => k = n
    <2> SUFFICES ASSUME NEW k \in S, \A m \in S : k <= m PROVE k = n
      OBVIOUS
    <2>1. k <= n /\ n <= k /\ k \in Nat /\ n \in Nat
      OBVIOUS
    <2> QED
      BY <2>1
  <1> QED
    BY <1>1 DEF Min, Scheduler!Min

\* Whom schedule picks is whom the abstract scheduler elects.
LEMMA ScheduleElects ==
    ASSUME NEW s \in Sched, WellFormed(s)
    PROVE  /\ Runnable(s) = {} => Scheduler!Elected(s.order) = NULL
           /\ Runnable(s) # {} => Scheduler!Elected(s.order) = schedule(s).current
  <1>1. Scheduler!Queued(s.order) = {} <=> Runnable(s) = {}
    <2>1. \A p \in Prio : s.order[p] \in Seq(Tcb) /\ (Range(s.order[p]) = {} <=> s.order[p] = <<>>)
      BY QueueOf, ElementsOf
    <2>2. Scheduler!Queued(s.order) = UNION {Range(s.order[p]) : p \in Prio}
      BY DEF Scheduler!Queued, Scheduler!Range, Range
    <2>3. Scheduler!Queued(s.order) = {} <=> \A p \in Prio : Range(s.order[p]) = {}
      BY <2>2
    <2> QED
      BY <2>1, <2>3, RunnableQueues
  <1>2. ASSUME Runnable(s) # {}
        PROVE  Scheduler!Elected(s.order) = schedule(s).current
    <2>1. Runnable(s) \subseteq Nat
      BY ThreadQueueAssumption DEF Runnable, Prio
    <2>2. PICK n \in Runnable(s) : \A m \in Runnable(s) : n <= m
      BY <1>2, <2>1, LeastElement
    <2>3. Min(Runnable(s)) = n /\ Scheduler!Min(Runnable(s)) = n
      BY <2>1, <2>2, MinIs
    <2>4. Scheduler!Best(s.order) = n
      BY <2>3, RunnableQueues DEF Scheduler!Best
    <2>5. schedule(s).current = s.head[n]
      BY <2>3 DEF schedule, Sched
    <2> QED
      BY <1>1, <1>2, <2>2, <2>4, <2>5, RunnableQueues DEF Scheduler!Elected
  <1> QED
    BY <1>1, <1>2 DEF Scheduler!Elected


-------------------------------------------------------------------------------
\* putcurrent changes the queues as a thread that joins one does.
LEMMA PutJoins ==
    ASSUME NEW s \in Sched, WellFormed(s), NEW C \in SUBSET Tcb,
           s.current \in C \/ s.current = NULL \/ s.ready[s.current]
    PROVE  putcurrent(s).order \in Scheduler!Joined(s.order, C)
  <1>1. CASE s.current = NULL \/ s.ready[s.current]
    BY <1>1, PutcurrentNop DEF Scheduler!Joined
  <1>2. CASE s.current \in C /\ ~s.ready[s.current]
    <2>1. s.current \in Tcb /\ s.priority[s.current] \in Prio
      BY <1>2, SchedFields
    <2>2. Enqueued(s, putcurrent(s), s.current)
      BY <1>2, <2>1, PutcurrentFields
    <2>3. putcurrent(s).order = Scheduler!Join(s.order, s.current, s.priority[s.current])
      BY <2>2 DEF Enqueued, Scheduler!Join
    <2>4. s.current \notin Scheduler!Queued(s.order)
      BY <1>2, QueuedIsReady
    <2> QED
      BY <1>2, <2>1, <2>3, <2>4 DEF Scheduler!Joined
  <1> QED
    BY <1>1, <1>2

\* Whose queues nobody has joined.
LEMMA NobodyJoins ==
    ASSUME NEW q, NEW C
    PROVE  q \in Scheduler!Joined(q, C)
  BY DEF Scheduler!Joined

\* A system call takes the caller off the head of the best queue, a service
\* call of a handler takes off nobody.
LEMMA EntryLeaves ==
    ASSUME KernelInv, mode = "user"
    PROVE  Entry.order = [sched.order EXCEPT ![Scheduler!Best(sched.order)] = Tail(@)]
  <1> DEFINE c == sched.current
             p == sched.priority[c]
  <1>1. /\ sched \in Sched /\ WellFormed(sched) /\ c \in Tcb /\ p \in Prio
        /\ sched.ready[c] /\ sched.head[p] = c
        /\ \A x \in Prio : x < p => sched.head[x] = NULL
    BY SchedFields DEF KernelInv, TypeOK, ReadyQueues, RunsHighest, IsElected
  <1>2. Unlinked(sched, Entry, c)
    BY <1>1, GetcurrentFields DEF Entry
  <1>3. sched.order[p] # <<>>
    BY <1>1, NullAssumption, QueueOf DEF Linked, HeadOf
  <1>4. Entry.order = [sched.order EXCEPT ![p] = Tail(@)]
    <2>1. Rest(sched.order[p]) = Tail(sched.order[p])
      BY <1>3 DEF Rest
    <2> QED
      BY <1>1, <1>2, <2>1 DEF Unlinked
  <1>5. Scheduler!Best(sched.order) = p
    <2> DEFINE S == {x \in Prio : sched.order[x] # <<>>}
    <2>1. S = Runnable(sched)
      BY <1>1, RunnableQueues
    <2>2. p \in S /\ S \subseteq Nat
      BY <1>1, <1>3, ThreadQueueAssumption DEF Prio
    <2>3. \A x \in S : p <= x
      <3> SUFFICES ASSUME NEW x \in S PROVE p <= x
        OBVIOUS
      <3>1. sched.head[x] # NULL /\ x \in Prio
        BY <2>1 DEF Runnable
      <3>2. x \in Nat /\ p \in Nat
        BY <2>2
      <3> QED
        BY <1>1, <3>1, <3>2
    <2> HIDE DEF S, p
    <2>4. Scheduler!Min(S) = p
      BY <2>2, <2>3, MinIs
    <2> QED
      BY <2>4 DEF Scheduler!Best, S
  <1> QED
    BY <1>4, <1>5

LEMMA EntryStays ==
    ASSUME KernelInv, mode = "handler"
    PROVE  Entry.order = sched.order
  BY DEF Entry, KernelInv, TypeOK, Sched

\* The caller goes back to the end of its queue, or there is none.
LEMMA CallerRejoins ==
    ASSUME KernelInv, Active
    PROVE  putcurrent(Entry).order \in Scheduler!Joined(Entry.order, {Caller} \cap Tcb)
  <1>1. Entry \in Sched /\ WellFormed(Entry) /\ Entry.current = Caller
    BY EntryIsGood DEF Good
  <1>2. Caller \in {Caller} \cap Tcb \/ Caller = NULL
    BY CallerIsReady DEF TcbOrNull
  <1> QED
    BY <1>1, <1>2, PutJoins

-------------------------------------------------------------------------------
AbstractStep == [Scheduler!Call \/ Scheduler!Stop \/ Scheduler!Ready
                 \/ Scheduler!Resume]_(Scheduler!abstractVars)

\* dispatch runs whom the abstract scheduler elects from the same queues.
LEMMA DispatchElects ==
    ASSUME NEW s \in Sched, WellFormed(s), Dispatch(s)
    PROVE  /\ sched'.order = s.order
           /\ (IF mode' = "user" THEN sched'.current ELSE NULL) = Scheduler!Elected(s.order)
  <1>1. CASE Runnable(s) = {}
    BY <1>1, ScheduleElects DEF Dispatch
  <1>2. CASE Runnable(s) # {}
    <2>1. sched' = schedule(s) /\ mode' = "user"
      BY <1>2 DEF Dispatch
    <2>2. schedule(s).order = s.order
      BY <1>2, ScheduleFields
    <2> QED
      BY <1>2, <2>1, <2>2, ScheduleElects
  <1> QED
    BY <1>1, <1>2

\* A call that puts the caller back or not, and then readies at most one other
\* thread, is a call of the abstract scheduler; of a handler, a wakeup.
LEMMA FinishTakesTurns ==
    ASSUME KernelInv, Active, NEW s \in Sched, WellFormed(s), NEW call, Finish(s, call),
           NEW left \in Scheduler!Joined(Entry.order, {Caller} \cap Tcb),
           s.order \in Scheduler!Joined(left, Tcb \ {Caller})
    PROVE  AbstractStep
  <1>1. CASE mode = "user"
    <2>1. Caller = sched.current /\ Caller \in Tcb /\ Caller # NULL
      BY <1>1, CallerIsReady, NullAssumption DEF Caller
    <2>2. Dispatch(s)
      BY <1>1 DEF Finish
    <2>3. left \in Scheduler!Joined([sched.order EXCEPT ![Scheduler!Best(sched.order)] = Tail(@)],
                                    {sched.current})
      <3>1. {Caller} \cap Tcb = {sched.current}
        BY <2>1
      <3> QED
        BY <1>1, <3>1, EntryLeaves
    <2>4. /\ sched'.order = s.order
          /\ (IF mode' = "user" THEN sched'.current ELSE NULL) = Scheduler!Elected(s.order)
      BY <2>2, DispatchElects
    <2>5. Scheduler!Call
      BY <1>1, <2>1, <2>3, <2>4 DEF Scheduler!Call
    <2> QED
      BY <2>5 DEF AbstractStep
  <1>2. CASE mode = "handler"
    <2>1. Caller = NULL /\ {Caller} \cap Tcb = {} /\ Tcb \ {Caller} = Tcb
      BY <1>2, NullAssumption DEF Caller
    <2>2. left = sched.order
      BY <1>2, <2>1, EntryStays DEF Scheduler!Joined
    <2>3. sched' = s /\ mode' = "handler"
      BY <1>2 DEF Finish
    <2>4. Scheduler!Ready
      BY <1>2, <2>1, <2>2, <2>3 DEF Scheduler!Ready
    <2> QED
      BY <2>4 DEF AbstractStep
  <1> QED
    BY <1>1, <1>2 DEF Active


-------------------------------------------------------------------------------
(***************************************************************************)
(* The calls, by whom they take off a queue and whom they put on one.      *)
(***************************************************************************)
\* The caller goes to the end of its queue.
LEMMA CallerGoesLast ==
    ASSUME KernelInv, Active, Finish(putcurrent(Entry), NULL)
    PROVE  AbstractStep
  <1> DEFINE s == putcurrent(Entry)
  <1>1. s \in Sched /\ WellFormed(s) /\ s.order \in Scheduler!Joined(Entry.order, {Caller} \cap Tcb)
    BY EntryPutBack, CallerRejoins DEF Good
  <1>2. Finish(s, NULL) /\ s.order \in Scheduler!Joined(s.order, Tcb \ {Caller})
    BY NobodyJoins
  <1> HIDE DEF s
  <1> QED
    BY <1>1, <1>2, FinishTakesTurns

\* The caller stays off its queue: it blocks, or kz_run found no free TCB.
LEMMA CallerBlocks ==
    ASSUME KernelInv, Active, NEW call, Finish(Entry, call)
    PROVE  AbstractStep
  <1>1. Entry \in Sched /\ WellFormed(Entry)
    BY EntryIsGood DEF Good
  <1> QED
    BY <1>1, NobodyJoins, FinishTakesTurns

\* The caller ends.
LEMMA CallerEnds ==
    ASSUME KernelInv, mode = "user", Finish(ClearTcb(Entry, Caller), NULL)
    PROVE  AbstractStep
  <1> DEFINE s == ClearTcb(Entry, Caller)
  <1>1. Active /\ Finish(s, NULL)
    BY DEF Active
  <1>2. Good(Entry, live) /\ Caller \in Tcb /\ ~Entry.ready[Caller]
    BY <1>1, EntryIsGood, CallerIsReady
  <1>3. s \in Sched /\ WellFormed(s)
    BY <1>2, GoodClear DEF Good
  <1>4. s.order = Entry.order
    BY <1>2 DEF ClearTcb, Good, Sched
  <1> HIDE DEF s
  <1> QED
    BY <1>1, <1>3, <1>4, NobodyJoins, FinishTakesTurns

\* The caller goes to the end of the queue of its new priority.
LEMMA CallerMoves ==
    ASSUME KernelInv, NEW priority \in Prio \cup {-1}, KzChpri(priority)
    PROVE  AbstractStep
  <1> DEFINE e == IF priority >= 0 THEN [Entry EXCEPT !.priority[Caller] = priority] ELSE Entry
             s == putcurrent(e)
  <1>1. Active /\ mode = "user" /\ Finish(s, NULL)
    BY InvokeIsActive DEF KzChpri, Invoke, ServiceCall
  <1>2. /\ Good(Entry, live) /\ Entry.current = Caller /\ Caller \in Tcb
        /\ ~Entry.ready[Caller]
    BY <1>1, EntryIsGood, CallerIsReady
  <1>3. Good(e, live) /\ e.current = Caller /\ e.order = Entry.order
    <2>1. CASE priority >= 0
      <3>1. priority \in Prio
        BY <2>1
      <3>2. e = [Entry EXCEPT !.priority[Caller] = priority]
        BY <2>1
      <3>3. Good(e, live) /\ e.current = Caller
        BY <1>2, <3>1, <3>2, GoodReprioritise
      <3>4. e.order = Entry.order
        BY <1>2, <3>2 DEF Good, Sched
      <3> QED
        BY <3>3, <3>4
    <2>2. CASE ~(priority >= 0)
      BY <1>2, <2>2
    <2> QED
      BY <2>1, <2>2
  <1> HIDE DEF e
  <1>4. s \in Sched /\ WellFormed(s)
    BY <1>2, <1>3, PutcurrentWellFormed DEF Good
  <1>5. s.order \in Scheduler!Joined(Entry.order, {Caller} \cap Tcb)
    BY <1>2, <1>3, PutJoins DEF Good
  <1> HIDE DEF s
  <1> QED
    BY <1>1, <1>4, <1>5, NobodyJoins, FinishTakesTurns

\* The caller, then t, which it has woken, started or given a message.
LEMMA OtherFollows ==
    ASSUME KernelInv, Active, NEW n \in Sched, WellFormed(n),
           n.order = putcurrent(Entry).order, n.current \in Tcb,
           n.current # Caller \/ n.ready[n.current], Finish(putcurrent(n), NULL)
    PROVE  AbstractStep
  <1> DEFINE s == putcurrent(n)
  <1>1. s \in Sched /\ WellFormed(s)
    BY PutcurrentWellFormed
  <1>2. s.order \in Scheduler!Joined(n.order, Tcb \ {Caller})
    BY PutJoins
  <1>3. Finish(s, NULL)
    OBVIOUS
  <1> HIDE DEF s
  <1> QED
    BY <1>1, <1>2, <1>3, CallerRejoins, FinishTakesTurns

\* kz_wakeup and the hand-over of a message set current to their target.
LEMMA TargetFollows ==
    ASSUME KernelInv, Active, NEW t \in Tcb, t # Caller \/ sched.ready[t],
           Finish(putcurrent([putcurrent(Entry) EXCEPT !.current = t]), NULL)
    PROVE  AbstractStep
  <1> DEFINE e == putcurrent(Entry)
             n == [e EXCEPT !.current = t]
  <1>1. e.ready[t] <=> sched.ready[t]
    BY EntryPutBack
  <1>2. Good(n, live) /\ n.current = t /\ n.ready = e.ready
    <2>1. Good(e, live) /\ t \in TcbOrNull
      BY EntryPutBack DEF TcbOrNull
    <2> HIDE DEF e
    <2> QED
      BY <2>1, GoodRetarget
  <1>3. n.order = e.order
    <2>1. e \in Sched
      BY EntryPutBack DEF Good
    <2> HIDE DEF e
    <2> QED
      BY <2>1 DEF Sched
  <1>4. n.current # Caller \/ n.ready[n.current]
    BY <1>1, <1>2
  <1>5. Finish(putcurrent(n), NULL) /\ n.order = putcurrent(Entry).order
    BY <1>3
  <1> HIDE DEF n, e
  <1> QED
    BY <1>2, <1>4, <1>5, OtherFollows DEF Good

\* A new thread starts in a TCB that was free.
LEMMA NewThreadFollows ==
    ASSUME KernelInv, NEW priority \in Prio, KzRun(priority), live # Tcb
    PROVE  AbstractStep
  <1> DEFINE thp == Min(Tcb \ live)
             e == putcurrent(Entry)
             c == ClearTcb(e, thp)
             r == [c EXCEPT !.priority[thp] = priority]
             n == [r EXCEPT !.current = thp]
  <1>1. Active /\ Finish(putcurrent(n), NULL)
    BY InvokeIsActive DEF KzRun
  <1>2. thp \in Tcb \ live
    BY FreeTcb DEF KernelInv, TypeOK
  <1>3. Good(e, live) /\ e.order = putcurrent(Entry).order
    BY <1>1, EntryPutBack
  <1> HIDE DEF thp, e
  <1>4. ~e.ready[thp]
    BY <1>2, <1>3 DEF Good
  <1>5. Good(c, live) /\ c.ready = e.ready /\ c.order = e.order
    <2>1. Good(c, live) /\ c.ready = e.ready
      BY <1>2, <1>3, <1>4, GoodClear
    <2>2. c.order = e.order
      BY <1>2, <1>3 DEF ClearTcb, Good, Sched
    <2> QED
      BY <2>1, <2>2
  <1> HIDE DEF c
  <1>6. Good(r, live) /\ r.ready = e.ready /\ r.order = e.order
    BY <1>2, <1>4, <1>5, GoodReprioritise DEF Good, Sched
  <1> HIDE DEF r
  <1>7. Good(n, live) /\ n.current = thp /\ n.order = e.order
    BY <1>2, <1>6, GoodRetarget DEF TcbOrNull, Good, Sched
  <1> HIDE DEF n
  <1>8. thp # Caller
    BY <1>1, <1>2, CallerIsReady, NullAssumption
  <1> QED
    BY <1>1, <1>2, <1>3, <1>7, <1>8, OtherFollows DEF Good


-------------------------------------------------------------------------------
(***************************************************************************)
(* The steps.                                                              *)
(***************************************************************************)
\* kz_sysdown, or the interrupt of a thread: it loses the processor, the queues
\* keep it first.
LEMMA ProcessorLost ==
    ASSUME KernelInv, Active, sched' = sched, mode' \in {"handler", "down"}
    PROVE  AbstractStep
  <1>1. CASE mode = "user"
    <2>1. sched.current # NULL
      BY <1>1, CallerIsReady, NullAssumption DEF Caller
    <2>2. Scheduler!Stop
      BY <1>1, <2>1 DEF Scheduler!Stop
    <2> QED
      BY <2>2 DEF AbstractStep
  <1>2. CASE mode = "handler"
    BY <1>2 DEF AbstractStep, Scheduler!abstractVars
  <1> QED
    BY <1>1, <1>2 DEF Active

LEMMA KmallocTakesTurns ==
    ASSUME KernelInv, NEW size, KzKmalloc(size)
    PROVE  AbstractStep
  <1>1. Active
    BY InvokeIsActive DEF KzKmalloc
  <1>2. CASE Crash
    BY <1>1, <1>2, ProcessorLost DEF Crash
  <1>3. CASE Finish(putcurrent(Entry), NULL)
    BY <1>1, <1>3, CallerGoesLast
  <1> QED
    BY <1>2, <1>3 DEF KzKmalloc

LEMMA SendTakesTurns ==
    ASSUME KernelInv, NEW id \in Box, NEW p \in Payload, KzSend(id, p)
    PROVE  AbstractStep
  <1>1. Active
    BY InvokeIsActive DEF KzSend
  <1>2. CASE Crash
    BY <1>1, <1>2, ProcessorLost DEF Crash
  <1>3. CASE Finish(putcurrent(Entry), NULL)
    BY <1>1, <1>3, CallerGoesLast
  <1>4. CASE /\ ipc.receiver[id] # NULL
             /\ Finish(putcurrent([putcurrent(Entry) EXCEPT !.current = ipc.receiver[id]]), NULL)
    BY <1>1, <1>4, ReceiversAreBlocked, TargetFollows
  <1> QED
    BY <1>2, <1>3, <1>4 DEF KzSend

LEMMA RecvTakesTurns ==
    ASSUME KernelInv, NEW id \in Box, KzRecv(id)
    PROVE  AbstractStep
  <1>1. Active
    BY InvokeIsActive DEF KzRecv
  <1>2. CASE Crash
    BY <1>1, <1>2, ProcessorLost DEF Crash
  <1>3. CASE Finish(Entry, Receiving(id))
    BY <1>1, <1>3, CallerBlocks
  <1>4. CASE Finish(putcurrent(Entry), NULL)
    BY <1>1, <1>4, CallerGoesLast
  <1> QED
    BY <1>2, <1>3, <1>4 DEF KzRecv

LEMMA RunTakesTurns ==
    ASSUME KernelInv, NEW priority \in Prio, KzRun(priority)
    PROVE  AbstractStep
  <1>1. CASE live = Tcb
    <2>1. Active /\ Finish(Entry, RunFailed)
      BY <1>1, InvokeIsActive DEF KzRun
    <2> QED
      BY <2>1, CallerBlocks
  <1> QED
    BY <1>1, NewThreadFollows

\* Any thread may be woken: one that is READY keeps its place.
LEMMA WakeupTakesTurns ==
    ASSUME KernelInv, NEW id \in Tcb, KzWakeup(id)
    PROVE  AbstractStep
  <1>1. Active /\ Finish(putcurrent([putcurrent(Entry) EXCEPT !.current = id]), NULL)
    BY InvokeIsActive DEF KzWakeup
  <1>2. id # Caller \/ sched.ready[id]
    BY <1>1, CallerIsReady, NullAssumption
  <1> QED
    BY <1>1, <1>2, TargetFollows

LEMMA SystemCallTakesTurns ==
    ASSUME KernelInv, SystemCall
    PROVE  AbstractStep
  <1>1. ASSUME NEW priority \in Prio, KzRun(priority) PROVE AbstractStep
    BY <1>1, RunTakesTurns
  <1>2. ASSUME KzExit PROVE AbstractStep
    <2>1. mode = "user" /\ Finish(ClearTcb(Entry, Caller), NULL)
      BY <1>2 DEF KzExit, Invoke, ServiceCall
    <2> QED
      BY <2>1, CallerEnds
  <1>3. ASSUME KzWait \/ KzGetid \/ KzSetintr PROVE AbstractStep
    <2>1. Active /\ Finish(putcurrent(Entry), NULL)
      BY <1>3, InvokeIsActive DEF KzWait, KzGetid, KzSetintr
    <2> QED
      BY <2>1, CallerGoesLast
  <1>4. ASSUME KzSleep PROVE AbstractStep
    <2>1. Active /\ Finish(Entry, Sleeping)
      BY <1>4, InvokeIsActive DEF KzSleep
    <2> QED
      BY <2>1, CallerBlocks
  <1>5. ASSUME NEW id \in Tcb, KzWakeup(id) PROVE AbstractStep
    BY <1>5, WakeupTakesTurns
  <1>6. ASSUME NEW priority \in Prio \cup {-1}, KzChpri(priority) PROVE AbstractStep
    BY <1>6, CallerMoves
  <1>7. ASSUME NEW size \in Sizes, KzKmalloc(size) PROVE AbstractStep
    BY <1>7, KmallocTakesTurns
  <1>8. ASSUME NEW p \in Block, KzKmfree(p) PROVE AbstractStep
    <2>1. Active /\ Finish(putcurrent(Entry), NULL)
      BY <1>8, InvokeIsActive DEF KzKmfree
    <2> QED
      BY <2>1, CallerGoesLast
  <1>9. ASSUME NEW id \in Box, NEW p \in Payload, KzSend(id, p) PROVE AbstractStep
    BY <1>9, SendTakesTurns
  <1>10. ASSUME NEW id \in Box, KzRecv(id) PROVE AbstractStep
    BY <1>10, RecvTakesTurns
  <1> QED
    BY <1>1, <1>2, <1>3, <1>4, <1>5, <1>6, <1>7, <1>8, <1>9, <1>10 DEF SystemCall

LEMMA OtherStepsTakeTurns ==
    ASSUME KernelInv, SoftErr \/ Interrupt \/ Spin \/ UNCHANGED vars
    PROVE  AbstractStep
  <1>1. CASE SoftErr
    <2>1. mode = "user" /\ Entry = getcurrent(sched) /\ Caller = sched.current
      BY <1>1 DEF SoftErr, Entry, Caller
    <2> QED
      BY <1>1, <2>1, CallerEnds DEF SoftErr
  <1>2. CASE IntrEnter
    BY <1>2, ProcessorLost DEF IntrEnter, Active
  <1>3. CASE IntrLeave
    <2>1. sched \in Sched /\ WellFormed(sched) /\ mode = "handler" /\ Dispatch(sched)
      BY <1>3 DEF IntrLeave, KernelInv, TypeOK, ReadyQueues
    <2>2. Scheduler!Resume
      BY <2>1, DispatchElects DEF Scheduler!Resume
    <2> QED
      BY <2>2 DEF AbstractStep
  <1>4. CASE IntrMask \/ Spin \/ UNCHANGED vars
    BY <1>4 DEF IntrMask, Spin, vars, AbstractStep, Scheduler!abstractVars
  <1> QED
    BY <1>1, <1>2, <1>3, <1>4 DEF Interrupt

\* kz_start queues the initial thread and gives it the processor.
LEMMA StartsTheFirst ==
    ASSUME Init
    PROVE  Scheduler!Start
  <1> DEFINE c == [ClearedSched EXCEPT !.current = 0]
  <1>1. 0 \in Tcb /\ 0 \in Prio
    BY ThreadQueueAssumption DEF Tcb, Prio
  <1>2. /\ c \in Sched /\ c.current = 0 /\ c.priority = [t \in Tcb |-> 0]
        /\ c.ready = [t \in Tcb |-> FALSE] /\ c.order = [p \in Prio |-> <<>>]
    <2>1. /\ c.current = 0 /\ c.priority = [t \in Tcb |-> 0]
          /\ c.ready = [t \in Tcb |-> FALSE] /\ c.order = [p \in Prio |-> <<>>]
      BY DEF ClearedSched
    <2>2. c \in Sched
      <3> DEFINE z == ClearedSched
      <3>1. z \in Sched
        BY <1>1 DEF ClearedSched, Sched, TcbOrNull
      <3> HIDE DEF z
      <3>2. [z EXCEPT !.current = 0] \in Sched
        BY <1>1, <3>1 DEF Sched, TcbOrNull
      <3> QED
        BY <3>2 DEF z
    <2> QED
      BY <2>1, <2>2
  <1>3. sched = putcurrent(c) /\ mode = "user"
    BY DEF Init
  <1> HIDE DEF c
  <1>4. Enqueued(c, sched, 0)
    BY <1>1, <1>2, <1>3, PutcurrentFields
  <1>5. sched.current = 0 /\ sched.order = [c.order EXCEPT ![0] = Append(@, 0)]
    BY <1>1, <1>2, <1>4 DEF Enqueued
  <1>6. sched.order = [p \in Prio |-> IF p = 0 THEN <<0>> ELSE <<>>]
    BY <1>1, <1>2, <1>5
  <1> QED
    BY <1>3, <1>5, <1>6 DEF Scheduler!Start

(***************************************************************************)
(* The kernel's ready queues and the thread it runs behave as              *)
(* PriorityRoundRobin says: a thread keeps the processor until it makes a  *)
(* call, fails or is interrupted, threads of one priority take turns in    *)
(* the order they joined, and an interrupt costs nobody its turn.          *)
(***************************************************************************)
THEOREM KernelTakesTurns ==
    ASSUME ~WakeReceivers
    PROVE  Spec => TakesTurns
  <1>1. Init => Scheduler!Start
    BY StartsTheFirst
  <1>2. KernelInv /\ [Next]_vars =>
            [Scheduler!Call \/ Scheduler!Stop \/ Scheduler!Ready
             \/ Scheduler!Resume]_(Scheduler!abstractVars)
    BY SystemCallTakesTurns, OtherStepsTakeTurns DEF Next, AbstractStep
  <1>3. Spec => []KernelInv
    BY KernelInvariant
  <1> QED
    BY <1>1, <1>2, <1>3, PTL DEF Spec, TakesTurns, Scheduler!PriorityRoundRobinSpec

===============================================================================
