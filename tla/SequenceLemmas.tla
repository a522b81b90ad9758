----------------------------- MODULE SequenceLemmas -----------------------------
(***************************************************************************)
(* Sequences of sequences put together, by FlattenSeq of the community     *)
(* modules.  Facts about its recursive definition are proved for the least *)
(* length they could fail at.                                              *)
(***************************************************************************)
EXTENDS Integers, Sequences, SequenceTheorems, WellFoundedInduction, TLAPS

Seqs == INSTANCE SequencesExt

LEMMA FirstOf ==
    ASSUME NEW S, S \subseteq Nat, S # {}
    PROVE  \E n \in S : \A m \in S : n <= m
  <1> DEFINE R == {x \in Nat \X Nat : x[1] < x[2]}
  <1>1. IsWellFoundedOn(R, Nat)
    BY NatLessThanWellFounded DEF OpToRel
  <1>2. PICK n \in S : \A m \in S : ~(<<m, n>> \in R)
    BY <1>1, WFMin
  <1>3. ASSUME NEW m \in S PROVE n <= m
    <2>1. m \in Nat /\ n \in Nat
      OBVIOUS
    <2>2. <<m, n>> \in R <=> m < n
      BY <2>1
    <2> QED
      BY <1>2, <2>1, <2>2
  <1> QED
    BY <1>3

\* Longer and longer beginnings of a sequence of sequences, put together.
Joins(f, s, n) == f = [i \in 1..n |-> IF i = 1 THEN s[i] ELSE f[i - 1] \o s[i]]

LEMMA JoinsExist ==
    ASSUME NEW s, NEW n \in Nat
    PROVE  \E f : Joins(f, s, n)
  <1> DEFINE Bad == {k \in Nat : ~ \E f : Joins(f, s, k)}
  <1> SUFFICES Bad = {}
    OBVIOUS
  <1> SUFFICES ASSUME Bad # {} PROVE FALSE
    OBVIOUS
  <1>1. PICK k \in Bad : \A m \in Bad : k <= m
    BY FirstOf
  <1>2. k # 0
    <2>1. Joins([i \in 1..0 |-> 0], s, 0)
      BY DEF Joins
    <2> QED
      BY <2>1
  <1>3. k - 1 \in Nat /\ k - 1 \notin Bad
    BY <1>1, <1>2
  <1>4. PICK f : Joins(f, s, k - 1)
    BY <1>3
  <1> DEFINE step(i) == IF i = 1 THEN s[i] ELSE f[i - 1] \o s[i]
             g == [i \in 1..k |-> step(i)]
  <1>5. \A i \in 1..(k - 1) : g[i] = f[i]
    <2>1. \A i \in 1..(k - 1) : f[i] = step(i)
      BY <1>4 DEF Joins
    <2> QED
      BY <1>3, <2>1
  <1>6. \A i \in 1..k : g[i] = IF i = 1 THEN s[i] ELSE g[i - 1] \o s[i]
    <2>1. \A i \in 1..k : i # 1 => i - 1 \in 1..(k - 1)
      BY <1>3
    <2> QED
      BY <1>5, <2>1
  <1>7. g = [i \in 1..k |-> IF i = 1 THEN s[i] ELSE g[i - 1] \o s[i]]
    <2>1. g = [i \in 1..k |-> g[i]]
      OBVIOUS
    <2> HIDE DEF g
    <2> QED
      BY <1>6, <2>1
  <1>8. Joins(g, s, k)
    <2> HIDE DEF g
    <2> QED
      BY <1>7 DEF Joins
  <1> QED
    BY <1>8

LEMMA Regroup ==
    ASSUME NEW S, NEW a \in Seq(S), NEW b \in Seq(S), NEW c \in Seq(S)
    PROVE  (a \o b) \o c = a \o (b \o c)
  BY ConcatAssociative

\* FlattenSeq(s) is the longest of them.
LEMMA Joined ==
    ASSUME NEW S, NEW s \in Seq(Seq(S))
    PROVE  \E f : /\ \A i \in 1..Len(s) :
                        /\ f[i] = IF i = 1 THEN s[i] ELSE f[i - 1] \o s[i]
                        /\ f[i] \in Seq(S) /\ s[i] \in Seq(S)
                 /\ Seqs!FlattenSeq(s) = IF s = <<>> THEN <<>> ELSE f[Len(s)]
  <1> DEFINE n == Len(s)
             f == CHOOSE f : Joins(f, s, n)
  <1>1. n \in Nat /\ \A i \in 1..n : s[i] \in Seq(S)
    OBVIOUS
  <1>2. Joins(f, s, n)
    BY <1>1, JoinsExist
  <1> DEFINE Bad == {k \in 1..n : f[k] \notin Seq(S)}
  <1>3. \A i \in 1..n : f[i] = IF i = 1 THEN s[i] ELSE f[i - 1] \o s[i]
    <2> HIDE DEF f
    <2> QED
    BY <1>2 DEF Joins
  <1> HIDE DEF f
  <1>4. Bad = {}
    <2> SUFFICES ASSUME Bad # {} PROVE FALSE
      OBVIOUS
    <2>0. Bad \subseteq Nat
      BY <1>1
    <2>1. PICK k \in Bad : \A m \in Bad : k <= m
      BY <2>0, FirstOf
    <2>2. CASE k = 1
      BY <1>1, <1>3, <2>2
    <2>3. CASE k # 1
      <3>1. k - 1 \in 1..n /\ k - 1 \notin Bad
        BY <1>1, <2>1, <2>3
      <3>2. f[k - 1] \in Seq(S)
        BY <3>1
      <3>3. f[k] = f[k - 1] \o s[k] /\ s[k] \in Seq(S)
        BY <1>1, <1>3, <2>3
      <3>4. f[k - 1] \o s[k] \in Seq(S)
        BY <3>2, <3>3, ConcatProperties
      <3> QED
        BY <3>3, <3>4
    <2> QED
      BY <2>2, <2>3
  <1>5. Seqs!FlattenSeq(s) = IF n = 0 THEN s ELSE f[n]
    BY DEF Seqs!FlattenSeq, f, Joins
  <1>6. s = <<>> <=> n = 0
    OBVIOUS
  <1> QED
    BY <1>1, <1>3, <1>4, <1>5, <1>6

LEMMA JoinedType ==
    ASSUME NEW S, NEW s \in Seq(Seq(S))
    PROVE  Seqs!FlattenSeq(s) \in Seq(S)
  <1>1. s = <<>> \/ Len(s) \in 1..Len(s)
    OBVIOUS
  <1>2. <<>> \in Seq(S)
    OBVIOUS
  <1> QED
    BY <1>1, <1>2, Joined

LEMMA JoinedEmpty == Seqs!FlattenSeq(<<>>) = <<>>
  BY DEF Seqs!FlattenSeq

\* One more sequence at the end.
LEMMA JoinedAppend ==
    ASSUME NEW S, NEW s \in Seq(Seq(S)), NEW x \in Seq(S)
    PROVE  Seqs!FlattenSeq(Append(s, x)) = Seqs!FlattenSeq(s) \o x
  <1> DEFINE n == Len(s)
             r == Append(s, x)
  <1>1. /\ r \in Seq(Seq(S)) /\ n \in Nat /\ Len(r) = n + 1 /\ r # <<>>
        /\ r[n + 1] = x /\ (s = <<>> <=> n = 0)
        /\ \A i \in 1..n : r[i] = s[i] /\ i \in 1..(n + 1)
    BY AppendProperties
  <1>2. PICK f : /\ \A i \in 1..n : f[i] = IF i = 1 THEN s[i] ELSE f[i - 1] \o s[i]
                 /\ Seqs!FlattenSeq(s) = IF s = <<>> THEN <<>> ELSE f[n]
    BY Joined, ZenonT(40)
  <1> HIDE DEF r
  <1>3. PICK g : /\ \A i \in 1..(n + 1) : g[i] = IF i = 1 THEN r[i] ELSE g[i - 1] \o r[i]
                 /\ Seqs!FlattenSeq(r) = g[n + 1]
    <2> HIDE DEF n
    <2>1. r \in Seq(Seq(S))
      BY <1>1
    <2>2. PICK g : /\ \A i \in 1..Len(r) : /\ g[i] = IF i = 1 THEN r[i] ELSE g[i - 1] \o r[i]
                                           /\ g[i] \in Seq(S) /\ r[i] \in Seq(S)
                   /\ Seqs!FlattenSeq(r) = IF r = <<>> THEN <<>> ELSE g[Len(r)]
      BY <2>1, Joined
    <2> QED
      BY <1>1, <2>2
  <1> DEFINE Bad == {k \in 1..n : g[k] # f[k]}
  <1> HIDE DEF n
  <1>4. Bad = {}
    <2> SUFFICES ASSUME Bad # {} PROVE FALSE
      OBVIOUS
    <2>0. Bad \subseteq Nat
      BY <1>1
    <2>1. PICK k \in Bad : \A m \in Bad : k <= m
      BY <2>0, FirstOf
    <2>2. g[k] = IF k = 1 THEN s[k] ELSE g[k - 1] \o s[k]
      BY <1>1, <1>3
    <2>3. k # 1 => k - 1 \in 1..n /\ ~(k <= k - 1)
      BY <1>1, <2>0, <2>1
    <2>4. k # 1 => g[k - 1] = f[k - 1]
      BY <2>1, <2>3
    <2> QED
      BY <1>2, <2>1, <2>2, <2>4
  <1>5. CASE n = 0
    <2>1. g[n + 1] = x /\ Seqs!FlattenSeq(s) = <<>>
      BY <1>1, <1>2, <1>3, <1>5
    <2> QED
      BY <1>3, <2>1, ConcatEmptySeq DEF r
  <1>6. CASE n # 0
    <2>1. n \in 1..n /\ n + 1 \in 1..(n + 1) /\ n + 1 # 1 /\ (n + 1) - 1 = n
      BY <1>1, <1>6
    <2>2. g[n + 1] = g[n] \o x
      BY <1>1, <1>3, <2>1
    <2>3. g[n] = f[n]
      BY <1>4, <2>1
    <2> QED
      BY <1>1, <1>2, <1>3, <1>6, <2>2, <2>3 DEF r
  <1> QED
    BY <1>5, <1>6

\* Partial concatenations, with and without a first sequence.
Sums(S, a, n, f, g, t) ==
    /\ f[1] = a
    /\ \A k \in 2..n : f[k] = f[k - 1] \o t[k - 1]
    /\ \A k \in 1..(n - 1) : g[k] \in Seq(S) /\ t[k] \in Seq(S)
    /\ \A k \in 1..(n - 1) : g[k] = IF k = 1 THEN t[k] ELSE g[k - 1] \o t[k]

LEMMA SumsPrefixed ==
    ASSUME NEW S, NEW a \in Seq(S), NEW n \in Nat, NEW f, NEW g, NEW t, Sums(S, a, n, f, g, t)
    PROVE  \A k \in 2..n : f[k] = a \o g[k - 1]
  <1> DEFINE Bad == {k \in 2..n : f[k] # a \o g[k - 1]}
  <1> SUFFICES ASSUME Bad # {} PROVE FALSE
    OBVIOUS
  <1>1. Bad \subseteq Nat
    OBVIOUS
  <1>2. PICK k \in Nat : k \in Bad /\ \A m \in Bad : k <= m
    <2> HIDE DEF Bad
    <2>1. PICK k \in Bad : \A m \in Bad : k <= m
      BY <1>1, FirstOf
    <2> QED
      BY <1>1, <2>1
  <1>3. /\ k \in 2..n /\ k - 1 \in 1..(n - 1) /\ f[k] # a \o g[k - 1]
        /\ \A m \in 2..n : m < k => f[m] = a \o g[m - 1]
    BY <1>2, SMTT(30)
  <1> HIDE DEF Bad
  <1>4. f[k] = f[k - 1] \o t[k - 1] /\ g[k - 1] = IF k = 2 THEN t[k - 1] ELSE g[k - 2] \o t[k - 1]
    <2>1. (k - 1) - 1 = k - 2 /\ (k - 1 = 1 <=> k = 2)
      OBVIOUS
    <2>2. g[k - 1] = IF k - 1 = 1 THEN t[k - 1] ELSE g[(k - 1) - 1] \o t[k - 1]
      BY <1>3 DEF Sums
    <2>3. f[k] = f[k - 1] \o t[k - 1]
      BY <1>3 DEF Sums
    <2> QED
      BY <2>1, <2>2, <2>3
  <1>5. CASE k = 2
    <2>1. k - 1 = 1 /\ f[1] = a
      BY <1>5 DEF Sums
    <2> QED
      BY <1>3, <1>4, <1>5, <2>1
  <1>6. CASE k # 2
    <2>1. k - 1 \in 2..n /\ k - 1 < k /\ k - 2 \in 1..(n - 1) /\ (k - 1) - 1 = k - 2
      BY <1>3, <1>6
    <2>2. f[k - 1] = a \o g[k - 2]
      BY <1>3, <2>1
    <2>3. PICK b \in Seq(S) : b = g[k - 2]
      BY <2>1 DEF Sums
    <2>4. PICK c \in Seq(S) : c = t[k - 1]
      BY <1>3 DEF Sums
    <2>5. (a \o b) \o c = a \o (b \o c)
      BY Regroup, SMTT(30)
    <2> QED
      BY <1>3, <1>4, <1>6, <2>2, <2>3, <2>4, <2>5
  <1> QED
    BY <1>5, <1>6

\* The first sequence, and the others.
LEMMA JoinedFirst ==
    ASSUME NEW S, NEW s \in Seq(Seq(S)), s # <<>>
    PROVE  Seqs!FlattenSeq(s) = s[1] \o Seqs!FlattenSeq(Tail(s))
  <1> DEFINE n == Len(s)
             t == Tail(s)
  <1>1. /\ t \in Seq(Seq(S)) /\ n \in Nat \ {0} /\ Len(t) = n - 1 /\ (t = <<>> <=> n = 1)
        /\ \A i \in 1..(n - 1) : t[i] = s[i + 1]
        /\ s[1] \in Seq(S)
    <2>1. Len(s) \in Nat /\ Len(s) # 0 /\ \A i \in 1..Len(s) : s[i] \in Seq(S)
      OBVIOUS
    <2>2. /\ Tail(s) \in Seq(Seq(S)) /\ Len(Tail(s)) = Len(s) - 1
          /\ \A i \in 1..(Len(s) - 1) : Tail(s)[i] = s[i + 1]
      BY <2>1
    <2>3. Tail(s) = <<>> <=> Len(Tail(s)) = 0
      BY <2>2, EmptySeq
    <2> HIDE DEF t
    <2> QED
      BY <2>1, <2>2, <2>3 DEF t
  <1>2. PICK f : /\ \A i \in 1..n : f[i] = IF i = 1 THEN s[i] ELSE f[i - 1] \o s[i]
                 /\ Seqs!FlattenSeq(s) = f[n]
    BY Joined
  <1> HIDE DEF t, n
  <1>3. PICK g : /\ \A i \in 1..(n - 1) : /\ g[i] = IF i = 1 THEN t[i] ELSE g[i - 1] \o t[i]
                                          /\ g[i] \in Seq(S) /\ t[i] \in Seq(S)
                 /\ Seqs!FlattenSeq(t) = IF t = <<>> THEN <<>> ELSE g[n - 1]
    <2>1. t \in Seq(Seq(S))
      BY <1>1
    <2>2. PICK g : /\ \A i \in 1..Len(t) : /\ g[i] = IF i = 1 THEN t[i] ELSE g[i - 1] \o t[i]
                                           /\ g[i] \in Seq(S) /\ t[i] \in Seq(S)
                   /\ Seqs!FlattenSeq(t) = IF t = <<>> THEN <<>> ELSE g[Len(t)]
      BY <2>1, Joined
    <2> QED
      BY <1>1, <2>2
  <1>0. PICK a \in Seq(S) : a = s[1]
    BY <1>1
  <1>4. \A k \in 2..n : f[k] = a \o g[k - 1]
    <2>1. f[1] = a
      BY <1>0, <1>1, <1>2
    <2>2. ASSUME NEW k \in 2..n PROVE f[k] = f[k - 1] \o t[k - 1]
      <3>1. k \in 1..n /\ k # 1 /\ k - 1 \in 1..(n - 1) /\ (k - 1) + 1 = k
        BY <1>1
      <3>2. f[k] = f[k - 1] \o s[k]
        BY <1>2, <3>1
      <3> QED
        BY <1>1, <3>1, <3>2
    <2>3. n \in Nat
      BY <1>1
    <2>4. Sums(S, a, n, f, g, t)
      BY <1>3, <2>1, <2>2 DEF Sums
    <2> QED
      BY <2>3, <2>4, SumsPrefixed
  <1>5. CASE n = 1
    <2>1. f[n] = s[1] /\ Seqs!FlattenSeq(t) = <<>>
      BY <1>1, <1>2, <1>3, <1>5
    <2> QED
      BY <1>1, <1>2, <2>1, ConcatEmptySeq DEF t
  <1>6. CASE n # 1
    <2>1. n \in 2..n
      BY <1>1, <1>6
    <2>2. f[n] = a \o g[n - 1]
      BY <1>4, <2>1
    <2> QED
      BY <1>0, <1>1, <1>2, <1>3, <1>6, <2>2 DEF t
  <1> QED
    BY <1>5, <1>6

===============================================================================
