--------------------------- MODULE AlgorithmProofs ---------------------------
(***************************************************************************)
(* The prompts of ContextWindow, the searches of Retrieval and the         *)
(* passages of Chunking, for every size of their parts. Their loops are    *)
(* recursive functions. What they do is shown by an induction that only    *)
(* uses facts about finite sets, and so is what flattening and sorting do. *)
(***************************************************************************)
EXTENDS ContextWindow, Retrieval, Chunking, SequencesExt, FiniteSetTheorems, SequenceTheorems, TLAPS

-----------------------------------------------------------------------------
(* Induction, flattening and sorting. *)

\* A set of naturals with 0 and every successor has them all: were n the first one
\* missing, adding 1 would map what is below it into itself, and miss 0.
LEMMA NatSets ==
  ASSUME NEW T \in SUBSET Nat, 0 \in T, \A n \in T : n + 1 \in T
  PROVE  T = Nat
<1> SUFFICES ASSUME NEW n \in Nat, n \notin T PROVE FALSE
  OBVIOUS
<1> DEFINE A == T \cap 0 .. n
           f == [x \in A |-> x + 1]
<1>1. IsFiniteSet(A)
  <2>1. IsFiniteSet(0 .. n) /\ A \in SUBSET (0 .. n)
    BY FS_Interval
  <2> HIDE DEF A
  <2> QED
    BY <2>1, FS_Subset
<1>2. f \in [A -> A]
  BY SMT
<1>3. f \in Injection(A, A)
  BY <1>2 DEF Injection, IsInjective
<1> HIDE DEF f
<1>4. f \in Surjection(A, A)
  BY <1>1, <1>3, FS_Injection
<1>5. 0 \in A
  OBVIOUS
<1>6. PICK x \in A : f[x] = 0
  BY <1>4, <1>5 DEF Surjection
<1> QED
  BY <1>6 DEF f

\* The function that FlattenSeq is defined by.
Flattens(ss, g) == g = [i \in 1 .. Len(ss) |-> IF i = 1 THEN ss[i] ELSE g[i - 1] \o ss[i]]

\* There is one.
LEMMA FlattenExists == ASSUME NEW S, NEW ss \in Seq(Seq(S)) PROVE \E g : Flattens(ss, g)
<1> DEFINE Upto(n, g) == g = [i \in 1 .. n |-> IF i = 1 THEN ss[i] ELSE g[i - 1] \o ss[i]]
           T == {n \in Nat : \E g : Upto(n, g)}
<1>1. 0 \in T
  <2>1. Upto(0, [i \in 1 .. 0 |-> ss[i]])
    OBVIOUS
  <2> HIDE DEF Upto
  <2> QED
    BY <2>1
<1>2. ASSUME NEW n \in T PROVE n + 1 \in T
  <2>1. n \in Nat /\ \E g : Upto(n, g)
    BY <1>2
  <2>2. PICK g : Upto(n, g)
    BY <2>1
  <2> DEFINE last == IF n = 0 THEN ss[1] ELSE g[n] \o ss[n + 1]
             h == [i \in 1 .. n + 1 |-> IF i = n + 1 THEN last ELSE g[i]]
  <2>3. h[n + 1] = last /\ \A i \in 1 .. n : h[i] = g[i]
    <3>1. n + 1 \in 1 .. n + 1 /\ \A i \in 1 .. n : i \in 1 .. n + 1 /\ i # n + 1
      BY <2>1
    <3> HIDE DEF last
    <3> QED
      BY <3>1
  <2>4. \A i \in 1 .. n : g[i] = IF i = 1 THEN ss[i] ELSE g[i - 1] \o ss[i]
    BY <2>2
  <2>5. ASSUME NEW i \in 1 .. n + 1
        PROVE  h[i] = IF i = 1 THEN ss[i] ELSE h[i - 1] \o ss[i]
    <3>1. CASE i = n + 1
      <4>1. n # 0 => i - 1 \in 1 .. n /\ i - 1 = n
        BY <2>1, <3>1
      <4>2. n = 0 <=> i = 1
        BY <2>1, <3>1
      <4> HIDE DEF h
      <4> QED
        BY <2>3, <3>1, <4>1, <4>2
    <3>2. CASE i \in 1 .. n
      <4>1. i # 1 => i - 1 \in 1 .. n
        BY <2>1, <3>2
      <4> HIDE DEF h
      <4> QED
        BY <2>3, <2>4, <3>2, <4>1
    <3> QED
      BY <2>1, <3>1, <3>2
  <2>6. Upto(n + 1, h)
    <3>1. h = [i \in 1 .. n + 1 |-> h[i]]
      OBVIOUS
    <3> HIDE DEF h
    <3> QED
      BY <2>5, <3>1
  <2> HIDE DEF Upto, h
  <2> QED
    BY <2>1, <2>6
<1>3. T = Nat
  <2> HIDE DEF T
  <2>1. T \in SUBSET Nat
    BY DEF T
  <2> QED
    BY <1>1, <1>2, <2>1, NatSets
<1>4. PICK g : Upto(Len(ss), g)
  <2>1. Len(ss) \in T
    <3> HIDE DEF T
    <3> QED
      BY <1>3
  <2> QED
    BY <2>1
<1> QED
  BY <1>4 DEF Flattens

\* In t the first n sequences of ss stand one after the other, the i-th of them after
\* off[i] elements.
Offsets(n, ss, t, off) ==
  /\ off \in [1 .. n -> Nat]
  /\ \A i \in 1 .. n : /\ off[i] + Len(ss[i]) <= Len(t)
                       /\ \A k \in 1 .. Len(ss[i]) : t[off[i] + k] = ss[i][k]
  /\ \A p \in 1 .. Len(t) : \E i \in 1 .. n : \E k \in 1 .. Len(ss[i]) : p = off[i] + k
  /\ \A i, j \in 1 .. n : i < j => off[i] + Len(ss[i]) <= off[j]

\* A place after an offset.
LEMMA Within ==
  ASSUME NEW a \in Nat, NEW b \in Nat, NEW c \in Nat, a + b <= c
  PROVE  \A k \in 1 .. b : a + k \in 1 .. c
OBVIOUS

\* One more sequence.
LEMMA OffsetsNext ==
  ASSUME NEW S, NEW ss \in Seq(Seq(S)), NEW n \in Nat, n + 1 \in 1 .. Len(ss),
         NEW t \in Seq(S), NEW off, Offsets(n, ss, t, off)
  PROVE  \E new : Offsets(n + 1, ss, t \o ss[n + 1], new)
<1> DEFINE u == t \o ss[n + 1]
           new == [i \in 1 .. n + 1 |-> IF i = n + 1 THEN Len(t) ELSE off[i]]
<1>1. ss[n + 1] \in Seq(S) /\ Len(t) \in Nat /\ Len(ss[n + 1]) \in Nat
  OBVIOUS
<1>2. /\ Len(u) = Len(t) + Len(ss[n + 1])
      /\ \A p \in 1 .. Len(t) : u[p] = t[p]
      /\ \A k \in 1 .. Len(ss[n + 1]) : u[Len(t) + k] = ss[n + 1][k]
  BY <1>1
<1>3. \A i \in 1 .. n : i \in 1 .. n + 1 /\ i # n + 1 /\ i \in 1 .. Len(ss)
  BY SMT
<1>4. off \in [1 .. n -> Nat]
  BY DEF Offsets
<1>5. /\ new \in [1 .. n + 1 -> Nat]
      /\ new[n + 1] = Len(t)
      /\ \A i \in 1 .. n : new[i] = off[i]
  <2>1. n + 1 \in 1 .. n + 1 /\ \A i \in 1 .. n + 1 : i = n + 1 \/ i \in 1 .. n
    OBVIOUS
  <2> QED
    BY <1>1, <1>3, <1>4, <2>1
<1> HIDE DEF u, new
<1>6. \A i \in 1 .. n : ss[i] \in Seq(S) /\ Len(ss[i]) \in Nat /\ off[i] \in Nat
  BY <1>3, <1>4
<1>7. ASSUME NEW i \in 1 .. n + 1
      PROVE  /\ new[i] + Len(ss[i]) <= Len(u)
             /\ \A k \in 1 .. Len(ss[i]) : u[new[i] + k] = ss[i][k]
  <2>1. CASE i = n + 1
    <3>1. new[i] = Len(t) /\ ss[i] = ss[n + 1]
      BY <1>5, <2>1
    <3>2. new[i] + Len(ss[i]) <= Len(u)
      BY <1>1, <1>2, <3>1
    <3>3. \A k \in 1 .. Len(ss[i]) : u[new[i] + k] = ss[i][k]
      BY <1>2, <3>1
    <3> QED
      BY <3>2, <3>3
  <2>2. CASE i \in 1 .. n
    <3>1. off[i] + Len(ss[i]) <= Len(t) /\ \A k \in 1 .. Len(ss[i]) : t[off[i] + k] = ss[i][k]
      BY <2>2 DEF Offsets
    <3>2. \A k \in 1 .. Len(ss[i]) : off[i] + k \in 1 .. Len(t)
      <4>1. off[i] \in Nat /\ Len(ss[i]) \in Nat /\ off[i] + Len(ss[i]) <= Len(t)
        BY <1>6, <2>2, <3>1
      <4> QED
        BY <1>1, <4>1, Within
    <3>3. new[i] = off[i] /\ Len(u) >= Len(t)
      BY <1>1, <1>2, <1>5, <2>2, SMTT(20)
    <3>4. new[i] + Len(ss[i]) <= Len(u)
      BY <1>1, <1>2, <1>6, <2>2, <3>1, <3>3
    <3>5. \A k \in 1 .. Len(ss[i]) : u[new[i] + k] = ss[i][k]
      BY <1>2, <3>1, <3>2, <3>3
    <3> QED
      BY <3>4, <3>5
  <2> QED
    BY <2>1, <2>2
<1>8. ASSUME NEW p \in 1 .. Len(u)
      PROVE  \E i \in 1 .. n + 1 : \E k \in 1 .. Len(ss[i]) : p = new[i] + k
  <2>1. CASE p \in 1 .. Len(t)
    <3>1. PICK i \in 1 .. n : \E k \in 1 .. Len(ss[i]) : p = off[i] + k
      BY <2>1 DEF Offsets
    <3> QED
      BY <1>3, <1>5, <3>1
  <2>2. CASE p \notin 1 .. Len(t)
    <3>1. p - Len(t) \in 1 .. Len(ss[n + 1]) /\ p = Len(t) + (p - Len(t))
      BY <1>1, <1>2, <2>2
    <3>2. n + 1 \in 1 .. n + 1
      OBVIOUS
    <3> QED
      BY <1>5, <3>1, <3>2
  <2> QED
    BY <2>1, <2>2
<1>9. ASSUME NEW i \in 1 .. n + 1, NEW j \in 1 .. n + 1, i < j
      PROVE  new[i] + Len(ss[i]) <= new[j]
  <2>1. i \in 1 .. n
    BY <1>9
  <2>2. CASE j = n + 1
    BY <1>5, <2>1, <2>2 DEF Offsets
  <2>3. CASE j \in 1 .. n
    BY <1>5, <1>9, <2>1, <2>3 DEF Offsets
  <2> QED
    BY <2>2, <2>3
<1>10. Offsets(n + 1, ss, u, new)
  BY <1>5, <1>7, <1>8, <1>9 DEF Offsets
<1> QED
  BY <1>10 DEF u

\* Flattening puts the sequences one after the other.
LEMMA FlattenPlaces ==
  ASSUME NEW S, NEW ss \in Seq(Seq(S))
  PROVE  /\ FlattenSeq(ss) \in Seq(S)
         /\ \E off : Offsets(Len(ss), ss, FlattenSeq(ss), off)
<1>1. CASE Len(ss) = 0
  <2>1. FlattenSeq(ss) = <<>> /\ <<>> \in Seq(S) /\ Len(<<>>) = 0
    BY <1>1 DEF FlattenSeq
  <2> DEFINE off == [i \in 1 .. 0 |-> 0]
  <2>2. off \in [1 .. 0 -> Nat] /\ 1 .. 0 = {}
    OBVIOUS
  <2> HIDE DEF off
  <2>3. Offsets(0, ss, <<>>, off)
    BY <2>1, <2>2 DEF Offsets
  <2> QED
    BY <1>1, <2>1, <2>3
<1>2. CASE Len(ss) # 0
  <2>1. PICK g : FlattenSeq(ss) = g[Len(ss)] /\ Flattens(ss, g)
    <3> DEFINE h == CHOOSE g : Flattens(ss, g)
    <3>1. Flattens(ss, h)
      BY FlattenExists
    <3>2. FlattenSeq(ss) = h[Len(ss)]
      BY <1>2 DEF FlattenSeq, Flattens
    <3> QED
      BY <3>1, <3>2
  <2>2. \A i \in 1 .. Len(ss) : g[i] = IF i = 1 THEN ss[i] ELSE g[i - 1] \o ss[i]
    BY <2>1 DEF Flattens
  <2> DEFINE T == {n \in Nat : n + 1 \in 1 .. Len(ss) =>
                     g[n + 1] \in Seq(S) /\ \E off : Offsets(n + 1, ss, g[n + 1], off)}
  <2>3. 0 \in T
    <3>1. Len(ss) \in Nat /\ 1 \in 1 .. Len(ss) /\ g[1] = ss[1] /\ ss[1] \in Seq(S)
      BY <1>2, <2>2
    <3> DEFINE off == [i \in 1 .. 1 |-> 0]
    <3>2. off \in [1 .. 1 -> Nat] /\ off[1] = 0 /\ 1 .. 1 = {1} /\ Len(ss[1]) \in Nat
      BY <3>1
    <3>3. \A k \in 1 .. Len(ss[1]) : 0 + k = k
      BY <3>2
    <3> HIDE DEF off
    <3>4. Offsets(1, ss, ss[1], off)
      BY <3>2, <3>3 DEF Offsets
    <3> QED
      BY <3>1, <3>4
  <2>4. ASSUME NEW n \in T PROVE n + 1 \in T
    <3> SUFFICES ASSUME (n + 1) + 1 \in 1 .. Len(ss)
                 PROVE  /\ g[(n + 1) + 1] \in Seq(S)
                        /\ \E off : Offsets((n + 1) + 1, ss, g[(n + 1) + 1], off)
      OBVIOUS
    <3>1. /\ n + 1 \in 1 .. Len(ss) /\ n + 1 \in Nat /\ (n + 1) + 1 # 1
          /\ ((n + 1) + 1) - 1 = n + 1
      OBVIOUS
    <3>2. PICK off : Offsets(n + 1, ss, g[n + 1], off)
      BY <2>4, <3>1
    <3>3. g[n + 1] \in Seq(S)
      BY <2>4, <3>1
    <3>4. g[(n + 1) + 1] = g[n + 1] \o ss[(n + 1) + 1]
      BY <2>2, <3>1
    <3>5. ss[(n + 1) + 1] \in Seq(S)
      OBVIOUS
    <3> DEFINE m == n + 1
    <3>6. m \in Nat /\ m + 1 \in 1 .. Len(ss) /\ g[m] \in Seq(S) /\ Offsets(m, ss, g[m], off)
      BY <3>1, <3>2, <3>3
    <3> HIDE DEF m
    <3>7. \E new : Offsets(m + 1, ss, g[m] \o ss[m + 1], new)
      BY <3>6, OffsetsNext
    <3> QED
      BY <3>3, <3>4, <3>5, <3>7 DEF m
  <2>5. T = Nat
    <3>1. T \in SUBSET Nat
      OBVIOUS
    <3> HIDE DEF T
    <3> QED
      BY <2>3, <2>4, <3>1, NatSets
  <2>6. Len(ss) - 1 \in T /\ (Len(ss) - 1) + 1 = Len(ss) /\ Len(ss) \in 1 .. Len(ss)
    <3>1. Len(ss) - 1 \in Nat /\ (Len(ss) - 1) + 1 = Len(ss) /\ Len(ss) \in 1 .. Len(ss)
      BY <1>2
    <3> HIDE DEF T
    <3> QED
      BY <2>5, <3>1
  <2> QED
    BY <2>1, <2>6
<1> QED
  BY <1>1, <1>2

\* An element of what is flattened has one place there, and the order of the places
\* is the order of the sequences.
LEMMA OffsetsOrder ==
  ASSUME NEW S, NEW ss \in Seq(Seq(S)), NEW t, NEW off, Offsets(Len(ss), ss, t, off),
         NEW i \in 1 .. Len(ss), NEW k \in 1 .. Len(ss[i]),
         NEW j \in 1 .. Len(ss), NEW l \in 1 .. Len(ss[j])
  PROVE  /\ i < j => off[i] + k < off[j] + l
         /\ off[i] + k = off[j] + l => i = j /\ k = l
<1>1. /\ off[i] \in Nat /\ off[j] \in Nat /\ Len(ss[i]) \in Nat /\ Len(ss[j]) \in Nat
      /\ i < j => off[i] + Len(ss[i]) <= off[j]
      /\ j < i => off[j] + Len(ss[j]) <= off[i]
  <2>1. off \in [1 .. Len(ss) -> Nat]
    BY DEF Offsets
  <2>2. ss[i] \in Seq(S) /\ ss[j] \in Seq(S)
    OBVIOUS
  <2>3. /\ i < j => off[i] + Len(ss[i]) <= off[j]
        /\ j < i => off[j] + Len(ss[j]) <= off[i]
    BY DEF Offsets
  <2>4. Len(ss[i]) \in Nat /\ Len(ss[j]) \in Nat
    BY <2>2
  <2>5. off[i] \in Nat /\ off[j] \in Nat
    BY <2>1
  <2> QED
    BY <2>3, <2>4, <2>5
<1>2. i < j => off[i] + k < off[j] + l
  BY <1>1, SMTT(20)
<1>3. j < i => off[j] + l < off[i] + k
  BY <1>1, SMTT(20)
<1>4. i = j => (off[i] + k = off[j] + l => k = l)
  BY <1>1
<1> QED
  BY <1>1, <1>2, <1>3, <1>4

\* Of two different places of 1 .. n one is before the other.
Orders(before, n) ==
  /\ \A i \in 1 .. n : <<i, i>> \notin before
  /\ \A i, j, k \in 1 .. n : <<i, j>> \in before /\ <<j, k>> \in before => <<i, k>> \in before
  /\ \A i, j \in 1 .. n : i = j \/ <<i, j>> \in before \/ <<j, i>> \in before

Before(before, n, i) == {j \in 1 .. n : <<j, i>> \in before}

\* p goes through them in that order; the place of each is how many are before it.
Ordered(before, n, p) ==
  /\ p \in [1 .. n -> 1 .. n]
  /\ \A i \in 1 .. n : \E k \in 1 .. n : p[k] = i
  /\ \A i, j \in 1 .. n : i < j => p[i] # p[j] /\ <<p[i], p[j]>> \in before
  /\ \A i, k \in 1 .. n : Cardinality(Before(before, n, i)) = k - 1 <=> i = p[k]

LEMMA OrderedPlaces ==
  ASSUME NEW n \in Nat, NEW before, Orders(before, n)
  PROVE  \E p : Ordered(before, n, p)
<1> DEFINE D == 1 .. n
           Below(i) == Before(before, n, i)
           rank == [i \in D |-> 1 + Cardinality(Below(i))]
<1>1. IsFiniteSet(D) /\ Cardinality(D) = n
  BY FS_Interval
<1>2. ASSUME NEW i \in D
      PROVE  IsFiniteSet(Below(i)) /\ Cardinality(Below(i)) \in 0 .. n - 1
  <2>1. Below(i) \cup {i} \in SUBSET D /\ i \notin Below(i) /\ Below(i) \in SUBSET D
    BY DEF Orders, Before
  <2> HIDE DEF D, Below
  <2>2. IsFiniteSet(Below(i))
    BY <1>1, <2>1, FS_Subset
  <2>3. Cardinality(Below(i) \cup {i}) = Cardinality(Below(i)) + 1
    BY <2>1, <2>2, FS_AddElement
  <2>4. Cardinality(Below(i) \cup {i}) <= n
    BY <1>1, <2>1, FS_Subset
  <2>5. Cardinality(Below(i)) \in Nat
    BY <2>2, FS_CardinalityType
  <2> QED
    BY <2>2, <2>3, <2>4, <2>5
<1>3. rank \in [D -> D]
  <2>1. \A i \in D : 1 + Cardinality(Below(i)) \in D
    <3> TAKE i \in D
    <3>1. Cardinality(Below(i)) \in 0 .. n - 1
      BY <1>2
    <3> HIDE DEF Below
    <3> QED
      BY <3>1
  <2> HIDE DEF D, Below
  <2> QED
    BY <2>1
<1>4. ASSUME NEW i \in D, NEW j \in D, <<i, j>> \in before PROVE rank[i] < rank[j]
  <2>1. Below(i) \cup {i} \in SUBSET Below(j) /\ i \notin Below(i)
    BY <1>4 DEF Orders, Before
  <2>2. /\ IsFiniteSet(Below(i)) /\ Cardinality(Below(i)) \in Nat
        /\ IsFiniteSet(Below(j)) /\ Cardinality(Below(j)) \in Nat
    BY <1>2, FS_CardinalityType
  <2>3. rank[i] = 1 + Cardinality(Below(i)) /\ rank[j] = 1 + Cardinality(Below(j))
    OBVIOUS
  <2> HIDE DEF D, Below, rank
  <2>4. Cardinality(Below(i) \cup {i}) = Cardinality(Below(i)) + 1
    BY <2>1, <2>2, FS_AddElement
  <2>5. Cardinality(Below(i) \cup {i}) <= Cardinality(Below(j))
    BY <2>1, <2>2, FS_Subset
  <2> QED
    BY <2>2, <2>3, <2>4, <2>5
<1>5. \A i \in D : rank[i] = 1 + Cardinality(Below(i)) /\ Cardinality(Below(i)) \in Nat
  <2> TAKE i \in D
  <2>1. Cardinality(Below(i)) \in 0 .. n - 1
    BY <1>2
  <2> HIDE DEF Below
  <2> QED
    BY <2>1
<1> HIDE DEF rank, Below
<1>6. \A i, j \in D : <<i, j>> \in before \/ <<j, i>> \in before \/ i = j
  BY DEF Orders
<1>7. rank \in Injection(D, D)
  <2>1. \A i \in D : rank[i] \in Nat
    BY <1>3
  <2>2. ASSUME NEW i \in D, NEW j \in D, rank[i] = rank[j] PROVE i = j
    <3>1. ~(rank[i] < rank[j]) /\ ~(rank[j] < rank[i])
      BY <2>1, <2>2
    <3>2. <<i, j>> \notin before /\ <<j, i>> \notin before
      BY <1>4, <3>1
    <3> QED
      BY <1>6, <3>2
  <2> HIDE DEF D
  <2> QED
    BY <1>3, <2>2 DEF Injection, IsInjective
<1>8. rank \in Surjection(D, D)
  <2> HIDE DEF D
  <2> QED
    BY <1>1, <1>7, FS_Injection
<1> DEFINE p == [k \in D |-> CHOOSE i \in D : rank[i] = k]
<1>9. \A k \in D : p[k] \in D /\ rank[p[k]] = k
  <2>1. \A k \in D : \E i \in D : rank[i] = k
    BY <1>8 DEF Surjection
  <2> HIDE DEF D
  <2> QED
    BY <2>1
<1>10. p \in [D -> D]
  <2>1. p = [k \in D |-> p[k]]
    OBVIOUS
  <2> HIDE DEF p, D
  <2> QED
    BY <1>9, <2>1
<1> HIDE DEF p
<1>11. ASSUME NEW i \in D, NEW j \in D, i < j PROVE p[i] # p[j] /\ <<p[i], p[j]>> \in before
  <2>1. p[i] \in D /\ p[j] \in D /\ rank[p[i]] = i /\ rank[p[j]] = j
    BY <1>9
  <2>2. p[i] # p[j]
    BY <1>11, <2>1
  <2>3. <<p[j], p[i]>> \notin before
    <3> SUFFICES ASSUME <<p[j], p[i]>> \in before PROVE FALSE
      OBVIOUS
    <3>1. rank[p[j]] < rank[p[i]]
      BY <1>4, <2>1
    <3> QED
      BY <1>11, <2>1, <3>1
  <2> QED
    BY <1>6, <2>1, <2>2, <2>3
<1>12. ASSUME NEW i \in D, NEW k \in D
       PROVE  Cardinality(Below(i)) = k - 1 <=> i = p[k]
  <2>1. Cardinality(Below(i)) = k - 1 <=> rank[i] = k
    BY <1>5
  <2>2. rank[i] = k <=> i = p[k]
    BY <1>7, <1>9 DEF Injection, IsInjective
  <2> QED
    BY <2>1, <2>2
<1>13. ASSUME NEW i \in D PROVE \E k \in D : p[k] = i
  <2>1. rank[i] \in D
    BY <1>3
  <2>2. rank[p[rank[i]]] = rank[i] /\ p[rank[i]] \in D
    BY <1>9, <2>1
  <2>3. p[rank[i]] = i
    BY <1>7, <2>2 DEF Injection, IsInjective
  <2> QED
    BY <2>1, <2>3
<1>14. Ordered(before, n, p)
  BY <1>10, <1>11, <1>12, <1>13 DEF Ordered, Below
<1> QED
  BY <1>14

\* Different numbers can be sorted.
LEMMA Sortable ==
  ASSUME NEW n \in Nat, NEW v \in [1 .. n -> Nat],
         \A i, j \in 1 .. n : v[i] = v[j] => i = j
  PROVE  \E p \in [1 .. n -> 1 .. n] : \A i, j \in 1 .. n : i < j => v[p[i]] < v[p[j]]
<1> DEFINE less == {pair \in (1 .. n) \X (1 .. n) : v[pair[1]] < v[pair[2]]}
<1>1. \A i, j \in 1 .. n : <<i, j>> \in less <=> v[i] < v[j]
  OBVIOUS
<1>2. \A i \in 1 .. n : v[i] \in Nat
  OBVIOUS
<1> HIDE DEF less
<1>3. Orders(less, n)
  <2>1. \A i \in 1 .. n : <<i, i>> \notin less
    BY <1>1, <1>2
  <2>2. \A i, j, k \in 1 .. n : v[i] < v[j] /\ v[j] < v[k] => v[i] < v[k]
    BY <1>2
  <2>3. \A i, j \in 1 .. n : i = j \/ v[i] < v[j] \/ v[j] < v[i]
    BY <1>2
  <2> QED
    BY <1>1, <2>1, <2>2, <2>3 DEF Orders
<1>4. PICK p : Ordered(less, n, p)
  BY <1>3, OrderedPlaces
<1>5. p \in [1 .. n -> 1 .. n] /\ \A i, j \in 1 .. n : i < j => <<p[i], p[j]>> \in less
  BY <1>4 DEF Ordered
<1>6. \A i, j \in 1 .. n : i < j => v[p[i]] < v[p[j]]
  <2>1. \A i \in 1 .. n : p[i] \in 1 .. n
    BY <1>5
  <2> QED
    BY <1>1, <1>5, <2>1
<1> QED
  BY <1>5, <1>6

-----------------------------------------------------------------------------
(* Loops. *)

\* Induction up to a bound.
LEMMA Upto ==
  ASSUME NEW N \in Nat, NEW T, 0 \in T, \A n \in 1 .. N : n - 1 \in T => n \in T
  PROVE  \A n \in 0 .. N : n \in T
<1> DEFINE A == {n \in Nat : n \in T \/ n > N}
<1>1. A \in SUBSET Nat /\ 0 \in A
  OBVIOUS
<1>2. ASSUME NEW n \in A PROVE n + 1 \in A
  <2>1. CASE n + 1 \in 1 .. N
    <3>1. (n + 1) - 1 = n /\ n \in T
      BY <2>1
    <3> QED
      BY <2>1, <3>1
  <2>2. CASE n + 1 \notin 1 .. N
    BY <2>2
  <2> QED
    BY <2>1, <2>2
<1>3. A = Nat
  <2> HIDE DEF A
  <2> QED
    BY <1>1, <1>2, NatSets
<1> QED
  BY <1>3

\* A loop of N passes that starts from b.
Loops(f, N, b, step) == f[0] = b /\ \A n \in 1 .. N : f[n] = step[n][f[n - 1]]

\* There is one.
LEMMA LoopExists ==
  ASSUME NEW N \in Nat, NEW St, NEW b \in St, NEW step \in [1 .. N -> [St -> St]]
  PROVE  \E f \in [0 .. N -> St] : Loops(f, N, b, step)
<1> DEFINE T == {m \in 0 .. N : \E f \in [0 .. m -> St] : Loops(f, m, b, step)}
<1>1. 0 \in T
  <2> DEFINE f == [n \in 0 .. 0 |-> b]
  <2>1. f \in [0 .. 0 -> St] /\ f[0] = b
    OBVIOUS
  <2> HIDE DEF f
  <2>2. Loops(f, 0, b, step)
    BY <2>1 DEF Loops
  <2> QED
    BY <2>1, <2>2
<1>2. ASSUME NEW m \in 1 .. N, m - 1 \in T PROVE m \in T
  <2>1. PICK f \in [0 .. m - 1 -> St] : Loops(f, m - 1, b, step)
    BY <1>2
  <2> DEFINE g == [n \in 0 .. m |-> IF n = m THEN step[m][f[m - 1]] ELSE f[n]]
  <2>2. f[m - 1] \in St /\ step[m] \in [St -> St]
    BY <2>1
  <2>3. \A n \in 0 .. m : n # m => n \in 0 .. m - 1 /\ f[n] \in St
    BY <2>1
  <2>4. g \in [0 .. m -> St]
    BY <2>2, <2>3
  <2>5. g[m] = step[m][f[m - 1]] /\ \A n \in 0 .. m - 1 : g[n] = f[n]
    OBVIOUS
  <2> HIDE DEF g
  <2>6. g[0] = b
    BY <2>1, <2>5 DEF Loops
  <2>7. ASSUME NEW n \in 1 .. m PROVE g[n] = step[n][g[n - 1]]
    <3>1. CASE n = m
      BY <2>5, <3>1
    <3>2. CASE n # m
      <4>1. n \in 1 .. m - 1 /\ n \in 0 .. m - 1 /\ n - 1 \in 0 .. m - 1
        BY <3>2
      <4> QED
        BY <2>1, <2>5, <4>1 DEF Loops
    <3> QED
      BY <3>1, <3>2
  <2>8. Loops(g, m, b, step)
    BY <2>6, <2>7 DEF Loops
  <2> QED
    BY <2>4, <2>8
<1>3. N \in T
  <2>1. N \in 0 .. N
    OBVIOUS
  <2> HIDE DEF T
  <2>2. \A n \in 0 .. N : n \in T
    BY <1>1, <1>2, Upto
  <2> QED
    BY <2>1, <2>2
<1> QED
  BY <1>3

-----------------------------------------------------------------------------
(* Sums. *)

\* The sums of the first elements of s.
Sums(s, g) == g[0] = 0 /\ \A n \in 1 .. Len(s) : g[n] = g[n - 1] + s[n]

\* The total is the last of them, whoever computes them.
LEMMA TotalIs ==
  ASSUME NEW s \in Seq(Nat), NEW g \in [0 .. Len(s) -> Int], Sums(s, g)
  PROVE  Total(s) = g[Len(s)]
<1> DEFINE Is(f) == f = [n \in 0 .. Len(s) |-> IF n = 0 THEN 0 ELSE f[n - 1] + s[n]]
           c == CHOOSE f : Is(f)
<1>1. Len(s) \in Nat
  OBVIOUS
<1>2. Is(g)
  <2>1. \A n \in 0 .. Len(s) : g[n] = IF n = 0 THEN 0 ELSE g[n - 1] + s[n]
    BY <1>1 DEF Sums
  <2> QED
    BY <2>1
<1>3. Is(c)
  <2> HIDE DEF Is
  <2> QED
    BY <1>2
<1>4. Total(s) = c[Len(s)]
  BY DEF Total
<1> HIDE DEF c
<1> DEFINE T == {n \in 0 .. Len(s) : c[n] = g[n]}
<1>5. 0 \in T
  BY <1>1, <1>3 DEF Sums
<1>6. ASSUME NEW n \in 1 .. Len(s), n - 1 \in T PROVE n \in T
  <2>1. c[n] = c[n - 1] + s[n]
    BY <1>1, <1>3, SMTT(20)
  <2> QED
    BY <1>1, <1>6, <2>1 DEF Sums
<1>7. Len(s) \in T
  <2>1. Len(s) \in 0 .. Len(s)
    BY <1>1
  <2> HIDE DEF T
  <2>2. \A n \in 0 .. Len(s) : n \in T
    BY <1>1, <1>5, <1>6, Upto
  <2> QED
    BY <2>1, <2>2
<1> QED
  BY <1>4, <1>7

LEMMA SumsExist ==
  ASSUME NEW s \in Seq(Nat)
  PROVE  \E g \in [0 .. Len(s) -> Nat] : Sums(s, g)
<1> DEFINE step == [n \in 1 .. Len(s) |-> [x \in Nat |-> x + s[n]]]
<1>1. Len(s) \in Nat /\ step \in [1 .. Len(s) -> [Nat -> Nat]]
  OBVIOUS
<1>2. PICK g \in [0 .. Len(s) -> Nat] : Loops(g, Len(s), 0, step)
  <2> HIDE DEF step
  <2> QED
    BY <1>1, LoopExists
<1>3. ASSUME NEW n \in 1 .. Len(s) PROVE g[n] = g[n - 1] + s[n]
  <2>1. n \in 1 .. Len(s) /\ n - 1 \in 0 .. Len(s)
    BY <1>1
  <2>2. g[n - 1] \in Nat
    BY <2>1
  <2>3. g[n] = step[n][g[n - 1]]
    BY <1>2, <2>1 DEF Loops
  <2> QED
    BY <2>1, <2>2, <2>3
<1> QED
  BY <1>2, <1>3 DEF Loops, Sums

LEMMA TotalNat == ASSUME NEW s \in Seq(Nat) PROVE Total(s) \in Nat
<1>1. PICK g \in [0 .. Len(s) -> Nat] : Sums(s, g)
  BY SumsExist
<1>2. g \in [0 .. Len(s) -> Int] /\ Len(s) \in 0 .. Len(s)
  OBVIOUS
<1> QED
  BY <1>1, <1>2, TotalIs

LEMMA TotalEmpty == Total(<<>>) = 0
<1>1. <<>> \in Seq(Nat) /\ Len(<<>>) = 0
  OBVIOUS
<1>2. PICK g \in [0 .. 0 -> Nat] : Sums(<<>>, g)
  BY <1>1, SumsExist
<1>3. g \in [0 .. 0 -> Int]
  OBVIOUS
<1> QED
  BY <1>1, <1>2, <1>3, TotalIs DEF Sums

LEMMA TotalAppend ==
  ASSUME NEW s \in Seq(Nat), NEW x \in Nat
  PROVE  Total(Append(s, x)) = Total(s) + x
<1>1. PICK g \in [0 .. Len(s) -> Nat] : Sums(s, g)
  BY SumsExist
<1> DEFINE t == Append(s, x)
           h == [n \in 0 .. Len(t) |-> IF n = Len(t) THEN g[Len(s)] + x ELSE g[n]]
<1>2. /\ t \in Seq(Nat) /\ Len(s) \in Nat /\ Len(t) = Len(s) + 1 /\ t[Len(t)] = x
      /\ \A n \in 1 .. Len(s) : t[n] = s[n]
  OBVIOUS
<1> HIDE DEF t
<1>3. h \in [0 .. Len(t) -> Int] /\ h[Len(t)] = g[Len(s)] + x /\ \A n \in 0 .. Len(s) : h[n] = g[n]
  <2>1. \A n \in 0 .. Len(t) : n # Len(t) => n \in 0 .. Len(s)
    BY <1>2
  <2>2. \A n \in 0 .. Len(s) : n # Len(t) /\ n \in 0 .. Len(t)
    BY <1>2
  <2>3. g[Len(s)] \in Nat /\ Len(t) \in 0 .. Len(t) /\ \A n \in 0 .. Len(s) : g[n] \in Int
    BY <1>2, SMTT(20)
  <2>4. h[Len(t)] = g[Len(s)] + x
    BY <2>3
  <2>5. \A n \in 0 .. Len(s) : h[n] = g[n]
    BY <2>2
  <2>6. h \in [0 .. Len(t) -> Int]
    BY <2>1, <2>3
  <2> QED
    BY <2>4, <2>5, <2>6
<1> HIDE DEF h
<1>4. Sums(t, h)
  <2>1. h[0] = 0
    BY <1>1, <1>2, <1>3 DEF Sums
  <2>2. ASSUME NEW n \in 1 .. Len(t) PROVE h[n] = h[n - 1] + t[n]
    <3>1. CASE n = Len(t)
      <4>1. n - 1 = Len(s) /\ Len(s) \in 0 .. Len(s)
        BY <1>2, <3>1
      <4> QED
        BY <1>2, <1>3, <3>1, <4>1
    <3>2. CASE n # Len(t)
      <4>1. n \in 1 .. Len(s) /\ n \in 0 .. Len(s) /\ n - 1 \in 0 .. Len(s)
        BY <1>2, <3>2
      <4> QED
        BY <1>1, <1>2, <1>3, <4>1 DEF Sums
    <3> QED
      BY <3>1, <3>2
  <2> QED
    BY <2>1, <2>2 DEF Sums
<1>5. Total(t) = h[Len(t)]
  BY <1>2, <1>3, <1>4, TotalIs
<1>6. Total(s) = g[Len(s)]
  <2>1. g \in [0 .. Len(s) -> Int]
    OBVIOUS
  <2> QED
    BY <1>1, <2>1, TotalIs
<1> QED
  BY <1>3, <1>5, <1>6 DEF t

LEMMA TotalPrepend ==
  ASSUME NEW s \in Seq(Nat), NEW x \in Nat, NEW t \in Seq(Nat), Len(t) = Len(s) + 1,
         t[1] = x, \A n \in 1 .. Len(s) : t[n + 1] = s[n]
  PROVE  Total(t) = x + Total(s)
<1>1. PICK g \in [0 .. Len(s) -> Nat] : Sums(s, g)
  BY SumsExist
<1> DEFINE h == [n \in 0 .. Len(t) |-> IF n = 0 THEN 0 ELSE x + g[n - 1]]
<1>2. Len(s) \in Nat
  OBVIOUS
<1>3. /\ h \in [0 .. Len(t) -> Int] /\ h[0] = 0
      /\ \A n \in 0 .. Len(s) : h[n + 1] = x + g[n]
  <2>1. \A n \in 0 .. Len(t) : n # 0 => n - 1 \in 0 .. Len(s)
    BY <1>2
  <2>2. \A n \in 0 .. Len(s) : n + 1 \in 0 .. Len(t) /\ n + 1 # 0 /\ (n + 1) - 1 = n
    BY <1>2
  <2> QED
    BY <1>2, <2>1, <2>2
<1> HIDE DEF h
<1>4. ASSUME NEW n \in 1 .. Len(t) PROVE h[n] = h[n - 1] + t[n]
  <2>1. CASE n = 1
    <3>1. h[0 + 1] = x + g[0] /\ g[0] = 0
      BY <1>1, <1>2, <1>3 DEF Sums
    <3> QED
      BY <1>3, <2>1, <3>1
  <2>2. CASE n # 1
    <3> DEFINE m == n - 1
    <3>1. m \in 1 .. Len(s) /\ m \in 0 .. Len(s) /\ m - 1 \in 0 .. Len(s)
          /\ m + 1 = n /\ (m - 1) + 1 = n - 1
      BY <1>2, <2>2
    <3> HIDE DEF m
    <3>2. h[m + 1] = x + g[m] /\ h[(m - 1) + 1] = x + g[m - 1] /\ t[m + 1] = s[m]
      BY <1>3, <3>1
    <3>3. g[m] = g[m - 1] + s[m]
      BY <1>1, <3>1 DEF Sums
    <3>4. g[m - 1] \in Nat /\ s[m] \in Nat
      <4>1. g[m - 1] \in Nat
        BY <3>1
      <4>2. s[m] \in Nat
        BY <3>1, SMTT(30)
      <4> QED
        BY <4>1, <4>2
    <3>5. h[n] = x + g[m] /\ h[n - 1] = x + g[m - 1] /\ t[n] = s[m]
      BY <3>1, <3>2
    <3> HIDE DEF h
    <3> QED
      BY <3>3, <3>4, <3>5, SMTT(30)
  <2> QED
    BY <2>1, <2>2
<1>5. Total(t) = h[Len(t)]
  <2>1. Sums(t, h)
    BY <1>3, <1>4 DEF Sums
  <2> QED
    BY <1>3, <2>1, TotalIs
<1>6. Total(s) = g[Len(s)]
  <2>1. g \in [0 .. Len(s) -> Int]
    OBVIOUS
  <2> QED
    BY <1>1, <2>1, TotalIs
<1> QED
  BY <1>2, <1>3, <1>5, <1>6

\* A part at the end of a sequence has no more than all of it.
LEMMA TotalEnd ==
  ASSUME NEW s \in Seq(Nat), NEW k \in Nat, NEW t \in Seq(Nat), Len(t) + k = Len(s),
         \A n \in 1 .. Len(t) : t[n] = s[n + k]
  PROVE  Total(t) <= Total(s)
<1>1. PICK g \in [0 .. Len(s) -> Nat] : Sums(s, g)
  BY SumsExist
<1> DEFINE h == [n \in 0 .. Len(t) |-> g[n + k] - g[k]]
<1>2. Len(s) \in Nat /\ Len(t) \in Nat /\ \A n \in 0 .. Len(t) : n + k \in 0 .. Len(s)
  OBVIOUS
<1>3. g[k] \in Nat
  <2>1. k \in 0 .. Len(s)
    BY <1>2
  <2> QED
    BY <2>1
<1>4. h \in [0 .. Len(t) -> Int] /\ \A n \in 0 .. Len(t) : h[n] = g[n + k] - g[k]
  BY <1>2, <1>3
<1> HIDE DEF h
<1>5. h[0] = 0
  BY <1>2, <1>3, <1>4
<1>6. ASSUME NEW n \in 1 .. Len(t) PROVE h[n] = h[n - 1] + t[n]
  <2>1. n \in 0 .. Len(t) /\ n - 1 \in 0 .. Len(t) /\ (n - 1) + k = (n + k) - 1
        /\ n + k \in 1 .. Len(s)
    <3>1. n \in 1 .. Len(t) /\ n + k <= Len(s)
      BY <1>2
    <3> QED
      BY <1>2, <3>1
  <2>2. g[n + k] = g[(n + k) - 1] + s[n + k]
    BY <1>1, <2>1 DEF Sums
  <2>3. h[n] = g[n + k] - g[k] /\ h[n - 1] = g[(n + k) - 1] - g[k]
    <3>1. h[n - 1] = g[(n - 1) + k] - g[k]
      BY <1>4, <2>1
    <3> QED
      BY <1>4, <2>1, <3>1
  <2>4. g[(n + k) - 1] \in Nat /\ s[n + k] \in Nat
    <3>1. (n + k) - 1 \in 0 .. Len(s)
      BY <1>2, <2>1
    <3>2. g[(n + k) - 1] \in Nat
      BY <3>1
    <3>3. s[n + k] \in Nat
      BY <2>1
    <3> QED
      BY <3>2, <3>3
  <2>5. t[n] = s[n + k]
    OBVIOUS
  <2>6. ASSUME NEW x \in Nat, NEW y \in Nat, NEW z \in Nat PROVE (x + y) - z = (x - z) + y
    OBVIOUS
  <2>7. (g[(n + k) - 1] + s[n + k]) - g[k] = (g[(n + k) - 1] - g[k]) + s[n + k]
    BY <1>3, <2>4, <2>6, Zenon
  <2> QED
    BY <2>2, <2>3, <2>5, <2>7, Zenon
<1>7. Total(t) = h[Len(t)]
  <2>1. Sums(t, h)
    BY <1>5, <1>6 DEF Sums
  <2> QED
    BY <1>4, <2>1, TotalIs
<1>8. Total(s) = g[Len(s)]
  <2>1. g \in [0 .. Len(s) -> Int]
    OBVIOUS
  <2> QED
    BY <1>1, <2>1, TotalIs
<1>9. h[Len(t)] = g[Len(s)] - g[k] /\ g[Len(s)] \in Nat
  <2>1. Len(t) \in 0 .. Len(t) /\ Len(s) \in 0 .. Len(s)
    BY <1>2
  <2> QED
    BY <1>4, <2>1
<1> QED
  BY <1>3, <1>7, <1>8, <1>9

-----------------------------------------------------------------------------
(* The passages of a prompt. *)

LEMMA MinTwo == ASSUME NEW a \in Int, NEW b \in Int PROVE Min({a, b}) = IF a <= b THEN a ELSE b
<1> DEFINE m == IF a <= b THEN a ELSE b
<1>1. m \in {a, b} /\ \A y \in {a, b} : m <= y
  OBVIOUS
<1>2. \A x \in {a, b} : (\A y \in {a, b} : x <= y) => x = m
  OBVIOUS
<1> HIDE DEF m
<1>3. Min({a, b}) = m
  BY <1>1, <1>2 DEF Min
<1> QED
  BY <1>3 DEF m

LEMMA MarginIs == ASSUME NEW n \in Int PROVE Margin(n) = IF 0 <= n THEN n ELSE 0
<1> DEFINE m == IF 0 <= n THEN n ELSE 0
<1>1. m \in {0, n} /\ \A y \in {0, n} : m >= y
  OBVIOUS
<1>2. \A x \in {0, n} : (\A y \in {0, n} : x >= y) => x = m
  OBVIOUS
<1> HIDE DEF m
<1>3. Margin(n) = m
  BY <1>1, <1>2 DEF Max, Margin
<1> QED
  BY <1>3 DEF m

LEMMA TruncatedIs ==
  ASSUME NEW size \in Nat, NEW limit \in Int
  PROVE  /\ Truncated(size, limit) \in Nat
         /\ 0 <= limit => Truncated(size, limit) <= limit
         /\ Truncated(size, limit) <= size
BY MinTwo DEF Truncated

Fits == [kept : Seq(Passages), spent : Nat, full : BOOLEAN]

\* What n passages fitted into the budget leave: each has cost 20 tokens more than it
\* has, except that the one that is cut has its mark on top and ends the budget.
Fitting(s, n, budget) ==
  /\ s \in Fits /\ Len(s.kept) <= n /\ s.spent <= budget
  /\ Bodies(s.kept) + 20 * Len(s.kept) <= s.spent + 6
  /\ Bodies(s.kept) + 20 * Len(s.kept) <= s.spent \/ s.spent = budget

\* The tokens of passages: of their bodies, and of their labels.
LEMMA BodiesAre ==
  ASSUME NEW s \in Seq(Passages)
  PROVE  /\ [n \in DOMAIN s |-> s[n].size] \in Seq(Nat)
         /\ [n \in DOMAIN s |-> s[n].label] \in Seq(Nat)
         /\ Bodies(s) \in Nat /\ Labels(s) \in Nat
<1>1. /\ DOMAIN s = 1 .. Len(s) /\ Len(s) \in Nat
      /\ \A n \in 1 .. Len(s) : s[n].size \in Nat /\ s[n].label \in Nat
  <2>1. \A n \in 1 .. Len(s) : s[n] \in Passages
    OBVIOUS
  <2>2. \A n \in 1 .. Len(s) : s[n].size \in Nat /\ s[n].label \in Nat
    BY <2>1 DEF Passages
  <2>3. DOMAIN s = 1 .. Len(s) /\ Len(s) \in Nat
    OBVIOUS
  <2> QED
    BY <2>2, <2>3
<1> DEFINE sizes == [n \in DOMAIN s |-> s[n].size]
           labels == [n \in DOMAIN s |-> s[n].label]
<1>2. sizes \in Seq(Nat) /\ labels \in Seq(Nat)
  BY <1>1
<1> HIDE DEF sizes, labels
<1>3. Total(sizes) \in Nat /\ Total(labels) \in Nat
  BY <1>2, TotalNat
<1> QED
  BY <1>2, <1>3 DEF Bodies, Labels, sizes, labels

LEMMA BodiesEmpty == Bodies(<<>>) = 0
<1>1. [n \in DOMAIN <<>> |-> <<>>[n].size] = <<>>
  OBVIOUS
<1> QED
  BY <1>1, TotalEmpty DEF Bodies

LEMMA BodiesAppend ==
  ASSUME NEW s \in Seq(Passages), NEW passage \in Passages
  PROVE  Bodies(Append(s, passage)) = Bodies(s) + passage.size
<1> DEFINE t == Append(s, passage)
           sizes == [n \in DOMAIN s |-> s[n].size]
<1>1. sizes \in Seq(Nat) /\ passage.size \in Nat
  BY BodiesAre DEF Passages
<1>2. /\ Len(s) \in Nat /\ DOMAIN s = 1 .. Len(s) /\ DOMAIN t = 1 .. Len(s) + 1
      /\ Len(sizes) = Len(s) /\ DOMAIN sizes = 1 .. Len(s)
      /\ t[Len(s) + 1] = passage /\ \A n \in 1 .. Len(s) : t[n] = s[n]
  OBVIOUS
<1>3. [n \in DOMAIN t |-> t[n].size] = Append(sizes, passage.size)
  <2> DEFINE u == [n \in DOMAIN t |-> t[n].size]
             v == Append(sizes, passage.size)
  <2>1. \A n \in 1 .. Len(s) : sizes[n] = s[n].size
    BY <1>2
  <2> HIDE DEF t, sizes
  <2>2. /\ v \in Seq(Nat) /\ DOMAIN v = 1 .. Len(s) + 1 /\ v[Len(s) + 1] = passage.size
        /\ \A n \in 1 .. Len(s) : v[n] = sizes[n]
    BY <1>1, <1>2
  <2>3. \A n \in 1 .. Len(s) + 1 : n \in 1 .. Len(s) \/ n = Len(s) + 1
    BY <1>2
  <2>4. DOMAIN u = 1 .. Len(s) + 1 /\ \A n \in 1 .. Len(s) + 1 : u[n] = t[n].size
    BY <1>2
  <2> HIDE DEF u, v
  <2>5. \A n \in 1 .. Len(s) + 1 : u[n] = v[n]
    BY <1>2, <2>1, <2>2, <2>3, <2>4
  <2>6. u = v
    <3>1. u = [n \in 1 .. Len(s) + 1 |-> u[n]] /\ v = [n \in 1 .. Len(s) + 1 |-> v[n]]
      <4>1. u = [n \in DOMAIN u |-> u[n]]
        BY DEF u
      <4>2. v = [n \in DOMAIN v |-> v[n]]
        BY <2>2
      <4> QED
        BY <2>2, <2>4, <4>1, <4>2
    <3> QED
      BY <2>5, <3>1
  <2> QED
    BY <2>6 DEF u, v
<1> HIDE DEF t
<1>4. Bodies(t) = Total(Append(sizes, passage.size)) /\ Bodies(s) = Total(sizes)
  BY <1>3 DEF Bodies
<1> HIDE DEF sizes
<1> QED
  BY <1>1, <1>4, TotalAppend DEF t

LEMMA NothingFits == ASSUME NEW budget \in Nat PROVE Nothing \in Fits /\ Fitting(Nothing, 0, budget)
<1>1. /\ Nothing.kept = <<>> /\ Nothing.spent = 0 /\ Nothing \in Fits /\ Len(<<>>) = 0
  BY DEF Nothing, Fits
<1> QED
  BY <1>1, BodiesEmpty DEF Fitting

LEMMA KeepIs ==
  ASSUME NEW s \in Fits, NEW passage \in Passages, NEW cost \in Nat
  PROVE  /\ Keep(s, passage, cost) \in Fits
         /\ Keep(s, passage, cost).spent = s.spent + cost
         /\ Len(Keep(s, passage, cost).kept) = Len(s.kept) + 1
         /\ Bodies(Keep(s, passage, cost).kept) = Bodies(s.kept) + passage.size
<1>1. s.kept \in Seq(Passages) /\ s.spent \in Nat
  BY DEF Fits
<1>2. /\ Append(s.kept, passage) \in Seq(Passages)
      /\ Len(Append(s.kept, passage)) = Len(s.kept) + 1
      /\ s.spent + cost \in Nat
  BY <1>1
<1>3. Keep(s, passage, cost) \in Fits
  BY <1>2 DEF Keep, Fits
<1>4. /\ Keep(s, passage, cost).kept = Append(s.kept, passage)
      /\ Keep(s, passage, cost).spent = s.spent + cost
  BY DEF Keep
<1>5. Bodies(Append(s.kept, passage)) = Bodies(s.kept) + passage.size
  BY <1>1, BodiesAppend
<1> QED
  BY <1>2, <1>3, <1>4, <1>5

LEMMA StopIs ==
  ASSUME NEW s \in Fits
  PROVE  Stop(s) \in Fits /\ Stop(s).kept = s.kept /\ Stop(s).spent = s.spent
BY DEF Stop, Fits

LEMMA FitsTyped ==
  ASSUME NEW s \in Fits
  PROVE  s.spent \in Nat /\ s.full \in BOOLEAN /\ Len(s.kept) \in Nat /\ Bodies(s.kept) \in Nat
<1>1. s.kept \in Seq(Passages) /\ s.spent \in Nat /\ s.full \in BOOLEAN
  BY DEF Fits
<1>2. Bodies(s.kept) \in Nat
  BY <1>1, BodiesAre
<1>3. Len(s.kept) \in Nat
  BY <1>1
<1> QED
  BY <1>1, <1>2, <1>3

\* The count of one more passage of x tokens.
LEMMA CostOf ==
  ASSUME NEW a \in Nat, NEW b \in Nat, NEW x \in Nat
  PROVE  (a + x) + 20 * (b + 1) = (a + 20 * b) + (x + 20) /\ 20 * b \in Nat
OBVIOUS

\* One more passage of x tokens, whole or as the last one.
LEMMA OneMore ==
  ASSUME NEW s \in Fits, NEW t \in Fits, NEW x \in Nat, NEW n \in Nat, NEW budget \in Nat,
         Fitting(s, n, budget), Len(t.kept) = Len(s.kept) + 1,
         Bodies(t.kept) = Bodies(s.kept) + x, s.spent + 20 <= t.spent, t.spent <= budget,
         \/ s.spent + x + 20 = t.spent
         \/ t.spent = budget /\ s.spent + x + 20 <= t.spent + 6
  PROVE  Fitting(t, n + 1, budget)
<1> DEFINE a == Bodies(s.kept)
           l == Len(s.kept)
           p == s.spent
           q == t.spent
           m == 20 * l
<1>1. a \in Nat /\ l \in Nat /\ p \in Nat /\ q \in Nat
  BY FitsTyped
<1>2. l <= n /\ p <= budget /\ (a + m <= p \/ p = budget)
  BY DEF Fitting
<1>3. p + 20 <= q /\ q <= budget /\ (p + x + 20 = q \/ (q = budget /\ p + x + 20 <= q + 6))
  OBVIOUS
<1>4. Bodies(t.kept) + 20 * Len(t.kept) = (a + m) + (x + 20) /\ m \in Nat
  <2>1. (a + x) + 20 * (l + 1) = (a + m) + (x + 20) /\ m \in Nat
    <3> HIDE DEF a, l
    <3> QED
      BY <1>1, CostOf
  <2>2. Bodies(t.kept) = a + x /\ Len(t.kept) = l + 1
    OBVIOUS
  <2> HIDE DEF a, l, m
  <2> QED
    BY <2>1, <2>2
<1>5. Len(t.kept) <= n + 1
  <2>1. Len(t.kept) = l + 1
    OBVIOUS
  <2>2. \A i, k \in Nat : i <= k => i + 1 <= k + 1
    OBVIOUS
  <2> HIDE DEF l
  <2> QED
    BY <1>1, <1>2, <2>1, <2>2, Zenon
<1> HIDE DEF a, l, m, p, q
<1>6. a + m <= p
  BY <1>1, <1>2, <1>3, <1>4
<1>7. (a + m) + (x + 20) <= q + 6 /\ ((a + m) + (x + 20) <= q \/ q = budget)
  BY <1>1, <1>3, <1>4, <1>6
<1> QED
  BY <1>3, <1>4, <1>5, <1>7 DEF Fitting, q

\* The same of what FitChunk and FitWeb leave as it is.
LEMMA NoMore ==
  ASSUME NEW s \in Fits, NEW t \in Fits, t.kept = s.kept, t.spent = s.spent,
         NEW n \in Nat, NEW budget \in Nat, Fitting(s, n, budget)
  PROVE  Fitting(t, n + 1, budget)
<1>1. Len(s.kept) <= n /\ Len(s.kept) \in Nat
  BY FitsTyped DEF Fitting
<1>2. Len(t.kept) <= n + 1
  BY <1>1
<1> QED
  BY <1>2 DEF Fitting

LEMMA ChunkFits ==
  ASSUME NEW s \in Fits, NEW chunk \in Passages, NEW budget \in Nat
  PROVE  /\ FitChunk(s, chunk, budget) \in Fits
         /\ \A n \in Nat : Fitting(s, n, budget) => Fitting(FitChunk(s, chunk, budget), n + 1, budget)
<1> DEFINE size == chunk.size
           p == s.spent
           remaining == budget - p - 20
           t == FitChunk(s, chunk, budget)
<1>1. size \in Nat /\ p \in Nat
  BY FitsTyped DEF Passages
<1> HIDE DEF size, p
<1>2. remaining \in Int /\ p + remaining + 20 = budget
  BY <1>1
<1> HIDE DEF remaining
<1>3. CASE s.full \/ (~(size <= remaining) /\ remaining < 120)
  <2>1. t = s \/ t = Stop(s)
    BY <1>3 DEF FitChunk, remaining, size, p
  <2>2. t \in Fits /\ t.kept = s.kept /\ t.spent = s.spent
    BY <2>1, StopIs
  <2> HIDE DEF t
  <2>3. \A n \in Nat : Fitting(s, n, budget) => Fitting(t, n + 1, budget)
    BY <2>2, NoMore
  <2> QED
    BY <2>2, <2>3 DEF t
<1>4. CASE ~s.full /\ size <= remaining
  <2>1. t = Keep(s, chunk, size + 20)
    BY <1>4 DEF FitChunk, remaining, size, p
  <2>2. size + 20 \in Nat
    BY <1>1
  <2>3. /\ t \in Fits /\ t.spent = p + (size + 20) /\ Len(t.kept) = Len(s.kept) + 1
        /\ Bodies(t.kept) = Bodies(s.kept) + size
    BY <2>1, <2>2, KeepIs DEF size, p
  <2> HIDE DEF t
  <2>4. p + 20 <= t.spent /\ t.spent <= budget /\ p + size + 20 = t.spent
    BY <1>1, <1>2, <1>4, <2>3
  <2>5. \A n \in Nat : Fitting(s, n, budget) => Fitting(t, n + 1, budget)
    BY <1>1, <2>3, <2>4, OneMore DEF p
  <2> QED
    BY <2>3, <2>5 DEF t
<1>5. CASE ~s.full /\ ~(size <= remaining) /\ ~(remaining < 120)
  <2> DEFINE part == Truncated(size, remaining)
             cut == [chunk EXCEPT !.size = part + TruncationMark]
             x == part + 6
  <2>1. part \in Nat /\ part <= remaining /\ remaining \in Nat
    <3>1. remaining \in Nat
      BY <1>2, <1>5
    <3> QED
      BY <1>1, <3>1, TruncatedIs
  <2>2. t = Keep(s, cut, remaining + 20)
    BY <1>5 DEF FitChunk, remaining, size, p
  <2> HIDE DEF part
  <2>3. cut \in Passages /\ cut.size = x /\ x \in Nat /\ remaining + 20 \in Nat
    <3>1. part + TruncationMark = x /\ x \in Nat
      BY <2>1 DEF TruncationMark
    <3> HIDE DEF x
    <3>2. cut \in Passages /\ cut.size = x
      BY <3>1 DEF Passages
    <3> QED
      BY <2>1, <3>1, <3>2
  <2> HIDE DEF cut
  <2>4. /\ t \in Fits /\ t.spent = p + (remaining + 20) /\ Len(t.kept) = Len(s.kept) + 1
        /\ Bodies(t.kept) = Bodies(s.kept) + x
    BY <2>2, <2>3, KeepIs DEF p
  <2> HIDE DEF t
  <2>5. p + 20 <= t.spent /\ t.spent = budget /\ p + x + 20 <= t.spent + 6
    BY <1>1, <1>2, <2>1, <2>4
  <2>6. t.spent <= budget
    BY <2>5
  <2> HIDE DEF x
  <2>7. \A n \in Nat : Fitting(s, n, budget) => Fitting(t, n + 1, budget)
    BY <2>3, <2>4, <2>5, <2>6, OneMore DEF p
  <2> QED
    BY <2>4, <2>7 DEF t
<1> QED
  BY <1>3, <1>4, <1>5

LEMMA WebFits ==
  ASSUME NEW s \in Fits, NEW result \in Passages, NEW budget \in Nat
  PROVE  /\ FitWeb(s, result, budget) \in Fits
         /\ \A n \in Nat : Fitting(s, n, budget) => Fitting(FitWeb(s, result, budget), n + 1, budget)
<1> DEFINE size == result.size
           p == s.spent
           t == FitWeb(s, result, budget)
<1>1. size \in Nat /\ p \in Nat
  BY FitsTyped DEF Passages
<1> HIDE DEF size, p
<1>2. CASE s.full \/ p + size + 20 > budget
  <2>1. t = Stop(s)
    BY <1>2 DEF FitWeb, size, p
  <2>2. t \in Fits /\ t.kept = s.kept /\ t.spent = s.spent
    BY <2>1, StopIs
  <2> HIDE DEF t
  <2>3. \A n \in Nat : Fitting(s, n, budget) => Fitting(t, n + 1, budget)
    BY <2>2, NoMore
  <2> QED
    BY <2>2, <2>3 DEF t
<1>3. CASE ~(s.full \/ p + size + 20 > budget)
  <2>1. t = Keep(s, result, size + 20)
    BY <1>3 DEF FitWeb, size, p
  <2>2. size + 20 \in Nat
    BY <1>1
  <2>3. /\ t \in Fits /\ t.spent = p + (size + 20) /\ Len(t.kept) = Len(s.kept) + 1
        /\ Bodies(t.kept) = Bodies(s.kept) + size
    BY <2>1, <2>2, KeepIs DEF size, p
  <2> HIDE DEF t
  <2>4. p + 20 <= t.spent /\ t.spent <= budget /\ p + size + 20 = t.spent
    BY <1>1, <1>3, <2>3
  <2>5. \A n \in Nat : Fitting(s, n, budget) => Fitting(t, n + 1, budget)
    BY <1>1, <2>3, <2>4, OneMore DEF p
  <2> QED
    BY <2>3, <2>5 DEF t
<1> QED
  BY <1>2, <1>3

LEMMA ChunksFittedFits ==
  ASSUME NEW chunks \in Seq(Passages), NEW budget \in Nat
  PROVE  Fitting(ChunksFitted(chunks, budget), Len(chunks), budget)
<1> DEFINE N == Len(chunks)
           Is(f) == f = [n \in 0 .. N |-> IF n = 0 THEN Nothing ELSE FitChunk(f[n - 1], chunks[n], budget)]
           c == CHOOSE f : Is(f)
           step == [n \in 1 .. N |-> [s \in Fits |-> FitChunk(s, chunks[n], budget)]]
<1>1. N \in Nat /\ \A n \in 1 .. N : chunks[n] \in Passages
  OBVIOUS
<1>2. step \in [1 .. N -> [Fits -> Fits]]
  BY <1>1, ChunkFits
<1>3. Nothing \in Fits /\ Fitting(Nothing, 0, budget)
  BY NothingFits
<1>4. ChunksFitted(chunks, budget) = c[N]
  BY DEF ChunksFitted
<1> HIDE DEF N
<1>5. \A n \in 1 .. N, s \in Fits : step[n][s] = FitChunk(s, chunks[n], budget)
  OBVIOUS
<1> HIDE DEF step
<1>6. Is(c)
  <2>1. PICK f \in [0 .. N -> Fits] : Loops(f, N, Nothing, step)
    BY <1>1, <1>2, <1>3, LoopExists
  <2>2. ASSUME NEW n \in 0 .. N
        PROVE  f[n] = IF n = 0 THEN Nothing ELSE FitChunk(f[n - 1], chunks[n], budget)
    <3>1. CASE n = 0
      BY <2>1, <3>1 DEF Loops
    <3>2. CASE n # 0
      <4>1. n \in 1 .. N /\ n - 1 \in 0 .. N
        BY <1>1, <3>2
      <4>2. f[n - 1] \in Fits /\ f[n] = step[n][f[n - 1]]
        BY <2>1, <4>1 DEF Loops
      <4> QED
        BY <1>5, <3>2, <4>1, <4>2
    <3> QED
      BY <3>1, <3>2
  <2>3. Is(f)
    BY <2>2
  <2> HIDE DEF Is
  <2> QED
    BY <2>3
<1> HIDE DEF c
<1> DEFINE T == {n \in 0 .. N : Fitting(c[n], n, budget)}
<1>7. 0 \in T
  BY <1>1, <1>3, <1>6
<1>8. ASSUME NEW n \in 1 .. N, n - 1 \in T PROVE n \in T
  <2>1. c[n] = FitChunk(c[n - 1], chunks[n], budget)
    BY <1>1, <1>6
  <2>2. n - 1 \in Nat /\ (n - 1) + 1 = n /\ Fitting(c[n - 1], n - 1, budget) /\ n \in 0 .. N
    BY <1>1, <1>8
  <2>3. c[n - 1] \in Fits
    BY <2>2 DEF Fitting
  <2>4. Fitting(FitChunk(c[n - 1], chunks[n], budget), (n - 1) + 1, budget)
    BY <1>1, <2>2, <2>3, ChunkFits
  <2> QED
    BY <2>1, <2>2, <2>4
<1>9. N \in T
  <2>1. N \in 0 .. N
    BY <1>1
  <2> HIDE DEF T
  <2>2. \A n \in 0 .. N : n \in T
    BY <1>1, <1>7, <1>8, Upto
  <2> QED
    BY <2>1, <2>2
<1> QED
  BY <1>4, <1>9 DEF N

\* The bodies of the passages and web results that fit and the 20 tokens counted for
\* each label are no more than the budget, save for the mark of one that is cut.
LEMMA PassagesFit ==
  ASSUME NEW chunks \in Seq(Passages), NEW web \in Seq(Passages), NEW budget \in Nat
  PROVE  /\ FitPassages(chunks, web, budget) \in Seq(Passages)
         /\ Len(FitPassages(chunks, web, budget)) <= Len(chunks) + Len(web)
         /\ Bodies(FitPassages(chunks, web, budget)) + 20 * Len(FitPassages(chunks, web, budget))
              <= budget + 6
<1> DEFINE N == Len(web)
           M == Len(chunks)
           first == [ChunksFitted(chunks, budget) EXCEPT !.full = FALSE]
           Is(f) == f = [n \in 0 .. N |-> IF n = 0 THEN first ELSE FitWeb(f[n - 1], web[n], budget)]
           c == CHOOSE f : Is(f)
           step == [n \in 1 .. N |-> [s \in Fits |-> FitWeb(s, web[n], budget)]]
<1>1. N \in Nat /\ M \in Nat /\ \A n \in 1 .. N : web[n] \in Passages
  OBVIOUS
<1>2. step \in [1 .. N -> [Fits -> Fits]]
  BY <1>1, WebFits
<1>3. first \in Fits /\ Fitting(first, M, budget)
  <2> DEFINE s == ChunksFitted(chunks, budget)
  <2>1. Fitting(s, M, budget)
    BY ChunksFittedFits
  <2> HIDE DEF s, M
  <2>2. s \in Fits
    BY <2>1 DEF Fitting
  <2> DEFINE r == [s EXCEPT !.full = FALSE]
  <2>3. r \in Fits /\ r.kept = s.kept /\ r.spent = s.spent
    BY <2>2 DEF Fits
  <2> HIDE DEF r
  <2>4. Fitting(r, M, budget)
    BY <2>1, <2>3 DEF Fitting
  <2> QED
    BY <2>3, <2>4 DEF r, s
<1>4. FitPassages(chunks, web, budget) = c[N].kept
  BY DEF FitPassages
<1> HIDE DEF N, M, first
<1>5. \A n \in 1 .. N, s \in Fits : step[n][s] = FitWeb(s, web[n], budget)
  OBVIOUS
<1> HIDE DEF step
<1>6. Is(c)
  <2>1. PICK f \in [0 .. N -> Fits] : Loops(f, N, first, step)
    BY <1>1, <1>2, <1>3, LoopExists
  <2>2. ASSUME NEW n \in 0 .. N
        PROVE  f[n] = IF n = 0 THEN first ELSE FitWeb(f[n - 1], web[n], budget)
    <3>1. CASE n = 0
      BY <2>1, <3>1 DEF Loops
    <3>2. CASE n # 0
      <4>1. n \in 1 .. N /\ n - 1 \in 0 .. N
        BY <1>1, <3>2
      <4>2. f[n - 1] \in Fits /\ f[n] = step[n][f[n - 1]]
        BY <2>1, <4>1 DEF Loops
      <4> QED
        BY <1>5, <3>2, <4>1, <4>2
    <3> QED
      BY <3>1, <3>2
  <2>3. Is(f)
    BY <2>2
  <2> HIDE DEF Is
  <2> QED
    BY <2>3
<1> HIDE DEF c
<1> DEFINE T == {n \in 0 .. N : Fitting(c[n], M + n, budget)}
<1>7. 0 \in T
  <2>1. c[0] = first /\ M + 0 = M /\ 0 \in 0 .. N
    BY <1>1, <1>6
  <2> QED
    BY <1>3, <2>1
<1>8. ASSUME NEW n \in 1 .. N, n - 1 \in T PROVE n \in T
  <2>1. c[n] = FitWeb(c[n - 1], web[n], budget)
    BY <1>1, <1>6
  <2>2. /\ M + (n - 1) \in Nat /\ (M + (n - 1)) + 1 = M + n /\ n \in 0 .. N
        /\ Fitting(c[n - 1], M + (n - 1), budget)
    BY <1>1, <1>8
  <2>3. c[n - 1] \in Fits
    BY <2>2 DEF Fitting
  <2>4. Fitting(FitWeb(c[n - 1], web[n], budget), (M + (n - 1)) + 1, budget)
    BY <1>1, <2>2, <2>3, WebFits
  <2> QED
    BY <2>1, <2>2, <2>4
<1>9. Fitting(c[N], M + N, budget)
  <2>1. N \in 0 .. N
    BY <1>1
  <2>2. \A n \in 0 .. N : n \in T
    <3> HIDE DEF T
    <3> QED
      BY <1>1, <1>7, <1>8, Upto
  <2> QED
    BY <2>1, <2>2
<1>10. /\ c[N].kept \in Seq(Passages) /\ Len(c[N].kept) <= M + N
       /\ Bodies(c[N].kept) + 20 * Len(c[N].kept) <= budget + 6
  <2>1. c[N] \in Fits
    BY <1>9 DEF Fitting
  <2>2. c[N].spent \in Nat /\ Bodies(c[N].kept) \in Nat /\ Len(c[N].kept) \in Nat
    BY <2>1, FitsTyped
  <2>3. /\ Len(c[N].kept) <= M + N /\ c[N].spent <= budget
        /\ Bodies(c[N].kept) + 20 * Len(c[N].kept) <= c[N].spent + 6
    BY <1>9 DEF Fitting
  <2>4. c[N].kept \in Seq(Passages)
    BY <2>1 DEF Fits
  <2>5. \A a, l, q \in Nat : q <= budget /\ a + 20 * l <= q + 6 => a + 20 * l <= budget + 6
    OBVIOUS
  <2> QED
    BY <2>2, <2>3, <2>4, <2>5, Zenon
<1> QED
  BY <1>4, <1>10 DEF M, N

-----------------------------------------------------------------------------
(* The history. *)

Picks(h) == [kept : Seq(1 .. Len(h)), spent : Nat, full : BOOLEAN]

\* The tokens of the messages kept, with what is around each.
Sizes(h, kept) == [n \in 1 .. Len(kept) |-> h[kept[n]].size + 4]

\* The messages kept are in order and are all those after a place `low` that have text.
InOrderAfter(h, kept, low) ==
  /\ \A i, j \in 1 .. Len(kept) : i < j => kept[i] < kept[j]
  /\ \A n \in 1 .. Len(kept) : kept[n] > low
  /\ \A i \in 1 .. Len(h) : i > low /\ h[i].size > 0 => \E n \in 1 .. Len(kept) : kept[n] = i

\* What the m newest messages leave.
Picking(s, m, h, budget) ==
  /\ s \in Picks(h) /\ s.spent <= budget
  /\ Total(Sizes(h, s.kept)) <= s.spent
  /\ \E low \in 0 .. Len(h) : /\ InOrderAfter(h, s.kept, low)
                              /\ low >= Len(h) - m
                              /\ s.full \/ low = Len(h) - m

LEMMA SizesTyped ==
  ASSUME NEW h \in Seq(Texts), NEW kept \in Seq(1 .. Len(h))
  PROVE  /\ Sizes(h, kept) \in Seq(Nat) /\ Len(Sizes(h, kept)) = Len(kept)
         /\ \A n \in 1 .. Len(kept) : Sizes(h, kept)[n] = h[kept[n]].size + 4
<1>1. \A n \in 1 .. Len(kept) : kept[n] \in 1 .. Len(h)
  OBVIOUS
<1>2. \A i \in 1 .. Len(h) : h[i].size + 4 \in Nat
  <2> TAKE i \in 1 .. Len(h)
  <2>1. h[i] \in Texts
    OBVIOUS
  <2> QED
    BY <2>1 DEF Texts
<1>3. \A n \in 1 .. Len(kept) : h[kept[n]].size + 4 \in Nat
  BY <1>1, <1>2
<1> QED
  BY <1>3 DEF Sizes

LEMMA NothingPicked ==
  ASSUME NEW h \in Seq(Texts), NEW budget \in Nat
  PROVE  Nothing \in Picks(h) /\ Picking(Nothing, 0, h, budget)
<1>1. Nothing.kept = <<>> /\ Nothing.spent = 0 /\ Nothing \in Picks(h)
  BY DEF Nothing, Picks
<1>2. Sizes(h, <<>>) = <<>>
  BY DEF Sizes
<1>3. InOrderAfter(h, <<>>, Len(h)) /\ Len(h) \in 0 .. Len(h) /\ Len(h) = Len(h) - 0
      /\ Len(h) >= Len(h) - 0
  BY DEF InOrderAfter
<1>4. \E low \in 0 .. Len(h) : InOrderAfter(h, <<>>, low) /\ low >= Len(h) - 0 /\ low = Len(h) - 0
  BY <1>3
<1> QED
  BY <1>1, <1>2, <1>4, TotalEmpty DEF Picking

LEMMA MessagePicked ==
  ASSUME NEW h \in Seq(Texts), NEW budget \in Nat, NEW s \in Picks(h), NEW m \in 1 .. Len(h)
  PROVE  /\ TakeMessage(s, Len(h) + 1 - m, h[Len(h) + 1 - m].size, budget) \in Picks(h)
         /\ Picking(s, m - 1, h, budget) =>
              Picking(TakeMessage(s, Len(h) + 1 - m, h[Len(h) + 1 - m].size, budget), m, h, budget)
<1> DEFINE i == Len(h) + 1 - m
           size == h[i].size
           t == TakeMessage(s, i, size, budget)
<1>1. Len(h) \in Nat /\ i \in 1 .. Len(h) /\ i = (Len(h) - m) + 1 /\ Len(h) - (m - 1) = i
  OBVIOUS
<1>2. size \in Nat
  <2>1. h[i] \in Texts
    BY <1>1
  <2> QED
    BY <2>1 DEF Texts
<1>3. /\ s.kept \in Seq(1 .. Len(h)) /\ s.spent \in Nat /\ s.full \in BOOLEAN
      /\ Len(s.kept) \in Nat
  BY DEF Picks
<1> HIDE DEF i
<1>4. CASE s.full \/ size = 0 \/ s.spent + size + 8 > budget
  <2>1. \/ t = s /\ (s.full \/ size = 0)
        \/ t = Stop(s)
    BY <1>4 DEF TakeMessage
  <2>2. Stop(s) \in Picks(h) /\ Stop(s).kept = s.kept /\ Stop(s).spent = s.spent /\ Stop(s).full
    BY DEF Stop, Picks
  <2>3. /\ t \in Picks(h) /\ t.kept = s.kept /\ t.spent = s.spent
        /\ t.full \/ (size = 0 /\ t.full = s.full)
    BY <2>1, <2>2
  <2> HIDE DEF t
  <2>4. ASSUME Picking(s, m - 1, h, budget) PROVE Picking(t, m, h, budget)
    <3>1. PICK low \in 0 .. Len(h) : /\ InOrderAfter(h, s.kept, low)
                                     /\ low >= Len(h) - (m - 1)
                                     /\ s.full \/ low = Len(h) - (m - 1)
      BY <2>4 DEF Picking
    <3>2. CASE t.full
      <4>1. low >= Len(h) - m
        BY <1>1, <3>1
      <4>2. InOrderAfter(h, t.kept, low)
        BY <2>3, <3>1
      <4> QED
        BY <2>3, <2>4, <3>2, <4>1, <4>2 DEF Picking
    <3>3. CASE ~t.full
      <4>1. size = 0 /\ ~s.full /\ low = i
        BY <1>1, <2>3, <3>1, <3>3
      <4>2. i - 1 \in 0 .. Len(h) /\ i - 1 = Len(h) - m /\ i - 1 >= Len(h) - m
        BY <1>1
      <4>3. InOrderAfter(h, t.kept, i - 1)
        <5>1. \A k \in 1 .. Len(h) : k > i - 1 /\ h[k].size > 0 => k > i
          <6> TAKE k \in 1 .. Len(h)
          <6>1. k = i => h[k].size = 0
            BY <4>1
          <6> HIDE DEF size
          <6> QED
            BY <1>1, <6>1
        <5>2. \A n \in 1 .. Len(s.kept) : s.kept[n] > i => s.kept[n] > i - 1
          <6> TAKE n \in 1 .. Len(s.kept)
          <6>1. s.kept[n] \in 1 .. Len(h)
            BY <1>3
          <6> QED
            BY <1>1, <6>1
        <5> QED
          BY <2>3, <3>1, <4>1, <5>1, <5>2 DEF InOrderAfter
      <4> QED
        BY <2>3, <2>4, <4>2, <4>3 DEF Picking
    <3> QED
      BY <3>2, <3>3
  <2> QED
    BY <2>3, <2>4 DEF t, i
<1>5. CASE ~(s.full \/ size = 0 \/ s.spent + size + 8 > budget)
  <2> DEFINE kept == <<i>> \o s.kept
  <2>1. t = [kept |-> kept, spent |-> s.spent + size + 8, full |-> FALSE]
    BY <1>5 DEF TakeMessage
  <2>2. /\ kept \in Seq(1 .. Len(h)) /\ Len(kept) = Len(s.kept) + 1 /\ kept[1] = i
        /\ \A n \in 1 .. Len(s.kept) : kept[n + 1] = s.kept[n]
    <3>1. <<i>> \in Seq(1 .. Len(h)) /\ Len(<<i>>) = 1
      BY <1>1
    <3> QED
      BY <1>3, <3>1
  <2> HIDE DEF kept
  <2>3. s.spent + size + 8 \in Nat
    BY <1>2, <1>3
  <2>4. /\ t \in Picks(h) /\ t.kept = kept /\ t.spent = s.spent + size + 8 /\ t.full = FALSE
    BY <2>1, <2>2, <2>3 DEF Picks
  <2> HIDE DEF t
  <2>5. ASSUME Picking(s, m - 1, h, budget) PROVE Picking(t, m, h, budget)
    <3>1. PICK low \in 0 .. Len(h) : /\ InOrderAfter(h, s.kept, low)
                                     /\ low >= Len(h) - (m - 1)
                                     /\ s.full \/ low = Len(h) - (m - 1)
      BY <2>5 DEF Picking
    <3>2. low = i
      BY <1>1, <1>5, <3>1
    <3>3. t.spent <= budget
      BY <1>2, <1>3, <1>5, <2>4
    <3>4. Total(Sizes(h, kept)) = (size + 4) + Total(Sizes(h, s.kept))
      <4>1. /\ Sizes(h, s.kept) \in Seq(Nat) /\ Len(Sizes(h, s.kept)) = Len(s.kept)
            /\ \A n \in 1 .. Len(s.kept) : Sizes(h, s.kept)[n] = h[s.kept[n]].size + 4
        BY <1>3, SizesTyped
      <4>2. /\ Sizes(h, kept) \in Seq(Nat) /\ Len(Sizes(h, kept)) = Len(kept)
            /\ \A n \in 1 .. Len(kept) : Sizes(h, kept)[n] = h[kept[n]].size + 4
        BY <2>2, SizesTyped
      <4>3. Sizes(h, kept)[1] = size + 4 /\ size + 4 \in Nat
        <5>1. 1 \in 1 .. Len(kept)
          BY <1>3, <2>2
        <5>2. Sizes(h, kept)[1] = h[i].size + 4
          BY <2>2, <4>2, <5>1
        <5> QED
          BY <1>2, <5>2
      <4>4. \A n \in 1 .. Len(s.kept) : Sizes(h, kept)[n + 1] = Sizes(h, s.kept)[n]
        <5> TAKE n \in 1 .. Len(s.kept)
        <5>1. n + 1 \in 1 .. Len(kept)
          BY <1>3, <2>2
        <5>2. kept[n + 1] = s.kept[n]
          BY <2>2
        <5>3. Sizes(h, kept)[n + 1] = h[s.kept[n]].size + 4
          BY <4>2, <5>1, <5>2
        <5> QED
          BY <4>1, <5>3
      <4> QED
        BY <2>2, <4>1, <4>2, <4>3, <4>4, TotalPrepend, ZenonT(60)
    <3>5. Total(Sizes(h, t.kept)) <= t.spent
      <4>1. Total(Sizes(h, s.kept)) \in Nat /\ Total(Sizes(h, s.kept)) <= s.spent
        BY <1>3, <2>5, SizesTyped, TotalNat DEF Picking
      <4> QED
        BY <1>2, <1>3, <2>4, <3>4, <4>1
    <3>6. i - 1 \in 0 .. Len(h) /\ i - 1 = Len(h) - m /\ i - 1 >= Len(h) - m
      BY <1>1
    <3>7. \A n \in 1 .. Len(kept) : n = 1 \/ (n - 1 \in 1 .. Len(s.kept) /\ kept[n] = s.kept[n - 1])
      <4> TAKE n \in 1 .. Len(kept)
      <4>1. n # 1 => n - 1 \in 1 .. Len(s.kept) /\ (n - 1) + 1 = n
        BY <1>3, <2>2
      <4> QED
        BY <2>2, <4>1
    <3>8. \A n \in 1 .. Len(s.kept) : s.kept[n] \in 1 .. Len(h) /\ s.kept[n] > i
      BY <1>3, <3>1, <3>2 DEF InOrderAfter
    <3>9. \A a, b \in 1 .. Len(kept) : a < b => kept[a] < kept[b]
      <4> TAKE a, b \in 1 .. Len(kept)
      <4> HAVE a < b
      <4>1. b # 1 /\ b - 1 \in 1 .. Len(s.kept) /\ kept[b] = s.kept[b - 1]
        <5>1. b # 1
          BY <1>3, <2>2
        <5> QED
          BY <3>7, <5>1
      <4>2. CASE a = 1
        BY <1>1, <2>2, <3>8, <4>1, <4>2
      <4>3. CASE a # 1
        <5>1. a - 1 \in 1 .. Len(s.kept) /\ kept[a] = s.kept[a - 1] /\ a - 1 < b - 1
          BY <3>7, <4>3
        <5> QED
          BY <3>1, <4>1, <5>1 DEF InOrderAfter
      <4> QED
        BY <4>2, <4>3
    <3>10. \A n \in 1 .. Len(kept) : kept[n] > i - 1
      <4> TAKE n \in 1 .. Len(kept)
      <4>1. CASE n = 1
        BY <1>1, <2>2, <4>1
      <4>2. CASE n # 1
        <5>1. n - 1 \in 1 .. Len(s.kept) /\ kept[n] = s.kept[n - 1]
          BY <3>7, <4>2
        <5>2. s.kept[n - 1] \in 1 .. Len(h) /\ s.kept[n - 1] > i
          BY <3>8, <5>1
        <5> QED
          BY <1>1, <5>1, <5>2
      <4> QED
        BY <4>1, <4>2
    <3>11. \A k \in 1 .. Len(h) : k > i - 1 /\ h[k].size > 0 => \E n \in 1 .. Len(kept) : kept[n] = k
      <4> TAKE k \in 1 .. Len(h)
      <4> HAVE k > i - 1 /\ h[k].size > 0
      <4>1. CASE k = i
        <5>1. 1 \in 1 .. Len(kept)
          BY <1>3, <2>2
        <5> QED
          BY <2>2, <4>1, <5>1
      <4>2. CASE k # i
        <5>1. k > i
          BY <1>1, <4>2
        <5>2. PICK n \in 1 .. Len(s.kept) : s.kept[n] = k
          BY <3>1, <3>2, <5>1 DEF InOrderAfter
        <5>3. n + 1 \in 1 .. Len(kept)
          BY <1>3, <2>2
        <5>4. kept[n + 1] = k
          BY <2>2, <5>2
        <5> QED
          BY <5>3, <5>4
      <4> QED
        BY <4>1, <4>2
    <3>12. InOrderAfter(h, t.kept, i - 1)
      BY <2>4, <3>9, <3>10, <3>11 DEF InOrderAfter
    <3> QED
      BY <2>4, <3>3, <3>5, <3>6, <3>12 DEF Picking
  <2> QED
    BY <2>4, <2>5 DEF t, i
<1> QED
  BY <1>4, <1>5

LEMMA RecentPicked ==
  ASSUME NEW h \in Seq(Texts), NEW budget \in Nat
  PROVE  /\ Recent(h, budget) \in Seq(1 .. Len(h))
         /\ Total(Sizes(h, Recent(h, budget))) <= budget
         /\ \E low \in 0 .. Len(h) : InOrderAfter(h, Recent(h, budget), low)
<1> DEFINE N == Len(h)
           Pass(s, n) == TakeMessage(s, Len(h) + 1 - n, h[Len(h) + 1 - n].size, budget)
           Is(f) == f = [n \in 0 .. N |-> IF n = 0 THEN Nothing ELSE Pass(f[n - 1], n)]
           c == CHOOSE f : Is(f)
           step == [n \in 1 .. N |-> [s \in Picks(h) |-> Pass(s, n)]]
<1>1. N \in Nat /\ N \in 0 .. N
  OBVIOUS
<1>2. \A s \in Picks(h), n \in 1 .. N :
         /\ Pass(s, n) \in Picks(h)
         /\ Picking(s, n - 1, h, budget) => Picking(Pass(s, n), n, h, budget)
  BY MessagePicked
<1>3. Recent(h, budget) = c[N].kept
  BY DEF Recent
<1> HIDE DEF N, Pass
<1>4. step \in [1 .. N -> [Picks(h) -> Picks(h)]]
  BY <1>2
<1>5. Nothing \in Picks(h) /\ Picking(Nothing, 0, h, budget)
  BY NothingPicked
<1>6. \A n \in 1 .. N, s \in Picks(h) : step[n][s] = Pass(s, n)
  OBVIOUS
<1> HIDE DEF step
<1>7. Is(c)
  <2>1. PICK f \in [0 .. N -> Picks(h)] : Loops(f, N, Nothing, step)
    BY <1>1, <1>4, <1>5, LoopExists
  <2>2. ASSUME NEW n \in 0 .. N PROVE f[n] = IF n = 0 THEN Nothing ELSE Pass(f[n - 1], n)
    <3>1. CASE n = 0
      BY <2>1, <3>1 DEF Loops
    <3>2. CASE n # 0
      <4>1. n \in 1 .. N /\ n - 1 \in 0 .. N
        BY <1>1, <3>2
      <4>2. f[n - 1] \in Picks(h) /\ f[n] = step[n][f[n - 1]]
        BY <2>1, <4>1 DEF Loops
      <4> QED
        BY <1>6, <3>2, <4>1, <4>2
    <3> QED
      BY <3>1, <3>2
  <2>3. Is(f)
    BY <2>2
  <2> HIDE DEF Is
  <2> QED
    BY <2>3
<1> HIDE DEF c
<1> DEFINE T == {n \in 0 .. N : Picking(c[n], n, h, budget)}
<1>8. 0 \in T
  BY <1>1, <1>5, <1>7
<1>9. ASSUME NEW n \in 1 .. N, n - 1 \in T PROVE n \in T
  <2>1. c[n] = Pass(c[n - 1], n)
    BY <1>1, <1>7
  <2>2. Picking(c[n - 1], n - 1, h, budget) /\ n \in 0 .. N
    BY <1>1, <1>9
  <2>3. c[n - 1] \in Picks(h)
    BY <2>2 DEF Picking
  <2> QED
    BY <1>2, <2>1, <2>2, <2>3
<1>10. Picking(c[N], N, h, budget)
  <2>1. \A n \in 0 .. N : n \in T
    <3> HIDE DEF T
    <3> QED
      BY <1>1, <1>8, <1>9, Upto
  <2> QED
    BY <1>1, <2>1
<1>11. /\ c[N].kept \in Seq(1 .. Len(h)) /\ c[N].spent \in Nat /\ c[N].spent <= budget
       /\ Total(Sizes(h, c[N].kept)) <= c[N].spent
       /\ \E low \in 0 .. Len(h) : InOrderAfter(h, c[N].kept, low)
  BY <1>10 DEF Picking, Picks
<1>12. Total(Sizes(h, c[N].kept)) \in Nat
  BY <1>11, SizesTyped, TotalNat
<1> QED
  BY <1>3, <1>11, <1>12

\* A non-empty set of naturals has a least element.
LEMMA LeastOf ==
  ASSUME NEW N \in Nat, NEW A \in SUBSET (1 .. N), A # {}
  PROVE  Min(A) \in A /\ \A x \in A : Min(A) <= x
<1> DEFINE T == {n \in 0 .. N : (\A x \in A : x > n) \/ \E x \in A : \A y \in A : x <= y}
<1>1. 0 \in T
  OBVIOUS
<1>2. ASSUME NEW n \in 1 .. N, n - 1 \in T PROVE n \in T
  <2>1. CASE \E x \in A : \A y \in A : x <= y
    BY <2>1
  <2>2. CASE \A x \in A : x > n - 1
    <3>1. CASE n \in A
      <4>1. \A y \in A : n <= y
        BY <2>2
      <4> QED
        BY <3>1, <4>1
    <3>2. CASE n \notin A
      <4>1. \A x \in A : x > n
        BY <2>2, <3>2
      <4> QED
        BY <4>1
    <3> QED
      BY <3>1, <3>2
  <2> QED
    BY <1>2, <2>1, <2>2
<1>3. N \in T
  <2>1. N \in 0 .. N
    OBVIOUS
  <2> HIDE DEF T
  <2>2. \A n \in 0 .. N : n \in T
    BY <1>1, <1>2, Upto
  <2> QED
    BY <2>1, <2>2
<1>4. \E x \in A : \A y \in A : x <= y
  <2>1. PICK x \in A : x <= N
    <3>1. PICK x : x \in A
      OBVIOUS
    <3>2. x \in 1 .. N
      BY <3>1
    <3> QED
      BY <3>1, <3>2
  <2>2. ~(\A y \in A : y > N)
    BY <2>1
  <2> QED
    BY <1>3, <2>2
<1> QED
  BY <1>4 DEF Min

\* What is kept of the history fits its budget, begins with a question, and omits
\* nothing after it that has text.
LEMMA HistoryFits ==
  ASSUME NEW h \in Seq(Texts), NEW budget \in Nat
  PROVE  LET kept == FitHistory(h, budget) IN
         /\ kept \in Seq(1 .. Len(h))
         /\ Total(Sizes(h, kept)) <= budget
         /\ \A i, j \in 1 .. Len(kept) : i < j => kept[i] < kept[j]
         /\ kept # <<>> => h[kept[1]].role = "user"
         /\ \A n \in 1 .. Len(kept), i \in 1 .. Len(h) :
              kept[n] <= i /\ h[i].size > 0 => \E l \in 1 .. Len(kept) : kept[l] = i
<1> DEFINE taken == Recent(h, budget)
           asked == {n \in DOMAIN taken : h[taken[n]].role = "user"}
           kept == FitHistory(h, budget)
<1>1. taken \in Seq(1 .. Len(h)) /\ Len(taken) \in Nat /\ DOMAIN taken = 1 .. Len(taken)
  <2>1. taken \in Seq(1 .. Len(h))
    BY RecentPicked
  <2> HIDE DEF taken
  <2> QED
    BY <2>1
<1>2. Total(Sizes(h, taken)) <= budget
  BY RecentPicked
<1>3. PICK low \in 0 .. Len(h) : InOrderAfter(h, taken, low)
  BY RecentPicked
<1>4. kept = IF asked = {} THEN <<>> ELSE SubSeq(taken, Min(asked), Len(taken))
  BY DEF FitHistory
<1> HIDE DEF taken, kept
<1>5. CASE asked = {}
  <2>1. kept = <<>> /\ Sizes(h, <<>>) = <<>> /\ Len(<<>>) = 0
    BY <1>4, <1>5 DEF Sizes
  <2>2. kept \in Seq(1 .. Len(h)) /\ Total(Sizes(h, kept)) <= budget
    BY <2>1, TotalEmpty
  <2>3. 1 .. Len(kept) = {}
    BY <2>1
  <2> QED
    BY <2>1, <2>2, <2>3 DEF kept
<1>6. CASE asked # {}
  <2> DEFINE a == Min(asked)
             k == a - 1
  <2>1. asked \in SUBSET (1 .. Len(taken))
    BY <1>1
  <2>2. a \in asked
    <3> HIDE DEF asked
    <3> QED
      BY <1>1, <1>6, <2>1, LeastOf
  <2>3. a \in 1 .. Len(taken) /\ h[taken[a]].role = "user"
    BY <2>1, <2>2
  <2>4. kept = SubSeq(taken, a, Len(taken))
    BY <1>4, <1>6
  <2> HIDE DEF a
  <2>5. k \in Nat /\ k + 1 = a /\ k < Len(taken)
    BY <1>1, <2>3
  <2>6. /\ kept \in Seq(1 .. Len(h)) /\ Len(kept) = Len(taken) - k /\ Len(kept) \in Nat
        /\ \A n \in 1 .. Len(kept) : kept[n] = taken[n + k]
    <3>1. \A n \in 1 .. Len(taken) : taken[n] \in 1 .. Len(h)
      BY <1>1
    <3> QED
      BY <1>1, <2>3, <2>4, <3>1
  <2> HIDE DEF k
  <2>7. \A n \in 1 .. Len(kept) : n + k \in 1 .. Len(taken)
    BY <1>1, <2>5, <2>6
  <2>8. Total(Sizes(h, kept)) <= budget
    <3>1. /\ Sizes(h, taken) \in Seq(Nat) /\ Len(Sizes(h, taken)) = Len(taken)
          /\ \A n \in 1 .. Len(taken) : Sizes(h, taken)[n] = h[taken[n]].size + 4
      BY <1>1, SizesTyped
    <3>2. /\ Sizes(h, kept) \in Seq(Nat) /\ Len(Sizes(h, kept)) = Len(kept)
          /\ \A n \in 1 .. Len(kept) : Sizes(h, kept)[n] = h[kept[n]].size + 4
      BY <2>6, SizesTyped
    <3>3. Len(kept) + k = Len(taken)
      BY <1>1, <2>5, <2>6
    <3>4. \A n \in 1 .. Len(kept) : Sizes(h, kept)[n] = Sizes(h, taken)[n + k]
      BY <2>6, <2>7, <3>1, <3>2
    <3>5. Total(Sizes(h, kept)) <= Total(Sizes(h, taken))
      BY <2>5, <3>1, <3>2, <3>3, <3>4, TotalEnd
    <3>6. Total(Sizes(h, kept)) \in Nat /\ Total(Sizes(h, taken)) \in Nat
      BY <3>1, <3>2, TotalNat
    <3> QED
      BY <1>2, <3>5, <3>6
  <2>9. \A i, j \in 1 .. Len(kept) : i < j => kept[i] < kept[j]
    <3> TAKE i, j \in 1 .. Len(kept)
    <3> HAVE i < j
    <3>1. i + k \in 1 .. Len(taken) /\ j + k \in 1 .. Len(taken) /\ i + k < j + k
      BY <2>5, <2>7
    <3> QED
      BY <1>3, <2>6, <3>1 DEF InOrderAfter
  <2>10. h[kept[1]].role = "user"
    <3>1. 1 \in 1 .. Len(kept) /\ 1 + k = a
      BY <1>1, <2>5, <2>6
    <3> QED
      BY <2>3, <2>6, <3>1
  <2>11. ASSUME NEW n \in 1 .. Len(kept), NEW i \in 1 .. Len(h), kept[n] <= i, h[i].size > 0
         PROVE  \E l \in 1 .. Len(kept) : kept[l] = i
    <3>1. n + k \in 1 .. Len(taken) /\ kept[n] = taken[n + k]
      BY <2>6, <2>7
    <3>2. taken[n + k] \in 1 .. Len(h) /\ taken[n + k] > low
      BY <1>1, <1>3, <3>1 DEF InOrderAfter
    <3>3. i > low
      BY <2>11, <3>1, <3>2
    <3>4. PICK l \in 1 .. Len(taken) : taken[l] = i
      BY <1>3, <2>11, <3>3 DEF InOrderAfter
    <3>5. l >= n + k
      <4>1. l < n + k => taken[l] < taken[n + k]
        BY <1>3, <3>1 DEF InOrderAfter
      <4> QED
        BY <1>1, <2>11, <3>1, <3>2, <3>4, <4>1
    <3>6. l - k \in 1 .. Len(kept) /\ (l - k) + k = l
      <4>1. n \in 1 .. Len(kept) /\ Len(kept) + k = Len(taken)
        BY <1>1, <2>5, <2>6
      <4>2. l \in Nat /\ l <= Len(taken) /\ l >= n + k
        BY <1>1, <3>5
      <4>3. Len(kept) \in Nat /\ k \in Nat
        BY <2>5, <2>6
      <4> DEFINE m == Len(kept)
      <4> HIDE DEF m
      <4>4. m \in Nat /\ n \in 1 .. m /\ l <= m + k
        BY <4>1, <4>2, <4>3 DEF m
      <4>5. l - k \in 1 .. m /\ (l - k) + k = l
        BY <4>2, <4>3, <4>4
      <4> QED
        BY <4>5 DEF m
    <3>7. kept[l - k] = i
      BY <2>6, <3>4, <3>6
    <3> QED
      BY <3>6, <3>7
  <2> QED
    BY <2>6, <2>8, <2>9, <2>10, <2>11 DEF kept
<1> QED
  BY <1>5, <1>6

-----------------------------------------------------------------------------
(* The prompt. *)

BlockWithin(passages, budget) ==
  /\ ContextBlock(passages) \in Nat
  /\ \/ ContextBlock(passages) = 40
     \/ /\ budget > 0 /\ Labels(passages) \in Nat /\ Len(passages) \in Nat
        /\ ContextBlock(passages) + 20 * Len(passages) <= budget + 46 + Labels(passages)

\* A block of passages is what their budget allows, and the labels beyond the 20 tokens
\* that are counted for each.
LEMMA BlockFits ==
  \A chunks, web \in Seq(Passages), budget \in Nat :
    BlockWithin(FitPassages(chunks, web, budget), budget)
<1> SUFFICES ASSUME NEW chunks \in Seq(Passages), NEW web \in Seq(Passages), NEW budget \in Nat
             PROVE  BlockWithin(FitPassages(chunks, web, budget), budget)
  OBVIOUS
<1> DEFINE passages == FitPassages(chunks, web, budget)
<1>1. passages \in Seq(Passages) /\ Bodies(passages) + 20 * Len(passages) <= budget + 6
  BY PassagesFit
<1> HIDE DEF passages
<1>2. Bodies(passages) \in Nat /\ Labels(passages) \in Nat /\ Len(passages) \in Nat
  <2>1. Bodies(passages) \in Nat /\ Labels(passages) \in Nat
    BY <1>1, BodiesAre
  <2>2. Len(passages) \in Nat
    BY <1>1
  <2> QED
    BY <2>1, <2>2
<1>3. CASE passages = <<>>
  <2>1. ContextBlock(passages) = 40
    BY <1>3 DEF ContextBlock, NoContextNote
  <2> QED
    BY <2>1 DEF BlockWithin, passages
<1>4. CASE passages # <<>>
  <2> DEFINE n == Len(passages)
             sum == Bodies(passages)
             labels == Labels(passages)
  <2>1. ContextBlock(passages) = 40 + labels + sum
    BY <1>4 DEF ContextBlock, ContextHeader
  <2>2. n \in Nat /\ n >= 1 /\ sum \in Nat /\ labels \in Nat /\ sum + 20 * n <= budget + 6
    <3>1. n # 0
      BY <1>1, <1>4
    <3> QED
      BY <1>1, <1>2, <3>1
  <2> HIDE DEF n, sum, labels
  <2>3. /\ 40 + labels + sum \in Nat /\ budget > 0
        /\ (40 + labels + sum) + 20 * n <= budget + 46 + labels
    BY <2>2
  <2> QED
    BY <2>1, <2>2, <2>3 DEF BlockWithin, passages, n, labels
<1> QED
  BY <1>3, <1>4

\* A message kept has its envelope at least.
LEMMA SomeSize ==
  ASSUME NEW h \in Seq(Texts), NEW kept \in Seq(1 .. Len(h)), kept # <<>>
  PROVE  Total(Sizes(h, kept)) > 0
<1> DEFINE s == Sizes(h, kept)
           x == h[kept[Len(kept)]].size + 4
           t == Append(<<>>, x)
<1>1. Len(kept) \in Nat /\ Len(kept) >= 1
  OBVIOUS
<1>2. x \in Nat /\ x > 0
  <2>1. Len(kept) \in 1 .. Len(kept)
    BY <1>1
  <2>2. kept[Len(kept)] \in 1 .. Len(h)
    BY <2>1
  <2>4. h[kept[Len(kept)]] \in Texts
    BY <2>2
  <2>3. h[kept[Len(kept)]].size \in Nat
    BY <2>4 DEF Texts
  <2> QED
    BY <2>3
<1>3. s \in Seq(Nat) /\ Len(s) = Len(kept) /\ s[Len(kept)] = x
  <2>1. s \in Seq(Nat)
    BY SizesTyped
  <2>2. Len(kept) \in 1 .. Len(kept)
    BY <1>1
  <2> QED
    BY <1>1, <2>1, <2>2 DEF Sizes
<1> HIDE DEF s, x
<1>4. t \in Seq(Nat) /\ Len(t) = 1 /\ t[1] = x /\ Total(t) = x
  <2>1. <<>> \in Seq(Nat)
    OBVIOUS
  <2>2. Total(t) = Total(<<>>) + x
    BY <1>2, <2>1, TotalAppend
  <2>3. t \in Seq(Nat) /\ Len(t) = 1 /\ t[1] = x
    BY <1>2
  <2> HIDE DEF t
  <2> QED
    BY <1>2, <2>2, <2>3, TotalEmpty
<1> HIDE DEF t
<1> DEFINE k == Len(kept) - 1
<1>5. k \in Nat /\ Len(t) + k = Len(s) /\ \A n \in 1 .. Len(t) : t[n] = s[n + k]
  <2>1. k \in Nat /\ Len(t) + k = Len(s) /\ 1 + k = Len(kept)
    BY <1>1, <1>3, <1>4
  <2>2. \A n \in 1 .. Len(t) : n = 1
    BY <1>4
  <2> HIDE DEF k
  <2> QED
    BY <1>3, <1>4, <2>1, <2>2
<1> HIDE DEF k
<1>6. Total(t) <= Total(s) /\ Total(s) \in Nat
  BY <1>3, <1>4, <1>5, TotalEnd, TotalNat
<1> QED
  BY <1>2, <1>4, <1>6 DEF s

\* The history in the request is what was fitted, without the 4 tokens of the margin.
LEMMA HistoryCounts ==
  ASSUME NEW h \in Seq(Texts), NEW kept \in Seq(1 .. Len(h))
  PROVE  Envelopes([n \in DOMAIN kept |-> h[kept[n]].size]) = Total(Sizes(h, kept))
<1>1. DOMAIN kept = 1 .. Len(kept)
  OBVIOUS
<1> DEFINE sizes == [n \in DOMAIN kept |-> h[kept[n]].size]
<1>2. [n \in DOMAIN sizes |-> sizes[n] + 4] = Sizes(h, kept)
  BY <1>1 DEF Sizes
<1> QED
  BY <1>2 DEF Envelopes

\* What is in an assembled prompt besides the parts that are never dropped and the
\* labels of its passages fits the window (services/context.py:44-103).
LEMMA FitsTheWindowHolds == \A p \in Prompts : FitsTheWindow(p)
<1> SUFFICES ASSUME NEW p \in Prompts PROVE FitsTheWindow(p)
  OBVIOUS
<1>1. PICK system \in Nat, question \in Nat, images \in Nat, files \in Nat, recap \in Nat,
           chunks \in Seq(Passages), web \in Seq(Passages), history \in Seq(Texts) :
        /\ p.system = system /\ p.question = question /\ p.images = images /\ p.files = files
        /\ p.summary = recap /\ p.chunks = chunks /\ p.web = web /\ p.history = history
  BY DEF Prompts
<1>2. InputBudget \in Nat /\ MaxRetrieved \in Nat /\ MaxHistory \in Nat
  BY ContextAssumption
<1> DEFINE pictures == ImageTokens * (images + files)
           shown == ImageTokens * images
           fixed == system + 8 + question + pictures + 8
           limit == Min({MaxRetrieved, Margin(InputBudget - fixed - 2000)})
           passages == FitPassages(chunks, web, limit)
           block == ContextBlock(passages)
           spent == fixed + block
           share == HistoryBudget(fixed, block)
           kept == FitHistory(history, share)
           envelopes == Envelopes([n \in DOMAIN kept |-> history[kept[n]].size])
           remaining == Margin(InputBudget - spent - envelopes - 200)
           summary == IF recap > 0 /\ remaining > 100
                      THEN SummaryHeader + Truncated(recap, Min({remaining, 1200})) ELSE 0
<1>3. BuildMessages(p).tokens =
        (system + summary + 4) + envelopes + (block + QuestionHeader + question + 4) + shown
  BY <1>1 DEF BuildMessages
<1>9. /\ BuildMessages(p).passages = passages
      /\ BuildMessages(p).history = kept /\ BuildMessages(p).summary = summary
  BY <1>1 DEF BuildMessages
<1>4. pictures \in Nat /\ shown \in Nat /\ shown <= pictures
  BY <1>1 DEF ImageTokens
<1>5. Fixed(p) = system + question + pictures + 56
  BY <1>1, <1>4 DEF Fixed, NoContextNote
<1> HIDE DEF pictures, shown
<1>6. fixed \in Nat /\ fixed = system + question + pictures + 16 /\ Fixed(p) = fixed + 40
  <2>1. fixed = system + question + pictures + 16 /\ fixed \in Nat
    <3>1. \A a, b, c \in Nat : a + 8 + b + c + 8 = a + b + c + 16 /\ a + b + c + 16 \in Nat
      OBVIOUS
    <3> QED
      BY <1>1, <1>4, <3>1
  <2> HIDE DEF fixed
  <2> QED
    BY <1>1, <1>4, <1>5, <2>1
<1> HIDE DEF fixed
<1>7. limit \in Nat /\ (limit > 0 => limit <= InputBudget - fixed - 2000)
  <2>1. InputBudget - fixed - 2000 \in Int
    BY <1>2, <1>6
  <2> DEFINE rest == Margin(InputBudget - fixed - 2000)
  <2>2. rest \in Nat /\ (rest > 0 => rest = InputBudget - fixed - 2000)
    BY <2>1, MarginIs
  <2> HIDE DEF rest
  <2>3. limit = IF MaxRetrieved <= rest THEN MaxRetrieved ELSE rest
    BY <1>2, <2>2, MinTwo DEF rest
  <2> HIDE DEF limit
  <2> QED
    BY <1>2, <2>2, <2>3
<1> HIDE DEF limit
<1>8. block \in Nat /\ BlockWithin(passages, limit)
  <2>1. BlockWithin(FitPassages(chunks, web, limit), limit)
    <3> HIDE DEF block, passages
    <3> QED
      BY <1>7, BlockFits
  <2> QED
    BY <2>1 DEF BlockWithin
<1> DEFINE labels == Labels(passages)
           count == Len(passages)
<1>18. block = 40 \/ (/\ limit > 0 /\ labels \in Nat /\ count \in Nat
                      /\ block + 20 * count <= limit + 46 + labels)
  BY <1>8 DEF BlockWithin
<1>19. FitsTheWindow(p) <=>
         \/ BuildMessages(p).tokens <= InputBudget
         \/ /\ kept = <<>> /\ summary = 0
            /\ Fixed(p) > InputBudget \/ labels > 20 * count + 1950
  BY <1>9 DEF FitsTheWindow, LabelRoom
<1> HIDE DEF block, passages, labels, count
<1>10. share \in Nat /\ (share > 0 => share <= InputBudget - (fixed + block) - 500)
  <2>1. InputBudget - (fixed + block) - 500 \in Int
    BY <1>2, <1>6, <1>8
  <2> DEFINE rest == Margin(InputBudget - (fixed + block) - 500)
  <2>2. rest \in Nat /\ (rest > 0 => rest = InputBudget - (fixed + block) - 500)
    BY <2>1, MarginIs
  <2> HIDE DEF rest
  <2>3. share = IF MaxHistory <= rest THEN MaxHistory ELSE rest
    BY <1>2, <2>2, MinTwo DEF rest, HistoryBudget
  <2> HIDE DEF share
  <2> QED
    BY <1>2, <2>2, <2>3
<1> HIDE DEF share
<1>11. envelopes \in Nat /\ envelopes <= share /\ (kept # <<>> => envelopes > 0)
  <2>1. kept \in Seq(1 .. Len(history)) /\ Total(Sizes(history, kept)) <= share
    BY <1>1, <1>10, HistoryFits
  <2> HIDE DEF kept
  <2>2. Sizes(history, kept) \in Seq(Nat)
    BY <1>1, <2>1, SizesTyped
  <2>3. Total(Sizes(history, kept)) \in Nat
    BY <2>2, TotalNat
  <2>4. envelopes = Total(Sizes(history, kept))
    BY <1>1, <2>1, HistoryCounts
  <2>5. kept # <<>> => Total(Sizes(history, kept)) > 0
    BY <1>1, <2>1, SomeSize
  <2> QED
    BY <2>1, <2>3, <2>4, <2>5
<1> HIDE DEF envelopes, kept
<1>12. summary \in Nat /\ (summary > 0 => summary <= 30 + (InputBudget - spent - envelopes - 200))
  <2>1. spent \in Nat
    BY <1>6, <1>8
  <2> HIDE DEF spent
  <2>2. InputBudget - spent - envelopes - 200 \in Int
    BY <1>2, <1>11, <2>1
  <2>3. remaining \in Nat /\ (remaining > 0 => remaining = InputBudget - spent - envelopes - 200)
    BY <2>2, MarginIs
  <2> HIDE DEF remaining
  <2> DEFINE cap == Min({remaining, 1200})
             part == Truncated(recap, cap)
  <2>4. cap \in Nat /\ cap <= remaining
    <3>1. remaining \in Int /\ 1200 \in Int
      BY <2>3
    <3>2. cap = IF remaining <= 1200 THEN remaining ELSE 1200
      BY <3>1, MinTwo, SMTT(20)
    <3> HIDE DEF cap
    <3> QED
      BY <2>3, <3>2
  <2> HIDE DEF cap
  <2>5. part \in Nat /\ part <= cap
    <3>1. cap \in Int /\ 0 <= cap
      BY <2>4
    <3> QED
      BY <1>1, <3>1, TruncatedIs
  <2> HIDE DEF part
  <2>6. summary = IF recap > 0 /\ remaining > 100 THEN 30 + part ELSE 0
    BY DEF SummaryHeader, part, cap
  <2> HIDE DEF summary
  <2>7. CASE recap > 0 /\ remaining > 100
    <3>1. summary = 30 + part
      BY <2>6, <2>7
    <3> QED
      BY <1>2, <1>11, <2>1, <2>3, <2>4, <2>5, <2>7, <3>1
  <2>8. CASE ~(recap > 0 /\ remaining > 100)
    BY <2>6, <2>8
  <2> QED
    BY <2>7, <2>8
<1> HIDE DEF summary
<1>13. system + question + shown + 16 <= fixed
  BY <1>1, <1>4, <1>6
<1> DEFINE asked == system + question + shown
           tokens == BuildMessages(p).tokens
<1>14. asked \in Nat /\ tokens = asked + summary + envelopes + block + 14
  <2>1. tokens =
          (system + summary + 4) + envelopes + (block + 6 + question + 4) + shown
    BY <1>3 DEF QuestionHeader
  <2>2. \A a, b, c, d, e, f \in Nat :
          (a + b + 4) + c + (d + 6 + e + 4) + f = (a + e + f) + b + c + d + 14
    OBVIOUS
  <2>3. asked \in Nat
    BY <1>1, <1>4
  <2> HIDE DEF tokens
  <2> QED
    BY <1>1, <1>4, <1>8, <1>11, <1>12, <2>1, <2>2, <2>3
<1>15. asked + 16 <= fixed
  BY <1>13
<1> HIDE DEF asked, tokens
<1>16. CASE summary > 0
  <2>1. summary <= 30 + (InputBudget - (fixed + block) - envelopes - 200)
    BY <1>12, <1>16
  <2>2. \A a, c, e, b, f, i \in Nat :
          c <= 30 + (i - (f + b) - e - 200) /\ a + 16 <= f => a + c + e + b + 14 <= i
    OBVIOUS
  <2>3. summary \in Nat
    BY <1>12
  <2>4. asked + summary + envelopes + block + 14 <= InputBudget
    <3>1. asked \in Nat /\ envelopes \in Nat /\ block \in Nat /\ fixed \in Nat /\ InputBudget \in Nat
      BY <1>2, <1>6, <1>8, <1>11, <1>14
    <3> QED
      BY <1>15, <2>1, <2>2, <2>3, <3>1
  <2> QED
    BY <1>14, <1>19, <2>4 DEF tokens
<1>24. InputBudget \in Nat /\ fixed \in Nat /\ block \in Nat /\ envelopes \in Nat /\ asked \in Nat
  BY <1>2, <1>6, <1>8, <1>11, <1>14
<1>23. envelopes = 0 \/ envelopes <= InputBudget - (fixed + block) - 500
  <2>1. \A e, r \in Nat, i \in Int : e <= r /\ (r > 0 => r <= i) => e = 0 \/ e <= i
    OBVIOUS
  <2> DEFINE i == InputBudget - (fixed + block) - 500
  <2>2. i \in Int
    BY <1>24
  <2>3. share \in Nat /\ (share > 0 => share <= i) /\ envelopes \in Nat /\ envelopes <= share
    BY <1>10, <1>11
  <2> HIDE DEF i
  <2>4. envelopes = 0 \/ envelopes <= i
    BY <2>1, <2>2, <2>3, Zenon
  <2> QED
    BY <2>4 DEF i
<1>17. CASE summary = 0 /\ kept # <<>>
  <2>1. envelopes <= InputBudget - (fixed + block) - 500
    <3>1. envelopes # 0
      BY <1>11, <1>17
    <3> QED
      BY <1>23, <3>1
  <2>2. \A a, e, b, f, i \in Nat :
          e <= i - (f + b) - 500 /\ a + 16 <= f => a + 0 + e + b + 14 <= i
    OBVIOUS
  <2>3. asked + 0 + envelopes + block + 14 <= InputBudget
    BY <1>15, <1>24, <2>1, <2>2, ZenonT(60)
  <2> QED
    BY <1>14, <1>17, <1>19, <2>3 DEF tokens
<1>20. CASE summary = 0 /\ kept = <<>> /\ Fixed(p) <= InputBudget /\ ~(labels > 20 * count + 1950)
  <2>1. fixed + 40 <= InputBudget
    BY <1>6, <1>20
  <2>2. envelopes = 0 \/ envelopes <= InputBudget - (fixed + block) - 500
    BY <1>23
  <2>3. fixed + block <= InputBudget
    <3>1. CASE block = 40
      BY <2>1, <3>1
    <3>2. CASE block # 40
      <4>1. /\ limit > 0 /\ labels \in Nat /\ count \in Nat
            /\ block + 20 * count <= limit + 46 + labels
        BY <1>18, <3>2
      <4>2. labels <= 20 * count + 1950
        BY <1>20, <4>1
      <4>3. limit <= InputBudget - fixed - 2000
        BY <1>7, <4>1
      <4> DEFINE counted == 20 * count
      <4>4. counted \in Nat
        BY <4>1
      <4>5. block + counted <= limit + 46 + labels /\ labels <= counted + 1950
        BY <4>1, <4>2
      <4> HIDE DEF counted
      <4> QED
        BY <1>2, <1>6, <1>7, <1>8, <4>1, <4>3, <4>4, <4>5, SMTT(20)
    <3> QED
      BY <3>1, <3>2
  <2>4. \A a, e, b, f, i \in Nat :
          /\ f + b <= i /\ (e = 0 \/ e <= i - (f + b) - 500) /\ a + 16 <= f
          => a + 0 + e + b + 14 <= i
    OBVIOUS
  <2>5. asked + 0 + envelopes + block + 14 <= InputBudget
    BY <1>15, <1>24, <2>2, <2>3, <2>4, ZenonT(60)
  <2> QED
    BY <1>14, <1>19, <1>20, <2>5 DEF tokens
<1>21. CASE summary = 0 /\ kept = <<>> /\ (Fixed(p) > InputBudget \/ labels > 20 * count + 1950)
  BY <1>19, <1>21
<1>22. Fixed(p) <= InputBudget \/ Fixed(p) > InputBudget
  BY <1>2, <1>6
<1> QED
  BY <1>12, <1>16, <1>17, <1>19, <1>20, <1>21, <1>22 DEF tokens

\* The history of an assembled prompt begins with a question and has no gap
\* (services/context.py:182-206).
LEMMA NothingSkippedHolds == \A p \in Prompts : NothingSkipped(p)
<1> SUFFICES ASSUME NEW p \in Prompts PROVE NothingSkipped(p)
  OBVIOUS
<1> DEFINE kept == BuildMessages(p).history
           set == {kept[n] : n \in DOMAIN kept}
           h == p.history
<1>1. h \in Seq(Texts) /\ Len(h) \in Nat
  BY DEF Prompts
<1>2. /\ kept \in Seq(1 .. Len(h))
      /\ \A i, j \in 1 .. Len(kept) : i < j => kept[i] < kept[j]
      /\ kept # <<>> => h[kept[1]].role = "user"
      /\ \A n \in 1 .. Len(kept), i \in 1 .. Len(h) :
           kept[n] <= i /\ h[i].size > 0 => \E l \in 1 .. Len(kept) : kept[l] = i
  <2> DEFINE pictures == ImageTokens * (p.images + p.files)
             fixed == p.system + 8 + p.question + pictures + 8
             limit == Min({MaxRetrieved, Margin(InputBudget - fixed - 2000)})
             block == ContextBlock(FitPassages(p.chunks, p.web, limit))
             share == HistoryBudget(fixed, block)
  <2>1. kept = FitHistory(h, share)
    BY DEF BuildMessages
  <2>2. share \in Nat
    <3>1. /\ p.system \in Nat /\ p.question \in Nat /\ p.images \in Nat /\ p.files \in Nat
          /\ p.chunks \in Seq(Passages) /\ p.web \in Seq(Passages)
      BY DEF Prompts
    <3>2. InputBudget \in Nat /\ MaxRetrieved \in Nat /\ MaxHistory \in Nat
      BY ContextAssumption
    <3>3. fixed \in Nat
      <4>1. pictures \in Nat
        BY <3>1 DEF ImageTokens
      <4> HIDE DEF pictures
      <4> QED
        BY <3>1, <4>1
    <3> HIDE DEF fixed
    <3>4. limit \in Nat
      <4>1. Margin(InputBudget - fixed - 2000) \in Nat
        <5>1. InputBudget - fixed - 2000 \in Int
          BY <3>2, <3>3
        <5> QED
          BY <5>1, MarginIs
      <4> QED
        BY <3>2, <4>1, MinTwo
    <3> HIDE DEF limit
    <3>5. block \in Nat
      <4> DEFINE passages == FitPassages(p.chunks, p.web, limit)
      <4>1. BlockWithin(passages, limit)
        <5> HIDE DEF passages
        <5>1. BlockWithin(FitPassages(p.chunks, p.web, limit), limit)
          BY <3>1, <3>4, BlockFits
        <5> QED
          BY <5>1 DEF passages
      <4> QED
        BY <4>1 DEF BlockWithin
    <3> HIDE DEF block
    <3>6. Margin(InputBudget - (fixed + block) - 500) \in Nat
      <4>1. InputBudget - (fixed + block) - 500 \in Int
        BY <3>2, <3>3, <3>5
      <4> QED
        BY <4>1, MarginIs
    <3> QED
      BY <3>2, <3>6, MinTwo DEF HistoryBudget
  <2> HIDE DEF share, kept, h
  <2> QED
    BY <1>1, <2>1, <2>2, HistoryFits, ZenonT(60)
<1>3. NothingSkipped(p) <=> /\ set # {} => h[Min(set)].role = "user"
                            /\ \A i \in DOMAIN h : (\E j \in set : j <= i) /\ h[i].size > 0 => i \in set
  BY DEF NothingSkipped
<1> HIDE DEF kept, h
<1>4. /\ Len(kept) \in Nat /\ DOMAIN kept = 1 .. Len(kept) /\ DOMAIN h = 1 .. Len(h)
      /\ set \in SUBSET (1 .. Len(h))
  BY <1>1, <1>2
<1>5. ASSUME set # {} PROVE h[Min(set)].role = "user"
  <2>1. 1 \in 1 .. Len(kept) /\ kept # <<>>
    BY <1>2, <1>4, <1>5
  <2>2. kept[1] \in set /\ kept[1] \in 1 .. Len(h)
    BY <1>2, <1>4, <2>1
  <2>3. Min(set) \in set /\ Min(set) <= kept[1]
    <3> HIDE DEF set
    <3> QED
      BY <1>1, <1>4, <1>5, <2>2, LeastOf
  <2>4. PICK n \in 1 .. Len(kept) : kept[n] = Min(set)
    BY <1>4, <2>3
  <2>5. n = 1 \/ kept[1] < kept[n]
    BY <1>2, <1>4, <2>1
  <2>6. Min(set) = kept[1]
    <3>1. Min(set) \in 1 .. Len(h)
      BY <1>4, <2>3
    <3> QED
      BY <2>2, <2>3, <2>4, <2>5, <3>1
  <2> QED
    BY <1>2, <2>1, <2>6
<1>6. \A i \in DOMAIN h : (\E j \in set : j <= i) /\ h[i].size > 0 => i \in set
  <2> TAKE i \in DOMAIN h
  <2> HAVE (\E j \in set : j <= i) /\ h[i].size > 0
  <2>1. PICK n \in 1 .. Len(kept) : kept[n] <= i
    BY <1>4
  <2>2. PICK l \in 1 .. Len(kept) : kept[l] = i
    BY <1>2, <1>4, <2>1
  <2> QED
    BY <1>4, <2>2
<1> QED
  BY <1>3, <1>5, <1>6

\* Whatever prompt is asked for, and however long the labels, it fits the window unless
\* its fixed parts or the labels of its passages do not, when nothing else is left in it,
\* and its history has no gap (services/context.py:44-103, 182-206).
THEOREM PromptFitsHolds ==
  ASSUME prompt \in Prompts PROVE PromptFits
BY FitsTheWindowHolds, NothingSkippedHolds DEF PromptFits

-----------------------------------------------------------------------------
(* Parts of a sequence and sorting it. *)

\* t has the elements of the first n of seq that are in T, q their places.
Picked(seq, T, n, t, q) ==
  /\ q \in [1 .. Len(t) -> 1 .. n]
  /\ \A i, j \in 1 .. Len(t) : i < j => q[i] < q[j]
  /\ \A k \in 1 .. Len(t) : t[k] = seq[q[k]] /\ seq[q[k]] \in T
  /\ \A i \in 1 .. n : seq[i] \in T => \E k \in 1 .. Len(t) : q[k] = i

\* One element more.
LEMMA PickedNext ==
  ASSUME NEW S, NEW seq \in Seq(S), NEW T, NEW n \in 1 .. Len(seq),
         NEW t \in Seq(S), NEW q, Picked(seq, T, n - 1, t, q), seq[n] \in T
  PROVE  \E r : Picked(seq, T, n, Append(t, seq[n]), r)
<1> DEFINE u == Append(t, seq[n])
           r == [k \in 1 .. Len(u) |-> IF k = Len(u) THEN n ELSE q[k]]
<1>1. seq[n] \in S /\ Len(t) \in Nat /\ n \in Nat
  OBVIOUS
<1>2. /\ u \in Seq(S) /\ Len(u) = Len(t) + 1 /\ u[Len(u)] = seq[n]
      /\ \A k \in 1 .. Len(t) : u[k] = t[k]
  BY <1>1
<1> HIDE DEF u
<1>3. Len(u) \in 1 .. Len(u) /\ \A k \in 1 .. Len(u) : k = Len(u) \/ k \in 1 .. Len(t)
  BY <1>1, <1>2
<1>4. \A k \in 1 .. Len(t) : k \in 1 .. Len(u) /\ k # Len(u) /\ q[k] \in 1 .. n - 1
  <2>1. \A k \in 1 .. Len(t) : k \in 1 .. Len(u) /\ k # Len(u)
    BY <1>1, <1>2
  <2> QED
    BY <2>1 DEF Picked
<1>5. /\ r[Len(u)] = n /\ \A k \in 1 .. Len(t) : r[k] = q[k]
      /\ DOMAIN r = 1 .. Len(u) /\ r = [k \in 1 .. Len(u) |-> r[k]]
  BY <1>3, <1>4
<1> HIDE DEF r
<1>6. r \in [1 .. Len(u) -> 1 .. n]
  <2>1. n \in 1 .. n /\ \A k \in 1 .. Len(t) : q[k] \in 1 .. n
    <3>1. \A x \in 1 .. n - 1 : x \in 1 .. n
      BY <1>1
    <3> QED
      BY <1>1, <1>4, <3>1
  <2>2. ASSUME NEW k \in 1 .. Len(u) PROVE r[k] \in 1 .. n
    <3>1. CASE k = Len(u)
      BY <1>5, <2>1, <3>1
    <3>2. CASE k \in 1 .. Len(t)
      BY <1>5, <2>1, <3>2
    <3> QED
      BY <1>3, <3>1, <3>2
  <2> QED
    BY <1>5, <2>2
<1>7. ASSUME NEW i \in 1 .. Len(u), NEW j \in 1 .. Len(u), i < j PROVE r[i] < r[j]
  <2>1. i \in 1 .. Len(t)
    BY <1>1, <1>2, <1>7
  <2>2. CASE j = Len(u)
    <3>1. r[i] = q[i] /\ r[j] = n /\ q[i] \in 1 .. n - 1
      BY <1>4, <1>5, <2>1, <2>2
    <3>2. \A x \in 1 .. n - 1 : x < n
      BY <1>1
    <3> QED
      BY <3>1, <3>2
  <2>3. CASE j \in 1 .. Len(t)
    BY <1>5, <1>7, <2>1, <2>3 DEF Picked
  <2> QED
    BY <1>3, <2>2, <2>3
<1>8. \A k \in 1 .. Len(u) : u[k] = seq[r[k]] /\ seq[r[k]] \in T
  <2>1. \A k \in 1 .. Len(t) : u[k] = seq[r[k]] /\ seq[r[k]] \in T
    BY <1>2, <1>5 DEF Picked
  <2> QED
    BY <1>2, <1>3, <1>5, <2>1
<1>9. ASSUME NEW i \in 1 .. n, seq[i] \in T PROVE \E k \in 1 .. Len(u) : r[k] = i
  <2>1. CASE i = n
    BY <1>3, <1>5, <2>1
  <2>2. CASE i # n
    <3>1. i \in 1 .. n - 1
      BY <2>2
    <3>2. PICK k \in 1 .. Len(t) : q[k] = i
      BY <1>9, <3>1 DEF Picked
    <3> QED
      BY <1>4, <1>5, <3>2
  <2> QED
    BY <2>1, <2>2
<1>10. Picked(seq, T, n, u, r)
  BY <1>6, <1>7, <1>8, <1>9 DEF Picked
<1> QED
  BY <1>10 DEF u

LEMMA ThosePicked ==
  ASSUME NEW S, NEW seq \in Seq(S), NEW T
  PROVE  /\ Those(seq, T) \in Seq(S)
         /\ \E q : Picked(seq, T, Len(seq), Those(seq, T), q)
<1> DEFINE N == Len(seq)
           Is(f) == f = [n \in 0 .. N |-> IF n = 0 THEN <<>>
                           ELSE IF seq[n] \in T THEN Append(f[n - 1], seq[n]) ELSE f[n - 1]]
           c == CHOOSE f : Is(f)
           step == [n \in 1 .. N |-> [s \in Seq(S) |-> IF seq[n] \in T THEN Append(s, seq[n]) ELSE s]]
<1>1. N \in Nat /\ \A n \in 1 .. N : seq[n] \in S
  OBVIOUS
<1>2. step \in [1 .. N -> [Seq(S) -> Seq(S)]]
  BY <1>1
<1>3. Those(seq, T) = c[N]
  BY DEF Those
<1>4. \A n \in 1 .. N, s \in Seq(S) : step[n][s] = IF seq[n] \in T THEN Append(s, seq[n]) ELSE s
  OBVIOUS
<1> HIDE DEF N, step
<1>5. Is(c)
  <2>0. <<>> \in Seq(S)
    OBVIOUS
  <2>1. PICK f \in [0 .. N -> Seq(S)] : Loops(f, N, <<>>, step)
    BY <1>1, <1>2, <2>0, LoopExists
  <2>2. ASSUME NEW n \in 0 .. N
        PROVE  f[n] = IF n = 0 THEN <<>>
                      ELSE IF seq[n] \in T THEN Append(f[n - 1], seq[n]) ELSE f[n - 1]
    <3>1. CASE n = 0
      BY <2>1, <3>1 DEF Loops
    <3>2. CASE n # 0
      <4>1. n \in 1 .. N /\ n - 1 \in 0 .. N
        BY <1>1, <3>2
      <4>2. f[n - 1] \in Seq(S) /\ f[n] = step[n][f[n - 1]]
        BY <2>1, <4>1 DEF Loops
      <4> QED
        BY <1>4, <3>2, <4>1, <4>2
    <3> QED
      BY <3>1, <3>2
  <2>3. Is(f)
    BY <2>2
  <2> HIDE DEF Is
  <2> QED
    BY <2>3
<1> HIDE DEF c
<1> DEFINE P == {n \in 0 .. N : c[n] \in Seq(S) /\ \E q : Picked(seq, T, n, c[n], q)}
<1>6. 0 \in P
  <2>1. c[0] = <<>> /\ <<>> \in Seq(S) /\ Len(<<>>) = 0 /\ 0 \in 0 .. N
    BY <1>1, <1>5
  <2> DEFINE q == [k \in 1 .. 0 |-> 0]
  <2>2. q \in [1 .. 0 -> 1 .. 0] /\ 1 .. 0 = {}
    OBVIOUS
  <2> HIDE DEF q
  <2>3. Picked(seq, T, 0, <<>>, q)
    BY <2>1, <2>2 DEF Picked
  <2> QED
    BY <2>1, <2>3
<1>7. ASSUME NEW n \in 1 .. N, n - 1 \in P PROVE n \in P
  <2>1. c[n] = IF seq[n] \in T THEN Append(c[n - 1], seq[n]) ELSE c[n - 1]
    <3>1. n \in 0 .. N /\ n # 0
      BY <1>1
    <3>2. c = [k \in 0 .. N |-> IF k = 0 THEN <<>>
                 ELSE IF seq[k] \in T THEN Append(c[k - 1], seq[k]) ELSE c[k - 1]]
      BY <1>5
    <3> QED
      BY <3>1, <3>2
  <2>2. n \in 0 .. N /\ c[n - 1] \in Seq(S) /\ \E q : Picked(seq, T, n - 1, c[n - 1], q)
    BY <1>1, <1>7
  <2>3. PICK q : Picked(seq, T, n - 1, c[n - 1], q)
    BY <2>2
  <2>4. CASE seq[n] \in T
    <3>1. \E r : Picked(seq, T, n, Append(c[n - 1], seq[n]), r)
      BY <2>2, <2>3, <2>4, PickedNext DEF N
    <3>2. Append(c[n - 1], seq[n]) \in Seq(S)
      BY <1>1, <2>2
    <3> QED
      BY <2>1, <2>2, <2>4, <3>1, <3>2
  <2>5. CASE seq[n] \notin T
    <3>1. \A k \in 1 .. n - 1 : k \in 1 .. n
      BY <1>1
    <3>2. \A k \in 1 .. n : k = n \/ k \in 1 .. n - 1
      BY <1>1
    <3>3. q \in [1 .. Len(c[n - 1]) -> 1 .. n]
      BY <2>3, <3>1 DEF Picked
    <3>4. Picked(seq, T, n, c[n - 1], q)
      BY <2>3, <2>5, <3>2, <3>3 DEF Picked
    <3> QED
      BY <2>1, <2>2, <2>5, <3>4
  <2> QED
    BY <2>4, <2>5
<1>8. N \in P
  <2>1. N \in 0 .. N
    BY <1>1
  <2> HIDE DEF P
  <2>2. \A n \in 0 .. N : n \in P
    BY <1>1, <1>6, <1>7, Upto
  <2> QED
    BY <2>1, <2>2
<1> QED
  BY <1>3, <1>8 DEF N

\* An order-preserving map of 1 .. m onto 1 .. n changes nothing.
Climbs(q, m, n) ==
  /\ q \in [1 .. m -> 1 .. n]
  /\ \A i, j \in 1 .. m : i < j => q[i] < q[j]
  /\ \A i \in 1 .. n : \E k \in 1 .. m : q[k] = i

LEMMA Onto ==
  ASSUME NEW m \in Nat, NEW n \in Nat, NEW q, Climbs(q, m, n)
  PROVE  m = n /\ \A k \in 1 .. m : q[k] = k
<1> USE DEF Climbs
<1> DEFINE T == {k \in 0 .. m : \A l \in 1 .. k : q[l] = l}
<1>0. \A k \in 1 .. m : q[k] \in 1 .. n
  OBVIOUS
<1>1. 0 \in T
  OBVIOUS
<1>2. ASSUME NEW k \in 1 .. m, k - 1 \in T PROVE k \in T
  <2>1. \A l \in 1 .. k - 1 : q[l] = l /\ l \in 1 .. m
    BY <1>2
  <2>2. q[k] >= k
    <3>1. CASE k = 1
      BY <1>0, <3>1
    <3>2. CASE k # 1
      <4>1. k - 1 \in 1 .. k - 1 /\ k - 1 \in 1 .. m /\ k - 1 < k
        BY <3>2
      <4>2. q[k - 1] = k - 1 /\ q[k - 1] < q[k]
        BY <2>1, <4>1
      <4> QED
        BY <1>0, <4>2
    <3> QED
      BY <3>1, <3>2
  <2>3. q[k] \in 1 .. n /\ k \in 1 .. n
    BY <1>0, <2>2
  <2>4. PICK l \in 1 .. m : q[l] = k
    BY <2>3
  <2>5. l >= k
    BY <2>1, <2>4
  <2>6. q[k] <= q[l]
    <3>1. l = k \/ q[k] < q[l]
      BY <2>5
    <3> QED
      BY <1>0, <3>1
  <2>7. q[k] = k
    BY <2>2, <2>3, <2>4, <2>6
  <2>8. \A j \in 1 .. k : j = k \/ j \in 1 .. k - 1
    OBVIOUS
  <2> QED
    BY <2>1, <2>7, <2>8
<1>3. \A k \in 1 .. m : q[k] = k
  <2>1. m \in 0 .. m
    OBVIOUS
  <2> HIDE DEF T
  <2>2. \A k \in 0 .. m : k \in T
    BY <1>1, <1>2, Upto
  <2> QED
    BY <2>1, <2>2 DEF T
<1>4. m <= n
  <2>1. CASE m = 0
    BY <2>1
  <2>2. CASE m # 0
    <3>1. m \in 1 .. m
      BY <2>2
    <3> QED
      BY <1>0, <1>3, <3>1
  <2> QED
    BY <2>1, <2>2
<1>5. n <= m
  <2>1. CASE n = 0
    BY <2>1
  <2>2. CASE n # 0
    <3>1. n \in 1 .. n
      BY <2>2
    <3>2. PICK k \in 1 .. m : q[k] = n
      BY <3>1
    <3> QED
      BY <1>3, <3>2
  <2> QED
    BY <2>1, <2>2
<1> QED
  BY <1>3, <1>4, <1>5

\* Everything is kept when all of it is in the set.
LEMMA ThoseAll ==
  ASSUME NEW S, NEW seq \in Seq(S), NEW T, \A i \in 1 .. Len(seq) : seq[i] \in T
  PROVE  Those(seq, T) = seq
<1> DEFINE t == Those(seq, T)
<1>1. t \in Seq(S)
  BY ThosePicked
<1>2. PICK q : Picked(seq, T, Len(seq), t, q)
  BY ThosePicked
<1> HIDE DEF t
<1>3. Len(t) \in Nat /\ Len(seq) \in Nat
  BY <1>1
<1>4. /\ q \in [1 .. Len(t) -> 1 .. Len(seq)]
      /\ \A i, j \in 1 .. Len(t) : i < j => q[i] < q[j]
      /\ \A i \in 1 .. Len(seq) : \E k \in 1 .. Len(t) : q[k] = i
  BY <1>2 DEF Picked
<1>5. Len(t) = Len(seq) /\ \A k \in 1 .. Len(t) : q[k] = k
  <2>1. Climbs(q, Len(t), Len(seq))
    BY <1>4 DEF Climbs
  <2> QED
    BY <1>3, <2>1, Onto
<1>6. \A k \in 1 .. Len(t) : t[k] = seq[k]
  BY <1>2, <1>5 DEF Picked
<1>7. t = seq
  BY <1>1, <1>5, <1>6
<1> QED
  BY <1>7 DEF t

\* A comparison of scores: two things may be equal in it.
Compares(above, n) ==
  /\ \A i \in 1 .. n : <<i, i>> \notin above
  /\ \A i, j, k \in 1 .. n : <<i, j>> \in above /\ <<j, k>> \in above => <<i, k>> \in above
  /\ \A i, j, k \in 1 .. n : <<i, j>> \notin above /\ <<j, k>> \notin above => <<i, k>> \notin above

\* What a stable sort makes of it.
Stably(above, n) ==
  {pair \in (1 .. n) \X (1 .. n) :
     pair \in above \/ (<<pair[2], pair[1]>> \notin above /\ pair[1] < pair[2])}

LEMMA StablyIs ==
  ASSUME NEW above, NEW n, NEW i \in 1 .. n, NEW j \in 1 .. n
  PROVE  <<i, j>> \in Stably(above, n) <=> <<i, j>> \in above \/ (<<j, i>> \notin above /\ i < j)
BY DEF Stably

LEMMA StablyOrders ==
  ASSUME NEW n \in Nat, NEW above, Compares(above, n)
  PROVE  Orders(Stably(above, n), n)
<1>1. \A i \in 1 .. n : <<i, i>> \notin Stably(above, n)
  <2> TAKE i \in 1 .. n
  <2>1. <<i, i>> \notin above /\ ~(i < i)
    BY DEF Compares
  <2> QED
    BY <2>1, StablyIs
<1>2. ASSUME NEW i \in 1 .. n, NEW j \in 1 .. n, NEW k \in 1 .. n,
             <<i, j>> \in Stably(above, n), <<j, k>> \in Stably(above, n)
      PROVE  <<i, k>> \in Stably(above, n)
  <2>1. /\ <<i, j>> \in above \/ (<<j, i>> \notin above /\ i < j)
        /\ <<j, k>> \in above \/ (<<k, j>> \notin above /\ j < k)
    BY <1>2, StablyIs
  <2>2. i < j /\ j < k => i < k
    OBVIOUS
  <2>3. /\ <<i, j>> \in above /\ <<j, k>> \in above => <<i, k>> \in above
        /\ <<i, k>> \notin above /\ <<k, j>> \notin above => <<i, j>> \notin above
        /\ <<j, i>> \notin above /\ <<i, k>> \notin above => <<j, k>> \notin above
        /\ <<k, j>> \notin above /\ <<j, i>> \notin above => <<k, i>> \notin above
    BY DEF Compares
  <2>4. <<i, k>> \in above \/ (<<k, i>> \notin above /\ i < k)
    BY <2>1, <2>2, <2>3
  <2> QED
    BY <2>4, StablyIs
<1>3. ASSUME NEW i \in 1 .. n, NEW j \in 1 .. n
      PROVE  i = j \/ <<i, j>> \in Stably(above, n) \/ <<j, i>> \in Stably(above, n)
  <2>1. i = j \/ i < j \/ j < i
    OBVIOUS
  <2> QED
    BY <2>1, StablyIs
<1> QED
  BY <1>1, <1>2, <1>3 DEF Orders

\* p sorts seq, so that sorted is what comes out.
Sorts(p, seq, above, sorted) ==
  /\ p \in [1 .. Len(seq) -> 1 .. Len(seq)]
  /\ \A i \in 1 .. Len(seq) : \E k \in 1 .. Len(seq) : p[k] = i
  /\ \A i, j \in 1 .. Len(seq) : i < j => p[i] # p[j] /\ <<p[i], p[j]>> \in Stably(above, Len(seq))
  /\ Len(sorted) = Len(seq)
  /\ \A k \in 1 .. Len(seq) : sorted[k] = seq[p[k]]

LEMMA SortedIs ==
  ASSUME NEW S, NEW seq \in Seq(S), NEW above, Compares(above, Len(seq))
  PROVE  Sorted(seq, above) \in Seq(S) /\ \E p : Sorts(p, seq, above, Sorted(seq, above))
<1> DEFINE n == Len(seq)
           before == Stably(above, n)
           t == Sorted(seq, above)
<1>1. n \in Nat /\ DOMAIN seq = 1 .. n /\ \A i \in 1 .. n : seq[i] \in S
  OBVIOUS
<1>2. PICK p : Ordered(before, n, p)
  <2>1. Orders(before, n)
    BY <1>1, StablyOrders
  <2> HIDE DEF n, before
  <2> QED
    BY <1>1, <2>1, OrderedPlaces
<1>3. \A j \in 1 .. n :
        {i \in DOMAIN seq : <<i, j>> \in above \/ (<<j, i>> \notin above /\ i < j)} = Before(before, n, j)
  <2> TAKE j \in 1 .. n
  <2>1. \A i \in 1 .. n : <<i, j>> \in before <=> <<i, j>> \in above \/ (<<j, i>> \notin above /\ i < j)
    BY StablyIs
  <2> HIDE DEF before
  <2> QED
    BY <1>1, <2>1 DEF Before
<1>4. \A k \in 1 .. n : (CHOOSE j \in 1 .. n : Cardinality(Before(before, n, j)) = k - 1) = p[k]
  <2> TAKE k \in 1 .. n
  <2>1. p[k] \in 1 .. n /\ \A j \in 1 .. n : Cardinality(Before(before, n, j)) = k - 1 <=> j = p[k]
    BY <1>2 DEF Ordered
  <2> HIDE DEF before, n
  <2> QED
    BY <2>1
<1>5. t = [k \in 1 .. n |-> seq[CHOOSE j \in 1 .. n :
             Cardinality({i \in DOMAIN seq : <<i, j>> \in above \/ (<<j, i>> \notin above /\ i < j)}) = k - 1]]
  BY <1>1 DEF Sorted
<1>6. t = [k \in 1 .. n |-> seq[p[k]]]
  <2> HIDE DEF before, n, t
  <2> DEFINE Ahead(j) == {i \in DOMAIN seq : <<i, j>> \in above \/ (<<j, i>> \notin above /\ i < j)}
             c(k) == CHOOSE j \in 1 .. n : Cardinality(Ahead(j)) = k - 1
  <2>1. t = [k \in 1 .. n |-> seq[c(k)]]
    BY <1>5
  <2>2. \A k \in 1 .. n : c(k) = p[k]
    <3>1. \A j \in 1 .. n : Cardinality(Ahead(j)) = Cardinality(Before(before, n, j))
      BY <1>3
    <3> HIDE DEF Ahead
    <3>2. \A k \in 1 .. n : c(k) = (CHOOSE j \in 1 .. n : Cardinality(Before(before, n, j)) = k - 1)
      BY <3>1
    <3> QED
      BY <1>4, <3>2
  <2> HIDE DEF c
  <2> QED
    BY <2>1, <2>2
<1>7. p \in [1 .. n -> 1 .. n] /\ \A k \in 1 .. n : p[k] \in 1 .. n
  BY <1>2 DEF Ordered
<1>8. t \in Seq(S) /\ Len(t) = n /\ \A k \in 1 .. n : t[k] = seq[p[k]]
  <2>1. \A k \in 1 .. n : seq[p[k]] \in S
    BY <1>1, <1>7
  <2> HIDE DEF n, t
  <2>2. t \in [1 .. n -> S]
    BY <1>6, <2>1
  <2>3. t \in Seq(S)
    BY <1>1, <2>2
  <2>4. DOMAIN t = 1 .. n
    BY <1>6
  <2>5. Len(t) = n
    BY <1>1, <2>3, <2>4
  <2> QED
    BY <1>6, <2>3, <2>5
<1>9. Sorts(p, seq, above, t)
  BY <1>2, <1>8 DEF Ordered, Sorts
<1> QED
  BY <1>8, <1>9

\* Sorting what is in order changes nothing.
LEMMA SortedSame ==
  ASSUME NEW S, NEW seq \in Seq(S), NEW above,
         \A i, j \in 1 .. Len(seq) : <<i, j>> \in above <=> i < j
  PROVE  Sorted(seq, above) = seq
<1> DEFINE n == Len(seq)
           t == Sorted(seq, above)
<1>1. n \in Nat
  OBVIOUS
<1>2. Compares(above, n)
  <2> HIDE DEF n
  <2>1. \A i, j \in 1 .. n : <<i, j>> \in above <=> i < j
    BY DEF n
  <2> QED
    BY <1>1, <2>1 DEF Compares
<1>3. t \in Seq(S) /\ \E p : Sorts(p, seq, above, t)
  BY <1>2, SortedIs
<1> HIDE DEF t
<1>4. PICK p : Sorts(p, seq, above, t)
  BY <1>3
<1>5. ASSUME NEW i \in 1 .. n, NEW j \in 1 .. n, i < j PROVE p[i] < p[j]
  <2>1. p[i] \in 1 .. n /\ p[j] \in 1 .. n /\ <<p[i], p[j]>> \in Stably(above, n)
    BY <1>4, <1>5 DEF Sorts
  <2>2. <<p[i], p[j]>> \in above \/ p[i] < p[j]
    BY <2>1, StablyIs
  <2> QED
    BY <2>1, <2>2
<1>6. Climbs(p, n, n)
  BY <1>4, <1>5 DEF Climbs, Sorts
<1>7. \A k \in 1 .. n : p[k] = k
  <2> HIDE DEF n
  <2> QED
    BY <1>1, <1>6, Onto
<1>8. Len(t) = n /\ \A k \in 1 .. n : t[k] = seq[k]
  BY <1>4, <1>7 DEF Sorts
<1>9. t = seq
  BY <1>3, <1>8
<1> QED
  BY <1>9 DEF t

-----------------------------------------------------------------------------
(* The fusion of two legs. *)

\* What SelectSeq-like filtering keeps, and in which order.
LEMMA ThoseIn ==
  ASSUME NEW S, NEW seq \in Seq(S), NEW T
  PROVE  /\ \A k \in 1 .. Len(Those(seq, T)) : Those(seq, T)[k] \in T /\ Those(seq, T)[k] \in Range(seq)
         /\ \A i \in 1 .. Len(seq) : seq[i] \in T => \E k \in 1 .. Len(Those(seq, T)) : Those(seq, T)[k] = seq[i]
         /\ Len(Those(seq, T)) <= Len(seq)
<1> DEFINE t == Those(seq, T)
<1>1. t \in Seq(S) /\ \E q : Picked(seq, T, Len(seq), t, q)
  BY ThosePicked
<1> HIDE DEF t
<1>2. PICK q : Picked(seq, T, Len(seq), t, q)
  BY <1>1
<1>3. Len(t) \in Nat /\ Len(seq) \in Nat /\ \A k \in 1 .. Len(t) : q[k] \in 1 .. Len(seq)
  <2>1. Len(t) \in Nat /\ Len(seq) \in Nat
    BY <1>1
  <2>2. \A k \in 1 .. Len(t) : q[k] \in 1 .. Len(seq)
    BY <1>2 DEF Picked
  <2> QED
    BY <2>1, <2>2
<1>4. \A k \in 1 .. Len(t) : t[k] \in T /\ t[k] \in Range(seq)
  BY <1>2, <1>3 DEF Picked, Range
<1>5. \A i \in 1 .. Len(seq) : seq[i] \in T => \E k \in 1 .. Len(t) : t[k] = seq[i]
  BY <1>2 DEF Picked
<1>6. Len(t) <= Len(seq)
  <2> DEFINE U == {k \in 0 .. Len(t) : k = 0 \/ q[k] >= k}
  <2>1. 0 \in U
    BY <1>3
  <2>2. ASSUME NEW k \in 1 .. Len(t), k - 1 \in U PROVE k \in U
    <3>1. CASE k = 1
      BY <1>3, <3>1
    <3>2. CASE k # 1
      <4>1. k - 1 \in 1 .. Len(t) /\ k - 1 < k
        BY <1>3, <3>2
      <4>2. q[k - 1] < q[k] /\ q[k - 1] >= k - 1
        BY <1>2, <2>2, <4>1 DEF Picked
      <4>3. q[k - 1] \in 1 .. Len(seq) /\ q[k] \in 1 .. Len(seq)
        BY <1>3, <4>1
      <4>4. q[k] >= k
        BY <1>3, <4>2, <4>3
      <4> QED
        BY <4>4
    <3> QED
      BY <3>1, <3>2
  <2> HIDE DEF U
  <2>3. \A k \in 0 .. Len(t) : k \in U
    BY <1>3, <2>1, <2>2, Upto
  <2>4. CASE Len(t) = 0
    BY <1>3, <2>4
  <2>5. CASE Len(t) # 0
    <3>1. Len(t) \in 1 .. Len(t) /\ Len(t) \in 0 .. Len(t)
      BY <1>3, <2>5
    <3>2. q[Len(t)] >= Len(t)
      BY <2>3, <2>5, <3>1 DEF U
    <3> QED
      BY <1>3, <3>1, <3>2
  <2> QED
    BY <2>4, <2>5
<1> QED
  BY <1>4, <1>5, <1>6 DEF t

\* No element of seq is there twice.
Distinct(seq) == \A i, j \in 1 .. Len(seq) : seq[i] = seq[j] => i = j

LEMMA ThoseDistinct ==
  ASSUME NEW S, NEW seq \in Seq(S), NEW T, Distinct(seq)
  PROVE  Distinct(Those(seq, T))
<1> DEFINE t == Those(seq, T)
<1>1. t \in Seq(S) /\ \E q : Picked(seq, T, Len(seq), t, q)
  BY ThosePicked
<1> HIDE DEF t
<1>2. PICK q : Picked(seq, T, Len(seq), t, q)
  BY <1>1
<1>3. ASSUME NEW i \in 1 .. Len(t), NEW j \in 1 .. Len(t), t[i] = t[j] PROVE i = j
  <2>1. q[i] \in 1 .. Len(seq) /\ q[j] \in 1 .. Len(seq) /\ seq[q[i]] = seq[q[j]]
    BY <1>2, <1>3 DEF Picked
  <2>2. q[i] = q[j]
    BY <2>1 DEF Distinct
  <2>3. ~(i < j) /\ ~(j < i)
    <3>1. (i < j => q[i] < q[j]) /\ (j < i => q[j] < q[i])
      BY <1>2 DEF Picked
    <3>2. \A x \in 1 .. Len(seq) : ~(x < x)
      OBVIOUS
    <3> QED
      BY <2>1, <2>2, <3>1, <3>2
  <2> QED
    BY <2>3
<1>4. Distinct(t)
  BY <1>3 DEF Distinct
<1> QED
  BY <1>4 DEF t

LEMMA RankIs ==
  ASSUME NEW leg \in Seq(Nat), Distinct(leg)
  PROVE  /\ \A c : RankIn(leg, c) \in Nat
         /\ \A c : c \notin Range(leg) => RankIn(leg, c) = 0
         /\ \A i \in 1 .. Len(leg) : leg[i] \in Range(leg) /\ RankIn(leg, leg[i]) = i
         /\ \A c \in Range(leg) : RankIn(leg, c) \in 1 .. Len(leg)
<1>1. DOMAIN leg = 1 .. Len(leg) /\ Len(leg) \in Nat
  OBVIOUS
<1>2. \A c : c \notin Range(leg) => RankIn(leg, c) = 0
  BY DEF RankIn
<1>3. \A i \in 1 .. Len(leg) : leg[i] \in Range(leg)
  BY <1>1 DEF Range
<1>4. ASSUME NEW i \in 1 .. Len(leg) PROVE RankIn(leg, leg[i]) = i
  <2>1. RankIn(leg, leg[i]) = CHOOSE j \in 1 .. Len(leg) : leg[j] = leg[i]
    BY <1>1, <1>3 DEF RankIn
  <2>2. \A j \in 1 .. Len(leg) : leg[j] = leg[i] => j = i
    BY DEF Distinct
  <2>3. (CHOOSE j \in 1 .. Len(leg) : leg[j] = leg[i]) = i
    BY <2>2
  <2> QED
    BY <2>1, <2>3
<1>5. \A c \in Range(leg) : \E i \in 1 .. Len(leg) : leg[i] = c
  BY <1>1 DEF Range
<1>6. \A c \in Range(leg) : RankIn(leg, c) \in 1 .. Len(leg)
  BY <1>4, <1>5
<1>7. \A c : RankIn(leg, c) \in Nat
  <2> TAKE c
  <2>1. CASE c \in Range(leg)
    BY <1>1, <1>6, <2>1
  <2>2. CASE c \notin Range(leg)
    BY <1>2, <2>2
  <2> QED
    BY <2>1, <2>2
<1> QED
  BY <1>2, <1>3, <1>4, <1>6, <1>7

LEMMA RrfKIs == RrfK \in Nat /\ RrfK >= 1
BY RetrievalAssumption

LEMMA Products == \A a, b \in Nat : a # 0 /\ b # 0 => a * b \in Nat /\ a * b # 0
OBVIOUS

\* The score of a passage, by its ranks.
LEMMA ScoreIs ==
  ASSUME NEW dense, NEW sparse, NEW c,
         RankIn(dense, c) \in Nat, RankIn(sparse, c) \in Nat
  PROVE  LET d == RankIn(dense, c) s == RankIn(sparse, c) f == FusionScore(dense, sparse, c)
         IN /\ f.num \in Nat \ {0} /\ f.den \in Nat \ {0}
            /\ d # 0 /\ s # 0 => f.num = (RrfK + d) + (RrfK + s) /\ f.den = (RrfK + d) * (RrfK + s)
            /\ d = 0 \/ s = 0 => f.num = 1 /\ f.den = RrfK + d + s
<1> DEFINE d == RankIn(dense, c)
           s == RankIn(sparse, c)
           f == FusionScore(dense, sparse, c)
<1>1. d # 0 /\ s # 0 => f.num = (RrfK + d) + (RrfK + s) /\ f.den = (RrfK + d) * (RrfK + s)
  BY DEF FusionScore
<1>2. d = 0 \/ s = 0 => f.num = 1 /\ f.den = RrfK + d + s
  BY DEF FusionScore
<1>3. d \in Nat /\ s \in Nat /\ RrfK \in Nat /\ RrfK # 0
  BY RrfKIs
<1> HIDE DEF d, s, f
<1>4. /\ RrfK + d + s \in Nat \ {0} /\ (RrfK + d) + (RrfK + s) \in Nat \ {0}
      /\ RrfK + d \in Nat /\ RrfK + d # 0 /\ RrfK + s \in Nat /\ RrfK + s # 0
  BY <1>3
<1>5. (RrfK + d) * (RrfK + s) \in Nat \ {0}
  BY <1>4, Products
<1>6. f.num \in Nat \ {0} /\ f.den \in Nat \ {0}
  BY <1>1, <1>2, <1>4, <1>5
<1> QED
  BY <1>1, <1>2, <1>6 DEF d, s, f

\* Comparing fractions.
LEMMA Less == \A a, b, c \in Nat : a <= b => a * c <= b * c
OBVIOUS

LEMMA Cancel == \A a, b, c \in Nat : c # 0 /\ a * c <= b * c => a <= b
OBVIOUS

LEMMA Fractions ==
  ASSUME NEW a \in Nat, NEW b \in Nat, NEW c \in Nat,
         NEW x \in Nat \ {0}, NEW y \in Nat \ {0}, NEW z \in Nat \ {0},
         a * y <= b * x, b * z <= c * y
  PROVE  a * z <= c * x
<1>1. (a * y) * z <= (b * x) * z
  <2>1. a * y \in Nat /\ b * x \in Nat
    OBVIOUS
  <2> QED
    BY <2>1, Less
<1>2. (b * z) * x <= (c * y) * x
  <2>1. b * z \in Nat /\ c * y \in Nat
    OBVIOUS
  <2> QED
    BY <2>1, Less
<1>3. (a * y) * z = (a * z) * y /\ (b * x) * z = (b * z) * x /\ (c * y) * x = (c * x) * y
  OBVIOUS
<1>4. /\ (a * z) * y \in Nat /\ (b * z) * x \in Nat /\ (c * x) * y \in Nat
      /\ a * z \in Nat /\ c * x \in Nat
  OBVIOUS
<1>5. (a * z) * y <= (c * x) * y
  BY <1>1, <1>2, <1>3, <1>4
<1> QED
  BY <1>4, <1>5, Cancel

\* What both found is above what one did.
LEMMA TwoAboveOne ==
  ASSUME NEW k \in Nat, NEW x \in k + 1 .. 2 * k + 1, NEW y \in k + 1 .. 2 * k + 1,
         NEW z \in Nat, z >= k + 1
  PROVE  (x + y) * z > x * y
<1>1. ASSUME NEW u \in k + 1 .. 2 * k + 1, NEW v \in k + 1 .. 2 * k + 1, u <= v
      PROVE  (u + v) * z > u * v
  <2>1. u * v <= u * (2 * k + 1)
    OBVIOUS
  <2>2. (u + v) * (k + 1) <= (u + v) * z
    OBVIOUS
  <2>3. (u + u) * (k + 1) <= (u + v) * (k + 1)
    <3>1. u + u \in Nat /\ u + v \in Nat /\ k + 1 \in Nat /\ u + u <= u + v
      BY <1>1
    <3> QED
      BY <3>1, Less
  <2>4. (u + u) * (k + 1) = u * (2 * k + 1) + u
    OBVIOUS
  <2>5. u * v \in Nat /\ u * (2 * k + 1) \in Nat /\ (u + u) * (k + 1) \in Nat
        /\ (u + v) * (k + 1) \in Nat /\ (u + v) * z \in Nat /\ u >= 1
    OBVIOUS
  <2> QED
    BY <2>1, <2>2, <2>3, <2>4, <2>5
<1>2. x <= y \/ y <= x
  OBVIOUS
<1>3. x + y = y + x /\ x * y = y * x
  OBVIOUS
<1>4. CASE x <= y
  BY <1>1, <1>4
<1>5. CASE y <= x
  <2>1. (y + x) * z > y * x
    BY <1>1, <1>5
  <2> QED
    BY <1>3, <2>1
<1> QED
  BY <1>2, <1>4, <1>5

\* What the two legs found, the dense one's first, and whose score is above whose.
FoundOnce(dense, sparse) == dense \o Those(sparse, Range(sparse) \ Range(dense))
Score(dense, sparse, i) == FusionScore(dense, sparse, FoundOnce(dense, sparse)[i])
Higher(a, b) == a.num * b.den > b.num * a.den
Above(dense, sparse) ==
  {pair \in (1 .. Len(FoundOnce(dense, sparse))) \X (1 .. Len(FoundOnce(dense, sparse))) :
     Higher(Score(dense, sparse, pair[1]), Score(dense, sparse, pair[2]))}

LEMMA FoundIs ==
  ASSUME NEW dense \in Legs, NEW sparse \in Legs
  PROVE  /\ dense \in Seq(Nat) /\ Distinct(dense) /\ sparse \in Seq(Nat) /\ Distinct(sparse)
         /\ FoundOnce(dense, sparse) \in Seq(Nat)
         /\ Distinct(FoundOnce(dense, sparse))
         /\ Range(FoundOnce(dense, sparse)) = Range(dense) \cup Range(sparse)
<1> DEFINE only == Range(sparse) \ Range(dense)
           rest == Those(sparse, only)
           found == FoundOnce(dense, sparse)
<1>1. dense \in Seq(Nat) /\ sparse \in Seq(Nat) /\ Distinct(dense) /\ Distinct(sparse)
  BY SMTT(20) DEF Legs, Distinct
<1>2. rest \in Seq(Nat) /\ Distinct(rest)
  BY <1>1, ThosePicked, ThoseDistinct
<1>3. /\ \A k \in 1 .. Len(rest) : rest[k] \in only
      /\ \A i \in 1 .. Len(sparse) : sparse[i] \in only => \E k \in 1 .. Len(rest) : rest[k] = sparse[i]
  <2> HIDE DEF only
  <2>1. \A k \in 1 .. Len(Those(sparse, only)) : Those(sparse, only)[k] \in only
    BY <1>1, ThoseIn
  <2>2. \A i \in 1 .. Len(sparse) : sparse[i] \in only =>
          \E k \in 1 .. Len(Those(sparse, only)) : Those(sparse, only)[k] = sparse[i]
    BY <1>1, ThoseIn
  <2> QED
    BY <2>1, <2>2
<1> DEFINE m == Len(dense)
<1>4. found = dense \o rest
  BY DEF FoundOnce
<1> HIDE DEF rest
<1>5. m \in Nat /\ Len(rest) \in Nat /\ found \in Seq(Nat) /\ Len(found) = m + Len(rest)
  BY <1>1, <1>2, <1>4
<1>6. /\ \A i \in 1 .. m : i \in 1 .. Len(found) /\ found[i] = dense[i] /\ dense[i] \in Range(dense)
      /\ \A k \in 1 .. Len(rest) : m + k \in 1 .. Len(found) /\ found[m + k] = rest[k]
  BY <1>1, <1>2, <1>4, <1>5 DEF Range
<1>7. \A i \in 1 .. Len(found) : i \in 1 .. m \/ (i - m \in 1 .. Len(rest) /\ m + (i - m) = i)
  BY <1>5
<1>8. \A i \in 1 .. Len(found) :
        \/ i \in 1 .. m /\ found[i] = dense[i] /\ found[i] \in Range(dense)
        \/ i - m \in 1 .. Len(rest) /\ found[i] = rest[i - m] /\ found[i] \in only
  <2> TAKE i \in 1 .. Len(found)
  <2>1. CASE i \in 1 .. m
    BY <1>6, <2>1
  <2>2. CASE i - m \in 1 .. Len(rest) /\ m + (i - m) = i
    <3>1. found[m + (i - m)] = rest[i - m]
      BY <1>6, <2>2
    <3> QED
      BY <1>3, <2>2, <3>1
  <2> QED
    BY <1>7, <2>1, <2>2
<1> HIDE DEF found, m
<1>9. Distinct(found)
  <2>1. ASSUME NEW i \in 1 .. Len(found), NEW j \in 1 .. Len(found), found[i] = found[j] PROVE i = j
    <3>1. CASE i \in 1 .. m /\ j \in 1 .. m /\ found[i] = dense[i] /\ found[j] = dense[j]
      BY <1>1, <2>1, <3>1 DEF Distinct, m
    <3>2. CASE /\ i - m \in 1 .. Len(rest) /\ found[i] = rest[i - m]
               /\ j - m \in 1 .. Len(rest) /\ found[j] = rest[j - m]
      <4>1. i - m = j - m
        BY <1>2, <2>1, <3>2 DEF Distinct
      <4> QED
        BY <1>5, <4>1
    <3> QED
      BY <1>8, <2>1, <3>1, <3>2
  <2> QED
    BY <2>1 DEF Distinct
<1>10. Range(found) = Range(dense) \cup Range(sparse)
  <2>1. ASSUME NEW c \in Range(found) PROVE c \in Range(dense) \cup Range(sparse)
    <3>1. PICK i \in 1 .. Len(found) : found[i] = c
      BY <1>5 DEF Range
    <3> QED
      BY <1>8, <3>1
  <2>2. ASSUME NEW c \in Range(dense) PROVE c \in Range(found)
    <3>1. PICK i \in 1 .. m : dense[i] = c
      BY <1>1 DEF Range, m
    <3> QED
      BY <1>5, <1>6, <3>1 DEF Range
  <2>3. ASSUME NEW c \in Range(sparse), c \notin Range(dense) PROVE c \in Range(found)
    <3>1. PICK i \in 1 .. Len(sparse) : sparse[i] = c
      BY <1>1 DEF Range
    <3>2. PICK k \in 1 .. Len(rest) : rest[k] = c
      BY <1>3, <2>3, <3>1
    <3>3. m + k \in 1 .. Len(found) /\ found[m + k] = c
      BY <1>6, <3>2
    <3>4. DOMAIN found = 1 .. Len(found)
      BY <1>5
    <3> HIDE DEF only
    <3> QED
      BY <3>3, <3>4 DEF Range
  <2> QED
    BY <2>1, <2>2, <2>3
<1> QED
  BY <1>1, <1>5, <1>9, <1>10 DEF found

\* The scores are fractions above 0.
LEMMA Scores ==
  ASSUME NEW dense \in Legs, NEW sparse \in Legs
  PROVE  \A i : /\ Score(dense, sparse, i).num \in Nat \ {0}
                /\ Score(dense, sparse, i).den \in Nat \ {0}
<1> TAKE i
<1>1. dense \in Seq(Nat) /\ Distinct(dense) /\ sparse \in Seq(Nat) /\ Distinct(sparse)
  BY FoundIs
<1> DEFINE c == FoundOnce(dense, sparse)[i]
<1>2. RankIn(dense, c) \in Nat /\ RankIn(sparse, c) \in Nat
  BY <1>1, RankIs
<1> HIDE DEF c
<1>3. FusionScore(dense, sparse, c).num \in Nat \ {0} /\ FusionScore(dense, sparse, c).den \in Nat \ {0}
  BY <1>2, ScoreIs
<1> QED
  BY <1>3 DEF Score, c

\* The fusion sorts by them.
LEMMA FusionIs ==
  ASSUME NEW dense \in Legs, NEW sparse \in Legs
  PROVE  /\ ReciprocalRankFusion(dense, sparse) = Sorted(FoundOnce(dense, sparse), Above(dense, sparse))
         /\ Compares(Above(dense, sparse), Len(FoundOnce(dense, sparse)))
<1> DEFINE found == FoundOnce(dense, sparse)
           n == Len(found)
           of(i) == FusionScore(dense, sparse, found[i])
           score == <<>> \o [i \in DOMAIN found |-> of(i)]
           above == {pair \in (DOMAIN found) \X (DOMAIN found) :
                       score[pair[1]].num * score[pair[2]].den
                         > score[pair[2]].num * score[pair[1]].den}
<1>1. n \in Nat /\ DOMAIN found = 1 .. n
  BY FoundIs
<1>2. \A i \in 1 .. n : score[i] = of(i)
  <2> DEFINE bare == [i \in 1 .. n |-> of(i)]
             V == {of(i) : i \in 1 .. n}
  <2>1. bare \in Seq(V) /\ Len(bare) = n /\ \A i \in 1 .. n : bare[i] = of(i)
    <3>1. \A i \in 1 .. n : of(i) \in V
      OBVIOUS
    <3> HIDE DEF V, of, n
    <3>2. bare \in [1 .. n -> V]
      BY <3>1
    <3>3. bare \in Seq(V) /\ DOMAIN bare = 1 .. n
      BY <1>1, <3>2
    <3>4. Len(bare) = n
      BY <1>1, <3>3
    <3> QED
      BY <3>3, <3>4
  <2>2. score = <<>> \o bare
    BY <1>1
  <2> HIDE DEF bare, V, of, n, score
  <2>3. <<>> \o bare = bare
    BY <2>1
  <2> QED
    BY <2>1, <2>2, <2>3
<1>3. ReciprocalRankFusion(dense, sparse) = Sorted(found, above)
  BY DEF ReciprocalRankFusion, FoundOnce
<1>4. above = Above(dense, sparse)
  <2>1. \A i \in 1 .. n : score[i] = Score(dense, sparse, i)
    BY <1>2 DEF Score
  <2> HIDE DEF score, found, of
  <2>2. above = {pair \in (1 .. n) \X (1 .. n) :
                   Higher(Score(dense, sparse, pair[1]), Score(dense, sparse, pair[2]))}
    BY <1>1, <2>1 DEF Higher
  <2> QED
    BY <2>2 DEF Above, found, n
<1> DEFINE v(i) == Score(dense, sparse, i)
<1>5. \A i, j \in 1 .. n : <<i, j>> \in Above(dense, sparse) <=> Higher(v(i), v(j))
  BY DEF Above
<1>6. \A i : v(i).num \in Nat \ {0} /\ v(i).den \in Nat \ {0}
  BY Scores
<1> DEFINE num(i) == v(i).num
           den(i) == v(i).den
<1>7. \A i, j : Higher(v(i), v(j)) <=> ~(num(i) * den(j) <= num(j) * den(i))
  <2> TAKE i, j
  <2>1. Higher(v(i), v(j)) <=> num(i) * den(j) > num(j) * den(i)
    BY DEF Higher
  <2>2. num(i) \in Nat /\ num(j) \in Nat /\ den(i) \in Nat /\ den(j) \in Nat
    BY <1>6
  <2> HIDE DEF num, den
  <2>3. num(i) * den(j) \in Nat /\ num(j) * den(i) \in Nat
    BY <2>2
  <2> QED
    BY <2>1, <2>3
<1>8. \A i : num(i) \in Nat /\ den(i) \in Nat \ {0}
  BY <1>6
<1> HIDE DEF v, num, den, n, found
<1> DEFINE AtMost(i, j) == num(i) * den(j) <= num(j) * den(i)
<1>9. ASSUME NEW i, NEW j, NEW k, AtMost(i, j), AtMost(j, k) PROVE AtMost(i, k)
  BY <1>8, <1>9, Fractions
<1>10. \A i, j : AtMost(i, j) \/ AtMost(j, i)
  <2> TAKE i, j
  <2>1. num(i) * den(j) \in Nat /\ num(j) * den(i) \in Nat
    BY <1>8
  <2> QED
    BY <2>1
<1>11. \A i, j \in 1 .. n : <<i, j>> \in Above(dense, sparse) <=> ~AtMost(i, j)
  BY <1>5, <1>7
<1> HIDE DEF AtMost
<1>12. Compares(Above(dense, sparse), n)
  BY <1>9, <1>10, <1>11 DEF Compares
<1> QED
  BY <1>3, <1>4, <1>12 DEF n, found

\* The fused passages are what was found, none twice, sorted.
LEMMA FusedIs ==
  ASSUME NEW dense \in Legs, NEW sparse \in Legs
  PROVE  LET fused == ReciprocalRankFusion(dense, sparse)
         IN /\ fused \in Legs /\ Distinct(fused)
            /\ Range(fused) = Range(dense) \cup Range(sparse)
            /\ \E p : Sorts(p, FoundOnce(dense, sparse), Above(dense, sparse), fused)
<1> DEFINE found == FoundOnce(dense, sparse)
           fused == ReciprocalRankFusion(dense, sparse)
<1>1. found \in Seq(Nat) /\ Distinct(found) /\ Range(found) = Range(dense) \cup Range(sparse)
  BY FoundIs
<1>2. fused \in Seq(Nat) /\ \E p : Sorts(p, found, Above(dense, sparse), fused)
  BY <1>1, FusionIs, SortedIs
<1> HIDE DEF found, fused
<1>3. PICK p : Sorts(p, found, Above(dense, sparse), fused)
  BY <1>2
<1>4. /\ Len(found) \in Nat /\ DOMAIN found = 1 .. Len(found) /\ DOMAIN fused = 1 .. Len(found)
      /\ Len(fused) = Len(found)
  <2>1. Len(fused) = Len(found)
    BY <1>3 DEF Sorts
  <2> QED
    BY <1>1, <1>2, <2>1
<1>5. \A k \in 1 .. Len(found) : p[k] \in 1 .. Len(found) /\ fused[k] = found[p[k]]
  BY <1>3 DEF Sorts
<1>6. ASSUME NEW i \in 1 .. Len(fused), NEW j \in 1 .. Len(fused), fused[i] = fused[j] PROVE i = j
  <2>1. p[i] = p[j]
    BY <1>1, <1>4, <1>5, <1>6 DEF Distinct
  <2>2. (i < j => p[i] # p[j]) /\ (j < i => p[j] # p[i])
    BY <1>3, <1>4 DEF Sorts
  <2> QED
    BY <1>4, <2>1, <2>2
<1>7. Distinct(fused)
  BY <1>6 DEF Distinct
<1>8. fused \in Legs
  BY <1>2, <1>4, <1>6 DEF Legs
<1>9. Range(fused) = Range(found)
  <2>1. \A c \in Range(fused) : c \in Range(found)
    BY <1>4, <1>5 DEF Range
  <2>2. ASSUME NEW c \in Range(found) PROVE c \in Range(fused)
    <3>1. PICK i \in 1 .. Len(found) : found[i] = c
      BY <1>4 DEF Range
    <3>2. PICK k \in 1 .. Len(found) : p[k] = i
      BY <1>3 DEF Sorts
    <3> QED
      BY <1>4, <1>5, <3>1, <3>2 DEF Range
  <2> QED
    BY <2>1, <2>2
<1> QED
  BY <1>1, <1>2, <1>7, <1>8, <1>9 DEF found, fused

\* One leg alone keeps its order.
LEMMA OneLeg ==
  ASSUME NEW dense \in Legs, NEW sparse \in Legs, NEW leg \in Legs,
         FoundOnce(dense, sparse) = leg,
         \/ dense = leg /\ sparse = <<>>
         \/ dense = <<>> /\ sparse = leg
  PROVE  ReciprocalRankFusion(dense, sparse) = leg
<1> DEFINE n == Len(leg)
<1>1. leg \in Seq(Nat) /\ Distinct(leg) /\ n \in Nat /\ <<>> \in Seq(Nat) /\ Len(<<>>) = 0
  BY FoundIs
<1>2. Distinct(<<>>) /\ Range(<<>>) = {}
  BY <1>1 DEF Distinct, Range
<1>3. ASSUME NEW i \in 1 .. n
      PROVE  Score(dense, sparse, i).num = 1 /\ Score(dense, sparse, i).den = RrfK + i
  <2>1. RankIn(leg, leg[i]) = i /\ RankIn(<<>>, leg[i]) = 0
    BY <1>1, <1>2, RankIs
  <2>2. RankIn(dense, leg[i]) \in Nat /\ RankIn(sparse, leg[i]) \in Nat
    BY <1>1, <1>2, RankIs
  <2>3. /\ RankIn(dense, leg[i]) = 0 \/ RankIn(sparse, leg[i]) = 0
        /\ RrfK + RankIn(dense, leg[i]) + RankIn(sparse, leg[i]) = RrfK + i
    BY <2>1, RrfKIs
  <2>4. /\ FusionScore(dense, sparse, leg[i]).num = 1
        /\ FusionScore(dense, sparse, leg[i]).den = RrfK + i
    BY <2>2, <2>3, ScoreIs
  <2> QED
    BY <2>4 DEF Score
<1>4. \A i, j \in 1 .. n : <<i, j>> \in Above(dense, sparse) <=> i < j
  <2> TAKE i \in 1 .. n, j \in 1 .. n
  <2>1. <<i, j>> \in Above(dense, sparse) <=> Higher(Score(dense, sparse, i), Score(dense, sparse, j))
    BY DEF Above
  <2>2. Higher(Score(dense, sparse, i), Score(dense, sparse, j)) <=> 1 * (RrfK + j) > 1 * (RrfK + i)
    BY <1>3 DEF Higher
  <2>3. 1 * (RrfK + j) > 1 * (RrfK + i) <=> i < j
    BY RrfKIs
  <2> QED
    BY <2>1, <2>2, <2>3
<1>5. Sorted(leg, Above(dense, sparse)) = leg
  BY <1>1, <1>4, SortedSame
<1> QED
  BY <1>5, FusionIs

LEMMA NoLeg == <<>> \in Legs /\ Range(<<>>) = {}
<1>1. <<>> \in Seq(Nat) /\ DOMAIN <<>> = {}
  OBVIOUS
<1> QED
  BY <1>1 DEF Legs, Range

LEMMA DenseAlone == ASSUME NEW leg \in Legs PROVE ReciprocalRankFusion(leg, <<>>) = leg
<1> DEFINE rest == Those(<<>>, Range(<<>>) \ Range(leg))
<1>1. leg \in Seq(Nat) /\ <<>> \in Seq(Nat) /\ Len(<<>>) = 0
  BY DEF Legs
<1>2. rest \in Seq(Nat) /\ Len(rest) <= 0
  BY <1>1, ThosePicked, ThoseIn
<1> HIDE DEF rest
<1>3. rest = <<>>
  BY <1>2
<1>4. leg \o rest = leg
  BY <1>1, <1>3
<1>5. FoundOnce(leg, <<>>) = leg
  BY <1>4 DEF FoundOnce, rest
<1> QED
  BY <1>5, NoLeg, OneLeg

LEMMA SparseAlone == ASSUME NEW leg \in Legs PROVE ReciprocalRankFusion(<<>>, leg) = leg
<1> DEFINE rest == Those(leg, Range(leg) \ Range(<<>>))
<1>1. leg \in Seq(Nat) /\ DOMAIN leg = 1 .. Len(leg)
  BY DEF Legs
<1>2. \A i \in 1 .. Len(leg) : leg[i] \in Range(leg) \ Range(<<>>)
  BY <1>1, NoLeg DEF Range
<1>3. rest = leg
  BY <1>1, <1>2, ThoseAll
<1> HIDE DEF rest
<1>4. <<>> \o rest = leg
  BY <1>1, <1>3
<1>5. FoundOnce(<<>>, leg) = leg
  BY <1>4 DEF FoundOnce, rest
<1> QED
  BY <1>5, NoLeg, OneLeg

\* In what is fused of two short legs, what both found comes first.
LEMMA BothFirst ==
  ASSUME NEW dense \in Legs, NEW sparse \in Legs, Len(dense) < RrfK + 2, Len(sparse) < RrfK + 2,
         NEW i \in 1 .. Len(ReciprocalRankFusion(dense, sparse)),
         NEW j \in 1 .. Len(ReciprocalRankFusion(dense, sparse)),
         ReciprocalRankFusion(dense, sparse)[i] \in Range(dense) \cap Range(sparse),
         ReciprocalRankFusion(dense, sparse)[j] \notin Range(dense) \cap Range(sparse)
  PROVE  i < j
<1> DEFINE found == FoundOnce(dense, sparse)
           fused == ReciprocalRankFusion(dense, sparse)
<1>1. PICK p : Sorts(p, found, Above(dense, sparse), fused)
  BY FusedIs
<1>2. /\ fused \in Seq(Nat) /\ found \in Seq(Nat) /\ Len(fused) = Len(found)
      /\ Range(found) = Range(dense) \cup Range(sparse)
      /\ dense \in Seq(Nat) /\ Distinct(dense) /\ sparse \in Seq(Nat) /\ Distinct(sparse)
  <2>1. fused \in Seq(Nat)
    BY FusedIs DEF Legs
  <2>2. Len(fused) = Len(found)
    BY <1>1 DEF Sorts
  <2> QED
    BY <2>1, <2>2, FoundIs
<1> DEFINE a == p[i]
           b == p[j]
           x == RankIn(dense, found[a])
           y == RankIn(sparse, found[a])
           d == RankIn(dense, found[b])
           s == RankIn(sparse, found[b])
           both == Range(dense) \cap Range(sparse)
<1>3. /\ a \in 1 .. Len(found) /\ b \in 1 .. Len(found)
      /\ fused[i] = found[a] /\ fused[j] = found[b]
  BY <1>1, <1>2 DEF Sorts
<1>4. found[a] \in both /\ found[b] \notin both /\ found[b] \in Range(found)
  <2>1. DOMAIN found = 1 .. Len(found)
    BY <1>2
  <2> HIDE DEF found, fused, a, b
  <2> QED
    BY <1>3, <2>1 DEF Range, found, fused
<1>5. x \in 1 .. Len(dense) /\ y \in 1 .. Len(sparse)
  BY <1>2, <1>4, RankIs
<1>6. d \in Nat /\ s \in Nat /\ (d = 0 \/ s = 0) /\ ~(d = 0 /\ s = 0)
  <2>1. d \in Nat /\ s \in Nat
    BY <1>2, RankIs
  <2>2. found[b] \notin Range(dense) => d = 0
    BY <1>2, RankIs
  <2>3. found[b] \notin Range(sparse) => s = 0
    BY <1>2, RankIs
  <2>4. found[b] \in Range(dense) => d \in 1 .. Len(dense)
    BY <1>2, RankIs
  <2>5. found[b] \in Range(sparse) => s \in 1 .. Len(sparse)
    BY <1>2, RankIs
  <2>6. \/ found[b] \in Range(dense) /\ found[b] \notin Range(sparse)
        \/ found[b] \in Range(sparse) /\ found[b] \notin Range(dense)
    BY <1>2, <1>4
  <2> HIDE DEF d, s, found, b
  <2> QED
    BY <2>1, <2>2, <2>3, <2>4, <2>5, <2>6
<1> DEFINE high == Score(dense, sparse, a)
           low == Score(dense, sparse, b)
<1>7. high.num = (RrfK + x) + (RrfK + y) /\ high.den = (RrfK + x) * (RrfK + y)
  <2>1. x \in Nat /\ y \in Nat
    BY <1>2, RankIs
  <2>2. x # 0 /\ y # 0
    <3> HIDE DEF x, y
    <3> QED
      BY <1>5
  <2> QED
    BY <2>1, <2>2, ScoreIs DEF Score
<1>8. low.num = 1 /\ low.den = RrfK + d + s
  BY <1>6, ScoreIs DEF Score
<1>9. Len(dense) \in Nat /\ Len(sparse) \in Nat
  BY <1>2
<1> HIDE DEF x, y, d, s, high, low
<1>10. ((RrfK + x) + (RrfK + y)) * (RrfK + d + s) > (RrfK + x) * (RrfK + y)
  <2>1. RrfK + x \in RrfK + 1 .. 2 * RrfK + 1 /\ RrfK + y \in RrfK + 1 .. 2 * RrfK + 1
    BY <1>5, <1>9, RrfKIs
  <2>2. RrfK + d + s \in Nat /\ RrfK + d + s >= RrfK + 1
    BY <1>6, RrfKIs
  <2> DEFINE u == RrfK + x
             v == RrfK + y
             z == RrfK + d + s
  <2>3. u \in RrfK + 1 .. 2 * RrfK + 1 /\ v \in RrfK + 1 .. 2 * RrfK + 1 /\ z \in Nat /\ z >= RrfK + 1
    BY <2>1, <2>2
  <2> HIDE DEF u, v, z
  <2>4. (u + v) * z > u * v
    BY <2>3, RrfKIs, TwoAboveOne
  <2> QED
    BY <2>4 DEF u, v, z
<1>11. Higher(high, low) /\ ~Higher(low, high)
  <2> DEFINE u == RrfK + x
             v == RrfK + y
             z == RrfK + d + s
  <2>1. u \in Nat /\ v \in Nat /\ z \in Nat
    BY <1>5, <1>6, <1>9, RrfKIs
  <2>2. high.num = u + v /\ high.den = u * v /\ low.num = 1 /\ low.den = z /\ (u + v) * z > u * v
    BY <1>7, <1>8, <1>10
  <2> HIDE DEF u, v, z
  <2>3. (u + v) * z \in Nat /\ u * v \in Nat /\ 1 * (u * v) = u * v
    BY <2>1
  <2>4. (u + v) * z > 1 * (u * v) /\ ~(1 * (u * v) > (u + v) * z)
    BY <2>2, <2>3
  <2> QED
    BY <2>2, <2>4 DEF Higher
<1>12. <<a, b>> \in Above(dense, sparse) /\ <<b, a>> \notin Above(dense, sparse)
  <2>1. /\ <<a, b>> \in Above(dense, sparse) <=> Higher(Score(dense, sparse, a), Score(dense, sparse, b))
        /\ <<b, a>> \in Above(dense, sparse) <=> Higher(Score(dense, sparse, b), Score(dense, sparse, a))
    BY <1>3 DEF Above
  <2> QED
    BY <1>11, <2>1 DEF high, low
<1>13. <<b, a>> \notin Stably(Above(dense, sparse), Len(found))
  BY <1>3, <1>12, StablyIs
<1>14. ~(j < i)
  <2>1. i \in 1 .. Len(found) /\ j \in 1 .. Len(found)
    BY <1>2
  <2> QED
    BY <1>1, <1>13, <2>1 DEF Sorts
<1>15. i # j
  BY <1>3, <1>4
<1> QED
  BY <1>2, <1>14, <1>15

LEMMA LegsDegradeHolds ==
  ASSUME NEW dense \in Legs, NEW sparse \in Legs, NEW fault
  PROVE  LegsDegrade(dense, sparse, fault) /\ HybridSearch(dense, sparse, fault) \in Legs
<1> DEFINE fused == HybridSearch(dense, sparse, fault)
           d == DenseRows(dense, fault)
           s == SparseRows(sparse, fault)
<1>1. d \in Legs /\ s \in Legs
  BY NoLeg DEF DenseRows, SparseRows
<1>2. fused = ReciprocalRankFusion(d, s)
  BY DEF HybridSearch
<1>3. fused \in Legs
  BY <1>1, <1>2, FusedIs
<1>4. fault = "embedding" => fused = sparse
  BY SparseAlone DEF HybridSearch, DenseRows, SparseRows
<1>5. fault = "sparse" => fused = dense
  BY DenseAlone DEF HybridSearch, DenseRows, SparseRows
<1>6. fault = "dense" => fused = <<>>
  BY DenseAlone, NoLeg DEF HybridSearch, DenseRows, SparseRows
<1>7. fault = "none" => fused = ReciprocalRankFusion(dense, sparse)
  BY DEF HybridSearch, DenseRows, SparseRows
<1>8. fault = "none" => Range(fused) = Range(dense) \cup Range(sparse)
  BY <1>7, FusedIs
<1>9. ASSUME fault = "none", Len(dense) < RrfK + 2, Len(sparse) < RrfK + 2,
             NEW i \in DOMAIN fused, NEW j \in DOMAIN fused,
             fused[i] \in Range(dense) \cap Range(sparse), fused[j] \notin Range(dense) \cap Range(sparse)
      PROVE  i < j
  <2>1. DOMAIN fused = 1 .. Len(fused)
    BY <1>3 DEF Legs
  <2>2. fused = ReciprocalRankFusion(dense, sparse)
    BY <1>7, <1>9
  <2> HIDE DEF fused
  <2> QED
    BY <1>9, <2>1, <2>2, BothFirst
<1> QED
  BY <1>3, <1>4, <1>5, <1>6, <1>8, <1>9 DEF LegsDegrade
-----------------------------------------------------------------------------
(* Reranking. *)

\* The beginning of a sequence.
LEMMA First ==
  ASSUME NEW S, NEW seq \in Seq(S), NEW m \in Nat, m <= Len(seq)
  PROVE  /\ SubSeq(seq, 1, m) \in Seq(S) /\ Len(SubSeq(seq, 1, m)) = m
         /\ \A i \in 1 .. m : SubSeq(seq, 1, m)[i] = seq[i]
<1>1. Len(seq) \in Nat
  OBVIOUS
<1>2. SubSeq(seq, 1, m) = [i \in 1 .. m |-> seq[i]]
  <2>1. m + 1 - 1 = m /\ \A i \in 1 .. m : i + 1 - 1 = i
    OBVIOUS
  <2> QED
    BY <2>1, SMT
<1>3. \A i \in 1 .. m : seq[i] \in S
  BY <1>1
<1>4. SubSeq(seq, 1, m) \in [1 .. m -> S]
  BY <1>2, <1>3
<1>5. SubSeq(seq, 1, m) \in Seq(S) /\ DOMAIN SubSeq(seq, 1, m) = 1 .. m
  BY <1>4
<1> QED
  BY <1>2, <1>5

\* A request that is refused, and one that nothing answers, does not return.
LEMMA NoAnswer ==
  ASSUME NEW replies \in [1 .. HttpMaxRetries -> Replies], NEW reply \in {"ok", "garbled"},
         \/ \A i \in 1 .. HttpMaxRetries : replies[i] \notin {"ok", "garbled"}
         \/ \E i \in 1 .. HttpMaxRetries :
              /\ replies[i] = "refused"
              /\ \A j \in 1 .. i - 1 : replies[j] \notin {"ok", "garbled"}
  PROVE  ~Meets(replies, reply)
<1> SUFFICES ASSUME Meets(replies, reply) PROVE FALSE
  OBVIOUS
<1>1. HttpMaxRetries \in Nat
  BY RetrievalAssumption
<1>2. PICK k \in 1 .. HttpMaxRetries :
        replies[k] = reply /\ \A j \in 1 .. k - 1 : replies[j] \in {"busy", "unreachable"}
  BY DEF Meets
<1>3. PICK i \in 1 .. HttpMaxRetries :
        replies[i] = "refused" /\ \A j \in 1 .. i - 1 : replies[j] \notin {"ok", "garbled"}
  BY <1>2
<1>4. i # k
  BY <1>2, <1>3
<1>5. CASE i < k
  <2>1. i \in 1 .. k - 1
    BY <1>1, <1>5
  <2> QED
    BY <1>2, <1>3, <2>1
<1>6. CASE k < i
  <2>1. k \in 1 .. i - 1
    BY <1>1, <1>6
  <2> QED
    BY <1>2, <1>3, <2>1
<1> QED
  BY <1>1, <1>4, <1>5, <1>6

\* What is garbled is not met after an answer or a refusal.
LEMMA Readable ==
  ASSUME NEW replies \in [1 .. HttpMaxRetries -> Replies],
         \A i \in 1 .. HttpMaxRetries :
           replies[i] = "garbled" => \E j \in 1 .. i - 1 : replies[j] \in {"ok", "refused"}
  PROVE  ~Meets(replies, "garbled")
BY DEF Meets

\* A non-empty set of naturals has a greatest element.
LEMMA GreatestOf ==
  ASSUME NEW N \in Nat, NEW A \in SUBSET (1 .. N), A # {}
  PROVE  Max(A) \in A /\ \A x \in A : x <= Max(A)
<1> DEFINE B == {N + 1 - x : x \in A}
<1>1. B \in SUBSET (1 .. N) /\ B # {}
  <2>1. \A x \in A : N + 1 - x \in 1 .. N
    OBVIOUS
  <2>2. \E x : x \in A
    OBVIOUS
  <2> QED
    BY <2>1, <2>2
<1>2. Min(B) \in B /\ \A y \in B : Min(B) <= y
  <2> HIDE DEF B
  <2> QED
    BY <1>1, LeastOf
<1>3. PICK g \in A : Min(B) = N + 1 - g
  BY <1>2
<1>4. \A x \in A : g >= x
  <2> TAKE x \in A
  <2>1. N + 1 - g <= N + 1 - x
    BY <1>2, <1>3
  <2> QED
    BY <2>1
<1>5. Max(A) \in A /\ \A x \in A : Max(A) >= x
  BY <1>3, <1>4 DEF Max
<1> QED
  BY <1>5

\* Results for some of the first docs documents, best first; an index may be negative.
Ranked(results, docs) ==
  /\ results \in Seq([index : Int, score : Nat])
  /\ \A i \in 1 .. Len(results) : results[i].index < docs
  /\ \A i, j \in 1 .. Len(results) : i < j => results[i].score >= results[j].score

\* The fallback: the first of the fusion, with no score.
Unranked(results, n) == results = [i \in 1 .. n |-> [index |-> i - 1, score |-> 0]]

LEMMA UnrankedIs ==
  ASSUME NEW n \in Nat, NEW docs \in Nat, n <= docs, NEW results, Unranked(results, n)
  PROVE  Ranked(results, docs) /\ Len(results) = n /\ \A count : Once(results, count)
<1>1. \A i \in 1 .. n : [index |-> i - 1, score |-> 0] \in [index : Int, score : Nat]
  OBVIOUS
<1>2. results \in [1 .. n -> [index : Int, score : Nat]]
  BY <1>1 DEF Unranked
<1>3. results \in Seq([index : Int, score : Nat]) /\ DOMAIN results = 1 .. n
  <2> DEFINE E == [index : Int, score : Nat]
  <2>1. results \in [1 .. n -> E]
    BY <1>2
  <2> HIDE DEF E
  <2>2. results \in Seq(E) /\ DOMAIN results = 1 .. n
    BY <2>1
  <2> QED
    BY <2>2 DEF E
<1>4. Len(results) = n
  BY <1>3
<1>5. \A i \in 1 .. n : results[i].index = i - 1 /\ results[i].score = 0
  BY DEF Unranked
<1>6. \A i \in 1 .. n : results[i].index < docs
  BY <1>5
<1>7. ASSUME NEW count PROVE Once(results, count)
  <2>1. \A i \in 1 .. n : Place(results[i].index, count) = i
    BY <1>5 DEF Place
  <2> QED
    BY <1>3, <2>1 DEF Once
<1>8. \A i, j \in 1 .. n : results[i].score >= results[j].score
  BY <1>5
<1> QED
  BY <1>3, <1>4, <1>6, <1>7, <1>8 DEF Ranked

LEMMA RerankIs ==
  ASSUME NEW count \in Nat, NEW topN \in Nat, NEW replies,
         NEW output \in {<<>>} \cup {<<results>> : results \in Results}
  PROVE  LET docs == Min({count, MaxDocuments})
             results == Rerank(count, topN, replies, output)
         IN /\ docs \in Nat /\ docs <= count /\ Min({topN, docs}) \in Nat /\ Min({topN, docs}) <= topN
            /\ Ranked(results, docs) /\ Len(results) <= Min({topN, docs})
            /\ ~PostJson(replies) \/ output = <<>> => Unranked(results, Min({topN, docs}))
            /\ ~PostJson(replies) \/ output = <<>> \/ Once(output[1], count) => Once(results, count)
            /\ \/ ~PostJson(replies) \/ output = <<>>
               \/ \A i \in 1 .. Len(results) : results[i] \in Range(output[1])
<1> DEFINE docs == Min({count, MaxDocuments})
           n == Min({topN, docs})
           results == Rerank(count, topN, replies, output)
<1>1. docs \in Nat /\ docs <= count
  <2>1. MaxDocuments \in Nat
    BY RetrievalAssumption
  <2>2. docs = IF count <= MaxDocuments THEN count ELSE MaxDocuments
    BY <2>1, MinTwo
  <2> HIDE DEF docs
  <2> QED
    BY <2>1, <2>2
<1>2. n \in Nat /\ n <= topN /\ n <= docs
  <2> HIDE DEF docs
  <2>1. n = IF topN <= docs THEN topN ELSE docs
    BY <1>1, MinTwo
  <2> HIDE DEF n
  <2> QED
    BY <1>1, <2>1
<1>3. ~PostJson(replies) \/ output = <<>> => Unranked(results, n)
  BY DEF Rerank, Unranked
<1>4. CASE ~PostJson(replies) \/ output = <<>>
  <2> HIDE DEF docs, n, results
  <2>1. Ranked(results, docs) /\ Len(results) = n /\ Once(results, count)
    BY <1>1, <1>2, <1>3, <1>4, UnrankedIs
  <2> QED
    BY <1>1, <1>2, <1>3, <1>4, <2>1 DEF docs, n, results
<1>5. CASE ~(~PostJson(replies) \/ output = <<>>)
  <2> DEFINE E == [index : Int, score : Nat]
  <2>1. PICK given \in Results : output = <<given>>
    BY <1>5
  <2>2. given \in Seq(E) /\ DOMAIN given = 1 .. Len(given) /\ output[1] = given
    BY <2>1 DEF Results
  <2> DEFINE inside == {r \in Range(given) : r.index < docs}
             known == Those(given, inside)
             above == {pair \in (DOMAIN known) \X (DOMAIN known) :
                         known[pair[1]].score > known[pair[2]].score}
             best == Sorted(known, above)
             m == Min({n, Len(best)})
  <2>3. results = SubSeq(best, 1, m)
    <3>1. output[1] = given /\ ~(~PostJson(replies) \/ output = <<>>)
      BY <1>5, <2>1
    <3> QED
      BY <3>1 DEF Rerank
  <2> HIDE DEF docs, n, results, inside
  <2>4. known \in Seq(E) /\ \E q : Picked(given, inside, Len(given), known, q)
    BY <2>2, ThosePicked
  <2> HIDE DEF E
  <2>5. PICK q : Picked(given, inside, Len(given), known, q)
    BY <2>4
  <2>6. \A k \in 1 .. Len(known) : known[k] \in inside /\ known[k] = given[q[k]] /\ q[k] \in 1 .. Len(given)
    BY <2>5 DEF Picked
  <2> DEFINE at(r) == Place(r.index, count)
  <2>7. ASSUME Once(given, count),
               NEW i \in 1 .. Len(known), NEW j \in 1 .. Len(known), at(known[i]) = at(known[j])
        PROVE  i = j
    <3>1. q[i] = q[j]
      BY <2>2, <2>6, <2>7 DEF Once
    <3>2. (i < j => q[i] < q[j]) /\ (j < i => q[j] < q[i])
      BY <2>5 DEF Picked
    <3>3. q[i] \in Nat
      BY <2>6
    <3>4. ~(i < j) /\ ~(j < i)
      BY <3>1, <3>2, <3>3
    <3> QED
      BY <3>4
  <2> HIDE DEF known
  <2>8. DOMAIN known = 1 .. Len(known) /\ \A k \in 1 .. Len(known) : known[k] \in E
    BY <2>4
  <2>9. \A i, j \in 1 .. Len(known) : <<i, j>> \in above <=> known[i].score > known[j].score
    BY <2>8
  <2>10. \A k \in 1 .. Len(known) : known[k].score \in Nat /\ known[k].index < docs
    BY <2>6, <2>8 DEF E, inside
  <2> HIDE DEF above
  <2>11. Compares(above, Len(known))
    <3>1. \A i \in 1 .. Len(known) : <<i, i>> \notin above
      BY <2>9, <2>10
    <3>2. ASSUME NEW i \in 1 .. Len(known), NEW j \in 1 .. Len(known), NEW k \in 1 .. Len(known)
          PROVE  /\ <<i, j>> \in above /\ <<j, k>> \in above => <<i, k>> \in above
                 /\ <<i, j>> \notin above /\ <<j, k>> \notin above => <<i, k>> \notin above
      <4>1. known[i].score \in Nat /\ known[j].score \in Nat /\ known[k].score \in Nat
        BY <2>10
      <4>2. /\ <<i, j>> \in above <=> known[i].score > known[j].score
            /\ <<j, k>> \in above <=> known[j].score > known[k].score
            /\ <<i, k>> \in above <=> known[i].score > known[k].score
        BY <2>9
      <4> DEFINE x == known[i].score
                 y == known[j].score
                 z == known[k].score
      <4>3. x \in Nat /\ y \in Nat /\ z \in Nat
        BY <4>1
      <4>4. /\ <<i, j>> \in above <=> x > y
            /\ <<j, k>> \in above <=> y > z
            /\ <<i, k>> \in above <=> x > z
        BY <4>2
      <4> HIDE DEF x, y, z
      <4>5. (x > y /\ y > z => x > z) /\ (~(x > y) /\ ~(y > z) => ~(x > z))
        BY <4>3
      <4> QED
        BY <4>4, <4>5
    <3> QED
      BY <3>1, <3>2 DEF Compares
  <2>12. best \in Seq(E) /\ \E p : Sorts(p, known, above, best)
    BY <2>4, <2>11, SortedIs
  <2> HIDE DEF best
  <2>13. PICK p : Sorts(p, known, above, best)
    BY <2>12
  <2>14. \A k \in 1 .. Len(best) : p[k] \in 1 .. Len(known) /\ best[k] = known[p[k]]
    BY <2>13 DEF Sorts
  <2>15. ASSUME NEW i \in 1 .. Len(best), NEW j \in 1 .. Len(best)
         PROVE  /\ best[i].index < docs
                /\ Once(given, count) /\ at(best[i]) = at(best[j]) => i = j
                /\ i < j => best[i].score >= best[j].score
    <3>1. p[i] \in 1 .. Len(known) /\ p[j] \in 1 .. Len(known) /\ best[i] = known[p[i]] /\ best[j] = known[p[j]]
      BY <2>14
    <3>2. best[i].index < docs
      BY <2>10, <3>1
    <3>3. i < j => p[i] # p[j] /\ <<p[i], p[j]>> \in Stably(above, Len(known))
      BY <2>13 DEF Sorts
    <3>4. j < i => p[i] # p[j]
      BY <2>13 DEF Sorts
    <3>5. Once(given, count) /\ at(best[i]) = at(best[j]) => p[i] = p[j]
      BY <2>7, <3>1
    <3>6. i < j => <<p[j], p[i]>> \notin above
      <4>1. i < j => <<p[i], p[j]>> \in above \/ <<p[j], p[i]>> \notin above
        BY <3>1, <3>3, StablyIs
      <4>2. ~(<<p[i], p[j]>> \in above /\ <<p[j], p[i]>> \in above)
        <5>1. known[p[i]].score \in Nat /\ known[p[j]].score \in Nat
          BY <2>10, <3>1
        <5> QED
          BY <2>9, <3>1, <5>1, SMTT(20)
      <4> QED
        BY <4>1, <4>2
    <3>7. known[p[i]].score \in Nat /\ known[p[j]].score \in Nat
      BY <2>10, <3>1
    <3>8. i < j => best[i].score >= best[j].score
      <4>1. i < j => ~(known[p[j]].score > known[p[i]].score)
        BY <2>9, <3>1, <3>6
      <4> QED
        BY <3>1, <3>7, <4>1
    <3>9. i = j \/ i < j \/ j < i
      OBVIOUS
    <3> QED
      BY <3>2, <3>3, <3>4, <3>5, <3>8, <3>9
  <2>16. m \in Nat /\ m <= n /\ m <= Len(best)
    <3>1. Len(best) \in Nat
      BY <2>12
    <3> QED
      BY <1>2, <3>1, MinTwo
  <2> HIDE DEF m
  <2>17. results \in Seq(E) /\ Len(results) = m /\ \A i \in 1 .. m : results[i] = best[i]
    BY <2>3, <2>12, <2>16, First
  <2>18. \A i \in 1 .. m : i \in 1 .. Len(best)
    <3>1. Len(best) \in Nat
      BY <2>12
    <3> QED
      BY <2>16, <3>1
  <2>19. /\ \A i \in 1 .. m : results[i].index < docs
         /\ \A i, j \in 1 .. m : Once(given, count) /\ at(results[i]) = at(results[j]) => i = j
         /\ \A i, j \in 1 .. m : i < j => results[i].score >= results[j].score
    BY <2>15, <2>17, <2>18
  <2>20. Ranked(results, docs)
    BY <2>17, <2>19 DEF Ranked, E
  <2>21. Len(results) <= n
    BY <2>16, <2>17
  <2>22. Once(given, count) => Once(results, count)
    <3>1. DOMAIN results = 1 .. m
      BY <2>17
    <3> QED
      BY <2>19, <3>1 DEF Once
  <2>23. \A i \in 1 .. Len(results) : results[i] \in Range(given)
    <3> TAKE i \in 1 .. Len(results)
    <3>1. i \in 1 .. Len(best) /\ results[i] = best[i]
      BY <2>17, <2>18
    <3>2. results[i] = given[q[p[i]]] /\ q[p[i]] \in 1 .. Len(given)
      BY <2>6, <2>14, <3>1
    <3> QED
      BY <2>2, <3>2 DEF Range
  <2> QED
    BY <1>1, <1>2, <1>5, <2>2, <2>20, <2>21, <2>22, <2>23 DEF docs, n, results
<1> QED
  BY <1>4, <1>5

\* Passages with their scores: no passage twice, best first.
Scored(ranked) ==
  /\ ranked \in Seq([chunk : Nat, score : Nat])
  /\ \A i, j \in 1 .. Len(ranked) :
       i < j => ranked[i].chunk # ranked[j].chunk /\ ranked[i].score >= ranked[j].score

\* A weak one only where no strong one is.
WeakAlone(found) ==
  \A i, j \in 1 .. Len(found) :
    found[j].score < MinRerankScore => found[i].score < MinRerankScore

LEMMA CutIs ==
  ASSUME NEW topN \in Nat, NEW ranked \in Seq([chunk : Nat, score : Nat]), Len(ranked) <= topN
  PROVE  LET found == Cut(ranked, topN)
         IN /\ found \in Seq([chunk : Nat, score : Nat]) /\ Len(found) <= topN /\ WeakAlone(found)
            /\ Scored(ranked) => Scored(found)
            /\ \A k \in 1 .. Len(found) : \E i \in 1 .. Len(ranked) : found[k] = ranked[i]
            /\ (\A i \in 1 .. Len(ranked) : ranked[i].score = 0) => found = ranked
<1> DEFINE V == [chunk : Nat, score : Nat]
           strong == Those(ranked, {r \in Range(ranked) : r.score >= MinRerankScore})
           found == Cut(ranked, topN)
           pass == (\E r \in Range(ranked) : r.score # 0) /\ strong # <<>>
<1>1. ranked \in Seq(V) /\ Len(ranked) \in Nat /\ DOMAIN ranked = 1 .. Len(ranked)
  OBVIOUS
<1>2. MinRerankScore \in Nat
  BY RetrievalAssumption
<1>3. \A i \in 1 .. Len(ranked) : ranked[i] \in V /\ ranked[i] \in Range(ranked) /\ ranked[i].score \in Nat
  <2>1. \A i \in 1 .. Len(ranked) : ranked[i] \in V /\ ranked[i] \in Range(ranked)
    <3> HIDE DEF V
    <3> QED
      BY <1>1 DEF Range
  <2> QED
    BY <2>1
<1>4. found = IF pass THEN strong ELSE SubSeq(ranked, 1, Min({topN, Len(ranked)}))
  BY DEF Cut
<1>5. SubSeq(ranked, 1, Min({topN, Len(ranked)})) = ranked
  <2> DEFINE m == Min({topN, Len(ranked)})
             t == SubSeq(ranked, 1, m)
  <2> HIDE DEF V
  <2>1. m = Len(ranked)
    BY <1>1, MinTwo
  <2>2. t \in Seq(V) /\ Len(t) = Len(ranked) /\ \A i \in 1 .. Len(ranked) : t[i] = ranked[i]
    <3> HIDE DEF m
    <3> QED
      BY <1>1, <2>1, First
  <2> HIDE DEF t
  <2>3. t = ranked
    BY <1>1, <2>2
  <2> QED
    BY <2>3 DEF t
<1>6. CASE pass
  <2> DEFINE T == {r \in Range(ranked) : r.score >= MinRerankScore}
  <2>1. strong \in Seq(V) /\ \E q : Picked(ranked, T, Len(ranked), strong, q)
    <3> HIDE DEF V, T
    <3>1. Those(ranked, T) \in Seq(V) /\ \E q : Picked(ranked, T, Len(ranked), Those(ranked, T), q)
      BY <1>1, ThosePicked
    <3> QED
      BY <3>1 DEF T
  <2>2. Len(strong) <= Len(ranked)
    <3> HIDE DEF V, T
    <3>1. Len(Those(ranked, T)) <= Len(ranked)
      BY <1>1, ThoseIn
    <3> QED
      BY <3>1 DEF T
  <2> HIDE DEF strong
  <2>3. PICK q : Picked(ranked, T, Len(ranked), strong, q)
    BY <2>1
  <2>4. \A k \in 1 .. Len(strong) : q[k] \in 1 .. Len(ranked) /\ strong[k] = ranked[q[k]] /\ strong[k] \in T
    BY <2>3 DEF Picked
  <2>5. \A k \in 1 .. Len(strong) : strong[k].score >= MinRerankScore /\ strong[k].score \in Nat
    <3> TAKE k \in 1 .. Len(strong)
    <3>1. strong[k].score >= MinRerankScore
      BY <2>4
    <3>2. strong[k].score \in Nat
      BY <1>3, <2>4
    <3> QED
      BY <3>1, <3>2
  <2>6. ASSUME Scored(ranked), NEW i \in 1 .. Len(strong), NEW j \in 1 .. Len(strong), i < j
        PROVE  strong[i].chunk # strong[j].chunk /\ strong[i].score >= strong[j].score
    <3>1. q[i] < q[j]
      BY <2>3, <2>6 DEF Picked
    <3>2. q[i] \in 1 .. Len(ranked) /\ q[j] \in 1 .. Len(ranked)
      BY <2>4
    <3>3. ranked[q[i]].chunk # ranked[q[j]].chunk /\ ranked[q[i]].score >= ranked[q[j]].score
      BY <2>6, <3>1, <3>2 DEF Scored
    <3> QED
      BY <2>4, <3>3
  <2>7. strong \in Seq([chunk : Nat, score : Nat]) /\ (Scored(ranked) => Scored(strong))
    BY <2>1, <2>6 DEF Scored
  <2>8. WeakAlone(strong)
    <3>1. ASSUME NEW j \in 1 .. Len(strong) PROVE ~(strong[j].score < MinRerankScore)
      <4> DEFINE x == strong[j].score
      <4>1. x >= MinRerankScore /\ x \in Nat
        BY <2>5
      <4> HIDE DEF x
      <4>2. ~(x < MinRerankScore)
        BY <1>2, <4>1
      <4> QED
        BY <4>2 DEF x
    <3> QED
      BY <3>1 DEF WeakAlone
  <2>9. Len(strong) <= topN
    <3>1. Len(strong) \in Nat
      BY <2>1
    <3> QED
      BY <1>1, <2>2, <3>1
  <2>10. ~(\A i \in 1 .. Len(ranked) : ranked[i].score = 0)
    <3>1. PICK r \in Range(ranked) : r.score # 0
      BY <1>6
    <3>2. PICK i \in 1 .. Len(ranked) : ranked[i] = r
      BY <1>1 DEF Range
    <3> QED
      BY <3>1, <3>2
  <2>11. found = strong
    BY <1>4, <1>6
  <2>12. \A k \in 1 .. Len(strong) : \E i \in 1 .. Len(ranked) : strong[k] = ranked[i]
    BY <2>4
  <2> HIDE DEF found
  <2> QED
    BY <2>7, <2>8, <2>9, <2>10, <2>11, <2>12 DEF found
<1>7. CASE ~pass
  <2>1. found = ranked
    BY <1>4, <1>5, <1>7
  <2>2. WeakAlone(ranked)
    <3>1. CASE \A r \in Range(ranked) : r.score = 0
      <4>1. \A i \in 1 .. Len(ranked) : ranked[i].score = 0
        BY <1>3, <3>1
      <4> QED
        BY <4>1 DEF WeakAlone
    <3>2. CASE strong = <<>>
      <4>1. ASSUME NEW i \in 1 .. Len(ranked) PROVE ranked[i].score < MinRerankScore
        <5> DEFINE T == {r \in Range(ranked) : r.score >= MinRerankScore}
                   x == ranked[i].score
        <5>1. ranked[i] \notin T
          <6> HIDE DEF V, T
          <6>1. ranked[i] \in T => \E k \in 1 .. Len(Those(ranked, T)) : Those(ranked, T)[k] = ranked[i]
            BY <1>1, ThoseIn
          <6>2. Those(ranked, T) = <<>> /\ Len(<<>>) = 0 /\ 1 .. 0 = {}
            BY <3>2 DEF T
          <6> QED
            BY <6>1, <6>2
        <5>2. ~(x >= MinRerankScore) /\ x \in Nat
          BY <1>3, <5>1
        <5> HIDE DEF x
        <5>3. x < MinRerankScore
          BY <1>2, <5>2
        <5> QED
          BY <5>3 DEF x
      <4> QED
        BY <4>1 DEF WeakAlone
    <3> QED
      BY <1>7, <3>1, <3>2
  <2> HIDE DEF found
  <2> QED
    BY <1>1, <2>1, <2>2 DEF found
<1> QED
  BY <1>6, <1>7

\* The results name candidates, which come once and best first if the results do.
LEMMA TakenIs ==
  ASSUME NEW fused \in Seq(Nat), NEW docs \in Nat, docs <= Len(fused),
         NEW results, Ranked(results, docs),
         \A i \in 1 .. Len(results) : Place(results[i].index, Len(fused)) >= 1
  PROVE  LET ranked == Collected(fused, results)
         IN /\ ranked \in Seq([chunk : Nat, score : Nat]) /\ Len(ranked) = Len(results)
            /\ \A i \in 1 .. Len(results) :
                 /\ Place(results[i].index, Len(fused)) \in 1 .. Len(fused)
                 /\ ranked[i].chunk = fused[Place(results[i].index, Len(fused))]
            /\ Once(results, Len(fused)) =>
                 \A i \in 1 .. Len(results) : ranked[i].score = results[i].score
<1> DEFINE E == [index : Int, score : Nat]
           V == [chunk : Nat, score : Nat]
           count == Len(fused)
           place(i) == Place(results[i].index, count)
           same(i) == {k \in DOMAIN results : place(k) = place(i)}
           last(i) == Max(same(i))
           ranked == Collected(fused, results)
<1>1. results \in Seq(E) /\ DOMAIN results = 1 .. Len(results) /\ Len(results) \in Nat
  <2>1. results \in Seq(E)
    BY DEF Ranked
  <2> HIDE DEF E
  <2> QED
    BY <2>1
<1>2. ASSUME NEW i \in 1 .. Len(results)
      PROVE  results[i].index \in Int /\ results[i].score \in Nat /\ results[i].index < docs
  <2>1. results[i] \in E
    <3> HIDE DEF E
    <3> QED
      BY <1>1
  <2> QED
    BY <2>1 DEF Ranked
<1>3. count \in Nat /\ DOMAIN fused = 1 .. count /\ docs <= count
  OBVIOUS
<1>4. ASSUME NEW i \in 1 .. Len(results) PROVE place(i) \in 1 .. count
  <2> DEFINE x == results[i].index
  <2>1. x \in Int /\ x < docs /\ Place(x, count) >= 1
    BY <1>2
  <2> HIDE DEF x, count
  <2>2. Place(x, count) \in 1 .. count
    BY <1>3, <2>1 DEF Place
  <2> QED
    BY <2>2 DEF x
<1> HIDE DEF place
<1>5. ASSUME NEW i \in 1 .. Len(results)
      PROVE  last(i) \in 1 .. Len(results) /\ place(last(i)) = place(i)
  <2>1. same(i) \in SUBSET (1 .. Len(results)) /\ same(i) # {}
    BY <1>1
  <2>2. last(i) \in same(i)
    <3> HIDE DEF same
    <3> QED
      BY <1>1, <2>1, GreatestOf
  <2> QED
    BY <1>1, <2>2
<1> HIDE DEF last
<1>6. ranked = [i \in 1 .. Len(results) |-> [chunk |-> fused[place(i)], score |-> results[last(i)].score]]
  BY <1>1 DEF Collected, last, place
<1> HIDE DEF ranked, count
<1>7. ASSUME NEW i \in 1 .. Len(results)
      PROVE  [chunk |-> fused[place(i)], score |-> results[last(i)].score] \in V
  <2>1. fused[place(i)] \in Nat
    BY <1>3, <1>4
  <2>2. results[last(i)].score \in Nat
    BY <1>2, <1>5
  <2> QED
    BY <2>1, <2>2
<1>8. ranked \in Seq(V) /\ Len(ranked) = Len(results)
  <2> HIDE DEF V
  <2>1. ranked \in [1 .. Len(results) -> V]
    BY <1>6, <1>7
  <2> DEFINE m == Len(results)
  <2>2. m \in Nat /\ ranked \in [1 .. m -> V]
    BY <1>1, <2>1
  <2> HIDE DEF m
  <2>3. ranked \in Seq(V) /\ Len(ranked) = m
    BY <2>2
  <2> QED
    BY <2>3 DEF m, V
<1>9. ASSUME NEW i \in 1 .. Len(results)
      PROVE  ranked[i].chunk = fused[place(i)] /\ ranked[i].score = results[last(i)].score
  BY <1>6
<1>10. ASSUME Once(results, count), NEW i \in 1 .. Len(results) PROVE last(i) = i
  BY <1>1, <1>5, <1>10 DEF Once, place
<1> QED
  BY <1>4, <1>8, <1>9, <1>10 DEF ranked, place, count

\* What the search gives when it does not raise.
Gives(dense, sparse, fault, topN, replies, output) ==
  LET fused == HybridSearch(dense, sparse, fault)
      found == Retrieve(dense, sparse, fault, topN, replies, output)[1]
      lost == ~PostJson(replies) \/ output = <<>>
  IN /\ found \in Seq([chunk : Nat, score : Nat]) /\ Len(found) <= topN /\ WeakAlone(found)
     /\ \A k \in 1 .. Len(found) : found[k].chunk \in Range(fused)
     /\ lost \/ Once(output[1], Len(fused)) => Scored(found)
     /\ lost => Chunks(found) = SubSeq(fused, 1, Min({topN, MaxDocuments, Len(fused)}))

LEMMA RetrieveIs ==
  ASSUME NEW dense \in Legs, NEW sparse \in Legs, NEW fault, NEW topN \in Nat \ {0}, NEW replies,
         NEW output \in {<<>>} \cup {<<results>> : results \in Results},
         Retrieve(dense, sparse, fault, topN, replies, output) # <<>>
  PROVE  Gives(dense, sparse, fault, topN, replies, output)
<1> DEFINE fused == HybridSearch(dense, sparse, fault)
           answer == Retrieve(dense, sparse, fault, topN, replies, output)
           found == answer[1]
           count == Len(fused)
           docs == Min({count, MaxDocuments})
           n == Min({topN, docs})
           results == Rerank(count, topN, replies, output)
           ranked == Collected(fused, results)
           lost == ~PostJson(replies) \/ output = <<>>
           least == Min({topN, MaxDocuments, count})
           once == Once(output[1], count)
<1>1. fused \in Seq(Nat) /\ count \in Nat /\ DOMAIN fused = 1 .. count /\ Distinct(fused)
  <2>1. fused \in Legs
    BY LegsDegradeHolds
  <2> HIDE DEF fused
  <2> QED
    BY <2>1 DEF Legs, Distinct
<1>2. /\ docs \in Nat /\ docs <= count /\ n \in Nat /\ n <= topN
      /\ Ranked(results, docs) /\ Len(results) <= n
      /\ lost => Unranked(results, n)
      /\ lost \/ once => Once(results, count)
  <2> HIDE DEF fused, count
  <2> QED
    BY <1>1, RerankIs
<1>3. count # 0 => ~Raises(count, replies, results) /\ found = Cut(ranked, topN)
  <2>1. count # 0 => fused # <<>>
    OBVIOUS
  <2> QED
    BY <2>1 DEF Retrieve
<1>4. count = 0 => found = <<>> /\ fused = <<>>
  <2>1. count = 0 => fused = <<>>
    <3> HIDE DEF fused
    <3> QED
      BY <1>1
  <2> QED
    BY <2>1 DEF Retrieve
<1>5. n = least
  <2>1. MaxDocuments \in Nat
    BY RetrievalAssumption
  <2> HIDE DEF fused, count
  <2>2. docs = IF count <= MaxDocuments THEN count ELSE MaxDocuments
    BY <1>1, <2>1, MinTwo
  <2> HIDE DEF docs
  <2>3. n = IF topN <= docs THEN topN ELSE docs
    <3>1. topN \in Int /\ docs \in Int
      BY <1>2
    <3> QED
      BY <3>1, MinTwo
  <2> HIDE DEF n
  <2> DEFINE T == {topN, MaxDocuments, count}
  <2>4. n \in T /\ \A x \in T : n <= x
    BY <1>1, <2>1, <2>2, <2>3
  <2>5. \A x, y \in T : x <= y /\ y <= x => x = y
    BY <1>1, <2>1
  <2>6. Min(T) \in T /\ \A x \in T : Min(T) <= x
    <3> HIDE DEF T
    <3> QED
      BY <2>4 DEF Min
  <2> HIDE DEF T
  <2>7. n = Min(T)
    BY <2>4, <2>5, <2>6
  <2> QED
    BY <2>7 DEF T
<1> HIDE DEF fused, results, answer
<1>6. results \in Seq([index : Int, score : Nat]) /\ DOMAIN results = 1 .. Len(results) /\ Len(results) \in Nat
  <2> DEFINE E == [index : Int, score : Nat]
  <2>1. results \in Seq(E)
    BY <1>2 DEF Ranked
  <2> HIDE DEF E
  <2>2. DOMAIN results = 1 .. Len(results) /\ Len(results) \in Nat
    BY <2>1
  <2> QED
    BY <2>1, <2>2 DEF E
<1>7. ASSUME count # 0
      PROVE  /\ ranked \in Seq([chunk : Nat, score : Nat]) /\ Len(ranked) = Len(results)
             /\ \A i \in 1 .. Len(results) :
                  /\ Place(results[i].index, count) \in 1 .. count
                  /\ ranked[i].chunk = fused[Place(results[i].index, count)]
             /\ Once(results, count) => \A i \in 1 .. Len(results) : ranked[i].score = results[i].score
  <2>1. ASSUME NEW i \in 1 .. Len(results) PROVE Place(results[i].index, count) >= 1
    <3>1. ~(Place(results[i].index, count) < 1)
      <4>1. results[i] \in Range(results)
        BY <1>6 DEF Range
      <4> QED
        BY <1>3, <1>7, <4>1 DEF Raises
    <3>2. Place(results[i].index, count) \in Int
      <4> DEFINE E == [index : Int, score : Nat]
      <4>1. results[i] \in E
        <5>1. results \in Seq(E)
          BY <1>6
        <5> HIDE DEF E
        <5> QED
          BY <5>1
      <4> DEFINE x == results[i].index
      <4>2. x \in Int
        BY <4>1
      <4> HIDE DEF x, count
      <4>3. Place(x, count) \in Int
        BY <1>1, <4>2 DEF Place
      <4> QED
        BY <4>3 DEF x
    <3> DEFINE y == Place(results[i].index, count)
    <3>3. y \in Int /\ ~(y < 1)
      BY <3>1, <3>2
    <3> HIDE DEF y
    <3>4. y >= 1
      BY <3>3
    <3> QED
      BY <3>4 DEF y
  <2> HIDE DEF docs, n
  <2> QED
    BY <1>1, <1>2, <2>1, TakenIs
<1> HIDE DEF ranked
<1>8. ASSUME count # 0, Once(results, count) PROVE Scored(ranked)
  <2> SUFFICES ASSUME NEW i \in 1 .. Len(ranked), NEW j \in 1 .. Len(ranked), i < j
               PROVE  ranked[i].chunk # ranked[j].chunk /\ ranked[i].score >= ranked[j].score
    BY <1>7, <1>8 DEF Scored
  <2>1. i \in 1 .. Len(results) /\ j \in 1 .. Len(results)
    BY <1>7, <1>8
  <2> DEFINE x == Place(results[i].index, count)
             y == Place(results[j].index, count)
  <2>2. x # y
    <3>1. i # j
      OBVIOUS
    <3>2. i \in DOMAIN results /\ j \in DOMAIN results
      BY <1>6, <2>1
    <3> QED
      BY <1>8, <3>1, <3>2 DEF Once
  <2>3. x \in 1 .. count /\ y \in 1 .. count /\ ranked[i].chunk = fused[x] /\ ranked[j].chunk = fused[y]
    BY <1>7, <1>8, <2>1
  <2> HIDE DEF x, y
  <2>4. fused[x] # fused[y]
    BY <1>1, <2>2, <2>3 DEF Distinct
  <2>5. ranked[i].score = results[i].score /\ ranked[j].score = results[j].score
    BY <1>7, <1>8, <2>1
  <2>6. results[i].score >= results[j].score
    BY <1>2, <2>1 DEF Ranked
  <2> QED
    BY <2>3, <2>4, <2>5, <2>6
<1>9. count # 0 => Len(ranked) <= topN
  <2> HIDE DEF n
  <2> QED
    BY <1>2, <1>6, <1>7
<1>10. count # 0 =>
         /\ found \in Seq([chunk : Nat, score : Nat]) /\ Len(found) <= topN /\ WeakAlone(found)
         /\ Scored(ranked) => Scored(found)
         /\ \A k \in 1 .. Len(found) : \E i \in 1 .. Len(ranked) : found[k] = ranked[i]
         /\ (\A i \in 1 .. Len(ranked) : ranked[i].score = 0) => found = ranked
  <2> SUFFICES ASSUME count # 0
               PROVE  /\ found \in Seq([chunk : Nat, score : Nat]) /\ Len(found) <= topN /\ WeakAlone(found)
                      /\ Scored(ranked) => Scored(found)
                      /\ \A k \in 1 .. Len(found) : \E i \in 1 .. Len(ranked) : found[k] = ranked[i]
                      /\ (\A i \in 1 .. Len(ranked) : ranked[i].score = 0) => found = ranked
    OBVIOUS
  <2> HIDE DEF found, count
  <2>1. ranked \in Seq([chunk : Nat, score : Nat]) /\ Len(ranked) <= topN /\ found = Cut(ranked, topN)
    BY <1>3, <1>7, <1>9
  <2> QED
    BY <2>1, CutIs
<1> HIDE DEF found
<1>11. /\ found \in Seq([chunk : Nat, score : Nat]) /\ Len(found) <= topN /\ WeakAlone(found)
       /\ lost \/ once => Scored(found)
       /\ DOMAIN found = 1 .. Len(found)
  <2>1. CASE count # 0
    <3>1. found \in Seq([chunk : Nat, score : Nat]) /\ Len(found) <= topN /\ WeakAlone(found)
      BY <1>10, <2>1
    <3>2. lost \/ once => Scored(found)
      BY <1>2, <1>8, <1>10, <2>1
    <3> DEFINE V == [chunk : Nat, score : Nat]
    <3>3. found \in Seq(V)
      BY <3>1
    <3> HIDE DEF V
    <3>4. DOMAIN found = 1 .. Len(found)
      BY <3>3
    <3> QED
      BY <3>1, <3>2, <3>4
  <2>2. CASE count = 0
    <3>1. found = <<>> /\ <<>> \in Seq([chunk : Nat, score : Nat]) /\ Len(<<>>) = 0 /\ DOMAIN <<>> = {} /\ 1 .. 0 = {}
      BY <1>4, <2>2
    <3>2. 0 <= topN
      OBVIOUS
    <3> QED
      BY <3>1, <3>2 DEF Scored, WeakAlone
  <2> QED
    BY <2>1, <2>2
<1>12. /\ DOMAIN Chunks(found) = 1 .. Len(found)
       /\ \A k \in 1 .. Len(found) : Chunks(found)[k] = found[k].chunk
  BY <1>11 DEF Chunks
<1>13. \A k \in 1 .. Len(found) : found[k].chunk \in Range(fused)
  <2> SUFFICES ASSUME NEW k \in 1 .. Len(found) PROVE found[k].chunk \in Range(fused)
    OBVIOUS
  <2>1. count # 0
    <3>1. count = 0 => Len(found) = 0
      BY <1>4
    <3> QED
      BY <3>1
  <2>2. PICK i \in 1 .. Len(ranked) : found[k] = ranked[i]
    BY <1>10, <2>1
  <2>3. \E x \in 1 .. count : found[k].chunk = fused[x]
    BY <1>7, <2>1, <2>2
  <2> QED
    BY <1>1, <2>3 DEF Range
<1>14. lost => Chunks(found) = SubSeq(fused, 1, least)
  <2> SUFFICES ASSUME lost PROVE Chunks(found) = SubSeq(fused, 1, n)
    BY <1>5
  <2>1. Unranked(results, n) /\ n \in Nat /\ n <= count
    <3>1. n <= docs
      <4> HIDE DEF docs
      <4> QED
        BY <1>2, MinTwo
    <3> HIDE DEF n, docs
    <3> QED
      BY <1>1, <1>2, <3>1
  <2> HIDE DEF n, docs
  <2>2. Len(results) = n /\ \A i \in 1 .. n : results[i].index = i - 1 /\ results[i].score = 0
    <3>1. Len(results) = n
      BY <1>2, <2>1, UnrankedIs
    <3> QED
      BY <2>1, <3>1 DEF Unranked
  <2>3. count # 0 => \A i \in 1 .. n : ranked[i].chunk = fused[i] /\ ranked[i].score = 0
    <3> SUFFICES ASSUME count # 0, NEW i \in 1 .. n
                 PROVE  ranked[i].chunk = fused[i] /\ ranked[i].score = 0
      OBVIOUS
    <3>1. Place(results[i].index, count) = i
      BY <2>1, <2>2 DEF Place
    <3>2. Once(results, count)
      BY <1>2
    <3> QED
      BY <1>7, <2>2, <3>1, <3>2
  <2>4. Len(found) = n /\ \A k \in 1 .. n : found[k].chunk = fused[k]
    <3>1. CASE count # 0
      <4>1. Len(ranked) = n
        BY <1>7, <2>2, <3>1
      <4>2. found = ranked
        BY <1>10, <2>3, <3>1, <4>1
      <4> QED
        BY <2>3, <3>1, <4>1, <4>2
    <3>2. CASE count = 0
      <4>1. n = 0 /\ Len(<<>>) = 0 /\ found = <<>>
        BY <1>4, <2>1, <3>2
      <4> QED
        BY <4>1
    <3> QED
      BY <3>1, <3>2
  <2> DEFINE t == SubSeq(fused, 1, n)
  <2>5. t \in Seq(Nat) /\ Len(t) = n /\ \A i \in 1 .. n : t[i] = fused[i]
    BY <1>1, <2>1, First
  <2>6. DOMAIN t = 1 .. n
    <3> HIDE DEF t
    <3> QED
      BY <2>5
  <2>7. \A k \in 1 .. n : Chunks(found)[k] = t[k]
    BY <1>12, <2>4, <2>5
  <2>8. Chunks(found) = [k \in 1 .. n |-> Chunks(found)[k]]
    BY <1>11, <2>4 DEF Chunks
  <2>9. t = [k \in 1 .. n |-> t[k]]
    <3> HIDE DEF t
    <3> QED
      BY <2>5, <2>6
  <2> HIDE DEF t
  <2>10. Chunks(found) = t
    BY <2>7, <2>8, <2>9
  <2> QED
    BY <2>10 DEF t
<1> QED
  BY <1>11, <1>13, <1>14 DEF Gives, fused, found, answer, least, lost, once, count

LEMMA RerankDegradesHolds ==
  ASSUME NEW dense \in Legs, NEW sparse \in Legs, NEW fault, NEW topN \in Nat \ {0},
         NEW replies \in [1 .. HttpMaxRetries -> Replies],
         NEW output \in {<<>>} \cup {<<results>> : results \in Results}
  PROVE  RerankDegrades(dense, sparse, fault, topN, replies, output)
<1> DEFINE fused == HybridSearch(dense, sparse, fault)
           answer == Retrieve(dense, sparse, fault, topN, replies, output)
           found == answer[1]
           count == Len(fused)
           results == Rerank(count, topN, replies, output)
           lost == ~PostJson(replies) \/ output = <<>>
           readable == \A i \in 1 .. HttpMaxRetries :
                         replies[i] = "garbled" => \E j \in 1 .. i - 1 : replies[j] \in {"ok", "refused"}
           without == \/ \A i \in 1 .. HttpMaxRetries : replies[i] \notin {"ok", "garbled"}
                      \/ \E i \in 1 .. HttpMaxRetries :
                           /\ replies[i] = "refused"
                           /\ \A j \in 1 .. i - 1 : replies[j] \notin {"ok", "garbled"}
                      \/ output = <<>> /\ readable
<1>1. without => lost /\ ~Meets(replies, "garbled")
  BY NoAnswer, Readable DEF PostJson
<1>2. readable => ~Meets(replies, "garbled")
  BY Readable
<1> HIDE DEF readable, without
<1>3. count \in Nat
  <2>1. fused \in Legs
    BY LegsDegradeHolds
  <2> HIDE DEF fused
  <2> QED
    BY <2>1 DEF Legs
<1>4. ASSUME answer = <<>>, ~Meets(replies, "garbled")
      PROVE  ~lost /\ \E r \in Range(output[1]) : r.index < -count
  <2>1. Raises(count, replies, results)
    BY <1>4 DEF Retrieve
  <2>2. PICK r \in Range(results) : Place(r.index, count) < 1
    BY <1>4, <2>1 DEF Raises
  <2> DEFINE docs == Min({count, MaxDocuments})
  <2>3. /\ Ranked(results, docs) /\ (lost => Unranked(results, Min({topN, docs})))
        /\ Min({topN, docs}) \in Nat
    <3> HIDE DEF fused, count
    <3> QED
      BY <1>3, RerankIs
  <2>4. ~lost
    <3> SUFFICES ASSUME lost PROVE FALSE
      OBVIOUS
    <3> DEFINE n == Min({topN, docs})
    <3>1. Unranked(results, n) /\ n \in Nat
      BY <2>3
    <3> HIDE DEF n, results
    <3>2. PICK i \in 1 .. n : r = [index |-> i - 1, score |-> 0]
      BY <2>2, <3>1 DEF Unranked, Range
    <3>3. Place(r.index, count) = i
      BY <3>2 DEF Place
    <3> QED
      BY <2>2, <3>3
  <2>5. r \in Range(output[1]) /\ r.index \in Int
    <3> DEFINE E == [index : Int, score : Nat]
    <3>1. results \in Seq(E)
      BY <2>3 DEF Ranked
    <3>2. \A i \in 1 .. Len(results) : results[i] \in Range(output[1])
      <4> HIDE DEF fused, count
      <4> QED
        BY <1>3, <2>4, RerankIs
    <3> HIDE DEF E, results
    <3>3. PICK i \in 1 .. Len(results) : r = results[i]
      BY <2>2, <3>1 DEF Range
    <3>4. r \in E
      BY <3>1, <3>3
    <3> QED
      BY <3>2, <3>3, <3>4 DEF E
  <2> DEFINE x == r.index
  <2>6. x \in Int /\ Place(x, count) < 1
    BY <2>2, <2>5
  <2> HIDE DEF x, count
  <2>7. x < -count
    BY <1>3, <2>6 DEF Place
  <2> QED
    BY <2>4, <2>5, <2>7 DEF x
<1>5. ASSUME answer # <<>>
      PROVE  /\ found \in Seq([chunk : Nat, score : Nat]) /\ Len(found) <= topN /\ WeakAlone(found)
             /\ \A k \in 1 .. Len(found) : found[k].chunk \in Range(fused)
             /\ lost \/ Once(output[1], count) => Scored(found)
             /\ lost => Chunks(found) = SubSeq(fused, 1, Min({topN, MaxDocuments, count}))
  <2>1. Gives(dense, sparse, fault, topN, replies, output)
    BY <1>5, RetrieveIs
  <2> QED
    BY <2>1 DEF Gives
<1> HIDE DEF fused, answer, found, lost, results
<1>6. ASSUME answer # <<>>
      PROVE  /\ DOMAIN found = 1 .. Len(found)
             /\ Range(Chunks(found)) \subseteq Range(fused)
  <2> DEFINE V == [chunk : Nat, score : Nat]
  <2>1. found \in Seq(V)
    BY <1>5, <1>6
  <2> HIDE DEF V
  <2>2. DOMAIN found = 1 .. Len(found)
    BY <2>1
  <2> QED
    BY <1>5, <1>6, <2>2 DEF Chunks, Range
<1>7. ASSUME answer # <<>>
      PROVE  /\ \A i, j \in DOMAIN found : found[j].score < MinRerankScore => found[i].score < MinRerankScore
             /\ without \/ Once(output[1], count) =>
                  \A i, j \in DOMAIN found :
                    i < j => found[i].chunk # found[j].chunk /\ found[i].score >= found[j].score
  BY <1>1, <1>5, <1>6, <1>7 DEF Scored, WeakAlone
<1>8. without => answer # <<>> /\ Chunks(found) = SubSeq(fused, 1, Min({topN, MaxDocuments, count}))
  BY <1>1, <1>4, <1>5
<1>9. answer = <<>> /\ readable => \E r \in Range(output[1]) : r.index < -count
  BY <1>2, <1>4
<1> QED
  BY <1>5, <1>6, <1>7, <1>8, <1>9 DEF RerankDegrades, fused, found, answer, readable, without, count

\* A search that loses a leg or the reranker gives what the rest of it finds, in its
\* order, and a weak passage only where no strong one is; it raises only when it cannot
\* read the reranker's answer, or is sent before the first passage (retrieval.py:125-238,
\* reranker.py:43-81, http.py:58-73): for every search, of any size, and any answer.
THEOREM SearchDegradesHolds ==
  ASSUME search \in Searches
  PROVE  SearchDegrades
<1>1. /\ search.dense \in Legs /\ search.sparse \in Legs /\ search.topN \in Nat \ {0}
      /\ search.replies \in [1 .. HttpMaxRetries -> Replies]
      /\ search.output \in {<<>>} \cup {<<results>> : results \in Results}
  BY DEF Searches
<1> QED
  BY <1>1, LegsDegradeHolds, RerankDegradesHolds DEF SearchDegrades

-----------------------------------------------------------------------------
(* Texts and their tokens. *)

\* The places of the words of a text.
Places(text) == {i \in 1 .. Len(text) : text[i] # Break}

\* The tokens of a text are the places of its words.
LEMMA TokensAre ==
  ASSUME NEW S, NEW text \in Seq(S)
  PROVE  /\ Tokens(text) = Cardinality(Places(text)) /\ IsFiniteSet(Places(text))
         /\ Tokens(text) \in Nat
<1>1. Tokens(text) = Cardinality(Places(text))
  <2>1. DOMAIN text = 1 .. Len(text)
    OBVIOUS
  <2> QED
    BY <2>1 DEF Tokens, Places
<1>2. Len(text) \in Nat /\ IsFiniteSet(1 .. Len(text))
  BY FS_Interval
<1>3. Places(text) \in SUBSET (1 .. Len(text))
  BY DEF Places
<1>4. IsFiniteSet(Places(text))
  BY <1>2, <1>3, FS_Subset
<1> QED
  BY <1>1, <1>4, FS_CardinalityType

\* Places keep their number when they are shifted.
LEMMA Shifted ==
  ASSUME NEW m \in Nat, NEW A \in SUBSET Nat, IsFiniteSet(A)
  PROVE  /\ IsFiniteSet({m + i : i \in A})
         /\ Cardinality({m + i : i \in A}) = Cardinality(A)
<1> DEFINE B == {m + i : i \in A}
           f == [i \in A |-> m + i]
<1>1. f \in [A -> B]
  OBVIOUS
<1>2. \A i, j \in A : f[i] = f[j] => i = j
  OBVIOUS
<1>3. \A b \in B : \E i \in A : f[i] = b
  OBVIOUS
<1> HIDE DEF f, B
<1>4. f \in Injection(A, B) /\ f \in Surjection(A, B)
  BY <1>1, <1>2, <1>3 DEF Injection, IsInjective, Surjection
<1>5. IsFiniteSet(B) /\ Cardinality(B) = Cardinality(A)
  BY <1>4, FS_Surjection
<1> QED
  BY <1>5 DEF B

\* Joining texts adds their tokens.
LEMMA TokensJoin ==
  ASSUME NEW S, NEW a \in Seq(S), NEW b \in Seq(S)
  PROVE  Tokens(a \o b) = Tokens(a) + Tokens(b)
<1> DEFINE m == Len(a)
           c == a \o b
           B == {m + i : i \in Places(b)}
<1>1. m \in Nat /\ Len(b) \in Nat /\ c \in Seq(S) /\ Len(c) = m + Len(b)
  OBVIOUS
<1>2. \A i \in 1 .. m : c[i] = a[i]
  OBVIOUS
<1>3. \A i \in 1 .. Len(b) : c[m + i] = b[i]
  OBVIOUS
<1>4. /\ IsFiniteSet(Places(a)) /\ Tokens(a) = Cardinality(Places(a)) /\ Tokens(a) \in Nat
      /\ IsFiniteSet(Places(b)) /\ Tokens(b) = Cardinality(Places(b)) /\ Tokens(b) \in Nat
      /\ Tokens(c) = Cardinality(Places(c))
  BY <1>1, TokensAre
<1> HIDE DEF c, m
<1>5. Places(c) = Places(a) \cup B
  <2>1. ASSUME NEW p \in Places(c) PROVE p \in Places(a) \cup B
    <3>1. CASE p \in 1 .. m
      BY <1>2, <3>1 DEF Places, m
    <3>2. CASE p \notin 1 .. m
      <4>1. p - m \in 1 .. Len(b) /\ m + (p - m) = p
        BY <1>1, <3>2 DEF Places
      <4>2. b[p - m] # Break
        <5>1. c[m + (p - m)] = b[p - m]
          BY <1>3, <4>1
        <5> QED
          BY <4>1, <5>1 DEF Places
      <4> QED
        BY <4>1, <4>2 DEF Places
    <3> QED
      BY <3>1, <3>2
  <2>2. ASSUME NEW p \in Places(a) PROVE p \in Places(c)
    BY <1>1, <1>2 DEF Places, m
  <2>3. ASSUME NEW i \in Places(b) PROVE m + i \in Places(c)
    BY <1>1, <1>3 DEF Places
  <2> QED
    BY <2>1, <2>2, <2>3
<1>6. Places(b) \in SUBSET Nat
  BY DEF Places
<1>7. IsFiniteSet(B) /\ Cardinality(B) = Tokens(b)
  BY <1>1, <1>4, <1>6, Shifted
<1>8. Places(a) \cap B = {}
  BY <1>1 DEF Places, m
<1>9. Cardinality(Places(c)) = Tokens(a) + Tokens(b) - 0
  <2> HIDE DEF B
  <2> QED
    BY <1>4, <1>5, <1>7, <1>8, FS_Union, FS_EmptySet
<1> QED
  BY <1>4, <1>9 DEF c

\* No words are no tokens.
LEMMA TokensEmpty == Tokens(<<>>) = 0
<1>1. <<>> \in Seq({}) /\ Places(<<>>) = {}
  BY DEF Places
<1> QED
  BY <1>1, TokensAre, FS_EmptySet

\* A word is at most one token, a blank line none.
LEMMA TokensOfOne == \A w : Tokens(<<w>>) <= 1 /\ Tokens(<<Break>>) = 0
<1> TAKE w
<1>1. <<w>> \in Seq({w, Break}) /\ <<Break>> \in Seq({w, Break})
  OBVIOUS
<1>2. Places(<<w>>) \in SUBSET {1} /\ Places(<<Break>>) = {}
  BY DEF Places
<1>3. Tokens(<<w>>) <= 1
  <2>1. Places(<<w>>) = {} \/ Places(<<w>>) = {1}
    BY <1>2
  <2>2. Cardinality({}) = 0 /\ Cardinality({1}) = 1
    BY FS_EmptySet, FS_Singleton
  <2>3. Tokens(<<w>>) = Cardinality(Places(<<w>>))
    BY <1>1, TokensAre
  <2>4. Tokens(<<w>>) = 0 \/ Tokens(<<w>>) = 1
    BY <2>1, <2>2, <2>3
  <2> QED
    BY <2>4
<1>4. Tokens(<<Break>>) = 0
  BY <1>1, <1>2, TokensAre, FS_EmptySet
<1> QED
  BY <1>3, <1>4

\* A blank line as a word.
LEMMA BreakIs == Break \in Words /\ Break.stop = TRUE /\ Break.id = 0 /\ <<Break>> \in Seq(Words)
<1>1. Break \in Words /\ Break.stop = TRUE /\ Break.id = 0
  BY DEF Break, Words
<1> QED
  BY <1>1

\* A text under another one.
LEMMA UnderIs ==
  ASSUME NEW a \in Seq(Words), NEW b \in Seq(Words)
  PROVE  /\ Under(a, b) \in Seq(Words)
         /\ Tokens(Under(a, b)) = Tokens(a) + Tokens(b)
         /\ a # <<>> => /\ Len(Under(a, b)) = Len(a) + 1 + Len(b)
                        /\ \A i \in 1 .. Len(a) : Under(a, b)[i] = a[i]
                        /\ Under(a, b)[Len(a) + 1] = Break
                        /\ \A i \in 1 .. Len(b) : Under(a, b)[Len(a) + 1 + i] = b[i]
         /\ a = <<>> => Under(a, b) = b
<1>1. CASE a = <<>>
  <2>1. Under(a, b) = b
    BY <1>1 DEF Under
  <2>2. Tokens(b) \in Nat /\ Tokens(a) = 0
    BY <1>1, TokensAre, TokensEmpty
  <2> QED
    BY <1>1, <2>1, <2>2
<1>2. CASE a # <<>>
  <2> DEFINE c == <<Break>> \o b
             d == a \o c
  <2>1. c \in Seq(Words) /\ Len(c) = 1 + Len(b) /\ c[1] = Break
    BY BreakIs
  <2>2. \A i \in 1 .. Len(b) : c[1 + i] = b[i]
    BY BreakIs
  <2>3. Tokens(c) = 0 + Tokens(b)
    <3>1. <<Break>> \in Seq(Words)
      BY BreakIs
    <3>2. Tokens(c) = Tokens(<<Break>>) + Tokens(b)
      BY <3>1, TokensJoin
    <3> QED
      BY <3>2, TokensOfOne
  <2> HIDE DEF c
  <2>4. d \in Seq(Words) /\ Len(d) = Len(a) + Len(c)
    BY <2>1
  <2>5. \A i \in 1 .. Len(a) : d[i] = a[i]
    BY <2>1
  <2>6. \A i \in 1 .. Len(c) : d[Len(a) + i] = c[i]
    BY <2>1
  <2>7. Tokens(d) = Tokens(a) + Tokens(c)
    BY <2>1, TokensJoin
  <2> HIDE DEF d
  <2>8. Len(a) \in Nat /\ Len(b) \in Nat /\ Tokens(b) \in Nat
    BY TokensAre
  <2>9. \A i \in 1 .. Len(b) : d[Len(a) + 1 + i] = b[i]
    <3> TAKE i \in 1 .. Len(b)
    <3>1. 1 + i \in 1 .. Len(c) /\ Len(a) + (1 + i) = Len(a) + 1 + i
      BY <2>1, <2>8
    <3>2. d[Len(a) + (1 + i)] = c[1 + i]
      BY <2>6, <3>1
    <3> QED
      BY <2>2, <3>1, <3>2
  <2>10. d[Len(a) + 1] = Break
    <3>1. 1 \in 1 .. Len(c)
      BY <2>1, <2>8
    <3> QED
      BY <2>1, <2>6, <3>1
  <2>11. Under(a, b) = d
    BY <1>2 DEF Under, c, d
  <2>12. Len(d) = Len(a) + 1 + Len(b) /\ Tokens(d) = Tokens(a) + Tokens(b)
    BY <2>1, <2>3, <2>4, <2>7, <2>8
  <2> QED
    BY <1>2, <2>4, <2>5, <2>9, <2>10, <2>11, <2>12
<1> QED
  BY <1>1, <1>2

-----------------------------------------------------------------------------
(* Where a text stands in another. *)

\* It stands there after i words.
StandsAt(part, text, i) == i + Len(part) <= Len(text) /\ \A k \in 1 .. Len(part) : text[i + k] = part[k]

\* A part stands in a text when it stands there after some number of words.
LEMMA StandsIs ==
  ASSUME NEW S, NEW part \in Seq(S), NEW text \in Seq(S)
  PROVE  Stands(part, text) <=> \E i \in Nat : StandsAt(part, text, i)
<1>1. Len(part) \in Nat /\ Len(text) \in Nat /\ DOMAIN part = 1 .. Len(part)
  OBVIOUS
<1>2. \A i : i \in 0 .. Len(text) - Len(part) <=> i \in Nat /\ i + Len(part) <= Len(text)
  BY <1>1
<1> QED
  BY <1>1, <1>2 DEF Stands, StandsAt

\* What stands in a part stands where the part does.
LEMMA StandsTrans ==
  ASSUME NEW S, NEW a \in Seq(S), NEW b \in Seq(S), NEW c \in Seq(S), Stands(a, b), Stands(b, c)
  PROVE  Stands(a, c)
<1>1. PICK i \in Nat : StandsAt(a, b, i)
  BY StandsIs
<1>2. PICK j \in Nat : StandsAt(b, c, j)
  BY StandsIs
<1>3. Len(a) \in Nat /\ Len(b) \in Nat /\ Len(c) \in Nat
  OBVIOUS
<1>4. i + Len(a) <= Len(b) /\ j + Len(b) <= Len(c)
  BY <1>1, <1>2 DEF StandsAt
<1>5. (j + i) + Len(a) <= Len(c) /\ j + i \in Nat
  BY <1>3, <1>4
<1>6. \A k \in 1 .. Len(a) : c[(j + i) + k] = a[k]
  <2> TAKE k \in 1 .. Len(a)
  <2>1. i + k \in 1 .. Len(b) /\ j + (i + k) = (j + i) + k
    BY <1>3, <1>4
  <2>2. c[j + (i + k)] = b[i + k]
    BY <1>2, <2>1 DEF StandsAt
  <2> QED
    BY <1>1, <2>1, <2>2 DEF StandsAt
<1>7. StandsAt(a, c, j + i)
  BY <1>5, <1>6 DEF StandsAt
<1> QED
  BY <1>5, <1>7, StandsIs

\* A text stands in itself.
LEMMA StandsSame == ASSUME NEW S, NEW a \in Seq(S) PROVE Stands(a, a)
<1>1. StandsAt(a, a, 0)
  BY DEF StandsAt
<1> QED
  BY <1>1, StandsIs

\* Each of two texts stands in their join.
LEMMA StandsJoin ==
  ASSUME NEW S, NEW a \in Seq(S), NEW b \in Seq(S)
  PROVE  Stands(a, a \o b) /\ Stands(b, a \o b)
<1> DEFINE c == a \o b
<1>1. c \in Seq(S) /\ Len(c) = Len(a) + Len(b) /\ Len(a) \in Nat /\ Len(b) \in Nat
  OBVIOUS
<1>2. \A i \in 1 .. Len(a) : c[i] = a[i]
  OBVIOUS
<1>3. \A i \in 1 .. Len(b) : c[Len(a) + i] = b[i]
  OBVIOUS
<1> HIDE DEF c
<1>4. StandsAt(a, c, 0)
  <2>1. \A k \in 1 .. Len(a) : 0 + k = k
    OBVIOUS
  <2> QED
    BY <1>1, <1>2, <2>1 DEF StandsAt
<1>5. StandsAt(b, c, Len(a))
  BY <1>1, <1>3 DEF StandsAt
<1>6. Stands(a, c) /\ Stands(b, c)
  BY <1>1, <1>4, <1>5, StandsIs
<1> QED
  BY <1>6 DEF c

\* Each of two texts stands in what puts one under the other.
LEMMA StandsUnder ==
  ASSUME NEW a \in Seq(Words), NEW b \in Seq(Words)
  PROVE  Stands(b, Under(a, b)) /\ Stands(a, Under(a, b))
<1>1. CASE a = <<>>
  <2>1. Under(a, b) = b /\ Stands(b, b)
    BY <1>1, UnderIs, StandsSame
  <2>2. StandsAt(<<>>, b, 0)
    BY DEF StandsAt
  <2> QED
    BY <1>1, <2>1, <2>2, StandsIs
<1>2. CASE a # <<>>
  <2> DEFINE c == <<Break>> \o b
  <2>1. c \in Seq(Words) /\ Stands(b, c)
    <3>1. <<Break>> \in Seq(Words)
      BY BreakIs
    <3>2. Stands(b, c)
      BY <3>1, StandsJoin
    <3>3. c \in Seq(Words)
      BY <3>1
    <3> QED
      BY <3>2, <3>3
  <2>2. Under(a, b) = a \o c
    BY <1>2 DEF Under
  <2> HIDE DEF c
  <2>3. Stands(a, a \o c) /\ Stands(c, a \o c) /\ a \o c \in Seq(Words)
    BY <2>1, StandsJoin
  <2> QED
    BY <2>1, <2>2, <2>3, StandsTrans
<1> QED
  BY <1>1, <1>2

\* What stands in a text has its words, and no more of them.
LEMMA StandsWithin ==
  ASSUME NEW S, NEW a \in Seq(S), NEW b \in Seq(S), Stands(a, b)
  PROVE  Range(a) \subseteq Range(b) /\ Tokens(a) <= Tokens(b)
<1>1. PICK i \in Nat : StandsAt(a, b, i)
  BY StandsIs
<1>2. Len(a) \in Nat /\ Len(b) \in Nat /\ DOMAIN a = 1 .. Len(a) /\ DOMAIN b = 1 .. Len(b)
  OBVIOUS
<1>3. \A k \in 1 .. Len(a) : i + k \in 1 .. Len(b) /\ b[i + k] = a[k]
  <2>1. i + Len(a) <= Len(b)
    BY <1>1 DEF StandsAt
  <2>2. \A k \in 1 .. Len(a) : i + k \in 1 .. Len(b)
    BY <1>2, <2>1
  <2> QED
    BY <1>1, <2>2 DEF StandsAt
<1>4. Range(a) \subseteq Range(b)
  BY <1>2, <1>3 DEF Range
<1> DEFINE A == {i + k : k \in Places(a)}
<1>5. A \in SUBSET Places(b) /\ Places(a) \in SUBSET Nat
  BY <1>3 DEF Places
<1>6. /\ IsFiniteSet(Places(a)) /\ Tokens(a) = Cardinality(Places(a)) /\ Tokens(a) \in Nat
      /\ IsFiniteSet(Places(b)) /\ Tokens(b) = Cardinality(Places(b)) /\ Tokens(b) \in Nat
  BY TokensAre
<1>7. Cardinality(A) = Tokens(a)
  BY <1>5, <1>6, Shifted
<1>8. Cardinality(A) <= Tokens(b)
  <2> HIDE DEF A
  <2> QED
    BY <1>5, <1>6, FS_Subset
<1> QED
  BY <1>4, <1>6, <1>7, <1>8

\* Each word of a text stands there.
LEMMA WordStands ==
  ASSUME NEW S, NEW text \in Seq(S), NEW w \in Range(text)
  PROVE  Stands(<<w>>, text)
<1>1. PICK i \in 1 .. Len(text) : text[i] = w
  BY DEF Range
<1>2. <<w>> \in Seq(S) /\ Len(<<w>>) = 1 /\ <<w>>[1] = w
  BY <1>1
<1>3. i - 1 \in Nat /\ (i - 1) + 1 = i /\ i <= Len(text) /\ 1 .. 1 = {1}
  OBVIOUS
<1>4. StandsAt(<<w>>, text, i - 1)
  BY <1>1, <1>2, <1>3 DEF StandsAt
<1> QED
  BY <1>2, <1>3, <1>4, StandsIs

-----------------------------------------------------------------------------
(* Buffers and sentences. *)

\* The elements of a sequence are what is at its places.
LEMMA RangeIs ==
  ASSUME NEW S, NEW a \in Seq(S)
  PROVE  /\ Range(a) \subseteq S
         /\ Range(a) = {a[i] : i \in 1 .. Len(a)}
         /\ a = <<>> <=> Range(a) = {}
         /\ a = <<>> <=> Len(a) = 0
<1>1. DOMAIN a = 1 .. Len(a) /\ Len(a) \in Nat
  OBVIOUS
<1>2. \A i \in 1 .. Len(a) : a[i] \in S
  OBVIOUS
<1>3. a = <<>> <=> Len(a) = 0
  OBVIOUS
<1>4. Len(a) = 0 <=> 1 .. Len(a) = {}
  <2>1. CASE Len(a) = 0
    BY <2>1
  <2>2. CASE Len(a) # 0
    <3>1. 1 \in 1 .. Len(a)
      BY <1>1, <2>2
    <3> QED
      BY <2>2, <3>1
  <2> QED
    BY <2>1, <2>2
<1> QED
  BY <1>1, <1>2, <1>3, <1>4 DEF Range

\* A join has the elements of both.
LEMMA RangeJoin ==
  ASSUME NEW S, NEW a \in Seq(S), NEW b \in Seq(S)
  PROVE  Range(a \o b) = Range(a) \cup Range(b)
<1> DEFINE c == a \o b
<1>1. c \in Seq(S) /\ Len(c) = Len(a) + Len(b) /\ Len(a) \in Nat /\ Len(b) \in Nat
  OBVIOUS
<1>2. \A i \in 1 .. Len(a) : c[i] = a[i]
  OBVIOUS
<1>3. \A i \in 1 .. Len(b) : c[Len(a) + i] = b[i]
  OBVIOUS
<1> HIDE DEF c
<1>4. \A i \in 1 .. Len(c) : i \in 1 .. Len(a) \/ (i - Len(a) \in 1 .. Len(b) /\ Len(a) + (i - Len(a)) = i)
  BY <1>1
<1>5. (\A i \in 1 .. Len(a) : i \in 1 .. Len(c)) /\ \A i \in 1 .. Len(b) : Len(a) + i \in 1 .. Len(c)
  BY <1>1
<1>6. Range(c) \subseteq Range(a) \cup Range(b)
  <2> SUFFICES ASSUME NEW i \in 1 .. Len(c) PROVE c[i] \in Range(a) \cup Range(b)
    BY <1>1, RangeIs
  <2>1. CASE i \in 1 .. Len(a)
    BY <1>2, <2>1, RangeIs
  <2>2. CASE i \notin 1 .. Len(a)
    <3>1. i - Len(a) \in 1 .. Len(b) /\ Len(a) + (i - Len(a)) = i
      BY <1>4, <2>2
    <3>2. c[Len(a) + (i - Len(a))] = b[i - Len(a)]
      BY <1>3, <3>1
    <3>3. b[i - Len(a)] \in Range(b)
      BY <3>1, RangeIs
    <3> QED
      BY <3>1, <3>2, <3>3
  <2> QED
    BY <2>1, <2>2
<1>7. Range(a) \subseteq Range(c)
  BY <1>1, <1>2, <1>5, RangeIs
<1>8. Range(b) \subseteq Range(c)
  <2> SUFFICES ASSUME NEW i \in 1 .. Len(b) PROVE b[i] \in Range(c)
    BY RangeIs
  <2>1. Len(a) + i \in 1 .. Len(c) /\ c[Len(a) + i] = b[i]
    BY <1>3, <1>5
  <2>2. \A k \in 1 .. Len(c) : c[k] \in Range(c)
    BY <1>1, RangeIs
  <2> QED
    BY <2>1, <2>2
<1> QED
  BY <1>6, <1>7, <1>8 DEF c

\* Appending adds one element.
LEMMA RangeAppend ==
  ASSUME NEW S, NEW a \in Seq(S), NEW x \in S
  PROVE  Range(Append(a, x)) = Range(a) \cup {x}
<1>1. <<x>> \in Seq(S) /\ Append(a, x) = a \o <<x>>
  OBVIOUS
<1>2. Range(<<x>>) = {x}
  BY DEF Range
<1> DEFINE b == <<x>>
<1> HIDE DEF b
<1>3. Range(a \o b) = Range(a) \cup Range(b)
  BY <1>1, RangeJoin, ZenonT(60) DEF b
<1> QED
  BY <1>1, <1>2, <1>3 DEF b

\* What is collected and what has been put out, of elements of T.
Buffers(T) == [out : Seq(Seq(T)), buf : Seq(T)]

\* Nothing is collected at first.
LEMMA EmptyIs == ASSUME NEW T PROVE Empty \in Buffers(T) /\ Empty.out = <<>> /\ Empty.buf = <<>>
BY DEF Empty, Buffers

\* What is put out.
LEMMA OutIs ==
  ASSUME NEW T, NEW s \in Buffers(T)
  PROVE  /\ s.out \in Seq(Seq(T)) /\ s.buf \in Seq(T)
         /\ Out(s) \in Seq(Seq(T))
         /\ s.buf = <<>> => Out(s) = s.out
         /\ s.buf # <<>> => Out(s) = Append(s.out, s.buf) /\ Range(Out(s)) = Range(s.out) \cup {s.buf}
         /\ PutOut(s) \in Buffers(T) /\ PutOut(s).out = Out(s) /\ PutOut(s).buf = <<>>
<1>1. s.out \in Seq(Seq(T)) /\ s.buf \in Seq(T)
  BY DEF Buffers
<1>2. s.buf = <<>> => Out(s) = s.out
  BY DEF Out
<1>3. s.buf # <<>> => Out(s) = Append(s.out, s.buf)
  BY DEF Out
<1>4. Append(s.out, s.buf) \in Seq(Seq(T))
  <2> DEFINE U == Seq(T)
  <2>1. s.out \in Seq(U) /\ s.buf \in U
    BY <1>1
  <2> HIDE DEF U
  <2>2. Append(s.out, s.buf) \in Seq(U)
    BY <2>1
  <2> QED
    BY <2>2 DEF U
<1>5. Out(s) \in Seq(Seq(T))
  BY <1>1, <1>2, <1>3, <1>4
<1>6. Range(Append(s.out, s.buf)) = Range(s.out) \cup {s.buf}
  <2> DEFINE U == Seq(T)
  <2>1. s.out \in Seq(U) /\ s.buf \in U
    BY <1>1
  <2> HIDE DEF U
  <2> QED
    BY <2>1, RangeAppend
<1>7. PutOut(s) = [out |-> Out(s), buf |-> <<>>] /\ <<>> \in Seq(T)
  BY DEF PutOut
<1>8. PutOut(s).out = Out(s) /\ PutOut(s).buf = <<>> /\ PutOut(s) \in Buffers(T)
  BY <1>5, <1>7 DEF Buffers
<1> QED
  BY <1>1, <1>2, <1>3, <1>5, <1>6, <1>8

\* A word says whether a sentence ends with it.
LEMMA WordIs == ASSUME NEW w \in Words PROVE w.stop \in BOOLEAN /\ (w = Break => w.stop = TRUE)
<1>1. Break.stop = TRUE
  BY DEF Break
<1>2. w # Break => w.stop \in BOOLEAN
  BY DEF Words
<1> QED
  BY <1>1, <1>2

\* s after one more word.
LEMMA WordTaken ==
  ASSUME NEW s \in Buffers(Words), NEW w \in Words
  PROVE  LET r == TakeWord(s, w) IN
         /\ r \in Buffers(Words)
         /\ w = Break => r.out = Out(s) /\ r.buf = <<>>
         /\ w # Break /\ ~w.stop => r.out = s.out /\ r.buf = Append(s.buf, w)
         /\ w # Break /\ w.stop => r.out = Append(s.out, Append(s.buf, w)) /\ r.buf = <<>>
<1> DEFINE t == [out |-> s.out, buf |-> Append(s.buf, w)]
           r == TakeWord(s, w)
<1>1. s.out \in Seq(Seq(Words)) /\ s.buf \in Seq(Words) /\ w.stop \in BOOLEAN /\ (w = Break => w.stop = TRUE)
  BY WordIs DEF Buffers
<1>2. Append(s.buf, w) \in Seq(Words) /\ Append(s.buf, w) # <<>>
  <2> HIDE DEF t
  <2>1. Append(s.buf, w) \in Seq(Words) /\ Len(Append(s.buf, w)) = Len(s.buf) + 1 /\ Len(s.buf) \in Nat
    BY <1>1
  <2>2. Len(Append(s.buf, w)) # 0 /\ Len(<<>>) = 0
    BY <2>1
  <2> QED
    BY <2>1, <2>2
<1>3. t \in Buffers(Words) /\ t.out = s.out /\ t.buf = Append(s.buf, w)
  BY <1>1, <1>2 DEF Buffers
<1> HIDE DEF t
<1>4. CASE w = Break
  <2>1. r = PutOut(s)
    BY <1>1, <1>4 DEF TakeWord
  <2> HIDE DEF r
  <2>2. r \in Buffers(Words) /\ r.out = Out(s) /\ r.buf = <<>>
    BY <2>1, OutIs
  <2> QED
    BY <1>4, <2>2 DEF r
<1>5. CASE w # Break /\ ~w.stop
  <2>1. r = t
    BY <1>5 DEF TakeWord, t
  <2> HIDE DEF r
  <2>2. r \in Buffers(Words) /\ r.out = s.out /\ r.buf = Append(s.buf, w)
    BY <1>3, <2>1
  <2> QED
    BY <1>5, <2>2 DEF r
<1>6. CASE w # Break /\ w.stop
  <2>1. r = PutOut(t)
    BY <1>6 DEF TakeWord, t
  <2>2. Out(t) = Append(s.out, Append(s.buf, w))
    BY <1>2, <1>3, OutIs
  <2> HIDE DEF r
  <2>3. r \in Buffers(Words) /\ r.out = Out(t) /\ r.buf = <<>>
    BY <1>3, <2>1, OutIs
  <2> QED
    BY <1>6, <2>2, <2>3 DEF r
<1> QED
  BY <1>1, <1>4, <1>5, <1>6

\* A sentence of a text.
Intact(text, t) == t # <<>> /\ Break \notin Range(t) /\ Stands(t, text)

\* s has the sentences of the first n words, and in the buffer what is begun.
CutAt(text, n, s) ==
  /\ \A t \in Range(s.out) : Intact(text, t)
  /\ Break \notin Range(s.buf)
  /\ n - Len(s.buf) \in Nat /\ \A k \in 1 .. Len(s.buf) : text[(n - Len(s.buf)) + k] = s.buf[k]

\* The words collected stand in the text.
LEMMA BufferStands ==
  ASSUME NEW text \in Seq(Words), NEW n \in 0 .. Len(text), NEW s \in Buffers(Words), CutAt(text, n, s)
  PROVE  Stands(s.buf, text)
<1>1. s.buf \in Seq(Words) /\ Len(s.buf) \in Nat /\ Len(text) \in Nat
  BY DEF Buffers
<1>2. n - Len(s.buf) \in Nat /\ (n - Len(s.buf)) + Len(s.buf) <= Len(text)
  BY <1>1 DEF CutAt
<1>3. StandsAt(s.buf, text, n - Len(s.buf))
  BY <1>2 DEF StandsAt, CutAt
<1> QED
  BY <1>1, <1>2, <1>3, StandsIs

\* So do the sentences that are put out.
LEMMA OutCut ==
  ASSUME NEW text \in Seq(Words), NEW n \in 0 .. Len(text), NEW s \in Buffers(Words), CutAt(text, n, s)
  PROVE  \A t \in Range(Out(s)) : Intact(text, t)
<1>1. s.buf # <<>> => Intact(text, s.buf)
  BY BufferStands DEF Intact, CutAt
<1> QED
  BY <1>1, OutIs DEF CutAt

\* One more word leaves the text cut into sentences.
LEMMA WordCut ==
  ASSUME NEW text \in Seq(Words), NEW n \in 1 .. Len(text), NEW s \in Buffers(Words),
         CutAt(text, n - 1, s)
  PROVE  CutAt(text, n, TakeWord(s, text[n]))
<1> DEFINE w == text[n]
           r == TakeWord(s, w)
           b == Append(s.buf, w)
<1>1. w \in Words /\ n - 1 \in 0 .. Len(text) /\ n \in Nat /\ Len(text) \in Nat
  OBVIOUS
<1>2. s.out \in Seq(Seq(Words)) /\ s.buf \in Seq(Words) /\ Len(s.buf) \in Nat
  BY DEF Buffers
<1> HIDE DEF w
<1>3. /\ r \in Buffers(Words)
      /\ w = Break => r.out = Out(s) /\ r.buf = <<>>
      /\ w # Break /\ ~w.stop => r.out = s.out /\ r.buf = b
      /\ w # Break /\ w.stop => r.out = Append(s.out, b) /\ r.buf = <<>>
  BY <1>1, WordTaken
<1> HIDE DEF r
<1>4. b \in Seq(Words) /\ Len(b) = Len(s.buf) + 1 /\ b[Len(b)] = w
  BY <1>1, <1>2
<1>5. \A k \in 1 .. Len(s.buf) : b[k] = s.buf[k]
  BY <1>1, <1>2
<1>6. Range(b) = Range(s.buf) \cup {w}
  BY <1>1, <1>2, RangeAppend
<1>7. n - Len(b) = (n - 1) - Len(s.buf) /\ n - Len(b) \in Nat
  BY <1>1, <1>2, <1>4 DEF CutAt
<1> HIDE DEF b
<1>8. \A k \in 1 .. Len(b) : text[(n - Len(b)) + k] = b[k]
  <2> TAKE k \in 1 .. Len(b)
  <2>1. CASE k = Len(b)
    <3>1. (n - Len(b)) + k = n
      <4>1. Len(b) \in Nat
        BY <1>4
      <4> QED
        BY <1>1, <2>1, <4>1
    <3> QED
      BY <1>4, <2>1, <3>1 DEF w
  <2>2. CASE k # Len(b)
    <3>1. k \in 1 .. Len(s.buf)
      BY <1>2, <1>4, <2>2
    <3>2. text[((n - 1) - Len(s.buf)) + k] = s.buf[k]
      BY <3>1 DEF CutAt
    <3> QED
      BY <1>5, <1>7, <3>1, <3>2
  <2> QED
    BY <2>1, <2>2
<1>9. n - 0 \in Nat /\ Len(<<>>) = 0 /\ Range(<<>>) = {} /\ 1 .. 0 = {}
  BY <1>1 DEF Range
<1>10. CASE w = Break
  <2>1. \A t \in Range(r.out) : Intact(text, t)
    BY <1>1, <1>3, <1>10, OutCut
  <2>2. r.buf = <<>>
    BY <1>3, <1>10
  <2> QED
    BY <1>9, <2>1, <2>2 DEF CutAt, r, w
<1>11. CASE w # Break /\ ~w.stop
  <2>1. r.out = s.out /\ r.buf = b
    BY <1>3, <1>11
  <2>2. CutAt(text, n, r)
    BY <1>6, <1>7, <1>8, <1>11, <2>1 DEF CutAt
  <2> QED
    BY <2>2 DEF r, w
<1>12. CASE w # Break /\ w.stop
  <2>1. r.out = Append(s.out, b) /\ r.buf = <<>>
    BY <1>3, <1>12
  <2>2. Range(r.out) = Range(s.out) \cup {b}
    <3> DEFINE U == Seq(Words)
    <3>1. s.out \in Seq(U) /\ b \in U
      BY <1>2, <1>4
    <3> HIDE DEF U
    <3> QED
      BY <2>1, <3>1, RangeAppend
  <2>3. Intact(text, b)
    <3>1. b # <<>>
      BY <1>6, <1>9
    <3>2. StandsAt(b, text, n - Len(b))
      <4>1. (n - Len(b)) + Len(b) <= Len(text)
        <5>1. Len(b) \in Nat /\ n <= Len(text)
          BY <1>4
        <5> QED
          BY <1>1, <5>1
      <4> QED
        BY <1>8, <4>1 DEF StandsAt
    <3>3. Stands(b, text)
      BY <1>4, <1>7, <3>2, StandsIs
    <3>4. Break \notin Range(b)
      BY <1>6, <1>12 DEF CutAt
    <3> QED
      BY <3>1, <3>3, <3>4 DEF Intact
  <2>4. \A t \in Range(r.out) : Intact(text, t)
    BY <2>2, <2>3 DEF CutAt
  <2> QED
    BY <1>9, <2>1, <2>4 DEF CutAt, r, w
<1>13. w.stop \in BOOLEAN
  BY <1>1, WordIs
<1> QED
  BY <1>10, <1>11, <1>12, <1>13

\* s has every one of the first n words.
Gathered(text, n, s) ==
  \A i \in 1 .. n :
    text[i] = Break \/ text[i] \in Range(s.buf) \/ \E t \in Range(s.out) : text[i] \in Range(t)

\* One more word is gathered.
LEMMA WordGathered ==
  ASSUME NEW text \in Seq(Words), NEW n \in 1 .. Len(text), NEW s \in Buffers(Words),
         Gathered(text, n - 1, s)
  PROVE  Gathered(text, n, TakeWord(s, text[n]))
<1> DEFINE w == text[n]
           r == TakeWord(s, w)
           S == Seq(Words)
           b == Append(s.buf, w)
<1>1. w \in Words /\ \A i \in 1 .. n : i = n \/ i \in 1 .. n - 1
  OBVIOUS
<1>2. s.out \in Seq(S) /\ s.buf \in Seq(Words)
  BY OutIs
<1>3. b \in S /\ Range(b) = Range(s.buf) \cup {w}
  BY <1>1, <1>2, RangeAppend
<1>4. Range(Append(s.out, b)) = Range(s.out) \cup {b}
  <2> HIDE DEF S, b
  <2> QED
    BY <1>2, <1>3, RangeAppend
<1>5. /\ w = Break => r.out = Out(s) /\ r.buf = <<>>
      /\ w # Break /\ ~w.stop => r.out = s.out /\ r.buf = b
      /\ w # Break /\ w.stop => r.out = Append(s.out, b) /\ r.buf = <<>>
  BY <1>1, WordTaken
<1> HIDE DEF w, r, S, b
<1>6. ASSUME NEW i \in 1 .. n
      PROVE  text[i] = Break \/ text[i] \in Range(r.buf) \/ \E t \in Range(r.out) : text[i] \in Range(t)
  <2>1. text[i] = w \/ text[i] = Break \/ text[i] \in Range(s.buf)
        \/ \E t \in Range(s.out) : text[i] \in Range(t)
    BY <1>1 DEF Gathered, w
  <2>2. CASE w = Break
    <3>1. s.buf = <<>> => Range(s.buf) = {} /\ Out(s) = s.out
      BY OutIs DEF Range
    <3>2. s.buf # <<>> => Range(Out(s)) = Range(s.out) \cup {s.buf}
      BY OutIs
    <3> QED
      BY <1>5, <2>1, <2>2, <3>1, <3>2
  <2>3. CASE w # Break /\ ~w.stop
    BY <1>3, <1>5, <2>1, <2>3
  <2>4. CASE w # Break /\ w.stop
    <3>1. b \in Range(r.out) /\ \A t \in Range(s.out) : t \in Range(r.out)
      BY <1>4, <1>5, <2>4
    <3> QED
      BY <1>3, <2>1, <3>1
  <2> QED
    BY <1>1, <2>2, <2>3, <2>4, WordIs
<1> QED
  BY <1>6 DEF Gathered, r, w

\* Nothing of it is lost when the buffer is put out.
LEMMA OutGathered ==
  ASSUME NEW text \in Seq(Words), NEW s \in Buffers(Words), Gathered(text, Len(text), s)
  PROVE  \A w \in Range(text) : w = Break \/ \E t \in Range(Out(s)) : w \in Range(t)
<1>1. Range(text) = {text[i] : i \in 1 .. Len(text)}
  BY RangeIs
<1>2. \A w \in Range(text) :
        w = Break \/ w \in Range(s.buf) \/ \E t \in Range(s.out) : w \in Range(t)
  BY <1>1 DEF Gathered
<1>3. s.buf = <<>> => Range(s.buf) = {} /\ Out(s) = s.out
  BY OutIs DEF Range
<1>4. s.buf # <<>> => Range(Out(s)) = Range(s.out) \cup {s.buf}
  BY OutIs
<1> QED
  BY <1>2, <1>3, <1>4

\* The sentences of a text are parts of it with no blank line in them, and each word is in one.
LEMMA SentencesAre ==
  ASSUME NEW text \in Seq(Words)
  PROVE  /\ Sentences(text) \in Seq(Seq(Words))
         /\ \A t \in Range(Sentences(text)) : Intact(text, t)
         /\ \A w \in Range(text) : w = Break \/ \E t \in Range(Sentences(text)) : w \in Range(t)
<1> DEFINE N == Len(text)
           B == Buffers(Words)
           Is(f) == f = [n \in 0 .. N |-> IF n = 0 THEN Empty ELSE TakeWord(f[n - 1], text[n])]
           c == CHOOSE f : Is(f)
           step == [n \in 1 .. N |-> [s \in B |-> TakeWord(s, text[n])]]
<1>1. N \in Nat /\ Empty \in B /\ \A n \in 1 .. N : text[n] \in Words
  BY EmptyIs
<1>2. step \in [1 .. N -> [B -> B]]
  <2>1. \A n \in 1 .. N, s \in B : TakeWord(s, text[n]) \in B
    BY <1>1, WordTaken
  <2> HIDE DEF B, N
  <2> QED
    BY <2>1
<1>3. Sentences(text) = Out(c[N])
  BY DEF Sentences
<1>4. \A n \in 1 .. N, s \in B : step[n][s] = TakeWord(s, text[n])
  OBVIOUS
<1> HIDE DEF N, step, B
<1>5. Is(c)
  <2>1. PICK f \in [0 .. N -> B] : Loops(f, N, Empty, step)
    BY <1>1, <1>2, LoopExists
  <2>2. ASSUME NEW n \in 0 .. N
        PROVE  f[n] = IF n = 0 THEN Empty ELSE TakeWord(f[n - 1], text[n])
    <3>1. CASE n = 0
      BY <2>1, <3>1 DEF Loops
    <3>2. CASE n # 0
      <4>1. n \in 1 .. N /\ n - 1 \in 0 .. N
        BY <1>1, <3>2
      <4>2. f[n - 1] \in B /\ f[n] = step[n][f[n - 1]]
        BY <2>1, <4>1 DEF Loops
      <4> QED
        BY <1>4, <3>2, <4>1, <4>2
    <3> QED
      BY <3>1, <3>2
  <2>3. Is(f)
    BY <2>2
  <2> HIDE DEF Is
  <2> QED
    BY <2>3
<1> HIDE DEF c
<1> DEFINE P == {n \in 0 .. N : c[n] \in B /\ CutAt(text, n, c[n]) /\ Gathered(text, n, c[n])}
<1>6. 0 \in P
  <2>1. c[0] = Empty /\ 0 \in 0 .. N
    BY <1>1, <1>5
  <2>2. /\ Empty.out = <<>> /\ Empty.buf = <<>> /\ Len(<<>>) = 0 /\ Range(<<>>) = {} /\ 0 - 0 \in Nat
        /\ 1 .. 0 = {}
    BY DEF Empty, Range
  <2>3. CutAt(text, 0, Empty) /\ Gathered(text, 0, Empty)
    BY <2>2 DEF CutAt, Gathered
  <2> QED
    BY <1>1, <2>1, <2>3
<1>7. ASSUME NEW n \in 1 .. N, n - 1 \in P PROVE n \in P
  <2>1. c[n] = TakeWord(c[n - 1], text[n])
    <3>1. n \in 0 .. N /\ n # 0
      BY <1>1
    <3>2. c = [k \in 0 .. N |-> IF k = 0 THEN Empty ELSE TakeWord(c[k - 1], text[k])]
      BY <1>5
    <3> QED
      BY <3>1, <3>2
  <2>2. n \in 0 .. N /\ c[n - 1] \in B /\ CutAt(text, n - 1, c[n - 1]) /\ text[n] \in Words
        /\ Gathered(text, n - 1, c[n - 1])
    BY <1>1, <1>7
  <2>3. c[n] \in B
    BY <2>1, <2>2, WordTaken DEF B
  <2>4. CutAt(text, n, c[n])
    BY <2>1, <2>2, WordCut DEF B, N
  <2>5. Gathered(text, n, c[n])
    BY <2>1, <2>2, WordGathered DEF B, N
  <2> QED
    BY <2>2, <2>3, <2>4, <2>5
<1>8. N \in P
  <2>1. N \in 0 .. N
    BY <1>1
  <2> HIDE DEF P
  <2>2. \A n \in 0 .. N : n \in P
    BY <1>1, <1>6, <1>7, Upto
  <2> QED
    BY <2>1, <2>2
<1>9. c[N] \in Buffers(Words) /\ CutAt(text, N, c[N]) /\ N \in 0 .. N
  BY <1>1, <1>8 DEF B
<1>10. Out(c[N]) \in Seq(Seq(Words))
  BY <1>9, OutIs
<1>11. \A t \in Range(Out(c[N])) : Intact(text, t)
  BY <1>9, OutCut DEF N
<1>12. Gathered(text, Len(text), c[N])
  BY <1>8 DEF N
<1>13. \A w \in Range(text) : w = Break \/ \E t \in Range(Out(c[N])) : w \in Range(t)
  BY <1>9, <1>12, OutGathered
<1> QED
  BY <1>3, <1>10, <1>11, <1>13

-----------------------------------------------------------------------------
(* Filling pieces. *)

\* The limits are natural numbers.
LEMMA Limits == Target \in Nat /\ Target >= 1 /\ Overlap \in Nat /\ Overlap <= Target /\ Minimum \in Nat
BY ChunkingAssumption

\* It stands in a piece that was put out or in the buffer.
Held(part, s) == Stands(part, s.buf) \/ \E t \in Range(s.out) : Stands(part, t)

\* Every piece fits, and has its words from W.
Packs(s, W) ==
  /\ Tokens(s.buf) <= Target /\ Range(s.buf) \subseteq W
  /\ \A t \in Range(s.out) : Tokens(t) <= Target /\ Range(t) \subseteq W

\* A part that has words does not stand in nothing.
LEMMA NothingStands ==
  ASSUME NEW part \in Seq(Words), part # <<>> PROVE ~Stands(part, <<>>)
<1> SUFFICES ASSUME Stands(part, <<>>) PROVE FALSE
  OBVIOUS
<1>1. <<>> \in Seq(Words) /\ Len(<<>>) = 0 /\ Len(part) \in Nat /\ Len(part) # 0
  BY RangeIs
<1>2. PICK i \in Nat : StandsAt(part, <<>>, i)
  BY <1>1, StandsIs
<1>3. i + Len(part) <= 0
  BY <1>1, <1>2 DEF StandsAt
<1> QED
  BY <1>1, <1>3

\* Putting out keeps what is held and what fits.
LEMMA OutHolds ==
  ASSUME NEW s \in Buffers(Words), NEW W, Packs(s, W)
  PROVE  /\ \A t \in Range(Out(s)) : Tokens(t) <= Target /\ Range(t) \subseteq W
         /\ \A part \in Seq(Words) : part # <<>> /\ Held(part, s) =>
              \E t \in Range(Out(s)) : Stands(part, t)
<1>1. CASE s.buf = <<>>
  <2>1. Out(s) = s.out
    BY <1>1, OutIs
  <2>2. \A part \in Seq(Words) : part # <<>> => ~Stands(part, s.buf)
    BY <1>1, NothingStands
  <2> QED
    BY <2>1, <2>2 DEF Held, Packs
<1>2. CASE s.buf # <<>>
  <2>1. Range(Out(s)) = Range(s.out) \cup {s.buf}
    BY <1>2, OutIs
  <2> QED
    BY <2>1 DEF Held, Packs
<1> QED
  BY <1>1, <1>2

\* What fills is held, and so is what was.
LEMMA FillHolds ==
  ASSUME NEW s \in Buffers(Words), NEW W, Packs(s, W), NEW text \in Seq(Words),
         Tokens(text) <= Target, Range(text) \subseteq W
  PROVE  /\ Fill(s, text) \in Buffers(Words) /\ Packs(Fill(s, text), W)
         /\ Held(text, Fill(s, text))
         /\ \A part \in Seq(Words) : part # <<>> /\ Held(part, s) => Held(part, Fill(s, text))
<1> DEFINE t == IF s.buf # <<>> /\ Tokens(s.buf) + Tokens(text) > Target THEN PutOut(s) ELSE s
           r == Fill(s, text)
           b == t.buf \o text
<1>1. s.out \in Seq(Seq(Words)) /\ s.buf \in Seq(Words) /\ Out(s) \in Seq(Seq(Words))
  BY OutIs
<1>2. /\ t \in Buffers(Words) /\ Tokens(t.buf) + Tokens(text) <= Target
      /\ Packs(t, W)
      /\ \A part \in Seq(Words) : part # <<>> /\ Held(part, s) => Held(part, t)
  <2>0. Tokens(text) \in Nat /\ Tokens(s.buf) \in Nat /\ Tokens(<<>>) = 0 /\ Range(<<>>) = {} /\ Target \in Nat
    BY <1>1, TokensAre, TokensEmpty, Limits DEF Range
  <2>1. CASE s.buf # <<>> /\ Tokens(s.buf) + Tokens(text) > Target
    <3>1. t = PutOut(s)
      BY <2>1
    <3> HIDE DEF t
    <3>2. t \in Buffers(Words) /\ t.out = Out(s) /\ t.buf = <<>>
      BY <3>1, OutIs
    <3>3. Packs(t, W)
      <4>1. Tokens(t.buf) <= Target /\ Range(t.buf) \subseteq W
        BY <2>0, <3>2
      <4>2. \A x \in Range(t.out) : Tokens(x) <= Target /\ Range(x) \subseteq W
        BY <3>2, OutHolds
      <4> QED
        BY <4>1, <4>2 DEF Packs
    <3>4. \A part \in Seq(Words) : part # <<>> /\ Held(part, s) => Held(part, t)
      <4> TAKE part \in Seq(Words)
      <4> HAVE part # <<>> /\ Held(part, s)
      <4>1. \E x \in Range(Out(s)) : Stands(part, x)
        BY OutHolds
      <4> QED
        BY <3>2, <4>1 DEF Held
    <3>5. Tokens(t.buf) + Tokens(text) <= Target
      BY <2>0, <3>2
    <3> QED
      BY <3>2, <3>3, <3>4, <3>5
  <2>2. CASE ~(s.buf # <<>> /\ Tokens(s.buf) + Tokens(text) > Target)
    <3>1. t = s
      BY <2>2
    <3> HIDE DEF t
    <3>2. Tokens(s.buf) + Tokens(text) <= Target
      <4>1. CASE s.buf = <<>>
        <5>1. Tokens(s.buf) = 0
          BY <2>0, <4>1
        <5> QED
          BY <2>0, <5>1
      <4>2. CASE s.buf # <<>>
        BY <2>0, <2>2, <4>2
      <4> QED
        BY <4>1, <4>2
    <3> QED
      BY <3>1, <3>2
  <2> QED
    BY <2>1, <2>2
<1>3. r = [out |-> t.out, buf |-> b]
  BY DEF Fill
<1> HIDE DEF t, r
<1>4. t.out \in Seq(Seq(Words)) /\ t.buf \in Seq(Words)
  BY <1>2, OutIs
<1>5. /\ b \in Seq(Words) /\ Stands(t.buf, b) /\ Stands(text, b)
      /\ Range(b) = Range(t.buf) \cup Range(text) /\ Tokens(b) = Tokens(t.buf) + Tokens(text)
  BY <1>4, StandsJoin, RangeJoin, TokensJoin
<1> HIDE DEF b
<1>6. r.out = t.out /\ r.buf = b /\ r \in Buffers(Words)
  BY <1>3, <1>4, <1>5 DEF Buffers
<1>7. Packs(r, W)
  BY <1>2, <1>5, <1>6 DEF Packs
<1>8. Held(text, r)
  BY <1>5, <1>6 DEF Held
<1>9. \A part \in Seq(Words) : part # <<>> /\ Held(part, s) => Held(part, r)
  <2> TAKE part \in Seq(Words)
  <2> HAVE part # <<>> /\ Held(part, s)
  <2>1. Held(part, t)
    BY <1>2
  <2>2. CASE Stands(part, t.buf)
    <3>1. Stands(part, b)
      BY <1>4, <1>5, <2>2, StandsTrans
    <3> QED
      BY <1>6, <3>1 DEF Held
  <2>3. CASE ~Stands(part, t.buf)
    BY <1>6, <2>1, <2>3 DEF Held
  <2> QED
    BY <2>2, <2>3
<1> QED
  BY <1>6, <1>7, <1>8, <1>9 DEF r

\* Filling keeps its type.
LEMMA FillTyped == \A s \in Buffers(Words), text \in Seq(Words) : Fill(s, text) \in Buffers(Words)
<1> TAKE s \in Buffers(Words), text \in Seq(Words)
<1> DEFINE t == IF s.buf # <<>> /\ Tokens(s.buf) + Tokens(text) > Target THEN PutOut(s) ELSE s
           b == t.buf \o text
<1>1. t \in Buffers(Words)
  BY OutIs
<1>2. Fill(s, text) = [out |-> t.out, buf |-> b]
  BY DEF Fill
<1> HIDE DEF t
<1>3. t.out \in Seq(Seq(Words)) /\ t.buf \in Seq(Words)
  BY <1>1, OutIs
<1>4. b \in Seq(Words)
  BY <1>3
<1> HIDE DEF b
<1> QED
  BY <1>2, <1>3, <1>4 DEF Buffers

\* Nothing is packed at first.
LEMMA EmptyPacks == \A W : Packs(Empty, W)
<1> TAKE W
<1>1. Empty.out = <<>> /\ Empty.buf = <<>> /\ Range(<<>>) = {}
  BY DEF Empty, Range
<1> QED
  BY <1>1, TokensEmpty, Limits DEF Packs

\* The pieces of a sentence have every word of it.
LEMMA HardSplitIs ==
  ASSUME NEW sentence \in Seq(Words)
  PROVE  /\ HardSplit(sentence) \in Seq(Seq(Words))
         /\ \A t \in Range(HardSplit(sentence)) : Tokens(t) <= Target /\ Range(t) \subseteq Range(sentence)
         /\ \A w \in Range(sentence) : \E t \in Range(HardSplit(sentence)) : Stands(<<w>>, t)
<1> DEFINE N == Len(sentence)
           B == Buffers(Words)
           W == Range(sentence)
           Is(f) == f = [n \in 0 .. N |-> IF n = 0 THEN Empty ELSE Fill(f[n - 1], <<sentence[n]>>)]
           c == CHOOSE f : Is(f)
           step == [n \in 1 .. N |-> [s \in B |-> Fill(s, <<sentence[n]>>)]]
<1>1. N \in Nat /\ Empty \in B /\ \A n \in 1 .. N : sentence[n] \in Words
  BY EmptyIs
<1>2. step \in [1 .. N -> [B -> B]]
  <2>1. \A n \in 1 .. N, s \in B : Fill(s, <<sentence[n]>>) \in B
    <3> TAKE n \in 1 .. N, s \in B
    <3>1. <<sentence[n]>> \in Seq(Words)
      BY <1>1
    <3> DEFINE x == <<sentence[n]>>
    <3> HIDE DEF x
    <3> QED
      BY <3>1, FillTyped DEF x
  <2> HIDE DEF B, N
  <2> QED
    BY <2>1
<1>3. HardSplit(sentence) = Out(c[N])
  BY DEF HardSplit
<1>4. \A n \in 1 .. N, s \in B : step[n][s] = Fill(s, <<sentence[n]>>)
  OBVIOUS
<1> HIDE DEF N, step, B
<1>5. Is(c)
  <2>1. PICK f \in [0 .. N -> B] : Loops(f, N, Empty, step)
    BY <1>1, <1>2, LoopExists
  <2>2. ASSUME NEW n \in 0 .. N
        PROVE  f[n] = IF n = 0 THEN Empty ELSE Fill(f[n - 1], <<sentence[n]>>)
    <3>1. CASE n = 0
      BY <2>1, <3>1 DEF Loops
    <3>2. CASE n # 0
      <4>1. n \in 1 .. N /\ n - 1 \in 0 .. N
        BY <1>1, <3>2
      <4>2. f[n - 1] \in B /\ f[n] = step[n][f[n - 1]]
        BY <2>1, <4>1 DEF Loops
      <4> QED
        BY <1>4, <3>2, <4>1, <4>2
    <3> QED
      BY <3>1, <3>2
  <2>3. Is(f)
    BY <2>2
  <2> HIDE DEF Is
  <2> QED
    BY <2>3
<1> HIDE DEF c
<1> DEFINE Done(n, s) == Packs(s, W) /\ \A k \in 1 .. n : Held(<<sentence[k]>>, s)
           P == {n \in 0 .. N : c[n] \in B /\ Done(n, c[n])}
<1>6. 0 \in P
  <2>1. c[0] = Empty /\ 0 \in 0 .. N
    BY <1>1, <1>5
  <2>2. Packs(Empty, W)
    BY EmptyPacks
  <2> QED
    BY <1>1, <2>1, <2>2
<1>7. ASSUME NEW n \in 1 .. N, n - 1 \in P PROVE n \in P
  <2> DEFINE x == <<sentence[n]>>
  <2>1. c[n] = Fill(c[n - 1], x)
    <3>1. n \in 0 .. N /\ n # 0
      BY <1>1
    <3>2. c = [k \in 0 .. N |-> IF k = 0 THEN Empty ELSE Fill(c[k - 1], <<sentence[k]>>)]
      BY <1>5
    <3> QED
      BY <3>1, <3>2
  <2>2. n \in 0 .. N /\ c[n - 1] \in B /\ Done(n - 1, c[n - 1])
    BY <1>1, <1>7
  <2>3. /\ x \in Seq(Words) /\ Range(x) = {sentence[n]} /\ sentence[n] \in W
        /\ \A k \in 1 .. N : <<sentence[k]>> \in Seq(Words) /\ <<sentence[k]>> # <<>>
    BY <1>1 DEF Range, N
  <2>4. Tokens(x) <= Target
    <3>1. Tokens(x) <= 1 /\ Tokens(x) \in Nat
      BY <2>3, TokensOfOne, TokensAre
    <3> QED
      BY <3>1, Limits
  <2> HIDE DEF x, W
  <2>5. /\ c[n] \in B /\ Packs(c[n], W) /\ Held(x, c[n])
        /\ \A part \in Seq(Words) : part # <<>> /\ Held(part, c[n - 1]) => Held(part, c[n])
    BY <2>1, <2>2, <2>3, <2>4, FillHolds DEF B
  <2>6. \A k \in 1 .. n : Held(<<sentence[k]>>, c[n])
    <3> TAKE k \in 1 .. n
    <3>1. CASE k = n
      BY <2>5, <3>1 DEF x
    <3>2. CASE k # n
      <4>1. k \in 1 .. n - 1 /\ k \in 1 .. N
        BY <1>1, <3>2
      <4>2. Held(<<sentence[k]>>, c[n - 1])
        BY <2>2, <4>1
      <4> QED
        BY <2>3, <2>5, <4>1, <4>2
    <3> QED
      BY <3>1, <3>2
  <2> QED
    BY <2>2, <2>5, <2>6
<1>8. N \in P
  <2>1. N \in 0 .. N
    BY <1>1
  <2> HIDE DEF P
  <2>2. \A n \in 0 .. N : n \in P
    BY <1>1, <1>6, <1>7, Upto
  <2> QED
    BY <2>1, <2>2
<1>9. c[N] \in Buffers(Words) /\ Packs(c[N], W) /\ \A k \in 1 .. N : Held(<<sentence[k]>>, c[N])
  BY <1>8 DEF B
<1>10. Out(c[N]) \in Seq(Seq(Words))
  BY <1>9, OutIs
<1>11. \A t \in Range(Out(c[N])) : Tokens(t) <= Target /\ Range(t) \subseteq W
  BY <1>9, OutHolds
<1>12. ASSUME NEW w \in W PROVE \E t \in Range(Out(c[N])) : Stands(<<w>>, t)
  <2>1. PICK k \in 1 .. N : sentence[k] = w
    BY RangeIs DEF N
  <2>2. Held(<<w>>, c[N]) /\ <<w>> \in Seq(Words) /\ <<w>> # <<>>
    BY <1>1, <1>9, <2>1
  <2> DEFINE x == <<w>>
  <2> HIDE DEF x
  <2>3. \E t \in Range(Out(c[N])) : Stands(x, t)
    BY <1>9, <2>2, OutHolds DEF x
  <2> QED
    BY <2>3 DEF x
<1> QED
  BY <1>3, <1>10, <1>11, <1>12

\* A sentence is kept as a whole or, if it is too long, word by word.
Parts(sentence) == IF Tokens(sentence) <= Target THEN {sentence} ELSE {<<w>> : w \in Range(sentence)}

\* The parts of a sentence of a text are not empty and stand in the text.
LEMMA PartsAre ==
  ASSUME NEW text \in Seq(Words), NEW sentence \in Range(Sentences(text)), NEW part \in Parts(sentence)
  PROVE  part \in Seq(Words) /\ part # <<>> /\ Stands(part, text)
<1>1. sentence \in Seq(Words) /\ Intact(text, sentence)
  <2>1. Sentences(text) \in Seq(Seq(Words)) /\ Intact(text, sentence)
    BY SentencesAre
  <2> DEFINE U == Seq(Words)
  <2>2. Sentences(text) \in Seq(U)
    BY <2>1
  <2> HIDE DEF U
  <2>3. sentence \in U
    BY <2>2, RangeIs
  <2> QED
    BY <2>1, <2>3 DEF U
<1>2. CASE Tokens(sentence) <= Target
  BY <1>1, <1>2 DEF Parts, Intact
<1>3. CASE ~(Tokens(sentence) <= Target)
  <2>1. PICK w \in Range(sentence) : part = <<w>>
    BY <1>3 DEF Parts
  <2>2. w \in Words
    BY <1>1, RangeIs
  <2>3. part \in Seq(Words) /\ part # <<>>
    BY <2>1, <2>2
  <2>4. Stands(part, sentence)
    BY <1>1, <2>1, WordStands
  <2> QED
    BY <1>1, <2>3, <2>4, StandsTrans DEF Intact
<1> QED
  BY <1>2, <1>3

\* Taking a sentence keeps the type.
LEMMA SentenceTyped ==
  \A s \in Buffers(Words), sentence \in Seq(Words) : TakeSentence(s, sentence) \in Buffers(Words)
<1> TAKE s \in Buffers(Words), sentence \in Seq(Words)
<1> DEFINE U == Seq(Words)
           o == Out(s) \o HardSplit(sentence)
<1>1. Out(s) \in Seq(U) /\ HardSplit(sentence) \in Seq(U) /\ <<>> \in Seq(Words)
  BY OutIs, HardSplitIs
<1> HIDE DEF U
<1>2. o \in Seq(U)
  BY <1>1
<1> HIDE DEF o
<1>3. [out |-> o, buf |-> <<>>] \in Buffers(Words)
  BY <1>1, <1>2 DEF Buffers, U
<1>4. Fill(s, sentence) \in Buffers(Words)
  BY FillTyped
<1> QED
  BY <1>3, <1>4 DEF TakeSentence, o

\* What was held stays held, and the parts of a sentence are held when it is taken.
LEMMA SentenceHolds ==
  ASSUME NEW s \in Buffers(Words), NEW W, Packs(s, W), NEW sentence \in Seq(Words),
         sentence # <<>>, Range(sentence) \subseteq W
  PROVE  /\ TakeSentence(s, sentence) \in Buffers(Words) /\ Packs(TakeSentence(s, sentence), W)
         /\ \A part \in Parts(sentence) : Held(part, TakeSentence(s, sentence))
         /\ \A part \in Seq(Words) : part # <<>> /\ Held(part, s) => Held(part, TakeSentence(s, sentence))
<1> DEFINE r == TakeSentence(s, sentence)
<1>0. r \in Buffers(Words)
  BY SentenceTyped
<1>1. CASE Tokens(sentence) <= Target
  <2>1. ~(Tokens(sentence) > Target)
    <3>1. Tokens(sentence) \in Nat /\ Target \in Nat
      BY TokensAre, Limits
    <3> QED
      BY <1>1, <3>1
  <2>2. r = Fill(s, sentence)
    BY <2>1 DEF TakeSentence
  <2> HIDE DEF r
  <2>3. /\ Packs(r, W) /\ Held(sentence, r)
        /\ \A part \in Seq(Words) : part # <<>> /\ Held(part, s) => Held(part, r)
    BY <1>1, <2>2, FillHolds
  <2>4. \A part \in Parts(sentence) : part = sentence
    BY <1>1 DEF Parts
  <2> QED
    BY <1>0, <2>3, <2>4 DEF r
<1>2. CASE ~(Tokens(sentence) <= Target)
  <2>1. Tokens(sentence) > Target
    <3>1. Tokens(sentence) \in Nat /\ Target \in Nat
      BY TokensAre, Limits
    <3> QED
      BY <1>2, <3>1
  <2> DEFINE h == HardSplit(sentence)
             o == Out(s) \o h
  <2>2. r = [out |-> o, buf |-> <<>>]
    BY <2>1 DEF TakeSentence
  <2> HIDE DEF r
  <2>3. r.out = o /\ r.buf = <<>>
    BY <2>2
  <2>4. Range(o) = Range(Out(s)) \cup Range(h)
    <3> DEFINE U == Seq(Words)
    <3>1. Out(s) \in Seq(U) /\ h \in Seq(U)
      BY OutIs, HardSplitIs
    <3> HIDE DEF U, h
    <3> QED
      BY <3>1, RangeJoin
  <2> HIDE DEF o
  <2>5. /\ \A t \in Range(h) : Tokens(t) <= Target /\ Range(t) \subseteq W
        /\ \A w \in Range(sentence) : \E t \in Range(h) : Stands(<<w>>, t)
    BY HardSplitIs
  <2>6. /\ \A t \in Range(Out(s)) : Tokens(t) <= Target /\ Range(t) \subseteq W
        /\ \A part \in Seq(Words) : part # <<>> /\ Held(part, s) =>
             \E t \in Range(Out(s)) : Stands(part, t)
    BY OutHolds
  <2> HIDE DEF h
  <2>7. Packs(r, W)
    <3>1. Tokens(<<>>) <= Target /\ Range(<<>>) = {}
      BY TokensEmpty, Limits DEF Range
    <3>2. Tokens(r.buf) <= Target /\ Range(r.buf) \subseteq W
      BY <2>3, <3>1
    <3>3. \A t \in Range(r.out) : Tokens(t) <= Target /\ Range(t) \subseteq W
      BY <2>3, <2>4, <2>5, <2>6
    <3> QED
      BY <3>2, <3>3 DEF Packs
  <2>8. \A part \in Parts(sentence) : Held(part, r)
    <3> TAKE part \in Parts(sentence)
    <3>1. PICK w \in Range(sentence) : part = <<w>>
      BY <1>2 DEF Parts
    <3> QED
      BY <2>3, <2>4, <2>5, <3>1 DEF Held
  <2>9. \A part \in Seq(Words) : part # <<>> /\ Held(part, s) => Held(part, r)
    BY <2>3, <2>4, <2>6 DEF Held
  <2> QED
    BY <1>0, <2>7, <2>8, <2>9 DEF r
<1> QED
  BY <1>1, <1>2

\* A text that is cut up keeps every part of its sentences.
LEMMA SplitIs ==
  ASSUME NEW text \in Seq(Words)
  PROVE  /\ SplitOversized(text) \in Seq(Seq(Words))
         /\ \A t \in Range(SplitOversized(text)) : Tokens(t) <= Target /\ Range(t) \subseteq Range(text)
         /\ \A sentence \in Range(Sentences(text)) : \A part \in Parts(sentence) :
              \E t \in Range(SplitOversized(text)) : Stands(part, t)
<1> DEFINE ss == Sentences(text)
           N == Len(ss)
           B == Buffers(Words)
           W == Range(text)
           Is(f) == f = [n \in 0 .. N |-> IF n = 0 THEN Empty ELSE TakeSentence(f[n - 1], ss[n])]
           c == CHOOSE f : Is(f)
           step == [n \in 1 .. N |-> [s \in B |-> TakeSentence(s, ss[n])]]
<1>0. SplitOversized(text) = Out(c[N])
  BY DEF SplitOversized
<1>1. N \in Nat /\ Empty \in B /\ \A n \in 1 .. N : ss[n] \in Seq(Words) /\ ss[n] \in Range(ss)
  <2> DEFINE U == Seq(Words)
  <2>1. ss \in Seq(U)
    BY SentencesAre
  <2> HIDE DEF U, ss
  <2>2. N \in Nat /\ \A n \in 1 .. N : ss[n] \in U /\ ss[n] \in Range(ss)
    BY <2>1, RangeIs
  <2> QED
    BY <2>2, EmptyIs DEF U
<1>30. \A n \in 1 .. N : ss[n] # <<>> /\ Range(ss[n]) \subseteq W
  <2> TAKE n \in 1 .. N
  <2>1. Intact(text, ss[n]) /\ ss[n] \in Seq(Words)
    BY <1>1, SentencesAre
  <2> DEFINE x == ss[n]
  <2> HIDE DEF x, ss
  <2>2. x # <<>> /\ Range(x) \subseteq Range(text)
    BY <2>1, StandsWithin DEF Intact, x
  <2> QED
    BY <2>2 DEF x
<1> HIDE DEF ss
<1>2. step \in [1 .. N -> [B -> B]]
  <2>1. \A n \in 1 .. N, s \in B : TakeSentence(s, ss[n]) \in B
    BY <1>1, SentenceTyped
  <2> HIDE DEF B, N
  <2> QED
    BY <2>1
<1>4. \A n \in 1 .. N, s \in B : step[n][s] = TakeSentence(s, ss[n])
  OBVIOUS
<1> HIDE DEF N, step, B
<1>5. Is(c)
  <2>1. PICK f \in [0 .. N -> B] : Loops(f, N, Empty, step)
    BY <1>1, <1>2, LoopExists
  <2>2. ASSUME NEW n \in 0 .. N
        PROVE  f[n] = IF n = 0 THEN Empty ELSE TakeSentence(f[n - 1], ss[n])
    <3>1. CASE n = 0
      BY <2>1, <3>1 DEF Loops
    <3>2. CASE n # 0
      <4>1. n \in 1 .. N /\ n - 1 \in 0 .. N
        BY <1>1, <3>2
      <4>2. f[n - 1] \in B /\ f[n] = step[n][f[n - 1]]
        BY <2>1, <4>1 DEF Loops
      <4> QED
        BY <1>4, <3>2, <4>1, <4>2
    <3> QED
      BY <3>1, <3>2
  <2>3. Is(f)
    BY <2>2
  <2> HIDE DEF Is
  <2> QED
    BY <2>3
<1> HIDE DEF c
<1> DEFINE Done(n, s) == Packs(s, W) /\ \A k \in 1 .. n : \A part \in Parts(ss[k]) : Held(part, s)
           P == {n \in 0 .. N : c[n] \in B /\ Done(n, c[n])}
<1>6. 0 \in P
  <2>1. c[0] = Empty /\ 0 \in 0 .. N
    BY <1>1, <1>5
  <2>2. Packs(Empty, W)
    BY EmptyPacks
  <2> QED
    BY <1>1, <2>1, <2>2
<1>7. ASSUME NEW n \in 1 .. N, n - 1 \in P PROVE n \in P
  <2> DEFINE x == ss[n]
  <2>1. c[n] = TakeSentence(c[n - 1], x)
    <3>1. n \in 0 .. N /\ n # 0
      BY <1>1
    <3>2. c = [k \in 0 .. N |-> IF k = 0 THEN Empty ELSE TakeSentence(c[k - 1], ss[k])]
      BY <1>5
    <3> QED
      BY <3>1, <3>2
  <2>2. n \in 0 .. N /\ c[n - 1] \in B /\ Done(n - 1, c[n - 1])
    BY <1>1, <1>7
  <2>3. x \in Seq(Words) /\ x # <<>> /\ Range(x) \subseteq W
    BY <1>1, <1>30
  <2> HIDE DEF x, W
  <2>4. /\ c[n] \in B /\ Packs(c[n], W)
        /\ \A part \in Parts(x) : Held(part, c[n])
        /\ \A part \in Seq(Words) : part # <<>> /\ Held(part, c[n - 1]) => Held(part, c[n])
    BY <2>1, <2>2, <2>3, SentenceHolds DEF B
  <2>5. \A k \in 1 .. n : \A part \in Parts(ss[k]) : Held(part, c[n])
    <3> TAKE k \in 1 .. n
    <3>1. CASE k = n
      BY <2>4, <3>1 DEF x
    <3>2. CASE k # n
      <4>1. k \in 1 .. n - 1 /\ k \in 1 .. N
        BY <1>1, <3>2
      <4>2. \A part \in Parts(ss[k]) : Held(part, c[n - 1])
        BY <2>2, <4>1
      <4>3. \A part \in Parts(ss[k]) : part \in Seq(Words) /\ part # <<>>
        BY <1>1, <4>1, PartsAre DEF ss
      <4> QED
        BY <2>4, <4>2, <4>3
    <3> QED
      BY <3>1, <3>2
  <2> QED
    BY <2>2, <2>4, <2>5
<1>8. N \in P
  <2>1. N \in 0 .. N
    BY <1>1
  <2> HIDE DEF P
  <2>2. \A n \in 0 .. N : n \in P
    BY <1>1, <1>6, <1>7, Upto
  <2> QED
    BY <2>1, <2>2
<1>9. c[N] \in Buffers(Words) /\ Done(N, c[N])
  BY <1>8 DEF B
<1>10. Out(c[N]) \in Seq(Seq(Words))
  BY <1>9, OutIs
<1>11. \A t \in Range(Out(c[N])) : Tokens(t) <= Target /\ Range(t) \subseteq W
  BY <1>9, OutHolds
<1>12. ASSUME NEW sentence \in Range(ss), NEW part \in Parts(sentence)
       PROVE  \E t \in Range(Out(c[N])) : Stands(part, t)
  <2>1. PICK k \in 1 .. N : ss[k] = sentence
    <3> DEFINE U == Seq(Words)
    <3>1. ss \in Seq(U)
      BY SentencesAre DEF ss
    <3> HIDE DEF U
    <3> QED
      BY <3>1, RangeIs DEF N
  <2>2. Held(part, c[N])
    BY <1>9, <2>1
  <2>3. part \in Seq(Words) /\ part # <<>>
    BY PartsAre DEF ss
  <2> QED
    BY <1>9, <2>2, <2>3, OutHolds
<1> QED
  BY <1>0, <1>10, <1>11, <1>12 DEF ss

\* The type of what is packed.
PackUnits == [text : Seq(Words), page : Nat]

\* The units of a block are short enough, on its page, with its words, and have every part
\* of its sentences.
LEMMA UnitsAre ==
  ASSUME NEW block \in ParsedBlocks
  PROVE  /\ Units(block) \in Seq(PackUnits)
         /\ \A u \in Range(Units(block)) :
              /\ u.page = block.page /\ Tokens(u.text) <= Target
              /\ Range(u.text) \subseteq Range(block.text)
         /\ \A sentence \in Range(Sentences(block.text)) : \A part \in Parts(sentence) :
              \E u \in Range(Units(block)) : Stands(part, u.text)
<1>1. block.text \in Seq(Words) /\ block.page \in Nat
  BY DEF ParsedBlocks
<1> DEFINE x == block.text
<1>2. CASE Tokens(block.text) <= Target
  <2> DEFINE u == [text |-> block.text, page |-> block.page]
  <2>1. Units(block) = <<u>>
    BY <1>2 DEF Units
  <2>2. u \in PackUnits /\ u.text = block.text /\ u.page = block.page
    BY <1>1 DEF PackUnits
  <2> HIDE DEF u
  <2>3. Units(block) \in Seq(PackUnits) /\ Range(Units(block)) = {u}
    BY <2>1, <2>2 DEF Range
  <2>4. \A sentence \in Range(Sentences(block.text)) : \A part \in Parts(sentence) :
          Stands(part, block.text)
    <3> HIDE DEF x
    <3>1. x \in Seq(Words)
      BY <1>1 DEF x
    <3>2. \A sentence \in Range(Sentences(x)) : \A part \in Parts(sentence) : Stands(part, x)
      BY <3>1, PartsAre
    <3> QED
      BY <3>2 DEF x
  <2> QED
    BY <1>2, <2>2, <2>3, <2>4
<1>3. CASE ~(Tokens(block.text) <= Target)
  <2> DEFINE texts == SplitOversized(block.text)
             U == Seq(Words)
             us == [i \in DOMAIN texts |-> [text |-> texts[i], page |-> block.page]]
  <2>1. Units(block) = us
    BY <1>3 DEF Units
  <2>2. /\ texts \in Seq(U)
        /\ \A t \in Range(texts) : Tokens(t) <= Target /\ Range(t) \subseteq Range(block.text)
        /\ \A sentence \in Range(Sentences(block.text)) : \A part \in Parts(sentence) :
             \E t \in Range(texts) : Stands(part, t)
    BY <1>1, SplitIs
  <2> HIDE DEF texts, U
  <2>3. /\ DOMAIN texts = 1 .. Len(texts) /\ Len(texts) \in Nat
        /\ \A i \in 1 .. Len(texts) : texts[i] \in U /\ texts[i] \in Range(texts)
    BY <2>2, RangeIs
  <2>4. \A i \in 1 .. Len(texts) : /\ us[i] \in PackUnits
                                   /\ us[i].text = texts[i] /\ us[i].page = block.page
    BY <1>1, <2>3 DEF PackUnits, U
  <2>5. DOMAIN us = 1 .. Len(texts) /\ us \in Seq(PackUnits)
    <3>1. DOMAIN us = 1 .. Len(texts) /\ us = [i \in 1 .. Len(texts) |-> us[i]]
      BY <2>3
    <3> HIDE DEF us
    <3>2. us \in [1 .. Len(texts) -> PackUnits]
      BY <2>4, <3>1
    <3> QED
      BY <2>3, <3>1, <3>2
  <2> HIDE DEF us
  <2>6. Range(us) = {us[i] : i \in 1 .. Len(texts)}
    BY <2>5 DEF Range
  <2>7. \A u \in Range(us) : u.page = block.page /\ Tokens(u.text) <= Target
                             /\ Range(u.text) \subseteq Range(block.text)
    BY <2>2, <2>3, <2>4, <2>6
  <2>8. \A t \in Range(texts) : \E u \in Range(us) : u.text = t
    BY <2>2, <2>3, <2>4, <2>6, RangeIs
  <2>9. \A sentence \in Range(Sentences(block.text)) : \A part \in Parts(sentence) :
          \E u \in Range(us) : Stands(part, u.text)
    BY <2>2, <2>8
  <2> QED
    BY <2>1, <2>5, <2>7, <2>9
<1> QED
  BY <1>2, <1>3

-----------------------------------------------------------------------------
(* The tail that is carried over. *)

\* Between two blank lines it has no more words than a piece may have.
Short(text) ==
  \A part \in Seq(Words) : Break \notin Range(part) /\ Stands(part, text) => Tokens(part) <= Target

\* A text within the target is short.
LEMMA ShortIf == ASSUME NEW text \in Seq(Words), Tokens(text) <= Target PROVE Short(text)
<1> SUFFICES ASSUME NEW part \in Seq(Words), Stands(part, text) PROVE Tokens(part) <= Target
  BY DEF Short
<1>1. Tokens(part) <= Tokens(text) /\ Tokens(part) \in Nat /\ Tokens(text) \in Nat /\ Target \in Nat
  BY StandsWithin, TokensAre, Limits
<1> QED
  BY <1>1

\* So is a short text under another short one.
LEMMA ShortUnder ==
  ASSUME NEW a \in Seq(Words), NEW b \in Seq(Words), Short(a), Short(b)
  PROVE  Short(Under(a, b))
<1>1. CASE a = <<>>
  BY <1>1, UnderIs
<1>2. CASE a # <<>>
  <2> DEFINE d == Under(a, b)
  <2>1. /\ d \in Seq(Words) /\ Len(d) = Len(a) + 1 + Len(b) /\ Len(a) \in Nat /\ Len(b) \in Nat
        /\ \A i \in 1 .. Len(a) : d[i] = a[i]
        /\ d[Len(a) + 1] = Break
        /\ \A i \in 1 .. Len(b) : d[Len(a) + 1 + i] = b[i]
    <3>1. Len(a) \in Nat /\ Len(b) \in Nat
      OBVIOUS
    <3> HIDE DEF d
    <3>2. /\ d \in Seq(Words) /\ Len(d) = Len(a) + 1 + Len(b)
          /\ \A i \in 1 .. Len(a) : d[i] = a[i]
          /\ d[Len(a) + 1] = Break
          /\ \A i \in 1 .. Len(b) : d[Len(a) + 1 + i] = b[i]
      BY <1>2, UnderIs DEF d
    <3> QED
      BY <3>1, <3>2
  <2> HIDE DEF d
  <2> SUFFICES ASSUME NEW part \in Seq(Words), Break \notin Range(part), Stands(part, d)
               PROVE  Tokens(part) <= Target
    BY DEF Short, d
  <2>2. PICK i \in Nat : StandsAt(part, d, i)
    BY <2>1, StandsIs
  <2>3. Len(part) \in Nat /\ i + Len(part) <= Len(d) /\ \A k \in 1 .. Len(part) : d[i + k] = part[k]
    BY <2>2 DEF StandsAt
  <2>4. CASE i + Len(part) <= Len(a)
    <3>1. \A k \in 1 .. Len(part) : i + k \in 1 .. Len(a)
      BY <2>1, <2>3, <2>4
    <3>2. StandsAt(part, a, i)
      BY <2>1, <2>3, <2>4, <3>1 DEF StandsAt
    <3>3. Stands(part, a)
      BY <3>2, StandsIs
    <3> QED
      BY <3>3 DEF Short
  <2>5. CASE i >= Len(a) + 1
    <3> DEFINE j == i - (Len(a) + 1)
    <3>1. j \in Nat /\ j + Len(part) <= Len(b)
      BY <2>1, <2>3, <2>5
    <3>2. \A k \in 1 .. Len(part) : j + k \in 1 .. Len(b) /\ Len(a) + 1 + (j + k) = i + k
      BY <2>1, <2>3, <2>5
    <3> HIDE DEF j
    <3>3. \A k \in 1 .. Len(part) : b[j + k] = part[k]
      BY <2>1, <2>3, <3>2
    <3>4. StandsAt(part, b, j)
      BY <3>1, <3>3 DEF StandsAt
    <3>5. Stands(part, b)
      BY <3>1, <3>4, StandsIs
    <3> QED
      BY <3>5 DEF Short
  <2>6. CASE ~(i + Len(part) <= Len(a)) /\ ~(i >= Len(a) + 1)
    <3> DEFINE k == Len(a) + 1 - i
    <3>1. k \in 1 .. Len(part) /\ i + k = Len(a) + 1
      BY <2>1, <2>3, <2>6
    <3> HIDE DEF k
    <3>2. part[k] = Break
      BY <2>1, <2>3, <3>1
    <3>3. Break \in Range(part)
      BY <3>1, <3>2, RangeIs
    <3> QED
      BY <3>3
  <2> QED
    BY <2>4, <2>5, <2>6
<1> QED
  BY <1>1, <1>2

\* A text under another one has the words of both and a blank line.
LEMMA UnderRange ==
  ASSUME NEW a \in Seq(Words), NEW b \in Seq(Words)
  PROVE  /\ Range(Under(a, b)) \subseteq Range(a) \cup {Break} \cup Range(b)
         /\ Range(a) \subseteq Range(Under(a, b)) /\ Range(b) \subseteq Range(Under(a, b))
<1>1. CASE a = <<>>
  <2>1. Under(a, b) = b /\ Range(a) = {}
    BY <1>1, UnderIs, RangeIs
  <2> QED
    BY <2>1
<1>2. CASE a # <<>>
  <2> DEFINE x == <<Break>>
             c == x \o b
  <2>1. x \in Seq(Words) /\ Range(x) = {Break}
    BY BreakIs DEF Range
  <2>2. Under(a, b) = a \o c
    BY <1>2 DEF Under
  <2> HIDE DEF x
  <2>3. c \in Seq(Words)
    BY <2>1
  <2>4. Range(c) = Range(x) \cup Range(b)
    BY <2>1, RangeJoin
  <2> HIDE DEF c
  <2>5. Range(a \o c) = Range(a) \cup Range(c)
    BY <2>3, RangeJoin
  <2> QED
    BY <2>1, <2>2, <2>4, <2>5
<1> QED
  BY <1>1, <1>2

\* What is flattened has the elements of its sequences.
LEMMA FlattenHas ==
  ASSUME NEW S, NEW ss \in Seq(Seq(S))
  PROVE  /\ FlattenSeq(ss) \in Seq(S)
         /\ \A x \in Range(FlattenSeq(ss)) : \E i \in 1 .. Len(ss) : x \in Range(ss[i])
         /\ \A i \in 1 .. Len(ss) : Range(ss[i]) \subseteq Range(FlattenSeq(ss))
<1> DEFINE t == FlattenSeq(ss)
<1>1. t \in Seq(S) /\ \E off : Offsets(Len(ss), ss, t, off)
  BY FlattenPlaces
<1> HIDE DEF t
<1>2. PICK off : Offsets(Len(ss), ss, t, off)
  BY <1>1
<1>3. \A i \in 1 .. Len(ss) : ss[i] \in Seq(S)
  OBVIOUS
<1>4. ASSUME NEW p \in 1 .. Len(t) PROVE \E i \in 1 .. Len(ss) : t[p] \in Range(ss[i])
  <2>1. PICK i \in 1 .. Len(ss) : \E k \in 1 .. Len(ss[i]) : p = off[i] + k
    BY <1>2 DEF Offsets
  <2>2. PICK k \in 1 .. Len(ss[i]) : p = off[i] + k
    BY <2>1
  <2>3. t[p] = ss[i][k]
    BY <1>2, <2>2 DEF Offsets
  <2>4. ss[i][k] \in Range(ss[i])
    BY <1>3, RangeIs
  <2> QED
    BY <2>3, <2>4
<1>5. ASSUME NEW i \in 1 .. Len(ss), NEW k \in 1 .. Len(ss[i]) PROVE ss[i][k] \in Range(t)
  <2>1. off[i] + Len(ss[i]) <= Len(t) /\ t[off[i] + k] = ss[i][k] /\ off[i] \in Nat
    BY <1>2 DEF Offsets
  <2>2. Len(ss[i]) \in Nat /\ Len(t) \in Nat
    BY <1>1, <1>3
  <2> DEFINE p == off[i] + k
  <2>3. p \in 1 .. Len(t) /\ t[p] = ss[i][k]
    BY <2>1, <2>2, Within
  <2> HIDE DEF p
  <2>4. t[p] \in Range(t)
    BY <1>1, <2>3, RangeIs, SMTT(30)
  <2> QED
    BY <2>3, <2>4
<1>6. \A x \in Range(t) : \E i \in 1 .. Len(ss) : x \in Range(ss[i])
  BY <1>1, <1>4, RangeIs, SMTT(20)
<1>7. ASSUME NEW i \in 1 .. Len(ss) PROVE Range(ss[i]) \subseteq Range(t)
  <2> DEFINE s == ss[i]
             T == Range(t)
  <2>1. s \in Seq(S) /\ \A k \in 1 .. Len(s) : s[k] \in T
    BY <1>3, <1>5
  <2> HIDE DEF s, T
  <2>2. Range(s) = {s[k] : k \in 1 .. Len(s)}
    BY <2>1, RangeIs
  <2>3. Range(s) \subseteq T
    BY <2>1, <2>2
  <2> QED
    BY <2>3 DEF s, T
<1> QED
  BY <1>1, <1>6, <1>7 DEF t

\* Flattening one sequence gives it.
LEMMA FlattenOne == ASSUME NEW S, NEW ss \in Seq(Seq(S)), Len(ss) = 1 PROVE FlattenSeq(ss) = ss[1]
<1> DEFINE h == CHOOSE g : Flattens(ss, g)
<1>1. Flattens(ss, h)
  BY FlattenExists
<1>2. FlattenSeq(ss) = h[Len(ss)]
  BY DEF FlattenSeq, Flattens
<1> HIDE DEF h
<1>3. \A i \in 1 .. Len(ss) : h[i] = IF i = 1 THEN ss[i] ELSE h[i - 1] \o ss[i]
  BY <1>1 DEF Flattens
<1>4. 1 \in 1 .. Len(ss)
  OBVIOUS
<1> QED
  BY <1>2, <1>3, <1>4

\* The end of a sequence.
LEMMA Ending ==
  ASSUME NEW S, NEW seq \in Seq(S), NEW k \in 1 .. Len(seq)
  PROVE  /\ SubSeq(seq, k, Len(seq)) \in Seq(S)
         /\ Len(SubSeq(seq, k, Len(seq))) = Len(seq) - k + 1
         /\ \A i \in 1 .. Len(seq) - k + 1 : SubSeq(seq, k, Len(seq))[i] = seq[i + k - 1]
<1> DEFINE N == Len(seq)
           m == N - k + 1
           t == SubSeq(seq, k, N)
<1>1. N \in Nat /\ m \in Nat /\ \A i \in 1 .. m : i + k - 1 \in 1 .. N
  OBVIOUS
<1>2. t = [i \in 1 .. m |-> seq[i + k - 1]]
  BY SMT
<1>3. \A i \in 1 .. m : seq[i + k - 1] \in S
  BY <1>1
<1> HIDE DEF m, t
<1>4. t \in [1 .. m -> S]
  BY <1>2, <1>3
<1>5. t \in Seq(S) /\ DOMAIN t = 1 .. m
  BY <1>1, <1>4
<1>6. Len(t) = m
  BY <1>1, <1>5
<1> QED
  BY <1>2, <1>5, <1>6 DEF m, t

\* The tail is of words of the text, and no longer than the target when the text is short.
LEMMA TailIs ==
  ASSUME NEW text \in Seq(Words)
  PROVE  /\ TailTokens(text) \in Seq(Words)
         /\ Range(TailTokens(text)) \subseteq Range(text)
         /\ Short(text) => Tokens(TailTokens(text)) <= Target
<1> DEFINE ss == Sentences(text)
           N == Len(ss)
           From(k) == FlattenSeq(SubSeq(ss, k, Len(ss)))
           starts == {k \in DOMAIN ss : k = Len(ss) \/ Tokens(From(k)) <= Overlap}
           U == Seq(Words)
<1>1. TailTokens(text) = IF Overlap = 0 \/ ss = <<>> THEN <<>> ELSE From(Min(starts))
  BY DEF TailTokens
<1>2. ss \in Seq(U) /\ \A t \in Range(ss) : Intact(text, t)
  BY SentencesAre
<1> HIDE DEF ss, U
<1>3. /\ DOMAIN ss = 1 .. N /\ N \in Nat /\ (ss # <<>> => N \in 1 .. N)
      /\ \A k \in 1 .. N : ss[k] \in U /\ ss[k] \in Range(ss)
  <2>1. N \in Nat /\ (ss # <<>> => N # 0) /\ DOMAIN ss = 1 .. N
    BY <1>2
  <2> QED
    BY <1>2, <2>1, RangeIs
<1>4. ASSUME NEW k \in 1 .. N
      PROVE  /\ From(k) \in Seq(Words) /\ Range(From(k)) \subseteq Range(text)
             /\ k = N => From(k) = ss[N]
  <2> DEFINE x == SubSeq(ss, k, Len(ss))
  <2>1. /\ x \in Seq(U) /\ Len(x) = N - k + 1
        /\ \A i \in 1 .. N - k + 1 : x[i] = ss[i + k - 1]
    BY <1>2, Ending
  <2> HIDE DEF x
  <2>2. /\ FlattenSeq(x) \in Seq(Words)
        /\ \A w \in Range(FlattenSeq(x)) : \E i \in 1 .. Len(x) : w \in Range(x[i])
    BY <2>1, FlattenHas DEF U
  <2>3. \A i \in 1 .. Len(x) : x[i] \in Seq(Words) /\ Stands(x[i], text)
    <3> TAKE i \in 1 .. Len(x)
    <3>1. i + k - 1 \in 1 .. N /\ x[i] = ss[i + k - 1]
      BY <1>3, <2>1
    <3> QED
      BY <1>2, <1>3, <3>1 DEF Intact, U
  <2>4. \A i \in 1 .. Len(x) : Range(x[i]) \subseteq Range(text)
    <3> TAKE i \in 1 .. Len(x)
    <3> DEFINE y == x[i]
    <3>1. y \in Seq(Words) /\ Stands(y, text)
      BY <2>3
    <3> HIDE DEF y
    <3>2. Range(y) \subseteq Range(text)
      BY <3>1, StandsWithin
    <3> QED
      BY <3>2 DEF y
  <2>5. k = N => FlattenSeq(x) = ss[N]
    <3> SUFFICES ASSUME k = N PROVE FlattenSeq(x) = ss[N]
      OBVIOUS
    <3>1. Len(x) = 1 /\ x[1] = ss[N]
      BY <1>3, <2>1
    <3> QED
      BY <2>1, <3>1, FlattenOne DEF U
  <2> QED
    BY <2>2, <2>4, <2>5 DEF x
<1>5. CASE Overlap = 0 \/ ss = <<>>
  <2>1. TailTokens(text) = <<>> /\ <<>> \in Seq(Words) /\ Range(<<>>) = {} /\ Tokens(<<>>) <= Target
    BY <1>1, <1>5, TokensEmpty, Limits DEF Range
  <2> QED
    BY <2>1
<1>6. CASE ~(Overlap = 0 \/ ss = <<>>)
  <2> DEFINE k == Min(starts)
  <2>1. starts \in SUBSET (1 .. N) /\ N \in starts
    BY <1>3, <1>6
  <2>2. \A j \in starts : j = N \/ Tokens(From(j)) <= Overlap
    OBVIOUS
  <2> HIDE DEF starts, From
  <2>3. k \in starts
    BY <1>3, <2>1, LeastOf
  <2> HIDE DEF k
  <2>4. TailTokens(text) = From(k) /\ k \in 1 .. N
    BY <1>1, <1>6, <2>1, <2>3 DEF k
  <2>5. From(k) \in Seq(Words) /\ Range(From(k)) \subseteq Range(text) /\ (k = N => From(k) = ss[N])
    BY <1>4, <2>4
  <2>6. Short(text) => Tokens(From(k)) <= Target
    <3> SUFFICES ASSUME Short(text) PROVE Tokens(From(k)) <= Target
      OBVIOUS
    <3>1. CASE k = N
      <4>1. From(k) = ss[N] /\ Intact(text, ss[N])
        BY <1>2, <1>3, <2>4, <2>5, <3>1
      <4> QED
        BY <2>5, <4>1 DEF Short, Intact
    <3>2. CASE k # N
      <4>1. Tokens(From(k)) <= Overlap
        BY <2>2, <2>3, <3>2
      <4>2. Tokens(From(k)) \in Nat
        BY <2>5, TokensAre
      <4> QED
        BY <4>1, <4>2, Limits
    <3> QED
      BY <3>1, <3>2
  <2> QED
    BY <2>4, <2>5, <2>6
<1> QED
  BY <1>5, <1>6

-----------------------------------------------------------------------------
(* Packing units into pieces. *)

\* The types of what is packed.
Pieces == [text : Seq(Words), from : Nat, to : Nat]
\* The type of the packing loop.
Packings == [out : Seq(Pieces), buf : Seq(Words), from : Nat, to : Nat]

\* The pieces put out, and the one under construction.
AllPieces(s) == Append(s.out, Piece(s))

\* A piece under construction is a piece.
LEMMA PackingIs ==
  ASSUME NEW s \in Packings
  PROVE  /\ s.out \in Seq(Pieces) /\ s.buf \in Seq(Words) /\ s.from \in Nat /\ s.to \in Nat
         /\ Piece(s) \in Pieces
         /\ Piece(s).text = s.buf /\ Piece(s).from = s.from /\ Piece(s).to = s.to
         /\ AllPieces(s) \in Seq(Pieces)
<1>1. s.out \in Seq(Pieces) /\ s.buf \in Seq(Words) /\ s.from \in Nat /\ s.to \in Nat
  BY DEF Packings
<1>2. /\ Piece(s) \in Pieces
      /\ Piece(s).text = s.buf /\ Piece(s).from = s.from /\ Piece(s).to = s.to
  BY <1>1 DEF Piece, Pieces
<1>3. AllPieces(s) \in Seq(Pieces)
  BY <1>1, <1>2 DEF AllPieces
<1> QED
  BY <1>1, <1>2, <1>3

\* The unit does not fit under what is there.
Overflows(s, unit) == s.buf # <<>> /\ Tokens(s.buf) + Tokens(unit.text) > Target

\* Taking a unit keeps the type.
LEMMA UnitTaken ==
  ASSUME NEW s \in Packings, NEW unit \in PackUnits
  PROVE  LET r == TakeUnit(s, unit) IN
         /\ r \in Packings /\ r.to = unit.page
         /\ Overflows(s, unit) =>
              /\ r.out = AllPieces(s) /\ r.buf = Under(TailTokens(s.buf), unit.text)
              /\ r.from = IF s.to = 0 THEN unit.page ELSE s.to
         /\ ~Overflows(s, unit) =>
              /\ r.out = s.out /\ r.buf = Under(s.buf, unit.text)
              /\ r.from = IF s.from = 0 THEN unit.page ELSE s.from
<1> DEFINE t == IF s.buf # <<>> /\ Tokens(s.buf) + Tokens(unit.text) > Target THEN Flush(s) ELSE s
           r == TakeUnit(s, unit)
           b == Under(t.buf, unit.text)
<1>1. /\ s.out \in Seq(Pieces) /\ s.buf \in Seq(Words) /\ s.from \in Nat /\ s.to \in Nat
      /\ AllPieces(s) \in Seq(Pieces) /\ TailTokens(s.buf) \in Seq(Words)
  BY PackingIs, TailIs
<1>2. unit.text \in Seq(Words) /\ unit.page \in Nat
  BY DEF PackUnits
<1>3. r = [out |-> t.out, buf |-> b, to |-> unit.page,
           from |-> IF t.from = 0 THEN unit.page ELSE t.from]
  BY DEF TakeUnit
<1>4. CASE Overflows(s, unit)
  <2>1. t = Flush(s)
    BY <1>4 DEF Overflows
  <2>2. Flush(s) = [out |-> AllPieces(s), buf |-> TailTokens(s.buf), from |-> s.to, to |-> s.to]
    BY DEF Flush, AllPieces
  <2> HIDE DEF t, r
  <2>3. t.out = AllPieces(s) /\ t.buf = TailTokens(s.buf) /\ t.from = s.to
    BY <2>1, <2>2
  <2>4. b \in Seq(Words) /\ b = Under(TailTokens(s.buf), unit.text)
    BY <1>1, <1>2, <2>3, UnderIs
  <2> HIDE DEF b
  <2>5. /\ r.out = AllPieces(s) /\ r.buf = b /\ r.to = unit.page
        /\ r.from = IF s.to = 0 THEN unit.page ELSE s.to
    BY <1>3, <2>3
  <2>6. r \in Packings
    BY <1>1, <1>2, <1>3, <2>3, <2>4 DEF Packings
  <2> QED
    BY <1>4, <2>4, <2>5, <2>6 DEF r
<1>5. CASE ~Overflows(s, unit)
  <2>1. t = s
    BY <1>5 DEF Overflows
  <2> HIDE DEF t, r
  <2>2. b \in Seq(Words) /\ b = Under(s.buf, unit.text)
    BY <1>1, <1>2, <2>1, UnderIs
  <2> HIDE DEF b
  <2>3. /\ r.out = s.out /\ r.buf = b /\ r.to = unit.page
        /\ r.from = IF s.from = 0 THEN unit.page ELSE s.from
    BY <1>3, <2>1
  <2>4. r \in Packings
    BY <1>1, <1>2, <1>3, <2>1, <2>2 DEF Packings
  <2> QED
    BY <1>5, <2>2, <2>3, <2>4 DEF r
<1> QED
  BY <1>4, <1>5

\* The units are short, and their pages go up.
Units2Pack(U) ==
  /\ U \in Seq(PackUnits)
  /\ \A m \in 1 .. Len(U) : Tokens(U[m].text) <= Target
  /\ \A l, m \in 1 .. Len(U) : l < m => Follows(U[m].page, U[l].page)

\* q has pieces of the first n units: none is too long.
Sized(q) == \A k \in 1 .. Len(q) : Tokens(q[k].text) <= 2 * Target /\ Short(q[k].text)

\* A word of a piece is of a unit on the pages of the piece, or the piece before has it.
Comes(U, n, q, k, w) ==
  \/ w = Break
  \/ \E m \in 1 .. n : /\ w \in Range(U[m].text)
                       /\ \/ k > 1 /\ w \in Range(q[k - 1].text)
                          \/ q[k].from <= U[m].page /\ U[m].page <= q[k].to
\* Every word of a piece comes from a unit.
Sourced(U, n, q) == \A k \in 1 .. Len(q) : \A w \in Range(q[k].text) : Comes(U, n, q, k, w)

\* The pages of the pieces go up and are pages of the units.
Paged(U, n, q) ==
  /\ \A k, l \in 1 .. Len(q) : k < l => q[k].from <= q[l].from /\ q[k].to <= q[l].to
  /\ n # 0 => \A k \in 1 .. Len(q) :
       /\ q[k].from <= q[k].to /\ q[k].to <= U[n].page
       /\ \E m \in 1 .. n : q[k].from = U[m].page
       /\ \E m \in 1 .. n : q[k].to = U[m].page

\* What stands in a unit stands in a piece.
Covers(U, n, q) ==
  \A m \in 1 .. n : \A part \in Seq(Words) :
    part # <<>> /\ Stands(part, U[m].text) => \E k \in 1 .. Len(q) : Stands(part, q[k].text)

\* What is true of the pieces of the first n units.
Packed(U, n, q) ==
  q \in Seq(Pieces) /\ Sized(q) /\ Sourced(U, n, q) /\ Paged(U, n, q) /\ Covers(U, n, q)

\* What is put after a sequence.
LEMMA After ==
  ASSUME NEW S, NEW q \in Seq(S), NEW p \in S
  PROVE  /\ Append(q, p) \in Seq(S) /\ Len(Append(q, p)) = Len(q) + 1 /\ Len(q) \in Nat
         /\ Append(q, p)[Len(q) + 1] = p
         /\ \A k \in 1 .. Len(q) : Append(q, p)[k] = q[k]
OBVIOUS

\* A unit is a text within the target, of a page.
LEMMA UnitIs ==
  ASSUME NEW U, Units2Pack(U), NEW n \in 1 .. Len(U)
  PROVE  /\ U[n].text \in Seq(Words) /\ U[n].page \in Nat
         /\ Tokens(U[n].text) <= Target
         /\ \A m \in 1 .. n : m \in 1 .. Len(U) /\ U[m].page <= U[n].page /\ U[m].page \in Nat
         /\ n \in Nat /\ Len(U) \in Nat
<1>1. U \in Seq(PackUnits) /\ Len(U) \in Nat /\ n \in Nat
  BY DEF Units2Pack
<1>2. \A m \in 1 .. Len(U) : U[m].text \in Seq(Words) /\ U[m].page \in Nat
  <2>1. \A m \in 1 .. Len(U) : U[m] \in PackUnits
    BY <1>1
  <2> QED
    BY <2>1 DEF PackUnits
<1>3. \A m \in 1 .. n : m \in 1 .. Len(U) /\ (m = n \/ m < n)
  BY <1>1
<1>4. \A m \in 1 .. n : U[m].page <= U[n].page
  BY <1>2, <1>3 DEF Units2Pack, Follows
<1> QED
  BY <1>1, <1>2, <1>3, <1>4 DEF Units2Pack

\* The tail of the last piece and one more unit make the next piece.
LEMMA PackedFlush ==
  ASSUME NEW U, Units2Pack(U), NEW n \in 1 .. Len(U), n # 1, NEW q, Packed(U, n - 1, q),
         Len(q) # 0, NEW tail \in Seq(Words), Range(tail) \subseteq Range(q[Len(q)].text),
         Tokens(tail) <= Target, NEW p \in Pieces, p.text = Under(tail, U[n].text),
         p.from = q[Len(q)].to, p.to = U[n].page
  PROVE  Packed(U, n, Append(q, p))
<1> DEFINE L == Len(q)
           r == Append(q, p)
           x == U[n].text
           page == U[n].page
<1>1. /\ x \in Seq(Words) /\ page \in Nat /\ Tokens(x) <= Target
      /\ \A m \in 1 .. n : m \in 1 .. Len(U) /\ U[m].page <= page /\ U[m].page \in Nat
      /\ n \in Nat /\ Len(U) \in Nat
  BY UnitIs
<1>2. q \in Seq(Pieces)
  BY DEF Packed
<1>3. /\ r \in Seq(Pieces) /\ Len(r) = L + 1 /\ L \in Nat /\ r[L + 1] = p
      /\ \A k \in 1 .. L : r[k] = q[k]
  BY <1>2, After
<1>4. L \in 1 .. L /\ n - 1 \in 1 .. n /\ n - 1 # 0
  BY <1>1, <1>3
<1>5. \A k \in 1 .. Len(r) : k = L + 1 \/ k \in 1 .. L
  BY <1>3
<1>6. \A k \in 1 .. L : q[k].from \in Nat /\ q[k].to \in Nat /\ q[k].text \in Seq(Words)
  <2>1. \A k \in 1 .. L : q[k] \in Pieces
    BY <1>2
  <2> QED
    BY <2>1 DEF Pieces
<1> HIDE DEF r, L, page
<1>7. Sized(r)
  <2>1. Tokens(p.text) <= 2 * Target
    <3>1. Tokens(p.text) = Tokens(tail) + Tokens(x) /\ Tokens(tail) \in Nat /\ Tokens(x) \in Nat
      <4>1. x \in Seq(Words) /\ p.text = Under(tail, x)
        BY <1>1
      <4> HIDE DEF x
      <4>2. Tokens(p.text) = Tokens(tail) + Tokens(x)
        BY <4>1, UnderIs
      <4> QED
        BY <4>1, <4>2, TokensAre
    <3> QED
      BY <1>1, <3>1, Limits
  <2>2. Short(p.text)
    BY <1>1, ShortIf, ShortUnder
  <2>3. \A k \in 1 .. L : Tokens(r[k].text) <= 2 * Target /\ Short(r[k].text)
    BY <1>3 DEF Packed, Sized, L
  <2>4. \A k \in 1 .. Len(r) : Tokens(r[k].text) <= 2 * Target /\ Short(r[k].text)
    BY <1>3, <1>5, <2>1, <2>2, <2>3
  <2> QED
    BY <2>4 DEF Sized
<1>8. Sourced(U, n, r)
  <2>1. ASSUME NEW k \in 1 .. L, NEW w \in Range(r[k].text) PROVE Comes(U, n, r, k, w)
    <3>1. Comes(U, n - 1, q, k, w)
      BY <1>3, <2>1 DEF Packed, Sourced, L
    <3>2. \A m \in 1 .. n - 1 : m \in 1 .. n
      BY <1>1
    <3>3. k > 1 => r[k - 1] = q[k - 1]
      <4>1. k > 1 => k - 1 \in 1 .. L
        BY <1>3
      <4> QED
        BY <1>3, <4>1
    <3>4. r[k] = q[k]
      BY <1>3
    <3> QED
      BY <3>1, <3>2, <3>3, <3>4 DEF Comes
  <2>2. ASSUME NEW w \in Range(p.text) PROVE Comes(U, n, r, L + 1, w)
    <3>1. w = Break \/ w \in Range(tail) \/ w \in Range(x)
      BY <1>1, UnderRange
    <3>2. CASE w \in Range(tail)
      <4>1. Comes(U, n - 1, q, L, w)
        BY <1>4, <3>2 DEF Packed, Sourced, L
      <4>2. \A m \in 1 .. n - 1 : m \in 1 .. n
        BY <1>1
      <4>3. L + 1 > 1 /\ (L + 1) - 1 = L /\ r[L] = q[L]
        BY <1>3, <1>4
      <4>4. w \in Range(r[(L + 1) - 1].text)
        BY <3>2, <4>3 DEF L
      <4>5. w = Break \/ \E m \in 1 .. n : w \in Range(U[m].text)
        BY <4>1, <4>2 DEF Comes
      <4> QED
        BY <4>3, <4>4, <4>5 DEF Comes
    <3>3. CASE w \in Range(x)
      <4>1. p.from <= page /\ page <= p.to
        <5>1. q[L].to <= U[n - 1].page
          BY <1>4 DEF Packed, Paged, L
        <5>2. U[n - 1].page <= page /\ U[n - 1].page \in Nat /\ q[L].to \in Nat
          BY <1>1, <1>4, <1>6
        <5> DEFINE a == q[L].to
                   c == U[n - 1].page
        <5> HIDE DEF a, c
        <5>3. a <= page
          <6>1. a \in Nat /\ c \in Nat /\ a <= c /\ c <= page
            BY <5>1, <5>2 DEF a, c
          <6> QED
            BY <1>1, <6>1
        <5>4. p.from = a /\ p.to = page
          BY DEF L, page, a
        <5> QED
          BY <1>1, <5>3, <5>4
      <4>2. n \in 1 .. n
        BY <1>1
      <4> QED
        BY <1>3, <3>3, <4>1, <4>2 DEF Comes, page
    <3> QED
      BY <3>1, <3>2, <3>3 DEF Comes
  <2> QED
    BY <1>3, <1>5, <2>1, <2>2 DEF Sourced
<1>9. /\ \A k \in 1 .. L : /\ q[k].from <= q[k].to /\ q[k].to <= U[n - 1].page
                           /\ \E m \in 1 .. n - 1 : q[k].from = U[m].page
                           /\ \E m \in 1 .. n - 1 : q[k].to = U[m].page
      /\ \A k, l \in 1 .. L : k < l => q[k].from <= q[l].from /\ q[k].to <= q[l].to
  BY <1>4 DEF Packed, Paged, L
<1>10. U[n - 1].page <= page /\ U[n - 1].page \in Nat
  BY <1>1, <1>4
<1>11. \A k \in 1 .. L : q[k].to <= page
  <2> DEFINE c == U[n - 1].page
  <2>1. c \in Nat /\ c <= page /\ \A k \in 1 .. L : q[k].to <= c /\ q[k].to \in Nat
    BY <1>6, <1>9, <1>10
  <2> HIDE DEF c
  <2> TAKE k \in 1 .. L
  <2> DEFINE a == q[k].to
  <2>2. a \in Nat /\ a <= c
    BY <2>1
  <2> HIDE DEF a
  <2>3. a <= page
    BY <1>1, <2>1, <2>2
  <2> QED
    BY <2>3 DEF a
<1>12. \A k \in 1 .. L : q[k].from <= p.from /\ q[k].to <= p.to
  <2> TAKE k \in 1 .. L
  <2>1. q[k].from <= q[k].to /\ (k = L \/ q[k].to <= q[L].to)
    <3>1. k = L \/ k < L
      BY <1>3
    <3> QED
      BY <1>4, <1>9, <3>1
  <2> DEFINE a == q[k].from
             b == q[k].to
             c == q[L].to
  <2>2. a \in Nat /\ b \in Nat /\ c \in Nat /\ a <= b /\ (k = L \/ b <= c) /\ (k = L => b = c)
    BY <1>4, <1>6, <2>1
  <2> HIDE DEF a, b, c
  <2>3. a <= c
    BY <2>2
  <2> QED
    BY <1>11, <2>3 DEF a, b, c, L, page
<1>13. Paged(U, n, r)
  <2>1. ASSUME NEW k \in 1 .. Len(r), NEW l \in 1 .. Len(r), k < l
        PROVE  r[k].from <= r[l].from /\ r[k].to <= r[l].to
    <3>1. k \in 1 .. L
      BY <1>3, <1>5, <2>1
    <3>2. CASE l = L + 1
      BY <1>3, <1>12, <3>1, <3>2
    <3>3. CASE l \in 1 .. L
      BY <1>3, <1>9, <2>1, <3>1, <3>3
    <3> QED
      BY <1>5, <3>2, <3>3
  <2>2. ASSUME NEW k \in 1 .. Len(r)
        PROVE  /\ r[k].from <= r[k].to /\ r[k].to <= page
               /\ \E m \in 1 .. n : r[k].from = U[m].page
               /\ \E m \in 1 .. n : r[k].to = U[m].page
    <3>1. (\A m \in 1 .. n - 1 : m \in 1 .. n) /\ n \in 1 .. n
      BY <1>1
    <3>2. CASE k \in 1 .. L
      <4>1. r[k] = q[k]
        BY <1>3, <3>2
      <4> QED
        BY <1>9, <1>11, <3>1, <3>2, <4>1
    <3>3. CASE k = L + 1
      <4>1. r[k] = p
        BY <1>3, <3>3
      <4>2. p.to = page /\ p.from = q[L].to
        BY DEF page, L
      <4>3. p.from <= page
        BY <1>4, <1>11, <4>2
      <4>4. page <= page
        BY <1>1
      <4>5. \E m \in 1 .. n : p.from = U[m].page
        BY <1>4, <1>9, <3>1, <4>2
      <4>6. \E m \in 1 .. n : p.to = U[m].page
        BY <3>1, <4>2 DEF page
      <4> QED
        BY <4>1, <4>2, <4>3, <4>4, <4>5, <4>6
    <3> QED
      BY <1>5, <3>2, <3>3
  <2> QED
    BY <2>1, <2>2 DEF Paged, page
<1>14. Covers(U, n, r)
  <2> SUFFICES ASSUME NEW m \in 1 .. n, NEW part \in Seq(Words), part # <<>>, Stands(part, U[m].text)
               PROVE  \E k \in 1 .. Len(r) : Stands(part, r[k].text)
    BY DEF Covers
  <2>1. \A k \in 1 .. L : k \in 1 .. Len(r)
    BY <1>3
  <2>2. CASE m = n
    <3>1. Stands(x, p.text) /\ p.text \in Seq(Words)
      BY <1>1, StandsUnder, UnderIs, ZenonT(60)
    <3>2. Stands(part, p.text)
      <4> DEFINE y == p.text
      <4>1. y \in Seq(Words) /\ Stands(part, x) /\ Stands(x, y)
        BY <2>2, <3>1
      <4> HIDE DEF y, x
      <4>2. Stands(part, y)
        BY <1>1, <4>1, StandsTrans
      <4> QED
        BY <4>2 DEF y
    <3>3. L + 1 \in 1 .. Len(r)
      BY <1>3
    <3> QED
      BY <1>3, <3>2, <3>3
  <2>3. CASE m # n
    <3>1. m \in 1 .. n - 1
      BY <1>1, <2>3
    <3>2. PICK k \in 1 .. L : Stands(part, q[k].text)
      BY <3>1 DEF Packed, Covers, L
    <3> QED
      BY <1>3, <2>1, <3>2
  <2> QED
    BY <2>2, <2>3
<1> QED
  BY <1>3, <1>7, <1>8, <1>13, <1>14 DEF Packed, r

\* A unit that fits makes the last piece longer.
LEMMA PackedKeep ==
  ASSUME NEW U, Units2Pack(U), NEW n \in 1 .. Len(U), NEW o \in Seq(Pieces), NEW p0 \in Pieces,
         Packed(U, n - 1, Append(o, p0)), n = 1 => o = <<>> /\ p0.text = <<>>,
         NEW p \in Pieces, p.text = Under(p0.text, U[n].text), Tokens(p.text) <= Target,
         p.from = (IF n = 1 THEN U[n].page ELSE p0.from), p.to = U[n].page
  PROVE  Packed(U, n, Append(o, p))
<1> DEFINE L == Len(o)
           q == Append(o, p0)
           r == Append(o, p)
           x == U[n].text
           page == U[n].page
<1>1. /\ x \in Seq(Words) /\ page \in Nat /\ Tokens(x) <= Target
      /\ \A m \in 1 .. n : m \in 1 .. Len(U) /\ U[m].page <= page /\ U[m].page \in Nat
      /\ n \in Nat /\ Len(U) \in Nat
  BY UnitIs
<1>2. /\ r \in Seq(Pieces) /\ Len(r) = L + 1 /\ L \in Nat /\ r[L + 1] = p
      /\ \A k \in 1 .. L : r[k] = o[k]
  BY After
<1>3. /\ q \in Seq(Pieces) /\ Len(q) = L + 1 /\ q[L + 1] = p0
      /\ \A k \in 1 .. L : q[k] = o[k]
  BY After
<1> HIDE DEF r, q
<1>4. n # 1 => n - 1 \in 1 .. n /\ n - 1 # 0
  BY <1>1
<1>5. /\ \A k \in 1 .. L + 1 : k = L + 1 \/ k \in 1 .. L
      /\ \A k \in 1 .. L : k \in 1 .. L + 1 /\ q[k] = r[k]
      /\ L + 1 \in 1 .. L + 1
      /\ n = 1 => 1 .. L = {}
  <2>1. n = 1 => L = 0
    OBVIOUS
  <2> QED
    BY <1>2, <1>3, <2>1
<1>6. /\ \A k \in 1 .. L : q[k].from \in Nat /\ q[k].to \in Nat
      /\ p0.from \in Nat /\ p0.to \in Nat /\ p0.text \in Seq(Words)
      /\ p.from \in Nat /\ p.to \in Nat /\ p.text \in Seq(Words)
  <2>1. \A k \in 1 .. L : q[k] \in Pieces
    BY <1>3, <1>5
  <2> QED
    BY <2>1 DEF Pieces
<1>7. Packed(U, n - 1, q)
  BY DEF q
<1> HIDE DEF L, page
<1>8. Sized(r)
  <2>1. Tokens(p.text) <= 2 * Target
    <3>1. Tokens(p.text) \in Nat
      BY <1>6, TokensAre
    <3> QED
      BY <3>1, Limits
  <2>2. Short(p.text)
    BY <1>6, ShortIf
  <2>3. \A k \in 1 .. L : Tokens(q[k].text) <= 2 * Target /\ Short(q[k].text)
    BY <1>3, <1>5, <1>7 DEF Packed, Sized
  <2>4. \A k \in 1 .. L + 1 : Tokens(r[k].text) <= 2 * Target /\ Short(r[k].text)
    BY <1>2, <1>5, <2>1, <2>2, <2>3
  <2> QED
    BY <1>2, <2>4 DEF Sized
<1>9. n # 1 =>
      /\ \A k \in 1 .. L + 1 : /\ q[k].from <= q[k].to /\ q[k].to <= U[n - 1].page
                               /\ \E m \in 1 .. n - 1 : q[k].from = U[m].page
                               /\ \E m \in 1 .. n - 1 : q[k].to = U[m].page
      /\ \A k \in 1 .. L + 1 : \A l \in 1 .. L + 1 : k < l => q[k].from <= q[l].from /\ q[k].to <= q[l].to
  BY <1>3, <1>4, <1>7 DEF Packed, Paged
<1>10. n # 1 => /\ \A k \in 1 .. L : q[k].to <= page
                /\ p0.to <= page /\ p0.from <= p0.to /\ p0.from <= page
  <2> SUFFICES ASSUME n # 1
               PROVE  /\ \A k \in 1 .. L : q[k].to <= page
                      /\ p0.to <= page /\ p0.from <= p0.to /\ p0.from <= page
    OBVIOUS
  <2> DEFINE c == U[n - 1].page
  <2>1. c \in Nat /\ c <= page
    BY <1>1, <1>4
  <2>2. \A k \in 1 .. L : q[k].to <= c /\ q[k].to \in Nat
    BY <1>5, <1>6, <1>9
  <2>3. p0.to <= c /\ p0.from <= p0.to
    BY <1>3, <1>5, <1>9
  <2> HIDE DEF c
  <2>4. \A k \in 1 .. L : q[k].to <= page
    <3> TAKE k \in 1 .. L
    <3> DEFINE a == q[k].to
    <3>1. a \in Nat /\ a <= c
      BY <2>2
    <3> HIDE DEF a
    <3>2. a <= page
      BY <1>1, <2>1, <3>1
    <3> QED
      BY <3>2 DEF a
  <2> DEFINE a == p0.from
             b == p0.to
  <2>5. a \in Nat /\ b \in Nat /\ a <= b /\ b <= c
    BY <1>6, <2>3
  <2> HIDE DEF a, b
  <2>6. a <= page /\ b <= page
    BY <1>1, <2>1, <2>5
  <2> QED
    BY <2>3, <2>4, <2>6 DEF a, b
<1>11. p.to = page /\ p.from <= page /\ (n # 1 => p.from = p0.from)
  BY <1>1, <1>10 DEF page
<1>12. Sourced(U, n, r)
  <2>1. ASSUME NEW k \in 1 .. L, NEW w \in Range(r[k].text) PROVE Comes(U, n, r, k, w)
    <3>1. Comes(U, n - 1, q, k, w)
      BY <1>3, <1>5, <1>7, <2>1 DEF Packed, Sourced
    <3>2. \A m \in 1 .. n - 1 : m \in 1 .. n
      BY <1>1
    <3>3. k > 1 => r[k - 1] = q[k - 1]
      <4>1. k > 1 => k - 1 \in 1 .. L
        BY <1>2
      <4> QED
        BY <1>5, <4>1
    <3>4. r[k] = q[k]
      BY <1>5
    <3> QED
      BY <3>1, <3>2, <3>3, <3>4 DEF Comes
  <2>2. ASSUME NEW w \in Range(p.text) PROVE Comes(U, n, r, L + 1, w)
    <3>1. w = Break \/ w \in Range(p0.text) \/ w \in Range(x)
      BY <1>1, <1>6, UnderRange
    <3>2. CASE w \in Range(p0.text)
      <4>1. Comes(U, n - 1, q, L + 1, w)
        BY <1>3, <1>5, <1>7, <3>2 DEF Packed, Sourced
      <4>2. n # 1 /\ \A m \in 1 .. n - 1 : m \in 1 .. n
        BY <1>1, <3>2 DEF Range
      <4>3. L + 1 > 1 => r[(L + 1) - 1] = q[(L + 1) - 1]
        <5>1. L + 1 > 1 => (L + 1) - 1 \in 1 .. L
          BY <1>2
        <5> QED
          BY <1>5, <5>1
      <4>4. CASE w = Break
        BY <4>4 DEF Comes
      <4>5. CASE w # Break
        <5>1. PICK m \in 1 .. n - 1 :
                 /\ w \in Range(U[m].text)
                 /\ \/ L + 1 > 1 /\ w \in Range(q[(L + 1) - 1].text)
                    \/ q[L + 1].from <= U[m].page /\ U[m].page <= q[L + 1].to
          BY <4>1, <4>5 DEF Comes
        <5>2. m \in 1 .. n /\ U[m].page <= page
          BY <1>1, <4>2
        <5>3. q[L + 1].from <= U[m].page => r[L + 1].from <= U[m].page /\ U[m].page <= r[L + 1].to
          BY <1>2, <1>3, <1>11, <4>2, <5>2
        <5> QED
          BY <4>3, <5>1, <5>2, <5>3 DEF Comes
      <4> QED
        BY <4>4, <4>5
    <3>3. CASE w \in Range(x)
      <4>1. page <= page /\ n \in 1 .. n
        BY <1>1
      <4>2. r[L + 1].from <= page /\ page <= r[L + 1].to
        BY <1>2, <1>11, <4>1
      <4> QED
        BY <3>3, <4>1, <4>2 DEF Comes, page
    <3> QED
      BY <3>1, <3>2, <3>3 DEF Comes
  <2>3. \A k \in 1 .. L + 1 : \A w \in Range(r[k].text) : Comes(U, n, r, k, w)
    BY <1>2, <1>5, <2>1, <2>2
  <2> QED
    BY <1>2, <2>3 DEF Sourced
<1>13. Paged(U, n, r)
  <2>1. ASSUME NEW k \in 1 .. L + 1, NEW l \in 1 .. L + 1, k < l
        PROVE  r[k].from <= r[l].from /\ r[k].to <= r[l].to
    <3>1. k \in 1 .. L /\ n # 1
      <4>1. k \in 1 .. L
        BY <1>2, <2>1
      <4> QED
        BY <1>5, <4>1
    <3>2. q[k].from <= q[l].from /\ q[k].to <= q[l].to
      BY <1>9, <2>1, <3>1
    <3>3. CASE l = L + 1
      BY <1>2, <1>3, <1>5, <1>10, <1>11, <3>1, <3>2, <3>3
    <3>4. CASE l \in 1 .. L
      BY <1>5, <3>1, <3>2, <3>4
    <3> QED
      BY <1>5, <3>3, <3>4
  <2>2. ASSUME NEW k \in 1 .. L + 1
        PROVE  /\ r[k].from <= r[k].to /\ r[k].to <= page
               /\ \E m \in 1 .. n : r[k].from = U[m].page
               /\ \E m \in 1 .. n : r[k].to = U[m].page
    <3>1. (\A m \in 1 .. n - 1 : m \in 1 .. n) /\ n \in 1 .. n
      BY <1>1
    <3>2. CASE k \in 1 .. L
      <4>1. r[k] = q[k] /\ n # 1
        BY <1>5, <3>2
      <4> QED
        BY <1>5, <1>9, <1>10, <3>1, <3>2, <4>1
    <3>3. CASE k = L + 1
      <4>1. r[k] = p
        BY <1>2, <3>3
      <4>2. page <= page
        BY <1>1
      <4>3. \E m \in 1 .. n : p.to = U[m].page
        BY <1>11, <3>1 DEF page
      <4>4. \E m \in 1 .. n : p.from = U[m].page
        <5>1. CASE n = 1
          BY <3>1, <5>1
        <5>2. CASE n # 1
          <6>1. \E m \in 1 .. n - 1 : p0.from = U[m].page
            BY <1>3, <1>5, <1>9, <5>2
          <6> QED
            BY <1>11, <3>1, <5>2, <6>1
        <5> QED
          BY <5>1, <5>2
      <4> QED
        BY <1>11, <4>1, <4>2, <4>3, <4>4
    <3> QED
      BY <1>5, <3>2, <3>3
  <2> QED
    BY <1>2, <2>1, <2>2 DEF Paged, page
<1>14. Covers(U, n, r)
  <2> SUFFICES ASSUME NEW m \in 1 .. n, NEW part \in Seq(Words), part # <<>>, Stands(part, U[m].text)
               PROVE  \E k \in 1 .. L + 1 : Stands(part, r[k].text)
    BY <1>2 DEF Covers
  <2> DEFINE y == p.text
             z == p0.text
  <2>0. y \in Seq(Words) /\ z \in Seq(Words) /\ Stands(x, y) /\ Stands(z, y)
    BY <1>1, <1>6, StandsUnder
  <2> HIDE DEF y, z, x
  <2>1. CASE m = n
    <3>1. Stands(part, x)
      BY <2>1 DEF x
    <3>2. Stands(part, y)
      BY <1>1, <2>0, <3>1, StandsTrans
    <3> QED
      BY <1>2, <1>5, <3>2 DEF y
  <2>2. CASE m # n
    <3>1. m \in 1 .. n - 1
      BY <1>1, <2>2
    <3>2. PICK k \in 1 .. L + 1 : Stands(part, q[k].text)
      BY <1>3, <1>7, <3>1 DEF Packed, Covers
    <3>3. CASE k \in 1 .. L
      BY <1>5, <3>2, <3>3
    <3>4. CASE k = L + 1
      <4>1. Stands(part, z)
        BY <1>3, <3>2, <3>4 DEF z
      <4>2. Stands(part, y)
        BY <2>0, <4>1, StandsTrans
      <4> QED
        BY <1>2, <1>5, <4>2 DEF y
    <3> QED
      BY <1>5, <3>3, <3>4
  <2> QED
    BY <2>1, <2>2
<1> QED
  BY <1>2, <1>8, <1>12, <1>13, <1>14 DEF Packed, r

\* The pieces of units: the first n are packed.
Taken(U, n, s) ==
  /\ s \in Packings /\ Packed(U, n, AllPieces(s))
  /\ n = 0 => s.out = <<>> /\ s.buf = <<>> /\ s.from = 0

\* No units are packed into nothing.
LEMMA NothingTaken ==
  ASSUME NEW U, Units2Pack(U)
  PROVE  Taken(U, 0, NoPieces)
<1>1. /\ NoPieces \in Packings
      /\ NoPieces.out = <<>> /\ NoPieces.buf = <<>> /\ NoPieces.from = 0
  BY DEF NoPieces, Packings
<1> DEFINE q == AllPieces(NoPieces)
           p == Piece(NoPieces)
<1>2. p \in Pieces /\ q \in Seq(Pieces) /\ p.text = <<>>
  BY <1>1, PackingIs
<1>3. q = <<p>>
  BY <1>1 DEF AllPieces
<1> HIDE DEF q, p
<1>4. Len(q) = 1 /\ q[1] = p /\ 1 .. 1 = {1} /\ 1 .. 0 = {}
  BY <1>3
<1>5. <<>> \in Seq(Words) /\ Tokens(<<>>) = 0 /\ Range(<<>>) = {}
  BY TokensEmpty DEF Range
<1>6. Sized(q)
  <2>1. Tokens(<<>>) <= Target /\ Tokens(<<>>) <= 2 * Target
    BY <1>5, Limits
  <2>2. Short(<<>>)
    BY <1>5, <2>1, ShortIf
  <2> QED
    BY <1>2, <1>4, <2>1, <2>2 DEF Sized
<1>7. Sourced(U, 0, q)
  BY <1>2, <1>4, <1>5 DEF Sourced
<1>8. Paged(U, 0, q)
  BY <1>4 DEF Paged
<1>9. Covers(U, 0, q)
  BY <1>4 DEF Covers
<1>10. Packed(U, 0, q)
  BY <1>2, <1>6, <1>7, <1>8, <1>9 DEF Packed
<1> QED
  BY <1>1, <1>10 DEF Taken, q

\* One more unit is packed.
LEMMA OneTaken ==
  ASSUME NEW U, Units2Pack(U), NEW n \in 1 .. Len(U), NEW s, Taken(U, n - 1, s)
  PROVE  Taken(U, n, TakeUnit(s, U[n]))
<1> DEFINE u == U[n]
           r == TakeUnit(s, u)
<1>1. u \in PackUnits /\ u.text \in Seq(Words) /\ u.page \in Nat /\ Tokens(u.text) <= Target
  <2>1. U \in Seq(PackUnits)
    BY DEF Units2Pack
  <2> QED
    BY <2>1, UnitIs
<1>2. s \in Packings /\ Packed(U, n - 1, AllPieces(s)) /\ n \in Nat /\ (n = 1 <=> n - 1 = 0)
  BY DEF Taken
<1>3. /\ s.out \in Seq(Pieces) /\ s.buf \in Seq(Words) /\ s.from \in Nat /\ s.to \in Nat
      /\ Piece(s) \in Pieces
      /\ Piece(s).text = s.buf /\ Piece(s).from = s.from /\ Piece(s).to = s.to
      /\ AllPieces(s) \in Seq(Pieces)
  BY <1>2, PackingIs
<1> HIDE DEF u
<1>4. /\ r \in Packings /\ r.to = u.page
      /\ Overflows(s, u) =>
           /\ r.out = AllPieces(s) /\ r.buf = Under(TailTokens(s.buf), u.text)
           /\ r.from = IF s.to = 0 THEN u.page ELSE s.to
      /\ ~Overflows(s, u) =>
           /\ r.out = s.out /\ r.buf = Under(s.buf, u.text)
           /\ r.from = IF s.from = 0 THEN u.page ELSE s.from
  BY <1>1, <1>2, UnitTaken
<1> HIDE DEF r
<1>5. /\ Piece(r) \in Pieces
      /\ Piece(r).text = r.buf /\ Piece(r).from = r.from /\ Piece(r).to = r.to
      /\ r.from \in Nat
  BY <1>4, PackingIs
\* What has no page yet, though units are taken, is of a document without pages.
<1>6. n # 1 => (s.to = 0 => u.page = 0) /\ (s.from = 0 => u.page = 0)
  <2> SUFFICES ASSUME n # 1 PROVE (s.to = 0 => u.page = 0) /\ (s.from = 0 => u.page = 0)
    OBVIOUS
  <2> DEFINE q == AllPieces(s)
  <2>1. Len(q) = Len(s.out) + 1 /\ Len(s.out) \in Nat /\ q[Len(s.out) + 1] = Piece(s)
    BY <1>3, After DEF AllPieces
  <2>2. Paged(U, n - 1, q) /\ n - 1 # 0
    BY <1>2 DEF Packed
  <2> HIDE DEF q
  <2>3. Len(q) \in 1 .. Len(q) /\ q[Len(q)] = Piece(s)
    BY <2>1
  <2>4. /\ \E m \in 1 .. n - 1 : s.from = U[m].page
        /\ \E m \in 1 .. n - 1 : s.to = U[m].page
    BY <1>3, <2>2, <2>3 DEF Paged
  <2>5. \A m \in 1 .. n - 1 : m \in 1 .. Len(U) /\ m < n
    BY <1>2
  <2>6. \A m \in 1 .. n - 1 : U[m].page = 0 => u.page = 0
    BY <2>5 DEF Units2Pack, Follows, u
  <2> QED
    BY <2>4, <2>6
<1>7. CASE Overflows(s, u)
  <2> DEFINE q == AllPieces(s)
             p == Piece(r)
             tail == TailTokens(s.buf)
  <2>1. n # 1
    BY <1>2, <1>7 DEF Taken, Overflows
  <2>2. Len(q) = Len(s.out) + 1 /\ Len(s.out) \in Nat /\ q[Len(s.out) + 1] = Piece(s)
    BY <1>3, After DEF AllPieces
  <2>3. Len(q) # 0 /\ q[Len(q)] = Piece(s) /\ Len(q) \in 1 .. Len(q)
    BY <2>2
  <2>4. Short(s.buf)
    BY <1>2, <1>3, <2>3 DEF Packed, Sized
  <2>5. tail \in Seq(Words) /\ Range(tail) \subseteq Range(q[Len(q)].text) /\ Tokens(tail) <= Target
    BY <1>3, <2>3, <2>4, TailIs
  <2>6. p.text = Under(tail, u.text) /\ p.from = q[Len(q)].to /\ p.to = u.page /\ p \in Pieces
    BY <1>3, <1>4, <1>5, <1>6, <1>7, <2>1, <2>3
  <2>7. AllPieces(r) = Append(q, p)
    BY <1>4, <1>7 DEF AllPieces
  <2> HIDE DEF q, p, tail
  <2>8. Packed(U, n, Append(q, p))
    BY <1>2, <2>1, <2>3, <2>5, <2>6, PackedFlush DEF u, q
  <2> QED
    BY <1>2, <1>4, <2>7, <2>8 DEF Taken, r, u
<1>8. CASE ~Overflows(s, u)
  <2> DEFINE o == s.out
             p0 == Piece(s)
             p == Piece(r)
  <2>1. AllPieces(s) = Append(o, p0) /\ AllPieces(r) = Append(o, p)
    BY <1>4, <1>8 DEF AllPieces
  <2>2. n = 1 => o = <<>> /\ p0.text = <<>> /\ s.from = 0
    BY <1>2, <1>3 DEF Taken
  <2>4. p.text = Under(p0.text, u.text) /\ p.to = u.page
        /\ p.from = IF n = 1 THEN u.page ELSE p0.from
    BY <1>3, <1>4, <1>5, <1>6, <1>8, <2>2
  <2>5. Tokens(p.text) <= Target
    <3>1. Tokens(r.buf) = Tokens(s.buf) + Tokens(u.text)
      <4> DEFINE x == u.text
      <4>1. x \in Seq(Words) /\ r.buf = Under(s.buf, x)
        BY <1>1, <1>4, <1>8
      <4> HIDE DEF x
      <4>2. Tokens(r.buf) = Tokens(s.buf) + Tokens(x)
        BY <1>3, <4>1, UnderIs
      <4> QED
        BY <4>2 DEF x
    <3>2. Tokens(s.buf) \in Nat /\ Tokens(u.text) \in Nat /\ Target \in Nat
      BY <1>1, <1>3, TokensAre, Limits
    <3>3. CASE s.buf = <<>>
      <4>1. Tokens(s.buf) = 0
        BY <3>3, TokensEmpty
      <4> QED
        BY <1>1, <1>5, <3>1, <3>2, <4>1
    <3>4. CASE s.buf # <<>>
      <4>1. ~(Tokens(s.buf) + Tokens(u.text) > Target)
        BY <1>8, <3>4 DEF Overflows
      <4> QED
        BY <1>5, <3>1, <3>2, <4>1
    <3> QED
      BY <3>3, <3>4
  <2>6. o \in Seq(Pieces) /\ p0 \in Pieces /\ p \in Pieces
    BY <1>3, <1>5
  <2> HIDE DEF o, p, p0
  <2>7. Packed(U, n, Append(o, p))
    BY <1>2, <2>1, <2>2, <2>4, <2>5, <2>6, PackedKeep DEF u
  <2> QED
    BY <1>2, <1>4, <2>1, <2>7 DEF Taken, r, u
<1> QED
  BY <1>7, <1>8

\* Pages never go down, and all blocks have one or none has.
PagesUp(blocks) == \A i, j \in 1 .. Len(blocks) : i < j => Follows(blocks[j].page, blocks[i].page)

\* The units of blocks are of the blocks' words and pages, in order, with every part of every sentence.
LEMMA UnitsOfAre ==
  ASSUME NEW blocks \in Seq(ParsedBlocks), PagesUp(blocks)
  PROVE  LET U == UnitsOf(blocks) IN
         /\ Units2Pack(U)
         /\ \A m \in 1 .. Len(U) : \E i \in 1 .. Len(blocks) :
              U[m].page = blocks[i].page /\ Range(U[m].text) \subseteq Range(blocks[i].text)
         /\ \A i \in 1 .. Len(blocks) :
              \A sentence \in Range(Sentences(blocks[i].text)) : \A part \in Parts(sentence) :
                \E m \in 1 .. Len(U) : Stands(part, U[m].text)
<1> DEFINE us == [i \in DOMAIN blocks |-> Units(blocks[i])]
           U == UnitsOf(blocks)
           S == Seq(PackUnits)
           N == Len(blocks)
<1>1. N \in Nat /\ DOMAIN blocks = 1 .. N /\ \A i \in 1 .. N : blocks[i] \in ParsedBlocks
  OBVIOUS
<1>2. \A i \in 1 .. N :
        /\ Units(blocks[i]) \in S
        /\ \A u \in Range(Units(blocks[i])) :
             /\ u.page = blocks[i].page /\ Tokens(u.text) <= Target
             /\ Range(u.text) \subseteq Range(blocks[i].text)
        /\ \A sentence \in Range(Sentences(blocks[i].text)) : \A part \in Parts(sentence) :
             \E u \in Range(Units(blocks[i])) : Stands(part, u.text)
  BY <1>1, UnitsAre
<1>3. us \in Seq(S) /\ Len(us) = N /\ \A i \in 1 .. N : us[i] = Units(blocks[i])
  <2>1. DOMAIN us = 1 .. N /\ \A i \in 1 .. N : us[i] = Units(blocks[i])
    BY <1>1
  <2>2. us = [i \in 1 .. N |-> us[i]]
    BY <1>1
  <2> HIDE DEF us, S
  <2>3. us \in [1 .. N -> S]
    BY <1>2, <2>1, <2>2
  <2> QED
    BY <1>1, <2>1, <2>3
<1>4. U = FlattenSeq(us)
  BY DEF UnitsOf
<1> HIDE DEF us, S, N, U
<1>5. U \in Seq(PackUnits) /\ \E off : Offsets(N, us, U, off)
  <2>1. us \in Seq(Seq(PackUnits))
    BY <1>3 DEF S
  <2>2. FlattenSeq(us) \in Seq(PackUnits) /\ \E off : Offsets(Len(us), us, FlattenSeq(us), off)
    BY <2>1, FlattenPlaces
  <2> QED
    BY <1>3, <1>4, <2>2
<1>6. PICK off : Offsets(N, us, U, off)
  BY <1>5
<1>7. \A m \in 1 .. Len(U) : \E i \in 1 .. N : \E k \in 1 .. Len(us[i]) :
        m = off[i] + k /\ U[m] = us[i][k] /\ U[m] \in Range(Units(blocks[i]))
  <2> TAKE m \in 1 .. Len(U)
  <2>1. PICK i \in 1 .. N : \E k \in 1 .. Len(us[i]) : m = off[i] + k
    BY <1>6 DEF Offsets
  <2>2. PICK k \in 1 .. Len(us[i]) : m = off[i] + k
    BY <2>1
  <2>3. U[m] = us[i][k]
    BY <1>6, <2>2 DEF Offsets
  <2>4. us[i] = Units(blocks[i]) /\ us[i] \in Seq(PackUnits)
    BY <1>2, <1>3 DEF S
  <2>5. us[i][k] \in Range(us[i])
    <3> DEFINE y == us[i]
    <3>1. y \in Seq(PackUnits) /\ k \in 1 .. Len(y)
      BY <2>4
    <3> HIDE DEF y
    <3>2. y[k] \in Range(y)
      BY <3>1, RangeIs
    <3> QED
      BY <3>2 DEF y
  <2> QED
    BY <2>2, <2>3, <2>4, <2>5
<1>8. \A l, m \in 1 .. Len(U) : l < m => Follows(U[m].page, U[l].page)
  <2> TAKE l, m \in 1 .. Len(U)
  <2> HAVE l < m
  <2>1. PICK i \in 1 .. N : \E k \in 1 .. Len(us[i]) : l = off[i] + k /\ U[l] \in Range(Units(blocks[i]))
    BY <1>7
  <2>2. PICK j \in 1 .. N : \E k \in 1 .. Len(us[j]) : m = off[j] + k /\ U[m] \in Range(Units(blocks[j]))
    BY <1>7
  <2>3. U[l].page = blocks[i].page /\ U[m].page = blocks[j].page
    BY <1>2, <2>1, <2>2
  <2>4. blocks[i].page \in Nat /\ blocks[j].page \in Nat
    BY <1>1 DEF ParsedBlocks
  <2>5. ~(j < i)
    <3> SUFFICES ASSUME j < i PROVE FALSE
      OBVIOUS
    <3>1. PICK k \in 1 .. Len(us[i]) : l = off[i] + k
      BY <2>1
    <3>2. PICK h \in 1 .. Len(us[j]) : m = off[j] + h
      BY <2>2
    <3>3. us \in Seq(Seq(PackUnits)) /\ Offsets(Len(us), us, U, off) /\ i \in 1 .. Len(us) /\ j \in 1 .. Len(us)
      BY <1>3, <1>6 DEF S
    <3>4. off[j] + h < off[i] + k
      BY <3>3, OffsetsOrder
    <3>5. l \in Nat /\ m \in Nat
      BY <1>5
    <3> QED
      BY <3>1, <3>2, <3>4, <3>5
  <2>6. i = j \/ i < j
    BY <1>1, <2>5
  <2>7. Follows(blocks[j].page, blocks[i].page)
    BY <2>4, <2>6 DEF PagesUp, N, Follows
  <2> QED
    BY <2>3, <2>7
<1>9. \A m \in 1 .. Len(U) : Tokens(U[m].text) <= Target
  BY <1>2, <1>7
<1>10. \A m \in 1 .. Len(U) : \E i \in 1 .. N :
         U[m].page = blocks[i].page /\ Range(U[m].text) \subseteq Range(blocks[i].text)
  BY <1>2, <1>7
<1>11. ASSUME NEW i \in 1 .. N, NEW sentence \in Range(Sentences(blocks[i].text)),
              NEW part \in Parts(sentence)
       PROVE  \E m \in 1 .. Len(U) : Stands(part, U[m].text)
  <2>1. PICK u \in Range(Units(blocks[i])) : Stands(part, u.text)
    BY <1>2
  <2>2. us \in Seq(Seq(PackUnits)) /\ i \in 1 .. Len(us) /\ us[i] = Units(blocks[i])
    BY <1>3 DEF S
  <2>3. Range(us[i]) \subseteq Range(U)
    BY <1>4, <2>2, FlattenHas
  <2>4. PICK m \in 1 .. Len(U) : U[m] = u
    <3>1. u \in Range(U)
      BY <2>1, <2>2, <2>3
    <3>2. Range(U) = {U[m] : m \in 1 .. Len(U)}
      BY <1>5, RangeIs
    <3> QED
      BY <3>1, <3>2
  <2> QED
    BY <2>1, <2>4
<1>12. Units2Pack(U)
  BY <1>5, <1>8, <1>9 DEF Units2Pack
<1> QED
  BY <1>10, <1>11, <1>12 DEF N, U

\* What packing makes of blocks.
PackResult(blocks, q) ==
  /\ q \in Seq(Pieces)
  /\ \A k \in 1 .. Len(q) : Tokens(q[k].text) <= 2 * Target
  /\ \A k \in 1 .. Len(q) : \A w \in Range(q[k].text) :
       w = Break \/ \E i \in 1 .. Len(blocks) :
         /\ w \in Range(blocks[i].text)
         /\ (k > 1 /\ w \in Range(q[k - 1].text)) \/ (q[k].from <= blocks[i].page /\ blocks[i].page <= q[k].to)
  /\ \A k \in 1 .. Len(q) : /\ \E i \in 1 .. Len(blocks) : q[k].from = blocks[i].page
                            /\ \E i \in 1 .. Len(blocks) : q[k].to = blocks[i].page
  /\ \A k, l \in 1 .. Len(q) : k < l => q[k].from <= q[l].from /\ q[k].to <= q[l].to
  /\ \A i \in 1 .. Len(blocks) :
       \A sentence \in Range(Sentences(blocks[i].text)) : \A part \in Parts(sentence) :
         \E k \in 1 .. Len(q) : Stands(part, q[k].text)

\* Packing makes such pieces.
LEMMA PackIs ==
  ASSUME NEW blocks \in Seq(ParsedBlocks), PagesUp(blocks)
  PROVE  PackResult(blocks, Pack(blocks))
<1> DEFINE U == FlattenSeq([i \in DOMAIN blocks |-> Units(blocks[i])])
           N == Len(U)
           B == Packings
           Is(f) == f = [n \in 0 .. N |-> IF n = 0 THEN NoPieces ELSE TakeUnit(f[n - 1], U[n])]
           c == CHOOSE f : Is(f)
           step == [n \in 1 .. N |-> [s \in B |-> TakeUnit(s, U[n])]]
<1>0. Pack(blocks) = IF c[N].buf = <<>> THEN c[N].out ELSE Append(c[N].out, Piece(c[N]))
  BY DEF Pack, PackAll, UnitsOf
<1>30. U = UnitsOf(blocks)
  BY DEF UnitsOf
<1> HIDE DEF U
<1>31. /\ Units2Pack(U)
       /\ \A m \in 1 .. Len(U) : \E i \in 1 .. Len(blocks) :
            U[m].page = blocks[i].page /\ Range(U[m].text) \subseteq Range(blocks[i].text)
       /\ \A i \in 1 .. Len(blocks) :
            \A sentence \in Range(Sentences(blocks[i].text)) : \A part \in Parts(sentence) :
              \E m \in 1 .. Len(U) : Stands(part, U[m].text)
  BY <1>30, UnitsOfAre
<1>1. N \in Nat /\ NoPieces \in B /\ \A n \in 1 .. N : U[n] \in PackUnits
  <2>1. U \in Seq(PackUnits)
    BY <1>31 DEF Units2Pack
  <2>2. NoPieces \in Packings
    BY <1>31, NothingTaken DEF Taken
  <2> QED
    BY <2>1, <2>2
<1>2. step \in [1 .. N -> [B -> B]]
  <2>1. \A n \in 1 .. N, s \in B : TakeUnit(s, U[n]) \in B
    BY <1>1, UnitTaken
  <2> HIDE DEF B, N
  <2> QED
    BY <2>1
<1>4. \A n \in 1 .. N, s \in B : step[n][s] = TakeUnit(s, U[n])
  OBVIOUS
<1> HIDE DEF N, step, B
<1>5. Is(c)
  <2>1. PICK f \in [0 .. N -> B] : Loops(f, N, NoPieces, step)
    BY <1>1, <1>2, LoopExists
  <2>2. ASSUME NEW n \in 0 .. N
        PROVE  f[n] = IF n = 0 THEN NoPieces ELSE TakeUnit(f[n - 1], U[n])
    <3>1. CASE n = 0
      BY <2>1, <3>1 DEF Loops
    <3>2. CASE n # 0
      <4>1. n \in 1 .. N /\ n - 1 \in 0 .. N
        BY <1>1, <3>2
      <4>2. f[n - 1] \in B /\ f[n] = step[n][f[n - 1]]
        BY <2>1, <4>1 DEF Loops
      <4> QED
        BY <1>4, <3>2, <4>1, <4>2
    <3> QED
      BY <3>1, <3>2
  <2>3. Is(f)
    BY <2>2
  <2> HIDE DEF Is
  <2> QED
    BY <2>3
<1> HIDE DEF c
<1> DEFINE P == {n \in 0 .. N : Taken(U, n, c[n])}
<1>6. 0 \in P
  <2>1. c[0] = NoPieces /\ 0 \in 0 .. N
    BY <1>1, <1>5
  <2> QED
    BY <1>31, <2>1, NothingTaken
<1>7. ASSUME NEW n \in 1 .. N, n - 1 \in P PROVE n \in P
  <2>1. c[n] = TakeUnit(c[n - 1], U[n])
    <3>1. n \in 0 .. N /\ n # 0
      BY <1>1
    <3>2. c = [k \in 0 .. N |-> IF k = 0 THEN NoPieces ELSE TakeUnit(c[k - 1], U[k])]
      BY <1>5
    <3> QED
      BY <3>1, <3>2
  <2>2. n \in 0 .. N /\ Taken(U, n - 1, c[n - 1])
    BY <1>1, <1>7
  <2>3. Taken(U, n, c[n])
    BY <1>31, <2>1, <2>2, OneTaken DEF N
  <2> QED
    BY <2>2, <2>3
<1>8. N \in P
  <2>1. N \in 0 .. N
    BY <1>1
  <2> HIDE DEF P
  <2>2. \A n \in 0 .. N : n \in P
    BY <1>1, <1>6, <1>7, Upto
  <2> QED
    BY <2>1, <2>2
<1> DEFINE s == c[N]
           q == AllPieces(s)
           r == Pack(blocks)
<1>9. Taken(U, N, s)
  BY <1>8
<1> HIDE DEF s
<1>10. /\ s \in Packings /\ s.out \in Seq(Pieces) /\ Piece(s) \in Pieces /\ Piece(s).text = s.buf
       /\ s.buf \in Seq(Words)
  BY <1>9, PackingIs DEF Taken
<1>11. /\ q \in Seq(Pieces) /\ Len(q) = Len(s.out) + 1 /\ Len(s.out) \in Nat /\ q[Len(s.out) + 1] = Piece(s)
       /\ \A k \in 1 .. Len(s.out) : q[k] = s.out[k]
  BY <1>10, After DEF AllPieces
<1>12. Packed(U, N, q)
  BY <1>9 DEF Taken
<1>13. r = IF s.buf = <<>> THEN s.out ELSE q
  BY <1>0 DEF AllPieces, s
<1>14. N = 0 => s.out = <<>> /\ s.buf = <<>>
  BY <1>9 DEF Taken
<1> HIDE DEF q, r
<1>15. /\ r \in Seq(Pieces) /\ Len(r) \in Nat
       /\ \A k \in 1 .. Len(r) : k \in 1 .. Len(q) /\ r[k] = q[k]
       /\ \A k \in 1 .. Len(q) : k \in 1 .. Len(r) \/ q[k].text = <<>>
       /\ N = 0 => Len(r) = 0
  <2>1. CASE s.buf = <<>>
    <3>1. r = s.out
      BY <1>13, <2>1
    <3>2. \A k \in 1 .. Len(q) : k \in 1 .. Len(r) \/ k = Len(s.out) + 1
      BY <1>11, <3>1
    <3>3. q[Len(s.out) + 1].text = <<>>
      BY <1>10, <1>11, <2>1
    <3>4. \A k \in 1 .. Len(r) : k \in 1 .. Len(q) /\ r[k] = q[k]
      BY <1>11, <3>1
    <3> QED
      BY <1>10, <1>11, <1>14, <3>1, <3>2, <3>3, <3>4
  <2>2. CASE s.buf # <<>>
    <3>1. r = q /\ N # 0
      BY <1>13, <1>14, <2>2
    <3> QED
      BY <1>11, <3>1
  <2> QED
    BY <2>1, <2>2
<1>16. \A k \in 1 .. Len(r) : Tokens(r[k].text) <= 2 * Target
  BY <1>12, <1>15 DEF Packed, Sized
<1>17. ASSUME NEW k \in 1 .. Len(r), NEW w \in Range(r[k].text), w # Break
       PROVE  \E i \in 1 .. Len(blocks) :
         /\ w \in Range(blocks[i].text)
         /\ (k > 1 /\ w \in Range(r[k - 1].text)) \/ (r[k].from <= blocks[i].page /\ blocks[i].page <= r[k].to)
  <2>1. Comes(U, N, q, k, w)
    BY <1>12, <1>15, <1>17 DEF Packed, Sourced
  <2>2. PICK m \in 1 .. N : /\ w \in Range(U[m].text)
                            /\ \/ k > 1 /\ w \in Range(q[k - 1].text)
                               \/ q[k].from <= U[m].page /\ U[m].page <= q[k].to
    BY <1>17, <2>1 DEF Comes
  <2>3. PICK i \in 1 .. Len(blocks) :
          U[m].page = blocks[i].page /\ Range(U[m].text) \subseteq Range(blocks[i].text)
    BY <1>31 DEF N
  <2>4. k > 1 => r[k - 1] = q[k - 1]
    <3>1. k > 1 => k - 1 \in 1 .. Len(r)
      BY <1>15
    <3> QED
      BY <1>15, <3>1
  <2>5. r[k] = q[k]
    BY <1>15
  <2>6. w \in Range(blocks[i].text)
    BY <2>2, <2>3
  <2>7. CASE k > 1 /\ w \in Range(q[k - 1].text)
    BY <2>4, <2>6, <2>7
  <2>8. CASE q[k].from <= U[m].page /\ U[m].page <= q[k].to
    BY <2>3, <2>5, <2>6, <2>8
  <2> QED
    BY <2>2, <2>7, <2>8
<1>18. ASSUME NEW k \in 1 .. Len(r)
       PROVE  /\ \E i \in 1 .. Len(blocks) : r[k].from = blocks[i].page
              /\ \E i \in 1 .. Len(blocks) : r[k].to = blocks[i].page
  <2>1. N # 0
    BY <1>15
  <2>2. (\E m \in 1 .. N : q[k].from = U[m].page) /\ \E m \in 1 .. N : q[k].to = U[m].page
    BY <1>12, <1>15, <2>1 DEF Packed, Paged
  <2> QED
    BY <1>31, <1>15, <2>2 DEF N
<1>19. \A k, l \in 1 .. Len(r) : k < l => r[k].from <= r[l].from /\ r[k].to <= r[l].to
  BY <1>12, <1>15 DEF Packed, Paged
<1>20. ASSUME NEW i \in 1 .. Len(blocks), NEW sentence \in Range(Sentences(blocks[i].text)),
              NEW part \in Parts(sentence)
       PROVE  \E k \in 1 .. Len(r) : Stands(part, r[k].text)
  <2>1. PICK m \in 1 .. N : Stands(part, U[m].text)
    BY <1>20, <1>31 DEF N
  <2>2. part \in Seq(Words) /\ part # <<>>
    <3> DEFINE text == blocks[i].text
    <3>1. text \in Seq(Words)
      <4>1. blocks[i] \in ParsedBlocks
        OBVIOUS
      <4> QED
        BY <4>1 DEF ParsedBlocks
    <3> HIDE DEF text
    <3>2. sentence \in Range(Sentences(text))
      BY DEF text
    <3> QED
      BY <3>1, <3>2, PartsAre
  <2>3. PICK k \in 1 .. Len(q) : Stands(part, q[k].text)
    BY <1>12, <2>1, <2>2 DEF Packed, Covers
  <2>4. q[k].text # <<>>
    BY <2>2, <2>3, NothingStands
  <2> QED
    BY <1>15, <2>3, <2>4
<1>21. PackResult(blocks, r)
  BY <1>15, <1>16, <1>17, <1>18, <1>19, <1>20 DEF PackResult
<1> QED
  BY <1>21 DEF r

-----------------------------------------------------------------------------
(* Groups under one heading. *)

\* What taking a block does.
LEMMA BlockTaken ==
  ASSUME NEW blocks \in Seq(ParsedBlocks), NEW n \in 1 .. Len(blocks), NEW s \in Buffers(ParsedBlocks)
  PROVE  LET r == TakeBlock(s, blocks, n)
             turns == n > 1 /\ blocks[n].path # blocks[n - 1].path
             t == IF turns THEN PutOut(s) ELSE s
         IN /\ r \in Buffers(ParsedBlocks) /\ r.out = t.out
            /\ blocks[n].kind = "heading" => r.buf = t.buf
            /\ blocks[n].kind # "heading" => r.buf = Append(t.buf, blocks[n])
            /\ turns => t.out = Out(s) /\ t.buf = <<>>
<1> DEFINE turns == n > 1 /\ blocks[n].path # blocks[n - 1].path
           t == IF turns THEN PutOut(s) ELSE s
           r == TakeBlock(s, blocks, n)
           b == blocks[n]
<1>1. /\ t \in Buffers(ParsedBlocks) /\ (turns => t.out = Out(s) /\ t.buf = <<>>)
      /\ b \in ParsedBlocks
  BY OutIs
<1>2. r = IF b.kind = "heading" THEN t ELSE [out |-> t.out, buf |-> Append(t.buf, b)]
  BY DEF TakeBlock
<1> HIDE DEF t, r, b
<1>3. t.out \in Seq(Seq(ParsedBlocks)) /\ t.buf \in Seq(ParsedBlocks)
  BY <1>1, OutIs
<1>4. Append(t.buf, b) \in Seq(ParsedBlocks)
  BY <1>1, <1>3
<1>5. CASE b.kind = "heading"
  <2>1. r = t
    BY <1>2, <1>5
  <2>2. r \in Buffers(ParsedBlocks) /\ r.out = t.out /\ r.buf = t.buf
    BY <1>1, <2>1
  <2> QED
    BY <1>1, <1>5, <2>2 DEF r, t, b
<1>6. CASE b.kind # "heading"
  <2>1. r.out = t.out /\ r.buf = Append(t.buf, b)
    BY <1>2, <1>6
  <2>2. r \in Buffers(ParsedBlocks)
    BY <1>2, <1>3, <1>4, <1>6 DEF Buffers
  <2> QED
    BY <1>1, <1>6, <2>1, <2>2 DEF r, t, b
<1> QED
  BY <1>5, <1>6 DEF b

\* A group has blocks of the first n, no heading, all with the trail of the first one, in order.
Group(blocks, n, t) ==
  /\ \A b \in Range(t) : b \in ParsedBlocks /\ b.kind # "heading" /\ b.path = t[1].path
                         /\ \E i \in 1 .. n : b = blocks[i]
  /\ PagesUp(t)

\* No block of one is on a page after a block of the other.
Precedes(t, u) == \A b \in Range(t), d \in Range(u) : b.page <= d.page

\* The groups of the first n blocks, and the one under construction.
Grouped(blocks, n, s) ==
  /\ \A g \in 1 .. Len(s.out) : s.out[g] # <<>> /\ Group(blocks, n, s.out[g]) /\ Precedes(s.out[g], s.buf)
  /\ \A g, h \in 1 .. Len(s.out) : g < h => Precedes(s.out[g], s.out[h])
  /\ Group(blocks, n, s.buf)
  /\ n # 0 => \A b \in Range(s.buf) : b.path = blocks[n].path
  /\ \A i \in 1 .. n : blocks[i].kind # "heading" =>
       blocks[i] \in Range(s.buf) \/ \E g \in 1 .. Len(s.out) : blocks[i] \in Range(s.out[g])

\* The groups that are put out.
GroupsAre(blocks, n, gs) ==
  /\ \A g \in 1 .. Len(gs) : gs[g] # <<>> /\ Group(blocks, n, gs[g])
  /\ \A g, h \in 1 .. Len(gs) : g < h => Precedes(gs[g], gs[h])
  /\ \A i \in 1 .. n : blocks[i].kind # "heading" => \E g \in 1 .. Len(gs) : blocks[i] \in Range(gs[g])

\* Putting out the last group completes the groups.
LEMMA OutGroups ==
  ASSUME NEW blocks, NEW n, NEW s \in Buffers(ParsedBlocks), Grouped(blocks, n, s)
  PROVE  GroupsAre(blocks, n, Out(s))
<1> DEFINE S == Seq(ParsedBlocks)
           o == s.out
           L == Len(s.out)
<1>1. o \in Seq(S) /\ s.buf \in S /\ L \in Nat
  BY OutIs
<1> HIDE DEF S
<1>2. CASE s.buf = <<>>
  <2>1. Out(s) = s.out /\ Range(s.buf) = {}
    <3>1. Range(s.buf) = {}
      BY <1>2 DEF Range
    <3> QED
      BY <1>2, <3>1, OutIs
  <2>2. /\ \A g \in 1 .. L : o[g] # <<>> /\ Group(blocks, n, o[g])
        /\ \A g, h \in 1 .. L : g < h => Precedes(o[g], o[h])
    BY DEF Grouped
  <2>3. \A i \in 1 .. n : blocks[i].kind # "heading" => \E g \in 1 .. L : blocks[i] \in Range(o[g])
    BY <2>1 DEF Grouped
  <2> QED
    BY <2>1, <2>2, <2>3 DEF GroupsAre
<1>3. CASE s.buf # <<>>
  <2> DEFINE r == Append(o, s.buf)
  <2>1. Out(s) = r
    BY <1>3, OutIs
  <2>2. /\ Len(r) = L + 1 /\ r[L + 1] = s.buf
        /\ \A k \in 1 .. L : r[k] = o[k]
    BY <1>1, After
  <2> HIDE DEF r
  <2>3. \A k \in 1 .. Len(r) : k \in 1 .. L \/ k = L + 1
    BY <1>1, <2>2
  <2>4. \A k \in 1 .. Len(r) : r[k] # <<>> /\ Group(blocks, n, r[k])
    <3>1. s.buf # <<>> /\ Group(blocks, n, s.buf)
      BY <1>3 DEF Grouped
    <3>2. \A k \in 1 .. L : o[k] # <<>> /\ Group(blocks, n, o[k])
      BY DEF Grouped
    <3> QED
      BY <2>2, <2>3, <3>1, <3>2
  <2>5. ASSUME NEW g \in 1 .. Len(r), NEW h \in 1 .. Len(r), g < h PROVE Precedes(r[g], r[h])
    <3>1. g \in 1 .. L
      BY <1>1, <2>2, <2>3, <2>5
    <3>2. CASE h = L + 1
      BY <2>2, <3>1, <3>2 DEF Grouped
    <3>3. CASE h \in 1 .. L
      BY <2>2, <2>5, <3>1, <3>3 DEF Grouped
    <3> QED
      BY <2>3, <3>2, <3>3
  <2>6. ASSUME NEW i \in 1 .. n, blocks[i].kind # "heading"
        PROVE  \E g \in 1 .. Len(r) : blocks[i] \in Range(r[g])
    <3>1. L + 1 \in 1 .. Len(r) /\ \A g \in 1 .. L : g \in 1 .. Len(r)
      BY <1>1, <2>2
    <3>2. CASE blocks[i] \in Range(s.buf)
      BY <2>2, <3>1, <3>2
    <3>3. CASE blocks[i] \notin Range(s.buf)
      <4>1. PICK g \in 1 .. L : blocks[i] \in Range(o[g])
        BY <2>6, <3>3 DEF Grouped
      <4> QED
        BY <2>2, <3>1, <4>1
    <3> QED
      BY <3>2, <3>3
  <2> QED
    BY <2>1, <2>4, <2>5, <2>6 DEF GroupsAre
<1> QED
  BY <1>2, <1>3

\* A block in a group is not after the n-th, so the next one is not before it.
LEMMA GroupBefore ==
  ASSUME NEW blocks \in Seq(ParsedBlocks), PagesUp(blocks), NEW n \in 1 .. Len(blocks),
         NEW t, Group(blocks, n - 1, t)
  PROVE  Group(blocks, n, t) /\ \A b \in Range(t) : Follows(blocks[n].page, b.page)
<1>1. n \in Nat /\ \A i \in 1 .. n - 1 : i \in 1 .. n /\ i \in 1 .. Len(blocks) /\ i < n
  OBVIOUS
<1>2. Group(blocks, n, t)
  BY <1>1 DEF Group
<1>3. \A i \in 1 .. n - 1 : Follows(blocks[n].page, blocks[i].page)
  BY <1>1 DEF PagesUp
<1> QED
  BY <1>2, <1>3 DEF Group

\* One more block is in its group.
LEMMA OneGrouped ==
  ASSUME NEW blocks \in Seq(ParsedBlocks), PagesUp(blocks), NEW n \in 1 .. Len(blocks),
         NEW s \in Buffers(ParsedBlocks), Grouped(blocks, n - 1, s)
  PROVE  Grouped(blocks, n, TakeBlock(s, blocks, n))
<1> DEFINE r == TakeBlock(s, blocks, n)
           turns == n > 1 /\ blocks[n].path # blocks[n - 1].path
           t == IF turns THEN PutOut(s) ELSE s
           b == blocks[n]
           S == Seq(ParsedBlocks)
<1>1. /\ r \in Buffers(ParsedBlocks) /\ r.out = t.out
      /\ blocks[n].kind = "heading" => r.buf = t.buf
      /\ blocks[n].kind # "heading" => r.buf = Append(t.buf, blocks[n])
      /\ turns => t.out = Out(s) /\ t.buf = <<>>
  BY BlockTaken
<1>2. b \in ParsedBlocks /\ n \in Nat /\ t \in Buffers(ParsedBlocks) /\ (~turns => t = s)
  BY OutIs
<1>3. t.out \in Seq(S) /\ t.buf \in S
  BY <1>2, OutIs
<1> HIDE DEF t, r, S
<1>4. Range(<<>>) = {}
  BY DEF Range
<1>5. GroupsAre(blocks, n - 1, Out(s))
  BY OutGroups
\* t has what was there, and its buffer has this block's trail.
<1>6. /\ \A g \in 1 .. Len(t.out) : /\ t.out[g] # <<>> /\ Group(blocks, n - 1, t.out[g])
                                    /\ Precedes(t.out[g], t.buf)
      /\ \A g, h \in 1 .. Len(t.out) : g < h => Precedes(t.out[g], t.out[h])
      /\ Group(blocks, n - 1, t.buf)
      /\ \A d \in Range(t.buf) : d.path = b.path
      /\ \A i \in 1 .. n - 1 : blocks[i].kind # "heading" =>
           blocks[i] \in Range(t.buf) \/ \E g \in 1 .. Len(t.out) : blocks[i] \in Range(t.out[g])
  <2>1. CASE turns
    <3>1. t.out = Out(s) /\ t.buf = <<>>
      BY <1>1, <2>1
    <3>2. Group(blocks, n - 1, <<>>)
      <4>1. Len(<<>>) = 0 /\ 1 .. 0 = {}
        OBVIOUS
      <4> QED
        BY <1>4, <4>1 DEF Group, PagesUp
    <3>3. \A g \in 1 .. Len(t.out) : Precedes(t.out[g], t.buf)
      BY <1>4, <3>1 DEF Precedes
    <3> HIDE DEF b, turns
    <3> QED
      BY <1>4, <1>5, <3>1, <3>2, <3>3 DEF GroupsAre
  <2>2. CASE ~turns
    <3>1. t = s
      BY <1>2, <2>2
    <3>2. \A d \in Range(s.buf) : d.path = b.path
      <4>1. CASE n = 1
        <5>1. \A d \in Range(s.buf) : \E i \in 1 .. 0 : d = blocks[i]
          BY <4>1 DEF Grouped, Group
        <5>2. 1 .. 0 = {}
          OBVIOUS
        <5> QED
          BY <5>1, <5>2
      <4>2. CASE n # 1
        <5>1. n > 1 /\ n - 1 # 0
          BY <4>2
        <5>2. \A d \in Range(s.buf) : d.path = blocks[n - 1].path
          BY <5>1 DEF Grouped
        <5> QED
          BY <2>2, <5>1, <5>2
      <4> QED
        BY <4>1, <4>2
    <3> HIDE DEF b, turns
    <3> QED
      BY <3>1, <3>2 DEF Grouped
  <2> QED
    BY <2>1, <2>2
<1> DEFINE L == Len(t.out)
<1>7. \A g \in 1 .. L : Group(blocks, n, t.out[g]) /\ \A d \in Range(t.out[g]) : Follows(b.page, d.page)
  <2> TAKE g \in 1 .. L
  <2> DEFINE y == t.out[g]
  <2>1. Group(blocks, n - 1, y)
    BY <1>6
  <2> HIDE DEF y
  <2>2. Group(blocks, n, y) /\ \A d \in Range(y) : Follows(b.page, d.page)
    BY <2>1, GroupBefore
  <2> QED
    BY <2>2 DEF y
<1>8. Group(blocks, n, t.buf) /\ \A d \in Range(t.buf) : Follows(b.page, d.page)
  <2> DEFINE y == t.buf
  <2>1. Group(blocks, n - 1, y)
    BY <1>6
  <2> HIDE DEF y
  <2>2. Group(blocks, n, y) /\ \A d \in Range(y) : Follows(b.page, d.page)
    BY <2>1, GroupBefore
  <2> QED
    BY <2>2 DEF y
<1>9. \A i \in 1 .. n : i = n \/ i \in 1 .. n - 1
  BY <1>2
<1>10. CASE b.kind = "heading"
  <2>1. r.out = t.out /\ r.buf = t.buf
    BY <1>1, <1>10
  <2>2. \A g \in 1 .. L : t.out[g] # <<>> /\ Group(blocks, n, t.out[g]) /\ Precedes(t.out[g], t.buf)
    BY <1>6, <1>7
  <2>3. \A i \in 1 .. n : blocks[i].kind # "heading" =>
          blocks[i] \in Range(t.buf) \/ \E g \in 1 .. L : blocks[i] \in Range(t.out[g])
    BY <1>6, <1>9, <1>10
  <2>4. \A d \in Range(t.buf) : d.path = blocks[n].path
    BY <1>6
  <2>5. \A g, h \in 1 .. L : g < h => Precedes(t.out[g], t.out[h])
    BY <1>6
  <2>6. Grouped(blocks, n, r)
    BY <1>8, <2>1, <2>2, <2>3, <2>4, <2>5 DEF Grouped
  <2> QED
    BY <2>6 DEF r
<1>11. CASE b.kind # "heading"
  <2> DEFINE v == Append(t.buf, b)
             M == Len(t.buf)
  <2>1. r.out = t.out /\ r.buf = v
    BY <1>1, <1>11
  <2>2. /\ v \in Seq(ParsedBlocks) /\ Len(v) = M + 1 /\ M \in Nat /\ v[M + 1] = b
        /\ \A k \in 1 .. M : v[k] = t.buf[k]
    BY <1>2, <1>3, After DEF S
  <2>3. Range(v) = Range(t.buf) \cup {b}
    BY <1>2, <1>3, RangeAppend DEF S
  <2>4. \A d \in Range(v) : d.path = b.path
    BY <1>6, <2>3
  <2> HIDE DEF v
  <2>5. 1 \in 1 .. Len(v) /\ v[1] \in Range(v)
    <3>1. 1 \in 1 .. Len(v)
      BY <2>2
    <3> QED
      BY <2>2, <3>1, RangeIs
  <2>6. v[1].path = b.path
    BY <2>4, <2>5
  <2>7. PagesUp(v)
    <3> SUFFICES ASSUME NEW i \in 1 .. Len(v), NEW j \in 1 .. Len(v), i < j
                 PROVE  Follows(v[j].page, v[i].page)
      BY DEF PagesUp
    <3>1. i \in 1 .. M /\ (j = M + 1 \/ j \in 1 .. M)
      BY <2>2
    <3>2. CASE j = M + 1
      <4>1. t.buf[i] \in Range(t.buf)
        BY <1>3, <3>1, RangeIs DEF S
      <4> QED
        BY <1>8, <2>2, <3>1, <3>2, <4>1
    <3>3. CASE j \in 1 .. M
      BY <1>8, <2>2, <3>1, <3>3 DEF Group, PagesUp
    <3> QED
      BY <3>1, <3>2, <3>3
  <2>8. \A d \in Range(v) : /\ d \in ParsedBlocks /\ d.kind # "heading"
                            /\ \E i \in 1 .. n : d = blocks[i]
    <3>1. n \in 1 .. n
      BY <1>2
    <3>2. \A d \in Range(t.buf) : /\ d \in ParsedBlocks /\ d.kind # "heading"
                                  /\ \E i \in 1 .. n : d = blocks[i]
      BY <1>8 DEF Group
    <3> QED
      BY <1>2, <1>11, <2>3, <3>1, <3>2
  <2>9. Group(blocks, n, v)
    BY <2>4, <2>6, <2>7, <2>8 DEF Group
  <2>10. \A g \in 1 .. L : t.out[g] # <<>> /\ Group(blocks, n, t.out[g]) /\ Precedes(t.out[g], v)
    BY <1>6, <1>7, <2>3 DEF Precedes, Follows
  <2>11. \A i \in 1 .. n : blocks[i].kind # "heading" =>
           blocks[i] \in Range(v) \/ \E g \in 1 .. L : blocks[i] \in Range(t.out[g])
    BY <1>6, <1>9, <2>3
  <2>12. \A g, h \in 1 .. L : g < h => Precedes(t.out[g], t.out[h])
    BY <1>6
  <2>13. Grouped(blocks, n, r)
    BY <2>1, <2>4, <2>9, <2>10, <2>11, <2>12 DEF Grouped
  <2> QED
    BY <2>13 DEF r
<1> QED
  BY <1>10, <1>11

\* The groups of a document.
LEMMA GroupByHeadingIs ==
  ASSUME NEW blocks \in Seq(ParsedBlocks), PagesUp(blocks)
  PROVE  /\ GroupByHeading(blocks) \in Seq(Seq(ParsedBlocks))
         /\ GroupsAre(blocks, Len(blocks), GroupByHeading(blocks))
<1> DEFINE N == Len(blocks)
           B == Buffers(ParsedBlocks)
           Is(f) == f = [n \in 0 .. N |-> IF n = 0 THEN Empty ELSE TakeBlock(f[n - 1], blocks, n)]
           c == CHOOSE f : Is(f)
           step == [n \in 1 .. N |-> [s \in B |-> TakeBlock(s, blocks, n)]]
<1>0. GroupByHeading(blocks) = Out(c[N])
  BY DEF GroupByHeading
<1>1. N \in Nat /\ Empty \in B
  BY EmptyIs
<1>2. step \in [1 .. N -> [B -> B]]
  <2>1. \A n \in 1 .. N, s \in B : TakeBlock(s, blocks, n) \in B
    BY BlockTaken
  <2> HIDE DEF B, N
  <2> QED
    BY <2>1
<1>4. \A n \in 1 .. N, s \in B : step[n][s] = TakeBlock(s, blocks, n)
  OBVIOUS
<1> HIDE DEF N, step, B
<1>5. Is(c)
  <2>1. PICK f \in [0 .. N -> B] : Loops(f, N, Empty, step)
    BY <1>1, <1>2, LoopExists
  <2>2. ASSUME NEW n \in 0 .. N
        PROVE  f[n] = IF n = 0 THEN Empty ELSE TakeBlock(f[n - 1], blocks, n)
    <3>1. CASE n = 0
      BY <2>1, <3>1 DEF Loops
    <3>2. CASE n # 0
      <4>1. n \in 1 .. N /\ n - 1 \in 0 .. N
        BY <1>1, <3>2
      <4>2. f[n - 1] \in B /\ f[n] = step[n][f[n - 1]]
        BY <2>1, <4>1 DEF Loops
      <4> QED
        BY <1>4, <3>2, <4>1, <4>2
    <3> QED
      BY <3>1, <3>2
  <2>3. Is(f)
    BY <2>2
  <2> HIDE DEF Is
  <2> QED
    BY <2>3
<1> HIDE DEF c
<1> DEFINE P == {n \in 0 .. N : c[n] \in B /\ Grouped(blocks, n, c[n])}
<1>6. 0 \in P
  <2>1. c[0] = Empty /\ 0 \in 0 .. N
    BY <1>1, <1>5
  <2>2. /\ Empty.out = <<>> /\ Empty.buf = <<>> /\ Len(<<>>) = 0 /\ Range(<<>>) = {} /\ 1 .. 0 = {}
    BY DEF Empty, Range
  <2>3. Grouped(blocks, 0, Empty)
    BY <2>2 DEF Grouped, Group, PagesUp
  <2> QED
    BY <1>1, <2>1, <2>3
<1>7. ASSUME NEW n \in 1 .. N, n - 1 \in P PROVE n \in P
  <2>1. c[n] = TakeBlock(c[n - 1], blocks, n)
    <3>1. n \in 0 .. N /\ n # 0
      BY <1>1
    <3>2. c = [k \in 0 .. N |-> IF k = 0 THEN Empty ELSE TakeBlock(c[k - 1], blocks, k)]
      BY <1>5
    <3> QED
      BY <3>1, <3>2
  <2>2. n \in 0 .. N /\ c[n - 1] \in Buffers(ParsedBlocks) /\ Grouped(blocks, n - 1, c[n - 1])
    BY <1>1, <1>7 DEF B
  <2>3. Grouped(blocks, n, c[n])
    BY <2>1, <2>2, OneGrouped DEF N
  <2>4. c[n] \in B
    BY <2>1, <2>2, BlockTaken DEF N, B
  <2> QED
    BY <2>2, <2>3, <2>4
<1>8. N \in P
  <2>1. N \in 0 .. N
    BY <1>1
  <2> HIDE DEF P
  <2>2. \A n \in 0 .. N : n \in P
    BY <1>1, <1>6, <1>7, Upto
  <2> QED
    BY <2>1, <2>2
<1>9. c[N] \in Buffers(ParsedBlocks) /\ Grouped(blocks, N, c[N])
  BY <1>8 DEF B
<1>10. Out(c[N]) \in Seq(Seq(ParsedBlocks)) /\ GroupsAre(blocks, N, Out(c[N]))
  BY <1>9, OutIs, OutGroups
<1> QED
  BY <1>0, <1>10 DEF N

-----------------------------------------------------------------------------
(* The drafts of a group. *)

\* The type of what becomes a passage.
PassageDrafts == [text : Seq(Words), from : Nat, to : Nat, header : STRING,
                  modality : {"image", "text"}, joined : BOOLEAN]

\* What is taken from a group keeps its order.
LEMMA ThoseUp ==
  ASSUME NEW group \in Seq(ParsedBlocks), PagesUp(group), NEW T
  PROVE  /\ Those(group, T) \in Seq(ParsedBlocks) /\ PagesUp(Those(group, T))
         /\ \A b \in Range(Those(group, T)) : b \in Range(group) /\ b \in T
         /\ \A b \in Range(group) : b \in T => b \in Range(Those(group, T))
<1> DEFINE t == Those(group, T)
<1>1. t \in Seq(ParsedBlocks) /\ \E q : Picked(group, T, Len(group), t, q)
  BY ThosePicked
<1>2. /\ \A k \in 1 .. Len(t) : t[k] \in T /\ t[k] \in Range(group)
      /\ \A i \in 1 .. Len(group) : group[i] \in T => \E k \in 1 .. Len(t) : t[k] = group[i]
  BY ThoseIn
<1> HIDE DEF t
<1>3. PICK q : Picked(group, T, Len(group), t, q)
  BY <1>1
<1>4. PagesUp(t)
  <2> SUFFICES ASSUME NEW i \in 1 .. Len(t), NEW j \in 1 .. Len(t), i < j
               PROVE  Follows(t[j].page, t[i].page)
    BY DEF PagesUp
  <2>1. q[i] \in 1 .. Len(group) /\ q[j] \in 1 .. Len(group)
    BY <1>3 DEF Picked
  <2>2. q[i] < q[j] /\ t[i] = group[q[i]] /\ t[j] = group[q[j]]
    BY <1>3 DEF Picked
  <2> QED
    BY <2>1, <2>2 DEF PagesUp
<1>5. Range(t) = {t[k] : k \in 1 .. Len(t)} /\ Range(group) = {group[k] : k \in 1 .. Len(group)}
  BY <1>1, RangeIs
<1>6. \A b \in Range(t) : b \in Range(group) /\ b \in T
  BY <1>2, <1>5
<1>7. \A b \in Range(group) : b \in T => b \in Range(t)
  BY <1>2, <1>5
<1> QED
  BY <1>1, <1>4, <1>6, <1>7 DEF t

\* A group's images and text are its blocks, in their order.
LEMMA PartsOf ==
  ASSUME NEW group \in Seq(ParsedBlocks), PagesUp(group)
  PROVE  /\ ImagesOf(group) \in Seq(ParsedBlocks) /\ TextOf(group) \in Seq(ParsedBlocks)
         /\ PagesUp(TextOf(group))
         /\ Range(ImagesOf(group)) \subseteq Range(group) /\ Range(TextOf(group)) \subseteq Range(group)
         /\ Range(group) \subseteq Range(ImagesOf(group)) \cup Range(TextOf(group))
<1> DEFINE A == {b \in Range(group) : b.kind = "image"}
           B == {b \in Range(group) : b.kind # "image"}
<1>1. ImagesOf(group) = Those(group, A) /\ TextOf(group) = Those(group, B)
  BY DEF ImagesOf, TextOf
<1>2. \A b \in Range(group) : b \in A \/ b \in B
  OBVIOUS
<1> HIDE DEF A, B
<1>3. /\ Those(group, A) \in Seq(ParsedBlocks)
      /\ \A b \in Range(Those(group, A)) : b \in Range(group)
      /\ \A b \in Range(group) : b \in A => b \in Range(Those(group, A))
  BY ThoseUp
<1>4. /\ Those(group, B) \in Seq(ParsedBlocks) /\ PagesUp(Those(group, B))
      /\ \A b \in Range(Those(group, B)) : b \in Range(group)
      /\ \A b \in Range(group) : b \in B => b \in Range(Those(group, B))
  BY ThoseUp
<1>5. Range(group) \subseteq Range(Those(group, A)) \cup Range(Those(group, B))
  BY <1>2, <1>3, <1>4
<1> QED
  BY <1>1, <1>3, <1>4, <1>5

\* What the drafts of a group are: under its heading, of words of its blocks as the pieces are,
\* on their pages in order, and with every part of every sentence of the group.
DraftsResult(group, ds) ==
  /\ ds \in Seq(PassageDrafts)
  /\ \A m \in 1 .. Len(ds) : ds[m].header = group[1].path
  /\ \A m \in 1 .. Len(ds) : \A w \in Range(ds[m].text) :
       w = Break \/ \E b \in Range(group) :
         /\ w \in Range(b.text)
         /\ (m > 1 /\ w \in Range(ds[m - 1].text)) \/ (ds[m].from <= b.page /\ b.page <= ds[m].to)
  /\ \A m \in 1 .. Len(ds) : ds[m].modality = "text" =>
       /\ \E b \in Range(group) : ds[m].from = b.page
       /\ \E b \in Range(group) : ds[m].to = b.page
  /\ \A l, m \in 1 .. Len(ds) : l < m /\ ds[l].modality = "text" /\ ds[m].modality = "text" =>
       ds[l].from <= ds[m].from /\ ds[l].to <= ds[m].to
  /\ \A b \in Range(group) :
       \A sentence \in Range(Sentences(b.text)) : \A part \in Parts(sentence) :
         \E m \in 1 .. Len(ds) : Stands(part, ds[m].text)

\* The drafts of a group are such.
LEMMA DraftsAre ==
  ASSUME NEW group \in Seq(ParsedBlocks), group # <<>>, PagesUp(group)
  PROVE  DraftsResult(group, Drafts(group))
<1> DEFINE images == ImagesOf(group)
           texts == TextOf(group)
           pieces == Pack(texts)
           path == group[1].path
           Shown(i) == [text |-> images[i].text, from |-> images[i].page, to |-> images[i].page]
           f == [i \in DOMAIN images |-> Draft(Shown(i), path, "image")]
           h == [i \in DOMAIN pieces |-> Draft(pieces[i], path, "text")]
           ds == f \o h
           I == Len(images)
           J == Len(pieces)
<1>0. Drafts(group) = ds
  BY DEF Drafts
<1>1. /\ images \in Seq(ParsedBlocks) /\ texts \in Seq(ParsedBlocks) /\ PagesUp(texts)
      /\ Range(images) \subseteq Range(group) /\ Range(texts) \subseteq Range(group)
      /\ Range(group) \subseteq Range(images) \cup Range(texts)
  BY PartsOf
<1>2. path \in STRING
  <2>1. 1 \in 1 .. Len(group)
    <3>1. Len(group) \in Nat /\ Len(group) # 0
      OBVIOUS
    <3> QED
      BY <3>1
  <2>2. group[1] \in ParsedBlocks
    BY <2>1
  <2> QED
    BY <2>2 DEF ParsedBlocks
<1> HIDE DEF images, texts
<1>3. PackResult(texts, pieces)
  BY <1>1, PackIs
<1> HIDE DEF pieces, path
<1>4. /\ pieces \in Seq(Pieces) /\ J \in Nat /\ DOMAIN pieces = 1 .. J
      /\ \A i \in 1 .. J : pieces[i] \in Pieces
  <2>1. pieces \in Seq(Pieces)
    BY <1>3 DEF PackResult
  <2> QED
    BY <2>1
<1>5. /\ I \in Nat /\ DOMAIN images = 1 .. I
      /\ \A i \in 1 .. I : images[i] \in ParsedBlocks /\ images[i] \in Range(images)
  BY <1>1, RangeIs
<1>6. \A i \in 1 .. I : /\ Shown(i) \in Pieces
                        /\ images[i].page \in Nat
                        /\ Shown(i).text = images[i].text
                        /\ Shown(i).from = images[i].page /\ Shown(i).to = images[i].page
  BY <1>5 DEF Pieces, ParsedBlocks
<1> HIDE DEF Shown
<1>7. /\ f \in Seq(PassageDrafts) /\ Len(f) = I
      /\ \A i \in 1 .. I : /\ f[i].text = images[i].text /\ f[i].header = path /\ f[i].modality = "image"
                           /\ f[i].from = images[i].page /\ f[i].to = images[i].page
  <2>1. \A i \in 1 .. I : /\ f[i] \in PassageDrafts
                          /\ f[i].text = images[i].text /\ f[i].header = path /\ f[i].modality = "image"
                          /\ f[i].from = images[i].page /\ f[i].to = images[i].page
    <3> TAKE i \in 1 .. I
    <3>1. f[i] = Draft(Shown(i), path, "image")
      BY <1>5
    <3> DEFINE y == Shown(i)
               z == "image"
               d == Draft(y, path, z)
    <3>2. y \in Pieces /\ z \in {"image", "text"}
      BY <1>6
    <3> HIDE DEF f, y, z
    <3>3. /\ d \in PassageDrafts /\ d.text = y.text /\ d.from = y.from /\ d.to = y.to
          /\ d.header = path /\ d.modality = z
      BY <1>2, <3>2 DEF Draft, PassageDrafts, Pieces
    <3> HIDE DEF d
    <3>4. f[i] = d
      BY <3>1 DEF d, y, z
    <3>5. /\ y.text = images[i].text /\ y.from = images[i].page /\ y.to = images[i].page
          /\ z = "image"
      BY <1>6 DEF y, z
    <3> QED
      BY <3>3, <3>4, <3>5
  <2>2. DOMAIN f = 1 .. I /\ f = [i \in 1 .. I |-> f[i]]
    BY <1>5
  <2> HIDE DEF f
  <2>3. f \in [1 .. I -> PassageDrafts]
    BY <2>1, <2>2
  <2> QED
    BY <1>5, <2>1, <2>2, <2>3
<1>8. /\ h \in Seq(PassageDrafts) /\ Len(h) = J
      /\ \A i \in 1 .. J : /\ h[i].text = pieces[i].text /\ h[i].header = path /\ h[i].modality = "text"
                           /\ h[i].from = pieces[i].from /\ h[i].to = pieces[i].to
  <2>1. \A i \in 1 .. J : /\ h[i] \in PassageDrafts
                          /\ h[i].text = pieces[i].text /\ h[i].header = path /\ h[i].modality = "text"
                          /\ h[i].from = pieces[i].from /\ h[i].to = pieces[i].to
    <3> TAKE i \in 1 .. J
    <3>1. h[i] = Draft(pieces[i], path, "text") /\ pieces[i] \in Pieces
      BY <1>4
    <3> DEFINE y == pieces[i]
               z == "text"
               d == Draft(y, path, z)
    <3>2. y \in Pieces /\ z \in {"image", "text"}
      BY <3>1
    <3> HIDE DEF h, y, z
    <3>3. /\ d \in PassageDrafts /\ d.text = y.text /\ d.from = y.from /\ d.to = y.to
          /\ d.header = path /\ d.modality = z
      BY <1>2, <3>2 DEF Draft, PassageDrafts, Pieces
    <3> HIDE DEF d
    <3>4. h[i] = d
      BY <3>1 DEF d, y, z
    <3>5. y = pieces[i] /\ z = "text"
      BY DEF y, z
    <3> QED
      BY <3>3, <3>4, <3>5
  <2>2. DOMAIN h = 1 .. J /\ h = [i \in 1 .. J |-> h[i]]
    BY <1>4
  <2> HIDE DEF h
  <2>3. h \in [1 .. J -> PassageDrafts]
    BY <2>1, <2>2
  <2> QED
    BY <1>4, <2>1, <2>2, <2>3
<1> HIDE DEF f, h
<1>9. /\ ds \in Seq(PassageDrafts) /\ Len(ds) = I + J
      /\ \A i \in 1 .. I : ds[i] = f[i]
      /\ \A i \in 1 .. J : ds[I + i] = h[i]
  <2> HIDE DEF I, J
  <2>0. f \in Seq(PassageDrafts) /\ h \in Seq(PassageDrafts) /\ Len(f) = I /\ Len(h) = J
    BY <1>7, <1>8
  <2>1. ds \in Seq(PassageDrafts) /\ Len(ds) = I + J
    <3>1. ds \in Seq(PassageDrafts) /\ Len(ds) = Len(f) + Len(h)
      BY <2>0
    <3> QED
      BY <2>0, <3>1
  <2>2. \A i \in 1 .. I : ds[i] = f[i]
    BY <1>7, <1>8
  <2>3. \A i \in 1 .. J : ds[I + i] = h[i]
    BY <1>7, <1>8
  <2> QED
    BY <2>1, <2>2, <2>3
<1> HIDE DEF ds, I, J
<1>10. /\ \A m \in 1 .. Len(ds) : m \in 1 .. I \/ (m - I \in 1 .. J /\ m = I + (m - I) /\ m > I)
       /\ \A i \in 1 .. I : i \in 1 .. Len(ds)
       /\ \A i \in 1 .. J : I + i \in 1 .. Len(ds)
  BY <1>4, <1>5, <1>9
\* Every draft is an image or a piece.
<1>11. ASSUME NEW m \in 1 .. Len(ds)
       PROVE  \/ m \in 1 .. I /\ ds[m] = f[m]
              \/ \E k \in 1 .. J : m = I + k /\ ds[m] = h[k]
  <2>1. CASE m \in 1 .. I
    BY <1>9, <2>1
  <2>2. CASE m \notin 1 .. I
    <3>1. m - I \in 1 .. J /\ m = I + (m - I)
      BY <1>10, <2>2
    <3>2. ds[I + (m - I)] = h[m - I]
      BY <1>9, <3>1
    <3> QED
      BY <3>1, <3>2
  <2> QED
    BY <2>1, <2>2
<1>12. \A m \in 1 .. Len(ds) : ds[m].header = path
  BY <1>7, <1>8, <1>11
<1>13. ASSUME NEW m \in 1 .. Len(ds), ds[m].modality = "text" PROVE \E k \in 1 .. J : m = I + k /\ ds[m] = h[k]
  <2>1. m \in 1 .. I => f[m].modality # "text"
    BY <1>7
  <2> QED
    BY <1>11, <1>13, <2>1
<1>14. ASSUME NEW m \in 1 .. Len(ds), NEW w \in Range(ds[m].text), w # Break
       PROVE  \E b \in Range(group) :
         /\ w \in Range(b.text)
         /\ (m > 1 /\ w \in Range(ds[m - 1].text)) \/ (ds[m].from <= b.page /\ b.page <= ds[m].to)
  <2>1. CASE m \in 1 .. I
    <3>1. ds[m] = f[m]
      BY <1>9, <2>1
    <3>2. images[m] \in Range(group) /\ images[m].page \in Nat
      BY <1>1, <1>5, <1>6, <2>1
    <3>3. w \in Range(images[m].text) /\ ds[m].from <= images[m].page /\ images[m].page <= ds[m].to
      BY <1>7, <1>14, <2>1, <3>1, <3>2
    <3> QED
      BY <3>2, <3>3
  <2>2. CASE m \notin 1 .. I
    <3>1. PICK k \in 1 .. J : m = I + k /\ ds[m] = h[k]
      BY <1>11, <2>2
    <3>2. w \in Range(pieces[k].text)
      BY <1>8, <1>14, <3>1
    <3>3. PICK i \in 1 .. Len(texts) :
            /\ w \in Range(texts[i].text)
            /\ \/ k > 1 /\ w \in Range(pieces[k - 1].text)
               \/ pieces[k].from <= texts[i].page /\ texts[i].page <= pieces[k].to
      BY <1>3, <1>14, <3>2 DEF PackResult, J
    <3>4. texts[i] \in Range(group)
      <4>1. texts[i] \in Range(texts)
        BY <1>1, RangeIs
      <4> QED
        BY <1>1, <4>1
    <3>5. CASE k > 1 /\ w \in Range(pieces[k - 1].text)
      <4>1. k - 1 \in 1 .. J /\ I + (k - 1) = m - 1 /\ m > 1
        BY <1>4, <1>5, <3>1, <3>5
      <4>2. ds[I + (k - 1)] = h[k - 1] /\ h[k - 1].text = pieces[k - 1].text
        BY <1>8, <1>9, <4>1
      <4>3. w \in Range(ds[m - 1].text)
        BY <3>5, <4>1, <4>2
      <4> QED
        BY <3>3, <3>4, <4>1, <4>3
    <3>6. CASE pieces[k].from <= texts[i].page /\ texts[i].page <= pieces[k].to
      <4>1. ds[m].from = pieces[k].from /\ ds[m].to = pieces[k].to
        BY <1>8, <3>1
      <4> QED
        BY <3>3, <3>4, <3>6, <4>1
    <3> QED
      BY <3>3, <3>5, <3>6
  <2> QED
    BY <2>1, <2>2
<1>15. ASSUME NEW m \in 1 .. Len(ds), ds[m].modality = "text"
       PROVE  (\E b \in Range(group) : ds[m].from = b.page) /\ \E b \in Range(group) : ds[m].to = b.page
  <2>1. PICK k \in 1 .. J : m = I + k /\ ds[m] = h[k]
    BY <1>13, <1>15
  <2>2. /\ \E i \in 1 .. Len(texts) : pieces[k].from = texts[i].page
        /\ \E i \in 1 .. Len(texts) : pieces[k].to = texts[i].page
    BY <1>3 DEF PackResult, J
  <2>3. \A i \in 1 .. Len(texts) : texts[i] \in Range(group)
    BY <1>1, RangeIs
  <2> QED
    BY <1>8, <2>1, <2>2, <2>3
<1>16. ASSUME NEW l \in 1 .. Len(ds), NEW m \in 1 .. Len(ds), l < m,
              ds[l].modality = "text", ds[m].modality = "text"
       PROVE  ds[l].from <= ds[m].from /\ ds[l].to <= ds[m].to
  <2>1. PICK k \in 1 .. J : l = I + k /\ ds[l] = h[k]
    BY <1>13, <1>16
  <2>2. PICK j \in 1 .. J : m = I + j /\ ds[m] = h[j]
    BY <1>13, <1>16
  <2>3. k < j
    BY <1>4, <1>5, <1>16, <2>1, <2>2
  <2>4. pieces[k].from <= pieces[j].from /\ pieces[k].to <= pieces[j].to
    BY <1>3, <2>3 DEF PackResult, J
  <2> QED
    BY <1>8, <2>1, <2>2, <2>4
<1>17. ASSUME NEW b \in Range(group), NEW sentence \in Range(Sentences(b.text)), NEW part \in Parts(sentence)
       PROVE  \E m \in 1 .. Len(ds) : Stands(part, ds[m].text)
  <2>1. CASE b \in Range(images)
    <3>1. PICK i \in 1 .. I : images[i] = b
      BY <1>1, <2>1, RangeIs DEF I
    <3>2. Stands(part, b.text)
      <4> DEFINE text == b.text
      <4>1. text \in Seq(Words)
        <5>1. b \in ParsedBlocks
          BY <1>5, <3>1
        <5> QED
          BY <5>1 DEF ParsedBlocks
      <4>2. sentence \in Range(Sentences(text))
        OBVIOUS
      <4> HIDE DEF text
      <4>3. Stands(part, text)
        BY <4>1, <4>2, PartsAre
      <4> QED
        BY <4>3 DEF text
    <3>3. i \in 1 .. Len(ds) /\ ds[i].text = b.text
      BY <1>7, <1>9, <1>10, <3>1
    <3> QED
      BY <3>2, <3>3
  <2>2. CASE b \notin Range(images)
    <3>1. b \in Range(texts)
      BY <1>1, <2>2
    <3>2. PICK i \in 1 .. Len(texts) : texts[i] = b
      BY <1>1, <3>1, RangeIs
    <3>3. PICK k \in 1 .. J : Stands(part, pieces[k].text)
      BY <1>3, <3>2 DEF PackResult, J
    <3>4. I + k \in 1 .. Len(ds) /\ ds[I + k].text = pieces[k].text
      BY <1>8, <1>9, <1>10
    <3> QED
      BY <3>3, <3>4
  <2> QED
    BY <2>1, <2>2
<1>18. DraftsResult(group, ds)
  BY <1>9, <1>12, <1>14, <1>15, <1>16, <1>17 DEF DraftsResult, path
<1> QED
  BY <1>0, <1>18

\* The same of all drafts of a document, over all its groups.
ComingResult(blocks, C) ==
  /\ C \in Seq(PassageDrafts)
  /\ \A m \in 1 .. Len(C) : \A w \in Range(C[m].text) :
       w = Break \/ \E i \in 1 .. Len(blocks) :
         /\ w \in Range(blocks[i].text) /\ blocks[i].path = C[m].header
         /\ (m > 1 /\ w \in Range(C[m - 1].text)) \/ (C[m].from <= blocks[i].page /\ blocks[i].page <= C[m].to)
  /\ \A l, m \in 1 .. Len(C) : l < m /\ C[l].modality = "text" /\ C[m].modality = "text" =>
       C[l].from <= C[m].from /\ C[l].to <= C[m].to
  /\ \A i \in 1 .. Len(blocks) : blocks[i].kind # "heading" =>
       \A sentence \in Range(Sentences(blocks[i].text)) : \A part \in Parts(sentence) :
         \E m \in 1 .. Len(C) : C[m].header = blocks[i].path /\ Stands(part, C[m].text)

\* The drafts of a document are such.
LEMMA ComingIs ==
  ASSUME NEW blocks \in Seq(ParsedBlocks), PagesUp(blocks)
  PROVE  ComingResult(blocks, Coming(GroupByHeading(blocks)))
<1> DEFINE groups == GroupByHeading(blocks)
           dss == [g \in DOMAIN groups |-> Drafts(groups[g])]
           C == Coming(groups)
           G == Len(groups)
           N == Len(blocks)
           S == Seq(PassageDrafts)
<1>1. groups \in Seq(Seq(ParsedBlocks)) /\ GroupsAre(blocks, N, groups)
  BY GroupByHeadingIs
<1>2. C = FlattenSeq(dss)
  BY DEF Coming
<1> HIDE DEF groups
<1>3. G \in Nat /\ DOMAIN groups = 1 .. G /\ \A g \in 1 .. G : groups[g] \in Seq(ParsedBlocks)
  BY <1>1
<1>4. \A g \in 1 .. G : groups[g] # <<>> /\ Group(blocks, N, groups[g])
  BY <1>1 DEF GroupsAre
<1>5. \A g \in 1 .. G : DraftsResult(groups[g], Drafts(groups[g]))
  BY <1>3, <1>4, DraftsAre DEF Group
<1>6. \A g \in 1 .. G : \A b \in Range(groups[g]) :
        /\ b \in ParsedBlocks /\ b.page \in Nat /\ b.path = groups[g][1].path
        /\ \E i \in 1 .. N : b = blocks[i]
  BY <1>4 DEF Group, ParsedBlocks
<1>7. dss \in Seq(S) /\ Len(dss) = G /\ \A g \in 1 .. G : dss[g] = Drafts(groups[g]) /\ dss[g] \in S
  <2>1. DOMAIN dss = 1 .. G /\ dss = [g \in 1 .. G |-> dss[g]] /\ \A g \in 1 .. G : dss[g] = Drafts(groups[g])
    BY <1>3
  <2>2. \A g \in 1 .. G : dss[g] \in S
    BY <1>5, <2>1 DEF DraftsResult
  <2> HIDE DEF dss, S
  <2>3. dss \in [1 .. G -> S]
    BY <2>1, <2>2
  <2> QED
    BY <1>3, <2>1, <2>2, <2>3
<1> HIDE DEF dss, C, G, N, S
<1>8. dss \in Seq(Seq(PassageDrafts))
  BY <1>7 DEF S
<1>9. C \in Seq(PassageDrafts) /\ \E off : Offsets(G, dss, C, off)
  BY <1>2, <1>7, <1>8, FlattenPlaces
<1>10. PICK off : Offsets(G, dss, C, off)
  BY <1>9
<1>11. \A g \in 1 .. G : off[g] \in Nat /\ Len(dss[g]) \in Nat
  <2>1. off \in [1 .. G -> Nat]
    BY <1>10 DEF Offsets
  <2>2. \A g \in 1 .. G : Len(dss[g]) \in Nat
    BY <1>7 DEF S
  <2> QED
    BY <2>1, <2>2
\* A draft is the k-th of a group.
<1>12. ASSUME NEW m \in 1 .. Len(C)
       PROVE  \E g \in 1 .. G : \E k \in 1 .. Len(dss[g]) : m = off[g] + k /\ C[m] = dss[g][k]
  <2>1. PICK g \in 1 .. G : \E k \in 1 .. Len(dss[g]) : m = off[g] + k
    BY <1>10 DEF Offsets
  <2> QED
    BY <1>10, <2>1 DEF Offsets
<1>13. ASSUME NEW g \in 1 .. G, NEW k \in 1 .. Len(dss[g])
       PROVE  off[g] + k \in 1 .. Len(C) /\ C[off[g] + k] = dss[g][k]
  <2>1. off[g] + Len(dss[g]) <= Len(C) /\ C[off[g] + k] = dss[g][k]
    BY <1>10 DEF Offsets
  <2>2. Len(C) \in Nat
    BY <1>9
  <2> QED
    BY <1>11, <2>1, <2>2, Within
<1>14. ASSUME NEW m \in 1 .. Len(C), NEW w \in Range(C[m].text), w # Break
       PROVE  \E i \in 1 .. N :
         /\ w \in Range(blocks[i].text) /\ blocks[i].path = C[m].header
         /\ (m > 1 /\ w \in Range(C[m - 1].text)) \/ (C[m].from <= blocks[i].page /\ blocks[i].page <= C[m].to)
  <2>1. PICK g \in 1 .. G : \E k \in 1 .. Len(dss[g]) : m = off[g] + k /\ C[m] = dss[g][k]
    BY <1>12
  <2>2. PICK k \in 1 .. Len(dss[g]) : m = off[g] + k /\ C[m] = dss[g][k]
    BY <2>1
  <2>3. DraftsResult(groups[g], dss[g])
    BY <1>5, <1>7
  <2>4. PICK b \in Range(groups[g]) :
          /\ w \in Range(b.text)
          /\ \/ k > 1 /\ w \in Range(dss[g][k - 1].text)
             \/ dss[g][k].from <= b.page /\ b.page <= dss[g][k].to
    BY <1>14, <2>2, <2>3 DEF DraftsResult
  <2>5. PICK i \in 1 .. N : b = blocks[i]
    BY <1>6
  <2>6. blocks[i].path = C[m].header
    BY <1>6, <2>2, <2>3, <2>5 DEF DraftsResult
  <2>7. CASE k > 1 /\ w \in Range(dss[g][k - 1].text)
    <3>1. k - 1 \in 1 .. Len(dss[g]) /\ off[g] + (k - 1) = m - 1 /\ m > 1
      <4> DEFINE y == off[g]
                 z == Len(dss[g])
      <4>1. y \in Nat /\ z \in Nat /\ m = y + k /\ k \in 1 .. z /\ k > 1
        BY <1>11, <2>2, <2>7
      <4> HIDE DEF y, z
      <4>2. k - 1 \in 1 .. z /\ y + (k - 1) = m - 1 /\ m > 1
        BY <4>1
      <4> QED
        BY <4>2 DEF y, z
    <3>2. C[off[g] + (k - 1)] = dss[g][k - 1]
      BY <1>13, <3>1
    <3>3. w \in Range(C[m - 1].text)
      BY <2>7, <3>1, <3>2
    <3> QED
      BY <2>4, <2>5, <2>6, <3>1, <3>3
  <2>8. CASE dss[g][k].from <= b.page /\ b.page <= dss[g][k].to
    BY <2>2, <2>4, <2>5, <2>6, <2>8
  <2> QED
    BY <2>4, <2>7, <2>8
<1>15. ASSUME NEW l \in 1 .. Len(C), NEW m \in 1 .. Len(C), l < m,
              C[l].modality = "text", C[m].modality = "text"
       PROVE  C[l].from <= C[m].from /\ C[l].to <= C[m].to
  <2>1. PICK g \in 1 .. G : \E k \in 1 .. Len(dss[g]) : l = off[g] + k /\ C[l] = dss[g][k]
    BY <1>12
  <2>2. PICK k \in 1 .. Len(dss[g]) : l = off[g] + k /\ C[l] = dss[g][k]
    BY <2>1
  <2>3. PICK h \in 1 .. G : \E j \in 1 .. Len(dss[h]) : m = off[h] + j /\ C[m] = dss[h][j]
    BY <1>12
  <2>4. PICK j \in 1 .. Len(dss[h]) : m = off[h] + j /\ C[m] = dss[h][j]
    BY <2>3
  <2>5. DraftsResult(groups[g], dss[g]) /\ DraftsResult(groups[h], dss[h])
    BY <1>5, <1>7
  <2>6. ~(h < g)
    <3> SUFFICES ASSUME h < g PROVE FALSE
      OBVIOUS
    <3>1. Offsets(Len(dss), dss, C, off) /\ h \in 1 .. Len(dss) /\ g \in 1 .. Len(dss)
      BY <1>7, <1>10
    <3>2. off[h] + j < off[g] + k
      BY <1>8, <3>1, OffsetsOrder
    <3>3. l \in Nat /\ m \in Nat
      BY <1>9
    <3> QED
      BY <1>15, <2>2, <2>4, <3>2, <3>3
  <2>7. CASE g = h
    <3>1. k < j
      <4>1. off[g] \in Nat /\ l = off[g] + k /\ m = off[g] + j /\ k \in Nat /\ j \in Nat
        BY <1>11, <2>2, <2>4, <2>7
      <4> QED
        BY <1>15, <4>1
    <3> QED
      BY <1>15, <2>2, <2>4, <2>5, <2>7, <3>1 DEF DraftsResult
  <2>8. CASE g < h
    <3>1. /\ \E b \in Range(groups[g]) : C[l].from = b.page
          /\ \E b \in Range(groups[g]) : C[l].to = b.page
      BY <1>15, <2>2, <2>5 DEF DraftsResult
    <3>2. /\ \E b \in Range(groups[h]) : C[m].from = b.page
          /\ \E b \in Range(groups[h]) : C[m].to = b.page
      BY <1>15, <2>4, <2>5 DEF DraftsResult
    <3>3. \A b \in Range(groups[g]), d \in Range(groups[h]) : b.page <= d.page
      BY <1>1, <2>8 DEF GroupsAre, Precedes, G
    <3> QED
      BY <3>1, <3>2, <3>3
  <2> QED
    <3>1. g = h \/ g < h
      BY <1>3, <2>6
    <3> QED
      BY <2>7, <2>8, <3>1
<1>16. ASSUME NEW i \in 1 .. N, blocks[i].kind # "heading",
              NEW sentence \in Range(Sentences(blocks[i].text)), NEW part \in Parts(sentence)
       PROVE  \E m \in 1 .. Len(C) : C[m].header = blocks[i].path /\ Stands(part, C[m].text)
  <2>1. PICK g \in 1 .. G : blocks[i] \in Range(groups[g])
    BY <1>1, <1>16 DEF GroupsAre, G
  <2>2. DraftsResult(groups[g], dss[g])
    BY <1>5, <1>7
  <2>3. PICK k \in 1 .. Len(dss[g]) : Stands(part, dss[g][k].text)
    BY <2>1, <2>2 DEF DraftsResult
  <2>4. dss[g][k].header = groups[g][1].path
    BY <2>2 DEF DraftsResult
  <2>5. blocks[i].path = groups[g][1].path
    BY <1>6, <2>1
  <2> QED
    BY <1>13, <2>3, <2>4, <2>5
<1>17. ComingResult(blocks, C)
  BY <1>9, <1>14, <1>15, <1>16 DEF ComingResult, N
<1> QED
  BY <1>17 DEF C, groups

-----------------------------------------------------------------------------
(* Joining what is too small. *)

\* The draft is too small to stand alone and there is one before it to join.
Joins(drafts, d) ==
  d.modality = "text" /\ Tokens(d.text) < Minimum /\ drafts # <<>> /\ Last(drafts).header = d.header

\* Adding a draft appends it or joins it to the last passage.
LEMMA AddedIs ==
  ASSUME NEW drafts \in Seq(PassageDrafts), NEW d \in PassageDrafts
  PROVE  LET r == AddDraft(drafts, d)
             L == Len(drafts)
         IN /\ r \in Seq(PassageDrafts)
            /\ ~Joins(drafts, d) => r = Append(drafts, d)
            /\ Joins(drafts, d) =>
                 /\ L \in 1 .. L /\ Len(r) = L /\ \A n \in 1 .. L : n # L => r[n] = drafts[n]
                 /\ r[L].text = Under(drafts[L].text, d.text) /\ r[L].from = drafts[L].from
                 /\ r[L].to = d.to /\ r[L].header = drafts[L].header /\ drafts[L].header = d.header
                 /\ r[L].modality = drafts[L].modality /\ r[L].joined = TRUE
<1> DEFINE r == AddDraft(drafts, d)
           L == Len(drafts)
<1>1. CASE ~Joins(drafts, d)
  <2>1. r = Append(drafts, d)
    BY <1>1 DEF AddDraft, Joins
  <2>2. Append(drafts, d) \in Seq(PassageDrafts)
    OBVIOUS
  <2> QED
    BY <1>1, <2>1, <2>2
<1>2. CASE Joins(drafts, d)
  <2> DEFINE e == drafts[L]
             x == Under(e.text, d.text)
             new == [e EXCEPT !.text = x, !.to = d.to, !.joined = TRUE]
  <2>1. L \in Nat /\ L \in 1 .. L /\ e \in PassageDrafts /\ e.header = d.header
    <3>1. L \in Nat /\ (drafts # <<>> => L # 0)
      OBVIOUS
    <3>2. L \in 1 .. L
      BY <1>2, <3>1 DEF Joins
    <3>3. e \in PassageDrafts
      BY <3>2
    <3> QED
      BY <1>2, <3>1, <3>2, <3>3 DEF Joins, Last
  <2>2. r = [drafts EXCEPT ![L] = new]
    BY <1>2, <2>1 DEF AddDraft, Joins
  <2>3. x \in Seq(Words)
    BY <2>1, UnderIs DEF PassageDrafts
  <2> HIDE DEF x
  <2>4. /\ new \in PassageDrafts
        /\ new.text = x /\ new.from = e.from /\ new.to = d.to /\ new.header = e.header
        /\ new.modality = e.modality /\ new.joined = TRUE
    BY <2>1, <2>3 DEF PassageDrafts
  <2> HIDE DEF new
  <2>5. r \in Seq(PassageDrafts) /\ Len(r) = L /\ r[L] = new /\ \A n \in 1 .. L : n # L => r[n] = drafts[n]
    BY <2>1, <2>2, <2>4
  <2> QED
    BY <1>2, <2>1, <2>4, <2>5 DEF x
<1> QED
  BY <1>1, <1>2

\* A passage may say this page for a word: the passage before has the word, the passage
\* is an image's that a text joined, or the page is among those it tells.
Tells(s, n, w, page) ==
  \/ n > 1 /\ w \in Range(s[n - 1].text)
  \/ s[n].modality = "image" /\ s[n].joined
  \/ s[n].from <= page /\ page <= s[n].to

\* The passages made of the first m drafts of C: their words are from under their headings;
\* the pages of a text are those of texts; the last passage has the last draft; and every
\* draft stands in a passage under its heading.
Assembled(blocks, C, m, s) ==
  /\ s \in Seq(PassageDrafts) /\ (m # 0 <=> s # <<>>)
  /\ \A n \in 1 .. Len(s) : \A w \in Range(s[n].text) :
       w = Break \/ \E i \in 1 .. Len(blocks) :
         w \in Range(blocks[i].text) /\ blocks[i].path = s[n].header /\ Tells(s, n, w, blocks[i].page)
  /\ \A n \in 1 .. Len(s) : s[n].modality = "text" =>
       /\ \E a \in 1 .. m : C[a].modality = "text" /\ s[n].from = C[a].from
       /\ \E a \in 1 .. m : C[a].modality = "text" /\ s[n].to = C[a].to
  /\ m # 0 => Range(C[m].text) \subseteq Range(s[Len(s)].text)
  /\ \A a \in 1 .. m : \E n \in 1 .. Len(s) :
       s[n].header = C[a].header /\ Stands(C[a].text, s[n].text)

\* The fields of a draft.
LEMMA DraftTyped ==
  ASSUME NEW C \in Seq(PassageDrafts), NEW m \in 1 .. Len(C)
  PROVE  /\ C[m] \in PassageDrafts /\ C[m].text \in Seq(Words) /\ C[m].from \in Nat /\ C[m].to \in Nat
         /\ C[m].modality \in {"image", "text"}
<1>1. C[m] \in PassageDrafts
  OBVIOUS
<1> QED
  BY <1>1 DEF PassageDrafts

\* A draft that stands alone.
LEMMA AppendAssembles ==
  ASSUME NEW blocks, NEW C, ComingResult(blocks, C), NEW m \in 1 .. Len(C),
         NEW s, Assembled(blocks, C, m - 1, s)
  PROVE  Assembled(blocks, C, m, Append(s, C[m]))
<1> DEFINE d == C[m]
           r == Append(s, d)
           L == Len(s)
<1>1. C \in Seq(PassageDrafts) /\ s \in Seq(PassageDrafts)
  BY DEF ComingResult, Assembled
<1>2. d \in PassageDrafts /\ d.text \in Seq(Words) /\ m \in Nat
  BY <1>1, DraftTyped
<1>3. m = 1 \/ (m - 1 # 0 /\ m > 1 /\ m - 1 \in 1 .. m - 1)
  BY <1>2
<1> HIDE DEF d
<1>4. /\ r \in Seq(PassageDrafts) /\ Len(r) = L + 1 /\ L \in Nat /\ r[L + 1] = d
      /\ \A k \in 1 .. L : r[k] = s[k]
  BY <1>1, <1>2, After
<1> HIDE DEF r, L
<1>5. /\ \A k \in 1 .. Len(r) : k = L + 1 \/ k \in 1 .. L
      /\ \A k \in 1 .. L : k \in 1 .. Len(r) /\ (k > 1 => k - 1 \in 1 .. L)
      /\ L + 1 \in 1 .. Len(r) /\ Len(r) = L + 1
      /\ \A a \in 1 .. m : a = m \/ a \in 1 .. m - 1
      /\ \A a \in 1 .. m - 1 : a \in 1 .. m
      /\ m \in 1 .. m
  BY <1>2, <1>4
<1>6. \A n \in 1 .. L : \A w, page : Tells(s, n, w, page) => Tells(r, n, w, page)
  BY <1>4, <1>5 DEF Tells
<1>7. ASSUME NEW w \in Range(d.text), w # Break
      PROVE  \E i \in 1 .. Len(blocks) :
        w \in Range(blocks[i].text) /\ blocks[i].path = d.header /\ Tells(r, L + 1, w, blocks[i].page)
  <2>1. PICK i \in 1 .. Len(blocks) :
          /\ w \in Range(blocks[i].text) /\ blocks[i].path = d.header
          /\ (m > 1 /\ w \in Range(C[m - 1].text)) \/ (d.from <= blocks[i].page /\ blocks[i].page <= d.to)
    BY <1>7 DEF ComingResult, d
  <2>2. CASE m > 1 /\ w \in Range(C[m - 1].text)
    <3>1. m - 1 # 0
      BY <1>2, <2>2
    <3>2. Range(C[m - 1].text) \subseteq Range(s[L].text) /\ s # <<>>
      BY <3>1 DEF Assembled, L
    <3>3. L # 0
      BY <1>1, <3>2 DEF L
    <3>4. L \in 1 .. L /\ L + 1 > 1 /\ (L + 1) - 1 = L
      BY <1>4, <3>3
    <3>5. w \in Range(r[(L + 1) - 1].text)
      BY <1>4, <2>2, <3>2, <3>4
    <3> QED
      BY <2>1, <3>4, <3>5 DEF Tells
  <2>3. CASE d.from <= blocks[i].page /\ blocks[i].page <= d.to
    BY <1>4, <2>1, <2>3 DEF Tells
  <2> QED
    BY <2>1, <2>2, <2>3
<1>8. ASSUME NEW n \in 1 .. Len(r), NEW w \in Range(r[n].text), w # Break
      PROVE  \E i \in 1 .. Len(blocks) :
        w \in Range(blocks[i].text) /\ blocks[i].path = r[n].header /\ Tells(r, n, w, blocks[i].page)
  <2>1. CASE n \in 1 .. L
    <3>1. r[n] = s[n]
      BY <1>4, <2>1
    <3>2. PICK i \in 1 .. Len(blocks) :
            w \in Range(blocks[i].text) /\ blocks[i].path = s[n].header /\ Tells(s, n, w, blocks[i].page)
      BY <1>8, <2>1, <3>1 DEF Assembled, L
    <3> QED
      BY <1>6, <2>1, <3>1, <3>2
  <2>2. CASE n = L + 1
    BY <1>4, <1>7, <1>8, <2>2
  <2> QED
    BY <1>5, <2>1, <2>2
<1>9. ASSUME NEW n \in 1 .. Len(r), r[n].modality = "text"
      PROVE  /\ \E a \in 1 .. m : C[a].modality = "text" /\ r[n].from = C[a].from
             /\ \E a \in 1 .. m : C[a].modality = "text" /\ r[n].to = C[a].to
  <2>1. CASE n \in 1 .. L
    <3>1. r[n] = s[n]
      BY <1>4, <2>1
    <3>2. /\ \E a \in 1 .. m - 1 : C[a].modality = "text" /\ s[n].from = C[a].from
          /\ \E a \in 1 .. m - 1 : C[a].modality = "text" /\ s[n].to = C[a].to
      BY <1>9, <2>1, <3>1 DEF Assembled, L
    <3> QED
      BY <1>5, <3>1, <3>2
  <2>2. CASE n = L + 1
    BY <1>4, <1>5, <1>9, <2>2 DEF d
  <2> QED
    BY <1>5, <2>1, <2>2
<1>10. ASSUME NEW a \in 1 .. m
       PROVE  \E n \in 1 .. Len(r) : r[n].header = C[a].header /\ Stands(C[a].text, r[n].text)
  <2>1. CASE a = m
    <3>1. Stands(d.text, d.text)
      BY <1>2, StandsSame
    <3> QED
      BY <1>4, <1>5, <2>1, <3>1 DEF d
  <2>2. CASE a \in 1 .. m - 1
    <3>1. PICK n \in 1 .. L : s[n].header = C[a].header /\ Stands(C[a].text, s[n].text)
      BY <2>2 DEF Assembled, L
    <3> QED
      BY <1>4, <1>5, <3>1
  <2> QED
    BY <1>5, <2>1, <2>2
<1>11. Range(C[m].text) \subseteq Range(r[Len(r)].text)
  BY <1>4, <1>5 DEF d
<1>12. m # 0 /\ r # <<>>
  BY <1>2, <1>4
<1>13. Assembled(blocks, C, m, r)
  BY <1>4, <1>8, <1>9, <1>10, <1>11, <1>12 DEF Assembled
<1> QED
  BY <1>13 DEF r, d

\* A draft that joins the passage before it.
LEMMA JoinAssembles ==
  ASSUME NEW blocks \in Seq(ParsedBlocks), NEW C, ComingResult(blocks, C), NEW m \in 1 .. Len(C),
         NEW s, Assembled(blocks, C, m - 1, s), Joins(s, C[m])
  PROVE  Assembled(blocks, C, m, AddDraft(s, C[m]))
<1> DEFINE d == C[m]
           r == AddDraft(s, d)
           L == Len(s)
<1>1. C \in Seq(PassageDrafts) /\ s \in Seq(PassageDrafts)
  BY DEF ComingResult, Assembled
<1>2. /\ d \in PassageDrafts /\ d.text \in Seq(Words) /\ d.from \in Nat /\ d.to \in Nat /\ m \in Nat
      /\ d.modality = "text" /\ s # <<>>
  BY <1>1, DraftTyped DEF Joins
<1> HIDE DEF d
<1>3. /\ r \in Seq(PassageDrafts)
      /\ L \in 1 .. L /\ Len(r) = L /\ \A n \in 1 .. L : n # L => r[n] = s[n]
      /\ r[L].text = Under(s[L].text, d.text) /\ r[L].from = s[L].from
      /\ r[L].to = d.to /\ r[L].header = s[L].header /\ s[L].header = d.header
      /\ r[L].modality = s[L].modality /\ r[L].joined = TRUE
  BY <1>1, <1>2, AddedIs DEF d
<1>4. L \in Nat /\ \A n \in 1 .. L : s[n] \in PassageDrafts /\ s[n].text \in Seq(Words)
  <2>1. L \in Nat /\ \A n \in 1 .. L : s[n] \in PassageDrafts
    BY <1>1
  <2> QED
    BY <2>1 DEF PassageDrafts
<1>5. m - 1 # 0 /\ m > 1 /\ m - 1 \in 1 .. m - 1
  <2>1. m - 1 # 0
    BY <1>2 DEF Assembled
  <2> QED
    BY <1>2, <2>1
<1>6. /\ \A a \in 1 .. m : a = m \/ a \in 1 .. m - 1
      /\ \A a \in 1 .. m - 1 : a \in 1 .. m /\ a < m /\ a \in 1 .. Len(C)
      /\ m \in 1 .. m
  BY <1>2
<1> HIDE DEF r, L
<1>7. /\ Range(r[L].text) \subseteq Range(s[L].text) \cup {Break} \cup Range(d.text)
      /\ Range(s[L].text) \subseteq Range(r[L].text) /\ Range(d.text) \subseteq Range(r[L].text)
      /\ Stands(s[L].text, r[L].text) /\ Stands(d.text, r[L].text) /\ r[L].text \in Seq(Words)
  <2> DEFINE x == s[L].text
             y == d.text
  <2>1. x \in Seq(Words) /\ y \in Seq(Words) /\ r[L].text = Under(x, y)
    BY <1>2, <1>3, <1>4
  <2> HIDE DEF x, y
  <2>2. /\ Range(Under(x, y)) \subseteq Range(x) \cup {Break} \cup Range(y)
        /\ Range(x) \subseteq Range(Under(x, y)) /\ Range(y) \subseteq Range(Under(x, y))
    BY <2>1, UnderRange
  <2>3. Stands(x, Under(x, y)) /\ Stands(y, Under(x, y)) /\ Under(x, y) \in Seq(Words)
    BY <2>1, StandsUnder, UnderIs
  <2> QED
    BY <2>1, <2>2, <2>3 DEF x, y
\* A text that is joined begins and ends no later than this one.
<1>8. ASSUME s[L].modality = "text" PROVE s[L].from <= d.from /\ s[L].to <= d.to
  <2>1. PICK a \in 1 .. m - 1 : C[a].modality = "text" /\ s[L].from = C[a].from
    BY <1>3, <1>8 DEF Assembled, L
  <2>2. PICK b \in 1 .. m - 1 : C[b].modality = "text" /\ s[L].to = C[b].to
    BY <1>3, <1>8 DEF Assembled, L
  <2>3. C[a].from <= d.from /\ C[b].to <= d.to
    BY <1>2, <1>6, <2>1, <2>2 DEF ComingResult, d
  <2> QED
    BY <2>1, <2>2, <2>3
<1>9. s[L].modality \in {"image", "text"} /\ s[L].from \in Nat /\ s[L].to \in Nat
  BY <1>3, <1>4 DEF PassageDrafts
<1>10. \A i \in 1 .. Len(blocks) : blocks[i].page \in Nat
  <2>1. \A i \in 1 .. Len(blocks) : blocks[i] \in ParsedBlocks
    OBVIOUS
  <2> QED
    BY <2>1 DEF ParsedBlocks
<1>11. L > 1 => L - 1 \in 1 .. L /\ r[L - 1] = s[L - 1]
  BY <1>3, <1>4
<1>12. ASSUME NEW w \in Range(s[L].text), NEW i \in 1 .. Len(blocks), Tells(s, L, w, blocks[i].page)
       PROVE  Tells(r, L, w, blocks[i].page)
  <2> DEFINE page == blocks[i].page
  <2>1. CASE L > 1 /\ w \in Range(s[L - 1].text)
    BY <1>11, <2>1 DEF Tells
  <2>2. CASE s[L].modality = "image"
    BY <1>3, <2>2 DEF Tells
  <2>3. CASE s[L].modality # "image" /\ s[L].from <= page /\ page <= s[L].to
    <3> DEFINE t == s[L].to
               e == d.to
    <3>1. page \in Nat /\ t \in Nat /\ e \in Nat /\ page <= t /\ t <= e
      BY <1>2, <1>8, <1>9, <1>10, <2>3
    <3> HIDE DEF page, t, e
    <3>2. page <= e
      BY <3>1
    <3>3. r[L].from <= page /\ page <= r[L].to
      BY <1>3, <2>3, <3>2 DEF e
    <3> QED
      BY <3>3 DEF Tells, page
  <2> QED
    BY <1>12, <2>1, <2>2, <2>3 DEF Tells
<1>13. ASSUME NEW w \in Range(r[L].text), w # Break
       PROVE  \E i \in 1 .. Len(blocks) :
         w \in Range(blocks[i].text) /\ blocks[i].path = r[L].header /\ Tells(r, L, w, blocks[i].page)
  <2>1. CASE w \in Range(s[L].text)
    <3>1. PICK i \in 1 .. Len(blocks) :
            w \in Range(blocks[i].text) /\ blocks[i].path = s[L].header /\ Tells(s, L, w, blocks[i].page)
      BY <1>3, <1>13, <2>1 DEF Assembled, L
    <3> QED
      BY <1>3, <1>12, <2>1, <3>1
  <2>2. CASE w \notin Range(s[L].text)
    <3>1. w \in Range(d.text)
      BY <1>7, <1>13, <2>2
    <3>2. PICK i \in 1 .. Len(blocks) :
            /\ w \in Range(blocks[i].text) /\ blocks[i].path = d.header
            /\ (m > 1 /\ w \in Range(C[m - 1].text)) \/ (d.from <= blocks[i].page /\ blocks[i].page <= d.to)
      BY <1>13, <3>1 DEF ComingResult, d
    <3>3. w \notin Range(C[m - 1].text)
      BY <1>5, <2>2 DEF Assembled, L
    <3>4. Tells(r, L, w, blocks[i].page)
      <4>1. CASE s[L].modality = "image"
        BY <1>3, <4>1 DEF Tells
      <4>2. CASE s[L].modality # "image"
        <5> DEFINE a == s[L].from
                   b == d.from
                   page == blocks[i].page
        <5>1. a \in Nat /\ b \in Nat /\ page \in Nat /\ a <= b /\ b <= page
          BY <1>2, <1>8, <1>9, <1>10, <3>2, <3>3, <4>2
        <5>2. page <= d.to
          BY <3>2, <3>3
        <5> HIDE DEF a, b, page
        <5>3. a <= page
          BY <5>1
        <5>4. r[L].from <= page /\ page <= r[L].to
          BY <1>3, <5>2, <5>3 DEF a
        <5> QED
          BY <5>4 DEF Tells, page
      <4> QED
        BY <4>1, <4>2
    <3> QED
      BY <1>3, <3>2, <3>4
  <2> QED
    BY <2>1, <2>2
<1>14. ASSUME NEW n \in 1 .. L, NEW w \in Range(r[n].text), w # Break
       PROVE  \E i \in 1 .. Len(blocks) :
         w \in Range(blocks[i].text) /\ blocks[i].path = r[n].header /\ Tells(r, n, w, blocks[i].page)
  <2>1. CASE n = L
    BY <1>13, <1>14, <2>1
  <2>2. CASE n # L
    <3>1. r[n] = s[n] /\ (n > 1 => n - 1 \in 1 .. L /\ n - 1 # L)
      BY <1>3, <1>4, <2>2
    <3>2. n > 1 => r[n - 1] = s[n - 1]
      BY <1>3, <3>1
    <3>3. PICK i \in 1 .. Len(blocks) :
            w \in Range(blocks[i].text) /\ blocks[i].path = s[n].header /\ Tells(s, n, w, blocks[i].page)
      BY <1>14, <3>1 DEF Assembled, L
    <3>4. Tells(r, n, w, blocks[i].page)
      BY <3>1, <3>2, <3>3 DEF Tells
    <3> QED
      BY <3>1, <3>3, <3>4
  <2> QED
    BY <2>1, <2>2
<1>15. ASSUME NEW n \in 1 .. L, r[n].modality = "text"
       PROVE  /\ \E a \in 1 .. m : C[a].modality = "text" /\ r[n].from = C[a].from
              /\ \E a \in 1 .. m : C[a].modality = "text" /\ r[n].to = C[a].to
  <2>1. s[n].modality = "text" /\ r[n].from = s[n].from /\ (n # L => r[n].to = s[n].to)
    BY <1>3, <1>15
  <2>2. /\ \E a \in 1 .. m - 1 : C[a].modality = "text" /\ s[n].from = C[a].from
        /\ \E a \in 1 .. m - 1 : C[a].modality = "text" /\ s[n].to = C[a].to
    BY <2>1 DEF Assembled, L
  <2>3. n = L => r[n].to = C[m].to /\ C[m].modality = "text"
    BY <1>2, <1>3 DEF d
  <2> QED
    BY <1>6, <2>1, <2>2, <2>3
<1>16. ASSUME NEW a \in 1 .. m
       PROVE  \E n \in 1 .. L : r[n].header = C[a].header /\ Stands(C[a].text, r[n].text)
  <2>1. CASE a = m
    BY <1>3, <1>7, <2>1 DEF d
  <2>2. CASE a \in 1 .. m - 1
    <3>1. PICK n \in 1 .. L : s[n].header = C[a].header /\ Stands(C[a].text, s[n].text)
      BY <2>2 DEF Assembled, L
    <3>2. CASE n = L
      <4> DEFINE x == C[a].text
                 y == s[L].text
                 z == r[L].text
      <4>1. /\ x \in Seq(Words) /\ y \in Seq(Words) /\ z \in Seq(Words)
            /\ Stands(x, y) /\ Stands(y, z)
        BY <1>1, <1>3, <1>4, <1>6, <1>7, <2>2, <3>1, <3>2, DraftTyped
      <4> HIDE DEF x, y, z
      <4>2. Stands(x, z)
        BY <4>1, StandsTrans
      <4> QED
        BY <1>3, <3>1, <3>2, <4>2 DEF x, z
    <3>3. CASE n # L
      BY <1>3, <3>1, <3>3
    <3> QED
      BY <3>2, <3>3
  <2> QED
    BY <1>6, <2>1, <2>2
<1>17. Range(C[m].text) \subseteq Range(r[Len(r)].text)
  BY <1>3, <1>7 DEF d
<1>18. m # 0 /\ r # <<>>
  BY <1>2, <1>3, <1>4
<1>19. Assembled(blocks, C, m, r)
  BY <1>3, <1>14, <1>15, <1>16, <1>17, <1>18 DEF Assembled
<1> QED
  BY <1>19 DEF r, d

-----------------------------------------------------------------------------
(* The passages of a document. *)

\* The passages of a document are made of all its drafts.
LEMMA ChunkDocumentIs ==
  ASSUME NEW blocks \in Seq(ParsedBlocks), PagesUp(blocks)
  PROVE  LET C == Coming(GroupByHeading(blocks))
         IN ComingResult(blocks, C) /\ Assembled(blocks, C, Len(C), ChunkDocument(blocks))
<1> DEFINE groups == GroupByHeading(blocks)
           C == FlattenSeq([g \in DOMAIN groups |-> Drafts(groups[g])])
           N == Len(C)
           B == Seq(PassageDrafts)
           Is(f) == f = [n \in 0 .. N |-> IF n = 0 THEN <<>> ELSE AddDraft(f[n - 1], C[n])]
           c == CHOOSE f : Is(f)
           step == [n \in 1 .. N |-> [s \in B |-> AddDraft(s, C[n])]]
<1>0. ChunkDocument(blocks) = c[N]
  BY DEF ChunkDocument, Assemble, Coming
<1>3. C = Coming(GroupByHeading(blocks))
  BY DEF Coming
<1> HIDE DEF C
<1>9. ComingResult(blocks, C)
  BY <1>3, ComingIs
<1>1. N \in Nat /\ <<>> \in B /\ \A n \in 1 .. N : C[n] \in PassageDrafts
  <2>1. C \in Seq(PassageDrafts)
    BY <1>9 DEF ComingResult
  <2> QED
    BY <2>1
<1>2. step \in [1 .. N -> [B -> B]]
  <2>1. \A n \in 1 .. N, s \in B : AddDraft(s, C[n]) \in B
    BY <1>1, AddedIs
  <2> HIDE DEF B, N
  <2> QED
    BY <2>1
<1>4. \A n \in 1 .. N, s \in B : step[n][s] = AddDraft(s, C[n])
  OBVIOUS
<1> HIDE DEF N, step, B
<1>5. Is(c)
  <2>1. PICK f \in [0 .. N -> B] : Loops(f, N, <<>>, step)
    BY <1>1, <1>2, LoopExists
  <2>2. ASSUME NEW n \in 0 .. N
        PROVE  f[n] = IF n = 0 THEN <<>> ELSE AddDraft(f[n - 1], C[n])
    <3>1. CASE n = 0
      BY <2>1, <3>1 DEF Loops
    <3>2. CASE n # 0
      <4>1. n \in 1 .. N /\ n - 1 \in 0 .. N
        BY <1>1, <3>2
      <4>2. f[n - 1] \in B /\ f[n] = step[n][f[n - 1]]
        BY <2>1, <4>1 DEF Loops
      <4> QED
        BY <1>4, <3>2, <4>1, <4>2
    <3> QED
      BY <3>1, <3>2
  <2>3. Is(f)
    BY <2>2
  <2> HIDE DEF Is
  <2> QED
    BY <2>3
<1> HIDE DEF c
<1> DEFINE P == {n \in 0 .. N : Assembled(blocks, C, n, c[n])}
<1>6. 0 \in P
  <2>1. c[0] = <<>> /\ 0 \in 0 .. N
    BY <1>1, <1>5
  <2>2. /\ <<>> \in Seq(PassageDrafts) /\ Len(<<>>) = 0 /\ 1 .. 0 = {}
    OBVIOUS
  <2>3. Assembled(blocks, C, 0, <<>>)
    BY <2>2 DEF Assembled
  <2> QED
    BY <2>1, <2>3
<1>7. ASSUME NEW n \in 1 .. N, n - 1 \in P PROVE n \in P
  <2> DEFINE s == c[n - 1]
  <2>1. c[n] = AddDraft(s, C[n])
    <3>1. n \in 0 .. N /\ n # 0
      BY <1>1
    <3>2. c = [k \in 0 .. N |-> IF k = 0 THEN <<>> ELSE AddDraft(c[k - 1], C[k])]
      BY <1>5
    <3> QED
      BY <3>1, <3>2
  <2>2. n \in 0 .. N /\ Assembled(blocks, C, n - 1, s)
    BY <1>1, <1>7
  <2> HIDE DEF s
  <2>3. s \in Seq(PassageDrafts) /\ C[n] \in PassageDrafts /\ n \in 1 .. Len(C)
    BY <1>1, <2>2 DEF Assembled, N
  <2>4. CASE ~Joins(s, C[n])
    <3>1. c[n] = Append(s, C[n])
      BY <2>1, <2>3, <2>4, AddedIs
    <3>2. Assembled(blocks, C, n, Append(s, C[n]))
      BY <1>9, <2>2, <2>3, AppendAssembles
    <3> QED
      BY <2>2, <3>1, <3>2
  <2>5. CASE Joins(s, C[n])
    <3>1. Assembled(blocks, C, n, AddDraft(s, C[n]))
      BY <1>9, <2>2, <2>3, <2>5, JoinAssembles
    <3> QED
      BY <2>1, <2>2, <3>1
  <2> QED
    BY <2>4, <2>5
<1>8. N \in P
  <2>1. N \in 0 .. N
    BY <1>1
  <2> HIDE DEF P
  <2>2. \A n \in 0 .. N : n \in P
    BY <1>1, <1>6, <1>7, Upto
  <2> QED
    BY <2>1, <2>2
<1>10. Assembled(blocks, C, N, c[N])
  BY <1>8
<1> QED
  BY <1>0, <1>3, <1>9, <1>10 DEF N

\* The ids of a text are those of its words.
LEMMA IdsAre ==
  ASSUME NEW text \in Seq(Words), NEW id
  PROVE  id \in Ids(text) <=> \E w \in Range(text) : w # Break /\ w.id = id
<1>1. Range(text) \subseteq Words /\ Range(text) = {text[i] : i \in 1 .. Len(text)}
  BY RangeIs
<1>2. Ids(text) = {text[i].id : i \in 1 .. Len(text)} \ {0}
  <2>1. DOMAIN text = 1 .. Len(text)
    OBVIOUS
  <2> QED
    BY <2>1 DEF Ids
<1>3. \A w \in Words : w # Break <=> w.id # 0
  BY DEF Words, Break
<1>4. ASSUME id \in Ids(text) PROVE \E w \in Range(text) : w # Break /\ w.id = id
  <2>1. PICK i \in 1 .. Len(text) : text[i].id = id /\ id # 0
    BY <1>2, <1>4
  <2>2. text[i] \in Range(text) /\ text[i] \in Words
    BY <1>1
  <2> QED
    BY <1>3, <2>1, <2>2
<1>5. ASSUME NEW w \in Range(text), w # Break, w.id = id PROVE id \in Ids(text)
  <2>1. id # 0
    BY <1>1, <1>3, <1>5
  <2>2. PICK i \in 1 .. Len(text) : text[i] = w
    BY <1>1
  <2> QED
    BY <1>2, <1>5, <2>1, <2>2
<1> QED
  BY <1>4, <1>5

\* A document's words tell their block.
LEMMA DocumentIs ==
  ASSUME NEW blocks \in Documents
  PROVE  /\ blocks \in Seq(ParsedBlocks) /\ PagesUp(blocks)
         /\ \A i, j \in 1 .. Len(blocks) : \A id :
              id \in Ids(blocks[i].text) /\ id \in Ids(blocks[j].text) => i = j
<1>1. blocks \in Seq(ParsedBlocks)
  BY DEF Documents
<1>2. DOMAIN blocks = 1 .. Len(blocks)
  BY <1>1
<1>3. \A i, j \in 1 .. Len(blocks) : i < j =>
        Ids(blocks[i].text) \cap Ids(blocks[j].text) = {} /\ Follows(blocks[j].page, blocks[i].page)
  BY <1>2 DEF Documents
<1>4. PagesUp(blocks)
  BY <1>3 DEF PagesUp
<1>5. ASSUME NEW i \in 1 .. Len(blocks), NEW j \in 1 .. Len(blocks), NEW id,
             id \in Ids(blocks[i].text), id \in Ids(blocks[j].text)
      PROVE  i = j
  <2>1. i < j \/ j < i \/ i = j
    OBVIOUS
  <2> QED
    BY <1>3, <1>5, <2>1
<1> QED
  BY <1>1, <1>4, <1>5

\* Where the words of a passage are from, by their ids.
LEMMA PassageIds ==
  ASSUME NEW blocks \in Documents, NEW C, NEW m, NEW ds, Assembled(blocks, C, m, ds),
         NEW n \in 1 .. Len(ds), NEW i \in 1 .. Len(blocks), NEW id,
         id \in Ids(blocks[i].text), id \in Ids(ds[n].text)
  PROVE  /\ blocks[i].path = ds[n].header
         /\ \/ n > 1 /\ id \in Ids(ds[n - 1].text)
            \/ ds[n].modality = "image" /\ ds[n].joined
            \/ ds[n].from <= blocks[i].page /\ blocks[i].page <= ds[n].to
<1>1. /\ blocks \in Seq(ParsedBlocks)
      /\ \A j \in 1 .. Len(blocks) : id \in Ids(blocks[j].text) => j = i
  BY DocumentIs
<1>2. ds \in Seq(PassageDrafts)
  BY DEF Assembled
<1>3. \A k \in 1 .. Len(ds) : ds[k].text \in Seq(Words)
  BY <1>2, DraftTyped
<1>4. \A j \in 1 .. Len(blocks) : blocks[j].text \in Seq(Words)
  <2>1. \A j \in 1 .. Len(blocks) : blocks[j] \in ParsedBlocks
    BY <1>1
  <2> QED
    BY <2>1 DEF ParsedBlocks
<1>5. PICK w \in Range(ds[n].text) : w # Break /\ w.id = id
  <2> DEFINE text == ds[n].text
  <2>1. text \in Seq(Words) /\ id \in Ids(text)
    BY <1>3
  <2> HIDE DEF text
  <2>2. \E w \in Range(text) : w # Break /\ w.id = id
    BY <2>1, IdsAre
  <2> QED
    BY <2>2 DEF text
<1>6. PICK j \in 1 .. Len(blocks) :
        w \in Range(blocks[j].text) /\ blocks[j].path = ds[n].header /\ Tells(ds, n, w, blocks[j].page)
  BY <1>5 DEF Assembled
<1>7. j = i
  <2> DEFINE text == blocks[j].text
  <2>1. text \in Seq(Words) /\ w \in Range(text)
    BY <1>4, <1>6
  <2> HIDE DEF text
  <2>2. id \in Ids(text)
    BY <1>5, <2>1, IdsAre
  <2> QED
    BY <1>1, <2>2 DEF text
<1>8. n > 1 /\ w \in Range(ds[n - 1].text) => id \in Ids(ds[n - 1].text)
  <2> SUFFICES ASSUME n > 1, w \in Range(ds[n - 1].text) PROVE id \in Ids(ds[n - 1].text)
    OBVIOUS
  <2> DEFINE text == ds[n - 1].text
  <2>0. n - 1 \in 1 .. Len(ds)
    BY <1>2
  <2>1. text \in Seq(Words) /\ w \in Range(text)
    BY <1>3, <2>0
  <2> HIDE DEF text
  <2>2. id \in Ids(text)
    BY <1>5, <2>1, IdsAre
  <2> QED
    BY <2>2 DEF text
<1> QED
  BY <1>6, <1>7, <1>8 DEF Tells

\* Chunking keeps every sentence whole under its own heading, in pieces of at most twice
\* the target, and the pages a citation tells are those the passage's own words are from
\* (services/chunking.py:3-10, 124-184), in a document whose words are each in one block
\* and whose pages go up or are not told.
THEOREM PassagesKeptHolds == ASSUME doc \in Documents PROVE PassagesKept
<1> DEFINE C == Coming(GroupByHeading(doc))
           ds == ChunkDocument(doc)
           groups == GroupByHeading(doc)
<1>1. doc \in Seq(ParsedBlocks) /\ PagesUp(doc) /\ DOMAIN doc = 1 .. Len(doc)
  <2>1. doc \in Seq(ParsedBlocks) /\ PagesUp(doc)
    BY DocumentIs
  <2> QED
    BY <2>1
<1>2. ComingResult(doc, C) /\ Assembled(doc, C, Len(C), ds)
  BY <1>1, ChunkDocumentIs
<1> HIDE DEF C, ds
<1>3. ds \in Seq(PassageDrafts) /\ C \in Seq(PassageDrafts)
  BY <1>2 DEF Assembled, ComingResult
<1>4. DOMAIN ds = 1 .. Len(ds) /\ Range(ds) = {ds[n] : n \in 1 .. Len(ds)}
  BY <1>3, RangeIs
<1>5. ASSUME NEW i \in 1 .. Len(doc), doc[i].kind # "heading",
             NEW s \in Range(Sentences(doc[i].text)), NEW part \in Parts(s)
      PROVE  \E d \in Range(ds) : d.header = doc[i].path /\ Stands(part, d.text)
  <2>1. PICK m \in 1 .. Len(C) : C[m].header = doc[i].path /\ Stands(part, C[m].text)
    BY <1>2, <1>5 DEF ComingResult
  <2>2. PICK n \in 1 .. Len(ds) : ds[n].header = C[m].header /\ Stands(C[m].text, ds[n].text)
    BY <1>2 DEF Assembled
  <2>3. part \in Seq(Words)
    <3> DEFINE text == doc[i].text
    <3>1. text \in Seq(Words)
      <4>1. doc[i] \in ParsedBlocks
        BY <1>1
      <4> QED
        BY <4>1 DEF ParsedBlocks
    <3>2. s \in Range(Sentences(text))
      OBVIOUS
    <3> HIDE DEF text
    <3> QED
      BY <3>1, <3>2, PartsAre
  <2>4. Stands(part, ds[n].text)
    <3> DEFINE a == C[m].text
               b == ds[n].text
    <3>1. a \in Seq(Words) /\ b \in Seq(Words) /\ Stands(part, a) /\ Stands(a, b)
      BY <1>3, <2>1, <2>2, DraftTyped
    <3> HIDE DEF a, b
    <3>2. Stands(part, b)
      BY <2>3, <3>1, StandsTrans
    <3> QED
      BY <3>2 DEF b
  <2> QED
    BY <1>4, <2>1, <2>2, <2>4
<1>6. KeptWhole(doc, ds)
  <2>1. ASSUME NEW i \in DOMAIN doc, doc[i].kind # "heading", NEW s \in Range(Sentences(doc[i].text))
        PROVE  IF Tokens(s) <= Target
               THEN \E d \in Range(ds) : d.header = doc[i].path /\ Stands(s, d.text)
               ELSE \A w \in Range(s) : \E d \in Range(ds) : d.header = doc[i].path /\ Stands(<<w>>, d.text)
    <3>1. i \in 1 .. Len(doc)
      BY <1>1
    <3>2. \A part \in Parts(s) : \E d \in Range(ds) : d.header = doc[i].path /\ Stands(part, d.text)
      BY <1>5, <2>1, <3>1
    <3>3. CASE Tokens(s) <= Target
      <4>1. s \in Parts(s)
        BY <3>3 DEF Parts
      <4> QED
        BY <3>2, <3>3, <4>1
    <3>4. CASE ~(Tokens(s) <= Target)
      <4>1. \A w \in Range(s) : <<w>> \in Parts(s)
        BY <3>4 DEF Parts
      <4> QED
        BY <3>2, <3>4, <4>1
    <3> QED
      BY <3>3, <3>4
  <2>2. ASSUME NEW d \in Range(ds), NEW i \in DOMAIN doc, Ids(doc[i].text) \cap Ids(d.text) # {}
        PROVE  d.header = doc[i].path
    <3>1. PICK n \in 1 .. Len(ds) : d = ds[n]
      BY <1>4
    <3>2. PICK id \in Ids(doc[i].text) : id \in Ids(d.text)
      BY <2>2
    <3>3. i \in 1 .. Len(doc) /\ id \in Ids(ds[n].text)
      BY <1>1, <3>1, <3>2
    <3>4. doc[i].path = ds[n].header
      BY <1>2, <3>2, <3>3, PassageIds
    <3> QED
      BY <3>1, <3>4
  <2> QED
    BY <2>1, <2>2 DEF KeptWhole
<1>7. PagesCover(doc, ds)
  <2> SUFFICES ASSUME NEW n \in DOMAIN ds, NEW i \in DOMAIN doc, NEW id,
                      id \in Ids(doc[i].text), id \in Ids(ds[n].text),
                      n = 1 \/ id \notin Ids(ds[n - 1].text),
                      ~(ds[n].modality = "image" /\ ds[n].joined)
               PROVE  doc[i].page \in ds[n].from .. ds[n].to
    BY DEF PagesCover
  <2>1. n \in 1 .. Len(ds) /\ i \in 1 .. Len(doc)
    BY <1>1, <1>4
  <2>2. n > 1 => n # 1
    BY <2>1
  <2>3. ds[n].from <= doc[i].page /\ doc[i].page <= ds[n].to
    BY <1>2, <2>1, <2>2, PassageIds
  <2>4. ds[n].from \in Nat /\ ds[n].to \in Nat
    BY <1>3, <2>1, DraftTyped
  <2>5. doc[i].page \in Nat
    <3>1. doc[i] \in ParsedBlocks
      BY <1>1, <2>1
    <3> QED
      BY <3>1 DEF ParsedBlocks
  <2> QED
    BY <2>3, <2>4, <2>5
<1>8. Bounded(doc)
  <2> SUFFICES ASSUME NEW g \in Range(groups), NEW p \in Range(Pack(TextOf(g)))
               PROVE  Tokens(p.text) <= 2 * Target
    BY DEF Bounded
  <2>1. groups \in Seq(Seq(ParsedBlocks)) /\ GroupsAre(doc, Len(doc), groups)
    BY <1>1, GroupByHeadingIs
  <2> HIDE DEF groups
  <2>2. PICK k \in 1 .. Len(groups) : g = groups[k]
    <3> DEFINE S == Seq(ParsedBlocks)
    <3>1. groups \in Seq(S)
      BY <2>1
    <3> HIDE DEF S
    <3> QED
      BY <3>1, RangeIs
  <2>3. g \in Seq(ParsedBlocks) /\ PagesUp(g)
    BY <2>1, <2>2 DEF GroupsAre, Group
  <2> DEFINE q == Pack(TextOf(g))
  <2>4. PackResult(TextOf(g), q)
    BY <2>3, PartsOf, PackIs
  <2> HIDE DEF q
  <2>5. PICK n \in 1 .. Len(q) : p = q[n]
    <3>1. q \in Seq(Pieces) /\ p \in Range(q)
      BY <2>4 DEF PackResult, q
    <3> QED
      BY <3>1, RangeIs
  <2> QED
    BY <2>4, <2>5 DEF PackResult
<1> QED
  BY <1>6, <1>7, <1>8 DEF PassagesKept, ds

\* Chunking loses no word (services/chunking.py:76-184): every word of a block that is not a
\* heading is in a passage under the block's heading.
THEOREM NoWordLost ==
  ASSUME doc \in Documents, NEW i \in DOMAIN doc, doc[i].kind # "heading",
         NEW w \in Range(doc[i].text), w # Break
  PROVE  \E d \in Range(ChunkDocument(doc)) : d.header = doc[i].path /\ w \in Range(d.text)
<1> DEFINE text == doc[i].text
           ds == ChunkDocument(doc)
<1>1. doc \in Seq(ParsedBlocks) /\ PagesUp(doc)
  BY DocumentIs
<1>2. text \in Seq(Words)
  <2>1. doc[i] \in ParsedBlocks
    BY <1>1
  <2> QED
    BY <2>1 DEF ParsedBlocks
<1>3. \E s \in Range(Sentences(text)) : w \in Range(s)
  <2>1. w \in Range(text)
    OBVIOUS
  <2> HIDE DEF text
  <2> QED
    BY <1>2, <2>1, SentencesAre
<1>4. PICK s \in Range(Sentences(doc[i].text)) : w \in Range(s)
  BY <1>3
<1>5. KeptWhole(doc, ds)
  BY PassagesKeptHolds DEF PassagesKept
<1> DEFINE Here(part) == \E d \in Range(ds) : d.header = doc[i].path /\ Stands(part, d.text)
<1>6. IF Tokens(s) <= Target THEN Here(s) ELSE \A v \in Range(s) : Here(<<v>>)
  BY <1>4, <1>5 DEF KeptWhole
<1>7. PICK part \in {s, <<w>>} : Here(part) /\ w \in Range(part)
  <2>1. w \in Range(<<w>>)
    BY DEF Range
  <2> QED
    BY <1>4, <1>6, <2>1
<1>8. PICK d \in Range(ds) : d.header = doc[i].path /\ Stands(part, d.text)
  BY <1>7
<1>9. part \in Seq(Words)
  <2>1. s \in Seq(Words)
    <3> DEFINE U == Seq(Words)
    <3>1. Sentences(text) \in Seq(U) /\ s \in Range(Sentences(text))
      BY <1>2, <1>4, SentencesAre
    <3> HIDE DEF U
    <3>2. s \in U
      BY <3>1, RangeIs
    <3> QED
      BY <3>2 DEF U
  <2>2. <<w>> \in Seq(Words)
    <3>1. w \in Words
      <4>1. w \in Range(text)
        OBVIOUS
      <4> HIDE DEF text
      <4> QED
        BY <1>2, <4>1, RangeIs
    <3> QED
      BY <3>1
  <2> QED
    BY <2>1, <2>2
<1>10. d.text \in Seq(Words)
  <2>1. Assembled(doc, Coming(GroupByHeading(doc)), Len(Coming(GroupByHeading(doc))), ds)
    BY <1>1, ChunkDocumentIs
  <2> HIDE DEF ds
  <2>2. ds \in Seq(PassageDrafts)
    BY <2>1 DEF Assembled
  <2>3. d \in PassageDrafts
    BY <1>8, <2>2, RangeIs
  <2> QED
    BY <2>3 DEF PassageDrafts
<1>11. w \in Range(d.text)
  <2> DEFINE t == d.text
  <2>1. t \in Seq(Words) /\ Stands(part, t)
    BY <1>8, <1>10
  <2> HIDE DEF t
  <2>2. Range(part) \subseteq Range(t)
    BY <1>9, <2>1, StandsWithin
  <2> QED
    BY <1>7, <2>2 DEF t
<1> QED
  BY <1>8, <1>11
=============================================================================
