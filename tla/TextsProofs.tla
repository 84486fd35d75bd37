---------------------------- MODULE TextsProofs ----------------------------
(***************************************************************************)
(* What the operators on texts compute, for texts of any length.  The      *)
(* induction runs over sets: a set of numbers that contains 0 and with n   *)
(* also n + 1 is Nat, and likewise for sequences.  A recursive function    *)
(* is a CHOOSE, so each lemma about one first shows that there is one.     *)
(***************************************************************************)
EXTENDS Texts, FiniteSetTheorems, SequenceTheorems, WellFoundedInduction, TLAPS

\* A set of numbers that is not empty has a smallest one.
LEMMA SmallestNat ==
    ASSUME NEW T \in SUBSET Nat, T # {}
    PROVE  \E x \in T : \A y \in T : x <= y
<1> DEFINE R == OpToRel(<, Nat)
<1>1. IsWellFoundedOn(R, Nat)
  BY NatLessThanWellFounded
<1>2. \A x, y \in Nat : y < x => <<y, x>> \in R
  BY DEF OpToRel
<1> HIDE DEF R
<1>3. PICK x \in T : \A y \in T : ~ (<<y, x>> \in R)
  BY <1>1, WFMin
<1>4. ASSUME NEW y \in T PROVE x <= y
  <2>1. x \in Nat /\ y \in Nat
    OBVIOUS
  <2>2. ~(y < x)
    BY <1>2, <1>3, <2>1
  <2>3. QED
    BY <2>1, <2>2
<1>5. QED
  BY <1>4

\* Induction over the natural numbers.
LEMMA InductionOverNat ==
    ASSUME NEW T \in SUBSET Nat, 0 \in T, \A n \in T : n + 1 \in T
    PROVE  T = Nat
<1> DEFINE R == OpToRel(<, Nat)
<1>1. IsWellFoundedOn(R, Nat)
  BY NatLessThanWellFounded
<1>2. \A x, y \in Nat : y < x => <<y, x>> \in R
  BY DEF OpToRel
<1> HIDE DEF R
<1>3. SUFFICES ASSUME Nat \ T # {} PROVE FALSE
  OBVIOUS
<1>4. PICK x \in Nat \ T : \A y \in Nat \ T : ~ (<<y, x>> \in R)
  <2>1. Nat \ T \subseteq Nat
    OBVIOUS
  <2>2. QED
    BY <1>1, <1>3, <2>1, WFMin
<1>5. x # 0 /\ x - 1 \in Nat /\ x - 1 < x
  OBVIOUS
<1>6. x - 1 \in T
  BY <1>2, <1>4, <1>5
<1>7. QED
  BY <1>5, <1>6

\* Induction over sequences: every sequence is empty or one longer than another.
LEMMA InductionOverSeq ==
    ASSUME NEW S, NEW T \in SUBSET Seq(S), <<>> \in T,
           \A s \in T : \A e \in S : Append(s, e) \in T
    PROVE  \A s \in Seq(S) : s \in T
<1> DEFINE L == {n \in Nat : \A s \in Seq(S) : Len(s) = n => s \in T}
<1>1. 0 \in L
  OBVIOUS
<1>2. ASSUME NEW n \in L PROVE n + 1 \in L
  <2>1. SUFFICES ASSUME NEW s \in Seq(S), Len(s) = n + 1 PROVE s \in T
    OBVIOUS
  <2>2. s # <<>>
    BY <2>1
  <2>3. PICK a \in Seq(S), e \in S : s = Append(a, e)
    BY <2>2, SequenceEmptyOrAppend
  <2>4. Len(a) = n
    BY <2>1, <2>3
  <2>5. QED
    BY <2>3, <2>4
<1>3. L = Nat
  <2> HIDE DEF L
  <2>1. L \in SUBSET Nat
    BY DEF L
  <2>2. QED
    BY <1>1, <1>2, <2>1, InductionOverNat
<1>4. \A n \in Nat : \A s \in Seq(S) : Len(s) = n => s \in T
  BY <1>3
<1>5. QED
  BY <1>4, LenProperties
-----------------------------------------------------------------------------
(***************************************************************************)
(* FlattenSeq                                                              *)
(***************************************************************************)

\* f is the function by which FlattenSeq is defined.
Flattens(f, seqs) ==
    f = [i \in 1 .. Len(seqs) |-> IF i = 1 THEN seqs[i] ELSE f[i - 1] \o seqs[i]]

LEMMA FlattensExtends ==
    ASSUME NEW S, NEW seqs \in Seq(Seq(S)), NEW e \in Seq(S),
           NEW f \in [1 .. Len(seqs) -> Seq(S)], Flattens(f, seqs)
    PROVE  \E g \in [1 .. (Len(seqs) + 1) -> Seq(S)] :
              /\ Flattens(g, Append(seqs, e))
              /\ g[Len(seqs) + 1] = IF Len(seqs) = 0 THEN e ELSE f[Len(seqs)] \o e
<1>1. PICK n \in Nat : n = Len(seqs)
  OBVIOUS
<1>2. PICK all : all = Append(seqs, e)
  OBVIOUS
<1>3. Len(all) = n + 1 /\ all[n + 1] = e /\ \A i \in 1 .. n : all[i] = seqs[i]
  BY <1>1, <1>2
<1>4. PICK last \in Seq(S) : last = IF n = 0 THEN e ELSE f[n] \o e
  <2>1. n # 0 => f[n] \in Seq(S)
    BY <1>1
  <2>2. n # 0 => f[n] \o e \in Seq(S)
    BY <2>1, ConcatProperties
  <2>3. QED
    BY <2>2
<1> DEFINE g == [i \in 1 .. (n + 1) |-> IF i = n + 1 THEN last ELSE f[i]]
<1>5. g \in [1 .. (n + 1) -> Seq(S)]
  BY <1>1
<1>6. \A i \in 1 .. n : f[i] = IF i = 1 THEN seqs[i] ELSE f[i - 1] \o seqs[i]
  BY <1>1 DEF Flattens
<1>7. ASSUME NEW i \in 1 .. (n + 1)
      PROVE  g[i] = IF i = 1 THEN all[i] ELSE g[i - 1] \o all[i]
  <2>1. CASE i = n + 1
    <3>1. n # 0 => g[i - 1] = f[n]
      BY <2>1
    <3>2. QED
      BY <1>3, <1>4, <2>1, <3>1
  <2>2. CASE i \in 1 .. n
    <3>1. g[i] = f[i] /\ (i # 1 => g[i - 1] = f[i - 1])
      BY <2>2
    <3>2. QED
      BY <1>3, <1>6, <2>2, <3>1
  <2>3. QED
    BY <2>1, <2>2
<1>8. g[n + 1] = last
  OBVIOUS
<1>9. Flattens(g, all)
  <2>1. g = [i \in 1 .. (n + 1) |-> g[i]]
    OBVIOUS
  <2> HIDE DEF g
  <2>2. g = [i \in 1 .. (n + 1) |-> IF i = 1 THEN all[i] ELSE g[i - 1] \o all[i]]
    BY <1>7, <2>1
  <2>3. QED
    BY <1>3, <2>2, Zenon DEF Flattens
<1> HIDE DEF g
<1>10. QED
  BY <1>1, <1>2, <1>4, <1>5, <1>8, <1>9

LEMMA FlattensExists ==
    ASSUME NEW S, NEW seqs \in Seq(Seq(S))
    PROVE  \E f \in [1 .. Len(seqs) -> Seq(S)] : Flattens(f, seqs)
<1> DEFINE T == {s \in Seq(Seq(S)) : \E f \in [1 .. Len(s) -> Seq(S)] : Flattens(f, s)}
<1>1. <<>> \in T
  <2>1. PICK f : f = [i \in 1 .. 0 |-> <<>>]
    OBVIOUS
  <2>2. f \in [1 .. 0 -> Seq(S)] /\ Flattens(f, <<>>)
    BY <2>1 DEF Flattens
  <2>3. <<>> \in Seq(Seq(S)) /\ Len(<<>>) = 0
    BY EmptySeq
  <2>4. QED
    BY <2>2, <2>3
<1>2. ASSUME NEW s \in T, NEW e \in Seq(S) PROVE Append(s, e) \in T
  <2>1. PICK f \in [1 .. Len(s) -> Seq(S)] : Flattens(f, s)
    OBVIOUS
  <2>2. Append(s, e) \in Seq(Seq(S)) /\ Len(Append(s, e)) = Len(s) + 1
    OBVIOUS
  <2>3. QED
    BY <2>1, <2>2, FlattensExtends
<1>3. T \in SUBSET Seq(Seq(S))
  OBVIOUS
<1> HIDE DEF T
<1>4. seqs \in T
  BY <1>1, <1>2, <1>3, InductionOverSeq
<1>5. QED
  BY <1>4 DEF T

LEMMA FlattensUnique ==
    ASSUME NEW seqs, Len(seqs) \in Nat, NEW f, NEW g, Flattens(f, seqs), Flattens(g, seqs)
    PROVE  f = g
<1>1. PICK n \in Nat : n = Len(seqs)
  OBVIOUS
<1>2. /\ DOMAIN f = 1 .. n /\ DOMAIN g = 1 .. n
      /\ \A i \in 1 .. n : f[i] = IF i = 1 THEN seqs[i] ELSE f[i - 1] \o seqs[i]
      /\ \A i \in 1 .. n : g[i] = IF i = 1 THEN seqs[i] ELSE g[i - 1] \o seqs[i]
      /\ f = [i \in 1 .. n |-> f[i]] /\ g = [i \in 1 .. n |-> g[i]]
  BY <1>1 DEF Flattens
<1> DEFINE T == {i \in Nat : i \in 1 .. n => f[i] = g[i]}
<1>3. 0 \in T
  OBVIOUS
<1>4. ASSUME NEW i \in T PROVE i + 1 \in T
  <2>1. SUFFICES ASSUME i + 1 \in 1 .. n PROVE f[i + 1] = g[i + 1]
    OBVIOUS
  <2>2. PICK k \in 1 .. n : k = i + 1
    BY <2>1
  <2> HIDE DEF T
  <2>3. CASE i = 0
    <3>1. k = 1 /\ i + 1 = 1
      BY <2>2, <2>3 DEF T
    <3>2. f[k] = seqs[k] /\ g[k] = seqs[k]
      BY <1>2, <3>1
    <3>3. QED
      BY <2>2, <3>2
  <2>4. CASE i # 0
    <3>1. i \in 1 .. n /\ k # 1 /\ k - 1 = i
      BY <2>2, <2>4 DEF T
    <3>2. f[i] = g[i]
      BY <3>1 DEF T
    <3>3. f[k] = f[k - 1] \o seqs[k] /\ g[k] = g[k - 1] \o seqs[k]
      BY <1>2, <2>2, <3>1
    <3>4. QED
      BY <2>2, <3>1, <3>2, <3>3
  <2>5. QED
    BY <2>3, <2>4
<1>5. T \in SUBSET Nat
  OBVIOUS
<1>6. T = Nat
  <2> HIDE DEF T
  <2>1. QED
    BY <1>3, <1>4, <1>5, InductionOverNat
<1>7. \A i \in 1 .. n : f[i] = g[i]
  BY <1>6
<1>8. QED
  BY <1>2, <1>7

\* FlattenSeq computes the last value of that function.
LEMMA FlattenValue ==
    ASSUME NEW S, NEW seqs \in Seq(Seq(S)), Len(seqs) # 0,
           NEW f \in [1 .. Len(seqs) -> Seq(S)], Flattens(f, seqs)
    PROVE  FlattenSeq(seqs) = f[Len(seqs)]
<1>1. FlattenSeq(seqs) = (CHOOSE g : Flattens(g, seqs))[Len(seqs)]
  BY Zenon DEF FlattenSeq, Flattens
<1>2. PICK g : g = CHOOSE h : Flattens(h, seqs)
  OBVIOUS
<1>3. Flattens(g, seqs)
  BY <1>2
<1>4. g = f
  <2>1. Len(seqs) \in Nat
    BY LenProperties
  <2>2. QED
    BY <1>3, <2>1, FlattensUnique
<1>5. QED
  BY <1>1, <1>2, <1>4

LEMMA FlattenAppend ==
    ASSUME NEW S, NEW seqs \in Seq(Seq(S)), NEW e \in Seq(S)
    PROVE  FlattenSeq(Append(seqs, e)) = FlattenSeq(seqs) \o e
<1>1. PICK f \in [1 .. Len(seqs) -> Seq(S)] : Flattens(f, seqs)
  BY FlattensExists
<1>2. PICK g \in [1 .. (Len(seqs) + 1) -> Seq(S)] :
              /\ Flattens(g, Append(seqs, e))
              /\ g[Len(seqs) + 1] = IF Len(seqs) = 0 THEN e ELSE f[Len(seqs)] \o e
  BY <1>1, FlattensExtends
<1>3. Append(seqs, e) \in Seq(Seq(S)) /\ Len(Append(seqs, e)) = Len(seqs) + 1 /\ Len(seqs) + 1 # 0
  OBVIOUS
<1>4. FlattenSeq(Append(seqs, e)) = g[Len(seqs) + 1]
  BY <1>2, <1>3, FlattenValue
<1>5. CASE Len(seqs) = 0
  <2>1. FlattenSeq(seqs) = <<>>
    BY <1>5 DEF FlattenSeq
  <2>2. <<>> \o e = e
    BY ConcatEmptySeq
  <2>3. QED
    BY <1>2, <1>4, <1>5, <2>1, <2>2
<1>6. CASE Len(seqs) # 0
  <2>1. FlattenSeq(seqs) = f[Len(seqs)]
    BY <1>1, <1>6, FlattenValue
  <2>2. QED
    BY <1>2, <1>4, <1>6, <2>1
<1>7. QED
  BY <1>5, <1>6

LEMMA FlattenType ==
    ASSUME NEW S, NEW seqs \in Seq(Seq(S))
    PROVE  FlattenSeq(seqs) \in Seq(S)
<1>1. CASE Len(seqs) = 0
  BY <1>1 DEF FlattenSeq
<1>2. CASE Len(seqs) # 0
  <2>1. PICK f \in [1 .. Len(seqs) -> Seq(S)] : Flattens(f, seqs)
    BY FlattensExists
  <2>2. FlattenSeq(seqs) = f[Len(seqs)] /\ Len(seqs) \in 1 .. Len(seqs)
    BY <1>2, <2>1, FlattenValue
  <2>3. QED
    BY <2>2
<1>3. QED
  BY <1>1, <1>2

LEMMA FlattenConcat ==
    ASSUME NEW S, NEW s \in Seq(Seq(S)), NEW t \in Seq(Seq(S))
    PROVE  FlattenSeq(s \o t) = FlattenSeq(s) \o FlattenSeq(t)
<1> DEFINE T == {u \in Seq(Seq(S)) : FlattenSeq(s \o u) = FlattenSeq(s) \o FlattenSeq(u)}
<1>1. <<>> \in T
  <2>1. FlattenSeq(<<>>) = <<>>
    BY DEF FlattenSeq
  <2>2. FlattenSeq(s) \o <<>> = FlattenSeq(s)
    BY FlattenType, ConcatEmptySeq
  <2>3. s \o <<>> = s
    BY ConcatEmptySeq
  <2>4. FlattenSeq(s \o <<>>) = FlattenSeq(s) \o FlattenSeq(<<>>) /\ <<>> \in Seq(Seq(S))
    BY <2>1, <2>2, <2>3, EmptySeq
  <2>5. QED
    BY <2>4
<1>2. ASSUME NEW u \in T, NEW e \in Seq(S) PROVE Append(u, e) \in T
  <2>1. u \in Seq(Seq(S)) /\ FlattenSeq(s \o u) = FlattenSeq(s) \o FlattenSeq(u)
    OBVIOUS
  <2> HIDE DEF T
  <2>2. s \o Append(u, e) = Append(s \o u, e)
    <3>1. Append(u, e) = u \o <<e>> /\ <<e>> \in Seq(Seq(S))
      BY <2>1, AppendIsConcat
    <3>2. s \o u \in Seq(Seq(S))
      BY <2>1, ConcatProperties
    <3>3. Append(s \o u, e) = (s \o u) \o <<e>>
      BY <3>2, AppendIsConcat
    <3>4. QED
      BY <2>1, <3>1, <3>3, ConcatAssociative
  <2>3. s \o u \in Seq(Seq(S))
    BY <2>1, ConcatProperties
  <2>4. FlattenSeq(Append(s \o u, e)) = FlattenSeq(s \o u) \o e
    BY <2>3, FlattenAppend
  <2>5. FlattenSeq(Append(u, e)) = FlattenSeq(u) \o e
    BY <2>1, FlattenAppend
  <2>6. FlattenSeq(s) \in Seq(S) /\ FlattenSeq(u) \in Seq(S)
    BY <2>1, FlattenType
  <2>7. (FlattenSeq(s) \o FlattenSeq(u)) \o e = FlattenSeq(s) \o (FlattenSeq(u) \o e)
    <3>1. PICK a \in Seq(S) : a = FlattenSeq(s)
      BY <2>6
    <3>2. PICK b \in Seq(S) : b = FlattenSeq(u)
      BY <2>6
    <3>3. (a \o b) \o e = a \o (b \o e)
      BY ConcatAssociative
    <3>4. QED
      BY <3>1, <3>2, <3>3
  <2>8. Append(u, e) \in Seq(Seq(S))
    BY <2>1
  <2>9. QED
    BY <2>1, <2>2, <2>4, <2>5, <2>7, <2>8 DEF T
<1>3. T \in SUBSET Seq(Seq(S))
  OBVIOUS
<1>4. t \in T
  <2> HIDE DEF T
  <2>1. QED
    BY <1>1, <1>2, <1>3, InductionOverSeq
<1>5. QED
  BY <1>4
-----------------------------------------------------------------------------
(***************************************************************************)
(* Terminated                                                              *)
(***************************************************************************)
LEMMA EachEnded ==
    ASSUME NEW S, NEW ps \in Seq(Seq(S)), NEW c \in S
    PROVE  /\ [k \in DOMAIN ps |-> ps[k] \o <<c>>] \in Seq(Seq(S))
           /\ Len([k \in DOMAIN ps |-> ps[k] \o <<c>>]) = Len(ps)
<1>1. PICK n \in Nat : n = Len(ps) /\ DOMAIN ps = 1 .. n
  BY LenProperties
<1>2. <<c>> \in Seq(S)
  OBVIOUS
<1>3. ASSUME NEW k \in 1 .. n PROVE ps[k] \o <<c>> \in Seq(S)
  <2>1. ps[k] \in Seq(S)
    BY <1>1
  <2>2. QED
    BY <1>2, <2>1, ConcatProperties
<1>4. PICK e : e = [k \in 1 .. n |-> ps[k] \o <<c>>]
  OBVIOUS
<1>5. e \in [1 .. n -> Seq(S)]
  BY <1>3, <1>4
<1>6. e \in Seq(Seq(S)) /\ Len(e) = n
  BY <1>5, SeqDef
<1>7. QED
  BY <1>1, <1>4, <1>6

LEMMA TerminatedType ==
    ASSUME NEW S, NEW ps \in Seq(Seq(S)), NEW c \in S
    PROVE  Terminated(ps, c) \in Seq(S)
  BY EachEnded, FlattenType DEF Terminated

\* The text d is a, n characters, and behind it b, m characters.
Meets(d, a, n, b, m) ==
    /\ Len(d) = n + m
    /\ \A i \in 1 .. n : d[i] = a[i]
    /\ \A i \in 1 .. m : d[n + i] = b[i]

LEMMA ConcatMeets ==
    ASSUME NEW S, NEW a \in Seq(S), NEW b \in Seq(S)
    PROVE  Meets(a \o b, a, Len(a), b, Len(b))
<1>1. PICK n \in Nat : n = Len(a)
  BY LenProperties
<1>2. PICK m \in Nat : m = Len(b)
  BY LenProperties
<1>3. PICK d : d = a \o b
  OBVIOUS
<1>4. /\ Len(d) = n + m
      /\ \A i \in 1 .. (n + m) : d[i] = IF i <= n THEN a[i] ELSE b[i - n]
  BY <1>1, <1>2, <1>3, ConcatProperties
<1>5. ASSUME NEW i \in 1 .. n PROVE d[i] = a[i]
  BY <1>4
<1>6. ASSUME NEW i \in 1 .. m PROVE d[n + i] = b[i]
  <2>1. n + i \in 1 .. (n + m) /\ ~(n + i <= n) /\ (n + i) - n = i
    OBVIOUS
  <2>2. QED
    BY <1>4, <2>1
<1>7. Meets(d, a, n, b, m)
  BY <1>4, <1>5, <1>6 DEF Meets
<1>8. QED
  BY <1>1, <1>2, <1>3, <1>7, Zenon

LEMMA TerminatedConcat ==
    ASSUME NEW S, NEW ps \in Seq(Seq(S)), NEW qs \in Seq(Seq(S)), NEW c \in S
    PROVE  Terminated(ps \o qs, c) = Terminated(ps, c) \o Terminated(qs, c)
<1>1. PICK a \in Seq(Seq(S)) : a = [k \in DOMAIN ps |-> ps[k] \o <<c>>]
  BY EachEnded
<1>2. PICK b \in Seq(Seq(S)) : b = [k \in DOMAIN qs |-> qs[k] \o <<c>>]
  BY EachEnded
<1>3. PICK m \in Nat : m = Len(ps)
  BY LenProperties
<1>4. PICK n \in Nat : n = Len(qs)
  BY LenProperties
<1>5. PICK all \in Seq(Seq(S)) : all = ps \o qs
  BY ConcatProperties
<1>6. PICK d \in Seq(Seq(S)) : d = [k \in DOMAIN all |-> all[k] \o <<c>>]
  BY EachEnded
<1>7. Meets(all, ps, m, qs, n) /\ Len(all) = m + n
  <2>1. Meets(all, ps, m, qs, n)
    BY <1>3, <1>4, <1>5, ConcatMeets, Zenon
  <2>2. QED
    BY <2>1, Zenon DEF Meets
<1>8. Len(a) = m /\ \A k \in 1 .. m : a[k] = ps[k] \o <<c>>
  <2>1. DOMAIN ps = 1 .. m
    BY <1>3, LenProperties
  <2>2. Len([k \in DOMAIN ps |-> ps[k] \o <<c>>]) = Len(ps)
    BY EachEnded
  <2>3. QED
    BY <1>1, <1>3, <2>1, <2>2, Zenon
<1>9. Len(b) = n /\ \A k \in 1 .. n : b[k] = qs[k] \o <<c>>
  <2>1. DOMAIN qs = 1 .. n
    BY <1>4, LenProperties
  <2>2. Len([k \in DOMAIN qs |-> qs[k] \o <<c>>]) = Len(qs)
    BY EachEnded
  <2>3. QED
    BY <1>2, <1>4, <2>1, <2>2, Zenon
<1>10. Len(d) = m + n /\ \A k \in 1 .. (m + n) : d[k] = all[k] \o <<c>>
  <2>1. DOMAIN all = 1 .. (m + n)
    BY <1>7, LenProperties
  <2>2. Len([k \in DOMAIN all |-> all[k] \o <<c>>]) = Len(all)
    BY EachEnded
  <2>3. QED
    BY <1>6, <1>7, <2>1, <2>2, Zenon
<1>11. a \o b = d
  <2>1. PICK ab \in Seq(Seq(S)) : ab = a \o b
    BY ConcatProperties
  <2>2. Meets(ab, a, m, b, n)
    BY <1>8, <1>9, <2>1, ConcatMeets, Zenon
  <2>3. ASSUME NEW k \in 1 .. (m + n) PROVE ab[k] = d[k]
    <3>1. CASE k <= m
      <4>1. k \in 1 .. m
        BY <3>1
      <4>2. ab[k] = a[k] /\ all[k] = ps[k]
        BY <1>7, <2>2, <4>1, Zenon DEF Meets
      <4>3. a[k] = ps[k] \o <<c>> /\ d[k] = all[k] \o <<c>>
        BY <1>8, <1>10, <4>1
      <4>4. QED
        BY <4>2, <4>3
    <3>2. CASE ~(k <= m)
      <4>1. PICK j \in 1 .. n : k = m + j
        <5>1. k - m \in 1 .. n /\ k = m + (k - m)
          BY <3>2
        <5>2. QED
          BY <5>1, Zenon
      <4>2. ab[m + j] = b[j] /\ all[m + j] = qs[j]
        BY <1>7, <2>2, Zenon DEF Meets
      <4>3. b[j] = qs[j] \o <<c>> /\ d[k] = all[k] \o <<c>>
        BY <1>9, <1>10, Zenon
      <4>4. QED
        BY <4>1, <4>2, <4>3, Zenon
    <3>3. QED
      BY <3>1, <3>2
  <2>4. Len(ab) = m + n
    BY <2>2, Zenon DEF Meets
  <2>5. QED
    BY <1>10, <2>1, <2>3, <2>4, SeqEqual
<1>12. FlattenSeq(d) = FlattenSeq(a) \o FlattenSeq(b)
  BY <1>11, FlattenConcat
<1>13. Terminated(all, c) = FlattenSeq(d)
  BY <1>6 DEF Terminated
<1>14. Terminated(ps, c) = FlattenSeq(a) /\ Terminated(qs, c) = FlattenSeq(b)
  BY <1>1, <1>2 DEF Terminated
<1>15. QED
  BY <1>5, <1>12, <1>13, <1>14

LEMMA TerminatedOne ==
    ASSUME NEW S, NEW p \in Seq(S), NEW c \in S
    PROVE  Terminated(<<p>>, c) = p \o <<c>>
<1>1. PICK e \in Seq(S) : e = p \o <<c>>
  <2>1. <<c>> \in Seq(S)
    OBVIOUS
  <2>2. QED
    BY <2>1, ConcatProperties
<1>2. [k \in DOMAIN <<p>> |-> <<p>>[k] \o <<c>>] = <<e>>
  <2>1. DOMAIN <<p>> = 1 .. 1 /\ <<p>>[1] = p
    OBVIOUS
  <2>2. [k \in 1 .. 1 |-> <<p>>[k] \o <<c>>] = [k \in 1 .. 1 |-> e]
    <3>1. \A k \in 1 .. 1 : k = 1
      OBVIOUS
    <3>2. \A k \in 1 .. 1 : <<p>>[k] \o <<c>> = e
      BY <1>1, <2>1, <3>1, Zenon
    <3>3. QED
      BY <3>2, Zenon
  <2>3. [k \in 1 .. 1 |-> e] = <<e>>
    OBVIOUS
  <2>4. QED
    BY <2>1, <2>2, <2>3
<1>3. <<e>> = Append(<<>>, e) /\ <<>> \in Seq(Seq(S))
  OBVIOUS
<1>4. FlattenSeq(Append(<<>>, e)) = FlattenSeq(<<>>) \o e
  BY <1>3, FlattenAppend
<1>5. FlattenSeq(<<>>) = <<>>
  BY DEF FlattenSeq
<1>6. <<>> \o e = e
  BY ConcatEmptySeq
<1>7. QED
  BY <1>1, <1>2, <1>3, <1>4, <1>5, <1>6 DEF Terminated

LEMMA TerminatedAppend ==
    ASSUME NEW S, NEW ps \in Seq(Seq(S)), NEW p \in Seq(S), NEW c \in S
    PROVE  Terminated(Append(ps, p), c) = Terminated(ps, c) \o Append(p, c)
<1>1. <<p>> \in Seq(Seq(S)) /\ Append(ps, p) = ps \o <<p>>
  BY AppendIsConcat
<1>2. PICK qs \in Seq(Seq(S)) : qs = <<p>>
  BY <1>1
<1>3. Terminated(ps \o qs, c) = Terminated(ps, c) \o Terminated(qs, c)
  BY TerminatedConcat
<1>4. Terminated(<<p>>, c) = Append(p, c)
  BY TerminatedOne, AppendIsConcat
<1>5. QED
  BY <1>1, <1>2, <1>3, <1>4
-----------------------------------------------------------------------------
(***************************************************************************)
(* Pieces                                                                  *)
(***************************************************************************)

\* f is the function by which Pieces is defined.
Splits(f, t, c) ==
    f = [k \in 0 .. Len(t) |-> IF k = 0 THEN << <<>> >> ELSE Extended(f[k - 1], t[k], c)]

LEMMA FrontLast ==
    ASSUME NEW S, NEW s \in Seq(S), NEW e \in S
    PROVE  Front(Append(s, e)) = s /\ Last(Append(s, e)) = e
<1>1. PICK n \in Nat : n = Len(s)
  BY LenProperties
<1>2. PICK a \in Seq(S) : a = Append(s, e)
  BY AppendProperties
<1>3. Len(a) = n + 1 /\ a[n + 1] = e /\ \A i \in 1 .. n : a[i] = s[i]
  BY <1>1, <1>2, AppendProperties
<1>4. PICK b : b = SubSeq(a, 1, n)
  OBVIOUS
<1>5. b \in Seq(S) /\ Len(b) = n /\ \A i \in 1 .. n : b[i] = a[i]
  BY <1>3, <1>4
<1>6. b = s
  BY <1>3, <1>1, <1>5, SeqEqual
<1>7. Len(a) - 1 = n
  BY <1>3
<1>8. QED
  BY <1>3, <1>2, <1>4, <1>6, <1>7 DEF Front, Last

LEMMA ExtendedCases ==
    ASSUME NEW S, NEW ps \in Seq(Seq(S)), NEW p \in Seq(S), NEW ch \in S, NEW c
    PROVE  Extended(Append(ps, p), ch, c) =
              IF ch = c THEN Append(Append(ps, p), <<>>) ELSE Append(ps, Append(p, ch))
  BY FrontLast DEF Extended

\* What one more piece does to the others.
LEMMA AppendPiece ==
    ASSUME NEW S, NEW ps \in Seq(Seq(S)), NEW p \in Seq(S)
    PROVE  /\ Append(ps, p) \in Seq(Seq(S)) /\ Append(ps, p) # <<>>
           /\ Len(Append(ps, p)) = Len(ps) + 1
           /\ \A i \in 1 .. Len(ps) : Append(ps, p)[i] = ps[i]
           /\ Append(ps, p)[Len(ps) + 1] = p
<1>1. PICK D : D = Seq(S)
  OBVIOUS
<1>2. ps \in Seq(D) /\ p \in D
  BY <1>1
<1>3. QED
  BY <1>1, <1>2, AppendProperties

LEMMA ExtendedType ==
    ASSUME NEW S, NEW ps \in Seq(Seq(S)), ps # <<>>, NEW ch \in S, NEW c
    PROVE  Extended(ps, ch, c) \in Seq(Seq(S)) /\ Extended(ps, ch, c) # <<>>
<1>1. PICK a \in Seq(Seq(S)), p \in Seq(S) : ps = Append(a, p)
  BY SequenceEmptyOrAppend
<1>2. PICK q \in Seq(S) : q = Append(p, ch)
  BY AppendProperties
<1>3. /\ Append(a, q) \in Seq(Seq(S)) /\ Append(a, q) # <<>>
      /\ Append(ps, <<>>) \in Seq(Seq(S)) /\ Append(ps, <<>>) # <<>>
  <2>1. <<>> \in Seq(S)
    BY EmptySeq
  <2>2. Append(a, q) \in Seq(Seq(S)) /\ Append(a, q) # <<>>
    BY AppendPiece, SMTT(20)
  <2>3. Append(ps, <<>>) \in Seq(Seq(S)) /\ Append(ps, <<>>) # <<>>
    BY <2>1, AppendPiece, Zenon
  <2>4. QED
    BY <2>2, <2>3, Zenon
<1>4. Extended(ps, ch, c) = IF ch = c THEN Append(ps, <<>>) ELSE Append(a, Append(p, ch))
  BY <1>1, ExtendedCases
<1>5. QED
  BY <1>2, <1>3, <1>4

LEMMA SplitsExtends ==
    ASSUME NEW S, NEW t \in Seq(S), NEW ch \in S, NEW c,
           NEW f \in [0 .. Len(t) -> Seq(Seq(S)) \ {<<>>}], Splits(f, t, c)
    PROVE  \E g \in [0 .. (Len(t) + 1) -> Seq(Seq(S)) \ {<<>>}] :
              /\ Splits(g, Append(t, ch), c)
              /\ g[Len(t) + 1] = Extended(f[Len(t)], ch, c)
<1>1. PICK n \in Nat : n = Len(t)
  BY LenProperties
<1>2. PICK all : all = Append(t, ch)
  OBVIOUS
<1>3. Len(all) = n + 1 /\ all[n + 1] = ch /\ \A i \in 1 .. n : all[i] = t[i]
  BY <1>1, <1>2, AppendProperties
<1>4. PICK D : D = Seq(Seq(S)) \ {<<>>}
  OBVIOUS
<1>5. f \in [0 .. n -> D]
  BY <1>1, <1>4
<1>6. PICK last \in D : last = Extended(f[n], ch, c)
  <2>1. f[n] \in D
    BY <1>5
  <2>2. f[n] \in Seq(Seq(S)) /\ f[n] # <<>>
    BY <1>4, <2>1
  <2>3. Extended(f[n], ch, c) \in Seq(Seq(S)) /\ Extended(f[n], ch, c) # <<>>
    BY <2>2, ExtendedType
  <2>4. QED
    BY <1>4, <2>3
<1> DEFINE g == [i \in 0 .. (n + 1) |-> IF i = n + 1 THEN last ELSE f[i]]
<1>7. g \in [0 .. (n + 1) -> D]
  BY <1>5
<1>8. \A i \in 0 .. n : f[i] = IF i = 0 THEN << <<>> >> ELSE Extended(f[i - 1], t[i], c)
  <2>1. f = [i \in 0 .. n |-> IF i = 0 THEN << <<>> >> ELSE Extended(f[i - 1], t[i], c)]
    BY <1>1, Zenon DEF Splits
  <2>2. QED
    BY <2>1, Zenon
<1>9. ASSUME NEW i \in 0 .. (n + 1)
      PROVE  g[i] = IF i = 0 THEN << <<>> >> ELSE Extended(g[i - 1], all[i], c)
  <2>1. CASE i = n + 1
    <3>1. g[i - 1] = f[n] /\ g[i] = last /\ i # 0
      BY <2>1
    <3>2. QED
      BY <1>3, <1>6, <2>1, <3>1
  <2>2. CASE i \in 1 .. n
    <3>1. g[i] = f[i] /\ g[i - 1] = f[i - 1] /\ i # 0 /\ i \in 0 .. n
      BY <2>2
    <3>2. QED
      BY <1>3, <1>8, <2>2, <3>1
  <2>3. CASE i = 0
    <3>1. g[i] = f[i] /\ i \in 0 .. n
      BY <2>3
    <3>2. QED
      BY <1>8, <2>3, <3>1
  <2>4. QED
    BY <2>1, <2>2, <2>3
<1>10. g[n + 1] = last
  OBVIOUS
<1>11. g = [i \in 0 .. (n + 1) |-> g[i]]
  OBVIOUS
<1> HIDE DEF g
<1>12. Splits(g, all, c)
  <2>1. g = [i \in 0 .. (n + 1) |-> IF i = 0 THEN << <<>> >> ELSE Extended(g[i - 1], all[i], c)]
    BY <1>9, <1>11, Zenon
  <2>2. QED
    BY <1>3, <2>1, Zenon DEF Splits
<1>13. QED
  BY <1>1, <1>2, <1>4, <1>6, <1>7, <1>10, <1>12

LEMMA SplitsExists ==
    ASSUME NEW S, NEW t \in Seq(S), NEW c
    PROVE  \E f \in [0 .. Len(t) -> Seq(Seq(S)) \ {<<>>}] : Splits(f, t, c)
<1> DEFINE T == {s \in Seq(S) : \E f \in [0 .. Len(s) -> Seq(Seq(S)) \ {<<>>}] : Splits(f, s, c)}
<1>1. <<>> \in T
  <2>1. PICK f : f = [i \in 0 .. 0 |-> << <<>> >>]
    OBVIOUS
  <2>2. << <<>> >> \in Seq(Seq(S)) \ {<<>>}
    OBVIOUS
  <2>3. f \in [0 .. 0 -> Seq(Seq(S)) \ {<<>>}]
    BY <2>1, <2>2
  <2>4. Splits(f, <<>>, c)
    <3>1. Len(<<>>) = 0 /\ \A k \in 0 .. 0 : k = 0
      OBVIOUS
    <3>2. QED
      BY <2>1, <3>1 DEF Splits
  <2>5. <<>> \in Seq(S) /\ Len(<<>>) = 0
    BY EmptySeq
  <2>6. QED
    BY <2>3, <2>4, <2>5
<1>2. ASSUME NEW s \in T, NEW e \in S PROVE Append(s, e) \in T
  <2>1. PICK f \in [0 .. Len(s) -> Seq(Seq(S)) \ {<<>>}] : Splits(f, s, c)
    OBVIOUS
  <2>2. s \in Seq(S)
    OBVIOUS
  <2> HIDE DEF T
  <2>3. Append(s, e) \in Seq(S) /\ Len(Append(s, e)) = Len(s) + 1
    BY <2>2, AppendProperties
  <2>4. \E g \in [0 .. (Len(s) + 1) -> Seq(Seq(S)) \ {<<>>}] : Splits(g, Append(s, e), c)
    BY <2>1, <2>2, SplitsExtends
  <2>5. QED
    BY <2>3, <2>4 DEF T
<1>3. T \in SUBSET Seq(S)
  OBVIOUS
<1> HIDE DEF T
<1>4. t \in T
  BY <1>1, <1>2, <1>3, InductionOverSeq
<1>5. QED
  BY <1>4 DEF T

LEMMA SplitsUnique ==
    ASSUME NEW t, Len(t) \in Nat, NEW c, NEW f, NEW g, Splits(f, t, c), Splits(g, t, c)
    PROVE  f = g
<1>1. PICK n \in Nat : n = Len(t)
  OBVIOUS
<1>2. /\ f = [k \in 0 .. n |-> IF k = 0 THEN << <<>> >> ELSE Extended(f[k - 1], t[k], c)]
      /\ g = [k \in 0 .. n |-> IF k = 0 THEN << <<>> >> ELSE Extended(g[k - 1], t[k], c)]
  BY <1>1, Zenon DEF Splits
<1>3. /\ \A k \in 0 .. n : f[k] = IF k = 0 THEN << <<>> >> ELSE Extended(f[k - 1], t[k], c)
      /\ \A k \in 0 .. n : g[k] = IF k = 0 THEN << <<>> >> ELSE Extended(g[k - 1], t[k], c)
  BY <1>2, Zenon
<1>4. f = [k \in 0 .. n |-> f[k]] /\ g = [k \in 0 .. n |-> g[k]]
  BY <1>2, <1>3, Zenon
<1> DEFINE T == {i \in Nat : i \in 0 .. n => f[i] = g[i]}
<1>5. 0 \in T
  BY <1>3
<1>6. ASSUME NEW i \in T PROVE i + 1 \in T
  <2>1. SUFFICES ASSUME i + 1 \in 0 .. n PROVE f[i + 1] = g[i + 1]
    OBVIOUS
  <2>2. i \in 0 .. n /\ f[i] = g[i]
    BY <2>1
  <2> HIDE DEF T
  <2>3. PICK k \in 0 .. n : k = i + 1
    BY <2>1
  <2>4. k # 0 /\ k - 1 = i
    BY <2>2, <2>3
  <2>5. f[k] = Extended(f[k - 1], t[k], c) /\ g[k] = Extended(g[k - 1], t[k], c)
    BY <1>3, <2>4, Zenon
  <2>6. QED
    BY <2>2, <2>3, <2>4, <2>5, Zenon
<1>7. T \in SUBSET Nat
  OBVIOUS
<1>8. T = Nat
  <2> HIDE DEF T
  <2>1. QED
    BY <1>5, <1>6, <1>7, InductionOverNat
<1>9. \A i \in 0 .. n : f[i] = g[i]
  BY <1>8
<1>10. QED
  BY <1>4, <1>9, Zenon

LEMMA PiecesValue ==
    ASSUME NEW S, NEW t \in Seq(S), NEW c, NEW f, Splits(f, t, c)
    PROVE  Pieces(t, c) = f[Len(t)]
<1>1. Pieces(t, c) = (CHOOSE g : Splits(g, t, c))[Len(t)]
  BY Zenon DEF Pieces, Splits
<1>2. PICK g : g = CHOOSE h : Splits(h, t, c)
  OBVIOUS
<1>3. Splits(g, t, c)
  BY <1>2
<1>4. Len(t) \in Nat
  BY LenProperties
<1>5. g = f
  BY <1>3, <1>4, SplitsUnique
<1>6. QED
  BY <1>1, <1>2, <1>5

\* The pieces of a text follow from those of the text without its last character.
LEMMA PiecesAppend ==
    ASSUME NEW S, NEW t \in Seq(S), NEW ch \in S, NEW c
    PROVE  Pieces(Append(t, ch), c) = Extended(Pieces(t, c), ch, c)
<1>1. PICK f \in [0 .. Len(t) -> Seq(Seq(S)) \ {<<>>}] : Splits(f, t, c)
  BY SplitsExists
<1>2. PICK g : Splits(g, Append(t, ch), c) /\ g[Len(t) + 1] = Extended(f[Len(t)], ch, c)
  BY <1>1, SplitsExtends
<1>3. Append(t, ch) \in Seq(S) /\ Len(Append(t, ch)) = Len(t) + 1
  BY AppendProperties
<1>4. Pieces(t, c) = f[Len(t)]
  BY <1>1, PiecesValue
<1>5. Pieces(Append(t, ch), c) = g[Len(t) + 1]
  BY <1>2, <1>3, PiecesValue
<1>6. QED
  BY <1>2, <1>4, <1>5

LEMMA PiecesEmpty ==
    ASSUME NEW c
    PROVE  Pieces(<<>>, c) = << <<>> >>
<1>1. <<>> \in Seq({}) /\ Len(<<>>) = 0
  BY EmptySeq
<1>2. PICK f \in [0 .. Len(<<>>) -> Seq(Seq({})) \ {<<>>}] : Splits(f, <<>>, c)
  BY <1>1, SplitsExists
<1>3. Pieces(<<>>, c) = f[0]
  BY <1>1, <1>2, PiecesValue
<1>4. f = [k \in 0 .. 0 |-> IF k = 0 THEN << <<>> >> ELSE Extended(f[k - 1], <<>>[k], c)]
  BY <1>1, <1>2, Zenon DEF Splits
<1>5. 0 \in 0 .. 0
  OBVIOUS
<1>6. f[0] = << <<>> >>
  BY <1>4, <1>5, Zenon
<1>7. QED
  BY <1>3, <1>6

LEMMA PiecesType ==
    ASSUME NEW S, NEW t \in Seq(S), NEW c
    PROVE  Pieces(t, c) \in Seq(Seq(S)) /\ Pieces(t, c) # <<>>
<1>1. PICK f \in [0 .. Len(t) -> Seq(Seq(S)) \ {<<>>}] : Splits(f, t, c)
  BY SplitsExists
<1>2. Pieces(t, c) = f[Len(t)]
  BY <1>1, PiecesValue
<1>3. Len(t) \in 0 .. Len(t)
  BY LenProperties
<1>4. f[Len(t)] \in Seq(Seq(S)) \ {<<>>}
  BY <1>1, <1>3
<1>5. QED
  BY <1>2, <1>4

\* The pieces of t are those of ps and, as the last one, p.
Taken(t, c, ps, p) == Pieces(t, c) = Append(ps, p)

Makes(a, b, s) == a \o b = s

LEMMA MakesAppend ==
    ASSUME NEW S, NEW a \in Seq(S), NEW b \in Seq(S), NEW ch \in S, NEW s, Makes(a, b, s)
    PROVE  Makes(a, Append(b, ch), Append(s, ch))
<1>1. Append(a \o b, ch) = a \o Append(b, ch)
  OBVIOUS
<1>2. QED
  BY <1>1 DEF Makes

LEMMA MakesEmpty ==
    ASSUME NEW S, NEW s \in Seq(S)
    PROVE  Makes(s, <<>>, s) /\ Makes(<<>>, s, s)
  BY ConcatEmptySeq DEF Makes

LEMMA TakenSeparator ==
    ASSUME NEW S, NEW t \in Seq(S), NEW c \in S, NEW ps \in Seq(Seq(S)), NEW p \in Seq(S),
           Taken(t, c, ps, p)
    PROVE  Taken(Append(t, c), c, Append(ps, p), <<>>)
<1>1. Pieces(Append(t, c), c) = Extended(Append(ps, p), c, c)
  BY PiecesAppend DEF Taken
<1>2. QED
  BY <1>1 DEF Taken, Extended

LEMMA TakenCharacter ==
    ASSUME NEW S, NEW t \in Seq(S), NEW ch \in S, NEW c, NEW ps \in Seq(Seq(S)), NEW p \in Seq(S),
           Taken(t, c, ps, p), ch # c
    PROVE  Taken(Append(t, ch), c, ps, Append(p, ch))
<1>1. Pieces(Append(t, ch), c) = Extended(Append(ps, p), ch, c)
  BY PiecesAppend DEF Taken
<1>2. Extended(Append(ps, p), ch, c) = Append(ps, Append(p, ch))
  BY ExtendedCases
<1>3. QED
  BY <1>1, <1>2, Zenon DEF Taken

LEMMA TerminatedMakes ==
    ASSUME NEW S, NEW ps \in Seq(Seq(S)), NEW p \in Seq(S), NEW c \in S, NEW s,
           Makes(Terminated(ps, c), p, s)
    PROVE  Terminated(Append(ps, p), c) = Append(s, c)
<1>1. PICK a \in Seq(S) : a = Terminated(ps, c)
  BY TerminatedType
<1>2. Makes(a, Append(p, c), Append(s, c))
  BY <1>1, MakesAppend
<1>3. Terminated(Append(ps, p), c) = a \o Append(p, c)
  BY <1>1, TerminatedAppend
<1>4. QED
  BY <1>2, <1>3, Zenon DEF Makes

\* The first of several pieces, and the others.
LEMMA TerminatedFirst ==
    ASSUME NEW S, NEW q \in Seq(S), NEW qs \in Seq(Seq(S)), NEW c \in S
    PROVE  Makes(Append(q, c), Terminated(qs, c), Terminated(<<q>> \o qs, c))
<1>1. PICK one \in Seq(Seq(S)) : one = <<q>>
  <2>1. <<q>> \in Seq(Seq(S)) /\ Append(qs, q) = qs \o <<q>>
    BY AppendIsConcat
  <2>2. QED
    BY <2>1, Zenon
<1>2. Terminated(one \o qs, c) = Terminated(one, c) \o Terminated(qs, c)
  BY TerminatedConcat
<1>3. Terminated(<<q>>, c) = q \o <<c>>
  BY TerminatedOne
<1>4. q \o <<c>> = Append(q, c)
  BY AppendIsConcat
<1>5. QED
  BY <1>1, <1>2, <1>3, <1>4, Zenon DEF Makes

\* Nothing of a text is lost between its pieces.
LEMMA PiecesBack ==
    ASSUME NEW S, NEW t \in Seq(S), NEW c \in S
    PROVE  Terminated(Pieces(t, c), c) = Append(t, c)
<1> DEFINE T == {s \in Seq(S) : \E ps \in Seq(Seq(S)) : \E p \in Seq(S) :
                    Taken(s, c, ps, p) /\ Makes(Terminated(ps, c), p, s)}
<1>1. <<>> \in T
  <2>1. /\ <<>> \in Seq(S) /\ <<>> \in Seq(Seq(S)) /\ << <<>> >> = Append(<<>>, <<>>)
        /\ <<>> \o <<>> = <<>>
    OBVIOUS
  <2>2. Taken(<<>>, c, <<>>, <<>>)
    BY <2>1, PiecesEmpty DEF Taken
  <2>3. Terminated(<<>>, c) = <<>>
    BY DEF Terminated, FlattenSeq
  <2>4. Makes(Terminated(<<>>, c), <<>>, <<>>)
    BY <2>1, <2>3, Zenon DEF Makes
  <2>5. QED
    BY <2>1, <2>2, <2>4, Zenon
<1>2. ASSUME NEW s \in T, NEW ch \in S PROVE Append(s, ch) \in T
  <2>1. s \in Seq(S)
    BY Zenon
  <2>2. PICK ps \in Seq(Seq(S)), p \in Seq(S) :
                Taken(s, c, ps, p) /\ Makes(Terminated(ps, c), p, s)
    BY Zenon
  <2> HIDE DEF T
  <2>3. Append(s, ch) \in Seq(S)
    BY <2>1, AppendProperties
  <2>4. CASE ch = c
    <3>1. Taken(Append(s, c), c, Append(ps, p), <<>>)
      BY <2>1, <2>2, TakenSeparator, Zenon
    <3>2. Terminated(Append(ps, p), c) = Append(s, c)
      BY <2>2, TerminatedMakes
    <3>3. Makes(Append(s, c), <<>>, Append(s, c))
      BY <2>3, <2>4, MakesEmpty
    <3>4. Append(ps, p) \in Seq(Seq(S)) /\ <<>> \in Seq(S)
      BY AppendPiece, EmptySeq
    <3>5. QED
      BY <2>3, <2>4, <3>1, <3>2, <3>3, <3>4, Zenon DEF T
  <2>5. CASE ch # c
    <3>1. Taken(Append(s, ch), c, ps, Append(p, ch))
      BY <2>1, <2>2, <2>5, TakenCharacter, Zenon
    <3>2. Append(p, ch) \in Seq(S)
      BY AppendProperties
    <3>3. PICK a \in Seq(S) : a = Terminated(ps, c)
      BY TerminatedType
    <3>4. Makes(a, Append(p, ch), Append(s, ch))
      BY <2>2, <3>3, MakesAppend, Zenon
    <3>5. QED
      BY <2>3, <3>1, <3>2, <3>3, <3>4, Zenon DEF T
  <2>6. QED
    BY <2>4, <2>5
<1>3. T \in SUBSET Seq(S)
  BY Zenon
<1>4. t \in T
  <2> HIDE DEF T
  <2>1. QED
    BY <1>1, <1>2, <1>3, InductionOverSeq
<1>5. PICK ps \in Seq(Seq(S)), p \in Seq(S) :
                Taken(t, c, ps, p) /\ Makes(Terminated(ps, c), p, t)
  BY <1>4, Zenon
<1> HIDE DEF T
<1>6. Terminated(Append(ps, p), c) = Append(t, c)
  BY <1>5, TerminatedMakes
<1>7. QED
  BY <1>5, <1>6, Zenon DEF Taken

LEMMA PlainAppend ==
    ASSUME NEW S, NEW s \in Seq(S), NEW ch \in S, NEW c, ~Contains(Append(s, ch), c)
    PROVE  ~Contains(s, c) /\ ch # c
<1>1. PICK n \in Nat : n = Len(s)
  BY LenProperties
<1>2. PICK b : b = Append(s, ch)
  OBVIOUS
<1>3. Len(b) = n + 1 /\ b[n + 1] = ch /\ \A i \in 1 .. n : b[i] = s[i]
  BY <1>1, <1>2, AppendProperties
<1>4. \A i \in 1 .. (n + 1) : b[i] # c
  BY <1>2, <1>3 DEF Contains
<1>5. ch # c
  BY <1>3, <1>4
<1>6. \A i \in 1 .. n : s[i] # c
  BY <1>3, <1>4
<1>7. QED
  BY <1>1, <1>5, <1>6 DEF Contains

\* Characters that are no separators only make the last piece longer.
LEMMA PiecesPlain ==
    ASSUME NEW S, NEW t \in Seq(S), NEW c, NEW ps \in Seq(Seq(S)), NEW p \in Seq(S),
           Taken(t, c, ps, p), NEW x \in Seq(S), ~Contains(x, c)
    PROVE  Taken(t \o x, c, ps, p \o x)
<1> DEFINE T == {s \in Seq(S) : ~Contains(s, c) =>
                    \E u \in Seq(S) : \E q \in Seq(S) :
                        Makes(t, s, u) /\ Makes(p, s, q) /\ Taken(u, c, ps, q)}
<1>1. <<>> \in T
  <2>1. <<>> \in Seq(S) /\ Makes(t, <<>>, t) /\ Makes(p, <<>>, p)
    BY MakesEmpty, EmptySeq
  <2>2. QED
    BY <2>1, Zenon
<1>2. ASSUME NEW s \in T, NEW ch \in S PROVE Append(s, ch) \in T
  <2>1. s \in Seq(S)
    BY Zenon
  <2>2. ~Contains(s, c) => \E u \in Seq(S) : \E q \in Seq(S) :
                              Makes(t, s, u) /\ Makes(p, s, q) /\ Taken(u, c, ps, q)
    BY Zenon
  <2> HIDE DEF T
  <2>3. Append(s, ch) \in Seq(S)
    BY <2>1, AppendProperties
  <2>4. ASSUME ~Contains(Append(s, ch), c)
        PROVE  \E u \in Seq(S) : \E q \in Seq(S) :
                   Makes(t, Append(s, ch), u) /\ Makes(p, Append(s, ch), q) /\ Taken(u, c, ps, q)
    <3>1. ~Contains(s, c) /\ ch # c
      BY <2>1, <2>4, PlainAppend
    <3>2. PICK u \in Seq(S), q \in Seq(S) :
                  Makes(t, s, u) /\ Makes(p, s, q) /\ Taken(u, c, ps, q)
      BY <2>2, <3>1, Zenon
    <3>3. Append(u, ch) \in Seq(S) /\ Append(q, ch) \in Seq(S)
      BY AppendProperties
    <3>4. Makes(t, Append(s, ch), Append(u, ch)) /\ Makes(p, Append(s, ch), Append(q, ch))
      BY <2>1, <3>2, MakesAppend, Zenon
    <3>5. Taken(Append(u, ch), c, ps, Append(q, ch))
      BY <3>1, <3>2, TakenCharacter, Zenon
    <3>6. QED
      BY <3>3, <3>4, <3>5, Zenon
  <2>5. QED
    BY <2>3, <2>4, Zenon DEF T
<1>3. T \in SUBSET Seq(S)
  BY Zenon
<1>4. x \in T
  <2> HIDE DEF T
  <2>1. QED
    BY <1>1, <1>2, <1>3, InductionOverSeq
<1>5. QED
  BY <1>4, Zenon DEF Makes

\* Pieces takes apart what Terminated has put together.
LEMMA PiecesOfTerminated ==
    ASSUME NEW S, NEW ps \in Seq(Seq(S)), NEW c \in S,
           \A k \in DOMAIN ps : ~Contains(ps[k], c)
    PROVE  Taken(Terminated(ps, c), c, ps, <<>>)
<1> DEFINE T == {qs \in Seq(Seq(S)) : (\A k \in DOMAIN qs : ~Contains(qs[k], c)) =>
                                         Taken(Terminated(qs, c), c, qs, <<>>)}
<1>1. <<>> \in T
  <2>1. <<>> \in Seq(S) /\ <<>> \in Seq(Seq(S)) /\ << <<>> >> = Append(<<>>, <<>>)
    OBVIOUS
  <2>2. Taken(<<>>, c, <<>>, <<>>)
    BY <2>1, PiecesEmpty DEF Taken
  <2>3. Terminated(<<>>, c) = <<>>
    BY DEF Terminated, FlattenSeq
  <2>4. QED
    BY <2>1, <2>2, <2>3, Zenon
<1>2. ASSUME NEW qs \in T, NEW q \in Seq(S) PROVE Append(qs, q) \in T
  <2>1. qs \in Seq(Seq(S))
    BY Zenon
  <2>2. (\A k \in DOMAIN qs : ~Contains(qs[k], c)) => Taken(Terminated(qs, c), c, qs, <<>>)
    BY Zenon
  <2> HIDE DEF T
  <2>3. PICK all \in Seq(Seq(S)) : all = Append(qs, q)
    BY <2>1, AppendPiece
  <2>4. ASSUME \A k \in DOMAIN all : ~Contains(all[k], c)
        PROVE  Taken(Terminated(all, c), c, all, <<>>)
    <3>1. PICK n \in Nat : n = Len(qs) /\ DOMAIN qs = 1 .. n
      BY <2>1, LenProperties
    <3>2. Len(all) = n + 1 /\ all[n + 1] = q /\ \A k \in 1 .. n : all[k] = qs[k]
      BY <2>1, <2>3, <3>1, AppendPiece
    <3>3. DOMAIN all = 1 .. (n + 1)
      BY <3>2, LenProperties
    <3>4. n + 1 \in DOMAIN all /\ \A k \in 1 .. n : k \in DOMAIN all
      BY <3>3
    <3>5. ~Contains(all[n + 1], c) /\ \A k \in 1 .. n : ~Contains(all[k], c)
      BY <2>4, <3>4, Zenon
    <3>6. ~Contains(q, c) /\ \A k \in DOMAIN qs : ~Contains(qs[k], c)
      BY <3>1, <3>2, <3>5, Zenon
    <3>7. PICK a \in Seq(S) : a = Terminated(qs, c)
      BY <2>1, TerminatedType
    <3>8. <<>> \in Seq(S) /\ <<>> \o q = q
      BY EmptySeq, ConcatEmptySeq
    <3>9. Taken(a, c, qs, <<>>)
      BY <2>2, <3>6, <3>7, Zenon
    <3>10. PICK u \in Seq(S) : u = a \o q
      BY ConcatProperties
    <3>11. Taken(a \o q, c, qs, <<>> \o q)
      BY <2>1, <3>6, <3>8, <3>9, PiecesPlain, Zenon
    <3>12. Taken(u, c, qs, q)
      BY <3>8, <3>10, <3>11, Zenon
    <3>13. Taken(Append(u, c), c, Append(qs, q), <<>>)
      BY <2>1, <3>12, TakenSeparator, Zenon
    <3>14. Makes(Terminated(qs, c), q, u)
      BY <3>7, <3>10, Zenon DEF Makes
    <3>15. Terminated(Append(qs, q), c) = Append(u, c)
      BY <2>1, <3>14, TerminatedMakes
    <3>16. QED
      BY <2>3, <3>13, <3>15, Zenon
  <2>5. QED
    BY <2>3, <2>4, Zenon DEF T
<1>3. T \in SUBSET Seq(Seq(S))
  BY Zenon
<1>4. ps \in T
  <2> HIDE DEF T
  <2>1. QED
    BY <1>1, <1>2, <1>3, InductionOverSeq
<1>5. QED
  BY <1>4, Zenon
-----------------------------------------------------------------------------
(***************************************************************************)
(* Pairs of separators                                                     *)
(***************************************************************************)
\* Two separators in a row.
Paired(t, c) == \E k \in 1 .. (Len(t) - 1) : t[k] = c /\ t[k + 1] = c

\* A text that is not empty and ends in c.
Closed(t, c) == Len(t) > 0 /\ t[Len(t)] = c

\* A pair stays one when characters are added behind it.
LEMMA PairedConcat ==
    ASSUME NEW S, NEW a \in Seq(S), NEW b \in Seq(S), NEW c, Paired(a, c)
    PROVE  Paired(a \o b, c)
<1>1. PICK n \in Nat : n = Len(a)
  BY LenProperties
<1>2. PICK m \in Nat : m = Len(b)
  BY LenProperties
<1>3. PICK k \in 1 .. (n - 1) : a[k] = c /\ a[k + 1] = c
  BY <1>1 DEF Paired
<1>4. PICK d : d = a \o b
  OBVIOUS
<1>5. Len(d) = n + m /\ \A i \in 1 .. n : d[i] = a[i]
  <2>1. Meets(d, a, n, b, m)
    BY <1>1, <1>2, <1>4, ConcatMeets, Zenon
  <2>2. QED
    BY <2>1 DEF Meets
<1>6. k \in 1 .. (n + m - 1) /\ d[k] = c /\ d[k + 1] = c
  <2>1. k \in 1 .. n /\ k + 1 \in 1 .. n /\ k \in 1 .. (n + m - 1)
    OBVIOUS
  <2>2. QED
    BY <1>3, <1>5, <2>1
<1>7. QED
  BY <1>4, <1>5, <1>6 DEF Paired

\* Where a text that ends in a separator meets one that begins with it there is a
\* pair.
LEMMA PairedMeet ==
    ASSUME NEW S, NEW a \in Seq(S), NEW b \in Seq(S), NEW c,
           Closed(a, c), Len(b) > 0, b[1] = c
    PROVE  Paired(a \o b, c)
<1>1. Len(a) > 0 /\ a[Len(a)] = c
  BY DEF Closed
<1>2. PICK n \in Nat : n = Len(a)
  BY LenProperties
<1>3. PICK m \in Nat : m = Len(b)
  BY LenProperties
<1>4. PICK d : d = a \o b
  OBVIOUS
<1>5. Len(d) = n + m /\ (\A i \in 1 .. n : d[i] = a[i]) /\ (\A i \in 1 .. m : d[n + i] = b[i])
  <2>1. Meets(d, a, n, b, m)
    BY <1>2, <1>3, <1>4, ConcatMeets, Zenon
  <2>2. QED
    BY <2>1 DEF Meets
<1>6. n \in 1 .. (n + m - 1) /\ d[n] = c /\ d[n + 1] = c
  <2>1. n > 0 /\ m > 0 /\ n \in 1 .. n /\ 1 \in 1 .. m /\ n \in 1 .. (n + m - 1)
    BY <1>1, <1>2, <1>3
  <2>2. d[n] = a[n] /\ d[n + 1] = b[1]
    BY <1>5, <2>1
  <2>3. QED
    BY <1>1, <1>2, <2>1, <2>2
<1>7. \E k \in 1 .. (Len(d) - 1) : d[k] = c /\ d[k + 1] = c
  <2>1. Len(d) - 1 = n + m - 1
    BY <1>5
  <2>2. QED
    BY <1>6, <2>1, Zenon
<1>8. QED
  BY <1>4, <1>7, Zenon DEF Paired

\* A piece without separators that is not empty makes no pair with what is before it.
LEMMA NotPaired ==
    ASSUME NEW S, NEW a \in Seq(S), NEW p \in Seq(S), NEW c \in S,
           ~Paired(a, c), ~Contains(p, c), a = <<>> \/ p # <<>>
    PROVE  ~Paired(a \o Append(p, c), c)
<1>1. PICK n \in Nat : n = Len(a)
  BY LenProperties
<1>2. PICK m \in Nat : m = Len(p)
  BY LenProperties
<1>3. PICK b \in Seq(S) : b = Append(p, c)
  BY AppendProperties
<1>4. Len(b) = m + 1 /\ \A i \in 1 .. m : b[i] = p[i]
  BY <1>2, <1>3, AppendProperties
<1>5. \A i \in 1 .. m : b[i] # c
  BY <1>2, <1>4 DEF Contains
<1>6. PICK d : d = a \o b
  OBVIOUS
<1>7. Len(d) = n + m + 1 /\ (\A i \in 1 .. n : d[i] = a[i]) /\ (\A i \in 1 .. (m + 1) : d[n + i] = b[i])
  <2>1. m + 1 \in Nat /\ n + (m + 1) = n + m + 1
    OBVIOUS
  <2>2. Len(b) = m + 1
    BY <1>4
  <2>3. Meets(d, a, n, b, m + 1)
    BY <1>1, <1>6, <2>2, ConcatMeets, Zenon
  <2>4. QED
    BY <2>1, <2>3 DEF Meets
<1>8. n = 0 \/ m > 0
  BY <1>1, <1>2
<1>9. ASSUME NEW k \in 1 .. (n + m), d[k] = c, d[k + 1] = c PROVE FALSE
  <2>1. CASE k < n
    <3>1. k \in 1 .. (n - 1) /\ a[k] = c /\ a[k + 1] = c
      BY <1>7, <1>9, <2>1
    <3>2. QED
      BY <1>1, <3>1 DEF Paired
  <2>2. CASE k = n
    <3>1. 1 \in 1 .. m /\ d[n + 1] = b[1]
      BY <1>7, <1>8, <2>2
    <3>2. QED
      BY <1>5, <1>9, <2>2, <3>1
  <2>3. CASE k > n
    <3>1. k - n \in 1 .. m /\ n + (k - n) = k
      BY <2>3
    <3>2. d[k] = b[k - n]
      <4>1. k - n \in 1 .. (m + 1)
        BY <3>1
      <4>2. d[n + (k - n)] = b[k - n]
        BY <1>7, <4>1
      <4>3. QED
        BY <3>1, <4>2
    <3>3. QED
      BY <1>5, <1>9, <3>1, <3>2
  <2>4. QED
    BY <2>1, <2>2, <2>3
<1>10. Len(d) - 1 = n + m
  BY <1>7
<1>11. QED
  BY <1>3, <1>6, <1>9, <1>10 DEF Paired

LEMMA ClosedConcat ==
    ASSUME NEW S, NEW a \in Seq(S), NEW p \in Seq(S), NEW c \in S
    PROVE  Closed(a \o Append(p, c), c)
<1>1. PICK n \in Nat : n = Len(a)
  BY LenProperties
<1>2. PICK b \in Seq(S) : b = Append(p, c)
  BY AppendProperties
<1>3. PICK m \in Nat : m = Len(p)
  BY LenProperties
<1>4. Len(b) = m + 1 /\ b[m + 1] = c
  BY <1>2, <1>3, AppendProperties
<1>5. PICK d : d = a \o b
  OBVIOUS
<1>6. Meets(d, a, n, b, m + 1)
  BY <1>1, <1>4, <1>5, ConcatMeets, Zenon
<1>7. m + 1 \in 1 .. (m + 1) /\ n + (m + 1) > 0
  OBVIOUS
<1>8. Closed(d, c)
  BY <1>4, <1>6, <1>7 DEF Meets, Closed
<1>9. QED
  BY <1>2, <1>5, <1>8, Zenon

\* Where there are pieces, the text of them ends in the separator.
LEMMA TerminatedClosed ==
    ASSUME NEW S, NEW ps \in Seq(Seq(S)), NEW c \in S, ps # <<>>
    PROVE  Closed(Terminated(ps, c), c)
<1>1. PICK qs \in Seq(Seq(S)), q \in Seq(S) : ps = Append(qs, q)
  BY SequenceEmptyOrAppend
<1>2. PICK x \in Seq(S) : x = Terminated(qs, c)
  BY TerminatedType
<1>3. Terminated(ps, c) = x \o Append(q, c)
  BY <1>1, <1>2, TerminatedAppend
<1>4. Closed(x \o Append(q, c), c)
  BY ClosedConcat, Zenon
<1>5. QED
  BY <1>3, <1>4, Zenon

\* The pieces all are the n pieces ps and p.
Longer(all, ps, n, p) ==
    /\ DOMAIN ps = 1 .. n /\ DOMAIN all = 1 .. (n + 1) /\ all[n + 1] = p
    /\ \A k \in 1 .. n : all[k] = ps[k]

LEMMA AppendIsLonger ==
    ASSUME NEW S, NEW ps \in Seq(Seq(S)), NEW p \in Seq(S)
    PROVE  \E n \in Nat : Longer(Append(ps, p), ps, n, p)
<1>1. PICK n \in Nat : n = Len(ps) /\ DOMAIN ps = 1 .. n
  BY LenProperties
<1>2. PICK all : all = Append(ps, p)
  OBVIOUS
<1>3. all \in Seq(Seq(S)) /\ Len(all) = n + 1 /\ all[n + 1] = p /\ \A k \in 1 .. n : all[k] = ps[k]
  BY <1>1, <1>2, AppendPiece
<1>4. DOMAIN all = 1 .. (n + 1)
  BY <1>3, LenProperties
<1>5. Longer(all, ps, n, p)
  BY <1>1, <1>3, <1>4, Zenon DEF Longer
<1>6. QED
  BY <1>2, <1>5, Zenon

\* An empty piece, unless it is the first one, makes a pair.
LEMMA EmptyPiecePairs ==
    ASSUME NEW S, NEW ps \in Seq(Seq(S)), NEW c \in S, NEW k \in DOMAIN ps, k # 1, ps[k] = <<>>
    PROVE  Paired(Terminated(ps, c), c)
<1> DEFINE T == {qs \in Seq(Seq(S)) : (\E i \in DOMAIN qs : i # 1 /\ qs[i] = <<>>) =>
                                         Paired(Terminated(qs, c), c)}
<1>1. <<>> \in T
  <2>1. <<>> \in Seq(Seq(S)) /\ DOMAIN <<>> = {}
    OBVIOUS
  <2>2. QED
    BY <2>1, Zenon
<1>2. ASSUME NEW qs \in T, NEW q \in Seq(S) PROVE Append(qs, q) \in T
  <2>1. qs \in Seq(Seq(S))
    BY Zenon
  <2>2. (\E i \in DOMAIN qs : i # 1 /\ qs[i] = <<>>) => Paired(Terminated(qs, c), c)
    BY Zenon
  <2> HIDE DEF T
  <2>3. PICK all \in Seq(Seq(S)) : all = Append(qs, q)
    BY <2>1, AppendPiece
  <2>4. PICK n \in Nat : Longer(all, qs, n, q)
    BY <2>1, <2>3, AppendIsLonger, Zenon
  <2>5. /\ DOMAIN qs = 1 .. n /\ DOMAIN all = 1 .. (n + 1) /\ all[n + 1] = q
        /\ \A i \in 1 .. n : all[i] = qs[i]
    BY <2>4, Zenon DEF Longer
  <2>6. PICK a \in Seq(S) : a = Terminated(qs, c)
    BY <2>1, TerminatedType
  <2>7. PICK b \in Seq(S) : b = Append(q, c)
    BY AppendProperties
  <2>8. Terminated(all, c) = a \o b
    BY <2>1, <2>3, <2>6, <2>7, TerminatedAppend
  <2>9. ASSUME NEW i \in DOMAIN all, i # 1, all[i] = <<>> PROVE Paired(Terminated(all, c), c)
    <3>1. CASE i \in 1 .. n
      <4>1. Paired(a, c)
        BY <2>2, <2>5, <2>6, <2>9, <3>1, Zenon
      <4>2. QED
        BY <2>8, <4>1, PairedConcat, Zenon
    <3>2. CASE i = n + 1
      <4>1. n # 0
        BY <2>9, <3>2
      <4>2. qs # <<>>
        <5>1. 1 \in DOMAIN qs
          BY <2>5, <4>1
        <5>2. DOMAIN <<>> = {}
          OBVIOUS
        <5>3. QED
          BY <5>1, <5>2, Zenon
      <4>3. Closed(a, c)
        BY <2>1, <2>6, <4>2, TerminatedClosed, Zenon
      <4>4. q = <<>>
        BY <2>5, <2>9, <3>2
      <4>5. Len(b) > 0 /\ b[1] = c
        <5>1. b = <<c>>
          BY <2>7, <4>4
        <5>2. QED
          BY <5>1
      <4>6. QED
        BY <2>8, <4>3, <4>5, PairedMeet, Zenon
    <3>3. i \in 1 .. n \/ i = n + 1
      BY <2>5
    <3>4. QED
      BY <3>1, <3>2, <3>3
  <2>10. QED
    BY <2>3, <2>9, Zenon DEF T
<1>3. T \in SUBSET Seq(Seq(S))
  BY Zenon
<1>4. ps \in T
  <2> HIDE DEF T
  <2>1. QED
    BY <1>1, <1>2, <1>3, InductionOverSeq
<1>5. QED
  BY <1>4, Zenon

\* Pieces without separators, none of them empty but perhaps the first, make none.
LEMMA FullPiecesPairNot ==
    ASSUME NEW S, NEW ps \in Seq(Seq(S)), NEW c \in S,
           \A k \in DOMAIN ps : ~Contains(ps[k], c) /\ (k = 1 \/ ps[k] # <<>>)
    PROVE  ~Paired(Terminated(ps, c), c)
<1> DEFINE T == {qs \in Seq(Seq(S)) : (\A i \in DOMAIN qs : ~Contains(qs[i], c) /\ (i = 1 \/ qs[i] # <<>>)) =>
                                         ~Paired(Terminated(qs, c), c)}
<1>1. <<>> \in T
  <2>1. <<>> \in Seq(Seq(S))
    OBVIOUS
  <2>2. Terminated(<<>>, c) = <<>>
    BY DEF Terminated, FlattenSeq
  <2>3. ~Paired(<<>>, c)
    BY DEF Paired
  <2>4. QED
    BY <2>1, <2>2, <2>3, Zenon
<1>2. ASSUME NEW qs \in T, NEW q \in Seq(S) PROVE Append(qs, q) \in T
  <2>1. qs \in Seq(Seq(S))
    BY Zenon
  <2>2. (\A i \in DOMAIN qs : ~Contains(qs[i], c) /\ (i = 1 \/ qs[i] # <<>>)) => ~Paired(Terminated(qs, c), c)
    BY Zenon
  <2> HIDE DEF T
  <2>3. PICK all \in Seq(Seq(S)) : all = Append(qs, q)
    BY <2>1, AppendPiece
  <2>4. PICK n \in Nat : Longer(all, qs, n, q)
    BY <2>1, <2>3, AppendIsLonger, Zenon
  <2>5. /\ DOMAIN qs = 1 .. n /\ DOMAIN all = 1 .. (n + 1) /\ all[n + 1] = q
        /\ \A i \in 1 .. n : all[i] = qs[i]
    BY <2>4, Zenon DEF Longer
  <2>6. PICK a \in Seq(S) : a = Terminated(qs, c)
    BY <2>1, TerminatedType
  <2>7. Terminated(all, c) = a \o Append(q, c)
    BY <2>1, <2>3, <2>6, TerminatedAppend
  <2>8. ASSUME \A i \in DOMAIN all : ~Contains(all[i], c) /\ (i = 1 \/ all[i] # <<>>)
        PROVE  ~Paired(Terminated(all, c), c)
    <3>1. \A i \in 1 .. n : i \in DOMAIN all
      BY <2>5
    <3>2. \A i \in DOMAIN qs : ~Contains(qs[i], c) /\ (i = 1 \/ qs[i] # <<>>)
      BY <2>5, <2>8, <3>1, Zenon
    <3>3. ~Paired(a, c)
      BY <2>2, <2>6, <3>2, Zenon
    <3>4. n + 1 \in DOMAIN all /\ (n + 1 = 1 => n = 0)
      BY <2>5
    <3>5. ~Contains(q, c) /\ (n = 0 \/ q # <<>>)
      BY <2>5, <2>8, <3>4, Zenon
    <3>6. n = 0 => a = <<>>
      <4>1. Terminated(<<>>, c) = <<>>
        BY DEF Terminated, FlattenSeq
      <4>2. QED
        <5>1. n = 0 => qs = <<>>
          BY <2>1, <2>5, EmptySeq
        <5>2. QED
          BY <2>6, <4>1, <5>1, Zenon
    <3>7. ~Paired(a \o Append(q, c), c)
      BY <3>3, <3>5, <3>6, NotPaired, Zenon
    <3>8. QED
      BY <2>7, <3>7, Zenon
  <2>9. QED
    BY <2>3, <2>8, Zenon DEF T
<1>3. T \in SUBSET Seq(Seq(S))
  BY Zenon
<1>4. ps \in T
  <2> HIDE DEF T
  <2>1. QED
    BY <1>1, <1>2, <1>3, InductionOverSeq
<1>5. QED
  BY <1>4, Zenon

(***************************************************************************)
(* Pieces with a separator between each two of them: what Pieces reads     *)
(* from such a text, and which characters occur in it.                     *)
(***************************************************************************)

\* The text x is the pieces ps with a c between each two of them.
Joined(x, ps, c) == Terminated(ps, c) = Append(x, c)

\* Pieces that are not none can be joined.
LEMMA JoinedExists ==
    ASSUME NEW S, NEW ps \in Seq(Seq(S)), ps # <<>>, NEW c \in S
    PROVE  \E x \in Seq(S) : Joined(x, ps, c)
<1>1. PICK qs \in Seq(Seq(S)), q \in Seq(S) : ps = Append(qs, q)
  BY SequenceEmptyOrAppend
<1>2. PICK a \in Seq(S) : a = Terminated(qs, c)
  BY TerminatedType
<1>3. PICK x \in Seq(S) : x = a \o q
  BY ConcatProperties
<1>4. Makes(Terminated(qs, c), q, x)
  BY <1>2, <1>3, Zenon DEF Makes
<1>5. Terminated(Append(qs, q), c) = Append(x, c)
  BY <1>4, TerminatedMakes
<1>6. QED
  BY <1>1, <1>5, Zenon DEF Joined

\* One piece.
LEMMA JoinedOne ==
    ASSUME NEW S, NEW p \in Seq(S), NEW c \in S
    PROVE  Joined(p, <<p>>, c)
<1>1. Terminated(<<p>>, c) = p \o <<c>>
  BY TerminatedOne
<1>2. Append(p, c) = p \o <<c>>
  BY AppendIsConcat
<1>3. QED
  BY <1>1, <1>2, Zenon DEF Joined

\* One more piece, with a separator before it.
LEMMA JoinedMore ==
    ASSUME NEW S, NEW x \in Seq(S), NEW ps \in Seq(Seq(S)), NEW c \in S, NEW p \in Seq(S),
           Joined(x, ps, c)
    PROVE  Joined(Append(x, c) \o p, Append(ps, p), c)
<1>1. PICK a \in Seq(S) : a = Append(x, c)
  BY AppendProperties
<1>2. PICK y \in Seq(S) : y = a \o p
  BY ConcatProperties
<1>3. Makes(Terminated(ps, c), p, y)
  BY <1>1, <1>2, Zenon DEF Makes, Joined
<1>4. Terminated(Append(ps, p), c) = Append(y, c)
  BY <1>3, TerminatedMakes
<1>5. QED
  BY <1>1, <1>2, <1>4, Zenon DEF Joined

\* Pieces takes apart what was joined.
LEMMA PiecesOfJoined ==
    ASSUME NEW S, NEW x \in Seq(S), NEW ps \in Seq(Seq(S)), NEW c \in S, Joined(x, ps, c),
           \A k \in DOMAIN ps : ~Contains(ps[k], c)
    PROVE  Pieces(x, c) = ps
<1>1. PICK D : D = Seq(S)
  OBVIOUS
<1>2. PICK qs \in Seq(D) : qs = Pieces(x, c)
  BY <1>1, PiecesType
<1>3. PICK e \in D : e = <<>>
  BY <1>1, EmptySeq
<1>4. Taken(Terminated(ps, c), c, ps, <<>>)
  BY PiecesOfTerminated
<1>5. Pieces(Append(x, c), c) = Append(ps, <<>>)
  BY <1>4, Zenon DEF Taken, Joined
<1>6. Pieces(Append(x, c), c) = Extended(Pieces(x, c), c, c)
  BY PiecesAppend
<1>7. Extended(Pieces(x, c), c, c) = Append(Pieces(x, c), <<>>)
  BY Zenon DEF Extended
<1>8. Append(qs, e) = Append(ps, e)
  BY <1>2, <1>3, <1>5, <1>6, <1>7, Zenon
<1>9. ps \in Seq(D)
  BY <1>1, Zenon
<1>10. qs = ps
  <2>1. Append(qs, e) = Append(ps, e) <=> qs = ps /\ e = e
    BY <1>9, AppendInjective
  <2>2. QED
    BY <1>8, <2>1, Zenon
<1>11. QED
  BY <1>2, <1>10, Zenon
-----------------------------------------------------------------------------
\* Two texts without a d make a text without a d.
LEMMA ConcatPlain ==
    ASSUME NEW S, NEW a \in Seq(S), NEW b \in Seq(S), NEW d, ~Contains(a, d), ~Contains(b, d)
    PROVE  ~Contains(a \o b, d)
<1>1. PICK n \in Nat, m \in Nat : n = Len(a) /\ m = Len(b)
  BY LenProperties
<1>2. PICK y : y = a \o b
  OBVIOUS
<1>3. Len(y) = n + m /\ \A i \in 1 .. (n + m) : y[i] = IF i <= n THEN a[i] ELSE b[i - n]
  BY <1>1, <1>2, ConcatProperties
<1>4. (\A i \in 1 .. n : a[i] # d) /\ (\A i \in 1 .. m : b[i] # d)
  BY <1>1 DEF Contains
<1>5. \A i \in 1 .. (n + m) : y[i] # d
  <2>1. TAKE i \in 1 .. (n + m)
  <2>2. CASE i <= n
    BY <1>3, <1>4, <2>2
  <2>3. CASE ~(i <= n)
    <3>1. i - n \in 1 .. m
      BY <2>3
    <3>2. QED
      BY <1>3, <1>4, <2>3, <3>1
  <2>4. QED
    BY <2>2, <2>3
<1>6. QED
  BY <1>2, <1>3, <1>5 DEF Contains

\* A character that is not d is a text without a d.
LEMMA OnePlain ==
    ASSUME NEW e, NEW d, e # d
    PROVE  ~Contains(<<e>>, d)
  BY DEF Contains

\* A text without a d that ends in another character has no d.
LEMMA EndedPlain ==
    ASSUME NEW S, NEW a \in Seq(S), NEW e \in S, NEW d, ~Contains(a, d), e # d
    PROVE  ~Contains(Append(a, e), d)
<1>1. <<e>> \in Seq(S)
  OBVIOUS
<1>2. PICK b \in Seq(S) : b = <<e>>
  BY <1>1, Zenon
<1>3. Append(a, e) = a \o b
  BY <1>2, AppendIsConcat
<1>4. ~Contains(b, d)
  BY <1>2, OnePlain, Zenon
<1>5. ~Contains(a \o b, d)
  BY <1>4, ConcatPlain
<1>6. QED
  BY <1>3, <1>5, Zenon

\* Pieces without a d, each ended by another character, make a text without a d.
LEMMA TerminatedPlain ==
    ASSUME NEW S, NEW ps \in Seq(Seq(S)), NEW c \in S, NEW d, c # d,
           \A k \in DOMAIN ps : ~Contains(ps[k], d)
    PROVE  ~Contains(Terminated(ps, c), d)
<1> DEFINE T == {qs \in Seq(Seq(S)) : (\A k \in DOMAIN qs : ~Contains(qs[k], d)) =>
                                         ~Contains(Terminated(qs, c), d)}
<1>1. <<>> \in T
  <2>1. <<>> \in Seq(Seq(S))
    OBVIOUS
  <2>2. Terminated(<<>>, c) = <<>>
    BY DEF Terminated, FlattenSeq
  <2>3. ~Contains(<<>>, d)
    BY DEF Contains
  <2>4. QED
    BY <2>1, <2>2, <2>3, Zenon
<1>2. ASSUME NEW qs \in T, NEW q \in Seq(S) PROVE Append(qs, q) \in T
  <2>1. qs \in Seq(Seq(S))
    BY Zenon
  <2>2. (\A k \in DOMAIN qs : ~Contains(qs[k], d)) => ~Contains(Terminated(qs, c), d)
    BY Zenon
  <2> HIDE DEF T
  <2>3. PICK all \in Seq(Seq(S)) : all = Append(qs, q)
    BY <2>1, AppendPiece
  <2>4. ASSUME \A k \in DOMAIN all : ~Contains(all[k], d)
        PROVE  ~Contains(Terminated(all, c), d)
    <3>1. PICK n \in Nat : n = Len(qs) /\ DOMAIN qs = 1 .. n
      BY <2>1, LenProperties
    <3>2. Len(all) = n + 1 /\ all[n + 1] = q /\ \A k \in 1 .. n : all[k] = qs[k]
      BY <2>1, <2>3, <3>1, AppendPiece
    <3>3. DOMAIN all = 1 .. (n + 1)
      BY <3>2, LenProperties
    <3>4. n + 1 \in DOMAIN all /\ \A k \in 1 .. n : k \in DOMAIN all
      BY <3>3
    <3>5. ~Contains(all[n + 1], d) /\ \A k \in 1 .. n : ~Contains(all[k], d)
      BY <2>4, <3>4, Zenon
    <3>6. ~Contains(q, d) /\ \A k \in DOMAIN qs : ~Contains(qs[k], d)
      BY <3>1, <3>2, <3>5, Zenon
    <3>7. PICK a \in Seq(S) : a = Terminated(qs, c)
      BY <2>1, TerminatedType
    <3>8. ~Contains(a, d)
      BY <2>2, <3>6, <3>7, Zenon
    <3>9. PICK b \in Seq(S) : b = Append(q, c)
      BY AppendProperties
    <3>10. ~Contains(Append(q, c), d)
      BY <3>6, EndedPlain, Zenon
    <3>11. ~Contains(b, d)
      BY <3>9, <3>10, Zenon
    <3>12. ~Contains(a \o b, d)
      BY <3>8, <3>11, ConcatPlain, Zenon
    <3>13. Terminated(Append(qs, q), c) = Terminated(qs, c) \o Append(q, c)
      BY <2>1, TerminatedAppend
    <3>14. QED
      BY <2>3, <3>7, <3>9, <3>12, <3>13, Zenon
  <2>5. QED
    BY <2>3, <2>4, Zenon DEF T
<1>3. T \in SUBSET Seq(Seq(S))
  BY Zenon
<1>4. ps \in T
  <2> HIDE DEF T
  <2>1. QED
    BY <1>1, <1>2, <1>3, InductionOverSeq
<1>5. QED
  BY <1>4, Zenon

\* Pieces without a d, joined by another character, make a text without a d.
LEMMA JoinedPlain ==
    ASSUME NEW S, NEW x \in Seq(S), NEW ps \in Seq(Seq(S)), NEW c \in S, NEW d, c # d,
           Joined(x, ps, c), \A k \in DOMAIN ps : ~Contains(ps[k], d)
    PROVE  ~Contains(x, d)
<1>1. ~Contains(Terminated(ps, c), d)
  BY TerminatedPlain
<1>2. ~Contains(Append(x, c), d)
  BY <1>1, Zenon DEF Joined
<1>3. QED
  BY <1>2, PlainAppend, Zenon
-----------------------------------------------------------------------------
\* SetToSeq lists a finite set.
LEMMA SetToSeqLists ==
    ASSUME NEW S, IsFiniteSet(S)
    PROVE  /\ SetToSeq(S) \in Seq(S)
           /\ {SetToSeq(S)[k] : k \in DOMAIN SetToSeq(S)} = S
<1>1. PICK n \in Nat : n = Cardinality(S)
  BY FS_CardinalityType
<1>2. ExistsBijection(1 .. n, S)
  BY <1>1, FS_CardinalityType
<1>3. PICK b : b \in [1 .. n -> S] /\ IsInjective(b)
  BY <1>2, Zenon DEF ExistsBijection, Bijection, Injection
<1>4. SetToSeq(S) \in [1 .. n -> S] /\ IsInjective(SetToSeq(S))
  BY <1>1, <1>3, Zenon DEF SetToSeq
<1>5. PICK f : f = SetToSeq(S)
  OBVIOUS
<1>6. f \in Injection(1 .. n, S)
  BY <1>4, <1>5, Zenon DEF Injection
<1>7. Cardinality(1 .. n) = n
  BY FS_Interval
<1>8. f \in Surjection(1 .. n, S)
  BY <1>1, <1>6, <1>7, FS_Injection
<1>9. \A s \in S : \E k \in 1 .. n : f[k] = s
  BY <1>8, Zenon DEF Surjection
<1>10. f \in [1 .. n -> S]
  BY <1>4, <1>5, Zenon
<1>11. f \in Seq(S)
  BY <1>10
<1>12. {f[k] : k \in DOMAIN f} = S
  BY <1>9, <1>10
<1>13. QED
  BY <1>5, <1>11, <1>12, Zenon

\* A character as a text.
LEMMA OneCharacter ==
    ASSUME NEW S, NEW e \in S
    PROVE  <<e>> \in Seq(S)
  OBVIOUS

\* Tuples, one element after the other.
LEMMA OneMore ==
    ASSUME NEW D, NEW a \in D, NEW b \in D, NEW p \in D, NEW q \in D
    PROVE  /\ <<a>> \in Seq(D) /\ <<a, b>> \in Seq(D) /\ <<a, b, p>> \in Seq(D)
           /\ <<a, b, p, q>> \in Seq(D)
  OBVIOUS

\* The pieces all are those of ps and p.
Grows(all, ps, p) == all = Append(ps, p)

\* Append gives a text that grows by one character.
LEMMA AppendIs ==
    ASSUME NEW D, NEW t \in Seq(D), NEW e \in D, NEW u \in Seq(D), NEW n \in Nat, Len(t) = n,
           Len(u) = n + 1, \A i \in 1 .. n : u[i] = t[i], u[n + 1] = e
    PROVE  Grows(u, t, e)
<1>1. PICK d \in Seq(D) : d = Append(t, e)
  BY AppendProperties
<1>2. Len(d) = n + 1 /\ (\A i \in 1 .. n : d[i] = t[i]) /\ d[n + 1] = e
  BY <1>1, AppendProperties
<1>3. \A i \in 1 .. (n + 1) : u[i] = d[i]
  BY <1>2
<1>4. QED
  BY <1>1, <1>2, <1>3, SeqEqual DEF Grows

\* A tuple grows out of the shorter one.
LEMMA TupleGrows ==
    ASSUME NEW D, NEW a \in D, NEW b \in D, NEW p \in D, NEW q \in D
    PROVE  /\ Grows(<<a, b>>, <<a>>, b) /\ Grows(<<a, b, p>>, <<a, b>>, p)
           /\ Grows(<<a, b, p, q>>, <<a, b, p>>, q)
<1>1. PICK t1, t2, t3, t4 \in Seq(D) : t1 = <<a>> /\ t2 = <<a, b>> /\ t3 = <<a, b, p>> /\ t4 = <<a, b, p, q>>
  BY OneMore, Zenon
<1>2. Len(t1) = 1 /\ t1[1] = a
  BY <1>1
<1>3. Len(t2) = 2 /\ t2[1] = a /\ t2[2] = b
  BY <1>1
<1>4. Len(t3) = 3 /\ t3[1] = a /\ t3[2] = b /\ t3[3] = p
  BY <1>1
<1>5. Len(t4) = 4 /\ t4[1] = a /\ t4[2] = b /\ t4[3] = p /\ t4[4] = q
  BY <1>1
<1>6. Grows(t2, t1, b)
  <2>1. PICK n \in Nat : n = 1
    OBVIOUS
  <2>2. Len(t1) = n /\ Len(t2) = n + 1 /\ (\A i \in 1 .. n : t2[i] = t1[i]) /\ t2[n + 1] = b
    BY <1>2, <1>3, <2>1
  <2>3. QED
    BY <2>2, AppendIs, Zenon
<1>7. Grows(t3, t2, p)
  <2>1. PICK n \in Nat : n = 2
    OBVIOUS
  <2>2. Len(t2) = n /\ Len(t3) = n + 1 /\ (\A i \in 1 .. n : t3[i] = t2[i]) /\ t3[n + 1] = p
    BY <1>3, <1>4, <2>1
  <2>3. QED
    BY <2>2, AppendIs, Zenon
<1>8. Grows(t4, t3, q)
  <2>1. PICK n \in Nat : n = 3
    OBVIOUS
  <2>2. Len(t3) = n /\ Len(t4) = n + 1 /\ (\A i \in 1 .. n : t4[i] = t3[i]) /\ t4[n + 1] = q
    BY <1>4, <1>5, <2>1
  <2>3. QED
    BY <2>2, AppendIs, Zenon
<1>9. QED
  BY <1>1, <1>6, <1>7, <1>8, Zenon

\* JoinedMore, for a separator that is written as a text of its own.
LEMMA JoinedNext ==
    ASSUME NEW S, NEW x \in Seq(S), NEW ps \in Seq(Seq(S)), NEW c \in S, NEW p \in Seq(S),
           Joined(x, ps, c)
    PROVE  /\ x \o <<c>> \o p \in Seq(S)
           /\ \A all : Grows(all, ps, p) => Joined(x \o <<c>> \o p, all, c)
<1>1. PICK a \in Seq(S) : a = Append(x, c)
  BY AppendProperties
<1>2. Append(x, c) = x \o <<c>>
  BY AppendIsConcat
<1>3. a \o p \in Seq(S)
  BY ConcatProperties
<1>4. Joined(Append(x, c) \o p, Append(ps, p), c)
  BY JoinedMore
<1>5. QED
  BY <1>1, <1>2, <1>3, <1>4, Zenon DEF Grows

\* Two pieces joined are the first, a separator and the second.
LEMMA JoinedTwo ==
    ASSUME NEW S, NEW a \in Seq(S), NEW b \in Seq(S), NEW c \in S
    PROVE  a \o <<c>> \o b \in Seq(S) /\ Joined(a \o <<c>> \o b, <<a, b>>, c)
<1>1. Joined(a, <<a>>, c)
  BY JoinedOne
<1>2. PICK ps \in Seq(Seq(S)) : ps = <<a>>
  BY OneMore, Zenon
<1>3. Joined(a, ps, c)
  BY <1>1, <1>2, Zenon
<1>4. Grows(<<a, b>>, ps, b)
  BY <1>2, TupleGrows, Zenon
<1>5. QED
  BY <1>3, <1>4, JoinedNext, Zenon

\* Three pieces joined.
LEMMA JoinedThree ==
    ASSUME NEW S, NEW a \in Seq(S), NEW b \in Seq(S), NEW p \in Seq(S), NEW c \in S
    PROVE  /\ a \o <<c>> \o b \o <<c>> \o p \in Seq(S)
           /\ Joined(a \o <<c>> \o b \o <<c>> \o p, <<a, b, p>>, c)
<1>1. PICK x \in Seq(S) : x = a \o <<c>> \o b
  BY JoinedTwo, Zenon
<1>2. PICK ps \in Seq(Seq(S)) : ps = <<a, b>>
  BY OneMore, Zenon
<1>3. Joined(x, ps, c)
  BY <1>1, <1>2, JoinedTwo, Zenon
<1>4. Grows(<<a, b, p>>, ps, p)
  BY <1>2, TupleGrows, Zenon
<1>5. x \o <<c>> \o p \in Seq(S) /\ Joined(x \o <<c>> \o p, <<a, b, p>>, c)
  BY <1>3, <1>4, JoinedNext, Zenon
<1>6. QED
  BY <1>1, <1>5, Zenon

\* Four pieces joined.
LEMMA JoinedFour ==
    ASSUME NEW S, NEW a \in Seq(S), NEW b \in Seq(S), NEW p \in Seq(S), NEW q \in Seq(S), NEW c \in S
    PROVE  /\ a \o <<c>> \o b \o <<c>> \o p \o <<c>> \o q \in Seq(S)
           /\ Joined(a \o <<c>> \o b \o <<c>> \o p \o <<c>> \o q, <<a, b, p, q>>, c)
<1>1. PICK x \in Seq(S) : x = a \o <<c>> \o b \o <<c>> \o p
  BY JoinedThree, Zenon
<1>2. PICK ps \in Seq(Seq(S)) : ps = <<a, b, p>>
  BY OneMore, Zenon
<1>3. Joined(x, ps, c)
  BY <1>1, <1>2, JoinedThree, Zenon
<1>4. Grows(<<a, b, p, q>>, ps, q)
  BY <1>2, TupleGrows, Zenon
<1>5. x \o <<c>> \o q \in Seq(S) /\ Joined(x \o <<c>> \o q, <<a, b, p, q>>, c)
  BY <1>3, <1>4, JoinedNext, Zenon
<1>6. QED
  BY <1>1, <1>5, Zenon

\* Without its last separator, what a loop has appended to r is x.
LEMMA FrontJoined ==
    ASSUME NEW S, NEW r \in Seq(S), NEW x \in Seq(S), NEW ps, NEW c \in S, Joined(x, ps, c)
    PROVE  Front(r \o Terminated(ps, c)) = r \o x
<1>1. r \o Append(x, c) = Append(r \o x, c)
  OBVIOUS
<1>2. PICK y \in Seq(S) : y = r \o x
  BY ConcatProperties
<1>3. Front(Append(y, c)) = y
  BY FrontLast
<1>4. QED
  BY <1>1, <1>2, <1>3, Zenon DEF Joined

\* The pieces ps stand between a head and two other pieces.
Between(parts, ps) ==
    Len(parts) = Len(ps) + 3 /\ \A k \in DOMAIN ps : parts[k + 1] = ps[k]

\* A text of a head, pieces and one separator more.
Message(m, h, ps, c) == m = Append(h, c) \o Terminated(ps, c) \o <<c>>

\* A head, pieces and one separator more: the pieces are found between the head
\* and two empty ones.
LEMMA PiecesOfMessage ==
    ASSUME NEW S, NEW h \in Seq(S), NEW ps \in Seq(Seq(S)), NEW c \in S,
           ~Contains(h, c), \A k \in DOMAIN ps : ~Contains(ps[k], c),
           NEW m, Message(m, h, ps, c)
    PROVE  Between(Pieces(m, c), ps)
<1>1. PICK D : D = Seq(S)
  OBVIOUS
<1>2. h \in D /\ ps \in Seq(D)
  BY <1>1, Zenon
<1>3. PICK n \in Nat : n = Len(ps) /\ DOMAIN ps = 1 .. n
  BY <1>2, LenProperties
<1>4. PICK e \in D : e = <<>>
  BY <1>1, EmptySeq
<1>5. <<h>> \in Seq(D)
  BY <1>2
<1>6. PICK all \in Seq(D) : all = <<h>> \o ps
  BY <1>2, <1>5, ConcatProperties
<1>7. Len(all) = n + 1 /\ all[1] = h /\ \A k \in 1 .. n : all[k + 1] = ps[k]
  <2>1. PICK one \in Seq(D) : one = <<h>>
    BY <1>5, Zenon
  <2>2. Len(one) = 1 /\ one[1] = h
    BY <2>1
  <2>3. PICK w : w = one \o ps
    OBVIOUS
  <2>4. Meets(w, one, 1, ps, n)
    BY <1>2, <1>3, <2>2, <2>3, ConcatMeets, Zenon
  <2>5. w = all
    BY <1>6, <2>1, <2>3, Zenon
  <2>6. Len(w) = n + 1 /\ w[1] = h
    BY <2>2, <2>4 DEF Meets
  <2>7. ASSUME NEW k \in 1 .. n PROVE w[k + 1] = ps[k]
    <3>1. k + 1 = 1 + k
      OBVIOUS
    <3>2. QED
      BY <2>4, <3>1, Zenon DEF Meets
  <2>8. QED
    BY <2>5, <2>6, <2>7, Zenon
<1>8. \A k \in DOMAIN all : ~Contains(all[k], c)
  <2>1. DOMAIN all = 1 .. (n + 1)
    BY <1>7, LenProperties
  <2>2. ASSUME NEW k \in 1 .. (n + 1) PROVE ~Contains(all[k], c)
    <3>1. CASE k = 1
      BY <1>7, <3>1
    <3>2. CASE k # 1
      <4>1. k - 1 \in 1 .. n /\ (k - 1) + 1 = k
        BY <3>2
      <4>2. all[(k - 1) + 1] = ps[k - 1]
        BY <1>7, <4>1, Zenon
      <4>3. ~Contains(ps[k - 1], c)
        BY <1>3, <4>1, Zenon
      <4>4. QED
        BY <4>1, <4>2, <4>3
    <3>3. QED
      BY <3>1, <3>2
  <2>3. QED
    BY <2>1, <2>2, Zenon
<1>9. Makes(Append(h, c), Terminated(ps, c), Terminated(<<h>> \o ps, c))
  BY TerminatedFirst
<1>10. PICK t \in Seq(S) : t = Terminated(all, c)
  BY <1>1, <1>6, TerminatedType
<1>11. m = t \o <<c>>
  BY <1>6, <1>9, <1>10, Zenon DEF Makes, Message
<1>12. m = Append(t, c)
  <2>1. t \o <<c>> = Append(t, c)
    BY AppendIsConcat
  <2>2. QED
    BY <1>11, <2>1, Zenon
<1>13. Taken(Terminated(all, c), c, all, <<>>)
  BY <1>1, <1>6, <1>8, PiecesOfTerminated
<1>14. Taken(t, c, all, <<>>)
  BY <1>10, <1>13, Zenon
<1>15. Taken(Append(t, c), c, Append(all, <<>>), <<>>)
  <2>1. all \in Seq(Seq(S)) /\ <<>> \in Seq(S)
    BY <1>1, <1>4, Zenon
  <2>2. QED
    BY <1>14, <2>1, TakenSeparator, Zenon
<1>16. Pieces(m, c) = Append(Append(all, e), e)
  BY <1>4, <1>12, <1>15, Zenon DEF Taken
<1>17. PICK u \in Seq(D) : u = Append(all, e)
  BY AppendProperties
<1>18. Len(u) = n + 2 /\ \A k \in 1 .. (n + 1) : u[k] = all[k]
  BY <1>7, <1>17, AppendProperties
<1>19. PICK v \in Seq(D) : v = Append(u, e)
  BY AppendProperties
<1>20. Len(v) = n + 3 /\ \A k \in 1 .. (n + 2) : v[k] = u[k]
  BY <1>18, <1>19, AppendProperties
<1>21. v = Pieces(m, c)
  BY <1>16, <1>17, <1>19, Zenon
<1>22. ASSUME NEW k \in 1 .. n PROVE v[k + 1] = ps[k]
  <2>1. k + 1 \in 1 .. (n + 1) /\ k + 1 \in 1 .. (n + 2)
    OBVIOUS
  <2>2. v[k + 1] = u[k + 1] /\ u[k + 1] = all[k + 1]
    BY <1>18, <1>20, <2>1, Zenon
  <2>3. QED
    BY <1>7, <2>2, Zenon
<1>23. QED
  BY <1>3, <1>20, <1>21, <1>22, Zenon DEF Between

\* Pieces of x are exactly ps.
Gives(x, c, ps) == Pieces(x, c) = ps

\* No piece has a d in it.
Without(ps, d) == \A k \in DOMAIN ps : ~Contains(ps[k], d)

\* Few pieces without a d.
LEMMA TuplesWithout ==
    ASSUME NEW d, NEW a, NEW b, NEW p, NEW q, ~Contains(a, d), ~Contains(b, d)
    PROVE  /\ Without(<<a, b>>, d)
           /\ ~Contains(p, d) => Without(<<a, b, p>>, d)
           /\ ~Contains(p, d) /\ ~Contains(q, d) => Without(<<a, b, p, q>>, d)
<1>1. Without(<<a, b>>, d)
  BY DEF Without
<1>2. ~Contains(p, d) => Without(<<a, b, p>>, d)
  BY DEF Without
<1>3. ~Contains(p, d) /\ ~Contains(q, d) => Without(<<a, b, p, q>>, d)
  BY DEF Without
<1>4. QED
  BY <1>1, <1>2, <1>3

\* What was joined can be read, and contains no separator but its own.
LEMMA JoinedReads ==
    ASSUME NEW S, NEW x \in Seq(S), NEW ps \in Seq(Seq(S)), NEW c \in S, Joined(x, ps, c)
    PROVE  /\ Without(ps, c) => Gives(x, c, ps)
           /\ \A d : c # d /\ Without(ps, d) => ~Contains(x, d)
<1>1. ASSUME Without(ps, c) PROVE Gives(x, c, ps)
  <2>1. Pieces(x, c) = ps
    BY <1>1, PiecesOfJoined DEF Without
  <2>2. QED
    BY <2>1, Zenon DEF Gives
<1>2. ASSUME NEW d, c # d, Without(ps, d) PROVE ~Contains(x, d)
  BY <1>2, JoinedPlain, Zenon DEF Without
<1>3. QED
  BY <1>1, <1>2, Zenon

\* Each of the pieces ps, taken apart.
EachTaken(ps, e) == {Pieces(ps[k], e) : k \in DOMAIN ps}

\* The text x is the texts es of the rows M: it can be taken apart at c.
Apart(x, es, c, M, f) ==
    /\ Joined(x, es, c)
    /\ \A d : c # d /\ (\A m \in M : ~Contains(f[m], d)) => ~Contains(x, d)
    /\ \A e : EachTaken(Pieces(x, c), e) = {Pieces(f[m], e) : m \in M}

\* The texts es are those of the rows M, in some order.
Rows(es, M, f) == es = [k \in DOMAIN SetToSeq(M) |-> f[SetToSeq(M)[k]]]

\* The texts f[m] of a finite set of rows, one after the other: what is joined
\* can be taken apart, and each text of the set is found.
LEMMA RowsJoined ==
    ASSUME NEW S, NEW M, IsFiniteSet(M), M # {}, NEW f \in [M -> Seq(S)], NEW c \in S,
           \A m \in M : ~Contains(f[m], c),
           NEW es, Rows(es, M, f)
    PROVE  \E x \in Seq(S) : Apart(x, es, c, M, f)
<1> DEFINE s == SetToSeq(M)
<1>1. s \in Seq(M) /\ {s[k] : k \in DOMAIN s} = M
  BY SetToSeqLists
<1>2. es = [k \in DOMAIN s |-> f[s[k]]]
  BY Zenon DEF Rows
<1> HIDE DEF s
<1>3. PICK n \in Nat : n = Len(s) /\ DOMAIN s = 1 .. n
  BY <1>1, LenProperties
<1>4. \A k \in 1 .. n : s[k] \in M
  BY <1>1, <1>3
<1>5. \A m \in M : \E k \in 1 .. n : m = s[k]
  BY <1>1, <1>3
<1>6. DOMAIN es = 1 .. n /\ \A k \in 1 .. n : es[k] = f[s[k]] /\ f[s[k]] \in Seq(S)
  BY <1>2, <1>3, <1>4
<1>7. es \in Seq(Seq(S)) /\ Len(es) = n
  <2>1. PICK D : D = Seq(S)
    OBVIOUS
  <2>2. \A k \in 1 .. n : es[k] \in D
    BY <1>6, <2>1, Zenon
  <2>3. es = [k \in 1 .. n |-> es[k]]
    BY <1>2, <1>3, <1>6, Zenon
  <2>4. [k \in 1 .. n |-> es[k]] \in Seq(D) /\ Len([k \in 1 .. n |-> es[k]]) = n
    BY <2>2
  <2>5. QED
    BY <2>1, <2>3, <2>4, Zenon
<1>8. es # <<>>
  <2>1. PICK m \in M : TRUE
    OBVIOUS
  <2>2. n # 0
    BY <1>5, <2>1
  <2>3. Len(<<>>) = 0
    BY EmptySeq
  <2>4. QED
    BY <1>7, <2>2, <2>3, Zenon
<1>9. PICK x \in Seq(S) : Joined(x, es, c)
  BY <1>7, <1>8, JoinedExists, Zenon
<1>10. ASSUME NEW d, \A m \in M : ~Contains(f[m], d) PROVE Without(es, d)
  BY <1>4, <1>6, <1>10, Zenon DEF Without
<1>11. Gives(x, c, es)
  BY <1>7, <1>9, <1>10, JoinedReads, Zenon
<1>12. ASSUME NEW d, c # d, \A m \in M : ~Contains(f[m], d) PROVE ~Contains(x, d)
  BY <1>7, <1>9, <1>10, <1>12, JoinedReads, Zenon
<1>13. ASSUME NEW e PROVE EachTaken(es, e) = {Pieces(f[m], e) : m \in M}
  <2>1. ASSUME NEW k \in 1 .. n PROVE \E m \in M : Pieces(es[k], e) = Pieces(f[m], e)
    BY <1>4, <1>6, Zenon
  <2>2. ASSUME NEW m \in M PROVE \E k \in 1 .. n : Pieces(f[m], e) = Pieces(es[k], e)
    <3>1. PICK k \in 1 .. n : m = s[k]
      BY <1>5, Zenon
    <3>2. f[m] = es[k]
      BY <1>6, <3>1, Zenon
    <3>3. QED
      BY <3>2, Zenon
  <2>3. {Pieces(es[k], e) : k \in 1 .. n} = {Pieces(f[m], e) : m \in M}
    BY <2>1, <2>2
  <2>4. QED
    BY <1>6, <2>3, Zenon DEF EachTaken
<1>14. ASSUME NEW e
       PROVE  EachTaken(Pieces(x, c), e) = {Pieces(f[m], e) : m \in M}
  <2>1. Pieces(x, c) = es
    BY <1>11, Zenon DEF Gives
  <2>2. QED
    BY <1>13, <2>1, Zenon
<1>15. QED
  BY <1>9, <1>12, <1>14, Zenon DEF Apart

\* A text of three or of four characters.
SpelledOut(t, a, b, c) == t = <<a>> \o <<b>> \o <<c>>
Spelled(t, a, b, c, d) == t = <<a>> \o <<b>> \o <<c>> \o <<d>>

\* A tuple of characters is its characters, one after the other.
LEMMA CharactersApart ==
    ASSUME NEW S, NEW a \in S, NEW b \in S, NEW c \in S, NEW d \in S
    PROVE  /\ SpelledOut(<<a, b, c>>, a, b, c)
           /\ Spelled(<<a, b, c, d>>, a, b, c, d)
<1>1. /\ Append(<<a>>, b) = <<a>> \o <<b>>
      /\ Append(<<a, b>>, c) = <<a, b>> \o <<c>>
      /\ Append(<<a, b, c>>, d) = <<a, b, c>> \o <<d>>
  <2>1. PICK t1, t2, t3 \in Seq(S) : t1 = <<a>> /\ t2 = <<a, b>> /\ t3 = <<a, b, c>>
    BY OneMore, Zenon
  <2>2. Append(t1, b) = t1 \o <<b>> /\ Append(t2, c) = t2 \o <<c>> /\ Append(t3, d) = t3 \o <<d>>
    BY AppendIsConcat
  <2>3. QED
    BY <2>1, <2>2, Zenon
<1>2. <<a, b>> = Append(<<a>>, b) /\ <<a, b, c>> = Append(<<a, b>>, c) /\ <<a, b, c, d>> = Append(<<a, b, c>>, d)
  <2>1. Grows(<<a, b>>, <<a>>, b) /\ Grows(<<a, b, c>>, <<a, b>>, c) /\ Grows(<<a, b, c, d>>, <<a, b, c>>, d)
    BY TupleGrows, Zenon
  <2>2. QED
    BY <2>1, Zenon DEF Grows
<1>3. QED
  BY <1>1, <1>2, Zenon DEF Spelled, SpelledOut
=============================================================================
