------------------------------ MODULE CsvProofs ------------------------------
(***************************************************************************)
(* Theorems about Csv, for any characters and tables.                      *)
(*                                                                         *)
(* Texts are taken apart from the front: a sequence is empty or an element *)
(* and a sequence (FirstAndRest), and what the writer makes of it begins   *)
(* with what it makes of its first element (MappedFirst, FromIs).  So      *)
(* induction is needed once, for FlattenSeq itself; everything behind it   *)
(* goes from one step of the reader to the next.                           *)
(*                                                                         *)
(* CsvInv says at each step what is still to be read: of the line, the     *)
(* rest of a field as the writer left it and the text of the fields after  *)
(* it (Reads); of the stream, the rows of the books to come, with the      *)
(* imported ones accounting for all the others (Progress).                 *)
(***************************************************************************)
EXTENDS Csv, TLAPS, SequenceTheorems, WellFoundedInduction

\* A set of numbers with a member has a least one.
LEMMA Least ==
  ASSUME NEW S \in SUBSET Nat, S # {}
  PROVE  \E i \in S : \A j \in S : i <= j
<1>1. IsWellFoundedOn(OpToRel(<, Nat), Nat)
  BY NatLessThanWellFounded
<1> DEFINE R == {p \in Nat \X Nat : p[1] < p[2]}
<1>2. IsWellFoundedOn(R, Nat)
  BY <1>1 DEF OpToRel
<1>3. \A i, j \in Nat : j < i => <<j, i>> \in R
  OBVIOUS
<1> HIDE DEF R
<1>4. PICK i \in S : \A j \in S : ~(<<j, i>> \in R)
  BY <1>2, WFMin
<1>5. ASSUME NEW j \in S PROVE i <= j
  <2>1. i \in Nat /\ j \in Nat /\ ~(j < i)
    BY <1>3, <1>4
  <2> QED
    BY <2>1
<1> QED
  BY <1>5

\* Induction, with a set of numbers in the place of a predicate.
LEMMA Induction ==
  ASSUME NEW S, 0 \in S, \A n \in Nat : n \in S => n + 1 \in S
  PROVE  Nat \subseteq S
<1> SUFFICES ASSUME Nat \ S # {} PROVE FALSE
  OBVIOUS
<1>1. PICK n \in Nat \ S : \A j \in Nat \ S : n <= j
  <2>1. Nat \ S \in SUBSET Nat
    OBVIOUS
  <2> QED
    BY <2>1, Least
<1>2. n \in Nat /\ n # 0
  BY <1>1
<1>3. n - 1 \in Nat
  BY <1>2
<1>4. n - 1 \in S
  <2>1. ~(n <= n - 1)
    BY <1>2
  <2> QED
    BY <1>1, <1>3, <2>1
<1>5. (n - 1) + 1 = n
  BY <1>2
<1> QED
  BY <1>1, <1>3, <1>4, <1>5

\* The first element of a sequence and the others are its own.
LEMMA Prepend ==
  ASSUME NEW S, NEW c \in S, NEW d \in S, NEW s \in Seq(S), NEW t \in Seq(S),
         <<c>> \o s = <<d>> \o t
  PROVE  c = d /\ s = t
<1>1. (<<c>> \o s)[1] = c /\ (<<d>> \o t)[1] = d
  OBVIOUS
<1>2. c = d
  BY <1>1
<1>3. <<c>> \in Seq(S)
  OBVIOUS
<1> QED
  BY <1>2, <1>3, ConcatSimplifications

\* F concatenates the first m sequences of seqs, and the first of these.
Unfolds(F, seqs, m) ==
  F = [i \in 1..m |-> IF i = 1 THEN seqs[i] ELSE F[i - 1] \o seqs[i]]

\* The recursive function inside FlattenSeq exists, and its values are
\* sequences.
LEMMA Flatten ==
  ASSUME NEW S, NEW seqs \in Seq(Seq(S)), seqs # <<>>
  PROVE  \E F \in [1..Len(seqs) -> Seq(S)] :
           /\ F[1] = seqs[1]
           /\ \A i \in 2..Len(seqs) : F[i] = F[i - 1] \o seqs[i]
           /\ FlattenSeq(seqs) = F[Len(seqs)]
<1> DEFINE Len0 == Len(seqs)
           Have == {m \in Nat : m + 1 <= Len0 => \E F : Unfolds(F, seqs, m + 1)}
           flatten == CHOOSE F : Unfolds(F, seqs, Len0)
<1>1. Len0 \in Nat \ {0} /\ \A i \in 1..Len0 : seqs[i] \in Seq(S)
  OBVIOUS
<1>2. Nat \subseteq Have
  <2>1. 0 \in Have
    <3> DEFINE F == [i \in 1..1 |-> seqs[1]]
    <3>1. F = [i \in 1..1 |-> IF i = 1 THEN seqs[i] ELSE F[i - 1] \o seqs[i]]
      OBVIOUS
    <3>2. Unfolds(F, seqs, 0 + 1)
      BY <3>1 DEF Unfolds
    <3> QED
      BY <3>2
  <2>2. ASSUME NEW m \in Nat, m \in Have PROVE m + 1 \in Have
    <3> SUFFICES ASSUME (m + 1) + 1 <= Len0
                 PROVE  \E F : Unfolds(F, seqs, (m + 1) + 1)
      OBVIOUS
    <3>1. PICK F : Unfolds(F, seqs, m + 1)
      <4>1. m + 1 <= Len0
        BY <1>1
      <4> HIDE DEF Len0
      <4> QED
        BY <2>2, <4>1
    <3> DEFINE G == [i \in 1..(m + 2) |->
                       IF i = m + 2 THEN F[m + 1] \o seqs[m + 2] ELSE F[i]]
    <3>2. \A i \in 1..(m + 1) :
            F[i] = IF i = 1 THEN seqs[i] ELSE F[i - 1] \o seqs[i]
      BY <3>1 DEF Unfolds
    <3>3. ASSUME NEW i \in 1..(m + 2)
          PROVE  G[i] = IF i = 1 THEN seqs[i] ELSE G[i - 1] \o seqs[i]
      <4>1. CASE i = m + 2
        <5>1. i # 1 /\ i - 1 = m + 1 /\ i - 1 # m + 2 /\ i - 1 \in 1..(m + 2)
          BY <4>1
        <5> QED
          BY <4>1, <5>1
      <4>2. CASE i # m + 2
        <5>1. i \in 1..(m + 1) /\ i - 1 # m + 2
              /\ (i # 1 => i - 1 \in 1..(m + 2))
          BY <4>2
        <5> QED
          BY <3>2, <4>2, <5>1
      <4> QED
        BY <4>1, <4>2
    <3>4. G = [i \in 1..(m + 2) |->
                 IF i = 1 THEN seqs[i] ELSE G[i - 1] \o seqs[i]]
      BY <3>3
    <3>5. (m + 1) + 1 = m + 2
      OBVIOUS
    <3>6. Unfolds(G, seqs, (m + 1) + 1)
      BY <3>4, <3>5 DEF Unfolds
    <3> QED
      BY <3>6
  <2> HIDE DEF Have
  <2> QED
    BY <2>1, <2>2, Induction
<1>3. \E F : Unfolds(F, seqs, Len0)
  <2>1. Len0 - 1 \in Nat /\ (Len0 - 1) + 1 = Len0 /\ Len0 <= Len0
    BY <1>1
  <2> HIDE DEF Len0
  <2>2. Len0 - 1 \in Have
    <3> HIDE DEF Have
    <3> QED
      BY <1>2, <2>1
  <2>3. (Len0 - 1) + 1 <= Len0
    BY <2>1
  <2>4. \E F : Unfolds(F, seqs, (Len0 - 1) + 1)
    BY <2>2, <2>3
  <2> QED
    BY <2>1, <2>4
<1>4. Unfolds(flatten, seqs, Len0)
  BY <1>3
<1> HIDE DEF flatten
<1>5. \A i \in 1..Len0 :
        flatten[i] = IF i = 1 THEN seqs[i] ELSE flatten[i - 1] \o seqs[i]
  BY <1>4 DEF Unfolds
<1> DEFINE Typed == {m \in Nat : m + 1 <= Len0 => flatten[m + 1] \in Seq(S)}
<1>6. Nat \subseteq Typed
  <2>1. 0 \in Typed
    BY <1>1, <1>5
  <2>2. ASSUME NEW m \in Nat, m \in Typed PROVE m + 1 \in Typed
    <3> SUFFICES ASSUME (m + 1) + 1 <= Len0
                 PROVE  flatten[(m + 1) + 1] \in Seq(S)
      OBVIOUS
    <3>1. m + 2 \in 1..Len0 /\ m + 2 # 1 /\ (m + 2) - 1 = m + 1
      BY <1>1
    <3>2. flatten[m + 2] = flatten[m + 1] \o seqs[m + 2]
      BY <1>5, <3>1
    <3>3. flatten[m + 1] \in Seq(S) /\ seqs[m + 2] \in Seq(S)
      BY <1>1, <2>2, <3>1
    <3>4. flatten[m + 2] \in Seq(S)
      BY <3>2, <3>3, ConcatProperties
    <3> QED
      BY <3>4
  <2> HIDE DEF Typed
  <2> QED
    BY <2>1, <2>2, Induction
<1>7. \A i \in 1..Len0 : flatten[i] \in Seq(S)
  <2> SUFFICES ASSUME NEW i \in 1..Len0 PROVE flatten[i] \in Seq(S)
    OBVIOUS
  <2>1. i - 1 \in Nat /\ (i - 1) + 1 = i /\ i <= Len0
    BY <1>1
  <2> QED
    BY <1>6, <2>1
<1>8. flatten \in [1..Len0 -> Seq(S)]
  BY <1>4, <1>7 DEF Unfolds
<1>9. FlattenSeq(seqs) = flatten[Len0]
  BY <1>1 DEF FlattenSeq, flatten, Unfolds
<1>10. flatten[1] = seqs[1]
  BY <1>1, <1>5
<1>11. ASSUME NEW i \in 2..Len0
       PROVE  flatten[i] = flatten[i - 1] \o seqs[i]
  <2>1. i \in 1..Len0 /\ i # 1
    BY <1>1
  <2> QED
    BY <1>5, <2>1
<1> QED
  BY <1>8, <1>9, <1>10, <1>11

LEMMA FlattenType ==
  ASSUME NEW S, NEW seqs \in Seq(Seq(S))
  PROVE  FlattenSeq(seqs) \in Seq(S)
<1>1. CASE seqs = <<>>
  BY <1>1 DEF FlattenSeq
<1>2. CASE seqs # <<>>
  <2>1. PICK F \in [1..Len(seqs) -> Seq(S)] : FlattenSeq(seqs) = F[Len(seqs)]
    BY <1>2, Flatten
  <2>2. Len(seqs) \in 1..Len(seqs)
    BY <1>2
  <2> QED
    BY <2>1, <2>2
<1> QED
  BY <1>1, <1>2

LEMMA FlattenNone == FlattenSeq(<<>>) = <<>>
  BY DEF FlattenSeq

\* A flattened sequence begins with the first of its sequences.
LEMMA FlattenFirst ==
  ASSUME NEW S, NEW seqs \in Seq(Seq(S)), seqs # <<>>
  PROVE  FlattenSeq(seqs) = seqs[1] \o FlattenSeq(Tail(seqs))
<1> DEFINE n == Len(seqs)
           later == Tail(seqs)
<1>1. n \in Nat \ {0} /\ \A i \in 1..n : seqs[i] \in Seq(S)
  OBVIOUS
<1>2. /\ later \in Seq(Seq(S)) /\ Len(later) = n - 1
      /\ \A i \in 1..(n - 1) : later[i] = seqs[i + 1]
  BY HeadTailProperties
<1>3. PICK F \in [1..n -> Seq(S)] :
        /\ F[1] = seqs[1]
        /\ \A i \in 2..n : F[i] = F[i - 1] \o seqs[i]
        /\ FlattenSeq(seqs) = F[n]
  BY Flatten
<1>4. CASE n = 1
  <2>1. later = <<>>
    <3> HIDE DEF later
    <3>1. Len(later) = 0
      BY <1>2, <1>4
    <3> QED
      BY <1>2, <3>1, EmptySeq
  <2>2. FlattenSeq(later) = <<>>
    BY <2>1, FlattenNone
  <2>3. FlattenSeq(seqs) = seqs[1] /\ seqs[1] \in Seq(S)
    BY <1>1, <1>3, <1>4
  <2> QED
    BY <2>2, <2>3, ConcatEmptySeq
<1>5. CASE n # 1
  <2> HIDE DEF later
  <2>1. later # <<>>
    BY <1>1, <1>2, <1>5
  <2>2. PICK G \in [1..Len(later) -> Seq(S)] :
          /\ G[1] = later[1]
          /\ \A i \in 2..Len(later) : G[i] = G[i - 1] \o later[i]
          /\ FlattenSeq(later) = G[Len(later)]
    BY <1>2, <2>1, Flatten
  <2> HIDE DEF n
  <2> DEFINE Same == {k \in Nat : k + 2 <= n => F[k + 2] = seqs[1] \o G[k + 1]}
  <2>3. 0 \in Same
    <3>1. 2 \in 2..n /\ 2 - 1 = 1 /\ 1 \in 1..(n - 1) /\ 1 + 1 = 2
      BY <1>1, <1>5
    <3>2. F[2] = F[1] \o seqs[2] /\ later[1] = seqs[2]
      BY <1>2, <1>3, <3>1
    <3>3. F[2] = seqs[1] \o G[1]
      BY <1>3, <2>2, <3>2, Zenon
    <3>4. 0 + 2 = 2 /\ 0 + 1 = 1
      OBVIOUS
    <3> QED
      BY <3>3, <3>4
  <2>4. ASSUME NEW k \in Nat, k \in Same PROVE k + 1 \in Same
    <3> SUFFICES ASSUME (k + 1) + 2 <= n
                 PROVE  F[(k + 1) + 2] = seqs[1] \o G[(k + 1) + 1]
      <4>1. k + 1 \in Nat
        OBVIOUS
      <4> QED
        BY <4>1
    <3>1. /\ k + 3 \in 2..n /\ (k + 3) - 1 = k + 2 /\ k + 2 <= n
          /\ k + 2 \in 2..(n - 1) /\ (k + 2) - 1 = k + 1
          /\ k + 1 \in 1..(n - 1) /\ k + 2 \in 1..(n - 1) /\ (k + 2) + 1 = k + 3
          /\ 1 \in 1..n /\ k + 3 \in 1..n
          /\ (k + 1) + 2 = k + 3 /\ (k + 1) + 1 = k + 2
      BY <1>1
    <3>2. F[k + 3] = F[k + 2] \o seqs[k + 3]
      BY <1>3, <3>1
    <3>3. F[k + 2] = seqs[1] \o G[k + 1]
      BY <2>4, <3>1
    <3>4. G[k + 2] = G[k + 1] \o seqs[k + 3]
      <4>1. k + 2 \in 2..Len(later) /\ k + 2 \in 1..(n - 1)
        BY <1>2, <3>1
      <4>2. G[k + 2] = G[(k + 2) - 1] \o later[k + 2]
        BY <2>2, <4>1
      <4>3. later[k + 2] = seqs[(k + 2) + 1]
        BY <1>2, <4>1
      <4> QED
        BY <3>1, <4>2, <4>3
    <3>5. seqs[1] \in Seq(S) /\ G[k + 1] \in Seq(S) /\ seqs[k + 3] \in Seq(S)
      BY <1>1, <1>2, <3>1
    <3>6. PICK a, b, c \in Seq(S) :
            a = seqs[1] /\ b = G[k + 1] /\ c = seqs[k + 3]
      BY <3>5, Zenon
    <3>7. F[k + 3] = seqs[1] \o G[k + 2]
      <4>1. F[k + 3] = (a \o b) \o c
        BY <3>2, <3>3, <3>6, Zenon
      <4>2. G[k + 2] = b \o c
        BY <3>4, <3>6
      <4>3. (a \o b) \o c = a \o (b \o c)
        BY ONLY a \in Seq(S), b \in Seq(S), c \in Seq(S), ConcatAssociative
      <4> QED
        BY <3>6, <4>1, <4>2, <4>3, Zenon
    <3> QED
      BY <3>1, <3>7
  <2>5. n - 2 \in Same
    <3> HIDE DEF Same
    <3>1. n - 2 \in Nat
      BY <1>1, <1>5
    <3> QED
      BY <2>3, <2>4, <3>1, Induction
  <2>6. (n - 2) + 2 = n /\ (n - 2) + 1 = n - 1 /\ n <= n
    BY <1>1
  <2>7. F[n] = seqs[1] \o G[n - 1]
    BY <2>5, <2>6
  <2>8. FlattenSeq(later) = G[n - 1]
    BY <1>2, <2>2
  <2> QED
    BY <1>3, <2>7, <2>8 DEF later
<1> QED
  BY <1>4, <1>5

\* Concatenation as a symbol of its own: the provers take \o apart.
s ++ t == s \o t

LEMMA CatType ==
  ASSUME NEW S, NEW s \in Seq(S), NEW t \in Seq(S)
  PROVE  s ++ t \in Seq(S)
  BY ConcatProperties DEF ++

LEMMA CatAssociative ==
  ASSUME NEW S, NEW s \in Seq(S), NEW t \in Seq(S), NEW u \in Seq(S)
  PROVE  (s ++ t) ++ u = s ++ (t ++ u)
  BY ConcatAssociative DEF ++

LEMMA CatEmpty ==
  ASSUME NEW S, NEW s \in Seq(S)
  PROVE  <<>> ++ s = s /\ s ++ <<>> = s
  BY ConcatEmptySeq DEF ++

LEMMA CatFirst ==
  ASSUME NEW S, NEW c \in S, NEW d \in S, NEW s \in Seq(S), NEW t \in Seq(S),
         <<c>> ++ s = <<d>> ++ t
  PROVE  c = d /\ s = t
  BY Prepend DEF ++

LEMMA CatNotEmpty ==
  ASSUME NEW S, NEW c \in S, NEW s \in Seq(S)
  PROVE  <<c>> ++ s # <<>> /\ Len(<<c>> ++ s) = Len(s) + 1
  BY DEF ++

LEMMA CatElements ==
  ASSUME NEW S, NEW c \in S, NEW t \in Seq(S)
  PROVE  /\ <<c>> ++ t \in Seq(S) /\ Len(<<c>> ++ t) = Len(t) + 1
         /\ (<<c>> ++ t)[1] = c
         /\ \A i \in 1..Len(t) : (<<c>> ++ t)[i + 1] = t[i]
         /\ Len(t) \in Nat /\ DOMAIN t = 1..Len(t)
         /\ DOMAIN (<<c>> ++ t) = 1..(Len(t) + 1)
<1> DEFINE s == <<c>> \o t
<1>1. /\ s \in Seq(S) /\ Len(s) = Len(t) + 1 /\ s[1] = c
      /\ \A i \in 1..Len(t) : s[i + 1] = t[i]
      /\ Len(t) \in Nat /\ DOMAIN s = 1..(Len(t) + 1) /\ DOMAIN t = 1..Len(t)
  OBVIOUS
<1> HIDE DEF s
<1>2. s = <<c>> ++ t
  BY DEF s, ++
<1> QED
  BY <1>1, <1>2

\* A sequence is empty or an element followed by a sequence.
LEMMA FirstAndRest ==
  ASSUME NEW S, NEW s \in Seq(S), s # <<>>
  PROVE  \E c \in S, t \in Seq(S) : s = <<c>> ++ t
<1>1. Len(s) \in Nat \ {0} /\ 1 \in 1..Len(s) /\ Len(s) \in 1..Len(s)
  OBVIOUS
<1>2. SubSeq(s, 1, Len(s)) = <<s[1]>> \o SubSeq(s, 1 + 1, Len(s))
  BY <1>1, SubSeqRecursiveFirst
<1>3. s = <<s[1]>> \o SubSeq(s, 1 + 1, Len(s))
  BY <1>2, SubSeqFull
<1>4. s[1] \in S
  BY <1>1
<1>5. SubSeq(s, 1 + 1, Len(s)) \in Seq(S)
  <2>1. 1 + 1 \in Int /\ Len(s) \in Int /\ \A i \in (1 + 1)..Len(s) : s[i] \in S
    BY <1>1
  <2> QED
    BY <2>1, SubSeqProperties
<1> QED
  BY <1>3, <1>4, <1>5 DEF ++

LEMMA FunctionIsSeq ==
  ASSUME NEW S, NEW n \in Nat, NEW f \in [1..n -> S]
  PROVE  f \in Seq(S) /\ Len(f) = n /\ DOMAIN f = 1..n
  BY SeqDef

LEMMA LengthIs ==
  ASSUME NEW S, NEW s \in Seq(S), NEW n \in Nat, DOMAIN s = 1..n
  PROVE  Len(s) = n
  OBVIOUS

\* What a function of the elements of a sequence maps them to, flattened.
Parts(e, s) == [i \in DOMAIN s |-> e[s[i]]]
Mapped(e, s) == FlattenSeq(Parts(e, s))

\* e maps the elements of T to sequences over S.
Maps(e, T, S) == e \in [T -> Seq(S)]

LEMMA PartsType ==
  ASSUME NEW S, NEW T, NEW e, Maps(e, T, S), NEW s \in Seq(T)
  PROVE  Parts(e, s) \in Seq(Seq(S))
<1>1. Len(s) \in Nat /\ DOMAIN s = 1..Len(s)
  OBVIOUS
<1>2. \A i \in 1..Len(s) : e[s[i]] \in Seq(S)
  BY DEF Maps
<1>3. Parts(e, s) \in [1..Len(s) -> Seq(S)]
  BY <1>1, <1>2 DEF Parts
<1> QED
  BY ONLY <1>1, <1>3, FunctionIsSeq

LEMMA MappedType ==
  ASSUME NEW S, NEW T, NEW e, Maps(e, T, S), NEW s \in Seq(T)
  PROVE  Mapped(e, s) \in Seq(S)
  BY PartsType, FlattenType DEF Mapped

LEMMA MappedNone ==
  ASSUME NEW e
  PROVE  Mapped(e, <<>>) = <<>>
<1>1. Parts(e, <<>>) = <<>>
  BY DEF Parts
<1> QED
  BY <1>1, FlattenNone DEF Mapped

LEMMA MappedFirst ==
  ASSUME NEW S, NEW T, NEW e, Maps(e, T, S), NEW c \in T, NEW t \in Seq(T)
  PROVE  Mapped(e, <<c>> ++ t) = e[c] ++ Mapped(e, t)
<1> DEFINE s == <<c>> ++ t
           u == Tail(Parts(e, s))
<1>1. /\ s \in Seq(T) /\ Len(s) = Len(t) + 1 /\ s[1] = c
      /\ \A i \in 1..Len(t) : s[i + 1] = t[i]
      /\ Len(t) \in Nat /\ DOMAIN s = 1..(Len(t) + 1) /\ DOMAIN t = 1..Len(t)
  BY CatElements
<1> HIDE DEF s
<1>2. /\ Parts(e, s) \in Seq(Seq(S)) /\ Len(Parts(e, s)) = Len(t) + 1
      /\ \A i \in 1..(Len(t) + 1) : Parts(e, s)[i] = e[s[i]]
  <2>1. Parts(e, s) \in Seq(Seq(S))
    BY <1>1, PartsType, Zenon
  <2>2. \A i \in 1..(Len(t) + 1) : Parts(e, s)[i] = e[s[i]]
    BY <1>1 DEF Parts
  <2>3. DOMAIN Parts(e, s) = 1..(Len(t) + 1)
    BY <1>1 DEF Parts
  <2>4. Len(Parts(e, s)) = Len(t) + 1
    BY ONLY <1>1, <2>1, <2>3, LengthIs
  <2> QED
    BY <2>1, <2>2, <2>4
<1>3. /\ Parts(e, t) \in Seq(Seq(S)) /\ Len(Parts(e, t)) = Len(t)
      /\ \A i \in 1..Len(t) : Parts(e, t)[i] = e[t[i]]
  <2>1. Parts(e, t) \in Seq(Seq(S))
    BY PartsType, Zenon
  <2>2. \A i \in 1..Len(t) : Parts(e, t)[i] = e[t[i]]
    BY <1>1 DEF Parts
  <2>3. DOMAIN Parts(e, t) = 1..Len(t)
    BY <1>1 DEF Parts
  <2>4. Len(Parts(e, t)) = Len(t)
    BY ONLY <1>1, <2>1, <2>3, LengthIs
  <2> QED
    BY <2>1, <2>2, <2>4
<1>4. Parts(e, s) # <<>> /\ Parts(e, s)[1] = e[c]
  <2>1. Len(Parts(e, s)) # 0 /\ 1 \in 1..(Len(t) + 1)
    BY <1>1, <1>2
  <2> QED
    BY <1>1, <1>2, <2>1, EmptySeq
<1>5. /\ u \in Seq(Seq(S)) /\ Len(u) = Len(t)
      /\ \A i \in 1..Len(t) : u[i] = Parts(e, s)[i + 1]
  <2> DEFINE p == Parts(e, s)
  <2>1. /\ p \in Seq(Seq(S)) /\ p # <<>> /\ Len(p) = Len(t) + 1
        /\ Len(t) \in Nat
    BY <1>1, <1>2, <1>4
  <2> HIDE DEF p
  <2>2. /\ Tail(p) \in Seq(Seq(S)) /\ Len(Tail(p)) = Len(p) - 1
        /\ \A i \in 1..Len(Tail(p)) : Tail(p)[i] = p[i + 1]
    BY ONLY <2>1, HeadTailProperties
  <2>3. Len(Tail(p)) = Len(t)
    BY <2>1, <2>2
  <2> QED
    BY <2>2, <2>3 DEF p
<1> HIDE DEF u
<1>6. ASSUME NEW i \in 1..Len(t) PROVE u[i] = Parts(e, t)[i]
  <2>1. i + 1 \in 1..(Len(t) + 1) /\ s[i + 1] = t[i]
    BY <1>1
  <2>2. u[i] = Parts(e, s)[i + 1]
    BY <1>5
  <2>3. Parts(e, s)[i + 1] = e[s[i + 1]]
    BY ONLY <1>2, <2>1
  <2>4. Parts(e, t)[i] = e[t[i]]
    BY <1>3
  <2> QED
    BY <2>1, <2>2, <2>3, <2>4, Zenon
<1>7. u = Parts(e, t)
  <2>1. /\ u \in Seq(Seq(S)) /\ Parts(e, t) \in Seq(Seq(S))
        /\ Len(u) = Len(Parts(e, t))
        /\ \A i \in 1..Len(u) : u[i] = Parts(e, t)[i]
    BY <1>3, <1>5, <1>6
  <2> QED
    BY ONLY <2>1, SeqEqual
<1>8. FlattenSeq(Parts(e, s)) = Parts(e, s)[1] \o FlattenSeq(u)
  BY <1>2, <1>4, FlattenFirst DEF u
<1>9. FlattenSeq(Parts(e, s)) = e[c] \o FlattenSeq(Parts(e, t))
  BY <1>4, <1>7, <1>8, Zenon
<1> QED
  BY <1>9 DEF Mapped, s, ++

LEMMA MinIs ==
  ASSUME NEW S \in SUBSET Nat, S # {}
  PROVE  Min(S) \in S /\ \A j \in S : Min(S) <= j
<1>1. \E i \in S : \A j \in S : i <= j
  BY Least
<1> QED
  BY <1>1 DEF Min

-----------------------------------------------------------------------------
(* The characters, and what std::getline and std::stoi read.                *)

InLine == Chars \ {Newline}

LEMMA Special ==
  /\ Comma \in InLine /\ Quote \in InLine /\ Newline \in Chars
  /\ Comma # Quote /\ Comma \notin Digits /\ Minus \notin Digits
  /\ Minus \in InLine
  /\ Digits \subseteq InLine /\ InLine \subseteq Chars /\ Newline \notin InLine
  BY CsvAssumption DEF InLine, Chars

\* The first newline of the stream, or the end.
LEMMA LineEndIs ==
  ASSUME rest \in Text
  PROVE  /\ LineEnd \in 1..(Len(rest) + 1)
         /\ LineEnd <= Len(rest) => rest[LineEnd] = Newline
         /\ \A j \in 1..(LineEnd - 1) : rest[j] # Newline
<1> DEFINE s == rest \o <<Newline>>
           I == {i \in 1..Len(s) : s[i] = Newline}
<1>1. /\ Len(rest) \in Nat /\ Len(s) = Len(rest) + 1
      /\ s[Len(rest) + 1] = Newline
      /\ \A i \in 1..Len(rest) : s[i] = rest[i]
  BY DEF Text
<1> HIDE DEF s
<1>2. I \in SUBSET Nat /\ Len(rest) + 1 \in I
  BY <1>1
<1>3. LineEnd = Min(I)
  BY <1>2 DEF LineEnd, SelectInSeq, s
<1>4. LineEnd \in I /\ \A j \in I : LineEnd <= j
  BY <1>2, <1>3, MinIs
<1>5. LineEnd \in 1..(Len(rest) + 1) /\ s[LineEnd] = Newline
  BY <1>1, <1>4
<1>6. ASSUME NEW j \in 1..(LineEnd - 1) PROVE rest[j] # Newline
  <2>1. j \in 1..Len(rest) /\ j \in 1..Len(s) /\ ~(LineEnd <= j)
    BY <1>1, <1>5
  <2>2. j \notin I
    BY <1>4, <2>1
  <2> QED
    BY <1>1, <2>1, <2>2
<1>7. LineEnd <= Len(rest) => rest[LineEnd] = Newline
  BY <1>1, <1>5
<1> QED
  BY <1>5, <1>6, <1>7

\* A line has no newline, and what is behind it is text.
LEMMA GetlineType ==
  ASSUME rest \in Text
  PROVE  Getline \in Seq(InLine) /\ Behind \in Text
<1>1. /\ LineEnd \in 1..(Len(rest) + 1) /\ Len(rest) \in Nat
      /\ \A j \in 1..(LineEnd - 1) : rest[j] # Newline
  BY LineEndIs DEF Text
<1>2. \A i \in 1..Len(rest) : rest[i] \in Chars
  BY DEF Text
<1>3. \A i \in 1..(LineEnd - 1) : rest[i] \in InLine
  BY <1>1, <1>2 DEF InLine
<1>4. \A i \in (LineEnd + 1)..Len(rest) : rest[i] \in Chars
  BY <1>1, <1>2
<1>5. /\ 1 \in Int /\ LineEnd - 1 \in Int /\ LineEnd + 1 \in Int
      /\ Len(rest) \in Int
  BY <1>1
<1>6. SubSeq(rest, 1, LineEnd - 1) \in Seq(InLine)
  BY ONLY <1>3, <1>5, SubSeqProperties
<1>7. SubSeq(rest, LineEnd + 1, Len(rest)) \in Seq(Chars)
  BY ONLY <1>4, <1>5, SubSeqProperties
<1> QED
  BY <1>6, <1>7 DEF Getline, Behind, Text

\* Of a line, a newline and more, std::getline takes the line and leaves more.
LEMMA GetlineIs ==
  ASSUME NEW l \in Seq(InLine), NEW more \in Text,
         rest = l \o (<<Newline>> \o more)
  PROVE  Getline = l /\ Behind = more
<1>1. l \in Text /\ Len(l) \in Nat /\ Len(more) \in Nat
  BY Special DEF Text
<1>2. /\ rest \in Text /\ Len(rest) = Len(l) + 1 + Len(more)
      /\ rest[Len(l) + 1] = Newline
      /\ \A i \in 1..Len(l) : rest[i] = l[i]
      /\ \A i \in 1..Len(more) : rest[Len(l) + 1 + i] = more[i]
  BY <1>1, Special DEF Text
<1>3. \A i \in 1..Len(l) : rest[i] # Newline
  BY <1>2, Special
<1>4. /\ LineEnd \in 1..(Len(rest) + 1)
      /\ LineEnd <= Len(rest) => rest[LineEnd] = Newline
      /\ \A j \in 1..(LineEnd - 1) : rest[j] # Newline
  BY <1>2, LineEndIs
<1>5. LineEnd = Len(l) + 1
  <2>1. ~(LineEnd <= Len(l))
    BY <1>1, <1>2, <1>3, <1>4
  <2>2. ~(Len(l) + 1 <= LineEnd - 1)
    <3> SUFFICES ASSUME Len(l) + 1 <= LineEnd - 1 PROVE FALSE
      OBVIOUS
    <3>1. Len(l) + 1 \in 1..(LineEnd - 1)
      BY <1>1, <1>4
    <3> QED
      BY <1>2, <1>4, <3>1
  <2> QED
    BY <1>1, <1>2, <1>4, <2>1, <2>2
<1>6. Getline = l
  <2>1. /\ SubSeq(rest, 1, Len(l)) \in Seq(Chars)
        /\ Len(SubSeq(rest, 1, Len(l))) = Len(l)
        /\ \A i \in 1..Len(l) : SubSeq(rest, 1, Len(l))[i] = l[i]
    BY <1>1, <1>2 DEF Text
  <2>2. SubSeq(rest, 1, Len(l)) = l
    BY ONLY <1>1, <2>1, SeqEqual DEF Text
  <2> QED
    BY <1>1, <1>5, <2>2 DEF Getline
<1>7. Behind = more
  <2> DEFINE u == SubSeq(rest, Len(l) + 2, Len(rest))
  <2>1. /\ u \in Seq(Chars) /\ Len(u) = Len(more)
        /\ \A i \in 1..Len(more) : u[i] = more[i]
    BY <1>1, <1>2 DEF Text
  <2> HIDE DEF u
  <2>2. more \in Seq(Chars)
    BY DEF Text
  <2>3. u = more
    BY ONLY <2>1, <2>2, SeqEqual
  <2>4. LineEnd + 1 = Len(l) + 2
    BY <1>1, <1>5
  <2> QED
    BY <2>3, <2>4 DEF Behind, u
<1> QED
  BY <1>6, <1>7

\* The digits a field begins with.
LEMMA LeadingType ==
  ASSUME NEW field \in Text
  PROVE  LeadingDigits(field) \in Seq(Digits)
<1> DEFINE s == Append(field, Comma)
           I == {i \in 1..Len(s) : s[i] \notin Digits}
<1>1. /\ Len(field) \in Nat /\ Len(s) = Len(field) + 1
      /\ s[Len(field) + 1] = Comma
      /\ \A i \in 1..Len(field) : s[i] = field[i]
  BY DEF Text
<1> HIDE DEF s
<1>2. I \in SUBSET Nat /\ Len(field) + 1 \in I
  BY <1>1, Special
<1>3. Min(I) \in I /\ \A j \in I : Min(I) <= j
  BY <1>2, MinIs
<1>4. Min(I) \in 1..(Len(field) + 1)
  BY <1>1, <1>3
<1>5. ASSUME NEW i \in 1..(Min(I) - 1) PROVE field[i] \in Digits
  <2>1. i \in 1..Len(s) /\ i \in 1..Len(field) /\ ~(Min(I) <= i)
    BY <1>1, <1>4
  <2>2. i \notin I
    BY <1>3, <2>1
  <2> QED
    BY <1>1, <2>1, <2>2
<1>6. 1 \in Int /\ Min(I) - 1 \in Int
  BY <1>4
<1>7. SubSeq(field, 1, Min(I) - 1) \in Seq(Digits)
  BY ONLY <1>5, <1>6, SubSeqProperties
<1>8. LeadingDigits(field) = SubSeq(field, 1, Min(I) - 1)
  BY <1>2 DEF LeadingDigits, SelectInSeq, s
<1> QED
  BY <1>7, <1>8

\* Digits are read to their end.
LEMMA LeadingAll ==
  ASSUME NEW digits \in Seq(Digits)
  PROVE  LeadingDigits(digits) = digits
<1> DEFINE s == Append(digits, Comma)
           I == {i \in 1..Len(s) : s[i] \notin Digits}
<1>1. /\ Len(digits) \in Nat /\ Len(s) = Len(digits) + 1
      /\ s[Len(digits) + 1] = Comma
      /\ \A i \in 1..Len(digits) : s[i] = digits[i] /\ digits[i] \in Digits
  OBVIOUS
<1> HIDE DEF s
<1>2. I = {Len(digits) + 1}
  BY <1>1, Special
<1>3. Min(I) = Len(digits) + 1
  <2>1. I \in SUBSET Nat /\ I # {}
    BY <1>1, <1>2
  <2>2. Min(I) \in I
    BY <2>1, MinIs
  <2> QED
    BY <1>2, <2>2
<1>4. LeadingDigits(digits) = SubSeq(digits, 1, Min(I) - 1)
  BY <1>2 DEF LeadingDigits, SelectInSeq, s
<1>5. Min(I) - 1 = Len(digits)
  BY <1>1, <1>3
<1> QED
  BY <1>4, <1>5, SubSeqFull

\* A numeral is text, and a sign in front of digits makes one.
LEMMA NumeralText == Numerals \subseteq Seq(InLine) /\ <<>> \notin Numerals
<1>1. Digits \union {Minus} \subseteq InLine
  BY Special
<1>2. Numerals \subseteq Seq(Digits \union {Minus})
  BY DEF Numerals
<1>3. Seq(Digits \union {Minus}) \subseteq Seq(InLine)
  BY <1>1
<1>4. <<>> \notin Numerals
  BY DEF Numerals, Unsigned, Negative
<1> QED
  BY <1>2, <1>3, <1>4

LEMMA Signed ==
  ASSUME NEW digits \in Seq(Digits), digits # <<>>
  PROVE  <<Minus>> \o digits \in Numerals /\ digits \in Numerals
<1> DEFINE S == Digits \union {Minus}
           n == <<Minus>> \o digits
<1>1. digits \in Seq(S) /\ <<Minus>> \in Seq(S)
  OBVIOUS
<1>2. n \in Seq(S) /\ n # <<>> /\ Head(n) = Minus
  BY <1>1
<1>3. Tail(n) = digits
  OBVIOUS
<1>4. digits[1] \in Digits /\ Head(digits) # Minus
  BY Special
<1> HIDE DEF n
<1>5. n \in Numerals
  BY <1>2, <1>3 DEF Numerals, Unsigned, Negative
<1>6. digits \in Numerals
  BY <1>1, <1>4 DEF Numerals, Unsigned, Negative
<1> QED
  BY <1>5, <1>6 DEF n

\* What std::stoi reads is a number, or nothing.
LEMMA StoiType ==
  ASSUME NEW field \in Text
  PROVE  Stoi(field) \in Numerals \union {<<>>}
<1> DEFINE digits == LeadingDigits(Unsigned(field))
<1>1. Unsigned(field) \in Text
  BY DEF Unsigned, Negative, Text
<1>2. digits \in Seq(Digits)
  BY <1>1, LeadingType
<1>3. Stoi(field) = IF Negative(field) /\ digits # <<>>
                      THEN <<Minus>> \o digits ELSE digits
  BY DEF Stoi
<1> HIDE DEF digits
<1> QED
  BY <1>2, <1>3, Signed

\* std::stoi reads back what operator<< has written.
LEMMA StoiNumeral ==
  ASSUME NEW n \in Numerals
  PROVE  Stoi(n) = n
<1>1. /\ n \in Seq(Digits \union {Minus}) /\ Unsigned(n) \in Seq(Digits)
      /\ Unsigned(n) # <<>>
  BY DEF Numerals
<1>2. LeadingDigits(Unsigned(n)) = Unsigned(n)
  BY <1>1, LeadingAll
<1>3. Stoi(n) = IF Negative(n) THEN <<Minus>> \o Unsigned(n) ELSE Unsigned(n)
  BY <1>1, <1>2 DEF Stoi
<1>4. Negative(n) => <<Minus>> \o Tail(n) = n
  BY <1>1 DEF Negative
<1> QED
  BY <1>3, <1>4 DEF Unsigned

-----------------------------------------------------------------------------
(* What escapeCsvField writes.                                              *)

Double(S) == [c \in S |-> IF c = Quote THEN <<Quote, Quote>> ELSE <<c>>]

Doubled(field) == Mapped(Double(InLine), field)

\* A field without a special character is written as it is, any other between
\* quotes with its own quotes doubled.
LEMMA EscapeIs ==
  ASSUME NEW S, Quote \in S, NEW field \in Seq(S)
  PROVE  /\ Maps(Double(S), S, S)
         /\ EscapeCsvField(field) =
              IF NeedsQuoting(field)
                THEN (<<Quote>> ++ Mapped(Double(S), field)) ++ <<Quote>>
                ELSE field
<1>1. Maps(Double(S), S, S)
  BY DEF Double, Maps
<1>2. Parts(Double(S), field)
        = [i \in DOMAIN field |->
             IF field[i] = Quote THEN <<Quote, Quote>> ELSE <<field[i]>>]
  <2>1. \A i \in DOMAIN field : field[i] \in S
    OBVIOUS
  <2> QED
    BY <2>1 DEF Parts, Double
<1>3. Mapped(Double(S), field)
        = FlattenSeq([i \in DOMAIN field |->
             IF field[i] = Quote THEN <<Quote, Quote>> ELSE <<field[i]>>])
  BY <1>2 DEF Mapped
<1> QED
  BY <1>1, <1>3 DEF EscapeCsvField, ++

LEMMA EscapeType ==
  ASSUME NEW S, Quote \in S, NEW field \in Seq(S)
  PROVE  EscapeCsvField(field) \in Seq(S)
<1>1. Mapped(Double(S), field) \in Seq(S)
  BY EscapeIs, MappedType
<1>2. <<Quote>> \in Seq(S)
  OBVIOUS
<1>3. (<<Quote>> ++ Mapped(Double(S), field)) ++ <<Quote>> \in Seq(S)
  BY <1>1, <1>2, CatType
<1> QED
  BY <1>3, EscapeIs

LEMMA DoubledType ==
  ASSUME NEW field \in Seq(InLine)
  PROVE  Doubled(field) \in Seq(InLine)
  BY Special, EscapeIs, MappedType DEF Doubled

LEMMA DoubledNone == Doubled(<<>>) = <<>>
  BY MappedNone DEF Doubled

LEMMA DoubledQuoteFirst ==
  ASSUME NEW t \in Seq(InLine)
  PROVE  Doubled(<<Quote>> ++ t) = <<Quote, Quote>> ++ Doubled(t)
<1>1. Maps(Double(InLine), InLine, InLine) /\ Quote \in InLine
  BY Special, EscapeIs
<1>2. Double(InLine)[Quote] = <<Quote, Quote>>
  BY <1>1 DEF Double
<1>3. Mapped(Double(InLine), <<Quote>> ++ t)
        = Double(InLine)[Quote] ++ Mapped(Double(InLine), t)
  BY <1>1, MappedFirst
<1> QED
  BY <1>2, <1>3 DEF Doubled

LEMMA DoubledPlainFirst ==
  ASSUME NEW c \in InLine, c # Quote, NEW t \in Seq(InLine)
  PROVE  Doubled(<<c>> ++ t) = <<c>> ++ Doubled(t)
<1>1. Maps(Double(InLine), InLine, InLine)
  BY Special, EscapeIs
<1>2. Double(InLine)[c] = <<c>>
  BY DEF Double
<1>3. Mapped(Double(InLine), <<c>> ++ t)
        = Double(InLine)[c] ++ Mapped(Double(InLine), t)
  BY <1>1, MappedFirst
<1> QED
  BY <1>2, <1>3 DEF Doubled

LEMMA QuotingNone ==
  /\ ~NeedsQuoting(<<>>)
  /\ \A n \in Numerals : ~NeedsQuoting(n)
<1>1. \A n \in Seq(Digits \union {Minus}) : ~NeedsQuoting(n)
  BY CsvAssumption DEF NeedsQuoting, Contains
<1>2. ~NeedsQuoting(<<>>)
  BY DEF NeedsQuoting, Contains
<1> QED
  BY <1>1, <1>2 DEF Numerals

\* What does not need quotes begins with a character without a meaning.
LEMMA QuotingFirst ==
  ASSUME NEW S, NEW c \in S, NEW t \in Seq(S), ~NeedsQuoting(<<c>> ++ t)
  PROVE  c # Comma /\ c # Quote /\ c # Newline /\ ~NeedsQuoting(t)
<1> DEFINE s == <<c>> ++ t
<1>1. /\ s \in Seq(S) /\ Len(s) = Len(t) + 1 /\ s[1] = c
      /\ \A i \in 1..Len(t) : s[i + 1] = t[i]
      /\ Len(t) \in Nat
  BY CatElements
<1> HIDE DEF s
<1>2. \A special \in {Comma, Quote, Newline}, i \in 1..Len(s) : s[i] # special
  BY <1>1 DEF NeedsQuoting, Contains, s
<1>3. 1 \in 1..Len(s) /\ \A i \in 1..Len(t) : i + 1 \in 1..Len(s)
  BY <1>1
<1>4. c # Comma /\ c # Quote /\ c # Newline
  BY <1>1, <1>2, <1>3
<1>5. \A special \in {Comma, Quote, Newline}, i \in 1..Len(t) : t[i] # special
  <2> SUFFICES ASSUME NEW special \in {Comma, Quote, Newline},
                      NEW i \in 1..Len(t)
               PROVE  t[i] # special
    OBVIOUS
  <2>1. s[i + 1] # special
    BY <1>2, <1>3
  <2> QED
    BY <1>1, <2>1
<1> QED
  BY <1>4, <1>5 DEF NeedsQuoting, Contains, s

-----------------------------------------------------------------------------
(* The text of a row, from one of its fields on.                            *)

FieldsOf(book) == <<book.title, book.author, book.isbn, book.total>>

From4(f) == EscapeCsvField(f[4]) ++ <<>>
From3(f) == EscapeCsvField(f[3]) ++ (<<Comma>> ++ From4(f))
From2(f) == EscapeCsvField(f[2]) ++ (<<Comma>> ++ From3(f))
From1(f) == EscapeCsvField(f[1]) ++ (<<Comma>> ++ From2(f))

From(f, m) ==
  IF m = 1 THEN From1(f) ELSE IF m = 2 THEN From2(f)
    ELSE IF m = 3 THEN From3(f) ELSE From4(f)
After(f, m) == IF m = 4 THEN <<>> ELSE <<Comma>> ++ From(f, m + 1)

\* The text from a field on is that field's and what is behind it.
LEMMA FromIs ==
  ASSUME NEW f, NEW m \in 1..4
  PROVE  From(f, m) = EscapeCsvField(f[m]) ++ After(f, m)
<1>1. CASE m = 1
  BY <1>1 DEF From, After, From1
<1>2. CASE m = 2
  BY <1>2 DEF From, After, From2
<1>3. CASE m = 3
  BY <1>3 DEF From, After, From3
<1>4. CASE m = 4
  BY <1>4 DEF From, After, From4
<1> QED
  BY <1>1, <1>2, <1>3, <1>4

LEMMA FromType ==
  ASSUME NEW S, Comma \in S, Quote \in S, NEW f, \A i \in 1..4 : f[i] \in Seq(S),
         NEW m \in 1..4
  PROVE  From(f, m) \in Seq(S) /\ After(f, m) \in Seq(S)
<1>1. \A i \in 1..4 : EscapeCsvField(f[i]) \in Seq(S)
  BY EscapeType
<1>2. <<>> \in Seq(S) /\ <<Comma>> \in Seq(S)
  OBVIOUS
<1> DEFINE e1 == EscapeCsvField(f[1])
           e2 == EscapeCsvField(f[2])
           e3 == EscapeCsvField(f[3])
           e4 == EscapeCsvField(f[4])
<1>3. e1 \in Seq(S) /\ e2 \in Seq(S) /\ e3 \in Seq(S) /\ e4 \in Seq(S)
  BY <1>1
<1> HIDE DEF e1, e2, e3, e4
<1>4. e4 ++ <<>> \in Seq(S)
  BY <1>2, <1>3, CatType
<1>5. <<Comma>> ++ From4(f) \in Seq(S)
  BY <1>2, <1>4, CatType DEF From4, e4
<1>6. e3 ++ (<<Comma>> ++ From4(f)) \in Seq(S)
  BY <1>3, <1>5, CatType
<1>7. <<Comma>> ++ From3(f) \in Seq(S)
  BY <1>2, <1>6, CatType DEF From3, e3
<1>8. e2 ++ (<<Comma>> ++ From3(f)) \in Seq(S)
  BY <1>3, <1>7, CatType
<1>9. <<Comma>> ++ From2(f) \in Seq(S)
  BY <1>2, <1>8, CatType DEF From2, e2
<1>10. e1 ++ (<<Comma>> ++ From2(f)) \in Seq(S)
  BY <1>3, <1>9, CatType
<1>11. /\ From1(f) \in Seq(S) /\ From2(f) \in Seq(S) /\ From3(f) \in Seq(S)
       /\ From4(f) \in Seq(S)
  BY <1>4, <1>6, <1>8, <1>10 DEF From1, From2, From3, From4, e1, e2, e3, e4
<1>12. From(f, m) \in Seq(S)
  BY <1>11 DEF From
<1>13. After(f, m) \in Seq(S)
  BY <1>2, <1>5, <1>7, <1>9 DEF After, From
<1> QED
  BY <1>12, <1>13

\* A row is the text from its first field on, and a newline.
LEMMA RowIs ==
  ASSUME NEW S, Comma \in S, Quote \in S, NEW book \in Book,
         book.title \in Seq(S), book.author \in Seq(S), book.isbn \in Seq(S),
         book.total \in Seq(S), Newline \in Chars, S \subseteq Chars
  PROVE  Row(book) = From(FieldsOf(book), 1) ++ <<Newline>>
<1> DEFINE a == EscapeCsvField(book.title)
           b == EscapeCsvField(book.author)
           c == EscapeCsvField(book.isbn)
<1>1. EscapeCsvField(book.total) = book.total
  BY QuotingNone DEF EscapeCsvField, Book
<1>2. /\ a \in Seq(Chars) /\ b \in Seq(Chars) /\ c \in Seq(Chars)
      /\ book.total \in Seq(Chars)
      /\ <<Comma>> \in Seq(Chars) /\ <<Newline>> \in Seq(Chars)
  <2>1. /\ a \in Seq(S) /\ b \in Seq(S) /\ c \in Seq(S)
    BY EscapeType
  <2> HIDE DEF a, b, c
  <2> QED
    BY <2>1
<1>3. Row(book) =
        ((((((a ++ <<Comma>>) ++ b) ++ <<Comma>>) ++ c) ++ <<Comma>>)
           ++ book.total) ++ <<Newline>>
  BY DEF Row, ++
<1>4. From(FieldsOf(book), 1) =
        a ++ (<<Comma>> ++ (b ++ (<<Comma>> ++ (c ++ (<<Comma>>
          ++ (book.total ++ <<>>))))))
  BY <1>1 DEF From, From1, From2, From3, From4, FieldsOf
<1>5. book.total ++ <<>> = book.total
  BY <1>2, CatEmpty
<1> HIDE DEF a, b, c
<1>6. PICK x, y, z, k, l, n \in Seq(Chars) :
        /\ x = a /\ y = b /\ z = c
        /\ k = <<Comma>> /\ l = <<Newline>> /\ n = book.total
  BY <1>2
<1>7. PICK r1, r2, r3, r4 \in Seq(Chars) :
        r1 = k ++ n /\ r2 = z ++ r1 /\ r3 = k ++ r2 /\ r4 = y ++ r3
  BY CatType
<1>8. PICK l1, l2, l3, l4 \in Seq(Chars) :
        l1 = x ++ k /\ l2 = l1 ++ y /\ l3 = l2 ++ k /\ l4 = l3 ++ z
  BY CatType
<1>9. /\ (l4 ++ k) ++ n = l4 ++ (k ++ n)
      /\ (l3 ++ z) ++ r1 = l3 ++ (z ++ r1)
      /\ (l2 ++ k) ++ r2 = l2 ++ (k ++ r2)
      /\ (l1 ++ y) ++ r3 = l1 ++ (y ++ r3)
      /\ (x ++ k) ++ r4 = x ++ (k ++ r4)
  BY CatAssociative
<1> QED
  BY <1>3, <1>4, <1>5, <1>6, <1>7, <1>8, <1>9

\* The books whose fields have no newline.
PlainBook == {b \in Book : OneLine(b)}

LEMMA PlainText ==
  ASSUME NEW field \in Text, ~Contains(field, Newline)
  PROVE  field \in Seq(InLine)
<1>1. Len(field) \in Nat /\ \A i \in 1..Len(field) : field[i] \in InLine
  BY DEF Text, Contains, InLine
<1>2. field \in [1..Len(field) -> InLine]
  BY <1>1 DEF Text
<1> QED
  BY ONLY <1>1, <1>2, FunctionIsSeq

LEMMA FieldsType ==
  ASSUME NEW book \in PlainBook
  PROVE  /\ FieldsOf(book) \in Seq(Seq(InLine)) /\ Len(FieldsOf(book)) = 4
         /\ FieldsOf(book)[1] = book.title /\ FieldsOf(book)[2] = book.author
         /\ FieldsOf(book)[3] = book.isbn /\ FieldsOf(book)[4] = book.total
<1>1. /\ book \in Book
      /\ book.title \in Text /\ book.author \in Text /\ book.isbn \in Text
      /\ book.total \in Numerals
  BY DEF PlainBook, Book
<1>2. /\ ~Contains(book.title, Newline) /\ ~Contains(book.author, Newline)
      /\ ~Contains(book.isbn, Newline)
  BY DEF PlainBook, OneLine
<1>3. /\ book.title \in Seq(InLine) /\ book.author \in Seq(InLine)
      /\ book.isbn \in Seq(InLine)
  BY <1>1, <1>2, PlainText
<1>4. book.total \in Seq(InLine)
  BY <1>1, NumeralText
<1> QED
  BY <1>3, <1>4 DEF FieldsOf

\* The line of a book, without its newline.
LineOf(book) == From(FieldsOf(book), 1)

LEMMA RowType ==
  ASSUME NEW book \in Book
  PROVE  Row(book) \in Text
<1>1. /\ book.title \in Seq(Chars) /\ book.author \in Seq(Chars)
      /\ book.isbn \in Seq(Chars) /\ book.total \in Seq(Chars)
  <2>1. book.total \in Seq(InLine) /\ Seq(InLine) \subseteq Seq(Chars)
    BY NumeralText, Special DEF Book
  <2> QED
    BY <2>1 DEF Book, Text
<1>2. Comma \in Chars /\ Quote \in Chars /\ Newline \in Chars
  BY Special
<1>3. Row(book) = From(FieldsOf(book), 1) ++ <<Newline>>
  BY <1>1, <1>2, RowIs
<1>4. \A i \in 1..4 : FieldsOf(book)[i] \in Seq(Chars)
  BY <1>1 DEF FieldsOf
<1>5. From(FieldsOf(book), 1) \in Seq(Chars)
  BY <1>2, <1>4, FromType
<1>6. <<Newline>> \in Seq(Chars)
  BY <1>2
<1> QED
  BY <1>3, <1>5, <1>6, CatType DEF Text

LEMMA LineOfIs ==
  ASSUME NEW book \in PlainBook
  PROVE  /\ LineOf(book) \in Seq(InLine)
         /\ Row(book) = LineOf(book) ++ <<Newline>>
<1>1. /\ book.title \in Seq(InLine) /\ book.author \in Seq(InLine)
      /\ book.isbn \in Seq(InLine) /\ book.total \in Seq(InLine)
      /\ \A i \in 1..4 : FieldsOf(book)[i] \in Seq(InLine)
  BY FieldsType
<1>2. /\ Comma \in InLine /\ Quote \in InLine /\ InLine \subseteq Chars
      /\ Newline \in Chars /\ book \in Book
  BY Special DEF PlainBook
<1>3. Row(book) = From(FieldsOf(book), 1) ++ <<Newline>>
  BY <1>1, <1>2, RowIs
<1>4. From(FieldsOf(book), 1) \in Seq(InLine)
  BY <1>1, <1>2, FromType
<1> QED
  BY <1>3, <1>4 DEF LineOf

-----------------------------------------------------------------------------
(* The text of a table, and the books of it an import keeps.                *)

RowOf == [b \in Book |-> Row(b)]
Body(books) == Mapped(RowOf, books)

LEMMA BodyIs ==
  ASSUME NEW books \in Seq(Book)
  PROVE  /\ Body(books) \in Text
         /\ ExportBooksToString(books) = <<Newline>> ++ Body(books)
<1>1. Maps(RowOf, Book, Chars)
  BY RowType DEF Maps, RowOf, Text
<1>2. Body(books) \in Text
  BY <1>1, MappedType DEF Body, Text
<1>3. \A i \in DOMAIN books : books[i] \in Book
  OBVIOUS
<1>4. Parts(RowOf, books) = [i \in DOMAIN books |-> Row(books[i])]
  BY <1>3 DEF Parts, RowOf
<1> QED
  BY <1>2, <1>4 DEF ExportBooksToString, Body, Mapped, ++

LEMMA BodyFirst ==
  ASSUME NEW book \in PlainBook, NEW books \in Seq(PlainBook)
  PROVE  Body(<<book>> ++ books) = LineOf(book) ++ (<<Newline>> ++ Body(books))
<1>1. Maps(RowOf, Book, Chars)
  BY RowType DEF Maps, RowOf, Text
<1>2. book \in Book /\ books \in Seq(Book)
  BY DEF PlainBook
<1>3. Mapped(RowOf, <<book>> ++ books) = RowOf[book] ++ Mapped(RowOf, books)
  BY <1>1, <1>2, MappedFirst
<1>4. RowOf[book] = LineOf(book) ++ <<Newline>>
  BY <1>2, LineOfIs DEF RowOf
<1>5. PICK l, n, more \in Seq(Chars) :
        l = LineOf(book) /\ n = <<Newline>> /\ more = Mapped(RowOf, books)
  <2>1. LineOf(book) \in Seq(Chars) /\ <<Newline>> \in Seq(Chars)
    BY LineOfIs, Special
  <2>2. Mapped(RowOf, books) \in Seq(Chars)
    BY <1>1, <1>2, MappedType
  <2> QED
    BY <2>1, <2>2
<1>6. (l ++ n) ++ more = l ++ (n ++ more)
  BY CatAssociative
<1> QED
  BY <1>3, <1>4, <1>5, <1>6 DEF Body

Kept(book) == IF HasIsbn(book) THEN <<book>> ELSE <<>>
Keep == [b \in Book |-> Kept(b)]

LEMMA WithIsbnIs ==
  ASSUME NEW books \in Seq(Book)
  PROVE  WithIsbn(books) \in Seq(Book) /\ WithIsbn(books) = Mapped(Keep, books)
<1>1. Maps(Keep, Book, Book)
  BY DEF Maps, Keep, Kept
<1>2. Mapped(Keep, books) \in Seq(Book)
  BY <1>1, MappedType
<1>3. \A i \in DOMAIN books : books[i] \in Book
  OBVIOUS
<1>4. Parts(Keep, books)
        = [i \in DOMAIN books |->
             IF HasIsbn(books[i]) THEN <<books[i]>> ELSE <<>>]
  BY <1>3 DEF Parts, Keep, Kept
<1> QED
  BY <1>2, <1>4 DEF WithIsbn, Mapped

LEMMA WithIsbnFirst ==
  ASSUME NEW book \in Book, NEW books \in Seq(Book)
  PROVE  WithIsbn(<<book>> ++ books) = Kept(book) ++ WithIsbn(books)
<1>1. Maps(Keep, Book, Book)
  BY DEF Maps, Keep, Kept
<1>2. Mapped(Keep, <<book>> ++ books) = Keep[book] ++ Mapped(Keep, books)
  BY <1>1, MappedFirst
<1>3. <<book>> ++ books \in Seq(Book)
  BY CatElements
<1> QED
  BY <1>2, <1>3, WithIsbnIs DEF Keep

LEMMA WithIsbnNone == WithIsbn(<<>>) = <<>>
<1>1. <<>> \in Seq(Book)
  OBVIOUS
<1> QED
  BY <1>1, WithIsbnIs, MappedNone

-----------------------------------------------------------------------------
(* The types.                                                               *)

LEMMA InitType == Init => TypeOK
<1> SUFFICES ASSUME Init PROVE TypeOK
  OBVIOUS
<1>1. shelf \in Seq(Book)
  BY CsvAssumption DEF Init
<1>2. rest \in Text
  <2>1. /\ Body(shelf) \in Seq(Chars) /\ rest = <<Newline>> ++ Body(shelf)
        /\ <<Newline>> \in Seq(Chars)
    BY <1>1, BodyIs, Special DEF Init, Text
  <2> QED
    BY <2>1, CatType DEF Text
<1>3. /\ line \in Seq(Chars \ {Newline}) /\ pos \in 1..(Len(line) + 1)
      /\ current \in Seq(Chars \ {Newline})
      /\ fields \in Seq(Seq(Chars \ {Newline}))
      /\ imported \in Seq({b \in Book : b.isbn # <<>>})
  BY DEF Init
<1> QED
  BY <1>1, <1>2, <1>3 DEF Init, TypeOK

\* What LineParsed stores is a book with an ISBN.
LEMMA CompleteIsBook ==
  ASSUME NEW row \in Seq(Seq(InLine)), Complete(row)
  PROVE  [title |-> row[1], author |-> row[2], isbn |-> row[3],
          total |-> Stoi(row[4])] \in {b \in Book : b.isbn # <<>>}
<1>1. /\ row[1] \in Seq(InLine) /\ row[2] \in Seq(InLine)
      /\ row[3] \in Seq(InLine) /\ row[4] \in Seq(InLine)
  <2>1. Len(row) = 4
    BY DEF Complete
  <2>2. \A i \in 1..Len(row) : row[i] \in Seq(InLine)
    OBVIOUS
  <2>3. 1 \in 1..4 /\ 2 \in 1..4 /\ 3 \in 1..4 /\ 4 \in 1..4
    OBVIOUS
  <2> QED
    BY <2>1, <2>2, <2>3, Zenon
<1>2. row[1] \in Text /\ row[2] \in Text /\ row[3] \in Text /\ row[4] \in Text
  BY <1>1, Special DEF Text
<1>3. Stoi(row[4]) \in Numerals \union {<<>>}
  BY <1>2, StoiType
<1>4. /\ row[1] \in Text \ {<<>>} /\ row[2] \in Text \ {<<>>}
      /\ row[3] \in Text /\ row[3] # <<>>
      /\ Stoi(row[4]) \in Numerals
  BY <1>2, <1>3 DEF Complete
<1> QED
  <2> DEFINE a == row[1]
             b == row[2]
             c == row[3]
             d == Stoi(row[4])
  <2> SUFFICES [title |-> a, author |-> b, isbn |-> c, total |-> d]
                 \in {e \in Book : e.isbn # <<>>}
    OBVIOUS
  <2> HIDE DEF a, b, c, d
  <2>1. /\ a \in Text \ {<<>>} /\ b \in Text \ {<<>>}
        /\ c \in Text /\ c # <<>> /\ d \in Numerals
    BY <1>4 DEF a, b, c, d
  <2> QED
    BY <2>1 DEF Book

\* A character read is one of the line.
LEMMA ReadCharType ==
  ASSUME TypeOK, ReadChar
  PROVE  TypeOK'
<1>1. /\ Len(line) \in Nat /\ pos \in 1..(Len(line) + 1)
      /\ current \in Seq(InLine) /\ fields \in Seq(Seq(InLine))
      /\ Quote \in InLine
      /\ \A i \in 1..Len(line) : line[i] \in InLine
  BY Special DEF TypeOK, InLine
<1>2. CASE DoubledQuote
  <2>1. /\ pos + 2 \in 1..(Len(line) + 1)
        /\ Append(current, Quote) \in Seq(InLine)
    BY <1>1, <1>2 DEF DoubledQuote, QuoteFollows
  <2> QED
    BY <1>2, <2>1 DEF TypeOK, DoubledQuote, Append1, Advance, InLine
<1>3. CASE ClosingQuote
  <2>1. pos + 1 \in 1..(Len(line) + 1)
    BY <1>1, <1>3 DEF ClosingQuote, Reading
  <2> QED
    BY <1>3, <2>1 DEF TypeOK, ClosingQuote, Advance
<1>4. CASE OpeningQuote
  <2>1. pos + 1 \in 1..(Len(line) + 1)
    BY <1>1, <1>4 DEF OpeningQuote, Reading
  <2> QED
    BY <1>4, <2>1 DEF TypeOK, OpeningQuote, Advance
<1>5. CASE FieldEnd
  <2>1. /\ pos + 1 \in 1..(Len(line) + 1)
        /\ Append(fields, current) \in Seq(Seq(InLine))
        /\ <<>> \in Seq(InLine)
    BY <1>1, <1>5 DEF FieldEnd, Reading
  <2> QED
    BY <1>5, <2>1 DEF TypeOK, FieldEnd, Advance, InLine
<1>6. CASE PlainCharacter
  <2>1. /\ pos + 1 \in 1..(Len(line) + 1)
        /\ Append(current, Here) \in Seq(InLine)
    BY <1>1, <1>6 DEF PlainCharacter, Reading, Here
  <2> QED
    BY <1>6, <2>1 DEF TypeOK, PlainCharacter, Append1, Advance, InLine
<1> QED
  BY <1>2, <1>3, <1>4, <1>5, <1>6 DEF ReadChar

LEMMA StepType == TypeOK /\ [Next]_vars => TypeOK'
<1> SUFFICES ASSUME TypeOK, [Next]_vars PROVE TypeOK'
  OBVIOUS
<1>1. Getline \in Seq(InLine) /\ Behind \in Text
  BY GetlineType DEF TypeOK
<1>2. CASE SkipHeader
  BY <1>1, <1>2 DEF TypeOK, SkipHeader
<1>3. CASE ReadLine
  <2>1. /\ <<>> \in Seq(InLine) /\ <<>> \in Seq(Seq(InLine))
        /\ 1 \in 1..(Len(Getline) + 1)
    BY <1>1
  <2> QED
    BY <1>1, <1>3, <2>1 DEF TypeOK, ReadLine, InLine
<1>4. CASE ReadChar
  BY <1>4, ReadCharType
<1>5. CASE LineParsed
  <2> DEFINE row == Append(fields, current)
  <2>1. row \in Seq(Seq(InLine)) /\ fields' = row
    BY <1>5 DEF TypeOK, LineParsed, InLine
  <2> HIDE DEF row
  <2>2. CASE Complete(row)
    <3>1. imported' \in Seq({b \in Book : b.isbn # <<>>})
      <4> DEFINE Complete1 == {b \in Book : b.isbn # <<>>}
                 new == [title |-> row[1], author |-> row[2], isbn |-> row[3],
                         total |-> Stoi(row[4])]
      <4>1. new \in Complete1
        BY <2>1, <2>2, CompleteIsBook
      <4>2. imported' = Append(imported, new)
        BY <1>5, <2>1, <2>2 DEF LineParsed
      <4>3. imported \in Seq(Complete1)
        BY DEF TypeOK
      <4> HIDE DEF Complete1, new
      <4>4. imported' \in Seq(Complete1)
        BY <4>1, <4>2, <4>3
      <4> QED
        BY <4>4 DEF Complete1
    <3>2. skipped' = skipped
      BY <1>5, <2>1, <2>2 DEF LineParsed
    <3> QED
      BY <1>5, <2>1, <3>1, <3>2 DEF TypeOK, LineParsed, InLine
  <2>3. CASE ~Complete(row)
    <3>1. imported' = imported /\ skipped' = skipped + 1
      BY <1>5, <2>1, <2>3 DEF LineParsed
    <3> QED
      BY <1>5, <2>1, <3>1 DEF TypeOK, LineParsed, InLine
  <2> QED
    BY <2>2, <2>3
<1>6. CASE EndOfStream
  BY <1>6 DEF TypeOK, EndOfStream
<1>7. CASE UNCHANGED vars
  BY <1>7 DEF TypeOK, vars
<1> QED
  BY <1>2, <1>3, <1>4, <1>5, <1>6, <1>7 DEF Next, Done

\* Whatever the table exported, a line read back and its fields contain no
\* newline, the index stays within the line or just behind it, and what an
\* import stores is a book with a title, an author, an ISBN and a number
\* (CsvService.cpp:30-64 and :96-139).
THEOREM TypeCorrect == Spec => []TypeOK
  BY InitType, StepType, PTL DEF Spec

-----------------------------------------------------------------------------
(* Reading a row back.                                                      *)

\* The rest of a sequence from an index on, when its first element is known.
LEMMA SubFirst ==
  ASSUME NEW S, NEW s \in Seq(S), NEW p \in 1..(Len(s) + 1), NEW c \in S,
         NEW x \in Seq(S), SubSeq(s, p, Len(s)) = <<c>> ++ x
  PROVE  /\ p <= Len(s) /\ s[p] = c /\ p + 1 \in 1..(Len(s) + 1)
         /\ SubSeq(s, p + 1, Len(s)) = x
<1>1. Len(s) \in Nat /\ \A i \in 1..Len(s) : s[i] \in S
  OBVIOUS
<1>2. p <= Len(s)
  <2>1. ~(p <= Len(s)) => SubSeq(s, p, Len(s)) = <<>>
    BY <1>1
  <2>2. <<c>> ++ x # <<>>
    BY CatNotEmpty
  <2> QED
    BY <2>1, <2>2
<1>3. p \in 1..Len(s) /\ Len(s) \in 1..Len(s) /\ p + 1 \in 1..(Len(s) + 1)
  BY <1>1, <1>2
<1>4. SubSeq(s, p, Len(s)) = <<s[p]>> ++ SubSeq(s, p + 1, Len(s))
  BY <1>2, <1>3, SubSeqRecursiveFirst DEF ++
<1>5. s[p] \in S
  BY <1>1, <1>3
<1>6. SubSeq(s, p + 1, Len(s)) \in Seq(S)
  <2>1. /\ p + 1 \in Int /\ Len(s) \in Int
        /\ \A i \in (p + 1)..Len(s) : s[i] \in S
    BY <1>1
  <2> QED
    BY ONLY <2>1, SubSeqProperties
<1> DEFINE d == s[p]
           y == SubSeq(s, p + 1, Len(s))
<1>7. d \in S /\ y \in Seq(S) /\ <<c>> ++ x = <<d>> ++ y
  BY <1>4, <1>5, <1>6
<1> HIDE DEF d, y
<1>8. c = d /\ x = y
  BY <1>7, CatFirst
<1> QED
  BY <1>2, <1>3, <1>8 DEF d, y

LEMMA SubNone ==
  ASSUME NEW S, NEW s \in Seq(S), NEW p \in 1..(Len(s) + 1),
         SubSeq(s, p, Len(s)) = <<>>
  PROVE  p > Len(s)
<1>1. Len(s) \in Nat /\ \A i \in 1..Len(s) : s[i] \in S
  OBVIOUS
<1> SUFFICES ASSUME p <= Len(s) PROVE FALSE
  BY <1>1
<1>2. p \in 1..Len(s) /\ Len(s) \in 1..Len(s)
  BY <1>1
<1>3. SubSeq(s, p, Len(s)) = <<s[p]>> ++ SubSeq(s, p + 1, Len(s))
  BY ONLY s \in Seq(S), <1>2, SubSeqRecursiveFirst DEF ++
<1>4. s[p] \in S
  BY <1>1, <1>2
<1>5. SubSeq(s, p + 1, Len(s)) \in Seq(S)
  <2>1. /\ p + 1 \in Int /\ Len(s) \in Int
        /\ \A i \in (p + 1)..Len(s) : s[i] \in S
    BY <1>1
  <2> QED
    BY ONLY <2>1, SubSeqProperties
<1> DEFINE d == s[p]
           y == SubSeq(s, p + 1, Len(s))
<1> HIDE DEF d, y
<1>6. d \in S /\ y \in Seq(S) /\ <<d>> ++ y = <<>>
  BY <1>3, <1>4, <1>5 DEF d, y
<1> QED
  BY <1>6, CatNotEmpty

LEMMA AppendCat ==
  ASSUME NEW S, NEW s \in Seq(S), NEW c \in S, NEW t \in Seq(S)
  PROVE  Append(s, c) ++ t = s ++ (<<c>> ++ t)
<1>1. Append(s, c) = s ++ <<c>> /\ <<c>> \in Seq(S)
  BY AppendIsConcat DEF ++
<1>2. PICK r \in Seq(S) : r = <<c>>
  BY <1>1, Zenon
<1>3. (s ++ r) ++ t = s ++ (r ++ t)
  BY CatAssociative
<1> QED
  BY <1>1, <1>2, <1>3

\* What is left to read of a quoted field, by its first character.
LEMMA DoubledThen ==
  ASSUME NEW t \in Seq(InLine), NEW x \in Seq(InLine)
  PROVE  /\ Doubled(<<Quote>> ++ t) ++ x
              = <<Quote>> ++ (<<Quote>> ++ (Doubled(t) ++ x))
         /\ \A c \in InLine \ {Quote} :
              Doubled(<<c>> ++ t) ++ x = <<c>> ++ (Doubled(t) ++ x)
<1>1. Quote \in InLine
  BY Special
<1>2. <<Quote, Quote>> = <<Quote>> ++ <<Quote>>
  BY DEF ++
<1>3. PICK q, d \in Seq(InLine) : q = <<Quote>> /\ d = Doubled(t)
  <2>1. <<Quote>> \in Seq(InLine)
    BY <1>1
  <2>2. Doubled(t) \in Seq(InLine)
    BY DoubledType
  <2> QED
    BY <2>1, <2>2, Zenon
<1>4. Doubled(<<Quote>> ++ t) ++ x = ((q ++ q) ++ d) ++ x
  BY <1>2, <1>3, DoubledQuoteFirst
<1>5. PICK y, z \in Seq(InLine) : y = q ++ d /\ z = d ++ x
  BY CatType
<1>6. (q ++ q) ++ d = q ++ y
  BY <1>5, CatAssociative
<1>7. (q ++ y) ++ x = q ++ (y ++ x) /\ (q ++ d) ++ x = q ++ (d ++ x)
  BY CatAssociative
<1>8. ASSUME NEW c \in InLine \ {Quote}
      PROVE  Doubled(<<c>> ++ t) ++ x = <<c>> ++ (Doubled(t) ++ x)
  <2>1. PICK r \in Seq(InLine) : r = <<c>>
    <3>1. <<c>> \in Seq(InLine)
      OBVIOUS
    <3> QED
      BY <3>1, Zenon
  <2>2. Doubled(<<c>> ++ t) = r ++ d
    BY <1>3, <2>1, DoubledPlainFirst
  <2>3. (r ++ d) ++ x = r ++ (d ++ x)
    BY CatAssociative
  <2> QED
    BY <1>3, <2>1, <2>2, <2>3
<1> QED
  BY <1>3, <1>4, <1>5, <1>6, <1>7, <1>8

\* The four fields of a row that fits on a line.
FourFields(f) == f \in Seq(Seq(InLine)) /\ Len(f) = 4

LEMMA FourFieldsType ==
  ASSUME NEW f, FourFields(f), NEW m \in 1..4
  PROVE  /\ f[m] \in Seq(InLine) /\ From(f, m) \in Seq(InLine)
         /\ After(f, m) \in Seq(InLine)
<1>1. \A i \in 1..4 : f[i] \in Seq(InLine)
  <2>1. f \in Seq(Seq(InLine)) /\ Len(f) = 4
    BY DEF FourFields
  <2> DEFINE T == Seq(InLine)
  <2>2. f \in Seq(T)
    BY <2>1
  <2> HIDE DEF T
  <2>3. \A i \in 1..Len(f) : f[i] \in T
    BY <2>2
  <2> QED
    BY <2>1, <2>3 DEF T
<1> QED
  BY <1>1, Special, FromType

\* The text from a quoted field on.
LEMMA FromQuoted ==
  ASSUME NEW f, FourFields(f), NEW m \in 1..4, NeedsQuoting(f[m])
  PROVE  From(f, m) = <<Quote>> ++ (Doubled(f[m]) ++ (<<Quote>> ++ After(f, m)))
<1>1. PICK q, d, a \in Seq(InLine) :
        q = <<Quote>> /\ d = Doubled(f[m]) /\ a = After(f, m)
  <2>1. <<Quote>> \in Seq(InLine)
    BY Special
  <2>2. f[m] \in Seq(InLine) /\ After(f, m) \in Seq(InLine)
    BY FourFieldsType
  <2>3. Doubled(f[m]) \in Seq(InLine)
    BY <2>2, DoubledType
  <2> QED
    BY <2>1, <2>2, <2>3, Zenon
<1>2. EscapeCsvField(f[m]) = (q ++ d) ++ q
  BY <1>1, Special, FourFieldsType, EscapeIs DEF Doubled
<1>3. PICK y, z, w \in Seq(InLine) : y = q ++ d /\ z = q ++ a /\ w = d ++ z
  <2>1. PICK z \in Seq(InLine) : z = q ++ a
    BY CatType
  <2>2. d ++ z \in Seq(InLine) /\ q ++ d \in Seq(InLine)
    BY CatType
  <2> QED
    BY <2>1, <2>2
<1>4. (y ++ q) ++ a = y ++ z /\ (q ++ d) ++ z = q ++ (d ++ z)
  BY <1>3, CatAssociative
<1>5. From(f, m) = ((q ++ d) ++ q) ++ a
  BY <1>1, <1>2, FromIs
<1> QED
  BY <1>1, <1>3, <1>4, <1>5

LEMMA FromUnquoted ==
  ASSUME NEW f, FourFields(f), NEW m \in 1..4, ~NeedsQuoting(f[m])
  PROVE  From(f, m) = f[m] ++ After(f, m)
  BY FromIs DEF EscapeCsvField

Unread == SubSeq(line, pos, Len(line))

\* m - 1 of the fields f of a row are read, and left is what is missing of the
\* next one.
AtField(f, m, left) ==
  /\ Len(fields) = m - 1 /\ \A i \in 1..(m - 1) : fields[i] = f[i]
  /\ current ++ left = f[m]

\* What is left of it stands there as it is, is about to be quoted, or is read
\* between the quotes.
Plain(f, m, left) ==
  ~insideQuotes /\ ~NeedsQuoting(left) /\ Unread = left ++ After(f, m)
Opening(f, m, left) ==
  /\ ~insideQuotes
  /\ Unread = <<Quote>> ++ (Doubled(left) ++ (<<Quote>> ++ After(f, m)))
Inside(f, m, left) ==
  insideQuotes /\ Unread = Doubled(left) ++ (<<Quote>> ++ After(f, m))

Reads(f) ==
  \E m \in 1..4, left \in Seq(InLine) :
    AtField(f, m, left)
      /\ (Plain(f, m, left) \/ Opening(f, m, left) \/ Inside(f, m, left))

LEMMA UnreadFirst ==
  ASSUME TypeOK, NEW c \in InLine, NEW x \in Seq(InLine), Unread = <<c>> ++ x
  PROVE  /\ pos <= Len(line) /\ Here = c
         /\ SubSeq(line, pos + 1, Len(line)) = x
<1>1. line \in Seq(InLine) /\ pos \in 1..(Len(line) + 1)
  BY DEF TypeOK, InLine
<1> QED
  BY <1>1, SubFirst DEF Unread, Here

LEMMA UnreadSecond ==
  ASSUME TypeOK, NEW c \in InLine, NEW d \in InLine, NEW y \in Seq(InLine),
         Unread = <<c>> ++ (<<d>> ++ y)
  PROVE  /\ pos < Len(line) /\ Here = c /\ line[pos + 1] = d
         /\ SubSeq(line, pos + 2, Len(line)) = y
<1>1. line \in Seq(InLine) /\ pos \in 1..(Len(line) + 1) /\ Len(line) \in Nat
  BY DEF TypeOK, InLine
<1>2. PICK x \in Seq(InLine) : x = <<d>> ++ y
  BY CatElements
<1>3. /\ pos <= Len(line) /\ Here = c /\ pos + 1 \in 1..(Len(line) + 1)
      /\ SubSeq(line, pos + 1, Len(line)) = x
  BY <1>1, <1>2, SubFirst DEF Unread, Here
<1>4. PICK p \in 1..(Len(line) + 1) : p = pos + 1
  BY <1>3
<1>5. SubSeq(line, p, Len(line)) = <<d>> ++ y
  BY <1>2, <1>3, <1>4
<1>6. p <= Len(line) /\ line[p] = d /\ SubSeq(line, p + 1, Len(line)) = y
  BY <1>1, <1>5, SubFirst
<1>7. p + 1 = pos + 2
  BY <1>1, <1>4
<1> QED
  BY <1>1, <1>3, <1>4, <1>6, <1>7

LEMMA UnreadNone ==
  ASSUME TypeOK, Unread = <<>>
  PROVE  pos > Len(line)
<1>1. line \in Seq(InLine) /\ pos \in 1..(Len(line) + 1)
  BY DEF TypeOK, InLine
<1> QED
  BY <1>1, SubNone DEF Unread

\* One more character of a field is read.
LEMMA AppendField ==
  ASSUME TypeOK, NEW f, NEW m \in 1..4, NEW c \in InLine, NEW t \in Seq(InLine),
         AtField(f, m, <<c>> ++ t), Append1(c), UNCHANGED fields
  PROVE  AtField(f, m, t)'
<1>1. current \in Seq(InLine)
  BY DEF TypeOK, InLine
<1>2. Append(current, c) ++ t = current ++ (<<c>> ++ t)
  BY <1>1, AppendCat
<1> QED
  BY <1>2 DEF AtField, Append1

\* Only PlainCharacter takes a character without a meaning.
LEMMA PlainStep ==
  ASSUME TypeOK, ReadChar, NEW f, FourFields(f), NEW m \in 1..4,
         NEW c \in InLine, NEW t \in Seq(InLine), AtField(f, m, <<c>> ++ t),
         Plain(f, m, <<c>> ++ t)
  PROVE  AtField(f, m, t)' /\ Plain(f, m, t)'
<1>1. c # Comma /\ c # Quote /\ ~NeedsQuoting(t)
  BY QuotingFirst DEF Plain
<1>2. PICK r, a \in Seq(InLine) : r = <<c>> /\ a = After(f, m)
  <2>1. <<c>> \in Seq(InLine)
    OBVIOUS
  <2>2. After(f, m) \in Seq(InLine)
    BY FourFieldsType
  <2> QED
    BY <2>1, <2>2, Zenon
<1>3. PICK x \in Seq(InLine) : x = t ++ a
  BY CatType
<1>4. (r ++ t) ++ a = r ++ (t ++ a)
  BY CatAssociative
<1>5. Unread = <<c>> ++ x
  BY <1>2, <1>3, <1>4 DEF Plain
<1>6. Here = c /\ SubSeq(line, pos + 1, Len(line)) = x
  BY <1>5, UnreadFirst
<1>7. PlainCharacter
  BY <1>1, <1>6 DEF ReadChar, DoubledQuote, ClosingQuote, OpeningQuote,
                    FieldEnd, Plain
<1>8. AtField(f, m, t)'
  BY <1>6, <1>7, AppendField DEF PlainCharacter
<1>9. Plain(f, m, t)'
  BY <1>1, <1>2, <1>3, <1>6, <1>7 DEF Plain, PlainCharacter, Advance, Unread
<1> QED
  BY <1>8, <1>9

\* Behind a field that is not the last, only FieldEnd takes the comma.
LEMMA EndStep ==
  ASSUME TypeOK, ReadChar, NEW f, FourFields(f), NEW m \in 1..4,
         AtField(f, m, <<>>), Plain(f, m, <<>>)
  PROVE  Reads(f)'
<1>1. After(f, m) \in Seq(InLine)
  BY FourFieldsType
<1>2. Unread = After(f, m)
  BY <1>1, CatEmpty DEF Plain
<1>3. m # 4
  <2> SUFFICES ASSUME m = 4 PROVE FALSE
    OBVIOUS
  <2>1. Unread = <<>>
    BY <1>2 DEF After
  <2>2. pos > Len(line) /\ Len(line) \in Nat /\ pos \in Nat
    BY <2>1, UnreadNone DEF TypeOK
  <2> QED
    BY <2>2 DEF ReadChar, DoubledQuote, ClosingQuote, OpeningQuote, FieldEnd,
                PlainCharacter, Reading
<1>4. PICK n \in 2..4 : n = m + 1
  BY <1>3
<1>5. n \in 1..4 /\ From(f, n) \in Seq(InLine) /\ f[n] \in Seq(InLine)
  BY <1>4, FourFieldsType
<1>6. Unread = <<Comma>> ++ From(f, n)
  BY <1>2, <1>3, <1>4 DEF After
<1>7. Here = Comma /\ SubSeq(line, pos + 1, Len(line)) = From(f, n)
  BY <1>5, <1>6, Special, UnreadFirst
<1>8. FieldEnd
  BY <1>7, Special DEF ReadChar, DoubledQuote, ClosingQuote, OpeningQuote,
                       PlainCharacter, Plain
<1>9. Unread' = From(f, n) /\ ~insideQuotes'
  BY <1>7, <1>8 DEF FieldEnd, Advance, Unread, Plain
<1>10. AtField(f, n, f[n])'
  <2>1. current \in Seq(InLine) /\ fields \in Seq(Seq(InLine))
    BY DEF TypeOK, InLine
  <2>2. current = f[m]
    BY <2>1, CatEmpty DEF AtField
  <2>3. Len(fields') = n - 1
    BY <1>4, <1>8, <2>1 DEF AtField, FieldEnd
  <2>4. ASSUME NEW i \in 1..(n - 1) PROVE fields'[i] = f[i]
    <3>1. Len(fields) = m - 1 /\ i \in 1..m
      BY <1>4 DEF AtField
    <3>2. fields' = Append(fields, current)
      BY <1>8 DEF FieldEnd
    <3>3. CASE i = m
      BY <2>1, <2>2, <3>1, <3>2, <3>3
    <3>4. CASE i # m
      <4>1. i \in 1..(m - 1)
        BY <3>1, <3>4
      <4> QED
        BY <2>1, <3>1, <3>2, <4>1 DEF AtField
    <3> QED
      BY <3>3, <3>4
  <2>5. current' ++ f[n] = f[n]
    BY <1>5, <1>8, CatEmpty DEF FieldEnd
  <2> QED
    BY <2>3, <2>4, <2>5 DEF AtField
<1>11. CASE NeedsQuoting(f[n])
  <2>1. Opening(f, n, f[n])'
    BY <1>5, <1>9, <1>11, FromQuoted DEF Opening
  <2> QED
    BY <1>5, <1>10, <2>1 DEF Reads
<1>12. CASE ~NeedsQuoting(f[n])
  <2>1. Plain(f, n, f[n])'
    BY <1>5, <1>9, <1>12, FromUnquoted DEF Plain
  <2> QED
    BY <1>5, <1>10, <2>1 DEF Reads
<1> QED
  BY <1>11, <1>12

LEMMA OpeningStep ==
  ASSUME TypeOK, ReadChar, NEW f, FourFields(f), NEW m \in 1..4,
         NEW left \in Seq(InLine), AtField(f, m, left), Opening(f, m, left)
  PROVE  AtField(f, m, left)' /\ Inside(f, m, left)'
<1>1. PICK x \in Seq(InLine) : x = Doubled(left) ++ (<<Quote>> ++ After(f, m))
  <2>1. After(f, m) \in Seq(InLine) /\ Doubled(left) \in Seq(InLine)
    BY FourFieldsType, DoubledType
  <2>2. <<Quote>> ++ After(f, m) \in Seq(InLine)
    BY <2>1, Special, CatElements
  <2>3. Doubled(left) ++ (<<Quote>> ++ After(f, m)) \in Seq(InLine)
    BY <2>1, <2>2, CatType
  <2> QED
    BY <2>3, Zenon
<1>2. Here = Quote /\ SubSeq(line, pos + 1, Len(line)) = x
  BY <1>1, Special, UnreadFirst DEF Opening
<1>3. OpeningQuote
  BY <1>2, Special DEF ReadChar, DoubledQuote, ClosingQuote, FieldEnd,
                       PlainCharacter, Opening
<1>4. AtField(f, m, left)'
  BY <1>3 DEF AtField, OpeningQuote
<1>5. Inside(f, m, left)'
  BY <1>1, <1>2, <1>3 DEF Inside, OpeningQuote, Advance, Unread
<1> QED
  BY <1>4, <1>5

\* Between the quotes a pair of them is one quote, anything else is itself.
LEMMA InsideStep ==
  ASSUME TypeOK, ReadChar, NEW f, FourFields(f), NEW m \in 1..4,
         NEW c \in InLine, NEW t \in Seq(InLine), AtField(f, m, <<c>> ++ t),
         Inside(f, m, <<c>> ++ t)
  PROVE  AtField(f, m, t)' /\ Inside(f, m, t)'
<1>1. PICK z \in Seq(InLine) : z = <<Quote>> ++ After(f, m)
  <2>1. <<Quote>> ++ After(f, m) \in Seq(InLine)
    BY FourFieldsType, Special, CatElements
  <2> QED
    BY <2>1, Zenon
<1>2. PICK x \in Seq(InLine) : x = Doubled(t) ++ z
  <2>1. Doubled(t) ++ z \in Seq(InLine)
    BY DoubledType, CatType
  <2> QED
    BY <2>1, Zenon
<1>3. Unread = Doubled(<<c>> ++ t) ++ z /\ insideQuotes
  BY <1>1 DEF Inside
<1>4. CASE c = Quote
  <2>1. Unread = <<Quote>> ++ (<<Quote>> ++ x)
    BY <1>2, <1>3, <1>4, DoubledThen
  <2>2. /\ pos < Len(line) /\ Here = Quote /\ line[pos + 1] = Quote
        /\ SubSeq(line, pos + 2, Len(line)) = x
    BY <2>1, Special, UnreadSecond
  <2>3. DoubledQuote
    BY <1>3, <2>2 DEF ReadChar, ClosingQuote, OpeningQuote, FieldEnd,
                      PlainCharacter, QuoteFollows
  <2>4. AtField(f, m, t)'
    BY <1>4, <2>3, AppendField DEF DoubledQuote
  <2>5. Inside(f, m, t)'
    BY <1>1, <1>2, <1>3, <2>2, <2>3
       DEF Inside, DoubledQuote, Advance, Unread
  <2> QED
    BY <2>4, <2>5
<1>5. CASE c # Quote
  <2>1. Unread = <<c>> ++ x
    <3>1. c \in InLine \ {Quote}
      BY <1>5
    <3> QED
      BY <1>2, <1>3, <3>1, DoubledThen
  <2>2. Here = c /\ SubSeq(line, pos + 1, Len(line)) = x
    BY <2>1, UnreadFirst
  <2>3. PlainCharacter
    BY <1>3, <1>5, <2>2 DEF ReadChar, DoubledQuote, ClosingQuote, OpeningQuote,
                            FieldEnd
  <2>4. AtField(f, m, t)'
    BY <2>2, <2>3, AppendField DEF PlainCharacter
  <2>5. Inside(f, m, t)'
    BY <1>1, <1>2, <1>3, <2>2, <2>3
       DEF Inside, PlainCharacter, Advance, Unread
  <2> QED
    BY <2>4, <2>5
<1> QED
  BY <1>4, <1>5

\* What follows the closing quote is a comma or the end of the line, so that it
\* is not taken for the first of a pair.
LEMMA ClosingStep ==
  ASSUME TypeOK, ReadChar, NEW f, FourFields(f), NEW m \in 1..4,
         AtField(f, m, <<>>), Inside(f, m, <<>>)
  PROVE  AtField(f, m, <<>>)' /\ Plain(f, m, <<>>)'
<1>1. PICK a \in Seq(InLine) : a = After(f, m)
  BY FourFieldsType, Zenon
<1>2. <<Quote>> ++ a \in Seq(InLine)
  BY Special, CatElements
<1>3. Unread = <<Quote>> ++ a /\ insideQuotes
  BY <1>1, <1>2, DoubledNone, CatEmpty DEF Inside
<1>4. Here = Quote /\ SubSeq(line, pos + 1, Len(line)) = a
  BY <1>3, Special, UnreadFirst
<1>5. ~QuoteFollows
  <2>1. CASE m = 4
    <3>1. a = <<>>
      BY <1>1, <2>1 DEF After
    <3>2. line \in Seq(InLine) /\ pos \in 1..(Len(line) + 1)
          /\ Len(line) \in Nat
      BY DEF TypeOK, InLine
    <3>3. pos <= Len(line)
      BY <1>3, Special, UnreadFirst
    <3>4. PICK p \in 1..(Len(line) + 1) : p = pos + 1
      BY <3>2, <3>3
    <3>5. SubSeq(line, p, Len(line)) = <<>>
      BY <1>4, <3>1, <3>4
    <3>6. p > Len(line)
      BY <3>2, <3>5, SubNone
    <3> QED
      BY <3>2, <3>4, <3>6 DEF QuoteFollows
  <2>2. CASE m # 4
    <3>1. PICK n \in 1..4 : n = m + 1
      BY <2>2
    <3>2. a = <<Comma>> ++ From(f, n) /\ From(f, n) \in Seq(InLine)
      BY <1>1, <2>2, <3>1, FourFieldsType DEF After
    <3>3. Unread = <<Quote>> ++ (<<Comma>> ++ From(f, n))
      BY <1>3, <3>2
    <3>4. line[pos + 1] = Comma
      BY <3>2, <3>3, Special, UnreadSecond
    <3> QED
      BY <3>4, Special DEF QuoteFollows
  <2> QED
    BY <2>1, <2>2
<1>6. ClosingQuote
  BY <1>3, <1>4, <1>5 DEF ReadChar, DoubledQuote, OpeningQuote, FieldEnd,
                          PlainCharacter
<1>7. AtField(f, m, <<>>)'
  BY <1>6 DEF AtField, ClosingQuote
<1>8. Plain(f, m, <<>>)'
  <2>1. Unread' = a /\ ~insideQuotes'
    BY <1>4, <1>6 DEF ClosingQuote, Advance, Unread
  <2>2. a = <<>> ++ a
    BY CatEmpty
  <2> QED
    BY <1>1, <2>1, <2>2, QuotingNone DEF Plain
<1> QED
  BY <1>7, <1>8

\* parseCsvLine reads the fields the row was written from.
LEMMA ReadStep ==
  ASSUME TypeOK, ReadChar, NEW f, FourFields(f), Reads(f)
  PROVE  Reads(f)'
<1>1. PICK m \in 1..4, left \in Seq(InLine) :
        AtField(f, m, left)
          /\ (Plain(f, m, left) \/ Opening(f, m, left) \/ Inside(f, m, left))
  BY DEF Reads
<1>2. CASE Opening(f, m, left)
  <2>1. AtField(f, m, left)' /\ Inside(f, m, left)'
    BY <1>1, <1>2, OpeningStep
  <2> QED
    BY <2>1 DEF Reads
<1>3. CASE left = <<>> /\ Plain(f, m, left)
  BY <1>1, <1>3, EndStep
<1>4. CASE left = <<>> /\ Inside(f, m, left)
  <2>1. AtField(f, m, left)' /\ Plain(f, m, left)'
    BY <1>1, <1>4, ClosingStep
  <2> QED
    BY <2>1 DEF Reads
<1>5. CASE left # <<>>
  <2>1. PICK c \in InLine, t \in Seq(InLine) : left = <<c>> ++ t
    BY <1>5, FirstAndRest
  <2>2. CASE Plain(f, m, left)
    <3>1. AtField(f, m, t)' /\ Plain(f, m, t)'
      BY <1>1, <2>1, <2>2, PlainStep
    <3> QED
      BY <3>1 DEF Reads
  <2>3. CASE Inside(f, m, left)
    <3>1. AtField(f, m, t)' /\ Inside(f, m, t)'
      BY <1>1, <2>1, <2>3, InsideStep
    <3> QED
      BY <3>1 DEF Reads
  <2> QED
    BY <1>1, <1>2, <2>2, <2>3
<1> QED
  BY <1>1, <1>2, <1>3, <1>4, <1>5

LEMMA CatLength ==
  ASSUME NEW S, NEW s \in Seq(S), NEW t \in Seq(S)
  PROVE  Len(s ++ t) = Len(s) + Len(t) /\ Len(s) \in Nat /\ Len(t) \in Nat
  BY ConcatProperties DEF ++

\* Where the line ends, its fields are those of the row.
LEMMA LineRead ==
  ASSUME TypeOK, pos > Len(line), NEW f, FourFields(f), Reads(f)
  PROVE  Append(fields, current) = f
<1>1. Unread = <<>>
  BY DEF TypeOK, Unread
<1>2. PICK m \in 1..4, left \in Seq(InLine) :
        AtField(f, m, left)
          /\ (Plain(f, m, left) \/ Opening(f, m, left) \/ Inside(f, m, left))
  BY DEF Reads
<1>3. PICK a, d, z \in Seq(InLine) :
        a = After(f, m) /\ d = Doubled(left) /\ z = <<Quote>> ++ a
  <2>1. PICK a \in Seq(InLine) : a = After(f, m)
    BY FourFieldsType, Zenon
  <2>2. <<Quote>> ++ a \in Seq(InLine) /\ Doubled(left) \in Seq(InLine)
    BY Special, CatElements, DoubledType
  <2> QED
    BY <2>1, <2>2, Zenon
<1>4. /\ Len(z) = Len(a) + 1 /\ Len(d ++ z) = Len(d) + Len(z)
      /\ Len(<<Quote>> ++ (d ++ z)) = Len(d ++ z) + 1
      /\ Len(left ++ a) = Len(left) + Len(a)
      /\ Len(a) \in Nat /\ Len(d) \in Nat /\ Len(left) \in Nat
  <2>1. /\ Len(d ++ z) = Len(d) + Len(z) /\ Len(left ++ a) = Len(left) + Len(a)
        /\ Len(a) \in Nat /\ Len(d) \in Nat /\ Len(left) \in Nat
    BY CatLength
  <2>2. PICK y \in Seq(InLine) : y = d ++ z
    BY CatType
  <2>3. Len(<<Quote>> ++ y) = Len(y) + 1 /\ Len(<<Quote>> ++ a) = Len(a) + 1
    BY Special, CatNotEmpty
  <2> QED
    BY <1>3, <2>1, <2>2, <2>3
<1>5. Len(<<>>) = 0
  OBVIOUS
<1>6. ~Opening(f, m, left) /\ ~Inside(f, m, left)
  BY <1>1, <1>3, <1>4, <1>5 DEF Opening, Inside
<1>7. Plain(f, m, left)
  BY <1>2, <1>6
<1>8. Len(left) = 0 /\ Len(a) = 0
  BY <1>1, <1>3, <1>4, <1>5, <1>7 DEF Plain
<1>9. left = <<>>
  BY <1>8, EmptySeq
<1>10. m = 4
  <2> SUFFICES ASSUME m # 4 PROVE FALSE
    OBVIOUS
  <2>1. PICK n \in 1..4 : n = m + 1
    OBVIOUS
  <2>2. a = <<Comma>> ++ From(f, n) /\ From(f, n) \in Seq(InLine)
    BY <1>3, <2>1, FourFieldsType DEF After
  <2> QED
    BY <1>8, <2>2, Special, CatNotEmpty, EmptySeq
<1>11. current \in Seq(InLine) /\ fields \in Seq(Seq(InLine))
  BY DEF TypeOK, InLine
<1>12. /\ current = f[4] /\ Len(fields) = 3
       /\ fields[1] = f[1] /\ fields[2] = f[2] /\ fields[3] = f[3]
  BY <1>2, <1>9, <1>10, <1>11, CatEmpty DEF AtField
<1> DEFINE T == Seq(InLine)
           g == Append(fields, current)
<1>13. current \in T /\ fields \in Seq(T) /\ f \in Seq(T) /\ Len(f) = 4
  BY <1>11 DEF FourFields
<1> HIDE DEF T
<1>14. /\ g \in Seq(T) /\ Len(g) = 4
       /\ g[1] = f[1] /\ g[2] = f[2] /\ g[3] = f[3] /\ g[4] = f[4]
  <2>1. /\ g \in Seq(T) /\ Len(g) = Len(fields) + 1
        /\ \A i \in 1..Len(fields) : g[i] = fields[i]
        /\ g[Len(fields) + 1] = current
    BY ONLY <1>13, AppendProperties
  <2> HIDE DEF g
  <2>2. Len(fields) + 1 = 4 /\ \A i \in 1..3 : g[i] = fields[i]
    BY <1>12, <2>1
  <2>3. g[1] = fields[1] /\ g[2] = fields[2] /\ g[3] = fields[3]
    BY <2>2
  <2>4. g[4] = current
    BY <2>1, <2>2
  <2> QED
    BY <1>12, <2>1, <2>2, <2>3, <2>4
<1>15. \A i \in 1..4 : g[i] = f[i]
  BY <1>14
<1> HIDE DEF g
<1>16. g = f
  BY ONLY <1>13, <1>14, <1>15, SeqEqual
<1> QED
  BY <1>16 DEF g

\* The line of a book is not empty, and begins with its title.
LEMMA LineOfFirst ==
  ASSUME NEW book \in PlainBook
  PROVE  /\ FourFields(FieldsOf(book)) /\ LineOf(book) # <<>>
         /\ LineOf(book) \in Seq(InLine)
<1> DEFINE f == FieldsOf(book)
<1>1. FourFields(f)
  BY FieldsType DEF FourFields
<1>2. LineOf(book) = EscapeCsvField(f[1]) ++ After(f, 1)
  BY FromIs DEF LineOf
<1>3. PICK x, a, b \in Seq(InLine) :
        x = EscapeCsvField(f[1]) /\ b = From(f, 2) /\ a = <<Comma>> ++ b
  <2>1. f[1] \in Seq(InLine) /\ From(f, 2) \in Seq(InLine)
    BY <1>1, FourFieldsType
  <2>2. EscapeCsvField(f[1]) \in Seq(InLine)
    BY <2>1, Special, EscapeType
  <2>3. <<Comma>> ++ From(f, 2) \in Seq(InLine)
    BY <2>1, Special, CatElements
  <2> QED
    BY <2>1, <2>2, <2>3, Zenon
<1>4. LineOf(book) = x ++ a
  BY <1>2, <1>3 DEF After
<1>5. /\ Len(x ++ a) = Len(x) + Len(a) /\ Len(x) \in Nat /\ Len(b) \in Nat
      /\ x ++ a \in Seq(InLine)
  BY CatLength, CatType
<1>6. Len(a) = Len(b) + 1
  BY <1>3, Special, CatNotEmpty
<1>7. Len(x ++ a) # 0 /\ Len(<<>>) = 0
  BY <1>5, <1>6
<1> QED
  BY <1>1, <1>4, <1>5, <1>7

-----------------------------------------------------------------------------
(* What the import has stored, at every step of it.                         *)

PlainShelf == \A i \in DOMAIN shelf : OneLine(shelf[i])

Accounted(later) ==
  /\ imported ++ WithIsbn(later) = WithIsbn(shelf)
  /\ skipped + Len(imported) + Len(later) = Len(shelf)

Progress ==
  /\ pc = "header" =>
       rest = <<Newline>> ++ Body(shelf) /\ imported = <<>> /\ skipped = 0
  /\ pc = "line" =>
       \E later \in Seq(PlainBook) : rest = Body(later) /\ Accounted(later)
  /\ pc = "char" =>
       \E book \in PlainBook, later \in Seq(PlainBook) :
         /\ rest = Body(later) /\ Accounted(<<book>> ++ later)
         /\ Reads(FieldsOf(book))
  /\ pc = "done" => Accounted(<<>>)

CsvInv == TypeOK /\ (PlainShelf => Progress)

LEMMA ImportedType ==
  ASSUME TypeOK
  PROVE  imported \in Seq(Book) /\ Len(imported) \in Nat
<1>1. imported \in Seq({b \in Book : b.isbn # <<>>})
  BY DEF TypeOK
<1> QED
  BY <1>1

LEMMA PlainShelfType ==
  ASSUME TypeOK, PlainShelf
  PROVE  shelf \in Seq(PlainBook)
<1>1. shelf \in Seq(Book) /\ Len(shelf) \in Nat /\ DOMAIN shelf = 1..Len(shelf)
  BY DEF TypeOK
<1>2. \A i \in 1..Len(shelf) : shelf[i] \in Book
  BY <1>1
<1>3. \A i \in 1..Len(shelf) : shelf[i] \in PlainBook
  BY <1>1, <1>2 DEF PlainShelf, PlainBook
<1>4. shelf \in [1..Len(shelf) -> PlainBook]
  BY <1>1, <1>3
<1> QED
  BY ONLY <1>1, <1>4, FunctionIsSeq

LEMMA PlainBooks ==
  ASSUME NEW books \in Seq(PlainBook)
  PROVE  books \in Seq(Book) /\ Body(books) \in Text
         /\ WithIsbn(books) \in Seq(Book) /\ Len(books) \in Nat
<1>1. books \in Seq(Book)
  BY DEF PlainBook
<1> QED
  BY <1>1, BodyIs, WithIsbnIs

LEMMA HeaderStep ==
  ASSUME TypeOK, PlainShelf, Progress, SkipHeader
  PROVE  Progress'
<1>1. shelf \in Seq(PlainBook)
  BY PlainShelfType
<1>2. PICK w, more \in Text : w = <<>> /\ more = Body(shelf)
  <2>1. <<>> \in Text
    BY DEF Text
  <2> QED
    BY <1>1, <2>1, PlainBooks, Zenon
<1>3. /\ rest = <<Newline>> ++ Body(shelf) /\ imported = <<>> /\ skipped = 0
      /\ pc' = "line" /\ rest' = Behind
      /\ UNCHANGED <<imported, skipped, shelf>>
  BY DEF Progress, SkipHeader
<1>4. Behind = Body(shelf)
  <2>1. <<Newline>> ++ more \in Text
    BY Special, CatElements DEF Text
  <2>2. <<>> ++ (<<Newline>> ++ more) = <<Newline>> ++ more
    BY <2>1, CatEmpty DEF Text
  <2>3. rest = <<>> \o (<<Newline>> \o more)
    BY <1>2, <1>3, <2>2 DEF ++
  <2>4. <<>> \in Seq(InLine)
    OBVIOUS
  <2> QED
    BY <1>2, <2>3, <2>4, GetlineIs
<1>5. Accounted(shelf)'
  <2>1. <<>> ++ WithIsbn(shelf) = WithIsbn(shelf)
    BY <1>1, PlainBooks, CatEmpty
  <2>2. Len(<<>>) = 0 /\ Len(shelf) \in Nat
    BY <1>1
  <2> QED
    BY <1>3, <2>1, <2>2 DEF Accounted
<1> QED
  BY <1>1, <1>3, <1>4, <1>5 DEF Progress

LEMMA LineStep ==
  ASSUME TypeOK, Progress, ReadLine
  PROVE  Progress'
<1>1. PICK all \in Seq(PlainBook) : rest = Body(all) /\ Accounted(all)
  BY DEF Progress, ReadLine
<1>2. all # <<>>
  BY <1>1, MappedNone DEF ReadLine, Body
<1>3. PICK book \in PlainBook, later \in Seq(PlainBook) : all = <<book>> ++ later
  BY <1>2, FirstAndRest
<1>4. LineOf(book) \in Seq(InLine) /\ LineOf(book) # <<>>
      /\ FourFields(FieldsOf(book))
  BY LineOfFirst
<1>5. Body(later) \in Text
  BY PlainBooks
<1>6. rest = LineOf(book) \o (<<Newline>> \o Body(later))
  BY <1>1, <1>3, BodyFirst DEF ++
<1>7. Getline = LineOf(book) /\ Behind = Body(later)
  BY <1>4, <1>5, <1>6, GetlineIs
<1>8. /\ pc' = "char" /\ rest' = Body(later) /\ line' = LineOf(book)
      /\ pos' = 1 /\ current' = <<>> /\ fields' = <<>> /\ insideQuotes' = FALSE
      /\ UNCHANGED <<shelf, imported, skipped>>
  BY <1>4, <1>7 DEF ReadLine
<1>9. Accounted(<<book>> ++ later)'
  BY <1>1, <1>3, <1>8 DEF Accounted
<1> DEFINE f == FieldsOf(book)
<1>10. Unread' = From(f, 1)
  BY <1>4, <1>8, SubSeqFull DEF Unread, LineOf
<1>11. f[1] \in Seq(InLine) /\ 1 \in 1..4
  BY <1>4, FourFieldsType
<1>12. AtField(f, 1, f[1])'
  BY <1>8, <1>11, CatEmpty DEF AtField
<1>13. Plain(f, 1, f[1])' \/ Opening(f, 1, f[1])'
  BY <1>4, <1>8, <1>10, <1>11, FromQuoted, FromUnquoted DEF Plain, Opening
<1>14. Reads(f)'
  BY <1>11, <1>12, <1>13 DEF Reads
<1> QED
  BY <1>8, <1>9, <1>14 DEF Progress

\* A book with an ISBN is stored as it was, one without is skipped.
LEMMA StoreStep ==
  ASSUME TypeOK, Progress, LineParsed
  PROVE  Progress'
<1>1. PICK book \in PlainBook, later \in Seq(PlainBook) :
        /\ rest = Body(later) /\ Accounted(<<book>> ++ later)
        /\ Reads(FieldsOf(book))
  BY DEF Progress, LineParsed
<1>2. /\ FourFields(FieldsOf(book)) /\ book \in Book /\ later \in Seq(Book)
      /\ WithIsbn(later) \in Seq(Book)
  BY LineOfFirst, PlainBooks DEF PlainBook
<1>3. fields' = FieldsOf(book)
  BY <1>1, <1>2, LineRead DEF LineParsed
<1>4. /\ FieldsOf(book)[1] = book.title /\ FieldsOf(book)[2] = book.author
      /\ FieldsOf(book)[3] = book.isbn /\ Len(FieldsOf(book)) = 4
      /\ Stoi(FieldsOf(book)[4]) = book.total
  <2>1. book.total \in Numerals
    BY <1>2 DEF Book
  <2> QED
    BY <2>1, FieldsType, StoiNumeral
<1>5. book.title # <<>> /\ book.author # <<>> /\ book.total # <<>>
  BY <1>2, NumeralText DEF Book
<1>6. Complete(fields') <=> HasIsbn(book)
  BY <1>3, <1>4, <1>5 DEF Complete, HasIsbn
<1>7. /\ imported \in Seq(Book) /\ Len(imported) \in Nat /\ skipped \in Nat
      /\ Len(later) \in Nat
  BY <1>2, ImportedType DEF TypeOK
<1>8. Len(<<book>> ++ later) = Len(later) + 1
  BY <1>2, CatNotEmpty
<1>9. WithIsbn(<<book>> ++ later) = Kept(book) ++ WithIsbn(later)
  BY <1>2, WithIsbnFirst
<1>10. Accounted(later)'
  <2>1. CASE HasIsbn(book)
    <3>1. book = [title |-> book.title, author |-> book.author,
                  isbn |-> book.isbn, total |-> book.total]
      BY <1>2 DEF Book
    <3>2. imported' = Append(imported, book) /\ UNCHANGED <<skipped, shelf>>
      BY <1>3, <1>4, <1>6, <2>1, <3>1 DEF LineParsed
    <3>3. Append(imported, book) ++ WithIsbn(later)
            = imported ++ (<<book>> ++ WithIsbn(later))
      BY <1>2, <1>7, AppendCat
    <3>4. imported' ++ WithIsbn(later) = WithIsbn(shelf)
      BY <1>1, <1>9, <2>1, <3>2, <3>3 DEF Accounted, Kept
    <3>5. Len(imported') = Len(imported) + 1
      BY <1>7, <3>2
    <3>6. skipped' + Len(imported') + Len(later) = Len(shelf)
      <4>1. skipped + Len(imported) + (Len(later) + 1) = Len(shelf)
        BY <1>1, <1>8 DEF Accounted
      <4>2. skipped + (Len(imported) + 1) + Len(later) = Len(shelf)
        BY <1>7, <4>1
      <4> QED
        BY <3>2, <3>5, <4>2
    <3> QED
      BY <3>2, <3>4, <3>6 DEF Accounted
  <2>2. CASE ~HasIsbn(book)
    <3>1. skipped' = skipped + 1 /\ UNCHANGED <<imported, shelf>>
      BY <1>6, <2>2 DEF LineParsed
    <3>2. <<>> ++ WithIsbn(later) = WithIsbn(later)
      BY <1>2, CatEmpty
    <3>3. imported ++ WithIsbn(later) = WithIsbn(shelf)
      BY <1>1, <1>9, <2>2, <3>2 DEF Accounted, Kept
    <3>4. skipped + 1 + Len(imported) + Len(later) = Len(shelf)
      BY <1>1, <1>7, <1>8 DEF Accounted
    <3> QED
      BY <3>1, <3>3, <3>4 DEF Accounted
  <2> QED
    BY <2>1, <2>2
<1>11. pc' = "line" /\ rest' = Body(later)
  BY <1>1 DEF LineParsed
<1> QED
  BY <1>10, <1>11 DEF Progress

LEMMA EndOfStreamStep ==
  ASSUME TypeOK, Progress, EndOfStream
  PROVE  Progress'
<1>1. PICK later \in Seq(PlainBook) : rest = Body(later) /\ Accounted(later)
  BY DEF Progress, EndOfStream
<1>2. later = <<>>
  <2> SUFFICES ASSUME later # <<>> PROVE FALSE
    OBVIOUS
  <2>1. PICK book \in PlainBook, more \in Seq(PlainBook) :
          later = <<book>> ++ more
    BY FirstAndRest
  <2>2. PICK l, b, n \in Seq(Chars) :
          l = LineOf(book) /\ b = Body(more) /\ n = <<Newline>> ++ b
    <3>1. LineOf(book) \in Seq(Chars)
      BY LineOfFirst, Special
    <3>2. Body(more) \in Seq(Chars)
      BY PlainBooks DEF Text
    <3>3. <<Newline>> ++ Body(more) \in Seq(Chars)
      BY <3>2, Special, CatElements
    <3> QED
      BY <3>1, <3>2, <3>3, Zenon
  <2>3. l ++ n = <<>>
    BY <1>1, <2>1, <2>2, BodyFirst DEF EndOfStream
  <2>4. Len(l ++ n) = Len(l) + Len(n) /\ Len(l) \in Nat /\ Len(b) \in Nat
    BY CatLength
  <2>5. Len(n) = Len(b) + 1
    BY <2>2, Special, CatNotEmpty
  <2>6. Len(<<>>) = 0
    OBVIOUS
  <2> QED
    BY <2>3, <2>4, <2>5, <2>6
<1>3. pc' = "done" /\ UNCHANGED <<shelf, imported, skipped>>
  BY DEF EndOfStream
<1> QED
  BY <1>1, <1>2, <1>3 DEF Progress, Accounted

LEMMA CsvStep == CsvInv /\ [Next]_vars => CsvInv'
<1> SUFFICES ASSUME CsvInv, [Next]_vars PROVE CsvInv'
  OBVIOUS
<1>1. TypeOK /\ TypeOK'
  BY StepType DEF CsvInv
<1> SUFFICES ASSUME PlainShelf' PROVE Progress'
  BY <1>1 DEF CsvInv
<1>2. shelf' = shelf
  BY DEF Next, SkipHeader, ReadLine, ReadChar, DoubledQuote, ClosingQuote,
         OpeningQuote, FieldEnd, PlainCharacter, Advance, LineParsed,
         EndOfStream, Done, vars
<1>3. PlainShelf /\ Progress
  BY <1>2 DEF PlainShelf, CsvInv
<1>4. CASE SkipHeader
  BY <1>1, <1>3, <1>4, HeaderStep
<1>5. CASE ReadLine
  BY <1>1, <1>3, <1>5, LineStep
<1>6. CASE ReadChar
  <2>1. pc = "char" /\ UNCHANGED <<shelf, rest, pc, imported, skipped>>
    BY <1>6 DEF ReadChar, DoubledQuote, ClosingQuote, OpeningQuote, FieldEnd,
                PlainCharacter, Reading, Advance
  <2>2. PICK book \in PlainBook, later \in Seq(PlainBook) :
          /\ rest = Body(later) /\ Accounted(<<book>> ++ later)
          /\ Reads(FieldsOf(book))
    BY <1>3, <2>1 DEF Progress
  <2>3. Reads(FieldsOf(book))'
    BY <1>1, <1>6, <2>2, LineOfFirst, ReadStep
  <2>4. Accounted(<<book>> ++ later)'
    BY <2>1, <2>2 DEF Accounted
  <2> QED
    BY <2>1, <2>2, <2>3, <2>4 DEF Progress
<1>7. CASE LineParsed
  BY <1>1, <1>3, <1>7, StoreStep
<1>8. CASE EndOfStream
  BY <1>1, <1>3, <1>8, EndOfStreamStep
<1>9. CASE UNCHANGED vars
  BY <1>3, <1>9, ZenonT(30)
  DEF vars, Progress, Accounted, Reads, AtField, Plain, Opening,
                    Inside, Unread
<1> QED
  BY <1>4, <1>5, <1>6, <1>7, <1>8, <1>9 DEF Next, Done

\* Of every table without a newline in a title, an author or an ISBN, whatever
\* its commas and quotes, the import stores exactly the books with an ISBN, in
\* their order, with the title, author, ISBN and total they had, and counts the
\* others as skipped.  The available copies are not in the text
\* (CsvService.cpp:8-64, :103-139).
THEOREM RoundTripExact == Spec => []RoundTrip
<1>1. Init => CsvInv
  <2> SUFFICES ASSUME Init PROVE CsvInv
    OBVIOUS
  <2>1. TypeOK
    BY InitType
  <2>2. rest = <<Newline>> ++ Body(shelf)
    BY <2>1, BodyIs DEF Init, TypeOK
  <2>3. Progress
    BY <2>2 DEF Init, Progress
  <2> QED
    BY <2>1, <2>3 DEF CsvInv
<1>2. CsvInv => RoundTrip
  <2> SUFFICES ASSUME CsvInv, pc = "done", PlainShelf
               PROVE  /\ imported = WithIsbn(shelf)
                      /\ skipped = Len(shelf) - Len(imported)
    BY DEF RoundTrip, PlainShelf
  <2>1. Accounted(<<>>)
    BY DEF CsvInv, Progress
  <2>2. imported \in Seq(Book) /\ Len(imported) \in Nat /\ skipped \in Nat
    BY ImportedType DEF CsvInv, TypeOK
  <2>3. imported ++ <<>> = imported
    BY <2>2, CatEmpty
  <2>4. Len(<<>>) = 0
    OBVIOUS
  <2> QED
    BY <2>1, <2>2, <2>3, <2>4, WithIsbnNone DEF Accounted
<1> QED
  BY <1>1, <1>2, CsvStep, PTL DEF Spec
=============================================================================
