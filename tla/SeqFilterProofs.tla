-------------------------- MODULE SeqFilterProofs --------------------------
(***************************************************************************)
(* What Omit returns, for sequences of any length.  Induction is by the    *)
(* least element of the set of counterexamples.                            *)
(***************************************************************************)
EXTENDS SeqFilter, WellFoundedInduction, TLAPS

-----------------------------------------------------------------------------
(* Induction *)

\* A non-empty set of naturals has a least element.
LEMMA LeastElement ==
    ASSUME NEW S \in SUBSET Nat, S # {}
    PROVE  \E m \in S : \A x \in S : m <= x
<1> DEFINE R == {ss \in Nat \X Nat : ss[1] < ss[2]}
<1>1. R = OpToRel(<, Nat)
  BY Zenon DEF OpToRel
<1>2. IsWellFoundedOn(R, Nat)
  BY <1>1, NatLessThanWellFounded, Zenon
<1>3. PICK m \in S : \A x \in S : ~(<<x, m>> \in R)
  <2> HIDE DEF R
  <2> QED  BY <1>2, WFMin, Zenon
<1>4. ASSUME NEW x \in S PROVE m <= x
  <2>1. x < m => <<x, m>> \in R
    BY Zenon
  <2>2. ~(x < m)
    BY <1>3, <2>1, Zenon
  <2> QED  BY <2>2, SMT, Z3
<1> QED  BY <1>4, Zenon

LEMMA UpTo ==
    ASSUME NEW n \in Nat, NEW S, 0 \in S,
           \A i \in Nat : i < n /\ i \in S => i + 1 \in S
    PROVE  \A i \in 0..n : i \in S
<1> SUFFICES ASSUME NEW j \in 0..n, j \notin S PROVE FALSE
  BY Zenon
<1> DEFINE Bad == {i \in Nat : i <= n /\ i \notin S}
<1>1. Bad \in SUBSET Nat /\ Bad # {}
  BY SMT, Z3
<1>2. PICK m \in Bad : \A x \in Bad : m <= x
  <2> HIDE DEF Bad
  <2> QED  BY <1>1, LeastElement, Zenon
<1>3. m # 0 /\ m - 1 \in Nat /\ m - 1 < n /\ ~(m <= m - 1) /\ (m - 1) + 1 = m
  BY SMT, Z3
<1>4. m - 1 \in S
  BY <1>2, <1>3, SMT, Z3
<1> QED
  BY <1>3, <1>4, Zenon

\* Induction on the length of a sequence.
LEMMA SeqInduction ==
    ASSUME NEW T, NEW P, <<>> \in P,
           \A s \in Seq(T) : \A x \in T : s \in P => Append(s, x) \in P
    PROVE  \A s \in Seq(T) : s \in P
<1> SUFFICES ASSUME NEW s \in Seq(T) PROVE s \in P
  BY Zenon
<1> DEFINE S == {i \in Nat : i <= Len(s) => SubSeq(s, 1, i) \in P}
<1>1. Len(s) \in Nat /\ Len(s) <= Len(s) /\ SubSeq(s, 1, 0) = <<>> /\ SubSeq(s, 1, Len(s)) = s
  BY SMT, Z3
<1>2. 0 \in S
  BY <1>1, ZenonT(30)
<1>3. ASSUME NEW i \in Nat, i < Len(s), i \in S
      PROVE  i + 1 \in S
  <2>1. SubSeq(s, 1, i) \in Seq(T) /\ s[i + 1] \in T /\ SubSeq(s, 1, i) \in P
    BY <1>3, SMT, Z3
  <2>2. SubSeq(s, 1, i + 1) = Append(SubSeq(s, 1, i), s[i + 1])
    BY <1>3, SMT, Z3
  <2>3. SubSeq(s, 1, i + 1) \in P
    BY <2>1, <2>2, Zenon
  <2> QED  BY <2>3, SMT, Z3
<1>4. Len(s) \in S
  <2> HIDE DEF S
  <2>1. \A i \in 0..Len(s) : i \in S
    BY <1>1, <1>2, <1>3, UpTo, Zenon
  <2> QED  BY <1>1, <2>1, SMT, Z3
<1> QED
  BY <1>1, <1>4, Zenon

-----------------------------------------------------------------------------
(* Omit *)

\* f[i] is the first i elements of s without those of D.
IsKept(s, D, n, f) ==
    f = [i \in 0..n |->
           IF i = 0 THEN <<>>
           ELSE IF s[i] \in D THEN f[i - 1] ELSE Append(f[i - 1], s[i])]

Step(s, D, f, i) == IF s[i] \in D THEN f[i - 1] ELSE Append(f[i - 1], s[i])
Steps(s, D, n, f) == f[0] = <<>> /\ \A i \in 1..n : f[i] = Step(s, D, f, i)

LEMMA KeptAt ==
    ASSUME NEW s, NEW D, NEW n \in Nat, NEW f, IsKept(s, D, n, f)
    PROVE  Steps(s, D, n, f)
<1> DEFINE g == [i \in 0..n |->
           IF i = 0 THEN <<>>
           ELSE IF s[i] \in D THEN f[i - 1] ELSE Append(f[i - 1], s[i])]
<1>1. f = g
  BY Zenon DEF IsKept
<1>2. g[0] = <<>> /\ \A i \in 1..n : g[i] = Step(s, D, f, i)
  BY SMT, Z3 DEF Step
<1> HIDE DEF g
<1> QED  BY <1>1, <1>2, Zenon DEF Steps

LEMMA KeptExists ==
    ASSUME NEW T, NEW s \in Seq(T), NEW D
    PROVE  \E f : IsKept(s, D, Len(s), f)
<1> DEFINE S == {n \in Nat : n <= Len(s) => \E f : IsKept(s, D, n, f)}
<1>1. 0 \in S
  <2>1. IsKept(s, D, 0, [i \in 0..0 |-> <<>>])
    BY SMT, Z3 DEF IsKept
  <2> QED  BY <2>1, Zenon
<1>2. ASSUME NEW n \in Nat, n < Len(s), n \in S
      PROVE  n + 1 \in S
  <2>1. PICK f : IsKept(s, D, n, f)
    BY <1>2, SMT, Z3
  <2>2. f[0] = <<>> /\ \A i \in 1..n : f[i] = Step(s, D, f, i)
    BY <2>1, KeptAt, Zenon DEF Steps
  <2> DEFINE last == IF s[n + 1] \in D THEN f[n] ELSE Append(f[n], s[n + 1])
  <2> DEFINE g == [i \in 0..(n + 1) |-> IF i = n + 1 THEN last ELSE f[i]]
  <2>3. \A i \in 0..(n + 1) : g[i] =
           IF i = 0 THEN <<>>
           ELSE IF s[i] \in D THEN g[i - 1] ELSE Append(g[i - 1], s[i])
    <3> SUFFICES ASSUME NEW i \in 0..(n + 1)
                 PROVE  g[i] = IF i = 0 THEN <<>>
                        ELSE IF s[i] \in D THEN g[i - 1] ELSE Append(g[i - 1], s[i])
      BY Zenon
    <3>1. CASE i = 0
      BY <2>2, <3>1, SMT, Z3
    <3>2. CASE i = n + 1
      <4>1. g[i] = last /\ g[i - 1] = f[n] /\ i # 0
        BY <3>2, SMT, Z3
      <4> QED  BY <3>2, <4>1, Zenon
    <3>3. CASE i \in 1..n
      <4>1. g[i] = f[i] /\ g[i - 1] = f[i - 1] /\ i # 0
        BY <3>3, SMT, Z3
      <4> HIDE DEF g, last
      <4> QED  BY <3>3, <4>1, <2>2, Zenon DEF Step
    <3> QED  BY <3>1, <3>2, <3>3, SMT, Z3
  <2>4. g = [i \in 0..(n + 1) |-> g[i]]
    BY Zenon
  <2> HIDE DEF g
  <2>5. IsKept(s, D, n + 1, g)
    <3>1. [i \in 0..(n + 1) |-> g[i]] = [i \in 0..(n + 1) |->
           IF i = 0 THEN <<>>
           ELSE IF s[i] \in D THEN g[i - 1] ELSE Append(g[i - 1], s[i])]
      BY <2>3, Zenon
    <3> QED  BY <2>4, <3>1, Zenon DEF IsKept
  <2> QED  BY <2>5, SMT, Z3
<1>3. Len(s) \in Nat
  BY SMT, Z3
<1>4. Len(s) \in S
  <2> HIDE DEF S
  <2>1. \A i \in 0..Len(s) : i \in S
    BY <1>1, <1>2, <1>3, UpTo, Zenon
  <2> QED  BY <1>3, <2>1, SMT, Z3
<1> QED  BY <1>3, <1>4, SMT, Z3

LEMMA KeptAgree ==
    ASSUME NEW T, NEW s \in Seq(T), NEW t \in Seq(T), NEW D,
           NEW n \in Nat, NEW m \in Nat, n <= m, NEW f, NEW g,
           IsKept(s, D, n, f), IsKept(t, D, m, g), \A i \in 1..n : s[i] = t[i]
    PROVE  f[n] = g[n]
<1>1. /\ f[0] = <<>> /\ \A i \in 1..n : f[i] = Step(s, D, f, i)
      /\ g[0] = <<>> /\ \A i \in 1..m : g[i] = Step(t, D, g, i)
  BY KeptAt, ZenonT(30) DEF Steps
<1> DEFINE S == {i \in Nat : i <= n => f[i] = g[i]}
<1>2. 0 \in S
  BY <1>1, Zenon
<1>3. ASSUME NEW i \in Nat, i < n, i \in S PROVE i + 1 \in S
  <2>1. f[i] = g[i] /\ i + 1 \in 1..n /\ i + 1 \in 1..m /\ (i + 1) - 1 = i /\ s[i + 1] = t[i + 1]
    BY <1>3, SMT, Z3
  <2>2. f[i + 1] = IF s[i + 1] \in D THEN f[i] ELSE Append(f[i], s[i + 1])
    BY <1>1, <2>1, Zenon DEF Step
  <2>3. g[i + 1] = IF t[i + 1] \in D THEN g[i] ELSE Append(g[i], t[i + 1])
    BY <1>1, <2>1, Zenon DEF Step
  <2>4. f[i + 1] = g[i + 1]
    BY <2>1, <2>2, <2>3, Zenon
  <2> QED  BY <2>4, SMT, Z3
<1>4. n \in S
  <2> HIDE DEF S
  <2>1. \A i \in 0..n : i \in S
    BY <1>2, <1>3, UpTo, ZenonT(30)
  <2> QED  BY <2>1, SMT, Z3
<1> QED  BY <1>4, SMT, Z3

LEMMA OmitIsKept ==
    ASSUME NEW T, NEW s \in Seq(T), NEW D
    PROVE  \E f : IsKept(s, D, Len(s), f) /\ Omit(s, D) = f[Len(s)]
<1>1. PICK g : IsKept(s, D, Len(s), g)
  BY KeptExists, Zenon
<1> QED  BY <1>1, Zenon DEF Omit, IsKept

LEMMA OmitEmpty ==
    ASSUME NEW D PROVE Omit(<<>>, D) = <<>>
<1>1. <<>> \in Seq({}) /\ Len(<<>>) = 0
  BY SMT, Z3
<1>2. PICK f : IsKept(<<>>, D, 0, f) /\ Omit(<<>>, D) = f[0]
  BY <1>1, OmitIsKept, ZenonT(30)
<1>3. 0 \in Nat
  BY Zenon
<1> QED  BY <1>2, <1>3, KeptAt, Zenon DEF Steps

LEMMA OmitAppend ==
    ASSUME NEW T, NEW s \in Seq(T), NEW x \in T, NEW D
    PROVE  Omit(Append(s, x), D) =
              IF x \in D THEN Omit(s, D) ELSE Append(Omit(s, D), x)
<1> DEFINE n == Len(s)
           t == Append(s, x)
<1>1. /\ t \in Seq(T) /\ n \in Nat /\ Len(t) = n + 1 /\ t[n + 1] = x
      /\ \A i \in 1..n : s[i] = t[i]
  BY SMT, Z3
<1> HIDE DEF n, t
<1>2. PICK f : IsKept(s, D, n, f) /\ Omit(s, D) = f[n]
  BY OmitIsKept, Zenon DEF n
<1>3. PICK g : IsKept(t, D, n + 1, g) /\ Omit(t, D) = g[n + 1]
  BY <1>1, OmitIsKept, Zenon
<1>4. n + 1 \in Nat /\ n <= n + 1 /\ n + 1 \in 1..(n + 1) /\ (n + 1) - 1 = n
  BY <1>1, SMT, Z3
<1>5. f[n] = g[n]
  BY <1>1, <1>2, <1>3, <1>4, KeptAgree, SMT, Z3
<1>6. g[n + 1] = Step(t, D, g, n + 1)
  BY <1>3, <1>4, KeptAt, Zenon DEF Steps
<1> QED  BY <1>1, <1>2, <1>3, <1>4, <1>5, <1>6, Zenon DEF t, Step

LEMMA RangeAppend ==
    ASSUME NEW T, NEW s \in Seq(T), NEW x
    PROVE  Range(Append(s, x)) = Range(s) \cup {x}
<1>1. DOMAIN Append(s, x) = 1..(Len(s) + 1) /\ DOMAIN s = 1..Len(s) /\ Len(s) \in Nat
  BY SMT, Z3
<1>2. \A i \in 1..Len(s) : Append(s, x)[i] = s[i]
  BY SMT, Z3
<1>3. Append(s, x)[Len(s) + 1] = x
  BY SMT, Z3
<1>4. 1..(Len(s) + 1) = 1..Len(s) \cup {Len(s) + 1}
  BY <1>1, SMT, Z3
<1> QED  BY <1>1, <1>2, <1>3, <1>4, ZenonT(30) DEF Range

\* What is left of s is what D does not hold.
LEMMA OmitRange ==
    ASSUME NEW T, NEW s \in Seq(T), NEW D
    PROVE  Omit(s, D) \in Seq(T) /\ Range(Omit(s, D)) = Range(s) \ D
<1> DEFINE P == {t \in Seq(T) : Omit(t, D) \in Seq(T) /\ Range(Omit(t, D)) = Range(t) \ D}
<1>1. <<>> \in P
  <2>1. <<>> \in Seq(T) /\ Range(<<>>) = {}
    BY SMT, Z3 DEF Range
  <2> QED  BY <2>1, OmitEmpty, Zenon
<1>2. ASSUME NEW t \in Seq(T), NEW x \in T, t \in P
      PROVE  Append(t, x) \in P
  <2>1. Omit(t, D) \in Seq(T) /\ Range(Omit(t, D)) = Range(t) \ D
    BY <1>2, Zenon
  <2>2. Append(t, x) \in Seq(T) /\ Append(Omit(t, D), x) \in Seq(T)
    BY <2>1, SMT, Z3
  <2>3. Range(Append(t, x)) = Range(t) \cup {x}
        /\ Range(Append(Omit(t, D), x)) = Range(Omit(t, D)) \cup {x}
    BY <2>1, RangeAppend, Zenon
  <2>4. CASE x \in D
    <3>1. Omit(Append(t, x), D) = Omit(t, D)
      BY <2>4, OmitAppend, Zenon
    <3> QED  BY <2>1, <2>2, <2>3, <2>4, <3>1, Zenon
  <2>5. CASE x \notin D
    <3>1. Omit(Append(t, x), D) = Append(Omit(t, D), x)
      BY <2>5, OmitAppend, ZenonT(30)
    <3> QED  BY <2>1, <2>2, <2>3, <2>5, <3>1, Zenon
  <2> QED  BY <2>4, <2>5, Zenon
<1>3. \A t \in Seq(T) : t \in P
  <2> HIDE DEF P
  <2> QED  BY <1>1, <1>2, SeqInduction, Zenon
<1> QED  BY <1>3, Zenon

LEMMA OmitConcat ==
    ASSUME NEW T, NEW s \in Seq(T), NEW t \in Seq(T), NEW D
    PROVE  Omit(s \o t, D) = Omit(s, D) \o Omit(t, D)
<1> DEFINE P == {u \in Seq(T) : Omit(s \o u, D) = Omit(s, D) \o Omit(u, D)}
<1>0. Omit(s, D) \in Seq(T)
  BY OmitRange, Zenon
<1>1. <<>> \in P
  <2>1. <<>> \in Seq(T) /\ s \o <<>> = s /\ Omit(s, D) \o <<>> = Omit(s, D)
    BY <1>0, SMT, Z3
  <2> QED  BY <2>1, OmitEmpty, Zenon
<1>2. ASSUME NEW u \in Seq(T), NEW x \in T, u \in P
      PROVE  Append(u, x) \in P
  <2>1. Omit(u, D) \in Seq(T) /\ Omit(s \o u, D) = Omit(s, D) \o Omit(u, D)
    BY <1>2, OmitRange, Zenon
  <2>2. /\ Append(u, x) \in Seq(T) /\ s \o u \in Seq(T)
        /\ s \o Append(u, x) = Append(s \o u, x)
        /\ Omit(s, D) \o Append(Omit(u, D), x) = Append(Omit(s, D) \o Omit(u, D), x)
    <3> HIDE DEF P
    <3>1. \A a, b \in Seq(T) : a \o Append(b, x) = Append(a \o b, x)
      BY SMT, Z3
    <3>2. Append(u, x) \in Seq(T) /\ s \o u \in Seq(T)
      BY SMT, Z3
    <3> QED  BY <1>0, <2>1, <3>1, <3>2, Zenon
  <2>3. CASE x \in D
    <3>1. Omit(Append(u, x), D) = Omit(u, D)
      BY <2>3, OmitAppend, Zenon
    <3>2. ASSUME NEW w \in Seq(T) PROVE Omit(Append(w, x), D) = Omit(w, D)
      BY <2>3, OmitAppend, Zenon
    <3> QED  BY <2>1, <2>2, <3>1, <3>2, Zenon
  <2>4. CASE x \notin D
    <3>1. Omit(Append(u, x), D) = Append(Omit(u, D), x)
      BY <2>4, OmitAppend, ZenonT(30)
    <3>2. ASSUME NEW w \in Seq(T) PROVE Omit(Append(w, x), D) = Append(Omit(w, D), x)
      BY <2>4, OmitAppend, ZenonT(30)
    <3> QED  BY <2>1, <2>2, <3>1, <3>2, Zenon
  <2> QED  BY <2>3, <2>4, Zenon
<1>3. \A u \in Seq(T) : u \in P
  <2> HIDE DEF P
  <2> QED  BY <1>1, <1>2, SeqInduction, Zenon
<1> QED  BY <1>3, Zenon

\* Omit depends only on the members of D that are in s.
LEMMA OmitSame ==
    ASSUME NEW T, NEW s \in Seq(T), NEW D, NEW E, Range(s) \cap D = Range(s) \cap E
    PROVE  Omit(s, D) = Omit(s, E)
<1> DEFINE P == {u \in Seq(T) : Range(u) \cap D = Range(u) \cap E => Omit(u, D) = Omit(u, E)}
<1>1. <<>> \in P
  <2>1. <<>> \in Seq(T)
    BY SMT, Z3
  <2> QED  BY <2>1, OmitEmpty, Zenon
<1>2. ASSUME NEW u \in Seq(T), NEW x \in T, u \in P
      PROVE  Append(u, x) \in P
  <2>1. Append(u, x) \in Seq(T)
    BY SMT, Z3
  <2>2. ASSUME Range(Append(u, x)) \cap D = Range(Append(u, x)) \cap E
        PROVE  Omit(Append(u, x), D) = Omit(Append(u, x), E)
    <3>1. Range(Append(u, x)) = Range(u) \cup {x}
      BY RangeAppend, Zenon
    <3>2. (x \in D <=> x \in E) /\ Range(u) \cap D = Range(u) \cap E
      BY <2>2, <3>1, Zenon
    <3>3. Omit(u, D) = Omit(u, E)
      BY <1>2, <3>2, Zenon
    <3>4. CASE x \in D
      <4>1. Omit(Append(u, x), D) = Omit(u, D)
        BY <3>4, OmitAppend, ZenonT(30)
      <4>2. Omit(Append(u, x), E) = Omit(u, E)
        BY <3>2, <3>4, OmitAppend, ZenonT(30)
      <4> QED  BY <3>3, <4>1, <4>2, Zenon
    <3>5. CASE x \notin D
      <4>1. Omit(Append(u, x), D) = Append(Omit(u, D), x)
        BY <3>5, OmitAppend, ZenonT(30)
      <4>2. Omit(Append(u, x), E) = Append(Omit(u, E), x)
        BY <3>2, <3>5, OmitAppend, ZenonT(30)
      <4> QED  BY <3>3, <4>1, <4>2, Zenon
    <3> QED  BY <3>4, <3>5, Zenon
  <2> QED  BY <2>1, <2>2, Zenon
<1>3. \A u \in Seq(T) : u \in P
  <2> HIDE DEF P
  <2> QED  BY <1>1, <1>2, SeqInduction, Zenon
<1> QED  BY <1>3, Zenon

LEMMA OmitNone ==
    ASSUME NEW T, NEW s \in Seq(T), NEW D, Range(s) \cap D = {}
    PROVE  Omit(s, D) = s
<1> DEFINE P == {u \in Seq(T) : Omit(u, {}) = u}
<1>1. <<>> \in P
  <2>1. <<>> \in Seq(T)
    BY SMT, Z3
  <2> QED  BY <2>1, OmitEmpty, Zenon
<1>2. ASSUME NEW u \in Seq(T), NEW x \in T, u \in P
      PROVE  Append(u, x) \in P
  <2>1. Append(u, x) \in Seq(T) /\ Omit(u, {}) = u
    BY <1>2, SMT, Z3
  <2>2. Omit(Append(u, x), {}) = Append(Omit(u, {}), x)
    BY OmitAppend, ZenonT(30)
  <2> QED  BY <2>1, <2>2, Zenon
<1>3. \A u \in Seq(T) : u \in P
  <2> HIDE DEF P
  <2> QED  BY <1>1, <1>2, SeqInduction, Zenon
<1>4. Omit(s, D) = Omit(s, {})
  BY OmitSame, Zenon
<1> QED  BY <1>3, <1>4, Zenon

LEMMA OmitAll ==
    ASSUME NEW T, NEW s \in Seq(T), NEW D, Range(s) \subseteq D
    PROVE  Omit(s, D) = <<>>
<1>1. Omit(s, D) \in Seq(T)
  BY OmitRange, Zenon
<1>2. Range(Omit(s, D)) = Range(s) \ D
  BY OmitRange, Zenon
<1>3. DOMAIN Omit(s, D) = {}
  BY <1>2, Zenon DEF Range
<1> QED  BY <1>1, <1>3, SMT, Z3

\* The first element is kept or not; the rest is independent of it.
LEMMA OmitHead ==
    ASSUME NEW T, NEW s \in Seq(T), s # <<>>, NEW D
    PROVE  Omit(s, D) = (IF Head(s) \in D THEN <<>> ELSE <<Head(s)>>) \o Omit(Tail(s), D)
<1>1. /\ s = <<Head(s)>> \o Tail(s) /\ Head(s) \in T /\ <<Head(s)>> \in Seq(T)
      /\ Tail(s) \in Seq(T) /\ <<Head(s)>> = Append(<<>>, Head(s)) /\ <<>> \in Seq(T)
  BY SMT, Z3
<1>2. Omit(<<Head(s)>>, D) = IF Head(s) \in D THEN <<>> ELSE <<Head(s)>>
  <2>1. Omit(Append(<<>>, Head(s)), D) =
           IF Head(s) \in D THEN Omit(<<>>, D) ELSE Append(Omit(<<>>, D), Head(s))
    BY <1>1, OmitAppend, ZenonT(30)
  <2> QED  BY <1>1, <2>1, OmitEmpty, Zenon
<1>3. ASSUME NEW a \in Seq(T), NEW b \in Seq(T)
      PROVE  Omit(a \o b, D) = Omit(a, D) \o Omit(b, D)
  BY OmitConcat, SMTT(30), Z3T(30)
<1>4. Omit(<<Head(s)>> \o Tail(s), D) = Omit(<<Head(s)>>, D) \o Omit(Tail(s), D)
  BY <1>1, <1>3, Zenon
<1> QED  BY <1>1, <1>2, <1>4, Zenon
=============================================================================
