-------------------------- MODULE SseDecoderProofs --------------------------
(***************************************************************************)
(* The decoder for streams of any length, cut anywhere, and for any limit. *)
(***************************************************************************)
EXTENDS SseDecoder, SequenceTheorems, FiniteSetTheorems, TLAPS

(* What holds of any numbers is borrowed from the other proofs, whose      *)
(* parameters do not matter for it.                                        *)
Numbers == INSTANCE SharedProofs WITH
  Groups <- {}, TripGroups <- 1, TripWindow <- 1, ModelOpen <- 1,
  MissingGroups <- 1, MissingWindow <- 1, MissingCooldown <- 1

LEMMA NumbersAssumption == Numbers!ModelAssumption
BY FS_EmptySet DEF Numbers!ModelAssumption, IsFiniteSet, Numbers!IsFiniteSet

(* What holds of 0 and of each number if of the one before it holds of all *)
(* numbers up to N.                                                        *)
LEMMA Upwards ==
  ASSUME NEW N \in Nat, NEW P, 0 \in P,
         \A n \in 0 .. N - 1 : n \in P => n + 1 \in P
  PROVE  \A n \in 0 .. N : n \in P
<1> DEFINE T == {n \in 0 .. N : n \notin P}
<1>1. T \in SUBSET Nat
  OBVIOUS
<1>2. ASSUME T # {} PROVE FALSE
  <2>1. PICK n \in T : \A m \in T : n <= m
    <3> HIDE DEF T
    <3> QED BY <1>1, <1>2, NumbersAssumption, Numbers!LeastNatural
  <2>2. n # 0 /\ n \in 0 .. N
    OBVIOUS
  <2>3. n - 1 \in 0 .. N - 1 /\ n - 1 \notin T
    BY <2>1, <2>2
  <2>4. n - 1 \in P
    BY <2>2, <2>3
  <2>5. (n - 1) + 1 \in P
    BY <2>3, <2>4
  <2> QED BY <2>2, <2>5
<1> QED BY <1>2

(* Numbers in order are a list, each at its rank. *)
LEMMA InOrderIsList ==
  ASSUME NEW S \in SUBSET Nat, IsFiniteSet(S)
  PROVE  /\ InOrder(S) \in Seq(S)
         /\ Cardinality(S) \in Nat
         /\ Len(InOrder(S)) = Cardinality(S)
         /\ \A n \in 1 .. Cardinality(S) :
              /\ InOrder(S)[n] \in S
              /\ Cardinality({j \in S : j < InOrder(S)[n]}) = n - 1
<1>1. Numbers!IsFiniteSet(S)
  BY DEF IsFiniteSet, Numbers!IsFiniteSet
<1>2. /\ Numbers!InOrder(S) \in Seq(S)
      /\ Len(Numbers!InOrder(S)) = Numbers!Cardinality(S)
      /\ Numbers!Cardinality(S) \in Nat
      /\ \A n \in 1 .. Numbers!Cardinality(S) :
           /\ Numbers!InOrder(S)[n] \in S
           /\ Numbers!Cardinality({j \in S : j < Numbers!InOrder(S)[n]}) = n - 1
  BY <1>1, NumbersAssumption, Numbers!InOrderOf
<1>3. \A U : Numbers!Cardinality(U) = Cardinality(U)
  BY DEF Cardinality, Numbers!Cardinality, IsFiniteSet, Numbers!IsFiniteSet
<1>4. Numbers!InOrder(S) = InOrder(S)
  BY DEF InOrder, Numbers!InOrder, Cardinality, Numbers!Cardinality,
         IsFiniteSet, Numbers!IsFiniteSet
<1> QED BY <1>2, <1>3, <1>4

LEMMA LastAppended ==
  ASSUME NEW S, NEW s \in Seq(S), NEW x \in S
  PROVE  Append(s, x) # <<>> /\ Last(Append(s, x)) = x
<1> DEFINE q == Append(s, x)
<1>1. q \in Seq(S) /\ Len(q) = Len(s) + 1 /\ q[Len(s) + 1] = x
      /\ Len(s) \in Nat
  BY AppendProperties
<1> HIDE DEF q
<1>2. Last(q) = x
  BY <1>1 DEF Last
<1>3. Len(q) # Len(<<>>)
  BY <1>1
<1>4. q # <<>>
  BY <1>3, Zenon
<1> QED BY <1>2, <1>4 DEF q

LEMMA Regrouped ==
  ASSUME NEW S, NEW s \in Seq(S), NEW t \in Seq(S), NEW u \in Seq(S)
  PROVE  (s \o t) \o u = s \o (t \o u) /\ t \o u \in Seq(S)
BY ConcatAssociative, ConcatProperties

LEMMA RanksDiffer ==
  ASSUME NEW S \in SUBSET Nat, IsFiniteSet(S), NEW i \in S, NEW k \in S,
         Cardinality({j \in S : j < i}) = Cardinality({j \in S : j < k})
  PROVE  i = k
<1>1. ASSUME NEW a \in S, NEW b \in S, a < b
      PROVE  Cardinality({j \in S : j < a}) # Cardinality({j \in S : j < b})
  <2> DEFINE X == {j \in S : j < a}
             Y == {j \in S : j < b}
  <2>1. X \in SUBSET Y /\ a \in Y /\ a \notin X
    <3>1. a \in Nat /\ b \in Nat /\ \A j \in S : j \in Nat
      OBVIOUS
    <3>2. \A j \in X : j \in Y
      BY <1>1, <3>1
    <3>3. a \in Y /\ a \notin X
      BY <1>1, <3>1
    <3> QED BY <3>2, <3>3
  <2>2. Y \in SUBSET S
    OBVIOUS
  <2> HIDE DEF X, Y
  <2>3. IsFiniteSet(Y)
    BY <2>2, FS_Subset
  <2>4. Cardinality(X) # Cardinality(Y)
    BY <2>1, <2>3, FS_Subset
  <2> QED BY <2>4 DEF X, Y
<1>2. i < k \/ k < i \/ i = k
  OBVIOUS
<1> QED BY <1>1, <1>2

(* A greater number comes last. *)
LEMMA InOrderAppend ==
  ASSUME NEW S \in SUBSET Nat, IsFiniteSet(S),
         NEW m \in Nat, \A i \in S : i < m
  PROVE  InOrder(S \cup {m}) = Append(InOrder(S), m)
<1> DEFINE N == Cardinality(S)
           U == S \cup {m}
           Below(T, i) == {j \in T : j < i}
<1>1. /\ N \in Nat /\ InOrder(S) \in Seq(S) /\ Len(InOrder(S)) = N
      /\ \A n \in 1 .. N : /\ InOrder(S)[n] \in S
                           /\ Cardinality(Below(S, InOrder(S)[n])) = n - 1
  BY InOrderIsList
<1>2. m \notin S /\ S \subseteq Nat /\ U \in SUBSET Nat
  OBVIOUS
<1>3. IsFiniteSet(U) /\ Cardinality(U) = N + 1
  BY <1>2, FS_AddElement
<1>4. /\ InOrder(U) \in Seq(U) /\ Len(InOrder(U)) = N + 1
      /\ \A n \in 1 .. N + 1 :
           /\ InOrder(U)[n] \in U
           /\ Cardinality(Below(U, InOrder(U)[n])) = n - 1
  <2> HIDE DEF U
  <2> QED BY <1>2, <1>3, InOrderIsList
<1>5. Below(U, m) = S
  <2>1. \A j \in U : j < m <=> j \in S
    BY <1>2
  <2> QED BY <2>1
<1>6. \A i \in S : Below(U, i) = Below(S, i)
  BY <1>2
<1> HIDE DEF Below
<1>7. ASSUME NEW n \in 1 .. N PROVE InOrder(U)[n] = InOrder(S)[n]
  <2>1. n \in 1 .. N + 1
    BY <1>1
  <2>2. InOrder(S)[n] \in U
    BY <1>1
  <2>3. Cardinality(Below(U, InOrder(S)[n])) = n - 1
    BY <1>1, <1>6
  <2>4. InOrder(U)[n] \in U /\ Cardinality(Below(U, InOrder(U)[n])) = n - 1
    BY <1>4, <2>1
  <2> DEFINE a == InOrder(U)[n]
             b == InOrder(S)[n]
  <2> HIDE DEF U, N, a, b
  <2>5. a \in U /\ b \in U /\ Cardinality(Below(U, a)) = Cardinality(Below(U, b))
    BY <2>2, <2>3, <2>4 DEF a, b
  <2>6. a = b
    BY <1>2, <1>3, <2>5, RanksDiffer DEF Below
  <2> QED BY <2>6 DEF a, b
<1>8. InOrder(U)[N + 1] = m
  <2>1. N + 1 \in 1 .. N + 1 /\ (N + 1) - 1 = N
    BY <1>1
  <2>2. m \in U
    OBVIOUS
  <2>3. Cardinality(Below(U, m)) = N
    BY <1>5
  <2>4. /\ InOrder(U)[N + 1] \in U
        /\ Cardinality(Below(U, InOrder(U)[N + 1])) = N
    BY <1>4, <2>1
  <2> HIDE DEF U, N
  <2> QED BY <1>2, <1>3, <2>2, <2>3, <2>4, RanksDiffer DEF Below
<1> HIDE DEF U, N
<1>9. /\ Append(InOrder(S), m) \in Seq(U)
      /\ Len(Append(InOrder(S), m)) = N + 1
      /\ \A n \in 1 .. N : Append(InOrder(S), m)[n] = InOrder(S)[n]
      /\ Append(InOrder(S), m)[N + 1] = m
  <2>1. S \subseteq U /\ m \in U
    BY DEF U
  <2>2. InOrder(S) \in Seq(U)
    BY <1>1, <2>1, SeqMonotonic
  <2> QED BY <1>1, <2>1, <2>2, AppendProperties
<1>10. \A n \in 1 .. N + 1 : InOrder(U)[n] = Append(InOrder(S), m)[n]
  <2>1. \A n \in 1 .. N + 1 : n \in 1 .. N \/ n = N + 1
    BY <1>1
  <2> QED BY <1>7, <1>8, <1>9, <2>1
<1>11. InOrder(U) = Append(InOrder(S), m)
  BY <1>4, <1>9, <1>10, SeqEqual
<1> QED BY <1>11 DEF U

LEMMA SymbolBySymbol ==
  ASSUME NEW T, NEW s \in Seq(T), NEW t \in Seq(T)
  PROVE  /\ Len(t) \in Nat
         /\ s \o SubSeq(t, 1, 0) = s
         /\ SubSeq(t, 1, 0) = <<>>
         /\ SubSeq(t, 1, Len(t)) = t
         /\ \A n \in 0 .. Len(t) : SubSeq(t, 1, n) \in Seq(T)
         /\ \A n \in 0 .. Len(t) - 1 :
              /\ t[n + 1] \in T
              /\ SubSeq(t, 1, n + 1) = Append(SubSeq(t, 1, n), t[n + 1])
              /\ s \o SubSeq(t, 1, n + 1)
                   = Append(s \o SubSeq(t, 1, n), t[n + 1])
<1>1. Len(t) \in Nat /\ DOMAIN t = 1 .. Len(t) /\ \A i \in 1 .. Len(t) : t[i] \in T
  OBVIOUS
<1>2. SubSeq(t, 1, 0) = <<>>
  BY SubSeqEmpty
<1>3. s \o <<>> = s
  BY ConcatEmptySeq
<1>4. SubSeq(t, 1, Len(t)) = t
  BY SubSeqFull
<1>5. ASSUME NEW n \in 0 .. Len(t) PROVE SubSeq(t, 1, n) \in Seq(T)
  <2>1. 1 \in Int /\ n \in Int /\ \A i \in 1 .. n : t[i] \in T
    BY <1>1
  <2> QED BY <2>1, SubSeqProperties
<1>6. ASSUME NEW n \in 0 .. Len(t) - 1
      PROVE  /\ t[n + 1] \in T
             /\ SubSeq(t, 1, n + 1) = Append(SubSeq(t, 1, n), t[n + 1])
             /\ s \o SubSeq(t, 1, n + 1)
                  = Append(s \o SubSeq(t, 1, n), t[n + 1])
  <2> DEFINE u == SubSeq(t, 1, n)
             c == t[n + 1]
  <2>1. n + 1 \in 1 .. Len(t) /\ n \in 0 .. Len(t) /\ (n + 1) - 1 = n
        /\ 1 \in 1 .. Len(t) /\ n + 1 \in 1 .. Len(t)
    BY <1>1
  <2>2. c \in T /\ u \in Seq(T)
    BY <1>1, <1>5, <2>1
  <2>3. SubSeq(t, 1, n + 1) = u \o <<c>>
    BY <2>1, SubSeqRecursiveSecond
  <2> HIDE DEF u, c
  <2>4. u \o <<c>> = Append(u, c)
    BY <2>2, AppendIsConcat
  <2>5. <<c>> \in Seq(T)
    BY <2>2
  <2>6. s \o (u \o <<c>>) = (s \o u) \o <<c>>
    BY <2>2, <2>5, ConcatAssociative
  <2>7. s \o u \in Seq(T)
    BY <2>2, ConcatProperties
  <2>8. (s \o u) \o <<c>> = Append(s \o u, c)
    BY <2>2, <2>7, AppendIsConcat
  <2> QED BY <2>2, <2>3, <2>4, <2>6, <2>8 DEF u, c
<1> QED BY <1>1, <1>2, <1>3, <1>4, <1>5, <1>6
-----------------------------------------------------------------------------
(* The bytes of a symbol; sizes add up. *)
Weight(c) == IF c = "x" THEN Run ELSE 1

LEMMA SizeAppend ==
  ASSUME NEW s \in Seq(Symbols), NEW c \in Symbols
  PROVE  /\ Size(s) \in Nat
         /\ Weight(c) \in Nat \ {0}
         /\ Size(Append(s, c)) = Size(s) + Weight(c)
<1> DEFINE X(q) == {i \in DOMAIN q : q[i] = "x"}
           t == Append(s, c)
<1>1. Run \in Nat \ {0} /\ Run - 1 \in Nat
  BY DecoderAssumption DEF DecoderAssumption
<1>2. Weight(c) \in Nat \ {0}
  BY <1>1 DEF Weight
<1>3. Len(s) \in Nat /\ DOMAIN s = 1 .. Len(s)
  OBVIOUS
<1>4. IsFiniteSet(X(s)) /\ Cardinality(X(s)) \in Nat
  <2>1. 1 \in Int /\ Len(s) \in Int
    BY <1>3
  <2>2. IsFiniteSet(DOMAIN s)
    BY <1>3, <2>1, FS_Interval
  <2>3. X(s) \in SUBSET DOMAIN s
    OBVIOUS
  <2> HIDE DEF X
  <2>4. IsFiniteSet(X(s))
    BY <2>2, <2>3, FS_Subset
  <2> QED BY <2>4, FS_CardinalityType
<1>5. Size(s) \in Nat
  <2> DEFINE n == Cardinality(X(s))
             w == Run - 1
  <2>1. Size(s) = Len(s) + w * n
    BY DEF Size
  <2>2. n \in Nat /\ w \in Nat
    BY <1>1, <1>4
  <2> HIDE DEF n, w
  <2>3. w * n \in Nat
    BY <2>2
  <2> QED BY <1>3, <2>1, <2>3
<1>6. /\ DOMAIN t = 1 .. Len(s) + 1 /\ Len(t) = Len(s) + 1
      /\ \A i \in 1 .. Len(s) : t[i] = s[i]
      /\ t[Len(s) + 1] = c
  <2>1. t \in Seq(Symbols)
    OBVIOUS
  <2> QED BY <1>3, <2>1, AppendProperties
<1>7. X(t) = IF c = "x" THEN X(s) \cup {Len(s) + 1} ELSE X(s)
  <2>1. \A i \in DOMAIN t : i \in 1 .. Len(s) \/ i = Len(s) + 1
    BY <1>3, <1>6
  <2>2. DOMAIN s \subseteq DOMAIN t /\ Len(s) + 1 \in DOMAIN t
    BY <1>3, <1>6
  <2> HIDE DEF t
  <2> QED BY <1>3, <1>6, <2>1, <2>2
<1>8. Cardinality(X(t)) = IF c = "x" THEN Cardinality(X(s)) + 1
                                     ELSE Cardinality(X(s))
  <2>1. Len(s) + 1 \notin X(s)
    BY <1>3
  <2> HIDE DEF X, t
  <2> QED BY <1>4, <1>7, <2>1, FS_AddElement
<1>9. Size(t) = Size(s) + Weight(c)
  <2> DEFINE n == Cardinality(X(s))
             w == Run - 1
             m == Cardinality(X(t))
  <2>1. Size(s) = Len(s) + w * n /\ Size(t) = Len(t) + w * m
    BY DEF Size
  <2>2. n \in Nat /\ w \in Nat
    BY <1>1, <1>4
  <2>3. m = IF c = "x" THEN n + 1 ELSE n
    BY <1>8
  <2>4. Weight(c) = IF c = "x" THEN w + 1 ELSE 1
    BY <1>1 DEF Weight
  <2> HIDE DEF n, w, m, t
  <2>5. w * (n + 1) = w * n + w /\ w * n \in Nat
    BY <2>2
  <2>6. CASE c = "x"
    BY <1>3, <1>6, <2>1, <2>2, <2>3, <2>4, <2>5, <2>6
  <2>7. CASE c # "x"
    BY <1>3, <1>6, <2>1, <2>2, <2>3, <2>4, <2>5, <2>7
  <2> QED BY <2>6, <2>7
<1> QED BY <1>2, <1>5, <1>9

LEMMA SizeNat ==
  ASSUME NEW s \in Seq(Symbols)
  PROVE  Size(s) \in Nat
<1>1. "x" \in Symbols
  BY DEF Symbols
<1> QED BY <1>1, SizeAppend

LEMMA SizeEmpty == Size(<<>>) = 0
<1>1. {i \in DOMAIN <<>> : <<>>[i] = "x"} = {}
  OBVIOUS
<1>2. Size(<<>>) = 0 + (Run - 1) * 0
  BY <1>1, FS_EmptySet DEF Size
<1>3. Run - 1 \in Int
  BY DecoderAssumption DEF DecoderAssumption
<1> QED BY <1>2, <1>3

LEMMA SizeConcat ==
  ASSUME NEW s \in Seq(Symbols), NEW t \in Seq(Symbols)
  PROVE  Size(s \o t) = Size(s) + Size(t)
<1> DEFINE u(n) == SubSeq(t, 1, n)
           P == {n \in 0 .. Len(t) : Size(s \o u(n)) = Size(s) + Size(u(n))}
<1>1. /\ Len(t) \in Nat
      /\ s \o u(0) = s /\ u(0) = <<>> /\ u(Len(t)) = t
      /\ \A n \in 0 .. Len(t) : u(n) \in Seq(Symbols)
      /\ \A n \in 0 .. Len(t) - 1 :
           /\ t[n + 1] \in Symbols
           /\ u(n + 1) = Append(u(n), t[n + 1])
           /\ s \o u(n + 1) = Append(s \o u(n), t[n + 1])
  BY SymbolBySymbol
<1> HIDE DEF u
<1>2. 0 \in P
  <2>1. Size(s) \in Nat
    BY SizeNat
  <2>2. 0 \in 0 .. Len(t)
    BY <1>1
  <2>3. s \o u(0) = s /\ u(0) = <<>>
    BY <1>1
  <2>4. Size(s \o u(0)) = Size(s) /\ Size(u(0)) = 0
    BY <2>3, SizeEmpty, Zenon
  <2> QED BY <2>1, <2>2, <2>4
<1>3. ASSUME NEW n \in 0 .. Len(t) - 1, n \in P PROVE n + 1 \in P
  <2>1. n \in 0 .. Len(t) /\ n + 1 \in 0 .. Len(t)
    BY <1>1
  <2>2. u(n) \in Seq(Symbols) /\ s \o u(n) \in Seq(Symbols) /\ t[n + 1] \in Symbols
    <3>1. u(n) \in Seq(Symbols)
      BY <1>1, <2>1
    <3> QED BY <1>1, <3>1, ConcatProperties
  <2>3. Size(u(n + 1)) = Size(u(n)) + Weight(t[n + 1])
    BY <1>1, <2>2, SizeAppend
  <2>4. Size(s \o u(n + 1)) = Size(s \o u(n)) + Weight(t[n + 1])
    BY <1>1, <2>2, SizeAppend
  <2>5. Size(u(n)) \in Nat /\ Size(s) \in Nat /\ Weight(t[n + 1]) \in Nat
    BY <2>2, SizeAppend
  <2>6. Size(s \o u(n)) = Size(s) + Size(u(n))
    BY <1>3
  <2> QED BY <2>1, <2>3, <2>4, <2>5, <2>6
<1>4. Len(t) \in P
  <2>1. \A n \in 0 .. Len(t) : n \in P
    <3> HIDE DEF P
    <3> QED BY <1>1, <1>2, <1>3, Upwards
  <2> QED BY <1>1, <2>1
<1> QED BY <1>1, <1>4

(* What process_line() takes of a line is no longer than the line. *)
LEMMA LineSizes ==
  ASSUME NEW s \in Seq(Symbols)
  PROVE  /\ Size(s) \in Nat
         /\ WithoutCR(s) \in Seq(Symbols)
         /\ Size(WithoutCR(s)) <= Size(s)
         /\ s # <<>> => /\ Tail(s) \in Seq(Symbols)
                        /\ Size(Tail(s)) \in Nat
                        /\ Size(Tail(s)) <= Size(s)
<1>1. ASSUME NEW q \in Seq(Symbols) PROVE Size(q) \in Nat
  BY SizeNat
<1>2. WithoutCR(s) \in Seq(Symbols) /\ Size(WithoutCR(s)) <= Size(s)
  <2>1. CASE s = <<>> \/ Last(s) # "cr"
    BY <1>1, <2>1 DEF WithoutCR
  <2>2. CASE s # <<>> /\ Last(s) = "cr"
    <3>1. Len(s) \in Nat /\ Len(s) # 0
      BY <2>2, EmptySeq
    <3>2. 1 \in 1 .. Len(s) /\ Len(s) \in 1 .. Len(s) /\ Last(s) \in Symbols
      BY <3>1 DEF Last
    <3>3. Front(s) \in Seq(Symbols)
      <4>1. 1 \in Int /\ Len(s) - 1 \in Int
            /\ \A i \in 1 .. Len(s) - 1 : s[i] \in Symbols
        BY <3>1
      <4> QED BY <4>1, SubSeqProperties DEF Front
    <3>4. s = Front(s) \o <<Last(s)>>
      <4>1. SubSeq(s, 1, Len(s)) = s
        BY SubSeqFull
      <4>2. Len(s) \in 1 .. Len(s)
        BY <3>2
      <4>3. SubSeq(s, 1, Len(s)) = SubSeq(s, 1, Len(s) - 1) \o <<s[Len(s)]>>
        BY <3>2, <4>2, SubSeqRecursiveSecond
      <4> QED BY <4>1, <4>3 DEF Front, Last
    <3>5. s = Append(Front(s), Last(s))
      BY <3>2, <3>3, <3>4, AppendIsConcat
    <3>6. Size(s) = Size(Front(s)) + Weight(Last(s)) /\ Size(Front(s)) \in Nat
          /\ Weight(Last(s)) \in Nat
      <4> DEFINE f == Front(s)
                 l == Last(s)
      <4>1. f \in Seq(Symbols) /\ l \in Symbols /\ s = Append(f, l)
        BY <3>2, <3>3, <3>5
      <4> HIDE DEF f, l
      <4>2. Size(Append(f, l)) = Size(f) + Weight(l) /\ Size(f) \in Nat
            /\ Weight(l) \in Nat
        BY <4>1, SizeAppend
      <4> QED BY <4>1, <4>2 DEF f, l
    <3>7. WithoutCR(s) = Front(s)
      BY <2>2 DEF WithoutCR
    <3> QED BY <3>3, <3>6, <3>7
  <2> QED BY <2>1, <2>2
<1>3. ASSUME s # <<>>
      PROVE  Tail(s) \in Seq(Symbols) /\ Size(Tail(s)) <= Size(s)
  <2>1. Head(s) \in Symbols /\ Tail(s) \in Seq(Symbols)
    BY <1>3, HeadTailProperties
  <2>2. s = <<Head(s)>> \o Tail(s)
    BY <1>3, <2>1
  <2> DEFINE h == <<Head(s)>>
             t == Tail(s)
  <2>3. h \in Seq(Symbols) /\ t \in Seq(Symbols) /\ s = h \o t
    BY <2>1, <2>2
  <2> HIDE DEF h, t
  <2>4. Size(h \o t) = Size(h) + Size(t) /\ Size(h) \in Nat /\ Size(t) \in Nat
    BY <1>1, <2>3, SizeConcat
  <2>5. Size(s) = Size(h \o t)
    BY <2>3
  <2>6. Size(t) <= Size(s)
    BY <2>4, <2>5
  <2> QED BY <2>3, <2>6 DEF t
<1> QED BY <1>1, <1>2, <1>3

-----------------------------------------------------------------------------
(* What the decoder holds. *)
Names == Seq(Symbols \cup {"none"})

DecoderType ==
  [buffer : Seq(Symbols), event : Names, lines : Seq(Seq(Symbols)),
   bytes : Nat, overflow : BOOLEAN,
   events : Seq([event : Names, data : Seq(Seq(Symbols))])]

LEMMA DispatchTyped ==
  ASSUME NEW d \in DecoderType
  PROVE  Dispatch(d) \in DecoderType
<1>1. NoName \in Names
  BY DEF NoName, Names
<1>2. Event(d.event, d.lines) \in [event : Names, data : Seq(Seq(Symbols))]
  BY DEF DecoderType, Event
<1> DEFINE E == [event : Names, data : Seq(Seq(Symbols))]
           e == Event(d.event, d.lines)
<1>3. d.events \in Seq(E) /\ e \in E
  BY <1>2 DEF DecoderType
<1> HIDE DEF E, e
<1>4. Append(d.events, e) \in Seq(E)
  BY <1>3
<1>5. <<>> \in Seq(Seq(Symbols))
  OBVIOUS
<1> QED
  BY <1>1, <1>4, <1>5 DEF Dispatch, DecoderType, E, e

LEMMA ProcessedTyped ==
  ASSUME NEW d \in DecoderType, NEW line \in Seq(Symbols)
  PROVE  Processed(d, line) \in DecoderType
<1>1. CASE line = <<>>
  BY <1>1, DispatchTyped DEF Processed
<1>2. CASE line # <<>>
  <2>1. Tail(line) \in Seq(Symbols) /\ Size(Tail(line)) \in Nat
    BY <1>2, LineSizes
  <2>2. Append(d.lines, Tail(line)) \in Seq(Seq(Symbols))
    BY <2>1 DEF DecoderType
  <2>3. Tail(line) \in Names
    BY <2>1, SeqMonotonic DEF Names
  <2>4. d.bytes + Size(Tail(line)) \in Nat
    BY <2>1 DEF DecoderType
  <2> QED
    BY <1>2, <2>2, <2>3, <2>4 DEF Processed, DecoderType
<1> QED BY <1>1, <1>2

LEMMA FedTyped ==
  ASSUME NEW d \in DecoderType, NEW c \in Symbols
  PROVE  Fed(d, c) \in DecoderType
<1>1. CASE d.overflow
  BY <1>1 DEF Fed
<1>2. CASE ~d.overflow /\ c # "lf"
  <2>1. Append(d.buffer, c) \in Seq(Symbols)
    BY DEF DecoderType
  <2> QED BY <1>2, <2>1 DEF Fed, DecoderType
<1>3. CASE ~d.overflow /\ c = "lf"
  <2> DEFINE clear == [d EXCEPT !.buffer = <<>>]
             line == WithoutCR(d.buffer)
             next == Processed(clear, line)
  <2>1. <<>> \in Seq(Symbols) /\ d.buffer \in Seq(Symbols)
    BY DEF DecoderType
  <2>2. clear \in DecoderType
    BY <2>1 DEF DecoderType
  <2>3. line \in Seq(Symbols)
    BY <2>1, LineSizes
  <2>4. next \in DecoderType
    BY <2>2, <2>3, ProcessedTyped
  <2>5. Fed(d, c) = [next EXCEPT !.overflow = next.bytes > Limit]
    BY <1>3 DEF Fed
  <2> HIDE DEF next
  <2>6. (next.bytes > Limit) \in BOOLEAN
    OBVIOUS
  <2> QED BY <2>4, <2>5, <2>6 DEF DecoderType
<1>4. d.overflow \in BOOLEAN
  BY DEF DecoderType
<1> QED BY <1>1, <1>2, <1>3, <1>4

(* The loop over a chunk: what each symbol makes of what the one before it *)
(* left.                                                                   *)
LEMMA FedStepByStep ==
  ASSUME NEW d \in DecoderType, NEW chunk \in Seq(Symbols)
  PROVE  \E after \in [0 .. Len(chunk) -> DecoderType] :
           /\ after[0] = d
           /\ \A n \in 0 .. Len(chunk) - 1 :
                after[n + 1] = Fed(after[n], chunk[n + 1])
           /\ after[Len(chunk)] = FedAll(d, chunk)
<1> DEFINE Body(f, N) == [n \in 0 .. N |-> IF n = 0 THEN d
                                           ELSE Fed(f[n - 1], chunk[n])]
           P == {N \in 0 .. Len(chunk) : \E f : f = Body(f, N)}
           after == CHOOSE f : f = Body(f, Len(chunk))
<1>1. Len(chunk) \in Nat /\ \A n \in 0 .. Len(chunk) - 1 : chunk[n + 1] \in Symbols
  OBVIOUS
<1>2. 0 \in P
  <2> DEFINE f == [n \in 0 .. 0 |-> d]
  <2>1. f = Body(f, 0)
    OBVIOUS
  <2>2. 0 \in 0 .. Len(chunk)
    BY <1>1
  <2> HIDE DEF f, Body
  <2>3. \E h : h = Body(h, 0)
    BY <2>1, Zenon
  <2> QED BY <2>2, <2>3
<1>3. ASSUME NEW N \in 0 .. Len(chunk) - 1, N \in P PROVE N + 1 \in P
  <2>1. PICK f : f = Body(f, N)
    BY <1>3
  <2> DEFINE g == [n \in 0 .. N + 1 |-> IF n <= N THEN f[n]
                                        ELSE Fed(f[N], chunk[N + 1])]
  <2>2. N \in Nat /\ N + 1 \in 0 .. Len(chunk)
    BY <1>1
  <2>3. ASSUME NEW n \in 0 .. N + 1
        PROVE  g[n] = IF n = 0 THEN d ELSE Fed(g[n - 1], chunk[n])
    <3>1. CASE n <= N
      <4>1. n \in 0 .. N /\ (n # 0 => n - 1 \in 0 .. N + 1 /\ n - 1 <= N)
        BY <2>2, <3>1
      <4>2. f[n] = IF n = 0 THEN d ELSE Fed(f[n - 1], chunk[n])
        BY <2>1, <4>1, Zenon
      <4>3. g[n] = f[n] /\ (n # 0 => g[n - 1] = f[n - 1])
        BY <3>1, <4>1
      <4> QED BY <4>2, <4>3
    <3>2. CASE n = N + 1
      <4>1. n # 0 /\ n - 1 = N /\ ~(n <= N) /\ N \in 0 .. N + 1 /\ N <= N
        BY <2>2, <3>2
      <4>2. g[n] = Fed(f[N], chunk[N + 1]) /\ g[N] = f[N]
        BY <4>1
      <4> QED BY <3>2, <4>1, <4>2
    <3> QED BY <2>2, <3>1, <3>2
  <2>4. g = Body(g, N + 1)
    <3>1. g = [n \in 0 .. N + 1 |-> g[n]]
      OBVIOUS
    <3> HIDE DEF g
    <3> QED BY <2>3, <3>1, Zenon
  <2> HIDE DEF g, Body
  <2> QED BY <2>2, <2>4
<1>4. after = Body(after, Len(chunk))
  <2>1. \A N \in 0 .. Len(chunk) : N \in P
    <3> HIDE DEF P
    <3> QED BY <1>1, <1>2, <1>3, Upwards
  <2>2. \E f : f = Body(f, Len(chunk))
    <3>1. Len(chunk) \in P
      BY <1>1, <2>1
    <3> QED BY <3>1, Zenon
  <2> HIDE DEF Body
  <2> QED BY <2>2, Zenon
<1>5. FedAll(d, chunk) = after[Len(chunk)]
  BY DEF FedAll
<1> HIDE DEF after
<1>6. after[0] = d
  BY <1>1, <1>4
<1>7. ASSUME NEW n \in 0 .. Len(chunk) - 1
      PROVE  after[n + 1] = Fed(after[n], chunk[n + 1])
  <2>1. n + 1 \in 0 .. Len(chunk) /\ n + 1 # 0 /\ (n + 1) - 1 = n
    BY <1>1
  <2>2. after[n + 1] = Fed(after[(n + 1) - 1], chunk[n + 1])
    BY <1>4, <2>1, Zenon
  <2> QED BY <2>1, <2>2
<1>8. \A n \in 0 .. Len(chunk) : after[n] \in DecoderType
  <2> DEFINE Q == {n \in 0 .. Len(chunk) : after[n] \in DecoderType}
  <2>1. 0 \in Q
    BY <1>1, <1>6
  <2>2. ASSUME NEW n \in 0 .. Len(chunk) - 1, n \in Q PROVE n + 1 \in Q
    BY <1>1, <1>7, <2>2, FedTyped
  <2>3. \A n \in 0 .. Len(chunk) : n \in Q
    <3> HIDE DEF Q
    <3> QED BY <1>1, <2>1, <2>2, Upwards
  <2> QED BY <2>3
<1>9. after \in [0 .. Len(chunk) -> DecoderType]
  <2>1. after = [n \in 0 .. Len(chunk) |-> after[n]]
    BY <1>4, Zenon
  <2> QED BY <1>8, <2>1
<1> QED BY <1>5, <1>6, <1>7, <1>9

-----------------------------------------------------------------------------
(* A cut in the stream before symbol c: what is complete already does not  *)
(* depend on what follows.                                                 *)
LEMMA SubSeqAppend ==
  ASSUME NEW T, NEW s \in Seq(T), NEW c \in T,
         NEW a \in Nat \ {0}, NEW b \in Int, b <= Len(s)
  PROVE  /\ SubSeq(Append(s, c), a, b) = SubSeq(s, a, b)
         /\ SubSeq(s, a, b) \in Seq(T)
<1>1. /\ Len(s) \in Nat /\ \A i \in 1 .. Len(s) : s[i] \in T
      /\ \A i \in 1 .. Len(s) : Append(s, c)[i] = s[i]
  OBVIOUS
<1>2. \A i \in a .. b : s[i] \in T /\ Append(s, c)[i] = s[i]
  BY <1>1
<1>3. a \in Int /\ b \in Int
  OBVIOUS
<1> DEFINE t == Append(s, c)
<1>4. \A i \in a .. b : t[i] \in T
  BY <1>2
<1> HIDE DEF t
<1>5. /\ SubSeq(s, a, b) \in Seq(T)
      /\ Len(SubSeq(s, a, b)) = IF a <= b THEN b - a + 1 ELSE 0
      /\ \A i \in 1 .. b - a + 1 : SubSeq(s, a, b)[i] = s[a + i - 1]
  BY <1>2, <1>3, SubSeqProperties
<1>6. /\ SubSeq(t, a, b) \in Seq(T)
      /\ Len(SubSeq(t, a, b)) = IF a <= b THEN b - a + 1 ELSE 0
      /\ \A i \in 1 .. b - a + 1 : SubSeq(t, a, b)[i] = t[a + i - 1]
  BY <1>3, <1>4, SubSeqProperties
<1>7. \A i \in 1 .. Len(SubSeq(t, a, b)) :
        SubSeq(t, a, b)[i] = SubSeq(s, a, b)[i]
  <2>1. \A i \in 1 .. Len(SubSeq(t, a, b)) :
          i \in 1 .. b - a + 1 /\ a + i - 1 \in a .. b
    BY <1>3, <1>6
  <2>2. \A k \in a .. b : t[k] = s[k]
    BY <1>2 DEF t
  <2> QED BY <1>5, <1>6, <2>1, <2>2
<1>8. SubSeq(t, a, b) = SubSeq(s, a, b)
  BY <1>5, <1>6, <1>7, SeqEqual
<1> QED BY <1>5, <1>8 DEF t

(* Where the lines of a stream end: at 0, so to speak, then at each LF. *)
CutSet(s) == {0} \cup {i \in DOMAIN s : s[i] = "lf"}

LEMMA CutsOf ==
  ASSUME NEW s \in Seq(Symbols)
  PROVE  /\ CutSet(s) \in SUBSET Nat /\ IsFiniteSet(CutSet(s))
         /\ Cuts(s) = InOrder(CutSet(s))
         /\ Len(s) \in Nat
         /\ Cuts(s) \in Seq(0 .. Len(s))
         /\ Len(Cuts(s)) \in Nat \ {0}
         /\ \A n \in 1 .. Len(Cuts(s)) : Cuts(s)[n] \in 0 .. Len(s)
         /\ Last(Cuts(s)) \in 0 .. Len(s)
<1>1. Len(s) \in Nat /\ DOMAIN s = 1 .. Len(s)
  OBVIOUS
<1>2. CutSet(s) \in SUBSET (0 .. Len(s))
  BY <1>1 DEF CutSet
<1>3. IsFiniteSet(CutSet(s))
  <2>1. 0 \in Int /\ Len(s) \in Int
    BY <1>1
  <2>2. IsFiniteSet(0 .. Len(s))
    BY <2>1, FS_Interval
  <2> QED BY <1>2, <2>2, FS_Subset
<1>4. CutSet(s) \in SUBSET Nat
  BY <1>1, <1>2
<1>5. Cuts(s) = InOrder(CutSet(s))
  BY DEF Cuts, CutSet
<1>6. /\ Cuts(s) \in Seq(CutSet(s))
      /\ Len(Cuts(s)) = Cardinality(CutSet(s))
  BY <1>3, <1>4, <1>5, InOrderIsList
<1>7. Cardinality(CutSet(s)) \in Nat \ {0}
  <2>1. CutSet(s) # {}
    BY DEF CutSet
  <2> QED BY <1>3, <2>1, FS_EmptySet, FS_CardinalityType
<1>8. \A n \in 1 .. Len(Cuts(s)) : Cuts(s)[n] \in 0 .. Len(s)
  BY <1>2, <1>6
<1>9. Last(Cuts(s)) \in 0 .. Len(s)
  BY <1>6, <1>7, <1>8 DEF Last
<1>10. Cuts(s) \in Seq(0 .. Len(s))
  BY <1>2, <1>6, SeqMonotonic
<1> QED BY <1>1, <1>3, <1>4, <1>5, <1>6, <1>7, <1>8, <1>9, <1>10

LEMMA LinesTyped ==
  ASSUME NEW s \in Seq(Symbols)
  PROVE  /\ Lines(s) \in Seq(Seq(Symbols))
         /\ Len(Lines(s)) = Len(Cuts(s)) - 1
         /\ \A n \in 1 .. Len(Cuts(s)) - 1 :
              /\ Cuts(s)[n] + 1 \in Nat \ {0}
              /\ Cuts(s)[n + 1] - 1 \in Int
              /\ Cuts(s)[n + 1] - 1 <= Len(s)
              /\ Lines(s)[n] = WithoutCR(SubSeq(s, Cuts(s)[n] + 1,
                                                   Cuts(s)[n + 1] - 1))
         /\ Rest(s) \in Seq(Symbols)
<1> DEFINE cuts == Cuts(s)
           m == Len(cuts) - 1
<1>1. /\ Len(cuts) \in Nat \ {0} /\ m \in Nat /\ Len(s) \in Nat
      /\ \A n \in 1 .. Len(cuts) : cuts[n] \in 0 .. Len(s)
      /\ Last(cuts) \in 0 .. Len(s)
  BY CutsOf
<1>2. \A i \in 1 .. Len(s) : s[i] \in Symbols
  OBVIOUS
<1> HIDE DEF cuts
<1>3. ASSUME NEW n \in 1 .. m
      PROVE  /\ cuts[n] + 1 \in Nat \ {0} /\ cuts[n + 1] - 1 \in Int
             /\ cuts[n + 1] - 1 <= Len(s)
             /\ WithoutCR(SubSeq(s, cuts[n] + 1, cuts[n + 1] - 1))
                  \in Seq(Symbols)
  <2>1. cuts[n] \in 0 .. Len(s) /\ cuts[n + 1] \in 0 .. Len(s)
    BY <1>1
  <2> DEFINE a == cuts[n] + 1
             b == cuts[n + 1] - 1
  <2>2. a \in Int /\ b \in Int /\ \A i \in a .. b : s[i] \in Symbols
    BY <1>1, <1>2, <2>1
  <2> HIDE DEF a, b
  <2>3. SubSeq(s, a, b) \in Seq(Symbols)
    BY <2>2, SubSeqProperties
  <2>4. WithoutCR(SubSeq(s, a, b)) \in Seq(Symbols)
    BY <2>3, LineSizes
  <2> QED BY <1>1, <2>1, <2>4 DEF a, b
<1>4. Lines(s) = [n \in 1 .. m |->
                    WithoutCR(SubSeq(s, cuts[n] + 1, cuts[n + 1] - 1))]
  BY DEF Lines, cuts
<1>5. Rest(s) \in Seq(Symbols)
  <2>1. Last(cuts) + 1 \in Int /\ Len(s) \in Int
        /\ \A i \in Last(cuts) + 1 .. Len(s) : s[i] \in Symbols
    BY <1>1, <1>2
  <2> QED BY <2>1, SubSeqProperties DEF Rest, cuts
<1> HIDE DEF m
<1>6. Lines(s) \in Seq(Seq(Symbols)) /\ Len(Lines(s)) = m
  BY <1>1, <1>3, <1>4
<1>7. \A n \in 1 .. m :
        Lines(s)[n] = WithoutCR(SubSeq(s, cuts[n] + 1, cuts[n + 1] - 1))
  BY <1>4, Zenon
<1> QED BY <1>3, <1>5, <1>6, <1>7 DEF m, cuts

(* A symbol that ends no line lengthens the unfinished one. *)
LEMMA LinesBefore ==
  ASSUME NEW s \in Seq(Symbols), NEW c \in Symbols, c # "lf"
  PROVE  /\ Lines(Append(s, c)) = Lines(s)
         /\ Rest(Append(s, c)) = Append(Rest(s), c)
<1> DEFINE t == Append(s, c)
           cuts == Cuts(s)
<1>1. /\ t \in Seq(Symbols) /\ Len(t) = Len(s) + 1 /\ Len(s) \in Nat
      /\ DOMAIN t = 1 .. Len(s) + 1 /\ DOMAIN s = 1 .. Len(s)
      /\ \A i \in 1 .. Len(s) : t[i] = s[i]
      /\ t[Len(s) + 1] = c
  BY AppendProperties
<1> HIDE DEF t
<1>2. CutSet(t) = CutSet(s)
  BY <1>1 DEF CutSet
<1>3. Cuts(t) = cuts
  BY <1>1, <1>2, CutsOf
<1>4. /\ Len(cuts) \in Nat \ {0} /\ Last(cuts) \in 0 .. Len(s)
      /\ \A n \in 1 .. Len(cuts) - 1 :
           /\ cuts[n] + 1 \in Nat \ {0} /\ cuts[n + 1] - 1 \in Int
           /\ cuts[n + 1] - 1 <= Len(s)
  BY CutsOf, LinesTyped
<1> HIDE DEF cuts
<1>5. ASSUME NEW n \in 1 .. Len(cuts) - 1
      PROVE  SubSeq(t, cuts[n] + 1, cuts[n + 1] - 1)
               = SubSeq(s, cuts[n] + 1, cuts[n + 1] - 1)
  <2> DEFINE a == cuts[n] + 1
             b == cuts[n + 1] - 1
  <2>1. a \in Nat \ {0} /\ b \in Int /\ b <= Len(s)
    BY <1>4
  <2> HIDE DEF a, b
  <2>2. SubSeq(t, a, b) = SubSeq(s, a, b)
    BY <2>1, SubSeqAppend DEF t
  <2> QED BY <2>2 DEF a, b
<1>6. Lines(t) = Lines(s)
  <2>1. Lines(t) = [n \in 1 .. Len(cuts) - 1 |->
                      WithoutCR(SubSeq(t, cuts[n] + 1, cuts[n + 1] - 1))]
    BY <1>3 DEF Lines
  <2>2. Lines(s) = [n \in 1 .. Len(cuts) - 1 |->
                      WithoutCR(SubSeq(s, cuts[n] + 1, cuts[n + 1] - 1))]
    BY DEF Lines, cuts
  <2> QED BY <1>5, <2>1, <2>2, Zenon
<1>7. Rest(t) = Append(Rest(s), c)
  <2> DEFINE a == Last(cuts) + 1
  <2>1. Rest(t) = SubSeq(t, a, Len(s) + 1)
    BY <1>1, <1>3 DEF Rest
  <2>2. Rest(s) = SubSeq(s, a, Len(s))
    BY DEF Rest, cuts
  <2>3. a \in Nat \ {0} /\ a \in 1 .. Len(t) /\ Len(s) + 1 \in a .. Len(t)
        /\ (Len(s) + 1) - 1 = Len(s) /\ Len(s) \in Int /\ Len(s) <= Len(s)
    BY <1>1, <1>4
  <2> HIDE DEF a
  <2>4. SubSeq(t, a, Len(s) + 1) = SubSeq(t, a, Len(s)) \o <<c>>
    BY <1>1, <2>3, SubSeqRecursiveSecond
  <2>5. SubSeq(t, a, Len(s)) = SubSeq(s, a, Len(s))
        /\ SubSeq(s, a, Len(s)) \in Seq(Symbols)
    BY <2>3, SubSeqAppend DEF t
  <2>6. Append(Rest(s), c) = Rest(s) \o <<c>>
    BY <2>2, <2>5, AppendIsConcat
  <2> QED BY <2>1, <2>2, <2>4, <2>5, <2>6
<1> QED BY <1>6, <1>7 DEF t

(* A newline makes a complete line of it. *)
LEMMA LinesAtNewline ==
  ASSUME NEW s \in Seq(Symbols)
  PROVE  /\ Lines(Append(s, "lf")) = Append(Lines(s), WithoutCR(Rest(s)))
         /\ Rest(Append(s, "lf")) = <<>>
<1> DEFINE t == Append(s, "lf")
           cuts == Cuts(s)
           more == Cuts(t)
           N == Len(cuts)
<1>1. /\ t \in Seq(Symbols) /\ Len(t) = Len(s) + 1 /\ Len(s) \in Nat
      /\ DOMAIN t = 1 .. Len(s) + 1 /\ DOMAIN s = 1 .. Len(s)
      /\ \A i \in 1 .. Len(s) : t[i] = s[i]
      /\ t[Len(s) + 1] = "lf"
  <2>1. "lf" \in Symbols
    BY DEF Symbols
  <2> QED BY <2>1, AppendProperties
<1> HIDE DEF t
<1>2. CutSet(t) = CutSet(s) \cup {Len(s) + 1}
  BY <1>1 DEF CutSet
<1>3. /\ N \in Nat \ {0} /\ Last(cuts) \in 0 .. Len(s)
      /\ cuts \in Seq(0 .. Len(s))
      /\ cuts = InOrder(CutSet(s)) /\ more = InOrder(CutSet(t))
      /\ CutSet(s) \in SUBSET Nat /\ IsFiniteSet(CutSet(s))
      /\ \A n \in 1 .. N - 1 :
           /\ cuts[n] + 1 \in Nat \ {0} /\ cuts[n + 1] - 1 \in Int
           /\ cuts[n + 1] - 1 <= Len(s)
  BY <1>1, CutsOf, LinesTyped
<1>4. more = Append(cuts, Len(s) + 1)
  <2>1. \A i \in CutSet(s) : i < Len(s) + 1
    BY <1>1 DEF CutSet
  <2>2. Len(s) + 1 \in Nat
    BY <1>1
  <2>3. InOrder(CutSet(s) \cup {Len(s) + 1})
          = Append(InOrder(CutSet(s)), Len(s) + 1)
    BY <1>3, <2>1, <2>2, InOrderAppend
  <2> QED BY <1>2, <1>3, <2>3
<1> HIDE DEF cuts, more
<1>5. /\ Len(more) = N + 1 /\ Last(more) = Len(s) + 1 /\ N \in Nat
      /\ \A n \in 1 .. N : more[n] = cuts[n]
      /\ more[N + 1] = Len(s) + 1
  <2>1. cuts \in Seq(Nat) /\ Len(s) + 1 \in Nat
    <3>1. 0 .. Len(s) \subseteq Nat
      OBVIOUS
    <3> QED BY <1>1, <1>3, <3>1, SeqMonotonic
  <2>2. /\ Len(Append(cuts, Len(s) + 1)) = Len(cuts) + 1
        /\ \A n \in 1 .. Len(cuts) : Append(cuts, Len(s) + 1)[n] = cuts[n]
        /\ Append(cuts, Len(s) + 1)[Len(cuts) + 1] = Len(s) + 1
    BY <2>1, AppendProperties
  <2> QED BY <1>3, <1>4, <2>2 DEF Last
<1>6. Rest(t) = <<>>
  <2>1. Rest(t) = SubSeq(t, Len(s) + 1 + 1, Len(s) + 1)
    BY <1>1, <1>5 DEF Rest, more
  <2>2. Len(s) + 1 + 1 \in Int /\ Len(s) + 1 \in Int /\ Len(s) + 1 < Len(s) + 1 + 1
    BY <1>1
  <2> QED BY <2>1, <2>2, SubSeqEmpty
<1> HIDE DEF N
<1>7. /\ Lines(t) \in Seq(Seq(Symbols)) /\ Len(Lines(t)) = N
      /\ \A n \in 1 .. N :
           Lines(t)[n] = WithoutCR(SubSeq(t, more[n] + 1, more[n + 1] - 1))
  <2>1. Len(more) - 1 = N
    BY <1>5
  <2> QED BY <1>1, <2>1, LinesTyped DEF more
<1>8. /\ Lines(s) \in Seq(Seq(Symbols)) /\ Len(Lines(s)) = N - 1
      /\ \A n \in 1 .. N - 1 :
           Lines(s)[n] = WithoutCR(SubSeq(s, cuts[n] + 1, cuts[n + 1] - 1))
      /\ Rest(s) \in Seq(Symbols) /\ WithoutCR(Rest(s)) \in Seq(Symbols)
  BY LinesTyped, LineSizes DEF cuts, N
<1>9. ASSUME NEW n \in 1 .. N - 1 PROVE Lines(t)[n] = Lines(s)[n]
  <2>1. n \in 1 .. N /\ n + 1 \in 1 .. N
    BY <1>3
  <2>2. more[n] = cuts[n] /\ more[n + 1] = cuts[n + 1]
    BY <1>5, <2>1
  <2>3. SubSeq(t, cuts[n] + 1, cuts[n + 1] - 1)
          = SubSeq(s, cuts[n] + 1, cuts[n + 1] - 1)
    <3> DEFINE a == cuts[n] + 1
               b == cuts[n + 1] - 1
    <3>1. "lf" \in Symbols
      BY DEF Symbols
    <3>2. a \in Nat \ {0} /\ b \in Int /\ b <= Len(s)
      BY <1>3
    <3> HIDE DEF a, b
    <3>3. SubSeq(t, a, b) = SubSeq(s, a, b)
      BY <3>1, <3>2, SubSeqAppend DEF t
    <3> QED BY <3>3 DEF a, b
  <2> QED BY <1>7, <1>8, <2>1, <2>2, <2>3
<1>10. Lines(t)[N] = WithoutCR(Rest(s))
  <2>1. N \in 1 .. N
    BY <1>3
  <2>2. more[N] = Last(cuts) /\ more[N + 1] - 1 = Len(s)
    BY <1>1, <1>5, <2>1 DEF Last, N
  <2>3. SubSeq(t, Last(cuts) + 1, Len(s)) = SubSeq(s, Last(cuts) + 1, Len(s))
    <3>1. Last(cuts) + 1 \in Nat \ {0} /\ Len(s) \in Int /\ Len(s) <= Len(s)
          /\ "lf" \in Symbols
      BY <1>1, <1>3 DEF Symbols
    <3> QED BY <3>1, SubSeqAppend DEF t
  <2>4. Rest(s) = SubSeq(s, Last(cuts) + 1, Len(s))
    BY DEF Rest, cuts
  <2> QED BY <1>7, <2>1, <2>2, <2>3, <2>4
<1>11. Lines(t) = Append(Lines(s), WithoutCR(Rest(s)))
  <2> DEFINE l == WithoutCR(Rest(s))
             q == Append(Lines(s), l)
  <2>1. /\ q \in Seq(Seq(Symbols)) /\ Len(q) = N
        /\ \A n \in 1 .. N - 1 : q[n] = Lines(s)[n]
        /\ q[N] = l
    <3>1. l \in Seq(Symbols) /\ (N - 1) + 1 = N
      BY <1>3, <1>8
    <3> HIDE DEF l
    <3>2. /\ q \in Seq(Seq(Symbols)) /\ Len(q) = (N - 1) + 1
          /\ \A n \in 1 .. N - 1 : q[n] = Lines(s)[n]
          /\ q[(N - 1) + 1] = l
      BY <1>8, <3>1, AppendProperties
    <3> QED BY <3>1, <3>2
  <2>2. \A n \in 1 .. N : n \in 1 .. N - 1 \/ n = N
    BY <1>3
  <2> HIDE DEF q
  <2>3. \A n \in 1 .. N : Lines(t)[n] = q[n]
    BY <1>9, <1>10, <2>1, <2>2
  <2>4. Lines(t) = q
    BY <1>7, <2>1, <2>3, SeqEqual
  <2> QED BY <2>4 DEF q
<1> QED BY <1>6, <1>11 DEF t

LEMMA NoLines == Lines(<<>>) = <<>> /\ Rest(<<>>) = <<>>
<1>1. <<>> \in Seq(Symbols) /\ Len(<<>>) = 0
  OBVIOUS
<1>2. CutSet(<<>>) = {0}
  BY DEF CutSet
<1>3. Cuts(<<>>) = InOrder({0})
  BY <1>1, <1>2, CutsOf
<1>4. Len(Cuts(<<>>)) = 1
  <2>1. {0} \in SUBSET Nat /\ IsFiniteSet({0}) /\ Cardinality({0}) = 1
    BY FS_Singleton
  <2> QED BY <1>3, <2>1, InOrderIsList
<1>5. Lines(<<>>) \in Seq(Seq(Symbols)) /\ Len(Lines(<<>>)) = 0
  <2>1. /\ Lines(<<>>) \in Seq(Seq(Symbols))
        /\ Len(Lines(<<>>)) = Len(Cuts(<<>>)) - 1
    BY <1>1, LinesTyped, Zenon
  <2>2. Len(Lines(<<>>)) = 1 - 1
    BY <1>4, <2>1, Zenon
  <2>3. 1 - 1 = 0
    OBVIOUS
  <2> QED BY <2>1, <2>2, <2>3, Zenon
<1>6. Rest(<<>>) = <<>>
  <2>1. Last(Cuts(<<>>)) \in 0 .. 0
    BY <1>1, CutsOf
  <2>2. Last(Cuts(<<>>)) + 1 \in Int /\ 0 \in Int /\ 0 < Last(Cuts(<<>>)) + 1
    BY <2>1
  <2> QED BY <1>1, <2>2, SubSeqEmpty DEF Rest
<1> QED BY <1>5, <1>6, EmptySeq

-----------------------------------------------------------------------------
(* The lines that are fields of an event, and the events of some lines:    *)
(* each is decided by the lines before it.                                 *)
Block(lines, n, field) ==
  {i \in 1 .. n - 1 : /\ \A j \in i .. n - 1 : lines[j] # <<>>
                      /\ Head(lines[i]) = field}

LEMMA BlockOf ==
  ASSUME NEW L \in Seq(Seq(Symbols)), NEW f,
         NEW n \in 1 .. Len(L) + 1
  PROVE  /\ Block(L, n, f) \in SUBSET Nat /\ IsFiniteSet(Block(L, n, f))
         /\ Block(L, n, f) \in SUBSET (1 .. n - 1)
         /\ \A i \in Block(L, n, f) : i \in 1 .. Len(L) /\ L[i] # <<>>
<1>1. Len(L) \in Nat
  OBVIOUS
<1>2. Block(L, n, f) \in SUBSET (1 .. n - 1)
  BY DEF Block
<1>3. IsFiniteSet(Block(L, n, f))
  <2>1. 1 \in Int /\ n - 1 \in Int
    BY <1>1
  <2>2. IsFiniteSet(1 .. n - 1)
    BY <2>1, FS_Interval
  <2> QED BY <1>2, <2>2, FS_Subset
<1>4. ASSUME NEW i \in Block(L, n, f) PROVE i \in 1 .. Len(L) /\ L[i] # <<>>
  <2>1. i \in 1 .. n - 1 /\ i \in i .. n - 1
    BY <1>1, <1>2
  <2>2. L[i] # <<>>
    BY <2>1 DEF Block
  <2> QED BY <1>1, <2>1, <2>2
<1>5. Block(L, n, f) \in SUBSET Nat
  BY <1>1, <1>2
<1> QED BY <1>2, <1>3, <1>4, <1>5

LEMMA FieldsOf ==
  ASSUME NEW L \in Seq(Seq(Symbols)), NEW f,
         NEW n \in 1 .. Len(L) + 1
  PROVE  LET order == InOrder(Block(L, n, f))
         IN  /\ Len(order) \in Nat
             /\ order \in Seq(Block(L, n, f))
             /\ \A k \in 1 .. Len(order) :
                  /\ order[k] \in 1 .. n - 1
                  /\ order[k] \in 1 .. Len(L)
                  /\ L[order[k]] \in Seq(Symbols)
             /\ Fields(L, n, f) = [k \in 1 .. Len(order) |-> Tail(L[order[k]])]
             /\ Fields(L, n, f) \in Seq(Seq(Symbols))
             /\ Len(Fields(L, n, f)) = Len(order)
<1> DEFINE B == Block(L, n, f)
           order == InOrder(B)
<1>1. /\ B \in SUBSET Nat /\ IsFiniteSet(B) /\ B \in SUBSET (1 .. n - 1)
      /\ \A i \in B : i \in 1 .. Len(L) /\ L[i] # <<>>
  BY BlockOf
<1> HIDE DEF B
<1>2. order \in Seq(B)
  BY <1>1, InOrderIsList
<1>3. Fields(L, n, f) = [k \in DOMAIN order |-> Tail(L[order[k]])]
  BY DEF Fields, B, Block
<1> HIDE DEF order
<1>4. Len(order) \in Nat /\ DOMAIN order = 1 .. Len(order)
      /\ \A k \in 1 .. Len(order) : order[k] \in B
  BY <1>2
<1>5. ASSUME NEW k \in 1 .. Len(order)
      PROVE  /\ order[k] \in 1 .. n - 1
             /\ order[k] \in 1 .. Len(L)
             /\ L[order[k]] \in Seq(Symbols)
             /\ Tail(L[order[k]]) \in Seq(Symbols)
  <2>1. order[k] \in 1 .. Len(L) /\ L[order[k]] # <<>> /\ order[k] \in 1 .. n - 1
    BY <1>1, <1>4
  <2>2. L[order[k]] \in Seq(Symbols)
    BY <2>1, ElementOfSeq
  <2>3. Tail(L[order[k]]) \in Seq(Symbols)
    BY <2>1, <2>2, LineSizes
  <2> QED BY <2>1, <2>2, <2>3
<1>6. Fields(L, n, f) \in Seq(Seq(Symbols)) /\ Len(Fields(L, n, f)) = Len(order)
  BY <1>3, <1>4, <1>5
<1>7. Fields(L, n, f) = [k \in 1 .. Len(order) |-> Tail(L[order[k]])]
  BY <1>3, <1>4, Zenon
<1> QED BY <1>2, <1>4, <1>5, <1>6, <1>7 DEF order, B

(* The lines of a longer list, up to the shorter one's end. *)
LEMMA AppendedLine ==
  ASSUME NEW L \in Seq(Seq(Symbols)), NEW l \in Seq(Symbols)
  PROVE  /\ Append(L, l) \in Seq(Seq(Symbols))
         /\ Len(L) \in Nat
         /\ Len(Append(L, l)) = Len(L) + 1
         /\ DOMAIN L = 1 .. Len(L)
         /\ DOMAIN Append(L, l) = 1 .. Len(L) + 1
         /\ \A i \in 1 .. Len(L) : Append(L, l)[i] = L[i]
         /\ Append(L, l)[Len(L) + 1] = l
BY AppendProperties

LEMMA FieldsEarlier ==
  ASSUME NEW L \in Seq(Seq(Symbols)), NEW l \in Seq(Symbols), NEW f,
         NEW n \in 1 .. Len(L) + 1
  PROVE  Fields(Append(L, l), n, f) = Fields(L, n, f)
<1> DEFINE M == Append(L, l)
<1>1. /\ M \in Seq(Seq(Symbols)) /\ Len(L) \in Nat /\ Len(M) = Len(L) + 1
      /\ \A i \in 1 .. Len(L) : M[i] = L[i]
  BY AppendedLine
<1> HIDE DEF M
<1>2. Block(M, n, f) = Block(L, n, f)
  <2>1. \A i \in 1 .. n - 1 : M[i] = L[i]
    <3>1. \A i \in 1 .. n - 1 : i \in 1 .. Len(L)
      BY <1>1
    <3> QED BY <1>1, <3>1
  <2>2. \A i \in 1 .. n - 1 : \A j \in i .. n - 1 : j \in 1 .. n - 1
    BY <1>1
  <2> QED BY <2>1, <2>2 DEF Block
<1> DEFINE order == InOrder(Block(L, n, f))
<1>3. /\ Fields(L, n, f) = [k \in 1 .. Len(order) |-> Tail(L[order[k]])]
      /\ \A k \in 1 .. Len(order) : order[k] \in 1 .. Len(L)
  BY FieldsOf
<1>4. n \in 1 .. Len(M) + 1
  BY <1>1
<1>5. Fields(M, n, f) = [k \in 1 .. Len(order) |-> Tail(M[order[k]])]
  <2> DEFINE its == InOrder(Block(M, n, f))
  <2>1. Fields(M, n, f) = [k \in 1 .. Len(its) |-> Tail(M[its[k]])]
    BY <1>1, <1>4, FieldsOf
  <2>2. its = order
    BY <1>2
  <2> HIDE DEF its, order
  <2> QED BY <2>1, <2>2, Zenon
<1> HIDE DEF order
<1>6. \A k \in 1 .. Len(order) : M[order[k]] = L[order[k]]
  BY <1>1, <1>3
<1> QED BY <1>3, <1>5, <1>6, Zenon DEF M

LEMMA FieldsAppend ==
  ASSUME NEW L \in Seq(Seq(Symbols)), NEW l \in Seq(Symbols), NEW f
  PROVE  LET old == Fields(L, Len(L) + 1, f)
         IN  Fields(Append(L, l), Len(L) + 2, f)
               = IF l = <<>> THEN <<>>
                 ELSE IF Head(l) = f THEN Append(old, Tail(l)) ELSE old
<1> DEFINE M == Append(L, l)
           n == Len(L) + 1
           old == Fields(L, n, f)
           new == Fields(M, n + 1, f)
           B == Block(L, n, f)
           C == Block(M, n + 1, f)
<1>1. /\ M \in Seq(Seq(Symbols)) /\ Len(L) \in Nat /\ Len(M) = Len(L) + 1
      /\ \A i \in 1 .. Len(L) : M[i] = L[i]
      /\ M[n] = l
  BY AppendedLine
<1>2. n \in 1 .. Len(L) + 1 /\ n + 1 \in 1 .. Len(M) + 1 /\ n \in Nat
      /\ n - 1 = Len(L) /\ (n + 1) - 1 = n /\ n + 1 = Len(L) + 2
  BY <1>1
<1> HIDE DEF M, n
<1>3. LET order == InOrder(B)
      IN  /\ Len(order) \in Nat
          /\ order \in Seq(B)
          /\ \A k \in 1 .. Len(order) : order[k] \in 1 .. n - 1
          /\ old = [k \in 1 .. Len(order) |-> Tail(L[order[k]])]
          /\ old \in Seq(Seq(Symbols))
          /\ Len(old) = Len(order)
  BY <1>2, FieldsOf
<1>4. LET order == InOrder(C)
      IN  /\ new = [k \in 1 .. Len(order) |-> Tail(M[order[k]])]
          /\ new \in Seq(Seq(Symbols))
          /\ Len(new) = Len(order)
  BY <1>1, <1>2, FieldsOf
<1>5. C = {i \in 1 .. n : /\ \A j \in i .. n : M[j] # <<>>
                          /\ Head(M[i]) = f}
  BY <1>2 DEF Block
<1>6. B = {i \in 1 .. n - 1 : /\ \A j \in i .. n - 1 : L[j] # <<>>
                              /\ Head(L[i]) = f}
  BY DEF Block
<1>7. ASSUME NEW i \in 1 .. n - 1, l # <<>>
      PROVE  i \in C <=> i \in B
  <2>1. i \in 1 .. n /\ M[i] = L[i]
    BY <1>1, <1>2
  <2>2. (\A j \in i .. n : M[j] # <<>>) <=> \A j \in i .. n - 1 : L[j] # <<>>
    <3>1. \A j \in i .. n : j \in i .. n - 1 \/ j = n
      BY <1>2
    <3>2. \A j \in i .. n - 1 : j \in i .. n /\ j \in 1 .. Len(L)
      BY <1>1, <1>2
    <3> QED BY <1>1, <1>7, <3>1, <3>2
  <2> HIDE DEF B, C
  <2> QED BY <1>5, <1>6, <2>1, <2>2
<1>8. n \in 1 .. n /\ \A i \in 1 .. n : i \in 1 .. n - 1 \/ i = n
  BY <1>1, <1>2
<1>9. l # <<>> => (n \in C <=> Head(l) = f)
  <2>1. \A j \in n .. n : j = n
    BY <1>2
  <2> HIDE DEF C
  <2> QED BY <1>1, <1>5, <1>8, <2>1
<1> HIDE DEF B, C, old, new
<1>10. CASE l = <<>>
  <2>1. \A i \in 1 .. n : n \in i .. n
    BY <1>2
  <2>2. C = {}
    BY <1>1, <1>5, <1>10, <2>1
  <2>3. Len(InOrder(C)) = 0
    <3>1. {} \in SUBSET Nat /\ IsFiniteSet({}) /\ Cardinality({}) = 0
      BY FS_EmptySet
    <3> QED BY <2>2, <3>1, InOrderIsList
  <2>4. new = <<>>
    BY <1>4, <2>3, EmptySeq
  <2> QED BY <1>2, <1>10, <2>4 DEF new, M
<1>11. CASE l # <<>> /\ Head(l) # f
  <2>1. C = B
    <3>1. \A i \in C : i \in 1 .. n
      BY <1>5
    <3>2. \A i \in B : i \in 1 .. n - 1
      BY <1>6
    <3> QED BY <1>7, <1>8, <1>9, <1>11, <3>1, <3>2
  <2> DEFINE order == InOrder(B)
  <2>2. \A k \in 1 .. Len(order) : M[order[k]] = L[order[k]]
    BY <1>1, <1>2, <1>3
  <2>3. /\ new = [k \in 1 .. Len(order) |-> Tail(M[order[k]])]
        /\ old = [k \in 1 .. Len(order) |-> Tail(L[order[k]])]
    BY <1>3, <1>4, <2>1
  <2> HIDE DEF order
  <2>4. new = old
    BY <2>2, <2>3, Zenon
  <2> QED BY <1>2, <1>11, <2>4 DEF new, old, M, n
<1>12. CASE l # <<>> /\ Head(l) = f
  <2>1. C = B \cup {n}
    <3>1. \A i \in C : i \in 1 .. n
      BY <1>5
    <3>2. \A i \in B : i \in 1 .. n - 1
      BY <1>6
    <3> QED BY <1>7, <1>8, <1>9, <1>12, <3>1, <3>2
  <2> DEFINE order == InOrder(B)
             more == InOrder(C)
             N == Len(order)
  <2>2. more = Append(order, n)
    <3>1. B \in SUBSET Nat /\ IsFiniteSet(B) /\ B \in SUBSET (1 .. n - 1)
      BY <1>2, BlockOf DEF B
    <3>2. \A i \in B : i < n
      BY <1>2, <3>1
    <3> QED BY <1>2, <2>1, <3>1, <3>2, InOrderAppend
  <2>3. /\ N \in Nat /\ order \in Seq(B)
        /\ \A k \in 1 .. N : order[k] \in 1 .. Len(L)
        /\ old = [k \in 1 .. N |-> Tail(L[order[k]])]
        /\ old \in Seq(Seq(Symbols)) /\ Len(old) = N
    BY <1>2, <1>3
  <2>4. /\ new = [k \in 1 .. Len(more) |-> Tail(M[more[k]])]
        /\ new \in Seq(Seq(Symbols)) /\ Len(new) = Len(more)
    BY <1>4
  <2> HIDE DEF order, more
  <2>5. /\ Len(more) = N + 1 /\ more[N + 1] = n
        /\ \A k \in 1 .. N : more[k] = order[k]
    <3>1. order \in Seq(B \cup {n}) /\ n \in B \cup {n}
      <4>1. B \subseteq B \cup {n}
        OBVIOUS
      <4> QED BY <2>3, <4>1, SeqMonotonic
    <3> QED BY <2>2, <3>1, AppendProperties
  <2> HIDE DEF N
  <2>6. ASSUME NEW k \in 1 .. N PROVE new[k] = old[k]
    <3>1. k \in 1 .. N + 1 /\ more[k] = order[k] /\ order[k] \in 1 .. Len(L)
      BY <2>3, <2>5
    <3>2. new[k] = Tail(M[more[k]])
      BY <2>4, <2>5, <3>1
    <3>3. old[k] = Tail(L[order[k]])
      BY <2>3
    <3> QED BY <1>1, <3>1, <3>2, <3>3
  <2>7. new[N + 1] = Tail(l)
    <3>1. N + 1 \in 1 .. N + 1
      BY <2>3
    <3>2. new[N + 1] = Tail(M[more[N + 1]])
      BY <2>4, <2>5, <3>1
    <3> QED BY <1>1, <2>5, <3>2
  <2> DEFINE q == Append(old, Tail(l))
  <2>8. /\ q \in Seq(Seq(Symbols)) /\ Len(q) = N + 1
        /\ \A k \in 1 .. N : q[k] = old[k]
        /\ q[N + 1] = Tail(l)
    <3>1. Tail(l) \in Seq(Symbols)
      BY <1>12, LineSizes
    <3> QED BY <2>3, <3>1, AppendProperties
  <2> HIDE DEF q
  <2>9. \A k \in 1 .. N + 1 : new[k] = q[k]
    <3>1. \A k \in 1 .. N + 1 : k \in 1 .. N \/ k = N + 1
      BY <2>3
    <3> QED BY <2>6, <2>7, <2>8, <3>1
  <2>10. new = q
    BY <2>4, <2>5, <2>8, <2>9, SeqEqual
  <2> QED BY <1>2, <1>12, <2>10 DEF new, old, M, n, q
<1> QED BY <1>10, <1>11, <1>12

-----------------------------------------------------------------------------
EventType == [event : Names, data : Seq(Seq(Symbols))]

(* The blank lines that end an event. *)
EndSet(L) == {n \in DOMAIN L : L[n] = <<>> /\ Fields(L, n, "data") # <<>>}

LEMMA EventTyped ==
  ASSUME NEW L \in Seq(Seq(Symbols)), NEW n \in 1 .. Len(L) + 1
  PROVE  EventBefore(L, n) \in EventType
<1> DEFINE names == Fields(L, n, "event")
           name == IF names = <<>> THEN NoName ELSE Last(names)
<1>1. names \in Seq(Seq(Symbols)) /\ Fields(L, n, "data") \in Seq(Seq(Symbols))
  BY FieldsOf
<1> HIDE DEF names
<1>2. name \in Names
  <2>1. NoName \in Names
    BY DEF NoName, Names
  <2>2. CASE names # <<>>
    <3>1. Len(names) \in 1 .. Len(names)
      BY <1>1, <2>2, EmptySeq
    <3>2. Last(names) \in Seq(Symbols)
      BY <1>1, <3>1, ElementOfSeq DEF Last
    <3>3. Last(names) \in Names
      BY <3>2, SeqMonotonic DEF Names
    <3> QED BY <2>2, <3>3
  <2> QED BY <2>1, <2>2
<1>3. EventBefore(L, n) = [event |-> name, data |-> Fields(L, n, "data")]
  BY DEF EventBefore, Event, names
<1> HIDE DEF name
<1> QED BY <1>1, <1>2, <1>3 DEF EventType

LEMMA EventsOfLines ==
  ASSUME NEW L \in Seq(Seq(Symbols))
  PROVE  LET order == InOrder(EndSet(L))
         IN  /\ EndSet(L) \in SUBSET Nat /\ IsFiniteSet(EndSet(L))
             /\ EndSet(L) \in SUBSET (1 .. Len(L))
             /\ Len(order) \in Nat /\ order \in Seq(EndSet(L))
             /\ \A k \in 1 .. Len(order) : order[k] \in 1 .. Len(L)
             /\ EventsIn(L) = [k \in 1 .. Len(order) |-> EventBefore(L, order[k])]
             /\ EventsIn(L) \in Seq(EventType)
             /\ Len(EventsIn(L)) = Len(order)
<1> DEFINE S == EndSet(L)
           order == InOrder(S)
<1>1. Len(L) \in Nat /\ S \in SUBSET (1 .. Len(L)) /\ S \in SUBSET Nat
  BY DEF EndSet
<1>2. IsFiniteSet(S)
  <2>1. 1 \in Int /\ Len(L) \in Int
    BY <1>1
  <2>2. IsFiniteSet(1 .. Len(L))
    BY <2>1, FS_Interval
  <2> QED BY <1>1, <2>2, FS_Subset
<1>3. EventsIn(L) = [k \in DOMAIN order |-> EventBefore(L, order[k])]
  BY DEF EventsIn, EndSet
<1> HIDE DEF S
<1>4. order \in Seq(S)
  BY <1>1, <1>2, InOrderIsList
<1> HIDE DEF order
<1>5. /\ Len(order) \in Nat /\ DOMAIN order = 1 .. Len(order)
      /\ \A k \in 1 .. Len(order) : order[k] \in 1 .. Len(L)
  <2>1. \A k \in 1 .. Len(order) : order[k] \in S
    BY <1>4
  <2>2. \A i \in S : i \in 1 .. Len(L)
    BY <1>1
  <2>3. Len(order) \in Nat /\ DOMAIN order = 1 .. Len(order)
    BY <1>4
  <2> QED BY <2>1, <2>2, <2>3
<1>6. EventsIn(L) = [k \in 1 .. Len(order) |-> EventBefore(L, order[k])]
  BY <1>3, <1>5, Zenon
<1>7. \A k \in 1 .. Len(order) : EventBefore(L, order[k]) \in EventType
  <2>1. \A k \in 1 .. Len(order) : order[k] \in 1 .. Len(L) + 1
    BY <1>1, <1>5
  <2> QED BY <2>1, EventTyped
<1>8. EventsIn(L) \in Seq(EventType) /\ Len(EventsIn(L)) = Len(order)
  BY <1>5, <1>6, <1>7
<1> QED BY <1>1, <1>2, <1>4, <1>5, <1>6, <1>8 DEF order, S

(* A line more is an event more exactly if it is blank and data precede it. *)
LEMMA EventsAppend ==
  ASSUME NEW L \in Seq(Seq(Symbols)), NEW l \in Seq(Symbols)
  PROVE  LET n == Len(L) + 1
         IN  EventsIn(Append(L, l))
               = IF l = <<>> /\ Fields(L, n, "data") # <<>>
                 THEN Append(EventsIn(L), EventBefore(L, n))
                 ELSE EventsIn(L)
<1> DEFINE M == Append(L, l)
           n == Len(L) + 1
           S == EndSet(L)
           U == EndSet(M)
           order == InOrder(S)
           more == InOrder(U)
           ends == l = <<>> /\ Fields(L, n, "data") # <<>>
           N == Len(order)
           old == EventsIn(L)
           new == EventsIn(M)
<1>1. /\ M \in Seq(Seq(Symbols)) /\ Len(L) \in Nat /\ Len(M) = n
      /\ DOMAIN L = 1 .. Len(L) /\ DOMAIN M = 1 .. n
      /\ \A i \in 1 .. Len(L) : M[i] = L[i]
      /\ M[n] = l
  BY AppendedLine
<1>2. \A f : \A i \in 1 .. n : Fields(M, i, f) = Fields(L, i, f)
  BY FieldsEarlier
<1>3. /\ n \in Nat /\ n = Len(L) + 1 /\ n \in 1 .. n
      /\ \A i \in 1 .. Len(L) : i \in 1 .. n /\ i < n
      /\ \A i \in 1 .. n : i \in 1 .. Len(L) \/ i = n
  BY <1>1
<1>4. /\ S \in SUBSET Nat /\ IsFiniteSet(S) /\ S \in SUBSET (1 .. Len(L))
      /\ N \in Nat /\ order \in Seq(S)
      /\ \A k \in 1 .. N : order[k] \in 1 .. Len(L)
      /\ old = [k \in 1 .. N |-> EventBefore(L, order[k])]
      /\ old \in Seq(EventType) /\ Len(old) = N
  BY EventsOfLines
<1> HIDE DEF M
<1>5. /\ new = [k \in 1 .. Len(more) |-> EventBefore(M, more[k])]
      /\ new \in Seq(EventType) /\ Len(new) = Len(more)
  BY <1>1, EventsOfLines
<1>6. \A i \in 1 .. n : EventBefore(M, i) = EventBefore(L, i)
  BY <1>2 DEF EventBefore
<1> HIDE DEF n
<1>7. U = IF ends THEN S \cup {n} ELSE S
  <2>1. ASSUME NEW i \in 1 .. Len(L) PROVE i \in U <=> i \in S
    <3>1. i \in DOMAIN L /\ i \in DOMAIN M /\ M[i] = L[i]
          /\ Fields(M, i, "data") = Fields(L, i, "data")
      BY <1>1, <1>2, <1>3
    <3> QED BY <3>1 DEF EndSet
  <2>2. n \in U <=> ends
    <3>1. n \in DOMAIN M /\ M[n] = l
          /\ Fields(M, n, "data") = Fields(L, n, "data")
      BY <1>1, <1>2, <1>3
    <3> QED BY <3>1 DEF EndSet
  <2>3. U \in SUBSET (1 .. n)
    BY <1>1 DEF EndSet
  <2> HIDE DEF U, S, ends
  <2>4. \A i \in U : i \in 1 .. Len(L) \/ i = n
    BY <1>3, <2>3
  <2>5. n \notin S
    BY <1>1, <1>3, <1>4
  <2>6. CASE ends
    BY <1>4, <2>1, <2>2, <2>4, <2>6
  <2>7. CASE ~ends
    <3>1. \A i \in U : i \in S
      BY <2>1, <2>2, <2>4, <2>7
    <3>2. \A i \in S : i \in U
      BY <1>4, <2>1
    <3>3. U = S
      BY <3>1, <3>2
    <3> QED BY <2>7, <3>3
  <2> QED BY <2>6, <2>7
<1> HIDE DEF U, S, old, new
<1>8. CASE ~ends
  <2>1. U = S
    BY <1>7, <1>8
  <2>2. more = order
    BY <2>1
  <2> HIDE DEF more, order, ends
  <2>3. new = [k \in 1 .. N |-> EventBefore(M, order[k])]
    BY <1>5, <2>2, Zenon
  <2>4. \A k \in 1 .. N : EventBefore(M, order[k]) = EventBefore(L, order[k])
    BY <1>3, <1>4, <1>6
  <2>5. new = old
    BY <1>4, <2>3, <2>4, Zenon
  <2> QED BY <1>8, <2>5 DEF new, old, M, n, ends
<1>9. CASE ends
  <2>1. more = Append(order, n)
    <3>1. \A i \in S : i < n
      BY <1>3, <1>4
    <3> HIDE DEF ends
    <3>2. U = S \cup {n}
      BY <1>7, <1>9
    <3> QED BY <1>3, <1>4, <3>1, <3>2, InOrderAppend
  <2> HIDE DEF more, order, ends
  <2>2. /\ Len(more) = N + 1 /\ more[N + 1] = n
        /\ \A k \in 1 .. N : more[k] = order[k]
    <3>1. order \in Seq(S \cup {n}) /\ n \in S \cup {n}
      <4>1. S \subseteq S \cup {n}
        OBVIOUS
      <4> QED BY <1>4, <4>1, SeqMonotonic
    <3> QED BY <2>1, <3>1, AppendProperties
  <2> HIDE DEF N
  <2>3. ASSUME NEW k \in 1 .. N PROVE new[k] = old[k]
    <3>1. k \in 1 .. N + 1 /\ more[k] = order[k] /\ order[k] \in 1 .. n
      BY <1>3, <1>4, <2>2
    <3>2. new[k] = EventBefore(M, more[k])
      BY <1>5, <2>2, <3>1
    <3>3. old[k] = EventBefore(L, order[k])
      BY <1>4
    <3> QED BY <1>6, <3>1, <3>2, <3>3
  <2> DEFINE e == EventBefore(L, n)
             q == Append(old, e)
  <2>4. new[N + 1] = e
    <3>1. N + 1 \in 1 .. N + 1
      BY <1>4
    <3>2. new[N + 1] = EventBefore(M, more[N + 1])
      BY <1>5, <2>2, <3>1
    <3> QED BY <1>3, <1>6, <2>2, <3>2
  <2>5. e \in EventType
    BY <1>3, EventTyped
  <2> HIDE DEF e
  <2>6. /\ q \in Seq(EventType) /\ Len(q) = N + 1
        /\ \A k \in 1 .. N : q[k] = old[k]
        /\ q[N + 1] = e
    BY <1>4, <2>5, AppendProperties
  <2> HIDE DEF q
  <2>7. \A k \in 1 .. N + 1 : new[k] = q[k]
    <3>1. \A k \in 1 .. N + 1 : k \in 1 .. N \/ k = N + 1
      BY <1>4
    <3> QED BY <2>3, <2>4, <2>6, <3>1
  <2>8. new = q
    BY <1>5, <2>2, <2>6, <2>7, SeqEqual
  <2> QED BY <1>9, <2>8 DEF new, old, M, n, q, e, ends
<1> QED BY <1>8, <1>9

LEMMA NoEvents ==
  /\ EventsIn(<<>>) = <<>>
  /\ \A f : Fields(<<>>, 1, f) = <<>>
<1> DEFINE L == <<>>
<1>1. L \in Seq(Seq(Symbols)) /\ Len(L) = 0
  OBVIOUS
<1> HIDE DEF L
<1>2. InOrder({}) \in Seq({}) /\ Len(InOrder({})) = 0
  <2>1. {} \in SUBSET Nat /\ IsFiniteSet({}) /\ Cardinality({}) = 0
    BY FS_EmptySet
  <2> QED BY <2>1, InOrderIsList
<1>3. EventsIn(L) = <<>>
  <2>1. /\ EndSet(L) \in SUBSET (1 .. 0)
        /\ EventsIn(L) \in Seq(EventType)
        /\ Len(EventsIn(L)) = Len(InOrder(EndSet(L)))
    BY <1>1, EventsOfLines
  <2>2. EndSet(L) = {}
    BY <2>1
  <2>3. Len(EventsIn(L)) = 0
    BY <1>2, <2>1, <2>2
  <2> QED BY <2>1, <2>3, EmptySeq
<1>4. ASSUME NEW f PROVE Fields(L, 1, f) = <<>>
  <2>1. 1 \in 1 .. Len(L) + 1
    BY <1>1
  <2>2. /\ Fields(L, 1, f) \in Seq(Seq(Symbols))
        /\ Len(Fields(L, 1, f)) = Len(InOrder(Block(L, 1, f)))
    BY <1>1, <2>1, FieldsOf
  <2>3. Block(L, 1, f) \in SUBSET (1 .. 1 - 1)
    BY <1>1, <2>1, BlockOf
  <2>4. Block(L, 1, f) = {}
    BY <2>3
  <2>5. Len(Fields(L, 1, f)) = 0
    BY <1>2, <2>2, <2>4
  <2> QED BY <2>2, <2>5, EmptySeq
<1> QED BY <1>3, <1>4 DEF L

-----------------------------------------------------------------------------
(* The decoder agrees with the lines it has processed: the events before   *)
(* this call and those of this call are theirs, and what it has of the     *)
(* next event is what the block they end in has.                           *)
NameBefore(L) ==
  LET names == Fields(L, Len(L) + 1, "event")
  IN  IF names = <<>> THEN NoName ELSE Last(names)

Agrees(d, before, L) ==
  /\ before \o d.events = EventsIn(L)
  /\ d.lines = Fields(L, Len(L) + 1, "data")
  /\ d.event = NameBefore(L)

LEMMA ProcessedAgrees ==
  ASSUME NEW d \in DecoderType, NEW before \in Seq(EventType),
         NEW L \in Seq(Seq(Symbols)), NEW l \in Seq(Symbols),
         Agrees(d, before, L)
  PROVE  Agrees(Processed(d, l), before, Append(L, l))
<1> DEFINE M == Append(L, l)
           n == Len(L) + 1
           e == EventBefore(L, n)
           datas == Fields(L, n, "data")
           names == Fields(L, n, "event")
           p == Processed(d, l)
<1>1. /\ M \in Seq(Seq(Symbols)) /\ Len(L) \in Nat /\ Len(M) = n
      /\ Len(M) + 1 = Len(L) + 2
  BY AppendedLine
<1>2. /\ before \o d.events = EventsIn(L)
      /\ d.lines = datas
      /\ d.event = IF names = <<>> THEN NoName ELSE Last(names)
  BY DEF Agrees, NameBefore
<1>3. e = Event(d.event, d.lines)
  BY <1>2 DEF EventBefore
<1>4. e \in EventType
  <2>1. n \in 1 .. Len(L) + 1
    BY <1>1
  <2> QED BY <2>1, EventTyped
<1>5. EventsIn(M) = IF l = <<>> /\ datas # <<>>
                    THEN Append(EventsIn(L), e) ELSE EventsIn(L)
  BY EventsAppend
<1>6. /\ \A f : Fields(M, Len(M) + 1, f)
                  = IF l = <<>> THEN <<>>
                    ELSE IF Head(l) = f THEN Append(Fields(L, n, f), Tail(l))
                    ELSE Fields(L, n, f)
  BY <1>1, FieldsAppend
<1>7. NameBefore(M) = LET its == Fields(M, Len(M) + 1, "event")
                      IN  IF its = <<>> THEN NoName ELSE Last(its)
  BY DEF NameBefore
<1> HIDE DEF M, n, e, datas, names
<1>8. CASE l = <<>>
  <2>1. p = Dispatch(d)
    BY <1>8 DEF Processed
  <2>2. /\ Fields(M, Len(M) + 1, "data") = <<>>
        /\ NameBefore(M) = NoName
    BY <1>6, <1>7, <1>8
  <2>3. CASE datas = <<>>
    <3>1. p.events = d.events /\ p.lines = <<>> /\ p.event = NoName
      BY <1>2, <2>1, <2>3 DEF Dispatch, DecoderType
    <3>2. EventsIn(M) = EventsIn(L)
      BY <1>5, <2>3
    <3>3. before \o p.events = EventsIn(M)
      BY <1>2, <3>1, <3>2
    <3> HIDE DEF p
    <3>4. Agrees(p, before, M)
      BY <2>2, <3>1, <3>3, Zenon DEF Agrees
    <3> QED BY <3>4 DEF p, M
  <2>4. CASE datas # <<>>
    <3>1. /\ p.events = Append(d.events, e)
          /\ p.lines = <<>> /\ p.event = NoName
      BY <1>2, <1>3, <2>1, <2>4 DEF Dispatch, DecoderType
    <3>2. d.events \in Seq(EventType)
      BY DEF DecoderType, EventType
    <3>3. before \o Append(d.events, e) = Append(before \o d.events, e)
      <4> DEFINE these == d.events
                 one == <<e>>
      <4>1. these \in Seq(EventType) /\ one \in Seq(EventType)
        BY <1>4, <3>2
      <4>2. Append(these, e) = these \o one
        BY <1>4, <4>1, AppendIsConcat
      <4> HIDE DEF these
      <4>3. before \o these \in Seq(EventType)
        BY <4>1, ConcatProperties
      <4>4. Append(before \o these, e) = (before \o these) \o one
        BY <1>4, <4>3, AppendIsConcat
      <4> HIDE DEF one
      <4>5. (before \o these) \o one = before \o (these \o one)
        BY <4>1, Regrouped
      <4> QED BY <4>2, <4>4, <4>5 DEF these
    <3>4. EventsIn(M) = Append(EventsIn(L), e)
      BY <1>5, <1>8, <2>4
    <3>5. before \o p.events = EventsIn(M)
      BY <1>2, <3>1, <3>3, <3>4, Zenon
    <3> HIDE DEF p
    <3>6. Agrees(p, before, M)
      BY <2>2, <3>1, <3>5, Zenon DEF Agrees
    <3> QED BY <3>6 DEF p, M
  <2> QED BY <2>3, <2>4
<1>9. CASE l # <<>>
  <2>1. EventsIn(M) = EventsIn(L)
    BY <1>5, <1>9
  <2>2. Tail(l) \in Seq(Symbols)
    BY <1>9, LineSizes
  <2>3. p.events = d.events
    BY <1>9 DEF Processed, DecoderType
  <2>4. before \o p.events = EventsIn(M)
    BY <1>2, <2>1, <2>3
  <2>5. p.lines = Fields(M, Len(M) + 1, "data")
    <3>1. Fields(M, Len(M) + 1, "data")
            = IF Head(l) = "data" THEN Append(datas, Tail(l)) ELSE datas
      BY <1>6, <1>9 DEF datas
    <3>2. p.lines = IF Head(l) = "data" THEN Append(d.lines, Tail(l))
                    ELSE d.lines
      BY <1>9 DEF Processed, DecoderType
    <3> QED BY <1>2, <3>1, <3>2
  <2>6. p.event = NameBefore(M)
    <3>1. Fields(M, Len(M) + 1, "event")
            = IF Head(l) = "event" THEN Append(names, Tail(l)) ELSE names
      BY <1>6, <1>9 DEF names
    <3>2. p.event = IF Head(l) = "event" THEN Tail(l) ELSE d.event
      BY <1>9 DEF Processed, DecoderType
    <3>3. /\ Append(names, Tail(l)) # <<>>
          /\ Last(Append(names, Tail(l))) = Tail(l)
      <4>1. n \in 1 .. Len(L) + 1
        BY <1>1 DEF n
      <4>2. names \in Seq(Seq(Symbols))
        BY <4>1, FieldsOf DEF names
      <4> HIDE DEF names
      <4> QED BY <2>2, <4>2, LastAppended
    <3>4. CASE Head(l) = "event"
      BY <1>7, <3>1, <3>2, <3>3, <3>4
    <3>5. CASE Head(l) # "event"
      BY <1>2, <1>7, <3>1, <3>2, <3>5
    <3> QED BY <3>4, <3>5
  <2> HIDE DEF p
  <2>7. Agrees(p, before, M)
    BY <2>4, <2>5, <2>6, Zenon DEF Agrees
  <2> QED BY <2>7 DEF p, M
<1> QED BY <1>8, <1>9

(* A line costs at most its length, and touches nothing else. *)
LEMMA ProcessedCosts ==
  ASSUME NEW d \in DecoderType, NEW l \in Seq(Symbols)
  PROVE  /\ Processed(d, l).bytes <= d.bytes + Size(l)
         /\ Processed(d, l).buffer = d.buffer
         /\ Processed(d, l).overflow = d.overflow
<1>1. d.bytes \in Nat /\ Size(l) \in Nat
  BY SizeNat DEF DecoderType
<1>2. CASE l = <<>>
  BY <1>1, <1>2 DEF Processed, Dispatch, DecoderType
<1>3. CASE l # <<>>
  <2>1. Size(Tail(l)) <= Size(l) /\ Size(Tail(l)) \in Nat
    BY <1>3, LineSizes
  <2> QED BY <1>1, <1>3, <2>1 DEF Processed, DecoderType
<1> QED BY <1>2, <1>3

(* What the decoder holds of a stream: no more than there is, and nothing  *)
(* but what the stream says.                                               *)
Tracks(d, before, s) ==
  IF d.overflow THEN Size(s) > Limit
  ELSE /\ d.bytes <= Limit
       /\ Size(d.buffer) + d.bytes <= Size(s)
       /\ d.buffer = Rest(s)
       /\ Agrees(d, before, Lines(s))

LEMMA FedTracks ==
  ASSUME NEW d \in DecoderType, NEW before \in Seq(EventType),
         NEW s \in Seq(Symbols), NEW c \in Symbols,
         Tracks(d, before, s)
  PROVE  /\ Tracks(Fed(d, c), before, Append(s, c))
         /\ Size(Fed(d, c).buffer) <= Size(d.buffer) + Weight(c)
<1>1. /\ Size(s) \in Nat /\ Weight(c) \in Nat \ {0}
      /\ Size(Append(s, c)) = Size(s) + Weight(c)
  BY SizeAppend
<1>2. /\ d.buffer \in Seq(Symbols) /\ Size(d.buffer) \in Nat /\ d.bytes \in Nat
      /\ d.overflow \in BOOLEAN /\ Limit \in Nat
  BY SizeNat, DecoderAssumption DEF DecoderType, DecoderAssumption
<1>3. CASE d.overflow
  <2>1. Fed(d, c) = d
    BY <1>3 DEF Fed
  <2>2. Size(s) > Limit
    BY <1>3 DEF Tracks
  <2>3. Size(Append(s, c)) > Limit
    BY <1>1, <1>2, <2>2
  <2> QED BY <1>1, <1>2, <1>3, <2>1, <2>3 DEF Tracks
<1>4. CASE ~d.overflow /\ c # "lf"
  <2> DEFINE f == Fed(d, c)
  <2>1. f = [d EXCEPT !.buffer = Append(@, c)]
    BY <1>4 DEF Fed
  <2>2. /\ f.buffer = Append(d.buffer, c) /\ f.bytes = d.bytes
        /\ f.overflow = d.overflow /\ f.events = d.events
        /\ f.lines = d.lines /\ f.event = d.event
    BY <2>1 DEF DecoderType
  <2>3. Size(f.buffer) = Size(d.buffer) + Weight(c)
    BY <1>2, <2>2, SizeAppend
  <2>4. /\ Lines(Append(s, c)) = Lines(s)
        /\ Rest(Append(s, c)) = Append(Rest(s), c)
    BY <1>4, LinesBefore
  <2>5. /\ d.bytes <= Limit /\ Size(d.buffer) + d.bytes <= Size(s)
        /\ d.buffer = Rest(s) /\ Agrees(d, before, Lines(s))
    BY <1>4 DEF Tracks
  <2> HIDE DEF f
  <2>6. Agrees(f, before, Lines(Append(s, c)))
    BY <2>2, <2>4, <2>5 DEF Agrees
  <2>7. f.buffer = Rest(Append(s, c))
    BY <2>2, <2>4, <2>5
  <2>8. Size(f.buffer) + f.bytes <= Size(Append(s, c))
    BY <1>1, <1>2, <2>2, <2>3, <2>5
  <2>9. ~f.overflow /\ f.bytes <= Limit
    BY <1>4, <2>2, <2>5
  <2>10. Tracks(f, before, Append(s, c))
    BY <2>6, <2>7, <2>8, <2>9, Zenon DEF Tracks
  <2> QED BY <1>1, <1>2, <2>3, <2>10 DEF f
<1>5. CASE ~d.overflow /\ c = "lf"
  <2> DEFINE clear == [d EXCEPT !.buffer = <<>>]
             line == WithoutCR(d.buffer)
             next == Processed(clear, line)
             f == Fed(d, c)
  <2>1. clear \in DecoderType
    <3>1. <<>> \in Seq(Symbols)
      OBVIOUS
    <3> QED BY <3>1 DEF DecoderType
  <2>2. /\ clear.buffer = <<>> /\ clear.bytes = d.bytes
        /\ clear.overflow = d.overflow /\ clear.events = d.events
        /\ clear.lines = d.lines /\ clear.event = d.event
    BY DEF DecoderType
  <2>3. line \in Seq(Symbols) /\ Size(line) <= Size(d.buffer) /\ Size(line) \in Nat
    BY <1>2, LineSizes, SizeNat
  <2>4. /\ d.bytes <= Limit /\ Size(d.buffer) + d.bytes <= Size(s)
        /\ d.buffer = Rest(s) /\ Agrees(d, before, Lines(s))
    BY <1>5 DEF Tracks
  <2>5. Agrees(clear, before, Lines(s))
    <3> HIDE DEF clear
    <3> QED BY <2>2, <2>4 DEF Agrees
  <2>6. /\ Lines(Append(s, c)) = Append(Lines(s), line)
        /\ Rest(Append(s, c)) = <<>>
    BY <1>5, <2>4, LinesAtNewline
  <2>7. f = [next EXCEPT !.overflow = next.bytes > Limit]
    BY <1>5 DEF Fed
  <2> HIDE DEF clear, line, f
  <2>8. Agrees(next, before, Append(Lines(s), line))
    BY <2>1, <2>3, <2>5, LinesTyped, ProcessedAgrees
  <2>9. /\ next.bytes <= clear.bytes + Size(line)
        /\ next.buffer = clear.buffer
    BY <2>1, <2>3, ProcessedCosts
  <2>10. next \in DecoderType
    BY <2>1, <2>3, ProcessedTyped
  <2> HIDE DEF next
  <2>11. /\ f.buffer = next.buffer /\ f.bytes = next.bytes
         /\ (f.overflow <=> next.bytes > Limit) /\ f.events = next.events
         /\ f.lines = next.lines /\ f.event = next.event
         /\ next.bytes \in Nat
    BY <2>7, <2>10 DEF DecoderType
  <2>12. Size(f.buffer) = 0
    BY <2>2, <2>9, <2>11, SizeEmpty
  <2>13. f.bytes <= Size(Append(s, c))
    BY <1>1, <1>2, <2>2, <2>3, <2>4, <2>9, <2>11
  <2>14. CASE f.overflow
    <3>1. Size(Append(s, c)) > Limit
      BY <1>1, <1>2, <2>11, <2>13, <2>14
    <3>2. Tracks(f, before, Append(s, c))
      BY <2>14, <3>1 DEF Tracks
    <3> QED BY <1>1, <1>2, <2>12, <3>2 DEF f
  <2>15. CASE ~f.overflow
    <3>1. Agrees(f, before, Lines(Append(s, c)))
      BY <2>6, <2>8, <2>11 DEF Agrees
    <3>2. f.buffer = Rest(Append(s, c))
      BY <2>2, <2>6, <2>9, <2>11
    <3>3. f.bytes <= Limit
      BY <1>2, <2>11, <2>15
    <3>4. Size(f.buffer) + f.bytes <= Size(Append(s, c))
      BY <2>11, <2>12, <2>13
    <3>5. Tracks(f, before, Append(s, c))
      BY <2>15, <3>1, <3>2, <3>3, <3>4, Zenon DEF Tracks
    <3> QED BY <1>1, <1>2, <2>12, <3>5 DEF f
  <2> QED BY <2>14, <2>15
<1> QED BY <1>2, <1>3, <1>4, <1>5

(* A whole chunk. *)
LEMMA FedAllTracks ==
  ASSUME NEW d \in DecoderType, NEW before \in Seq(EventType),
         NEW s \in Seq(Symbols), NEW chunk \in Seq(Symbols),
         Tracks(d, before, s)
  PROVE  /\ FedAll(d, chunk) \in DecoderType
         /\ Tracks(FedAll(d, chunk), before, s \o chunk)
         /\ Size(FedAll(d, chunk).buffer) <= Size(d.buffer) + Size(chunk)
<1> DEFINE u(n) == SubSeq(chunk, 1, n)
<1>1. PICK after \in [0 .. Len(chunk) -> DecoderType] :
        /\ after[0] = d
        /\ \A n \in 0 .. Len(chunk) - 1 :
             after[n + 1] = Fed(after[n], chunk[n + 1])
        /\ after[Len(chunk)] = FedAll(d, chunk)
  BY FedStepByStep
<1>2. /\ Len(chunk) \in Nat
      /\ s \o u(0) = s /\ u(0) = <<>> /\ u(Len(chunk)) = chunk
      /\ \A n \in 0 .. Len(chunk) : u(n) \in Seq(Symbols)
      /\ \A n \in 0 .. Len(chunk) - 1 :
           /\ chunk[n + 1] \in Symbols
           /\ u(n + 1) = Append(u(n), chunk[n + 1])
           /\ s \o u(n + 1) = Append(s \o u(n), chunk[n + 1])
  BY SymbolBySymbol
<1> HIDE DEF u
<1> DEFINE P == {n \in 0 .. Len(chunk) :
                   /\ Tracks(after[n], before, s \o u(n))
                   /\ Size(after[n].buffer) <= Size(d.buffer) + Size(u(n))}
<1>3. 0 \in P
  <2>1. 0 \in 0 .. Len(chunk)
    BY <1>2
  <2>2. s \o u(0) = s /\ u(0) = <<>> /\ after[0] = d
    BY <1>1, <1>2
  <2>3. Tracks(after[0], before, s \o u(0))
    BY <2>2, Zenon
  <2>4. Size(d.buffer) \in Nat
    BY SizeNat DEF DecoderType
  <2>5. Size(u(0)) = 0
    BY <2>2, SizeEmpty, Zenon
  <2>6. Size(after[0].buffer) <= Size(d.buffer) + Size(u(0))
    BY <2>2, <2>4, <2>5
  <2> QED BY <2>1, <2>3, <2>6
<1>4. ASSUME NEW n \in 0 .. Len(chunk) - 1, n \in P PROVE n + 1 \in P
  <2> DEFINE a == after[n]
             c == chunk[n + 1]
             q == s \o u(n)
  <2>1. n \in 0 .. Len(chunk) /\ n + 1 \in 0 .. Len(chunk)
    BY <1>2
  <2>2. a \in DecoderType /\ c \in Symbols /\ u(n) \in Seq(Symbols)
    BY <1>2, <2>1
  <2>3. q \in Seq(Symbols)
    BY <2>2, ConcatProperties
  <2>4. Tracks(a, before, q) /\ Size(a.buffer) <= Size(d.buffer) + Size(u(n))
    BY <1>4
  <2>5. after[n + 1] = Fed(a, c) /\ u(n + 1) = Append(u(n), c)
        /\ s \o u(n + 1) = Append(q, c)
    BY <1>1, <1>2
  <2> HIDE DEF a, c, q
  <2>6. Tracks(Fed(a, c), before, Append(q, c))
        /\ Size(Fed(a, c).buffer) <= Size(a.buffer) + Weight(c)
    BY <2>2, <2>3, <2>4, FedTracks
  <2>7. Tracks(after[n + 1], before, s \o u(n + 1))
    BY <2>5, <2>6, Zenon
  <2>8. Size(u(n + 1)) = Size(u(n)) + Weight(c) /\ Weight(c) \in Nat
        /\ Size(u(n)) \in Nat
    BY <2>2, <2>5, SizeAppend
  <2>9. Size(after[n + 1].buffer) \in Nat /\ Size(a.buffer) \in Nat
        /\ Size(d.buffer) \in Nat
    <3>1. after[n + 1] \in DecoderType
      BY <2>1
    <3> QED BY <2>2, <3>1, SizeNat DEF DecoderType
  <2>10. Size(after[n + 1].buffer) <= Size(a.buffer) + Weight(c)
    BY <2>5, <2>6
  <2>11. Size(after[n + 1].buffer) <= Size(d.buffer) + Size(u(n + 1))
    BY <2>4, <2>8, <2>9, <2>10
  <2> QED BY <2>1, <2>7, <2>11
<1>5. Len(chunk) \in P
  <2>1. \A n \in 0 .. Len(chunk) : n \in P
    <3> HIDE DEF P
    <3> QED BY <1>2, <1>3, <1>4, Upwards
  <2>2. Len(chunk) \in 0 .. Len(chunk)
    BY <1>2
  <2> HIDE DEF P
  <2> QED BY <2>1, <2>2
<1>6. Len(chunk) \in 0 .. Len(chunk)
  BY <1>2
<1>7. after[Len(chunk)] \in DecoderType
  BY <1>6
<1>8. /\ Tracks(after[Len(chunk)], before, s \o u(Len(chunk)))
      /\ Size(after[Len(chunk)].buffer) <= Size(d.buffer) + Size(u(Len(chunk)))
  BY <1>5
<1>9. after[Len(chunk)] = FedAll(d, chunk) /\ u(Len(chunk)) = chunk
  BY <1>1, <1>2
<1> QED BY <1>7, <1>8, <1>9, Zenon

-----------------------------------------------------------------------------
(* More of a stream never takes an event back. *)
LEMMA EventsGrow ==
  ASSUME NEW s \in Seq(Symbols), NEW chunk \in Seq(Symbols)
  PROVE  \E more \in Seq(EventType) :
           EventsIn(Lines(s \o chunk)) = EventsIn(Lines(s)) \o more
<1> DEFINE u(n) == SubSeq(chunk, 1, n)
           E(q) == EventsIn(Lines(q))
<1>1. /\ Len(chunk) \in Nat
      /\ s \o u(0) = s /\ u(Len(chunk)) = chunk
      /\ \A n \in 0 .. Len(chunk) : u(n) \in Seq(Symbols)
      /\ \A n \in 0 .. Len(chunk) - 1 :
           /\ chunk[n + 1] \in Symbols
           /\ s \o u(n + 1) = Append(s \o u(n), chunk[n + 1])
  BY SymbolBySymbol
<1>2. \A q \in Seq(Symbols) : E(q) \in Seq(EventType)
  BY LinesTyped, EventsOfLines
<1>3. ASSUME NEW q \in Seq(Symbols), NEW c \in Symbols
      PROVE  \E e \in Seq(EventType) : E(Append(q, c)) = E(q) \o e
  <2>1. <<>> \in Seq(EventType) /\ E(q) \o <<>> = E(q)
    BY <1>2, ConcatEmptySeq
  <2>2. CASE c # "lf"
    <3>1. Lines(Append(q, c)) = Lines(q)
      BY <2>2, LinesBefore
    <3>2. E(Append(q, c)) = E(q)
      BY <3>1
    <3> HIDE DEF E
    <3>3. E(Append(q, c)) = E(q) \o <<>>
      BY <2>1, <3>2
    <3> QED BY <2>1, <3>3, Zenon
  <2>3. CASE c = "lf"
    <3> DEFINE L == Lines(q)
               l == WithoutCR(Rest(q))
               e == EventBefore(L, Len(L) + 1)
    <3>1. Lines(Append(q, c)) = Append(L, l)
      BY <2>3, LinesAtNewline
    <3>2. L \in Seq(Seq(Symbols)) /\ l \in Seq(Symbols)
      BY LinesTyped, LineSizes
    <3>3. e \in EventType
      <4> HIDE DEF L
      <4>1. Len(L) + 1 \in 1 .. Len(L) + 1
        BY <3>2
      <4> QED BY <3>2, <4>1, EventTyped
    <3>4. EventsIn(Append(L, l)) = Append(EventsIn(L), e)
          \/ EventsIn(Append(L, l)) = EventsIn(L)
      <4> HIDE DEF L, l
      <4> QED BY <3>2, EventsAppend
    <3>5. E(Append(q, c)) = Append(E(q), e) \/ E(Append(q, c)) = E(q)
      BY <3>1, <3>4
    <3> HIDE DEF e, E
    <3>6. Append(E(q), e) = E(q) \o <<e>> /\ <<e>> \in Seq(EventType)
      BY <1>2, <3>3, AppendIsConcat
    <3> QED BY <2>1, <3>5, <3>6, Zenon
  <2> QED BY <2>2, <2>3
<1> DEFINE P == {n \in 0 .. Len(chunk) :
                   \E more \in Seq(EventType) : E(s \o u(n)) = E(s) \o more}
<1> HIDE DEF u, E
<1>4. 0 \in P
  <2>1. <<>> \in Seq(EventType) /\ E(s) \o <<>> = E(s)
    BY <1>2, ConcatEmptySeq
  <2>2. E(s \o u(0)) = E(s) \o <<>>
    BY <1>1, <2>1, Zenon
  <2>3. 0 \in 0 .. Len(chunk)
    BY <1>1
  <2> QED BY <2>1, <2>2, <2>3, Zenon
<1>5. ASSUME NEW n \in 0 .. Len(chunk) - 1, n \in P PROVE n + 1 \in P
  <2>1. n \in 0 .. Len(chunk) /\ n + 1 \in 0 .. Len(chunk)
    BY <1>1
  <2>2. PICK more \in Seq(EventType) : E(s \o u(n)) = E(s) \o more
    BY <1>5
  <2>3. s \o u(n) \in Seq(Symbols)
    BY <1>1, <2>1, ConcatProperties
  <2>4. PICK e \in Seq(EventType) :
          E(Append(s \o u(n), chunk[n + 1])) = E(s \o u(n)) \o e
    <3>1. chunk[n + 1] \in Symbols
      BY <1>1
    <3> QED BY <1>3, <2>3, <3>1
  <2>5. E(s \o u(n + 1)) = (E(s) \o more) \o e
    <3>1. s \o u(n + 1) = Append(s \o u(n), chunk[n + 1])
      BY <1>1
    <3> QED BY <2>2, <2>4, <3>1, Zenon
  <2>6. (E(s) \o more) \o e = E(s) \o (more \o e)
    <3> DEFINE base == E(s)
    <3>1. base \in Seq(EventType)
      BY <1>2
    <3> HIDE DEF base
    <3>2. (base \o more) \o e = base \o (more \o e)
      BY <3>1, ConcatAssociative
    <3> QED BY <3>2 DEF base
  <2>7. more \o e \in Seq(EventType)
    BY <2>2, <2>4, ConcatProperties
  <2> QED BY <2>1, <2>5, <2>6, <2>7
<1>6. Len(chunk) \in P
  <2>1. \A n \in 0 .. Len(chunk) : n \in P
    <3> HIDE DEF P
    <3> QED BY <1>1, <1>4, <1>5, Upwards
  <2>2. Len(chunk) \in 0 .. Len(chunk)
    BY <1>1
  <2> HIDE DEF P
  <2> QED BY <2>1, <2>2
<1>7. PICK more \in Seq(EventType) : E(s \o u(Len(chunk))) = E(s) \o more
  BY <1>6
<1>8. E(s \o chunk) = E(s) \o more
  BY <1>1, <1>7, Zenon
<1> QED BY <1>7, <1>8 DEF E

-----------------------------------------------------------------------------
(* The inductive invariant.  Between two calls the decoder has what the    *)
(* unfinished line and the unfinished event of the stream have, unless the *)
(* stream is over or was too long.                                         *)
Begins(before, s) ==
  \E more \in Seq(EventType) : EventsIn(Lines(s)) = before \o more

DecoderInv ==
  /\ decoder \in DecoderType
  /\ decoder.events = <<>>
  /\ stream \in Seq(Symbols)
  /\ ended \in BOOLEAN
  /\ out \in Seq(EventType)
  /\ Size(decoder.buffer) <= Limit
  /\ decoder.overflow => Begins(out, stream) /\ Size(stream) > Limit
  /\ ~decoder.overflow =>
       IF ended THEN decoder.bytes <= Limit /\ out = EventsOf(stream, TRUE)
       ELSE Tracks(decoder, out, stream)

LEMMA NoEventsYet == <<>> \in Seq([event : Names, data : Seq(Seq(Symbols))])
OBVIOUS

LEMMA DecoderInvInit == Init => DecoderInv
<1> SUFFICES ASSUME Init PROVE DecoderInv
  OBVIOUS
<1>1. /\ decoder.buffer = <<>> /\ decoder.event = NoName /\ decoder.lines = <<>>
      /\ decoder.bytes = 0 /\ decoder.overflow = FALSE /\ decoder.events = <<>>
      /\ stream = <<>> /\ ended = FALSE /\ out = <<>>
  BY DEF Init
<1>2. decoder \in DecoderType
  <2>1. NoName \in Names
    BY DEF NoName, Names
  <2>2. /\ <<>> \in Seq(Symbols) /\ <<>> \in Seq(Seq(Symbols))
        /\ <<>> \in Seq([event : Names, data : Seq(Seq(Symbols))])
    OBVIOUS
  <2> QED BY <2>1, <2>2 DEF Init, DecoderType
<1>3. Limit \in Nat
  BY DecoderAssumption DEF DecoderAssumption
<1>4. Size(decoder.buffer) = 0 /\ Size(stream) = 0
  BY <1>1, SizeEmpty
<1>5. /\ Lines(stream) = <<>> /\ Rest(stream) = <<>>
  BY <1>1, NoLines
<1>6. /\ EventsIn(Lines(stream)) = <<>>
      /\ \A f : Fields(Lines(stream), Len(Lines(stream)) + 1, f) = <<>>
  <2>1. Len(<<>>) + 1 = 1
    OBVIOUS
  <2>2. Len(Lines(stream)) + 1 = 1
    BY <1>5, <2>1, Zenon
  <2> QED BY <1>5, <2>2, NoEvents, Zenon
<1>7. out \o decoder.events = <<>>
  <2>1. <<>> \o <<>> = <<>>
    OBVIOUS
  <2> QED BY <1>1, <2>1, Zenon
<1>8. NameBefore(Lines(stream)) = NoName
  BY <1>6, Zenon DEF NameBefore
<1>9. Agrees(decoder, out, Lines(stream))
  BY <1>1, <1>6, <1>7, <1>8, Zenon DEF Agrees
<1>10. Size(decoder.buffer) + decoder.bytes <= Size(stream)
       /\ decoder.bytes <= Limit
  BY <1>1, <1>3, <1>4
<1>11. Tracks(decoder, out, stream)
  BY <1>1, <1>5, <1>9, <1>10, Zenon DEF Tracks
<1>12. stream \in Seq(Symbols) /\ out \in Seq(EventType) /\ ended \in BOOLEAN
  <2>1. <<>> \in Seq(Symbols) /\ <<>> \in Seq(EventType) /\ FALSE \in BOOLEAN
    OBVIOUS
  <2> QED BY <1>1, <2>1, Zenon
<1>13. Size(decoder.buffer) <= Limit
  BY <1>3, <1>4
<1> QED BY <1>1, <1>2, <1>11, <1>12, <1>13 DEF DecoderInv

(* A chunk that is looked at, or not. *)
LEMMA PushKeeps ==
  ASSUME DecoderInv, NEW chunk \in Seq(Symbols), Push(chunk)
  PROVE  DecoderInv'
<1>1. /\ decoder \in DecoderType /\ decoder.events = <<>>
      /\ stream \in Seq(Symbols) /\ ended = FALSE /\ out \in Seq(EventType)
      /\ Size(decoder.buffer) <= Limit
      /\ decoder.overflow => Begins(out, stream) /\ Size(stream) > Limit
      /\ ~decoder.overflow => Tracks(decoder, out, stream)
  BY DEF DecoderInv, Push
<1>2. /\ stream' = stream \o chunk /\ stream' \in Seq(Symbols)
      /\ ended' = FALSE
  BY <1>1, ConcatProperties DEF Push
<1>3. /\ Size(stream') = Size(stream) + Size(chunk)
      /\ Size(stream) \in Nat /\ Size(chunk) \in Nat
      /\ Size(decoder.buffer) \in Nat /\ decoder.bytes \in Nat /\ Limit \in Nat
  BY <1>1, <1>2, SizeConcat, SizeNat, DecoderAssumption
  DEF DecoderType, DecoderAssumption
<1>4. ASSUME Begins(out, stream), out' = out PROVE Begins(out', stream')
  <2> DEFINE E(q) == EventsIn(Lines(q))
  <2>1. PICK more \in Seq(EventType) : E(stream) = out \o more
    BY <1>4 DEF Begins
  <2>2. PICK e \in Seq(EventType) : E(stream') = E(stream) \o e
    BY <1>1, <1>2, EventsGrow
  <2> HIDE DEF E
  <2>3. E(stream') = (out \o more) \o e
    BY <2>1, <2>2, Zenon
  <2>4. (out \o more) \o e = out \o (more \o e) /\ more \o e \in Seq(EventType)
    BY <1>1, Regrouped
  <2>5. E(stream') = out' \o (more \o e)
    BY <1>4, <2>3, <2>4
  <2> QED BY <2>4, <2>5, Zenon DEF Begins, E
<1>5. ASSUME ~decoder.overflow PROVE Begins(out, stream)
  <2>1. out \o decoder.events = EventsIn(Lines(stream))
    BY <1>1, <1>5 DEF Tracks, Agrees
  <2>2. EventsIn(Lines(stream)) = out \o <<>> /\ <<>> \in Seq(EventType)
    BY <1>1, <2>1
  <2> QED BY <2>2, Zenon DEF Begins
<1>6. Begins(out, stream)
  BY <1>1, <1>5
<1>7. CASE decoder.overflow \/ TooLong(decoder, chunk)
  <2>1. /\ decoder' = [[decoder EXCEPT !.overflow = TRUE] EXCEPT !.events = <<>>]
        /\ out' = out
    BY <1>7 DEF Push, Delivered, DecoderType
  <2>2. /\ decoder' \in DecoderType /\ decoder'.overflow
        /\ decoder'.events = <<>> /\ decoder'.buffer = decoder.buffer
    BY <1>1, <2>1, NoEventsYet DEF DecoderType
  <2>3. Size(stream') > Limit
    <3>1. CASE decoder.overflow
      BY <1>1, <1>3, <3>1
    <3>2. CASE ~decoder.overflow
      <4>1. Size(decoder.buffer) + Size(chunk) > Limit
        BY <1>7, <3>2 DEF TooLong
      <4>2. Size(decoder.buffer) + decoder.bytes <= Size(stream)
        BY <1>1, <3>2 DEF Tracks
      <4> QED BY <1>3, <4>1, <4>2
    <3> QED BY <3>1, <3>2
  <2>4. Begins(out', stream')
    BY <1>4, <1>6, <2>1
  <2> QED BY <1>1, <1>2, <2>1, <2>2, <2>3, <2>4 DEF DecoderInv
<1>8. CASE ~(decoder.overflow \/ TooLong(decoder, chunk))
  <2> DEFINE e == FedAll(decoder, chunk)
  <2>1. /\ decoder' = [e EXCEPT !.events = <<>>]
        /\ out' = IF e.overflow THEN out ELSE out \o e.events
    BY <1>8 DEF Push, Delivered
  <2>2. /\ e \in DecoderType
        /\ Tracks(e, out, stream')
        /\ Size(e.buffer) <= Size(decoder.buffer) + Size(chunk)
    BY <1>1, <1>2, <1>8, FedAllTracks
  <2> HIDE DEF e
  <2>3. /\ decoder' \in DecoderType /\ decoder'.events = <<>>
        /\ decoder'.buffer = e.buffer /\ decoder'.overflow = e.overflow
        /\ decoder'.bytes = e.bytes /\ decoder'.lines = e.lines
        /\ decoder'.event = e.event
    BY <2>1, <2>2, NoEventsYet DEF DecoderType
  <2>4. Size(decoder'.buffer) <= Limit
    <3>1. Size(decoder.buffer) + Size(chunk) <= Limit
      BY <1>3, <1>8 DEF TooLong
    <3>2. Size(e.buffer) \in Nat
      BY <2>2, SizeNat DEF DecoderType
    <3> QED BY <1>3, <2>2, <2>3, <3>1, <3>2
  <2>5. CASE e.overflow
    <3>1. out' = out /\ Size(stream') > Limit
      BY <2>1, <2>2, <2>5 DEF Tracks
    <3>2. Begins(out', stream')
      BY <1>4, <1>6, <3>1
    <3> QED BY <1>1, <1>2, <2>3, <2>4, <2>5, <3>1, <3>2 DEF DecoderInv
  <2>6. CASE ~e.overflow
    <3>1. /\ e.bytes <= Limit /\ Size(e.buffer) + e.bytes <= Size(stream')
          /\ e.buffer = Rest(stream') /\ Agrees(e, out, Lines(stream'))
      BY <2>2, <2>6 DEF Tracks
    <3>2. out' = out \o e.events /\ e.events \in Seq(EventType)
      BY <2>1, <2>2, <2>6 DEF DecoderType, EventType
    <3>3. out' \in Seq(EventType)
      BY <1>1, <3>2, ConcatProperties
    <3>4. out' \o <<>> = out'
      BY <3>3, ConcatEmptySeq
    <3>5. Agrees(decoder', out', Lines(stream'))
      BY <2>3, <3>1, <3>2, <3>4 DEF Agrees
    <3>6. Tracks(decoder', out', stream')
      BY <2>3, <2>6, <3>1, <3>5 DEF Tracks
    <3> QED BY <1>2, <2>3, <2>4, <2>6, <3>3, <3>6 DEF DecoderInv
  <2> QED BY <2>5, <2>6
<1> QED BY <1>7, <1>8

(* The end of the stream, which ends the line and the event it broke off   *)
(* in.                                                                     *)
LEMMA FinishKeeps ==
  ASSUME DecoderInv, Finish
  PROVE  DecoderInv'
<1>1. /\ decoder \in DecoderType /\ decoder.events = <<>>
      /\ stream \in Seq(Symbols) /\ out \in Seq(EventType)
      /\ Size(decoder.buffer) <= Limit
      /\ decoder.overflow => Begins(out, stream) /\ Size(stream) > Limit
      /\ ~decoder.overflow => Tracks(decoder, out, stream)
      /\ stream' = stream /\ ended' = TRUE
  BY DEF DecoderInv, Finish
<1>2. CASE decoder.overflow
  <2>1. decoder' = decoder /\ out' = out
    BY <1>2 DEF Finish
  <2> QED BY <1>1, <1>2, <2>1 DEF DecoderInv, Begins
<1>3. CASE ~decoder.overflow
  <2> DEFINE rest == decoder.buffer
             L == Lines(stream)
             d0 == [decoder EXCEPT !.buffer = <<>>]
             d1 == IF rest = <<>> THEN d0 ELSE Processed(d0, rest)
             L1 == IF rest = <<>> THEN L ELSE Append(L, rest)
             d2 == Dispatch(d1)
  <2>1. /\ decoder' = [d2 EXCEPT !.events = <<>>]
        /\ out' = IF d2.overflow THEN out ELSE out \o d2.events
    BY <1>3 DEF Finish, Delivered
  <2>2. /\ rest \in Seq(Symbols) /\ L \in Seq(Seq(Symbols))
        /\ rest = Rest(stream) /\ Agrees(decoder, out, L)
        /\ decoder.bytes <= Limit
    BY <1>1, <1>3, LinesTyped DEF Tracks, DecoderType
  <2>3. EventsOf(stream, TRUE) = EventsIn(Append(L1, <<>>))
    BY <2>2 DEF EventsOf
  <2> HIDE DEF L
  <2>4. d0 \in DecoderType
    <3>1. <<>> \in Seq(Symbols)
      OBVIOUS
    <3> QED BY <1>1, <3>1 DEF DecoderType
  <2>5. /\ d0.buffer = <<>> /\ d0.bytes = decoder.bytes /\ ~d0.overflow
        /\ d0.lines = decoder.lines /\ d0.event = decoder.event
        /\ d0.events = decoder.events
    BY <1>1, <1>3 DEF DecoderType
  <2> HIDE DEF d0
  <2>6. Agrees(d0, out, L)
    BY <2>2, <2>5 DEF Agrees
  <2>7. /\ d1 \in DecoderType /\ L1 \in Seq(Seq(Symbols))
        /\ Agrees(d1, out, L1)
    <3>1. CASE rest = <<>>
      BY <2>2, <2>4, <2>6, <3>1
    <3>2. CASE rest # <<>>
      <4>1. Append(L, rest) \in Seq(Seq(Symbols))
        BY <2>2, AppendedLine
      <4>2. Agrees(Processed(d0, rest), out, Append(L, rest))
        BY <1>1, <2>2, <2>4, <2>6, ProcessedAgrees
      <4>3. Processed(d0, rest) \in DecoderType
        BY <2>2, <2>4, ProcessedTyped
      <4> QED BY <3>2, <4>1, <4>2, <4>3
    <3> QED BY <3>1, <3>2
  <2>8. /\ ~d1.overflow /\ d1.buffer = <<>>
        /\ d1.lines = <<>> => d1.bytes <= Limit
    <3>1. CASE rest = <<>>
      BY <2>2, <2>5, <3>1
    <3>2. CASE rest # <<>>
      <4>1. /\ Processed(d0, rest).overflow = d0.overflow
            /\ Processed(d0, rest).buffer = d0.buffer
        BY <2>2, <2>4, ProcessedCosts
      <4>2. CASE Head(rest) = "data"
        <5>1. Tail(rest) \in Seq(Symbols)
          BY <2>2, <3>2, LineSizes
        <5>2. Processed(d0, rest).lines = Append(d0.lines, Tail(rest))
          BY <2>4, <3>2, <4>2 DEF Processed, DecoderType
        <5>3. d0.lines \in Seq(Seq(Symbols))
          BY <2>4 DEF DecoderType
        <5>4. Append(d0.lines, Tail(rest)) # <<>>
          BY <5>1, <5>3, LastAppended
        <5> QED BY <2>5, <3>2, <4>1, <5>2, <5>4
      <4>3. CASE Head(rest) # "data"
        <5>1. Processed(d0, rest).bytes = d0.bytes
          BY <2>4, <3>2, <4>3 DEF Processed, DecoderType
        <5> QED BY <2>2, <2>5, <3>2, <4>1, <5>1
      <4> QED BY <4>2, <4>3
    <3> QED BY <3>1, <3>2
  <2> HIDE DEF d1, L1
  <2>9. d2 = Processed(d1, <<>>)
    BY DEF Processed
  <2>10. /\ d2 \in DecoderType
         /\ Agrees(d2, out, Append(L1, <<>>))
    <3>1. <<>> \in Seq(Symbols)
      OBVIOUS
    <3> HIDE DEF d2
    <3>2. Processed(d1, <<>>) \in DecoderType
      BY <2>7, <3>1, ProcessedTyped
    <3>3. Agrees(Processed(d1, <<>>), out, Append(L1, <<>>))
      BY <1>1, <2>7, <3>1, ProcessedAgrees
    <3> QED BY <2>9, <3>2, <3>3
  <2>11. /\ ~d2.overflow /\ d2.buffer = <<>> /\ d2.bytes <= Limit
    <3>1. Limit \in Nat
      BY DecoderAssumption DEF DecoderAssumption
    <3> QED BY <2>7, <2>8, <3>1 DEF Dispatch, DecoderType
  <2> HIDE DEF d2
  <2>12. /\ decoder' \in DecoderType /\ decoder'.events = <<>>
         /\ decoder'.buffer = <<>> /\ ~decoder'.overflow
         /\ decoder'.bytes = d2.bytes
    BY <2>1, <2>10, <2>11, NoEventsYet DEF DecoderType
  <2>13. out' = out \o d2.events /\ out' \in Seq(EventType)
    <3>1. d2.events \in Seq(EventType)
      BY <2>10 DEF DecoderType, EventType
    <3> QED BY <1>1, <2>1, <2>11, <3>1, ConcatProperties
  <2>14. out' = EventsOf(stream', TRUE)
    BY <1>1, <2>3, <2>10, <2>13 DEF Agrees
  <2>15. Size(decoder'.buffer) <= Limit
    <3>1. Limit \in Nat
      BY DecoderAssumption DEF DecoderAssumption
    <3> QED BY <2>12, <3>1, SizeEmpty
  <2> QED BY <1>1, <2>11, <2>12, <2>13, <2>14, <2>15 DEF DecoderInv
<1>4. decoder.overflow \in BOOLEAN
  BY <1>1 DEF DecoderType
<1> QED BY <1>2, <1>3, <1>4

LEMMA DecoderInvStep == DecoderInv /\ [Next]_vars => DecoderInv'
<1> SUFFICES ASSUME DecoderInv, [Next]_vars PROVE DecoderInv'
  OBVIOUS
<1>1. ASSUME NEW chunk \in Chunks, Push(chunk) PROVE DecoderInv'
  <2>1. chunk \in Seq(Symbols)
    BY DecoderAssumption DEF Chunks, DecoderAssumption
  <2> QED BY <1>1, <2>1, PushKeeps
<1>2. CASE Finish
  BY <1>2, FinishKeeps
<1>3. CASE UNCHANGED vars
  BY <1>3 DEF vars, DecoderInv, Begins
<1> QED BY <1>1, <1>2, <1>3 DEF Next

(* However the network cuts a stream, inside a field name, between CR and  *)
(* LF, between an event and its blank line: the observer is given the      *)
(* events a reader of the whole stream finds, each once and in order, and  *)
(* of a stream that outgrew the limit a beginning of them (sse.rs:33).     *)
THEOREM EventsAreTheStreams == Spec => []EventsMatchStream
<1>1. DecoderInv => EventsMatchStream
  <2> SUFFICES ASSUME DecoderInv PROVE EventsMatchStream
    OBVIOUS
  <2>1. CASE decoder.overflow
    <3> DEFINE E == EventsIn(Lines(stream))
    <3>1. PICK more \in Seq(EventType) : E = out \o more
      BY <2>1 DEF DecoderInv, Begins
    <3>2. out \in Seq(EventType)
      BY DEF DecoderInv
    <3> HIDE DEF E
    <3>3. /\ Len(out) \in Nat /\ Len(more) \in Nat /\ E \in Seq(EventType)
          /\ Len(E) = Len(out) + Len(more)
          /\ \A i \in 1 .. Len(out) : E[i] = out[i]
      BY <3>1, <3>2, ConcatProperties
    <3>4. SubSeq(E, 1, Len(out)) = SubSeq(out, 1, Len(out))
      <4>1. CASE Len(out) = 0
        BY <4>1, SubSeqEmpty
      <4>2. CASE Len(out) # 0
        <5>1. 1 \in 1 .. Len(out) /\ Len(out) \in 1 .. Len(out)
          BY <3>3, <4>2
        <5> QED BY <3>1, <3>2, <5>1, SubSeqOfConcat1
      <4> QED BY <4>1, <4>2
    <3>5. IsPrefix(out, E)
      BY <3>3, <3>4 DEF IsPrefix
    <3>6. EventsOf(stream, FALSE) = E
      BY DEF EventsOf, E
    <3> QED BY <2>1, <3>5, <3>6 DEF EventsMatchStream
  <2>2. CASE ~decoder.overflow /\ ended
    BY <2>2 DEF DecoderInv, EventsMatchStream
  <2>3. CASE ~decoder.overflow /\ ~ended
    <3>1. out \o decoder.events = EventsIn(Lines(stream))
      BY <2>3 DEF DecoderInv, Tracks, Agrees
    <3>2. out \o <<>> = out /\ decoder.events = <<>>
      BY ConcatEmptySeq DEF DecoderInv
    <3>3. EventsOf(stream, FALSE) = EventsIn(Lines(stream))
      BY DEF EventsOf
    <3>4. ended = FALSE
      BY <2>3 DEF DecoderInv
    <3>5. out = EventsOf(stream, ended)
      BY <3>1, <3>2, <3>3, <3>4
    <3> QED BY <2>3, <3>5 DEF EventsMatchStream
  <2>4. decoder.overflow \in BOOLEAN /\ ended \in BOOLEAN
    BY DEF DecoderInv, DecoderType
  <2> QED BY <2>1, <2>2, <2>3, <2>4
<1> QED BY <1>1, DecoderInvInit, DecoderInvStep, PTL DEF Spec

(* A stream within the limit is decoded to its end, however it is cut      *)
(* (sse.rs:27).                                                            *)
THEOREM ShortStreamsAreSeen == Spec => []ShortStreamsPass
<1>1. DecoderInv => ShortStreamsPass
  <2> SUFFICES ASSUME DecoderInv, Size(stream) <= Limit, decoder.overflow
               PROVE  FALSE
    BY DEF ShortStreamsPass
  <2>1. Size(stream) \in Nat /\ Limit \in Nat /\ Size(stream) > Limit
    BY SizeNat, DecoderAssumption DEF DecoderInv, DecoderAssumption
  <2> QED BY <2>1
<1> QED BY <1>1, DecoderInvInit, DecoderInvStep, PTL DEF Spec
=============================================================================
