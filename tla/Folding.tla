------------------------------ MODULE Folding -------------------------------
(***************************************************************************)
(* What FoldLeft computes, for one operator: it goes over a sequence       *)
(* element by element, and over two sequences one after the other.  A      *)
(* module that folds with an operator of its own instantiates this one     *)
(* with it.  Induction is used in the form "a set of numbers that has 0    *)
(* and with each number the next has all of them".                         *)
(***************************************************************************)
EXTENDS SequencesExt, FiniteSetsExt, FiniteSetTheorems, SequenceTheorems, TLAPS

CONSTANTS Op(_, _),      \* the operator that is folded
          Keeps(_, _, _)  \* Keeps(s, n, z): what is said of z, the fold of the first n elements of s

(* Of the segments 0 .. i that end outside of S one would be smallest.     *)
LEMMA Induct ==
  ASSUME NEW S, 0 \in S, \A n \in Nat : n \in S => n + 1 \in S
  PROVE  \A n \in Nat : n \in S
<1> SUFFICES ASSUME NEW o \in Nat, o \notin S PROVE FALSE
  OBVIOUS
<1> DEFINE T == {0 .. i : i \in {i \in Nat : i \notin S}}
<1>1. T \subseteq FiniteSubsetsOf(Nat) /\ T # {}
  <2>1. \A i \in Nat : 0 .. i \in SUBSET Nat /\ IsFiniteSet(0 .. i)
    BY FS_Interval
  <2> QED BY <2>1 DEF FiniteSubsetsOf
<1> HIDE DEF T
<1>2. PICK x \in T : \A y \in T : ~ (<<y, x>> \in StrictSubsetOrdering(Nat))
  BY <1>1, FS_StrictSubsetOrderingWellFounded, WFMin
<1>3. PICK m \in Nat : m \notin S /\ x = 0 .. m
  BY <1>2 DEF T
<1>4. m # 0 /\ m - 1 \in Nat /\ m - 1 \notin S
  <2>1. m # 0
    BY <1>3
  <2>2. m - 1 \in Nat /\ (m - 1) + 1 = m
    BY <2>1
  <2> QED BY <1>3, <2>1, <2>2
<1>5. 0 .. m - 1 \in T
  BY <1>4 DEF T
<1>6. 0 .. m - 1 \in SUBSET Nat /\ 0 .. m \in SUBSET Nat /\ 0 .. m - 1 \subseteq 0 .. m
      /\ m \in 0 .. m /\ m \notin 0 .. m - 1
  BY <1>4
<1> QED BY <1>2, <1>3, <1>5, <1>6 DEF StrictSubsetOrdering

-----------------------------------------------------------------------------
(* The recursive function by which folds are defined.                      *)

Folds(g, base, seq, n) ==
  g = [s \in SUBSET (1 .. n) |->
         IF s = {} THEN base ELSE Op(g[s \ {Max(s)}], seq[Max(s)])]

Same(s, t, n) == \A i \in 1 .. n : s[i] = t[i]

Agree(g, h, n) == \A u \in SUBSET (1 .. n) : g[u] = h[u]

LEMMA MaxIsGreatest ==
  ASSUME NEW n \in Nat, NEW s \in SUBSET (1 .. n), n \in s
  PROVE  Max(s) = n
<1>1. n \in s /\ \A y \in s : n >= y
  OBVIOUS
<1>2. \A x : x \in s /\ (\A y \in s : x >= y) => x = n
  BY <1>1
<1> DEFINE P(x) == x \in s /\ \A y \in s : x >= y
<1>3. P(CHOOSE x : P(x))
  <2>1. P(n)
    BY <1>1
  <2> HIDE DEF P
  <2> QED BY <2>1
<1>4. (CHOOSE x \in s : \A y \in s : x >= y) = n
  BY <1>1, <1>2
<1> QED BY <1>4 DEF Max

LEMMA FoldsExists ==
  ASSUME NEW base, NEW seq, NEW n \in Nat
  PROVE  \E g : Folds(g, base, seq, n)
<1> DEFINE S == {m \in Nat : \E g : Folds(g, base, seq, m)}
<1>1. 0 \in S
  <2> DEFINE g == [s \in SUBSET (1 .. 0) |-> base]
  <2>1. SUBSET (1 .. 0) = {{}}
    OBVIOUS
  <2>2. Folds(g, base, seq, 0)
    BY <2>1 DEF Folds
  <2> QED BY <2>2
<1>2. ASSUME NEW m \in Nat, m \in S
      PROVE  m + 1 \in S
  <2>1. PICK g : Folds(g, base, seq, m)
    BY <1>2
  <2> DEFINE h == [s \in SUBSET (1 .. m + 1) |->
                     IF m + 1 \in s THEN Op(g[s \ {m + 1}], seq[m + 1]) ELSE g[s]]
  <2>2. ASSUME NEW s \in SUBSET (1 .. m + 1)
        PROVE  h[s] = IF s = {} THEN base ELSE Op(h[s \ {Max(s)}], seq[Max(s)])
    <3>1. CASE m + 1 \in s
      <4>1. Max(s) = m + 1
        BY <3>1, MaxIsGreatest
      <4>2. s \ {m + 1} \in SUBSET (1 .. m + 1) /\ m + 1 \notin s \ {m + 1}
        OBVIOUS
      <4>3. h[s \ {m + 1}] = g[s \ {m + 1}]
        BY <4>2
      <4> QED BY <3>1, <4>1, <4>3
    <3>2. CASE m + 1 \notin s
      <4>1. s \in SUBSET (1 .. m)
        BY <3>2
      <4>2. g[s] = IF s = {} THEN base ELSE Op(g[s \ {Max(s)}], seq[Max(s)])
        BY <2>1, <4>1 DEF Folds
      <4>3. s \ {Max(s)} \in SUBSET (1 .. m + 1) /\ m + 1 \notin s \ {Max(s)}
        BY <3>2
      <4> QED BY <3>2, <4>2, <4>3
    <3> QED BY <3>1, <3>2
  <2>3. Folds(h, base, seq, m + 1)
    <3> HIDE DEF h
    <3>1. h = [s \in SUBSET (1 .. m + 1) |-> h[s]]
      BY DEF h
    <3> QED BY <2>2, <3>1 DEF Folds
  <2> QED BY <2>3
<1> HIDE DEF S
<1>3. n \in S
  BY <1>1, <1>2, Induct
<1> QED BY <1>3 DEF S

(* What it gives of the first m places depends on those alone.             *)
LEMMA FoldsUnique ==
  ASSUME NEW base, NEW s, NEW t, NEW n \in Nat, NEW k \in Nat, NEW l \in Nat, n <= k, n <= l, Same(s, t, n),
         NEW g, NEW h, Folds(g, base, s, k), Folds(h, base, t, l)
  PROVE  Agree(g, h, n)
<1> SUFFICES \A u \in SUBSET (1 .. n) : g[u] = h[u]
  BY DEF Agree
<1> DEFINE S == {m \in Nat : m <= n => \A u \in SUBSET (1 .. m) : g[u] = h[u]}
<1>1. ASSUME NEW u \in SUBSET (1 .. n), u # {}
      PROVE  /\ g[u] = Op(g[u \ {Max(u)}], s[Max(u)])
             /\ h[u] = Op(h[u \ {Max(u)}], t[Max(u)])
  <2>1. u \in SUBSET (1 .. k) /\ u \in SUBSET (1 .. l)
    OBVIOUS
  <2> QED BY <1>1, <2>1 DEF Folds
<1>2. 0 \in S
  <2>1. SUBSET (1 .. 0) = {{}}
    OBVIOUS
  <2>2. g[{}] = base /\ h[{}] = base
    BY DEF Folds
  <2> QED BY <2>1, <2>2
<1>3. ASSUME NEW m \in Nat, m \in S
      PROVE  m + 1 \in S
  <2> SUFFICES ASSUME m + 1 <= n, NEW u \in SUBSET (1 .. m + 1)
               PROVE  g[u] = h[u]
    OBVIOUS
  <2>1. CASE m + 1 \in u
    <3>1. Max(u) = m + 1
      BY <2>1, MaxIsGreatest
    <3>2. u \ {m + 1} \in SUBSET (1 .. m) /\ u \in SUBSET (1 .. n) /\ u # {} /\ m + 1 \in 1 .. n
      BY <2>1
    <3>3. g[u \ {m + 1}] = h[u \ {m + 1}]
      BY <1>3, <3>2
    <3>4. s[m + 1] = t[m + 1]
      BY <3>2 DEF Same
    <3> QED BY <1>1, <3>1, <3>2, <3>3, <3>4
  <2>2. CASE m + 1 \notin u
    BY <1>3, <2>2
  <2> QED BY <2>1, <2>2
<1> HIDE DEF S
<1>4. n \in S
  BY <1>2, <1>3, Induct
<1> QED BY <1>4 DEF S

LEMMA FoldIs ==
  ASSUME NEW E, NEW s \in Seq(E), NEW base, NEW g, Folds(g, base, s, Len(s))
  PROVE  FoldLeft(Op, base, s) = g[1 .. Len(s)]
<1> DEFINE f == CHOOSE f : f = [u \in SUBSET (1 .. Len(s)) |->
                     IF u = {} THEN base ELSE Op(f[u \ {Max(u)}], s[Max(u)])]
<1>1. DOMAIN s = 1 .. Len(s) /\ Len(s) \in Nat
  BY LenProperties
<1>2. FoldLeft(Op, base, s) = f[1 .. Len(s)]
  BY <1>1 DEF FoldLeft, MapThenFoldSet
<1>3. Folds(f, base, s, Len(s))
  BY <1>1, FoldsExists DEF Folds
<1> HIDE DEF f
<1>4. Agree(f, g, Len(s))
  <2>1. Len(s) \in Nat /\ Len(s) <= Len(s)
    BY <1>1
  <2>2. Same(s, s, Len(s))
    BY DEF Same
  <2>3. Folds(g, base, s, Len(s))
    OBVIOUS
  <2> QED BY <1>3, <2>1, <2>2, <2>3, FoldsUnique
<1> QED BY <1>1, <1>2, <1>4 DEF Agree

-----------------------------------------------------------------------------
(* The fold over the empty sequence is the base.                           *)
THEOREM FoldEmpty ==
  ASSUME NEW base
  PROVE  FoldLeft(Op, base, <<>>) = base
<1>1. PICK g : Folds(g, base, <<>>, 0)
  BY FoldsExists
<1>2. <<>> \in Seq({}) /\ Len(<<>>) = 0 /\ 1 .. 0 = {}
  OBVIOUS
<1>3. FoldLeft(Op, base, <<>>) = g[1 .. 0]
  BY <1>1, <1>2, FoldIs
<1> QED BY <1>1, <1>2, <1>3 DEF Folds

(* An element appended to a sequence is one more step of the fold.         *)
THEOREM FoldAppend ==
  ASSUME NEW E, NEW s \in Seq(E), NEW e \in E, NEW base
  PROVE  FoldLeft(Op, base, Append(s, e)) = Op(FoldLeft(Op, base, s), e)
<1> DEFINE t == Append(s, e)
           n == Len(s)
<1>1. /\ n \in Nat /\ n + 1 \in Nat /\ t \in Seq(E) /\ Len(t) = n + 1 /\ t[n + 1] = e
      /\ \A i \in 1 .. n : t[i] = s[i]
  BY LenProperties, AppendProperties
<1> HIDE DEF t, n
<1>2. PICK g : Folds(g, base, s, n)
  BY <1>1, FoldsExists
<1>3. PICK h : Folds(h, base, t, n + 1)
  BY <1>1, FoldsExists
<1>4. FoldLeft(Op, base, s) = g[1 .. n] /\ FoldLeft(Op, base, t) = h[1 .. n + 1]
  BY <1>1, <1>2, <1>3, FoldIs DEF n
<1>5. g[1 .. n] = h[1 .. n]
  <2>1. n \in Nat /\ n + 1 \in Nat /\ n <= n /\ n <= n + 1
    BY <1>1
  <2>2. Same(s, t, n)
    BY <1>1 DEF Same
  <2>3. Agree(g, h, n)
    BY <1>2, <1>3, <2>1, <2>2, FoldsUnique
  <2> QED BY <2>3 DEF Agree
<1>6. h[1 .. n + 1] = Op(h[1 .. n], e)
  <2>1. 1 .. n + 1 \in SUBSET (1 .. n + 1) /\ n + 1 \in 1 .. n + 1 /\ 1 .. n + 1 # {}
        /\ (1 .. n + 1) \ {n + 1} = 1 .. n
    BY <1>1
  <2>2. Max(1 .. n + 1) = n + 1
    BY <1>1, <2>1, MaxIsGreatest
  <2> QED BY <1>1, <1>3, <2>1, <2>2 DEF Folds
<1> QED BY <1>4, <1>5, <1>6 DEF t

(* The fold over two sequences one after the other is the fold over the    *)
(* second from what the first gave.                                        *)
THEOREM FoldConcat ==
  ASSUME NEW E, NEW s \in Seq(E), NEW t \in Seq(E), NEW base
  PROVE  FoldLeft(Op, base, s \o t) = FoldLeft(Op, FoldLeft(Op, base, s), t)
<1> DEFINE Upto(n) == SubSeq(t, 1, n)
           S == {n \in Nat : n <= Len(t) =>
                   FoldLeft(Op, base, s \o Upto(n)) = FoldLeft(Op, FoldLeft(Op, base, s), Upto(n))}
<1>1. Len(t) \in Nat /\ \A i \in 1 .. Len(t) : t[i] \in E
  BY LenProperties, ElementOfSeq
<1>2. 0 \in S
  <2>1. Upto(0) = <<>> /\ s \o <<>> = s
    BY SubSeqEmpty, ConcatEmptySeq
  <2> QED BY <2>1, FoldEmpty
<1>3. ASSUME NEW n \in Nat, n \in S
      PROVE  n + 1 \in S
  <2> SUFFICES ASSUME n + 1 <= Len(t)
               PROVE  FoldLeft(Op, base, s \o Upto(n + 1)) = FoldLeft(Op, FoldLeft(Op, base, s), Upto(n + 1))
    OBVIOUS
  <2>1. n + 1 \in 1 .. Len(t) /\ t[n + 1] \in E /\ \A i \in 1 .. n : t[i] \in E
    BY <1>1
  <2>2. Upto(n) \in Seq(E)
    BY <2>1, SubSeqProperties
  <2>3. Upto(n + 1) = Append(Upto(n), t[n + 1])
    <3>1. Upto(n + 1) = Upto((n + 1) - 1) \o <<t[n + 1]>>
      BY <1>1, <2>1, SubSeqRecursiveSecond
    <3>2. (n + 1) - 1 = n
      OBVIOUS
    <3>3. Append(Upto(n), t[n + 1]) = Upto(n) \o <<t[n + 1]>>
      BY <2>1, <2>2, AppendIsConcat
    <3> QED BY <3>1, <3>2, <3>3
  <2>4. s \o Upto(n + 1) = Append(s \o Upto(n), t[n + 1])
    <3>1. s \o Upto(n) \in Seq(E) /\ <<t[n + 1]>> \in Seq(E)
      BY <2>1, <2>2, ConcatProperties
    <3>2. Append(s \o Upto(n), t[n + 1]) = (s \o Upto(n)) \o <<t[n + 1]>>
      BY <2>1, <3>1, AppendIsConcat
    <3>3. Append(Upto(n), t[n + 1]) = Upto(n) \o <<t[n + 1]>>
      BY <2>1, <2>2, AppendIsConcat
    <3> QED BY <2>2, <2>3, <3>1, <3>2, <3>3, ConcatAssociative
  <2>5. s \o Upto(n) \in Seq(E)
    BY <2>2, ConcatProperties
  <2>6. FoldLeft(Op, base, Append(s \o Upto(n), t[n + 1])) = Op(FoldLeft(Op, base, s \o Upto(n)), t[n + 1])
    BY <2>1, <2>5, FoldAppend
  <2>7. FoldLeft(Op, FoldLeft(Op, base, s), Append(Upto(n), t[n + 1]))
          = Op(FoldLeft(Op, FoldLeft(Op, base, s), Upto(n)), t[n + 1])
    BY <2>1, <2>2, FoldAppend
  <2>8. FoldLeft(Op, base, s \o Upto(n)) = FoldLeft(Op, FoldLeft(Op, base, s), Upto(n))
    BY <1>1, <1>3, <2>1
  <2> QED BY <2>3, <2>4, <2>6, <2>7, <2>8
<1> HIDE DEF S
<1>4. Len(t) \in S
  BY <1>1, <1>2, <1>3, Induct
<1>5. Upto(Len(t)) = t
  BY SubSeqFull
<1>6. FoldLeft(Op, base, s \o Upto(Len(t))) = FoldLeft(Op, FoldLeft(Op, base, s), Upto(Len(t)))
  BY <1>1, <1>4 DEF S
<1> QED BY <1>5, <1>6

(* What holds of the base and is kept by each element holds of the fold.   *)
Kept(s) == \A n \in 0 .. Len(s) - 1 : \A z : Keeps(s, n, z) => Keeps(s, n + 1, Op(z, s[n + 1]))

THEOREM FoldKeeps ==
  ASSUME NEW E, NEW s \in Seq(E), NEW base, Keeps(s, 0, base), Kept(s)
  PROVE  Keeps(s, Len(s), FoldLeft(Op, base, s))
<1> DEFINE Upto(n) == SubSeq(s, 1, n)
           S == {n \in Nat : n <= Len(s) => Keeps(s, n, FoldLeft(Op, base, Upto(n)))}
<1>1. Len(s) \in Nat /\ \A i \in 1 .. Len(s) : s[i] \in E
  BY LenProperties, ElementOfSeq
<1>2. 0 \in S
  <2>1. Upto(0) = <<>>
    BY SubSeqEmpty
  <2> QED BY <2>1, FoldEmpty
<1>3. ASSUME NEW n \in Nat, n \in S
      PROVE  n + 1 \in S
  <2> SUFFICES ASSUME n + 1 <= Len(s)
               PROVE  Keeps(s, n + 1, FoldLeft(Op, base, Upto(n + 1)))
    OBVIOUS
  <2>1. n + 1 \in 1 .. Len(s) /\ s[n + 1] \in E /\ n \in 0 .. Len(s) - 1 /\ \A i \in 1 .. n : s[i] \in E
    BY <1>1
  <2>2. Upto(n) \in Seq(E)
    BY <2>1, SubSeqProperties
  <2>3. Upto(n + 1) = Append(Upto(n), s[n + 1])
    <3>1. Upto(n + 1) = Upto((n + 1) - 1) \o <<s[n + 1]>>
      BY <1>1, <2>1, SubSeqRecursiveSecond
    <3>2. (n + 1) - 1 = n
      OBVIOUS
    <3>3. Append(Upto(n), s[n + 1]) = Upto(n) \o <<s[n + 1]>>
      BY <2>1, <2>2, AppendIsConcat
    <3> QED BY <3>1, <3>2, <3>3
  <2>4. FoldLeft(Op, base, Append(Upto(n), s[n + 1])) = Op(FoldLeft(Op, base, Upto(n)), s[n + 1])
    BY <2>1, <2>2, FoldAppend
  <2>5. Keeps(s, n, FoldLeft(Op, base, Upto(n)))
    BY <1>1, <1>3, <2>1
  <2> QED BY <2>1, <2>3, <2>4, <2>5 DEF Kept
<1> HIDE DEF S
<1>4. Len(s) \in S
  BY <1>1, <1>2, <1>3, Induct
<1>5. Keeps(s, Len(s), FoldLeft(Op, base, Upto(Len(s))))
  BY <1>1, <1>4 DEF S
<1>6. Upto(Len(s)) = s
  BY SubSeqFull
<1> QED BY <1>5, <1>6
=============================================================================
