---------------------------- MODULE RouterProofs ----------------------------
(***************************************************************************)
(* Proofs, for any regular expressions, patterns, requests and number of   *)
(* registrations, of what MCRouter checks for three of them: that handler, *)
(* pages and parameters of an answer are those of the patterns registered. *)
(*                                                                         *)
(* The invariant has three parts.  TreeInv says what the tree is in terms  *)
(* of the calls that were made, and stands while one of them is half done. *)
(* Walked says that a request is on the way its path prefers; that this    *)
(* way has one end only is shown along the walk, as every way that could   *)
(* be the end goes through the node the walk is at.  Served says what it   *)
(* has collected so far.                                                   *)
(***************************************************************************)
EXTENDS Router, FiniteSetTheorems, SequenceTheorems, TLAPS

(* The keys of nodes, and the pages a node may hold.                       *)
Key     == {part.key : part \in Parts} \cup Segments \cup Range(Shapes)
Methods == {route.method : route \in Routes} \cup {r.method : r \in Requests}
Pages   == UNION {[M -> Routes] : M \in SUBSET Methods}
Node    == [params : Seq(Names), pages : [Kinds -> Pages]]

-----------------------------------------------------------------------------
(* Sequences and least elements.                                           *)

LEMMA UptoIs ==
  ASSUME NEW S, NEW k \in Seq(S), NEW j \in 0..Len(k)
  PROVE  /\ Upto(k, j) \in Seq(S) /\ Len(Upto(k, j)) = j
         /\ DOMAIN Upto(k, j) = 1..j
         /\ \A i \in 1..j : Upto(k, j)[i] = k[i]
<1>1. Len(k) \in Nat /\ \A i \in 1..Len(k) : k[i] \in S
  BY LenProperties, ElementOfSeq
<1>2. \A i \in 1..j : k[i] \in S
  BY <1>1
<1>3. /\ SubSeq(k, 1, j) \in Seq(S)
      /\ Len(SubSeq(k, 1, j)) = IF 1 <= j THEN j - 1 + 1 ELSE 0
      /\ \A i \in 1..j - 1 + 1 : SubSeq(k, 1, j)[i] = k[1 + i - 1]
  BY <1>1, <1>2, SubSeqProperties
<1>4. Len(Upto(k, j)) = j /\ \A i \in 1..j : Upto(k, j)[i] = k[i]
  BY <1>1, <1>3 DEF Upto
<1>5. DOMAIN Upto(k, j) = 1..j
  BY <1>3, <1>4, LenProperties DEF Upto
<1> QED BY <1>3, <1>4, <1>5 DEF Upto

LEMMA UptoAll ==
  ASSUME NEW S, NEW k \in Seq(S)
  PROVE  Upto(k, Len(k)) = k /\ Upto(k, 0) = <<>>
BY SubSeqFull, SubSeqEmpty DEF Upto

LEMMA UptoUpto ==
  ASSUME NEW S, NEW k \in Seq(S), NEW j \in 0..Len(k), NEW i \in 0..j
  PROVE  Upto(Upto(k, j), i) = Upto(k, i)
<1>1. Len(k) \in Nat
  BY LenProperties
<1>2. Upto(k, j) \in Seq(S) /\ Len(Upto(k, j)) = j /\ \A h \in 1..j : Upto(k, j)[h] = k[h]
  BY UptoIs
<1>3. i \in 0..Len(Upto(k, j)) /\ i \in 0..Len(k)
  BY <1>1, <1>2
<1>4. /\ Upto(Upto(k, j), i) \in Seq(S) /\ Len(Upto(Upto(k, j), i)) = i
      /\ \A h \in 1..i : Upto(Upto(k, j), i)[h] = Upto(k, j)[h]
  BY <1>2, <1>3, UptoIs
<1>5. /\ Upto(k, i) \in Seq(S) /\ Len(Upto(k, i)) = i
      /\ \A h \in 1..i : Upto(k, i)[h] = k[h]
  BY <1>3, UptoIs
<1>6. \A h \in 1..i : h \in 1..j
  BY <1>1
<1>7. \A h \in 1..i : Upto(Upto(k, j), i)[h] = Upto(k, i)[h]
  BY <1>2, <1>4, <1>5, <1>6
<1> QED BY <1>4, <1>5, <1>7, SeqEqual

LEMMA AppendIs ==
  ASSUME NEW S, NEW k \in Seq(S), NEW x \in S
  PROVE  /\ Append(k, x) \in Seq(S) /\ Append(k, x) # <<>>
         /\ Len(Append(k, x)) = Len(k) + 1 /\ DOMAIN Append(k, x) = 1..Len(k) + 1
         /\ \A i \in 1..Len(k) : Append(k, x)[i] = k[i]
         /\ Append(k, x)[Len(k) + 1] = x
         /\ Last(Append(k, x)) = x
         /\ \A j \in 0..Len(k) : Upto(Append(k, x), j) = Upto(k, j)
<1>1. /\ Append(k, x) \in Seq(S) /\ Append(k, x) # <<>>
      /\ Len(Append(k, x)) = Len(k) + 1
      /\ \A i \in 1..Len(k) : Append(k, x)[i] = k[i]
      /\ Append(k, x)[Len(k) + 1] = x
  BY AppendProperties
<1>2. DOMAIN Append(k, x) = 1..Len(k) + 1 /\ Len(k) \in Nat
  BY <1>1, LenProperties
<1>3. ASSUME NEW j \in 0..Len(k)
      PROVE  Upto(Append(k, x), j) = Upto(k, j)
  <2>1. j \in 0..Len(Append(k, x))
    BY <1>1, <1>2
  <2>2. /\ Upto(Append(k, x), j) \in Seq(S) /\ Len(Upto(Append(k, x), j)) = j
        /\ \A h \in 1..j : Upto(Append(k, x), j)[h] = Append(k, x)[h]
    BY <1>1, <2>1, UptoIs
  <2>3. /\ Upto(k, j) \in Seq(S) /\ Len(Upto(k, j)) = j
        /\ \A h \in 1..j : Upto(k, j)[h] = k[h]
    BY UptoIs
  <2>4. \A h \in 1..j : h \in 1..Len(k)
    BY <1>2
  <2>5. \A h \in 1..j : Upto(Append(k, x), j)[h] = Upto(k, j)[h]
    BY <1>1, <2>2, <2>3, <2>4
  <2> QED BY <2>2, <2>3, <2>5, SeqEqual
<1> QED BY <1>1, <1>2, <1>3 DEF Last

(* Min is what its name says on every set of naturals that has a member: of *)
(* the initial segments 0 .. i, which are finite, one is minimal.           *)
LEMMA MinIsLeast ==
  ASSUME NEW S, S \subseteq Nat, S # {}
  PROVE  Min(S) \in S /\ \A j \in S : Min(S) <= j
<1> DEFINE T == {0 .. i : i \in S}
<1>1. T \subseteq FiniteSubsetsOf(Nat) /\ T # {}
  <2>1. \A i \in S : 0 .. i \in SUBSET Nat /\ IsFiniteSet(0 .. i)
    BY FS_Interval
  <2> QED BY <2>1 DEF FiniteSubsetsOf
<1> HIDE DEF T
<1>2. PICK x \in T : \A y \in T : ~ (<<y, x>> \in StrictSubsetOrdering(Nat))
  BY <1>1, FS_StrictSubsetOrderingWellFounded, WFMin
<1>3. PICK m \in S : x = 0 .. m
  BY <1>2 DEF T
<1>4. ASSUME NEW j \in S
      PROVE  m <= j
  <2>1. m \in Nat /\ j \in Nat
    OBVIOUS
  <2>2. <<0 .. j, 0 .. m>> \notin StrictSubsetOrdering(Nat)
    <3>1. 0 .. j \in T
      BY DEF T
    <3> QED BY <1>2, <1>3, <3>1
  <2>3. CASE j < m
    <3>1. 0 .. j \in SUBSET Nat /\ 0 .. m \in SUBSET Nat /\ 0 .. j \subseteq 0 .. m
      BY <2>1, <2>3
    <3>2. m \in 0 .. m /\ m \notin 0 .. j
      BY <2>1, <2>3
    <3> QED BY <2>2, <3>1, <3>2 DEF StrictSubsetOrdering
  <2> QED BY <2>1, <2>3
<1>5. \E i \in S : \A j \in S : i =< j
  BY <1>4
<1> QED BY <1>5, Zenon DEF Min

-----------------------------------------------------------------------------
(* The places of a set of naturals in order.                               *)

Below(S, n) == Cardinality({m \in S : m < n})

(* Each place from the first to the last has one member of the set.        *)
LEMMA RankedIs ==
  ASSUME NEW S, S \subseteq Nat, IsFiniteSet(S), NEW i \in 1..Cardinality(S)
  PROVE  /\ Ranked(S, i) \in S /\ Below(S, Ranked(S, i)) = i - 1
         /\ \A n \in S : Below(S, n) = i - 1 => n = Ranked(S, i)
<1> DEFINE rank(n) == Cardinality({m \in S : m < n})
           f == [n \in S |-> rank(n) + 1]
<1>1. Cardinality(S) \in Nat
  BY FS_CardinalityType
<1>2. ASSUME NEW n \in S
      PROVE  rank(n) \in 0..Cardinality(S) - 1
  <2>1. {m \in S : m < n} \in SUBSET S /\ {m \in S : m < n} # S
    <3>1. n \notin {m \in S : m < n}
      BY n \in Nat
    <3> QED BY <3>1
  <2>2. /\ IsFiniteSet({m \in S : m < n}) /\ rank(n) <= Cardinality(S)
        /\ Cardinality(S) = rank(n) => S = {m \in S : m < n}
    BY <2>1, FS_Subset
  <2>3. rank(n) \in Nat /\ rank(n) <= Cardinality(S) /\ rank(n) # Cardinality(S)
    BY <2>1, <2>2, FS_CardinalityType
  <2> HIDE DEF rank
  <2> QED BY <1>1, <2>3
<1>3. ASSUME NEW n1 \in S, NEW n2 \in S, n1 < n2
      PROVE  rank(n1) < rank(n2)
  <2> DEFINE A == {m \in S : m < n1}
             B == {m \in S : m < n2}
  <2>1. A \in SUBSET B /\ n1 \in B /\ n1 \notin A
    <3>1. n1 \in Nat /\ n2 \in Nat /\ \A m \in S : m \in Nat
      OBVIOUS
    <3>2. \A m \in S : m < n1 => m < n2
      BY <1>3, <3>1
    <3>3. ~(n1 < n1)
      BY <3>1
    <3>4. A \subseteq B /\ n1 \in B /\ n1 \notin A
      BY <1>3, <3>2, <3>3
    <3> HIDE DEF A, B
    <3> QED BY <3>4
  <2>2. IsFiniteSet(B)
    BY FS_Subset
  <2>3. /\ IsFiniteSet(A) /\ Cardinality(A) <= Cardinality(B)
        /\ Cardinality(B) = Cardinality(A) => B = A
    <3> HIDE DEF A, B
    <3> QED BY <2>1, <2>2, FS_Subset
  <2>4. Cardinality(A) \in Nat /\ Cardinality(B) \in Nat
    <3> HIDE DEF A, B
    <3> QED BY <2>2, <2>3, FS_CardinalityType
  <2>5. Cardinality(A) < Cardinality(B)
    <3> HIDE DEF A, B
    <3> QED BY <2>1, <2>3, <2>4
  <2> QED BY <2>5
<1>4. f \in Injection(S, 1..Cardinality(S))
  <2>1. \A n \in S : rank(n) + 1 \in 1..Cardinality(S) /\ rank(n) \in Nat
    <3> HIDE DEF rank
    <3> QED BY <1>1, <1>2
  <2>2. \A n1, n2 \in S : rank(n1) + 1 = rank(n2) + 1 => n1 = n2
    <3>1. \A n \in S : n \in Nat
      OBVIOUS
    <3> HIDE DEF rank
    <3> QED BY <1>3, <2>1, <3>1
  <2>3. f \in [S -> 1..Cardinality(S)] /\ \A n1, n2 \in S : f[n1] = f[n2] => n1 = n2
    <3> HIDE DEF rank
    <3> QED BY <2>1, <2>2
  <2> HIDE DEF f
  <2> QED BY <2>3 DEF Injection, IsInjective
<1>5. f \in Surjection(S, 1..Cardinality(S))
  <2>1. IsFiniteSet(1..Cardinality(S)) /\ Cardinality(1..Cardinality(S)) = Cardinality(S)
    BY <1>1, FS_Interval
  <2> HIDE DEF f
  <2> QED BY <1>4, <2>1, FS_Injection
<1>6. PICK n \in S : f[n] = i
  <2> HIDE DEF f
  <2> QED BY <1>5 DEF Surjection
<1>7. rank(n) = i - 1
  <2>1. rank(n) + 1 = i /\ rank(n) \in Nat
    <3> HIDE DEF rank
    <3> QED BY <1>1, <1>2, <1>6
  <2> HIDE DEF rank
  <2> QED BY <2>1
<1>8. Ranked(S, i) \in S /\ rank(Ranked(S, i)) = i - 1
  <2>1. \E h \in S : Cardinality({m \in S : m < h}) = i - 1
    BY <1>7
  <2> QED BY <2>1, Zenon DEF Ranked
<1>9. ASSUME NEW m \in S, rank(m) = i - 1
      PROVE  m = Ranked(S, i)
  <2>1. m \in Nat /\ Ranked(S, i) \in Nat
    BY <1>8
  <2> HIDE DEF rank
  <2>2. rank(m) \in Nat
    BY <1>1, <1>2
  <2> QED BY <1>3, <1>8, <1>9, <2>1, <2>2
<1> QED BY <1>8, <1>9 DEF Below

(* A member above all others takes the last place.                         *)
LEMMA RankedNext ==
  ASSUME NEW S, S \subseteq Nat, IsFiniteSet(S), NEW b \in Nat, \A n \in S : n < b
  PROVE  /\ Cardinality(S \cup {b}) = Cardinality(S) + 1
         /\ \A i \in 1..Cardinality(S) : Ranked(S \cup {b}, i) = Ranked(S, i)
         /\ Ranked(S \cup {b}, Cardinality(S) + 1) = b
<1> DEFINE T == S \cup {b}
<1>1. T \subseteq Nat /\ b \notin S
  OBVIOUS
<1>2. IsFiniteSet(T) /\ Cardinality(T) = Cardinality(S) + 1 /\ Cardinality(S) \in Nat
  BY <1>1, FS_AddElement, FS_CardinalityType
<1>3. ASSUME NEW n \in S
      PROVE  n \in T /\ Below(T, n) = Below(S, n)
  <2>1. n \in Nat /\ n < b
    OBVIOUS
  <2>2. ~(b < n)
    BY <2>1
  <2>3. {m \in T : m < n} = {m \in S : m < n}
    BY <2>2
  <2> QED BY <2>3 DEF Below
<1>4. b \in T /\ Below(T, b) = Cardinality(S)
  <2>1. ~(b < b)
    OBVIOUS
  <2>2. {m \in T : m < b} = S
    BY <2>1
  <2> QED BY <2>2 DEF Below
<1> HIDE DEF T
<1>5. ASSUME NEW i \in 1..Cardinality(S)
      PROVE  Ranked(T, i) = Ranked(S, i)
  <2>1. Ranked(S, i) \in S /\ Below(S, Ranked(S, i)) = i - 1
    BY RankedIs
  <2>2. Ranked(S, i) \in T /\ Below(T, Ranked(S, i)) = i - 1
    BY <1>3, <2>1
  <2>3. i \in 1..Cardinality(T)
    BY <1>2
  <2>4. \A h \in T : Below(T, h) = i - 1 => h = Ranked(T, i)
    BY <1>1, <1>2, <2>3, RankedIs
  <2> QED BY <2>2, <2>4
<1>6. Ranked(T, Cardinality(S) + 1) = b
  <2>1. PICK i : i = Cardinality(S) + 1
    OBVIOUS
  <2>2. i \in 1..Cardinality(T) /\ Cardinality(S) = i - 1
    BY <1>2, <2>1
  <2>3. Below(T, b) = i - 1
    BY <1>4, <2>2
  <2>4. \A h \in T : Below(T, h) = i - 1 => h = Ranked(T, i)
    BY <1>1, <1>2, <2>2, RankedIs
  <2> QED BY <1>4, <2>1, <2>3, <2>4
<1> QED BY <1>2, <1>5, <1>6 DEF T

-----------------------------------------------------------------------------
(* The invariant.                                                          *)

(* While a pattern is built, the call being made is the last, and the part *)
(* it is at lies on its way.                                               *)
Typed ==
  /\ routes \in Seq(Routes) /\ titles \in Seq(Names) /\ cur \in Seq(Key)
  /\ phase \in {"setup", "build", "walk", "answered"}
  /\ DOMAIN tree \subseteq Seq(Key) /\ tree \in [DOMAIN tree -> Node]
  /\ phase = "setup" => cur = <<>> /\ titles = <<>>
  /\ phase = "build" => Len(routes) \in Through(cur)
  /\ phase \in {"walk", "answered"} =>
       request \in Requests /\ Len(cur) <= Len(request.path)

(* Call n has made the node of its part l; call n is over. *)
Entered(n, l) == phase = "build" /\ n = Len(routes) => l <= Len(cur)
Over(n)       == phase = "build" => n < Len(routes)

(* The nodes are the beginnings of what was registered. *)
Nodes ==
  \A k \in Seq(Key) :
    k \in DOMAIN tree <=> k = <<>> \/ \E n \in Through(k) : Entered(n, Len(k))

(* A node has the pages of the first calls that registered one there. *)
PagesKept ==
  \A k \in DOMAIN tree : \A kind \in Kinds : \A m \in Methods :
    /\ m \in DOMAIN tree[k].pages[kind] =>
         \E n \in DOMAIN routes :
           /\ Over(n) /\ Registers(n, kind, k, m) /\ tree[k].pages[kind][m] = routes[n]
           /\ \A h \in DOMAIN routes : Registers(h, kind, k, m) => n <= h
    /\ m \notin DOMAIN tree[k].pages[kind] =>
         \A n \in DOMAIN routes : Over(n) => ~Registers(n, kind, k, m)

(* A regex part has the titles of the pattern that came first through it,  *)
(* and more of them exactly if it is spoiled.                              *)
TitlesKept ==
  \A k \in DOMAIN tree \ {<<>>} : IsRegex(Last(k)) =>
    /\ ~Spoiled(k) => tree[k].params = TitlesAt(k, Len(k))
    /\ Spoiled(k)  => Len(tree[k].params) > Len(TitlesAt(k, Len(k)))

(* Titles are left over exactly if the last regex part was there before.   *)
LeftOver(k) ==
  \E j \in 1..Len(k) : /\ IsRegex(k[j]) /\ \A i \in j + 1..Len(k) : ~IsRegex(k[i])
                       /\ First(Upto(k, j)) < Len(routes)
Waiting == phase = "build" => (titles # <<>> <=> LeftOver(cur))

-----------------------------------------------------------------------------
(* Registered patterns.                                                    *)

LEMMA RouteIs ==
  ASSUME NEW r \in Routes
  PROVE  /\ r.parts \in Seq(Parts) /\ r.method \in Methods
         /\ KindOf(r) \in Kinds
         /\ Keys(r) \in Seq(Key) /\ Len(Keys(r)) = Len(r.parts)
         /\ \A j \in 1..Len(r.parts) :
              /\ Keys(r)[j] = r.parts[j].key
              /\ r.parts[j] \in Parts /\ r.parts[j].key \in Key
              /\ r.parts[j].titles \in Seq(Names)
<1>1. r.parts \in Seq(Parts) /\ r.method \in Methods
  BY RouterAssumption DEF Methods
<1>2. KindOf(r) \in Kinds
  BY RouterAssumption DEF KindOf, Kinds
<1>3. DOMAIN r.parts = 1..Len(r.parts) /\ Len(r.parts) \in Nat
  BY <1>1, LenProperties
<1>4. \A j \in 1..Len(r.parts) : r.parts[j] \in Parts
  BY <1>1, ElementOfSeq
<1>5. \A j \in 1..Len(r.parts) : r.parts[j].key \in Key /\ r.parts[j].titles \in Seq(Names)
  BY <1>4, RouterAssumption DEF Key
<1>6. Keys(r) \in [1..Len(r.parts) -> Key] /\ \A j \in 1..Len(r.parts) : Keys(r)[j] = r.parts[j].key
  BY <1>3, <1>5 DEF Keys
<1>7. Keys(r) \in Seq(Key)
  BY <1>3, <1>6, SeqDef
<1>8. Len(Keys(r)) = Len(r.parts)
  BY <1>3, <1>6, <1>7, LenProperties
<1> QED BY <1>1, <1>2, <1>4, <1>5, <1>6, <1>7, <1>8

LEMMA FirstIs ==
  ASSUME NEW k, routes \in Seq(Routes), Through(k) # {}
  PROVE  /\ First(k) \in Through(k) /\ First(k) \in DOMAIN routes
         /\ \A n \in Through(k) : n \in Nat /\ First(k) <= n
<1>1. DOMAIN routes \subseteq Nat
  BY LenProperties
<1>2. Through(k) \subseteq DOMAIN routes
  BY DEF Through
<1> QED BY <1>1, <1>2, MinIsLeast DEF First

LEMMA ThroughUpto ==
  ASSUME NEW k \in Seq(Key), NEW j \in 0..Len(k), routes \in Seq(Routes)
  PROVE  Through(k) \subseteq Through(Upto(k, j))
<1>1. Len(k) \in Nat /\ DOMAIN k = 1..Len(k)
  BY LenProperties
<1>2. Len(Upto(k, j)) = j /\ DOMAIN Upto(k, j) = 1..j /\ \A i \in 1..j : Upto(k, j)[i] = k[i]
  BY UptoIs
<1>3. ASSUME NEW n \in Through(k)
      PROVE  n \in Through(Upto(k, j))
  <2>1. n \in DOMAIN routes /\ Len(k) <= Len(routes[n].parts)
    BY <1>3 DEF Through
  <2>2. Len(routes[n].parts) \in Nat
    BY <2>1, LenProperties, ElementOfSeq, RouteIs
  <2>3. j <= Len(routes[n].parts)
    BY <1>1, <2>1, <2>2
  <2>4. \A i \in 1..j : i \in DOMAIN k
    BY <1>1
  <2>5. \A i \in 1..j : k[i] = routes[n].parts[i].key
    BY <1>3, <2>4 DEF Through
  <2> QED BY <1>2, <2>1, <2>3, <2>5 DEF Through
<1> QED BY <1>3

(* A call more changes nothing of what is first through a node. *)
LEMMA FirstStays ==
  ASSUME NEW k, NEW r \in Routes, routes \in Seq(Routes), routes' = Append(routes, r),
         Through(k) # {}
  PROVE  /\ Through(k)' # {} /\ First(k)' = First(k)
         /\ routes'[First(k)] = routes[First(k)]
<1>1. /\ Len(routes) \in Nat /\ Len(routes') = Len(routes) + 1
      /\ DOMAIN routes = 1..Len(routes) /\ DOMAIN routes' = 1..Len(routes) + 1
      /\ \A i \in 1..Len(routes) : routes'[i] = routes[i]
  BY AppendIs, LenProperties
<1>2. Through(k) \subseteq Through(k)'
  BY <1>1 DEF Through
<1>3. \A n \in Through(k)' : n \in Through(k) \/ n = Len(routes) + 1
  BY <1>1 DEF Through
<1>4. First(k) \in Through(k) /\ \A n \in Through(k) : First(k) <= n
  BY FirstIs
<1>5. Through(k)' \subseteq Nat /\ Through(k) \subseteq 1..Len(routes)
  BY <1>1 DEF Through
<1>6. First(k)' \in Through(k)' /\ \A n \in Through(k)' : First(k)' <= n
  BY <1>2, <1>4, <1>5, MinIsLeast DEF First
<1>7. First(k)' = First(k)
  <2> HIDE DEF First
  <2>1. First(k) \in 1..Len(routes) /\ First(k)' \in Nat /\ First(k)' <= First(k)
    BY <1>2, <1>4, <1>5, <1>6
  <2>2. First(k)' \in Through(k)
    BY <1>1, <1>3, <1>6, <2>1
  <2> QED BY <1>4, <2>1, <2>2
<1> QED BY <1>1, <1>2, <1>4, <1>5, <1>7

(* What is said of a node stands when a call more is made.                 *)
LEMMA SpoiledStays ==
  ASSUME NEW k \in Seq(Key), NEW r \in Routes, routes \in Seq(Routes), routes' = Append(routes, r),
         Through(k) # {}
  PROVE  /\ Spoiled(k)' <=> Spoiled(k)
         /\ \A j \in 1..Len(k) : First(Upto(k, j))' = First(Upto(k, j)) /\ TitlesAt(k, j)' = TitlesAt(k, j)
<1>1. Len(k) \in Nat /\ Upto(k, Len(k)) = k
  BY LenProperties, UptoAll
<1>2. ASSUME NEW j \in 0..Len(k)
      PROVE  First(Upto(k, j))' = First(Upto(k, j)) /\ routes'[First(Upto(k, j))] = routes[First(Upto(k, j))]
  <2>1. Through(Upto(k, j)) # {}
    BY ThroughUpto
  <2> DEFINE u == Upto(k, j)
  <2>2. Through(u)' # {} /\ First(u)' = First(u) /\ routes'[First(u)] = routes[First(u)]
    <3> HIDE DEF u
    <3>1. Through(u) # {}
      BY <2>1 DEF u
    <3> QED BY <3>1, FirstStays
  <2> QED BY <2>2 DEF u
<1>3. \A j \in 1..Len(k) : First(Upto(k, j))' = First(Upto(k, j)) /\ TitlesAt(k, j)' = TitlesAt(k, j)
  <2>1. \A j \in 1..Len(k) : j \in 0..Len(k)
    BY <1>1
  <2> QED BY <1>2, <2>1 DEF TitlesAt
<1>4. First(k)' = First(k)
  BY FirstStays
<1>5. \A j \in 1..Len(k) - 1 : j \in 1..Len(k)
  BY <1>1
<1>6. Spoiled(k)' <=> Spoiled(k)
  BY <1>3, <1>4, <1>5 DEF Spoiled
<1> QED BY <1>3, <1>6

(* Nothing said of the registrations depends on anything else.             *)
LEMMA SameRoutes ==
  ASSUME NEW k, UNCHANGED routes
  PROVE  /\ Through(k)' = Through(k) /\ First(k)' = First(k)
         /\ Spoiled(k)' <=> Spoiled(k)
         /\ \A j : TitlesAt(k, j)' = TitlesAt(k, j)
BY DEF Through, First, Spoiled, TitlesAt

-----------------------------------------------------------------------------
(* Registration, step by step.                                             *)

LEMMA BuildEffect ==
  ASSUME Typed, Build_uri_part
  PROVE  \E part \in Parts : \E at \in Seq(Key) :
           /\ at = Append(cur, part.key) /\ cur' = at /\ part = routes[Len(routes)].parts[Len(at)]
           /\ part.key \in Key /\ part.titles \in Seq(Names)
           /\ Len(at) <= Len(routes[Len(routes)].parts)
           /\ Len(routes) \in Through(at) /\ UNCHANGED <<routes, request, page, phase>>
           /\ \/ at \in DOMAIN tree /\ tree' = tree /\ titles' = titles \o part.titles
              \/ /\ at \notin DOMAIN tree /\ DOMAIN tree' = DOMAIN tree \cup {at}
                 /\ \A k \in DOMAIN tree : tree'[k] = tree[k]
                 /\ \/ /\ IsRegex(part.key) /\ titles' = <<>>
                       /\ tree'[at] = NewPart(titles \o part.titles)
                    \/ /\ ~IsRegex(part.key) /\ titles' = titles \o part.titles
                       /\ tree'[at] = NewPart(<<>>)
<1> DEFINE r    == routes[Len(routes)]
           part == r.parts[Len(cur) + 1]
           at   == Append(cur, part.key)
<1>1. phase = "build" /\ Built = r /\ Len(cur) < Len(r.parts)
  BY DEF Build_uri_part, Built, Last
<1>2. Len(routes) \in DOMAIN routes /\ r \in Routes /\ \A j \in DOMAIN cur : cur[j] = r.parts[j].key
  <2>1. Len(routes) \in Through(cur) /\ routes \in Seq(Routes)
    BY <1>1 DEF Typed
  <2>2. Len(routes) \in DOMAIN routes /\ \A j \in DOMAIN cur : cur[j] = r.parts[j].key
    BY <2>1 DEF Through
  <2> QED BY <2>1, <2>2, LenProperties, ElementOfSeq
<1>3. cur \in Seq(Key) /\ Len(cur) \in Nat /\ DOMAIN cur = 1..Len(cur)
  BY LenProperties DEF Typed
<1>4. Len(r.parts) \in Nat
  BY <1>2, RouteIs, LenProperties
<1>5. Len(cur) + 1 \in 1..Len(r.parts)
  BY <1>1, <1>3, <1>4
<1>6. part \in Parts /\ part.key \in Key /\ part.titles \in Seq(Names)
  BY <1>2, <1>5, RouteIs
<1> HIDE DEF r
<1>7. /\ at \in Seq(Key) /\ Len(at) = Len(cur) + 1 /\ DOMAIN at = 1..Len(cur) + 1
      /\ \A i \in 1..Len(cur) : at[i] = cur[i]
      /\ at[Len(cur) + 1] = part.key
  <2> HIDE DEF part
  <2> QED BY <1>3, <1>6, AppendIs
<1>8. Len(routes) \in Through(at)
  <2>1. Len(at) <= Len(r.parts)
    BY <1>5, <1>7
  <2>2. \A j \in DOMAIN at : at[j] = r.parts[j].key
    <3> HIDE DEF at
    <3>1. \A j \in 1..Len(cur) + 1 : j \in 1..Len(cur) \/ j = Len(cur) + 1
      BY <1>3
    <3> QED BY <1>2, <1>3, <1>7, <3>1 DEF part
  <2> HIDE DEF at
  <2> QED BY <1>2, <2>1, <2>2 DEF Through, r
<1>9. Enter(part) /\ UNCHANGED <<routes, request, page, phase>>
  BY <1>1 DEF Build_uri_part, r
<1>10. cur' = at
  BY <1>9 DEF Enter
<1>11. at = Append(cur, part.key) /\ part = routes[Len(routes)].parts[Len(at)]
  BY <1>7 DEF r
<1> DEFINE new == NewPart(IF IsRegex(part.key) THEN titles \o part.titles ELSE <<>>)
<1>12. /\ tree' = Inserted(tree, at, NewPart(IF IsRegex(part.key) /\ ~(at \in DOMAIN tree)
                                             THEN titles \o part.titles ELSE <<>>))
       /\ titles' = IF IsRegex(part.key) /\ ~(at \in DOMAIN tree) THEN <<>> ELSE titles \o part.titles
  BY <1>9 DEF Enter, Known
<1> HIDE DEF at, part, new
<1>13. CASE at \in DOMAIN tree
  <2>1. tree' = tree /\ titles' = titles \o part.titles
    <3>1. DOMAIN tree \cup {at} = DOMAIN tree
      BY <1>13
    <3>2. tree = [k \in DOMAIN tree |-> tree[k]]
      BY DEF Typed
    <3>3. tree' = [k \in DOMAIN tree |-> tree[k]]
      BY <1>12, <3>1 DEF Inserted
    <3> QED BY <1>12, <1>13, <3>2, <3>3
  <2>2. Len(at) <= Len(routes[Len(routes)].parts)
    BY <1>5, <1>7 DEF r
  <2> QED BY <1>6, <1>7, <1>8, <1>9, <1>10, <1>11, <1>13, <2>1, <2>2
<1>14. CASE at \notin DOMAIN tree
  <2>1. tree' = Inserted(tree, at, new) /\ titles' = IF IsRegex(part.key) THEN <<>> ELSE titles \o part.titles
    BY <1>12, <1>14 DEF new
  <2>2. /\ DOMAIN tree' = DOMAIN tree \cup {at} /\ \A k \in DOMAIN tree : tree'[k] = tree[k]
        /\ tree'[at] = new
    BY <1>14, <2>1 DEF Inserted
  <2>3. Len(at) <= Len(routes[Len(routes)].parts)
    BY <1>5, <1>7 DEF r
  <2>4. CASE IsRegex(part.key)
    <3>1. titles' = <<>> /\ tree'[at] = NewPart(titles \o part.titles)
      BY <2>1, <2>2, <2>4 DEF new
    <3> QED BY <1>6, <1>7, <1>8, <1>9, <1>10, <1>11, <1>14, <2>2, <2>3, <2>4, <3>1
  <2>5. CASE ~IsRegex(part.key)
    <3>1. titles' = titles \o part.titles /\ tree'[at] = NewPart(<<>>)
      BY <2>1, <2>2, <2>5 DEF new
    <3> QED BY <1>6, <1>7, <1>8, <1>9, <1>10, <1>11, <1>14, <2>2, <2>3, <2>5, <3>1
  <2> QED BY <2>4, <2>5
<1> QED BY <1>13, <1>14

LEMMA AddEffect ==
  ASSUME Typed, cur \in DOMAIN tree, Add_page
  PROVE  \E r \in Routes : \E kind \in Kinds :
           /\ r = routes[Len(routes)] /\ kind = KindOf(r) /\ Len(cur) = Len(r.parts) /\ Keys(r) = cur
           /\ phase = "build" /\ phase' = "setup" /\ cur' = <<>> /\ titles' = <<>>
           /\ Len(routes) \in DOMAIN routes
           /\ UNCHANGED <<routes, request, page>>
           /\ \/ /\ tree' = tree
                 /\ \/ r.method \in DOMAIN tree[cur].pages[kind]
                    \/ r.folder /\ r.type # "handlers"
              \/ /\ r.method \notin DOMAIN tree[cur].pages[kind] /\ (r.folder => r.type = "handlers")
                 /\ DOMAIN tree' = DOMAIN tree /\ tree'[cur] \in Node
                 /\ tree'[cur].params = tree[cur].params
                 /\ \A k \in DOMAIN tree : k # cur => tree'[k] = tree[k]
                 /\ \A other \in Kinds : other # kind => tree'[cur].pages[other] = tree[cur].pages[other]
                 /\ DOMAIN tree'[cur].pages[kind] = DOMAIN tree[cur].pages[kind] \cup {r.method}
                 /\ \A m \in DOMAIN tree[cur].pages[kind] :
                      tree'[cur].pages[kind][m] = tree[cur].pages[kind][m]
                 /\ tree'[cur].pages[kind][r.method] = r
<1> DEFINE r == routes[Len(routes)]
           kind == KindOf(r)
           there == tree[cur].pages[kind]
           added == Inserted(there, r.method, r)
           throw == r.method \in DOMAIN there \/ (r.folder /\ r.type # "handlers")
<1>1. /\ phase = "build" /\ Built = r /\ Len(cur) = Len(r.parts)
      /\ phase' = "setup" /\ cur' = <<>> /\ titles' = <<>> /\ UNCHANGED <<routes, request, page>>
      /\ tree' = IF throw THEN tree ELSE [tree EXCEPT ![cur].pages[kind] = added]
  <2>1. Built = r
    BY DEF Built, Last
  <2> QED BY <2>1 DEF Add_page
<1>2. Len(routes) \in DOMAIN routes /\ r \in Routes /\ \A j \in DOMAIN cur : cur[j] = r.parts[j].key
  <2>1. Len(routes) \in Through(cur) /\ routes \in Seq(Routes)
    BY <1>1 DEF Typed
  <2>2. Len(routes) \in DOMAIN routes /\ \A j \in DOMAIN cur : cur[j] = r.parts[j].key
    BY <2>1 DEF Through
  <2> QED BY <2>1, <2>2, LenProperties, ElementOfSeq
<1> HIDE DEF r
<1>3. kind \in Kinds /\ r.method \in Methods
  BY <1>2, RouteIs
<1>4. Keys(r) = cur
  <2>1. /\ Keys(r) \in Seq(Key) /\ Len(Keys(r)) = Len(r.parts)
        /\ \A j \in 1..Len(r.parts) : Keys(r)[j] = r.parts[j].key
    BY <1>2, RouteIs
  <2>2. cur \in Seq(Key) /\ DOMAIN cur = 1..Len(cur)
    BY LenProperties DEF Typed
  <2> QED BY <1>1, <1>2, <2>1, <2>2, SeqEqual
<1>5. tree[cur] \in Node
  BY DEF Typed
<1>6. there \in Pages
  BY <1>3, <1>5 DEF Node
<1>7. CASE throw
  BY <1>1, <1>2, <1>3, <1>4, <1>7 DEF r
<1>8. CASE ~throw
  <2>1. /\ added \in Pages
        /\ DOMAIN added = DOMAIN there \cup {r.method} /\ added[r.method] = r
        /\ \A m \in DOMAIN there : added[m] = there[m]
    <3> HIDE DEF there, kind
    <3>1. PICK M \in SUBSET Methods : there \in [M -> Routes]
      BY <1>6 DEF Pages
    <3>2. /\ DOMAIN added = DOMAIN there \cup {r.method} /\ added[r.method] = r
          /\ \A m \in DOMAIN there : added[m] = there[m]
          /\ added = [m \in DOMAIN added |-> added[m]]
      BY <1>8 DEF Inserted
    <3> HIDE DEF added
    <3>3. added \in [M \cup {r.method} -> Routes]
      BY <1>2, <3>1, <3>2
    <3>4. M \cup {r.method} \in SUBSET Methods
      BY <1>3, <3>1
    <3> QED BY <3>2, <3>3, <3>4 DEF Pages
  <2> HIDE DEF added
  <2>2. tree' = [tree EXCEPT ![cur].pages[kind] = added]
    BY <1>1, <1>8
  <2>3. /\ DOMAIN tree' = DOMAIN tree /\ \A k \in DOMAIN tree : k # cur => tree'[k] = tree[k]
        /\ tree'[cur] = [tree[cur] EXCEPT !.pages[kind] = added]
    <3> HIDE DEF kind
    <3> QED BY <2>2
  <2>4. /\ tree'[cur] \in Node /\ tree'[cur].params = tree[cur].params
        /\ tree'[cur].pages[kind] = added
        /\ \A other \in Kinds : other # kind => tree'[cur].pages[other] = tree[cur].pages[other]
    <3> HIDE DEF kind
    <3> QED BY <1>3, <1>5, <2>1, <2>3 DEF Node
  <2>5. r.method \notin DOMAIN there /\ (r.folder => r.type = "handlers")
    BY <1>8
  <2> QED BY <1>1, <1>2, <1>3, <1>4, <2>1, <2>3, <2>4, <2>5 DEF r
<1> QED BY <1>7, <1>8

-----------------------------------------------------------------------------
(* Every step keeps the types.                                             *)

LEMMA RootIsThere ==
  ASSUME Typed, Nodes
  PROVE  cur \in DOMAIN tree \/ phase \in {"walk", "answered"}
<1>1. <<>> \in DOMAIN tree
  BY EmptySeq DEF Nodes
<1>2. CASE phase = "setup"
  BY <1>1, <1>2 DEF Typed
<1>3. CASE phase = "build"
  <2>1. Len(routes) \in Through(cur) /\ cur \in Seq(Key)
    BY <1>3 DEF Typed
  <2>2. Entered(Len(routes), Len(cur))
    <3>1. Len(cur) \in Nat
      BY <2>1, LenProperties
    <3> QED BY <3>1 DEF Entered
  <2> QED BY <2>1, <2>2 DEF Nodes
<1> QED BY <1>2, <1>3 DEF Typed

(* What the page is does not matter to the types.                          *)
LEMMA WalkTyped ==
  ASSUME Typed, UNCHANGED <<tree, routes, titles, request>>, phase = "walk",
         phase' \in {"walk", "answered"}, cur' \in Seq(Key), Len(cur') <= Len(request.path)
  PROVE  Typed'
<1>1. request' \in Requests /\ Len(cur') <= Len(request'.path)
  BY DEF Typed
<1> QED BY <1>1 DEF Typed

LEMMA SegmentIs ==
  ASSUME Typed, OnTheWay
  PROVE  /\ Segment \in Segments /\ Segment \in Key
         /\ Len(cur) \in Nat /\ Len(request.path) \in Nat /\ Len(cur) + 1 <= Len(request.path)
         /\ request.path \in Seq(Segments)
         /\ Append(cur, Segment) \in Seq(Key) /\ Len(Append(cur, Segment)) = Len(cur) + 1
         /\ \A i \in DOMAIN Shapes :
              /\ Shapes[i] \in Key /\ IsRegex(Shapes[i])
              /\ Append(cur, Shapes[i]) \in Seq(Key) /\ Len(Append(cur, Shapes[i])) = Len(cur) + 1
<1>1. phase = "walk" /\ Len(cur) < Len(request.path) /\ request \in Requests /\ cur \in Seq(Key)
  BY DEF OnTheWay, Typed
<1>2. request.path \in Seq(Segments)
  BY <1>1, RouterAssumption
<1>3. Len(cur) \in Nat /\ Len(request.path) \in Nat
  BY <1>1, <1>2, LenProperties
<1>4. Segment \in Segments
  BY <1>1, <1>2, <1>3, ElementOfSeq DEF Segment
<1>5. \A i \in DOMAIN Shapes : Shapes[i] \in Key /\ IsRegex(Shapes[i])
  BY DEF Key, IsRegex, Range
<1>6. Segment \in Key
  BY <1>4 DEF Key
<1> QED BY <1>1, <1>2, <1>3, <1>4, <1>5, <1>6, AppendIs

(* The place of the first regex that matches.                              *)
LEMMA MatchIs ==
  ASSUME Matching # {}
  PROVE  Min(Matching) \in Matching /\ Min(Matching) \in DOMAIN Shapes
         /\ \A i \in Matching : i \in Nat /\ Min(Matching) <= i
<1>1. DOMAIN Shapes \subseteq Nat
  BY RouterAssumption, LenProperties
<1>2. Matching \subseteq DOMAIN Shapes
  BY DEF Matching
<1> QED BY <1>1, <1>2, MinIsLeast

LEMMA StepTyped ==
  ASSUME Typed, Nodes, [Next]_vars
  PROVE  Typed'
<1> DEFINE Goal == Typed'
<1>1. ASSUME NEW r \in Routes, Set_handler(r)
      PROVE  Goal
  <2>1. /\ phase = "setup" /\ phase' = "build" /\ routes' = Append(routes, r)
        /\ UNCHANGED <<tree, titles, request, cur, page>>
    BY <1>1 DEF Set_handler
  <2>2. routes' \in Seq(Routes) /\ Len(routes') \in DOMAIN routes'
    <3>1. routes \in Seq(Routes) /\ Len(routes) \in Nat
      BY LenProperties DEF Typed
    <3> QED BY <2>1, <3>1, AppendIs
  <2>3. cur' = <<>> /\ titles' = <<>>
    BY <2>1 DEF Typed
  <2>4. Len(routes') \in Through(cur)'
    <3>1. Len(cur') = 0 /\ DOMAIN cur' = {}
      BY <2>3
    <3>2. Len(routes'[Len(routes')].parts) \in Nat
      BY <2>2, ElementOfSeq, LenProperties, RouteIs
    <3> QED BY <2>2, <3>1, <3>2 DEF Through
  <2> QED BY <2>1, <2>2, <2>3, <2>4 DEF Typed
<1>2. ASSUME Build_uri_part
      PROVE  Goal
  <2>1. PICK part \in Parts, at \in Seq(Key) :
           /\ cur' = at
           /\ part.key \in Key /\ part.titles \in Seq(Names)
           /\ Len(routes) \in Through(at) /\ UNCHANGED <<routes, request, page, phase>>
           /\ \/ at \in DOMAIN tree /\ tree' = tree /\ titles' = titles \o part.titles
              \/ /\ at \notin DOMAIN tree /\ DOMAIN tree' = DOMAIN tree \cup {at}
                 /\ \A k \in DOMAIN tree : tree'[k] = tree[k]
                 /\ \/ /\ IsRegex(part.key) /\ titles' = <<>>
                       /\ tree'[at] = NewPart(titles \o part.titles)
                    \/ /\ ~IsRegex(part.key) /\ titles' = titles \o part.titles
                       /\ tree'[at] = NewPart(<<>>)
    BY <1>2, BuildEffect
  <2>2. phase = "build"
    BY <1>2 DEF Build_uri_part
  <2>3. titles \o part.titles \in Seq(Names) /\ <<>> \in Seq(Names)
    BY <2>1, ConcatProperties, EmptySeq DEF Typed
  <2>4. titles' \in Seq(Names)
    BY <2>1, <2>3
  <2>5. \A names \in Seq(Names) : NewPart(names) \in Node
    <3>1. <<>> \in Pages
      <4>1. <<>> \in [{} -> Routes]
        OBVIOUS
      <4> QED BY <4>1 DEF Pages
    <3> QED BY <3>1 DEF NewPart, Node
  <2>6. DOMAIN tree' \subseteq Seq(Key) /\ tree' \in [DOMAIN tree' -> Node]
    <3>1. CASE tree' = tree
      BY <3>1 DEF Typed
    <3>2. CASE DOMAIN tree' = DOMAIN tree \cup {at} /\ tree'[at] \in Node
               /\ (\A k \in DOMAIN tree : tree'[k] = tree[k])
      <4>1. DOMAIN tree' \subseteq Seq(Key) /\ \A k \in DOMAIN tree' : tree'[k] \in Node
        BY <3>2 DEF Typed
      <4>2. tree' = [k \in DOMAIN tree' |-> tree'[k]]
        <5>1. tree' = Inserted(tree, Append(cur, Built.parts[Len(cur) + 1].key),
                        NewPart(IF IsRegex(Built.parts[Len(cur) + 1].key)
                                   /\ ~Known(Built.parts[Len(cur) + 1].key)
                                THEN titles \o Built.parts[Len(cur) + 1].titles ELSE <<>>))
          BY <1>2 DEF Build_uri_part, Enter
        <5> QED BY <5>1 DEF Inserted
      <4> QED BY <4>1, <4>2
    <3> QED BY <2>1, <2>3, <2>5, <3>1, <3>2
  <2>7. Len(routes') \in Through(cur)'
    <3>1. Through(at)' = Through(at)
      BY <2>1, SameRoutes
    <3> QED BY <2>1, <3>1 DEF Through
  <2> QED BY <2>1, <2>2, <2>4, <2>6, <2>7 DEF Typed
<1>3. ASSUME Add_page
      PROVE  Goal
  <2>1. phase = "build" /\ phase' = "setup" /\ cur' = <<>> /\ titles' = <<>>
        /\ UNCHANGED <<routes, request, page>>
    BY <1>3 DEF Add_page
  <2>2. cur \in DOMAIN tree
    BY <2>1, RootIsThere
  <2>3. DOMAIN tree' = DOMAIN tree
        /\ (tree' = tree \/ (tree'[cur] \in Node /\ \A k \in DOMAIN tree : k # cur => tree'[k] = tree[k]))
    BY <1>3, <2>2, AddEffect
  <2>4. tree' = [k \in DOMAIN tree' |-> tree'[k]]
    <3>1. \/ tree' = tree
          \/ tree' = [tree EXCEPT ![cur].pages[KindOf(Built)] =
                        Inserted(tree[cur].pages[KindOf(Built)], Built.method, Built)]
      BY <1>3 DEF Add_page
    <3> QED BY <3>1 DEF Typed
  <2>5. tree' \in [DOMAIN tree' -> Node] /\ DOMAIN tree' \subseteq Seq(Key)
    <3>1. \A k \in DOMAIN tree' : tree'[k] \in Node
      BY <2>3 DEF Typed
    <3> QED BY <2>3, <2>4, <3>1 DEF Typed
  <2>6. cur' \in Seq(Key) /\ titles' \in Seq(Names) /\ routes' \in Seq(Routes)
    BY <2>1, EmptySeq DEF Typed
  <2> QED BY <2>1, <2>5, <2>6 DEF Typed
<1>4. ASSUME NEW r \in Requests, Get_handler(r)
      PROVE  Goal
  <2>1. /\ phase = "setup" /\ phase' = "walk" /\ request' = r /\ cur' = <<>>
        /\ UNCHANGED <<tree, routes, titles, cur>>
    BY <1>4 DEF Get_handler, Typed
  <2>2. Len(cur') = 0 /\ Len(request'.path) \in Nat
    BY <2>1, RouterAssumption, LenProperties
  <2> QED BY <2>1, <2>2 DEF Typed
<1>5. ASSUME Walk_literal
      PROVE  Goal
  <2>1. /\ OnTheWay /\ cur' = Append(cur, Segment) /\ UNCHANGED <<tree, routes, titles, request, phase>>
    BY <1>5 DEF Walk_literal
  <2>2. phase = "walk"
    BY <2>1 DEF OnTheWay
  <2> QED BY <2>1, <2>2, SegmentIs, WalkTyped
<1>6. ASSUME Walk_regex
      PROVE  Goal
  <2>1. /\ OnTheWay /\ Matching # {} /\ cur' = Append(cur, Shapes[Min(Matching)])
        /\ UNCHANGED <<tree, routes, titles, request>> /\ phase' \in {phase, "answered"}
    BY <1>6 DEF Walk_regex
  <2>2. phase = "walk"
    BY <2>1 DEF OnTheWay
  <2> QED BY <2>1, <2>2, MatchIs, SegmentIs, WalkTyped
<1>7. ASSUME Not_found \/ Arrive
      PROVE  Goal
  <2>1. /\ phase = "walk" /\ phase' = "answered" /\ UNCHANGED <<tree, routes, titles, request, cur>>
    BY <1>7 DEF Not_found, Arrive, OnTheWay
  <2> QED BY <2>1, WalkTyped DEF Typed
<1>8. ASSUME UNCHANGED vars
      PROVE  Goal
  BY <1>8 DEF vars, Typed, Through
<1> HIDE DEF Goal
<1>9. Goal
  BY <1>1, <1>2, <1>3, <1>4, <1>5, <1>6, <1>7, <1>8 DEF Next
<1> QED BY <1>9 DEF Goal

-----------------------------------------------------------------------------
(* The tree is what was registered.                                        *)

(* Outside of registration nothing of it changes.                          *)
LEMMA TreeStays ==
  ASSUME UNCHANGED <<tree, routes>>, phase # "build", phase' # "build"
  PROVE  (Nodes => Nodes') /\ (PagesKept => PagesKept') /\ (TitlesKept => TitlesKept') /\ Waiting'
<1>1. \A n, l : Entered(n, l) /\ Entered(n, l)' /\ Over(n) /\ Over(n)'
  BY DEF Entered, Over
<1>2. Nodes => Nodes'
  BY <1>1 DEF Nodes, Through
<1>3. PagesKept => PagesKept'
  BY <1>1 DEF PagesKept, Registers
<1>4. TitlesKept => TitlesKept'
  <2>1. ASSUME NEW k
        PROVE  (Spoiled(k)' <=> Spoiled(k)) /\ \A j : TitlesAt(k, j)' = TitlesAt(k, j)
    BY SameRoutes
  <2> QED BY <2>1 DEF TitlesKept
<1>5. Waiting'
  BY DEF Waiting
<1> QED BY <1>2, <1>3, <1>4, <1>5

(* Two ways of one length on which one call lies are the same.             *)
LEMMA SameWay ==
  ASSUME NEW k \in Seq(Key), NEW at \in Seq(Key), Len(k) = Len(at),
         NEW n \in Through(k), n \in Through(at)
  PROVE  k = at
<1>1. DOMAIN k = 1..Len(k) /\ DOMAIN at = 1..Len(at)
  BY LenProperties
<1>2. \A j \in 1..Len(k) : k[j] = at[j]
  BY <1>1 DEF Through
<1> QED BY <1>2, SeqEqual

LEMMA SetNodes ==
  ASSUME Typed, Nodes, PagesKept, TitlesKept, NEW r \in Routes, Set_handler(r)
  PROVE  Nodes' /\ PagesKept' /\ TitlesKept' /\ Waiting'
<1>1. /\ phase = "setup" /\ phase' = "build" /\ routes' = Append(routes, r)
      /\ UNCHANGED <<tree, titles, request, cur, page>> /\ cur = <<>> /\ titles = <<>>
  BY DEF Set_handler, Typed
<1>2. /\ Len(routes) \in Nat /\ Len(routes') = Len(routes) + 1
      /\ DOMAIN routes = 1..Len(routes) /\ DOMAIN routes' = 1..Len(routes) + 1
      /\ \A i \in 1..Len(routes) : routes'[i] = routes[i]
  BY <1>1, AppendIs, LenProperties DEF Typed
<1>3. \A k : /\ \A n \in Through(k) : n \in Through(k)' /\ n \in 1..Len(routes)
             /\ \A n \in Through(k)' : n \in Through(k) \/ n = Len(routes')
  BY <1>2 DEF Through
<1>4. /\ \A n, l : Entered(n, l) /\ Over(n)
      /\ \A n \in 1..Len(routes) : \A l : Entered(n, l)'
      /\ \A n : \A l \in Nat : n = Len(routes') /\ Entered(n, l)' => l = 0
      /\ \A n \in DOMAIN routes' : Over(n)' => n \in DOMAIN routes
      /\ \A n \in DOMAIN routes : Over(n)'
  <2>1. Len(cur') = 0
    BY <1>1
  <2>2. \A n \in DOMAIN routes' : n \in DOMAIN routes \/ n = Len(routes')
    BY <1>2
  <2>3. \A n \in DOMAIN routes : n < Len(routes') /\ n # Len(routes')
    BY <1>2
  <2>4. Len(routes') \in Nat /\ ~(Len(routes') < Len(routes'))
    BY <1>2
  <2> QED BY <1>1, <1>2, <2>1, <2>2, <2>3, <2>4 DEF Entered, Over
<1>5. Nodes'
  <2>1. ASSUME NEW k \in Seq(Key)
        PROVE  k \in DOMAIN tree' <=> (k = <<>> \/ \E n \in Through(k)' : Entered(n, Len(k))')
    <3>1. k \in DOMAIN tree' <=> (k = <<>> \/ Through(k) # {})
      BY <1>1, <1>4 DEF Nodes
    <3>2. k # <<>> => Len(k) \in Nat \ {0}
      BY EmptySeq
    <3>3. ASSUME NEW n \in Through(k)', Entered(n, Len(k))', k # <<>>
          PROVE  n \in Through(k)
      <4>1. n = Len(routes') => Len(k) = 0
        BY <1>4, <3>2, <3>3
      <4> QED BY <1>3, <3>2, <3>3, <4>1
    <3> QED BY <1>3, <1>4, <3>1, <3>3
  <2> QED BY <2>1 DEF Nodes
<1>6. PagesKept'
  <2>1. \A n \in DOMAIN routes : \A kind, k, m : Registers(n, kind, k, m)' <=> Registers(n, kind, k, m)
    BY <1>2 DEF Registers
  <2>2. ASSUME NEW k \in DOMAIN tree, NEW kind \in Kinds, NEW m \in Methods,
               m \in DOMAIN tree[k].pages[kind]
        PROVE  \E n \in DOMAIN routes' :
                 /\ Over(n)' /\ Registers(n, kind, k, m)' /\ tree[k].pages[kind][m] = routes'[n]
                 /\ \A h \in DOMAIN routes' : Registers(h, kind, k, m)' => n <= h
    <3>1. PICK n \in DOMAIN routes :
             /\ Registers(n, kind, k, m) /\ tree[k].pages[kind][m] = routes[n]
             /\ \A h \in DOMAIN routes : Registers(h, kind, k, m) => n <= h
      BY <2>2 DEF PagesKept
    <3>2. \A h \in DOMAIN routes' : h \in DOMAIN routes \/ (h = Len(routes) + 1 /\ n <= h)
      BY <1>2
    <3>3. n \in DOMAIN routes' /\ Over(n)' /\ routes'[n] = routes[n]
      BY <1>2, <1>4
    <3> QED BY <2>1, <3>1, <3>2, <3>3
  <2>3. ASSUME NEW k \in DOMAIN tree, NEW kind \in Kinds, NEW m \in Methods,
               m \notin DOMAIN tree[k].pages[kind],
               NEW n \in DOMAIN routes', Over(n)'
        PROVE  ~Registers(n, kind, k, m)'
    BY <1>4, <2>1, <2>3 DEF PagesKept
  <2> QED BY <1>1, <2>2, <2>3 DEF PagesKept
<1>7. TitlesKept'
  <2>1. ASSUME NEW k \in DOMAIN tree \ {<<>>}, IsRegex(Last(k))
        PROVE  /\ ~Spoiled(k)' => tree[k].params = TitlesAt(k, Len(k))'
               /\ Spoiled(k)'  => Len(tree[k].params) > Len(TitlesAt(k, Len(k))')
    <3>1. k \in Seq(Key) /\ routes \in Seq(Routes)
      BY DEF Typed
    <3>2. Through(k) # {}
      BY <3>1 DEF Nodes
    <3>3. Len(k) \in 1..Len(k)
      BY <3>1, EmptySeq
    <3>4. (Spoiled(k)' <=> Spoiled(k)) /\ TitlesAt(k, Len(k))' = TitlesAt(k, Len(k))
      BY <1>1, <3>1, <3>2, <3>3, SpoiledStays
    <3> QED BY <2>1, <3>4 DEF TitlesKept
  <2> QED BY <1>1, <2>1 DEF TitlesKept
<1>8. Waiting'
  <2>1. Len(cur') = 0
    BY <1>1
  <2> QED BY <1>1, <2>1 DEF Waiting, LeftOver
<1> QED BY <1>5, <1>6, <1>7, <1>8

(* A node is there before the call that is made reaches it exactly if an   *)
(* earlier call lies on it.                                                *)
LEMMA NewIsFirst ==
  ASSUME Typed, Nodes, phase = "build", NEW at \in Seq(Key), Len(at) = Len(cur) + 1,
         Len(routes) \in Through(at)
  PROVE  /\ First(at) \in Nat /\ First(at) <= Len(routes) /\ Len(routes) \in Nat
         /\ at \in DOMAIN tree <=> First(at) < Len(routes)
         /\ \A n \in Through(at) : n # Len(routes) => at \in DOMAIN tree
<1>1. routes \in Seq(Routes) /\ cur \in Seq(Key)
  BY DEF Typed
<1>2. Len(routes) \in Nat /\ Len(cur) \in Nat
  BY <1>1, LenProperties
<1>3. First(at) \in Through(at) /\ \A n \in Through(at) : n \in Nat /\ First(at) <= n
  BY <1>1, FirstIs
<1>4. at # <<>>
  BY <1>2, EmptySeq
<1>5. at \in DOMAIN tree <=> \E n \in Through(at) : Entered(n, Len(at))
  BY <1>4 DEF Nodes
<1>6. \A n \in Through(at) : Entered(n, Len(at)) <=> n # Len(routes)
  BY <1>2 DEF Entered
<1>7. \A n \in Through(at) : n <= Len(routes)
  BY <1>1, LenProperties DEF Through
<1> QED BY <1>2, <1>3, <1>5, <1>6, <1>7

LEMMA BuildNodes ==
  ASSUME Typed, Nodes, PagesKept, Build_uri_part
  PROVE  Nodes' /\ PagesKept'
<1>1. PICK part \in Parts, at \in Seq(Key) :
         /\ at = Append(cur, part.key) /\ cur' = at /\ part.key \in Key
         /\ Len(routes) \in Through(at) /\ UNCHANGED <<routes, request, page, phase>>
         /\ \/ at \in DOMAIN tree /\ tree' = tree
            \/ /\ at \notin DOMAIN tree /\ DOMAIN tree' = DOMAIN tree \cup {at}
               /\ \A k \in DOMAIN tree : tree'[k] = tree[k]
               /\ \E names : tree'[at] = NewPart(names)
  BY BuildEffect
<1>2. phase = "build" /\ cur \in Seq(Key) /\ routes \in Seq(Routes) /\ Len(cur) \in Nat
  BY LenProperties DEF Typed, Build_uri_part
<1>3. Len(at) = Len(cur) + 1
  BY <1>1, <1>2, AppendIs
<1>4. \A k : Through(k)' = Through(k)
  BY <1>1 DEF Through
<1>5. \A n, l : (Entered(n, l)' <=> (n = Len(routes) => l <= Len(cur) + 1))
                /\ (Entered(n, l) <=> (n = Len(routes) => l <= Len(cur)))
  BY <1>1, <1>2, <1>3 DEF Entered
<1>6. DOMAIN tree' = DOMAIN tree \cup {at}
  BY <1>1
<1>7. Nodes'
  <2>1. ASSUME NEW k \in Seq(Key)
        PROVE  k \in DOMAIN tree' <=> (k = <<>> \/ \E n \in Through(k) : Entered(n, Len(k))')
    <3>1. Len(k) \in Nat
      BY LenProperties
    <3>2. ASSUME k \in DOMAIN tree
          PROVE  k = <<>> \/ \E n \in Through(k) : Entered(n, Len(k))'
      <4>1. \A n : Entered(n, Len(k)) => Entered(n, Len(k))'
        BY <1>2, <1>5, <3>1
      <4> QED BY <3>2, <4>1 DEF Nodes
    <3>3. ASSUME k = at
          PROVE  \E n \in Through(k) : Entered(n, Len(k))'
      <4>1. Entered(Len(routes), Len(k))'
        BY <1>2, <1>3, <1>5, <3>3
      <4> QED BY <1>1, <3>3, <4>1
    <3>4. ASSUME NEW n \in Through(k), Entered(n, Len(k))'
          PROVE  k \in DOMAIN tree \/ k = at
      <4>1. CASE n = Len(routes) /\ Len(k) = Len(at)
        BY <1>1, <4>1, SameWay
      <4>2. CASE ~(n = Len(routes) /\ Len(k) = Len(at))
        <5>1. Entered(n, Len(k))
          BY <1>2, <1>3, <1>5, <3>1, <3>4, <4>2
        <5> QED BY <5>1 DEF Nodes
      <4> QED BY <4>1, <4>2
    <3>5. <<>> \in DOMAIN tree
      BY EmptySeq DEF Nodes
    <3> QED BY <1>6, <3>2, <3>3, <3>4, <3>5
  <2> QED BY <1>4, <2>1 DEF Nodes
<1>8. PagesKept'
  <2>1. \A n, kind, k, m : (Registers(n, kind, k, m)' <=> Registers(n, kind, k, m)) /\ (Over(n)' <=> Over(n))
    BY <1>1 DEF Registers, Over
  <2>2. ASSUME NEW k \in DOMAIN tree
        PROVE  tree'[k] = tree[k]
    BY <1>1
  <2>3. ASSUME at \notin DOMAIN tree, NEW kind \in Kinds, NEW m \in Methods
        PROVE  /\ m \notin DOMAIN tree'[at].pages[kind]
               /\ \A n \in DOMAIN routes : Over(n) => ~Registers(n, kind, at, m)
    <3>1. m \notin DOMAIN tree'[at].pages[kind]
      <4>1. PICK names : tree'[at] = NewPart(names)
        BY <1>1, <2>3
      <4>2. tree'[at].pages = [h \in Kinds |-> <<>>]
        BY <4>1 DEF NewPart
      <4>3. tree'[at].pages[kind] = <<>>
        BY <4>2
      <4> QED BY <4>3
    <3>2. ASSUME NEW n \in DOMAIN routes, Over(n), Registers(n, kind, at, m)
          PROVE  FALSE
      <4>1. Keys(routes[n]) = at /\ routes[n] \in Routes
        BY <1>2, <3>2, LenProperties, ElementOfSeq DEF Registers
      <4>2. n \in Through(at)
        <5>1. /\ Len(at) = Len(routes[n].parts) /\ DOMAIN at = 1..Len(at)
              /\ \A j \in 1..Len(routes[n].parts) : at[j] = routes[n].parts[j].key
          BY <4>1, RouteIs, LenProperties
        <5>2. Len(at) \in Nat
          BY LenProperties
        <5> QED BY <5>1, <5>2 DEF Through
      <4>3. n # Len(routes)
        BY <1>2, <3>2, LenProperties DEF Over
      <4> QED BY <1>1, <1>2, <1>3, <2>3, <4>2, <4>3, NewIsFirst
    <3> QED BY <3>1, <3>2
  <2>4. ASSUME NEW k \in DOMAIN tree', NEW kind \in Kinds, NEW m \in Methods
        PROVE  /\ m \in DOMAIN tree'[k].pages[kind] =>
                    \E n \in DOMAIN routes :
                      /\ Over(n) /\ Registers(n, kind, k, m) /\ tree'[k].pages[kind][m] = routes[n]
                      /\ \A h \in DOMAIN routes : Registers(h, kind, k, m) => n <= h
               /\ m \notin DOMAIN tree'[k].pages[kind] =>
                    \A n \in DOMAIN routes : Over(n) => ~Registers(n, kind, k, m)
    <3>1. CASE k \in DOMAIN tree
      BY <2>2, <3>1 DEF PagesKept
    <3>2. CASE k = at /\ at \notin DOMAIN tree
      BY <2>3, <3>2
    <3> QED BY <1>6, <3>1, <3>2
  <2> QED BY <1>1, <2>1, <2>4 DEF PagesKept
<1> QED BY <1>7, <1>8

(* A part behind a regex part has the same titles left over before it.     *)
LEMMA LeftOverNext ==
  ASSUME Typed, NEW key \in Key, NEW at \in Seq(Key), at = Append(cur, key)
  PROVE  /\ IsRegex(key) => (LeftOver(at) <=> First(at) < Len(routes))
         /\ ~IsRegex(key) => (LeftOver(at) <=> LeftOver(cur))
         /\ First(at) = Len(routes) => (Spoiled(at) <=> IsRegex(key) /\ LeftOver(cur))
<1>1. cur \in Seq(Key) /\ Len(cur) \in Nat
  BY LenProperties DEF Typed
<1>2. /\ Len(at) = Len(cur) + 1 /\ at[Len(cur) + 1] = key /\ Last(at) = key
      /\ \A i \in 1..Len(cur) : at[i] = cur[i]
      /\ \A j \in 0..Len(cur) : Upto(at, j) = Upto(cur, j)
      /\ Upto(at, Len(cur) + 1) = at
  <2>1. /\ Len(at) = Len(cur) + 1 /\ at[Len(cur) + 1] = key /\ Last(at) = key
        /\ \A i \in 1..Len(cur) : at[i] = cur[i]
        /\ \A j \in 0..Len(cur) : Upto(at, j) = Upto(cur, j)
    BY <1>1, AppendIs
  <2>2. Upto(at, Len(at)) = at
    BY UptoAll
  <2> QED BY <2>1, <2>2
<1>3. /\ \A j \in 1..Len(cur) : j \in 0..Len(cur) /\ j \in 1..Len(at) /\ Len(at) \in j + 1..Len(at)
      /\ \A j \in 1..Len(at) : j \in 1..Len(cur) \/ j = Len(at)
      /\ \A j \in 1..Len(cur) : \A i \in j + 1..Len(cur) : i \in 1..Len(cur) /\ i \in j + 1..Len(at)
      /\ \A j \in 1..Len(cur) : \A i \in j + 1..Len(at) : i \in j + 1..Len(cur) \/ i = Len(at)
      /\ Len(at) \in 1..Len(at) /\ Len(at) + 1..Len(at) = {} /\ Len(at) - 1 = Len(cur)
  BY <1>1, <1>2
<1>4. ASSUME IsRegex(key)
      PROVE  LeftOver(at) <=> First(at) < Len(routes)
  <2>1. IsRegex(at[Len(at)])
    BY <1>2, <1>4
  <2>2. ASSUME NEW j \in 1..Len(at), \A i \in j + 1..Len(at) : ~IsRegex(at[i])
        PROVE  j = Len(at)
    BY <1>3, <2>1, <2>2
  <2>3. Upto(at, Len(at)) = at /\ Len(at) \in 1..Len(at) /\ Len(at) + 1..Len(at) = {}
    BY <1>2, <1>3
  <2> QED BY <2>1, <2>2, <2>3 DEF LeftOver
<1>5. ASSUME ~IsRegex(key)
      PROVE  LeftOver(at) <=> LeftOver(cur)
  BY <1>2, <1>3, <1>5 DEF LeftOver
<1>6. ASSUME First(at) = Len(routes)
      PROVE  Spoiled(at) <=> IsRegex(key) /\ LeftOver(cur)
  BY <1>2, <1>3, <1>6 DEF LeftOver, Spoiled
<1> QED BY <1>4, <1>5, <1>6

LEMMA BuildTitles ==
  ASSUME Typed, Nodes, TitlesKept, Waiting, Build_uri_part
  PROVE  TitlesKept' /\ Waiting'
<1>1. PICK part \in Parts, at \in Seq(Key) :
         /\ at = Append(cur, part.key) /\ cur' = at /\ part = routes[Len(routes)].parts[Len(at)]
         /\ part.key \in Key /\ part.titles \in Seq(Names)
         /\ Len(routes) \in Through(at) /\ UNCHANGED <<routes, request, page, phase>>
         /\ \/ at \in DOMAIN tree /\ tree' = tree /\ titles' = titles \o part.titles
            \/ /\ at \notin DOMAIN tree /\ DOMAIN tree' = DOMAIN tree \cup {at}
               /\ \A k \in DOMAIN tree : tree'[k] = tree[k]
               /\ \/ /\ IsRegex(part.key) /\ titles' = <<>>
                     /\ tree'[at] = NewPart(titles \o part.titles)
                  \/ /\ ~IsRegex(part.key) /\ titles' = titles \o part.titles
                     /\ tree'[at] = NewPart(<<>>)
  BY BuildEffect
<1>2. phase = "build" /\ cur \in Seq(Key) /\ titles \in Seq(Names) /\ Len(cur) \in Nat
  BY LenProperties DEF Typed, Build_uri_part
<1>3. Len(at) = Len(cur) + 1 /\ Last(at) = part.key /\ at # <<>> /\ Upto(at, Len(at)) = at
  <2>1. Len(at) = Len(cur) + 1 /\ Last(at) = part.key /\ at # <<>>
    BY <1>1, <1>2, AppendIs
  <2>2. Upto(at, Len(at)) = at
    BY UptoAll
  <2> QED BY <2>1, <2>2
<1>4. /\ First(at) \in Nat /\ First(at) <= Len(routes) /\ Len(routes) \in Nat
      /\ at \in DOMAIN tree <=> First(at) < Len(routes)
  BY <1>1, <1>2, <1>3, NewIsFirst
<1>5. /\ IsRegex(part.key) => (LeftOver(at) <=> First(at) < Len(routes))
      /\ ~IsRegex(part.key) => (LeftOver(at) <=> LeftOver(cur))
      /\ First(at) = Len(routes) => (Spoiled(at) <=> IsRegex(part.key) /\ LeftOver(cur))
  BY <1>1, LeftOverNext
<1>6. titles # <<>> <=> LeftOver(cur)
  BY <1>2 DEF Waiting
<1>7. IsRegex(part.key) <=> part.titles # <<>>
  BY RouterAssumption
<1>8. /\ (titles \o part.titles # <<>> <=> titles # <<>> \/ part.titles # <<>>)
      /\ Len(titles \o part.titles) = Len(titles) + Len(part.titles)
      /\ (titles = <<>> => titles \o part.titles = part.titles)
      /\ (titles # <<>> => Len(titles) \in Nat \ {0}) /\ Len(part.titles) \in Nat
  <2>1. Len(titles \o part.titles) = Len(titles) + Len(part.titles)
        /\ titles \o part.titles \in Seq(Names)
    BY <1>1, <1>2, ConcatProperties
  <2>2. titles = <<>> => titles \o part.titles = part.titles
    BY <1>1, ConcatEmptySeq
  <2>3. \A s \in Seq(Names) : Len(s) \in Nat /\ (s = <<>> <=> Len(s) = 0)
    BY EmptySeq, LenProperties
  <2>4. titles \in Seq(Names) /\ part.titles \in Seq(Names)
    BY <1>1, <1>2
  <2>5. titles # <<>> => Len(titles) \in Nat \ {0}
    BY <2>3, <2>4
  <2>6. titles \o part.titles # <<>> <=> titles # <<>> \/ part.titles # <<>>
    <3>1. Len(titles) + Len(part.titles) = 0 <=> Len(titles) = 0 /\ Len(part.titles) = 0
      BY <2>3, <2>4
    <3> QED BY <2>1, <2>3, <2>4, <3>1
  <2> QED BY <2>1, <2>2, <2>3, <2>4, <2>5, <2>6
<1>9. \A k : LeftOver(k)' <=> LeftOver(k)
  BY <1>1 DEF LeftOver, First, Through
<1>10. Waiting'
  <2>1. titles' # <<>> <=> LeftOver(at)
    <3>1. CASE IsRegex(part.key) /\ at \in DOMAIN tree
      BY <1>1, <1>4, <1>5, <1>7, <1>8, <3>1
    <3>2. CASE IsRegex(part.key) /\ at \notin DOMAIN tree
      BY <1>1, <1>4, <1>5, <3>2
    <3>3. CASE ~IsRegex(part.key)
      BY <1>1, <1>5, <1>6, <1>7, <1>8, <3>3
    <3> QED BY <3>1, <3>2, <3>3
  <2>2. LeftOver(cur)' <=> LeftOver(at)
    BY <1>1, <1>9 DEF LeftOver, First, Through
  <2> QED BY <2>1, <2>2 DEF Waiting
<1>11. TitlesKept'
  <2>1. ASSUME NEW k \in DOMAIN tree' \ {<<>>}, IsRegex(Last(k))
        PROVE  /\ ~Spoiled(k) => tree'[k].params = TitlesAt(k, Len(k))
               /\ Spoiled(k)  => Len(tree'[k].params) > Len(TitlesAt(k, Len(k)))
    <3>1. CASE k \in DOMAIN tree
      <4>1. tree'[k] = tree[k]
        BY <1>1, <3>1
      <4> QED BY <2>1, <3>1, <4>1 DEF TitlesKept
    <3>2. CASE k = at /\ at \notin DOMAIN tree
      <4>1. First(at) = Len(routes)
        BY <1>4, <3>2
      <4>2. TitlesAt(at, Len(at)) = part.titles
        BY <1>1, <1>3, <4>1 DEF TitlesAt
      <4>3. tree'[at].params = titles \o part.titles
        <5>1. IsRegex(part.key)
          BY <1>3, <2>1, <3>2
        <5>2. tree'[at] = NewPart(titles \o part.titles)
          BY <1>1, <3>2, <5>1
        <5> QED BY <5>2 DEF NewPart
      <4>4. Spoiled(at) <=> titles # <<>>
        BY <1>3, <1>5, <1>6, <2>1, <3>2, <4>1
      <4>5. Spoiled(at) => Len(titles \o part.titles) > Len(part.titles)
        BY <1>8, <4>4
      <4> QED BY <1>8, <3>2, <4>2, <4>3, <4>4, <4>5
    <3> QED BY <1>1, <2>1, <3>1, <3>2
  <2>2. ASSUME NEW k
        PROVE  (Spoiled(k)' <=> Spoiled(k)) /\ \A j : TitlesAt(k, j)' = TitlesAt(k, j)
    BY <1>1, SameRoutes
  <2> QED BY <2>1, <2>2 DEF TitlesKept
<1> QED BY <1>10, <1>11

LEMMA AddNodes ==
  ASSUME Typed, Nodes, PagesKept, TitlesKept, Add_page
  PROVE  Nodes' /\ PagesKept' /\ TitlesKept' /\ Waiting'
<1>1. cur \in DOMAIN tree
  BY RootIsThere DEF Add_page
<1>2. PICK r \in Routes, kind \in Kinds :
         /\ r = routes[Len(routes)] /\ kind = KindOf(r) /\ Len(cur) = Len(r.parts) /\ Keys(r) = cur
         /\ phase = "build" /\ phase' = "setup" /\ cur' = <<>> /\ titles' = <<>>
         /\ Len(routes) \in DOMAIN routes
         /\ UNCHANGED <<routes, request, page>>
         /\ \/ /\ tree' = tree
               /\ \/ r.method \in DOMAIN tree[cur].pages[kind]
                  \/ r.folder /\ r.type # "handlers"
            \/ /\ r.method \notin DOMAIN tree[cur].pages[kind] /\ (r.folder => r.type = "handlers")
               /\ DOMAIN tree' = DOMAIN tree /\ tree'[cur] \in Node
               /\ tree'[cur].params = tree[cur].params
               /\ \A k \in DOMAIN tree : k # cur => tree'[k] = tree[k]
               /\ \A other \in Kinds : other # kind => tree'[cur].pages[other] = tree[cur].pages[other]
               /\ DOMAIN tree'[cur].pages[kind] = DOMAIN tree[cur].pages[kind] \cup {r.method}
               /\ \A m \in DOMAIN tree[cur].pages[kind] :
                    tree'[cur].pages[kind][m] = tree[cur].pages[kind][m]
               /\ tree'[cur].pages[kind][r.method] = r
  BY <1>1, AddEffect
<1>3. DOMAIN tree' = DOMAIN tree /\ \A k \in DOMAIN tree : tree'[k].params = tree[k].params
  BY <1>2
<1>4. /\ routes \in Seq(Routes) /\ Len(routes) \in Nat /\ Len(cur) \in Nat
      /\ DOMAIN routes = 1..Len(routes)
  BY LenProperties DEF Typed
<1>5. \A n, l : Entered(n, l)' /\ Over(n)' /\ (n \in DOMAIN routes => (Over(n) <=> n # Len(routes)))
  BY <1>2, <1>4 DEF Entered, Over
<1>6. Nodes'
  <2>1. \A k : Through(k)' = Through(k)
    BY <1>2 DEF Through
  <2>2. ASSUME NEW k \in Seq(Key), NEW n \in Through(k)
        PROVE  Entered(n, Len(k))
    <3>1. n = Len(routes) => Len(k) <= Len(r.parts)
      BY <1>2 DEF Through
    <3> QED BY <1>2, <3>1 DEF Entered
  <2> QED BY <1>3, <1>5, <2>1, <2>2 DEF Nodes
<1>7. TitlesKept'
  <2>1. ASSUME NEW k
        PROVE  (Spoiled(k)' <=> Spoiled(k)) /\ \A j : TitlesAt(k, j)' = TitlesAt(k, j)
    BY <1>2, SameRoutes
  <2> QED BY <1>3, <2>1 DEF TitlesKept
<1>8. PagesKept'
  <2>1. \A n, h, k, m : Registers(n, h, k, m)' <=> Registers(n, h, k, m)
    BY <1>2 DEF Registers
  <2>2. \A h, k, m : Registers(Len(routes), h, k, m) <=>
                       /\ h = kind /\ k = cur /\ m = r.method /\ (r.folder => r.type = "handlers")
    BY <1>2 DEF Registers
  <2> DEFINE Has(k, h, m)  == m \in DOMAIN tree[k].pages[h]
             Has2(k, h, m) == m \in DOMAIN tree'[k].pages[h]
             Here(k, h, m) == k = cur /\ h = kind /\ m = r.method /\ ~Has(k, h, m)
                                /\ (r.folder => r.type = "handlers")
  <2>3. ASSUME NEW k \in DOMAIN tree, NEW h \in Kinds, NEW m \in Methods, ~Here(k, h, m)
        PROVE  (Has2(k, h, m) <=> Has(k, h, m))
               /\ (Has(k, h, m) => tree'[k].pages[h][m] = tree[k].pages[h][m])
    <3>1. CASE tree' = tree
      BY <3>1
    <3>2. CASE k # cur /\ tree'[k] = tree[k]
      BY <3>2
    <3>3. CASE k = cur /\ h # kind /\ tree'[cur].pages[h] = tree[cur].pages[h]
      BY <3>3
    <3>4. CASE /\ k = cur /\ h = kind
               /\ r.method \notin DOMAIN tree[cur].pages[kind] /\ (r.folder => r.type = "handlers")
               /\ DOMAIN tree'[cur].pages[kind] = DOMAIN tree[cur].pages[kind] \cup {r.method}
               /\ \A y \in DOMAIN tree[cur].pages[kind] :
                    tree'[cur].pages[kind][y] = tree[cur].pages[kind][y]
      <4>1. m # r.method
        BY <2>3, <3>4
      <4> QED BY <3>4, <4>1
    <3> QED BY <1>2, <3>1, <3>2, <3>3, <3>4
  <2>4. ASSUME NEW k \in DOMAIN tree, NEW h \in Kinds, NEW m \in Methods, Here(k, h, m)
        PROVE  Has2(k, h, m) /\ tree'[k].pages[h][m] = routes[Len(routes)]
    BY <1>2, <2>4
  <2>5. ASSUME NEW k \in DOMAIN tree, NEW h \in Kinds, NEW m \in Methods, Has2(k, h, m)
        PROVE  \E n \in DOMAIN routes :
                 /\ Registers(n, h, k, m) /\ tree'[k].pages[h][m] = routes[n]
                 /\ \A y \in DOMAIN routes : Registers(y, h, k, m) => n <= y
    <3>1. CASE Here(k, h, m)
      <4>1. \A y \in DOMAIN routes : Registers(y, h, k, m) => Len(routes) <= y
        <5>1. \A y \in DOMAIN routes : y # Len(routes) => ~Registers(y, h, k, m)
          BY <1>5, <3>1 DEF PagesKept
        <5> QED BY <1>4, <5>1
      <4>2. Registers(Len(routes), h, k, m)
        BY <2>2, <3>1
      <4> QED BY <1>2, <2>4, <3>1, <4>1, <4>2
    <3>2. CASE ~Here(k, h, m)
      <4>1. Has(k, h, m) /\ tree'[k].pages[h][m] = tree[k].pages[h][m]
        <5> HIDE DEF Has, Has2, Here
        <5> QED BY <2>3, <2>5, <3>2
      <4> QED BY <4>1 DEF PagesKept
    <3> HIDE DEF Here
    <3> QED BY <3>1, <3>2
  <2>6. ASSUME NEW k \in DOMAIN tree, NEW h \in Kinds, NEW m \in Methods, ~Has2(k, h, m),
               NEW n \in DOMAIN routes, Registers(n, h, k, m)
        PROVE  FALSE
    <3>1. ~Here(k, h, m) /\ ~Has(k, h, m)
      <4> HIDE DEF Has, Has2, Here
      <4> QED BY <2>3, <2>4, <2>6
    <3>2. n = Len(routes)
      BY <1>5, <2>6, <3>1 DEF PagesKept
    <3> QED BY <2>2, <2>6, <3>1, <3>2
  <2>7. ASSUME NEW k \in DOMAIN tree', NEW h \in Kinds, NEW m \in Methods
        PROVE  /\ m \in DOMAIN tree'[k].pages[h] =>
                    \E n \in DOMAIN routes :
                      /\ Over(n)' /\ Registers(n, h, k, m)' /\ tree'[k].pages[h][m] = routes[n]
                      /\ \A y \in DOMAIN routes : Registers(y, h, k, m)' => n <= y
               /\ m \notin DOMAIN tree'[k].pages[h] =>
                    \A n \in DOMAIN routes : Over(n)' => ~Registers(n, h, k, m)'
    <3>1. k \in DOMAIN tree
      BY <1>3
    <3>2. Has2(k, h, m) =>
            \E n \in DOMAIN routes :
              /\ Registers(n, h, k, m) /\ tree'[k].pages[h][m] = routes[n]
              /\ \A y \in DOMAIN routes : Registers(y, h, k, m) => n <= y
      <4> HIDE DEF Has2, Has, Here
      <4> QED BY <2>5, <3>1
    <3>3. ~Has2(k, h, m) => \A n \in DOMAIN routes : ~Registers(n, h, k, m)
      <4> HIDE DEF Has2, Has, Here
      <4> QED BY <2>6, <3>1
    <3> QED BY <1>5, <2>1, <3>2, <3>3
  <2>8. UNCHANGED routes
    BY <1>2
  <2> HIDE DEF Has, Has2, Here
  <2> QED BY <2>7, <2>8 DEF PagesKept
<1>9. Waiting'
  BY <1>2 DEF Waiting
<1> QED BY <1>6, <1>7, <1>8, <1>9

TreeInv == Typed /\ Nodes /\ PagesKept /\ TitlesKept /\ Waiting

LEMMA InitTree == Init => TreeInv
<1> SUFFICES ASSUME Init
             PROVE  TreeInv
  OBVIOUS
<1>1. /\ tree = [k \in {<<>>} |-> NewPart(<<>>)] /\ routes = <<>> /\ titles = <<>>
      /\ cur = <<>> /\ phase = "setup"
  BY DEF Init
<1>2. NewPart(<<>>) \in Node
  <2>1. <<>> \in Pages
    <3>1. <<>> \in [{} -> Routes]
      OBVIOUS
    <3> QED BY <3>1 DEF Pages
  <2>2. <<>> \in Seq(Names)
    BY EmptySeq
  <2> QED BY <2>1, <2>2 DEF NewPart, Node
<1>3. Typed
  BY <1>1, <1>2, EmptySeq DEF Typed
<1>4. Nodes
  BY <1>1 DEF Nodes, Through
<1>5. PagesKept
  <2>1. DOMAIN routes = {} /\ DOMAIN tree = {<<>>} /\ tree[<<>>].pages = [h \in Kinds |-> <<>>]
    BY <1>1 DEF NewPart
  <2>2. \A h \in Kinds : DOMAIN tree[<<>>].pages[h] = {}
    <3>1. \A h \in Kinds : tree[<<>>].pages[h] = <<>>
      BY <2>1
    <3> QED BY <3>1
  <2> QED BY <2>1, <2>2 DEF PagesKept
<1>6. TitlesKept /\ Waiting
  BY <1>1 DEF TitlesKept, Waiting
<1> QED BY <1>3, <1>4, <1>5, <1>6 DEF TreeInv

LEMMA StepTree == TreeInv /\ [Next]_vars => TreeInv'
<1> SUFFICES ASSUME TreeInv, [Next]_vars
             PROVE  TreeInv'
  OBVIOUS
<1> USE DEF TreeInv
<1>1. Typed'
  BY StepTyped
<1>2. CASE \E r \in Routes : Set_handler(r)
  BY <1>1, <1>2, SetNodes
<1>3. CASE Build_uri_part
  BY <1>1, <1>3, BuildNodes, BuildTitles
<1>4. CASE Add_page
  BY <1>1, <1>4, AddNodes
<1>5. ASSUME \/ \E r \in Requests : Get_handler(r)
             \/ Walk_literal \/ Walk_regex \/ Not_found \/ Arrive
      PROVE  TreeInv'
  <2>1. UNCHANGED <<tree, routes>> /\ phase # "build" /\ phase' # "build"
    BY <1>5 DEF Get_handler, Walk_literal, Walk_regex, Not_found, Arrive, OnTheWay
  <2> QED BY <1>1, <2>1, TreeStays
<1>6. CASE UNCHANGED vars
  <2>1. UNCHANGED <<tree, routes, titles, cur, phase>>
    BY <1>6 DEF vars
  <2>2. Nodes'
    BY <2>1 DEF Nodes, Through, Entered
  <2>3. PagesKept'
    BY <2>1 DEF PagesKept, Over, Registers
  <2>4. TitlesKept'
    <3>1. ASSUME NEW k
          PROVE  (Spoiled(k)' <=> Spoiled(k)) /\ \A j : TitlesAt(k, j)' = TitlesAt(k, j)
      BY <2>1, SameRoutes
    <3> QED BY <2>1, <3>1 DEF TitlesKept
  <2>5. Waiting'
    <3>1. \A k : LeftOver(k)' <=> LeftOver(k)
      BY <2>1 DEF LeftOver, First, Through
    <3>2. LeftOver(cur)' <=> LeftOver(cur)
      BY <2>1, <3>1 DEF LeftOver, First, Through
    <3> QED BY <2>1, <3>2 DEF Waiting
  <2> QED BY <1>1, <2>2, <2>3, <2>4, <2>5
<1> QED BY <1>2, <1>3, <1>4, <1>5, <1>6 DEF Next

-----------------------------------------------------------------------------
(* The pages on a way.                                                     *)

LEMMA PageIs ==
  ASSUME routes \in Seq(Routes), NEW kind, NEW k, PageAt(kind, k) # None
  PROVE  PageAt(kind, k) \in Routes /\ Len(PageAt(kind, k).parts) = Len(k)
<1>1. Registered(kind, k) # {} /\ PageAt(kind, k) = routes[Min(Registered(kind, k))]
  BY DEF PageAt
<1>2. Registered(kind, k) \subseteq DOMAIN routes /\ DOMAIN routes \subseteq Nat
  BY LenProperties DEF Registered
<1>3. Min(Registered(kind, k)) \in Registered(kind, k)
  BY <1>1, <1>2, MinIsLeast
<1>4. PageAt(kind, k) \in Routes
  BY <1>1, <1>2, <1>3, LenProperties, ElementOfSeq
<1>5. Keys(PageAt(kind, k)) = k
  BY <1>1, <1>3 DEF Registered, Registers
<1> QED BY <1>4, <1>5, RouteIs

LEMMA DepthsAre ==
  ASSUME NEW kind, NEW k, NEW b \in Int, -1 <= b
  PROVE  /\ Depths(kind, k, b) \subseteq Nat /\ IsFiniteSet(Depths(kind, k, b))
         /\ Cardinality(Depths(kind, k, b)) \in Nat
         /\ \A n \in Depths(kind, k, b) : n <= b /\ PageAt(kind, Upto(k, n)) # None
<1>1. Depths(kind, k, b) \in SUBSET (0..b) /\ 0..b \subseteq Nat
  BY DEF Depths
<1>2. IsFiniteSet(0..b)
  BY FS_Interval
<1>3. IsFiniteSet(Depths(kind, k, b))
  BY <1>1, <1>2, FS_Subset
<1>4. Cardinality(Depths(kind, k, b)) \in Nat
  BY <1>3, FS_CardinalityType
<1>5. \A n \in Depths(kind, k, b) : n <= b /\ PageAt(kind, Upto(k, n)) # None
  BY DEF Depths
<1> QED BY <1>1, <1>3, <1>4, <1>5

LEMMA EnclosingIs ==
  ASSUME routes \in Seq(Routes), NEW kind, NEW k, NEW b \in Int, -1 <= b
  PROVE  /\ Enclosing(kind, k, b) \in Seq(Routes)
         /\ Len(Enclosing(kind, k, b)) = Cardinality(Depths(kind, k, b))
         /\ \A i \in 1..Cardinality(Depths(kind, k, b)) :
              Enclosing(kind, k, b)[i] = PageAt(kind, Upto(k, Ranked(Depths(kind, k, b), i)))
<1> DEFINE on == Depths(kind, k, b)
           c  == Cardinality(on)
           at(i) == PageAt(kind, Upto(k, Ranked(on, i)))
<1>1. Enclosing(kind, k, b) = [i \in 1..c |-> at(i)]
  BY DEF Enclosing
<1>2. /\ on \subseteq Nat /\ IsFiniteSet(on) /\ c \in Nat
      /\ \A n \in on : PageAt(kind, Upto(k, n)) # None
  BY DepthsAre
<1> HIDE DEF on
<1>3. \A i \in 1..c : Ranked(on, i) \in on
  BY <1>2, RankedIs
<1>4. \A i \in 1..c : at(i) \in Routes
  BY <1>2, <1>3, PageIs
<1> HIDE DEF c, at
<1>5. Enclosing(kind, k, b) \in [1..c -> Routes]
  BY <1>1, <1>4
<1>6. Enclosing(kind, k, b) \in Seq(Routes)
  BY <1>2, <1>5, SeqDef
<1>7. Len(Enclosing(kind, k, b)) = c
  BY <1>2, <1>5, <1>6, LenProperties
<1>8. \A i \in 1..c : Enclosing(kind, k, b)[i] = at(i)
  BY <1>1
<1> QED BY <1>6, <1>7, <1>8 DEF at, c, on

(* Above the root there is nothing.                                        *)
LEMMA EnclosingNone ==
  ASSUME routes \in Seq(Routes), NEW kind, NEW k
  PROVE  Enclosing(kind, k, -1) = <<>>
<1>1. Depths(kind, k, -1) = {}
  BY DEF Depths
<1>2. PICK b \in Int : b = -1
  OBVIOUS
<1>3. /\ Enclosing(kind, k, b) \in Seq(Routes)
      /\ Len(Enclosing(kind, k, b)) = Cardinality(Depths(kind, k, b))
  BY <1>2, EnclosingIs
<1>4. Len(Enclosing(kind, k, b)) = 0
  BY <1>1, <1>2, <1>3, FS_EmptySet
<1> QED BY <1>2, <1>3, <1>4, EmptySeq

(* One node more on the way.                                               *)
LEMMA EnclosingNext ==
  ASSUME routes \in Seq(Routes), NEW kind, NEW k, NEW b \in Nat
  PROVE  Enclosing(kind, k, b) =
           IF PageAt(kind, Upto(k, b)) = None THEN Enclosing(kind, k, b - 1)
           ELSE Append(Enclosing(kind, k, b - 1), PageAt(kind, Upto(k, b)))
<1> DEFINE on   == Depths(kind, k, b - 1)
           on2  == Depths(kind, k, b)
           here == PageAt(kind, Upto(k, b))
           old  == Enclosing(kind, k, b - 1)
           new  == Enclosing(kind, k, b)
<1>1. 0..b = (0..b - 1) \cup {b} /\ b \notin 0..b - 1
  OBVIOUS
<1>2. CASE here = None
  <2>1. on2 = on
    BY <1>1, <1>2 DEF Depths
  <2> QED BY <1>2, <2>1 DEF Enclosing
<1>3. CASE here # None
  <2>1. on2 = on \cup {b} /\ b \notin on
    BY <1>1, <1>3 DEF Depths
  <2>2. /\ on \subseteq Nat /\ IsFiniteSet(on) /\ Cardinality(on) \in Nat
        /\ \A n \in on : n <= b - 1
    BY DepthsAre
  <2>3. on2 \subseteq Nat /\ IsFiniteSet(on2)
    BY DepthsAre
  <2>4. /\ old \in Seq(Routes) /\ Len(old) = Cardinality(on)
        /\ \A i \in 1..Cardinality(on) : old[i] = PageAt(kind, Upto(k, Ranked(on, i)))
    BY EnclosingIs
  <2>5. /\ new \in Seq(Routes) /\ Len(new) = Cardinality(on2)
        /\ \A i \in 1..Cardinality(on2) : new[i] = PageAt(kind, Upto(k, Ranked(on2, i)))
    BY EnclosingIs
  <2>6. here \in Routes
    BY <1>3, PageIs
  <2> HIDE DEF on, on2, old, new, here
  <2>7. /\ Cardinality(on2) = Cardinality(on) + 1
        /\ \A i \in 1..Cardinality(on) : Ranked(on2, i) = Ranked(on, i)
        /\ Ranked(on2, Cardinality(on) + 1) = b
    <3>1. on \subseteq Nat /\ IsFiniteSet(on) /\ \A n \in on : n < b
      BY <2>2
    <3> QED BY <2>1, <3>1, RankedNext
  <2>10. /\ Append(old, here) \in Seq(Routes) /\ Len(Append(old, here)) = Cardinality(on) + 1
         /\ \A i \in 1..Cardinality(on) : Append(old, here)[i] = old[i]
         /\ Append(old, here)[Cardinality(on) + 1] = here
    BY <2>4, <2>6, AppendProperties
  <2>11. ASSUME NEW i \in 1..Cardinality(on2)
         PROVE  new[i] = Append(old, here)[i]
    <3>1. CASE i \in 1..Cardinality(on)
      <4>1. new[i] = PageAt(kind, Upto(k, Ranked(on, i)))
        BY <2>5, <2>7, <3>1
      <4> QED BY <2>4, <2>10, <3>1, <4>1
    <3>2. CASE i = Cardinality(on) + 1
      <4>1. new[i] = PageAt(kind, Upto(k, b))
        BY <2>5, <2>7, <3>2
      <4> QED BY <2>10, <3>2, <4>1 DEF here
    <3>3. i \in 1..Cardinality(on) \/ i = Cardinality(on) + 1
      <4>1. Cardinality(on) \in Nat /\ Cardinality(on2) = Cardinality(on) + 1
        BY <2>2, <2>7
      <4> QED BY <4>1
    <3> QED BY <3>1, <3>2, <3>3
  <2>12. new = Append(old, here)
    BY <2>5, <2>7, <2>10, <2>11, SeqEqual
  <2> QED BY <1>3, <2>12 DEF old, new, here
<1> QED BY <1>2, <1>3

(* What a way has is had by every way that goes on from it.                *)
LEMMA EnclosingStays ==
  ASSUME NEW kind, NEW k \in Seq(Key), NEW x \in Key, NEW b \in Int, b <= Len(k)
  PROVE  Enclosing(kind, Append(k, x), b) = Enclosing(kind, k, b)
<1> DEFINE at == Append(k, x)
<1>1. \A n \in 0..b : Upto(at, n) = Upto(k, n)
  <2>1. \A n \in 0..b : n \in 0..Len(k)
    BY LenProperties
  <2> QED BY <2>1, AppendIs
<1> HIDE DEF at
<1>2. Depths(kind, at, b) = Depths(kind, k, b)
  BY <1>1 DEF Depths
<1>3. CASE b < 0
  <2>1. Depths(kind, k, b) = {}
    BY <1>3 DEF Depths
  <2>2. 1..Cardinality({}) = {}
    BY FS_EmptySet
  <2> QED BY <1>2, <2>1, <2>2 DEF Enclosing, at
<1>4. CASE b >= 0
  <2>1. /\ Depths(kind, k, b) \subseteq Nat /\ IsFiniteSet(Depths(kind, k, b))
        /\ Depths(kind, k, b) \subseteq 0..b
    BY <1>4, DepthsAre DEF Depths
  <2>2. \A i \in 1..Cardinality(Depths(kind, k, b)) : Ranked(Depths(kind, k, b), i) \in 0..b
    BY <2>1, RankedIs
  <2> QED BY <1>1, <1>2, <2>2 DEF Enclosing, at
<1> QED BY <1>3, <1>4

-----------------------------------------------------------------------------
(* Where a request is.                                                     *)

(* A request is on the way its path prefers, and every way that could be   *)
(* its end goes through the node it is at.                                 *)
Walked ==
  phase \in {"walk", "answered"} =>
    /\ cur \in DOMAIN tree /\ Follows(cur)
    /\ \A k \in Ways : Follows(k) /\ Ends(k) => Len(cur) <= Len(k) /\ Upto(k, Len(cur)) = cur
    /\ phase = "walk"     => cur = <<>> \/ ~Spoiled(cur)
    /\ phase = "answered" => Ends(cur)

(* A request knows a node exactly if something was registered through it.  *)
LEMMA KnownIs ==
  ASSUME Typed, Nodes, phase = "walk", NEW key \in Key
  PROVE  Known(key) <=> Through(Append(cur, key)) # {}
<1>1. Append(cur, key) \in Seq(Key) /\ Append(cur, key) # <<>>
  BY AppendIs DEF Typed
<1>2. \A n, l : Entered(n, l)
  BY DEF Entered
<1> QED BY <1>1, <1>2 DEF Nodes, Known

(* The part that is followed is the one the path prefers.                  *)
LEMMA PreferredIs ==
  ASSUME Typed, Nodes, OnTheWay
  PROVE  /\ Known(Segment) => Preferred(cur, Segment) = {Segment}
         /\ ~Known(Segment) /\ Matching # {} => Preferred(cur, Segment) = {Shapes[Min(Matching)]}
         /\ ~Known(Segment) /\ Matching = {} => Preferred(cur, Segment) = {}
<1>1. phase = "walk" /\ Segment \in Key /\ \A i \in DOMAIN Shapes : Shapes[i] \in Key
  BY SegmentIs DEF OnTheWay
<1>2. Known(Segment) <=> Through(Append(cur, Segment)) # {}
  BY <1>1, KnownIs
<1>3. \A i \in DOMAIN Shapes : i \in Matching <=> Fits(cur, i, Segment)
  BY <1>1, KnownIs DEF Matching, Fits
<1>4. DOMAIN Shapes = 1..Len(Shapes) /\ Len(Shapes) \in Nat
  BY RouterAssumption, LenProperties
<1> DEFINE best == {i \in DOMAIN Shapes : Fits(cur, i, Segment) /\ \A h \in 1..i - 1 : ~Fits(cur, h, Segment)}
<1>5. ASSUME NEW i \in best
      PROVE  i \in Matching /\ i = Min(Matching)
  <2>1. i \in Matching /\ i \in 1..Len(Shapes) /\ \A h \in 1..i - 1 : ~Fits(cur, h, Segment)
    BY <1>3, <1>4
  <2>2. Min(Matching) \in Matching /\ Min(Matching) <= i /\ Min(Matching) \in 1..Len(Shapes)
    BY <1>4, <2>1, MatchIs
  <2>3. Min(Matching) \notin 1..i - 1
    BY <1>3, <1>4, <2>1, <2>2
  <2> QED BY <1>4, <2>1, <2>2, <2>3
<1>6. ASSUME Matching # {}
      PROVE  Min(Matching) \in best
  <2>1. /\ Min(Matching) \in Matching /\ Min(Matching) \in 1..Len(Shapes)
        /\ \A i \in Matching : i \in Nat /\ Min(Matching) <= i
    BY <1>4, <1>6, MatchIs
  <2>2. \A h \in 1..Min(Matching) - 1 : h \in 1..Len(Shapes) /\ h \notin Matching
    BY <1>4, <2>1
  <2>3. \A h \in 1..Min(Matching) - 1 : ~Fits(cur, h, Segment)
    BY <1>3, <1>4, <2>2
  <2> QED BY <1>3, <1>4, <2>1, <2>3
<1>7. Preferred(cur, Segment) = IF Known(Segment) THEN {Segment} ELSE {Shapes[i] : i \in best}
  BY <1>2 DEF Preferred
<1> HIDE DEF best
<1>8. CASE Matching # {}
  <2>1. best = {Min(Matching)}
    BY <1>5, <1>6, <1>8
  <2>2. {Shapes[i] : i \in best} = {Shapes[Min(Matching)]}
    BY <2>1
  <2> QED BY <1>7, <1>8, <2>2
<1>9. CASE Matching = {}
  <2>1. best = {}
    BY <1>5, <1>9
  <2> QED BY <1>7, <1>9, <2>1
<1> QED BY <1>8, <1>9

(* While a request walks the ways stay what they are.                      *)
LEMMA SameWays ==
  ASSUME UNCHANGED <<routes, request>>
  PROVE  /\ Ways' = Ways
         /\ \A k : (Follows(k)' <=> Follows(k)) /\ (Ends(k)' <=> Ends(k)) /\ (Spoiled(k)' <=> Spoiled(k))
<1>1. \A k : Through(k)' = Through(k)
  BY DEF Through
<1>2. \A k : First(k)' = First(k)
  BY <1>1 DEF First
<1>3. \A k : Spoiled(k)' <=> Spoiled(k)
  BY <1>2 DEF Spoiled
<1>4. \A k, i, seg : Fits(k, i, seg)' <=> Fits(k, i, seg)
  BY <1>1 DEF Fits
<1>5. \A k, seg : Preferred(k, seg)' = Preferred(k, seg)
  BY <1>1, <1>4 DEF Preferred
<1>6. \A k : (Follows(k)' <=> Follows(k)) /\ (Ends(k)' <=> Ends(k))
  BY <1>3, <1>5 DEF Follows, Ends
<1>7. Ways' = Ways
  BY DEF Ways
<1> QED BY <1>3, <1>6, <1>7

LEMMA WaysAre ==
  ASSUME routes \in Seq(Routes)
  PROVE  /\ Ways \subseteq Seq(Key)
         /\ \A k \in Seq(Key) : k = <<>> \/ Through(k) # {} => k \in Ways
<1>1. \A n \in DOMAIN routes : routes[n] \in Routes
  BY LenProperties, ElementOfSeq
<1>2. ASSUME NEW n \in DOMAIN routes
      PROVE  /\ Keys(routes[n]) \in Seq(Key) /\ Len(Keys(routes[n])) = Len(routes[n].parts)
             /\ \A j \in 1..Len(routes[n].parts) : Keys(routes[n])[j] = routes[n].parts[j].key
             /\ Prefixes(Keys(routes[n])) = {Upto(Keys(routes[n]), l) : l \in 0..Len(Keys(routes[n]))}
  BY <1>1, RouteIs DEF Prefixes, Upto
<1>3. Ways \subseteq Seq(Key)
  <2>1. ASSUME NEW k \in Ways, k # <<>>
        PROVE  k \in Seq(Key)
    <3>1. PICK n \in DOMAIN routes : k \in Prefixes(Keys(routes[n]))
      BY <2>1 DEF Ways
    <3> QED BY <1>2, <3>1, UptoIs
  <2> QED BY <2>1, EmptySeq
<1>4. ASSUME NEW k \in Seq(Key), Through(k) # {}
      PROVE  k \in Ways
  <2>1. PICK n \in DOMAIN routes : /\ Len(k) <= Len(routes[n].parts)
                                   /\ \A j \in DOMAIN k : k[j] = routes[n].parts[j].key
    BY <1>4 DEF Through
  <2>2. Len(k) \in Nat /\ DOMAIN k = 1..Len(k) /\ Len(routes[n].parts) \in Nat
    BY <1>1, RouteIs, LenProperties
  <2>3. Len(k) \in 0..Len(Keys(routes[n])) /\ \A j \in 1..Len(k) : j \in 1..Len(routes[n].parts)
    BY <1>2, <2>1, <2>2
  <2>4. /\ Upto(Keys(routes[n]), Len(k)) \in Seq(Key) /\ Len(Upto(Keys(routes[n]), Len(k))) = Len(k)
        /\ \A j \in 1..Len(k) : Upto(Keys(routes[n]), Len(k))[j] = Keys(routes[n])[j]
    BY <1>2, <2>3, UptoIs
  <2>5. \A j \in 1..Len(k) : k[j] = Upto(Keys(routes[n]), Len(k))[j]
    BY <1>2, <2>1, <2>2, <2>3, <2>4
  <2>6. k = Upto(Keys(routes[n]), Len(k))
    BY <2>4, <2>5, SeqEqual
  <2>7. k \in Prefixes(Keys(routes[n]))
    BY <1>2, <2>3, <2>6
  <2> QED BY <2>7 DEF Ways
<1>5. <<>> \in Ways
  BY DEF Ways
<1> QED BY <1>3, <1>4, <1>5

(* The way of an answered request is the one it went.                      *)
LEMMA WayIs ==
  ASSUME Typed, Nodes, Walked, phase = "answered"
  PROVE  Way = cur
<1>1. cur \in Seq(Key) /\ routes \in Seq(Routes) /\ Len(cur) \in Nat
  BY LenProperties DEF Typed
<1>2. /\ cur \in DOMAIN tree /\ Follows(cur) /\ Ends(cur)
      /\ \A k \in Ways : Follows(k) /\ Ends(k) => Len(cur) <= Len(k) /\ Upto(k, Len(cur)) = cur
  BY DEF Walked
<1>3. cur \in Ways
  <2>1. cur = <<>> \/ Through(cur) # {}
    BY <1>1, <1>2 DEF Nodes
  <2> QED BY <1>1, <2>1, WaysAre
<1>4. ASSUME NEW k \in Ways, Follows(k), Ends(k)
      PROVE  k = cur
  <2>1. k \in Seq(Key) /\ Len(k) \in Nat /\ DOMAIN k = 1..Len(k) /\ Len(cur) <= Len(k) /\ Upto(k, Len(cur)) = cur
    BY <1>1, <1>2, <1>4, WaysAre, LenProperties
  <2>2. CASE Len(k) = Len(cur)
    BY <2>1, <2>2, UptoAll
  <2>3. CASE Len(cur) < Len(k)
    <3>1. Len(cur) + 1 \in DOMAIN k /\ (Len(cur) \in DOMAIN k \/ Len(cur) = 0)
      BY <1>1, <2>1, <2>3
    <3>2. k[Len(cur) + 1] \in Preferred(cur, request.path[Len(cur) + 1])
      <4>1. k[Len(cur) + 1] \in Preferred(Upto(k, Len(cur) + 1 - 1), request.path[Len(cur) + 1])
        BY <1>4, <3>1 DEF Follows
      <4>2. Len(cur) + 1 - 1 = Len(cur)
        BY <1>1
      <4> QED BY <2>1, <4>1, <4>2
    <3>3. cur = <<>> \/ ~Spoiled(cur)
      <4>1. CASE Len(cur) \in DOMAIN k
        BY <1>4, <2>1, <2>3, <4>1 DEF Follows
      <4>2. CASE Len(cur) = 0
        BY <1>1, <4>2, EmptySeq
      <4> QED BY <3>1, <4>1, <4>2
    <3>4. Len(cur) # Len(request.path)
      <4>1. Len(k) <= Len(request.path)
        BY <1>4 DEF Follows
      <4>2. Len(request.path) \in Nat
        BY RouterAssumption, LenProperties DEF Typed
      <4> QED BY <1>1, <2>1, <2>3, <4>1, <4>2
    <3> QED BY <1>2, <3>2, <3>3, <3>4 DEF Ends
  <2> QED BY <1>1, <2>1, <2>2, <2>3
<1> QED BY <1>2, <1>3, <1>4 DEF Way

(* The part of the pattern that came first through a node of the way.      *)
LEMMA PartAt ==
  ASSUME routes \in Seq(Routes), NEW k \in Seq(Key), Through(k) # {}, NEW j \in 1..Len(k)
  PROVE  \E part \in Parts : /\ part.key = k[j] /\ TitlesAt(k, j) = part.titles
                             /\ part.titles \in Seq(Names)
<1> DEFINE u == Upto(k, j)
           n == First(u)
<1>1. j \in 0..Len(k) /\ Len(k) \in Nat
  BY LenProperties
<1>2. Len(u) = j /\ DOMAIN u = 1..j /\ u[j] = k[j]
  BY <1>1, UptoIs
<1>3. Through(u) # {}
  BY <1>1, ThroughUpto
<1> HIDE DEF u
<1>4. n \in Through(u)
  BY <1>3, FirstIs
<1> HIDE DEF n
<1>5. n \in DOMAIN routes /\ j <= Len(routes[n].parts) /\ u[j] = routes[n].parts[j].key
  BY <1>1, <1>2, <1>4 DEF Through
<1>6. routes[n] \in Routes
  BY <1>5, LenProperties, ElementOfSeq
<1>7. Len(routes[n].parts) \in Nat
  BY <1>6, RouteIs, LenProperties
<1>8. routes[n].parts[j] \in Parts /\ routes[n].parts[j].titles \in Seq(Names)
  BY <1>1, <1>5, <1>6, <1>7, RouteIs
<1>9. TitlesAt(k, j) = routes[n].parts[j].titles
  BY DEF TitlesAt, n, u
<1> QED BY <1>2, <1>5, <1>8, <1>9

(* The regex part that is followed has as many titles as it captures       *)
(* groups, unless it is spoiled.                                           *)
LEMMA TitlesFit ==
  ASSUME TreeInv, OnTheWay, Matching # {}, NEW shape, shape = Shapes[Min(Matching)],
         NEW at, at = Append(cur, shape)
  PROVE  /\ shape \in Key /\ at \in Seq(Key) /\ at \in DOMAIN tree /\ at # <<>>
         /\ Len(at) = Len(cur) + 1 /\ Through(at) # {} /\ at[Len(at)] = shape
         /\ Captures[shape][Segment] # <<>>
         /\ Spoiled(at) <=> Len(tree[at].params) # Len(Captures[shape][Segment])
         /\ ~Spoiled(at) => tree[at].params = TitlesAt(at, Len(at))
         /\ TitlesAt(at, Len(at)) \in Seq(Names)
         /\ Len(TitlesAt(at, Len(at))) = Len(Captures[shape][Segment])
<1> USE DEF TreeInv
<1>1. Min(Matching) \in Matching /\ Min(Matching) \in DOMAIN Shapes
  BY MatchIs
<1>2. Known(shape) /\ Captures[shape][Segment] # <<>> /\ IsRegex(shape) /\ shape \in Key
  BY <1>1, SegmentIs DEF Matching
<1>3. at \in DOMAIN tree
  BY <1>2 DEF Known
<1>4. /\ at \in Seq(Key) /\ at # <<>> /\ Len(at) = Len(cur) + 1 /\ Last(at) = shape
      /\ at[Len(cur) + 1] = shape /\ Len(cur) \in Nat
  BY <1>2, AppendIs, LenProperties DEF Typed
<1>5. Through(at) # {}
  BY <1>3, <1>4 DEF Nodes
<1>6. PICK part \in Parts : /\ part.key = shape /\ TitlesAt(at, Len(at)) = part.titles
                            /\ part.titles \in Seq(Names)
  <2>1. PICK j : j = Len(at)
    OBVIOUS
  <2>2. j \in 1..Len(at) /\ at[j] = shape
    BY <1>4, <2>1
  <2>3. routes \in Seq(Routes)
    BY DEF Typed
  <2>4. \E part \in Parts : /\ part.key = at[j] /\ TitlesAt(at, j) = part.titles
                            /\ part.titles \in Seq(Names)
    BY <1>4, <1>5, <2>2, <2>3, PartAt
  <2> QED BY <2>1, <2>2, <2>4
<1>7. Len(part.titles) = Len(Captures[shape][Segment])
  <2>1. Segment \in Segments
    BY SegmentIs
  <2> QED BY <1>2, <1>6, <2>1, RouterAssumption
<1>8. /\ ~Spoiled(at) => tree[at].params = TitlesAt(at, Len(at))
      /\ Spoiled(at)  => Len(tree[at].params) > Len(TitlesAt(at, Len(at)))
  BY <1>2, <1>3, <1>4 DEF TitlesKept
<1>9. Len(TitlesAt(at, Len(at))) \in Nat /\ Len(tree[at].params) \in Nat
  <2>1. tree[at].params \in Seq(Names)
    BY <1>3 DEF Typed, Node
  <2> QED BY <1>6, <2>1, LenProperties
<1>10. Spoiled(at) <=> Len(tree[at].params) # Len(Captures[shape][Segment])
  BY <1>6, <1>7, <1>8, <1>9
<1> QED BY <1>2, <1>3, <1>4, <1>5, <1>6, <1>7, <1>8, <1>10

(* A literal part has no titles and is never spoiled.                      *)
LEMMA LiteralIs ==
  ASSUME TreeInv, OnTheWay, Known(Segment), NEW at, at = Append(cur, Segment)
  PROVE  /\ at \in Seq(Key) /\ at \in DOMAIN tree /\ at # <<>> /\ Len(at) = Len(cur) + 1
         /\ Through(at) # {} /\ ~Spoiled(at) /\ TitlesAt(at, Len(at)) = <<>>
<1> USE DEF TreeInv
<1>1. Segment \in Segments /\ Segment \in Key
  BY SegmentIs
<1>2. ~IsRegex(Segment)
  BY <1>1, RouterAssumption DEF IsRegex
<1>3. /\ at \in Seq(Key) /\ at # <<>> /\ Len(at) = Len(cur) + 1 /\ Last(at) = Segment
      /\ at[Len(cur) + 1] = Segment /\ Len(cur) \in Nat
  BY <1>1, AppendIs, LenProperties DEF Typed
<1>4. at \in DOMAIN tree
  BY DEF Known
<1>5. Through(at) # {}
  BY <1>3, <1>4 DEF Nodes
<1>6. ~Spoiled(at)
  BY <1>2, <1>3 DEF Spoiled
<1>7. TitlesAt(at, Len(at)) = <<>>
  <2>1. PICK j : j = Len(at)
    OBVIOUS
  <2>2. j \in 1..Len(at) /\ at[j] = Segment
    BY <1>3, <2>1
  <2>3. routes \in Seq(Routes)
    BY DEF Typed
  <2>4. PICK part \in Parts : part.key = at[j] /\ TitlesAt(at, j) = part.titles
    BY <1>3, <1>5, <2>2, <2>3, PartAt
  <2> QED BY <1>2, <2>1, <2>2, <2>4, RouterAssumption
<1> QED BY <1>3, <1>4, <1>5, <1>6, <1>7

(* Going on to the part the path prefers.                                  *)
LEMMA WalkOn ==
  ASSUME TreeInv, Walked, OnTheWay, NEW s \in Key, Preferred(cur, Segment) = {s},
         NEW at, at = Append(cur, s), at \in DOMAIN tree, cur' = at,
         UNCHANGED <<tree, routes, request>>,
         phase' = IF Spoiled(at) THEN "answered" ELSE "walk"
  PROVE  Walked'
<1> USE DEF TreeInv
<1>1. /\ cur \in Seq(Key) /\ Len(cur) \in Nat /\ DOMAIN cur = 1..Len(cur) /\ phase = "walk"
      /\ routes \in Seq(Routes) /\ Segment = request.path[Len(cur) + 1]
      /\ Len(request.path) \in Nat /\ Len(cur) + 1 <= Len(request.path)
  BY SegmentIs, LenProperties DEF Typed, OnTheWay, Segment
<1>2. /\ at \in Seq(Key) /\ at # <<>> /\ Len(at) = Len(cur) + 1 /\ DOMAIN at = 1..Len(cur) + 1
      /\ \A i \in 1..Len(cur) : at[i] = cur[i]
      /\ at[Len(cur) + 1] = s
      /\ \A j \in 0..Len(cur) : Upto(at, j) = Upto(cur, j)
  BY <1>1, AppendIs
<1>3. Upto(cur, Len(cur)) = cur
  BY <1>1, UptoAll
<1>4. Follows(cur) /\ (cur = <<>> \/ ~Spoiled(cur))
  BY <1>1 DEF Walked
<1>5. Follows(at)
  <2>1. ASSUME NEW j \in 1..Len(cur)
        PROVE  /\ at[j] \in Preferred(Upto(at, j - 1), request.path[j])
               /\ ~Spoiled(Upto(at, j))
    <3>1. at[j] \in Preferred(Upto(at, j - 1), request.path[j])
      <4>1. j - 1 \in 0..Len(cur) /\ j \in DOMAIN cur
        BY <1>1
      <4> QED BY <1>2, <1>4, <4>1 DEF Follows
    <3>2. Upto(at, j) = Upto(cur, j)
      BY <1>1, <1>2
    <3>3. CASE j < Len(cur)
      <4>1. j \in DOMAIN cur
        BY <1>1
      <4>2. ~Spoiled(Upto(cur, j))
        BY <1>4, <3>3, <4>1 DEF Follows
      <4> QED BY <3>1, <3>2, <4>2
    <3>4. CASE j = Len(cur)
      <4>1. Len(cur) # 0
        BY <1>1, <3>4
      <4>2. cur # <<>>
        BY <4>1, EmptySeq
      <4> QED BY <1>3, <1>4, <3>1, <3>2, <3>4, <4>2
    <3>5. j < Len(cur) \/ j = Len(cur)
      <4>1. Len(cur) \in Nat
        BY <1>1
      <4> QED BY <4>1
    <3> QED BY <3>3, <3>4, <3>5
  <2>2. at[Len(cur) + 1] \in Preferred(Upto(at, Len(cur) + 1 - 1), request.path[Len(cur) + 1])
    <3>1. Len(cur) + 1 - 1 = Len(cur) /\ Len(cur) \in 0..Len(cur)
      BY <1>1
    <3> QED BY <1>1, <1>2, <1>3, <3>1
  <2>3. \A j \in DOMAIN at : j \in 1..Len(cur) \/ (j = Len(cur) + 1 /\ ~(j < Len(at)))
    BY <1>1, <1>2
  <2> QED BY <1>1, <1>2, <2>1, <2>2, <2>3 DEF Follows
<1>6. ASSUME NEW k \in Ways, Follows(k), Ends(k)
      PROVE  Len(at) <= Len(k) /\ Upto(k, Len(at)) = at
  <2>1. k \in Seq(Key) /\ Len(k) \in Nat /\ DOMAIN k = 1..Len(k)
    BY <1>1, <1>6, WaysAre, LenProperties
  <2>2. Len(cur) <= Len(k) /\ Upto(k, Len(cur)) = cur
    BY <1>1, <1>6 DEF Walked
  <2>3. Len(k) # Len(cur)
    <3>1. ASSUME Len(k) = Len(cur)
          PROVE  FALSE
      <4>1. k = cur
        BY <2>1, <2>2, <3>1, UptoAll
      <4>2. Len(k) # Len(request.path) /\ ~(k # <<>> /\ Spoiled(k))
        BY <1>1, <1>4, <4>1
      <4>3. Preferred(k, request.path[Len(k) + 1]) # {}
        BY <1>1, <4>1
      <4> QED BY <1>6, <4>2, <4>3 DEF Ends
    <3> QED BY <3>1
  <2>4. Len(cur) + 1 \in DOMAIN k /\ Len(cur) + 1 \in 0..Len(k) /\ Len(cur) + 1 - 1 = Len(cur)
    <3>1. Len(cur) \in Nat /\ Len(k) \in Nat /\ Len(cur) <= Len(k) /\ Len(k) # Len(cur)
      BY <1>1, <2>1, <2>2, <2>3
    <3>2. Len(cur) + 1 \in 1..Len(k) /\ Len(cur) + 1 \in 0..Len(k) /\ Len(cur) + 1 - 1 = Len(cur)
      BY <3>1
    <3> QED BY <2>1, <3>2
  <2>5. k[Len(cur) + 1] = s
    <3>1. k[Len(cur) + 1] \in Preferred(Upto(k, Len(cur) + 1 - 1), request.path[Len(cur) + 1])
      BY <1>6, <2>4 DEF Follows
    <3> QED BY <1>1, <2>2, <2>4, <3>1
  <2>6. /\ Upto(k, Len(cur) + 1) \in Seq(Key) /\ Len(Upto(k, Len(cur) + 1)) = Len(cur) + 1
        /\ \A i \in 1..Len(cur) + 1 : Upto(k, Len(cur) + 1)[i] = k[i]
    BY <2>1, <2>4, UptoIs
  <2>7. \A i \in 1..Len(cur) : cur[i] = k[i]
    <3>1. Len(cur) \in 0..Len(k)
      BY <1>1, <2>1, <2>2
    <3> QED BY <2>1, <2>2, <3>1, UptoIs
  <2>8. \A i \in 1..Len(cur) + 1 : Upto(k, Len(cur) + 1)[i] = at[i]
    <3>1. \A i \in 1..Len(cur) + 1 : i \in 1..Len(cur) \/ i = Len(cur) + 1
      BY <1>1
    <3> QED BY <1>2, <2>5, <2>6, <2>7, <3>1
  <2>9. Upto(k, Len(cur) + 1) = at
    BY <1>2, <2>6, <2>8, SeqEqual
  <2> QED BY <1>1, <1>2, <2>1, <2>4, <2>9
<1>7. phase' = "walk" => ~Spoiled(at)
  OBVIOUS
<1>8. phase' = "answered" => Ends(at)
  BY <1>2 DEF Ends
<1>9. /\ Ways' = Ways
      /\ \A k : (Follows(k)' <=> Follows(k)) /\ (Ends(k)' <=> Ends(k)) /\ (Spoiled(k)' <=> Spoiled(k))
  BY SameWays
<1>10. /\ Follows(cur)' <=> Follows(at)'
       /\ Ends(cur)' <=> Ends(at)'
       /\ Spoiled(cur)' <=> Spoiled(at)'
  <2>1. cur' = at /\ at = at'
    BY <1>1
  <2> QED BY <2>1 DEF Follows, Ends, Spoiled
<1> QED BY <1>2, <1>5, <1>6, <1>7, <1>8, <1>9, <1>10 DEF Walked

LEMMA StepWalked ==
  ASSUME TreeInv, Walked, [Next]_vars
  PROVE  Walked'
<1> DEFINE Goal == Walked'
<1>1. ASSUME \/ \E r \in Routes : Set_handler(r)
             \/ Build_uri_part \/ Add_page
      PROVE  Goal
  <2>1. phase' \in {"setup", "build"}
    BY <1>1 DEF Set_handler, Build_uri_part, Add_page
  <2> QED BY <2>1 DEF Walked
<1>2. ASSUME NEW r \in Requests, Get_handler(r)
      PROVE  Goal
  <2>1. /\ phase = "setup" /\ phase' = "walk" /\ request' = r /\ cur = <<>> /\ cur' = <<>>
        /\ UNCHANGED <<tree, routes>> /\ routes \in Seq(Routes)
    BY <1>2 DEF Get_handler, TreeInv, Typed
  <2>2. cur' \in DOMAIN tree'
    BY <2>1, EmptySeq DEF TreeInv, Nodes
  <2>3. Len(cur') = 0 /\ DOMAIN cur' = {} /\ Len(request'.path) \in Nat
    BY <2>1, RouterAssumption, LenProperties
  <2>4. Follows(cur)'
    BY <2>3 DEF Follows
  <2>5. ASSUME NEW k \in Ways'
        PROVE  Len(cur') <= Len(k) /\ Upto(k, Len(cur')) = cur'
    <3>1. Ways' = Ways
      BY <2>1 DEF Ways
    <3>2. k \in Seq(Key)
      BY <2>1, <3>1, WaysAre
    <3> QED BY <2>1, <2>3, <3>2, UptoAll, LenProperties
  <2> QED BY <2>1, <2>2, <2>4, <2>5 DEF Walked
<1>3. ASSUME Walk_literal
      PROVE  Goal
  <2>1. /\ OnTheWay /\ Known(Segment) /\ cur' = Append(cur, Segment) /\ phase' = "walk"
        /\ UNCHANGED <<tree, routes, request>>
    BY <1>3 DEF Walk_literal, OnTheWay
  <2>2. PICK s \in Key : s = Segment
    BY <2>1, SegmentIs DEF TreeInv
  <2>3. PICK at : at = Append(cur, s)
    OBVIOUS
  <2>4. at \in DOMAIN tree /\ ~Spoiled(at)
    BY <2>1, <2>2, <2>3, LiteralIs
  <2>5. Preferred(cur, Segment) = {s}
    BY <2>1, <2>2, PreferredIs DEF TreeInv
  <2> QED BY <2>1, <2>2, <2>3, <2>4, <2>5, WalkOn
<1>4. ASSUME Walk_regex
      PROVE  Goal
  <2>1. PICK s : s = Shapes[Min(Matching)]
    OBVIOUS
  <2>2. PICK at : at = Append(cur, s)
    OBVIOUS
  <2>3. /\ OnTheWay /\ ~Known(Segment) /\ Matching # {} /\ cur' = at
        /\ UNCHANGED <<tree, routes, request>>
        /\ phase' = IF Len(tree[at].params) # Len(Captures[s][Segment]) THEN "answered" ELSE "walk"
    BY <1>4, <2>1, <2>2 DEF Walk_regex, OnTheWay
  <2>4. /\ s \in Key /\ at \in DOMAIN tree
        /\ Spoiled(at) <=> Len(tree[at].params) # Len(Captures[s][Segment])
    BY <2>1, <2>2, <2>3, TitlesFit
  <2>5. Preferred(cur, Segment) = {s}
    BY <2>1, <2>3, PreferredIs DEF TreeInv
  <2>6. phase' = IF Spoiled(at) THEN "answered" ELSE "walk"
    BY <2>3, <2>4
  <2> QED BY <2>2, <2>3, <2>4, <2>5, <2>6, WalkOn
<1>5. ASSUME Not_found \/ Arrive
      PROVE  Goal
  <2>1. /\ phase = "walk" /\ phase' = "answered" /\ UNCHANGED <<tree, routes, request, cur>>
    BY <1>5 DEF Not_found, Arrive, OnTheWay
  <2>2. Ends(cur)
    <3>1. CASE Not_found
      <4>1. OnTheWay /\ Preferred(cur, Segment) = {}
        BY <3>1, PreferredIs DEF Not_found, TreeInv
      <4> QED BY <4>1 DEF Ends, Segment
    <3>2. CASE Arrive
      BY <3>2 DEF Arrive, Ends
    <3> QED BY <1>5, <3>1, <3>2
  <2>3. PICK at : at = cur
    OBVIOUS
  <2>4. /\ Ways' = Ways
        /\ \A k : (Follows(k)' <=> Follows(k)) /\ (Ends(k)' <=> Ends(k))
    BY <2>1, SameWays
  <2>5. (Follows(cur)' <=> Follows(at)') /\ (Ends(cur)' <=> Ends(at)')
    <3>1. cur' = at
      BY <2>1, <2>3
    <3> QED BY <3>1 DEF Follows, Ends, Spoiled
  <2>6. Follows(at) /\ Ends(at) /\ at \in DOMAIN tree
        /\ \A k \in Ways : Follows(k) /\ Ends(k) => Len(at) <= Len(k) /\ Upto(k, Len(at)) = at
    BY <2>1, <2>2, <2>3 DEF Walked
  <2> QED BY <2>1, <2>3, <2>4, <2>5, <2>6 DEF Walked
<1>6. ASSUME UNCHANGED vars
      PROVE  Goal
  <2>1. UNCHANGED <<tree, routes, request, cur, phase>>
    BY <1>6 DEF vars
  <2>2. /\ Ways' = Ways
        /\ \A k : (Follows(k)' <=> Follows(k)) /\ (Ends(k)' <=> Ends(k)) /\ (Spoiled(k)' <=> Spoiled(k))
    BY <2>1, SameWays
  <2>3. PICK at : at = cur
    OBVIOUS
  <2>4. (Follows(cur)' <=> Follows(at)') /\ (Ends(cur)' <=> Ends(at)') /\ (Spoiled(cur)' <=> Spoiled(at)')
    <3>1. cur' = at
      BY <2>1, <2>3
    <3> QED BY <3>1 DEF Follows, Ends, Spoiled
  <2> QED BY <2>1, <2>2, <2>3, <2>4 DEF Walked
<1> HIDE DEF Goal
<1>7. Goal
  BY <1>1, <1>2, <1>3, <1>4, <1>5, <1>6 DEF Next
<1> QED BY <1>7 DEF Goal

-----------------------------------------------------------------------------
(* What a request collects.                                                *)

(* The pages of the way k down to bottom, as they are met: the layers up   *)
(* to the depth that is kept for the error page are those that enclose it. *)
Held(p, k, bottom) ==
  /\ p.layers  = Enclosing("layers", k, bottom)
  /\ p.error   = Innermost(Enclosing("errors", k, bottom))
  /\ p.statics = Innermost(Enclosing("statics", k, bottom))
  /\ p.statics # None => p.parts_len = Len(p.statics.parts)
  /\ p.error = None => p.error_depth = 0
  /\ p.error # None =>
       /\ p.error_depth \in 0..Len(p.layers) /\ Len(p.error.parts) \in 0..bottom
       /\ Upto(p.layers, p.error_depth) = Enclosing("layers", k, Len(p.error.parts))

IsPage(p) ==
  p = [handler |-> p.handler, layers |-> p.layers, statics |-> p.statics, parts_len |-> p.parts_len,
       error |-> p.error, error_depth |-> p.error_depth, error_layers |-> p.error_layers,
       params |-> p.params]

(* The page of a request that ends at k. *)
Closed(k) == k # <<>> /\ Spoiled(k)
Floor(k)  == IF Closed(k) THEN Len(k) - 1 ELSE Len(k)
Answers(p, k) ==
  /\ p.handler = IF Closed(k) \/ Len(k) < Len(request.path) THEN None ELSE PageAt("handlers", k)
  /\ Held(p, k, Floor(k))
  /\ p.error_layers = IF p.error = None \/ Closed(k) THEN <<>>
                      ELSE Enclosing("layers", k, Len(p.error.parts))
  /\ Named(p.params, k, Floor(k))

(* A request on its way has the pages above the node it is at, which is    *)
(* still to be read, and the parameters of that node too.                  *)
Served ==
  /\ phase = "walk" =>
       /\ IsPage(page) /\ page.handler = None /\ page.error_layers = <<>>
       /\ Held(page, cur, Len(cur) - 1) /\ Named(page.params, cur, Len(cur))
  /\ phase = "answered" => Answers(page, cur)

LEMMA InnermostIs ==
  ASSUME NEW pages \in Seq(Routes)
  PROVE  /\ Innermost(<<>>) = None
         /\ pages # <<>> => Innermost(pages) = Last(pages) /\ Innermost(pages) \in Routes
                            /\ Innermost(pages) # None
         /\ \A r \in Routes : Innermost(Append(pages, r)) = r
<1>1. \A r \in Routes : Append(pages, r) # <<>> /\ Last(Append(pages, r)) = r
  BY AppendIs
<1>2. pages # <<>> => Last(pages) \in Routes
  <2>1. pages # <<>> => Len(pages) \in 1..Len(pages)
    BY EmptySeq
  <2> QED BY <2>1, ElementOfSeq DEF Last
<1> QED BY <1>1, <1>2, RouterAssumption DEF Innermost

(* A node of the tree has the page that was registered for it.             *)
LEMMA AtIs ==
  ASSUME TreeInv, Walked, phase = "walk", NEW kind \in Kinds
  PROVE  At(kind) = PageAt(kind, cur)
<1> DEFINE m == request.method
<1>1. cur \in DOMAIN tree /\ m \in Methods
  BY DEF Walked, TreeInv, Typed, Methods
<1>2. \A n : Over(n)
  BY DEF Over
<1>3. DOMAIN routes \subseteq Nat
  BY LenProperties DEF TreeInv, Typed
<1>4. Registered(kind, cur) \subseteq DOMAIN routes
  BY DEF Registered
<1>5. CASE m \in DOMAIN tree[cur].pages[kind]
  <2>1. PICK n \in DOMAIN routes :
           /\ Registers(n, kind, cur, m) /\ tree[cur].pages[kind][m] = routes[n]
           /\ \A h \in DOMAIN routes : Registers(h, kind, cur, m) => n <= h
    BY <1>1, <1>5 DEF TreeInv, PagesKept
  <2>2. n \in Registered(kind, cur) /\ \A h \in Registered(kind, cur) : n <= h
    BY <2>1 DEF Registered
  <2>3. Min(Registered(kind, cur)) \in Registered(kind, cur) /\ Min(Registered(kind, cur)) <= n
    BY <1>3, <1>4, <2>2, MinIsLeast
  <2>4. Min(Registered(kind, cur)) = n
    BY <1>3, <1>4, <2>2, <2>3
  <2> QED BY <1>5, <2>1, <2>2, <2>4 DEF At, PageAt
<1>6. CASE m \notin DOMAIN tree[cur].pages[kind]
  <2>1. Registered(kind, cur) = {}
    BY <1>1, <1>2, <1>6 DEF TreeInv, PagesKept, Registered
  <2> QED BY <1>6, <2>1 DEF At, PageAt
<1> QED BY <1>5, <1>6

LEMMA CollectedIs ==
  ASSUME TreeInv, Walked, phase = "walk", IsPage(page), Held(page, cur, Len(cur) - 1)
  PROVE  /\ IsPage(Collected) /\ Held(Collected, cur, Len(cur))
         /\ Collected.handler = page.handler /\ Collected.params = page.params
         /\ Collected.error_layers = page.error_layers
<1> DEFINE L == At("layers")
           S == At("statics")
           E == At("errors")
           layers == IF L = None THEN page.layers ELSE Append(page.layers, L)
<1>1. /\ Collected.layers = layers
      /\ Collected.statics = IF S = None THEN page.statics ELSE S
      /\ Collected.parts_len = IF S = None THEN page.parts_len ELSE Len(cur)
      /\ Collected.error = IF E = None THEN page.error ELSE E
      /\ Collected.error_depth = IF E = None THEN page.error_depth ELSE Len(layers)
      /\ Collected.handler = page.handler /\ Collected.params = page.params
      /\ Collected.error_layers = page.error_layers
      /\ IsPage(Collected)
  <2> DEFINE q == [handler |-> page.handler, layers |-> layers,
                   statics |-> IF S = None THEN page.statics ELSE S,
                   parts_len |-> IF S = None THEN page.parts_len ELSE Len(cur),
                   error |-> IF E = None THEN page.error ELSE E,
                   error_depth |-> IF E = None THEN page.error_depth ELSE Len(layers),
                   error_layers |-> page.error_layers, params |-> page.params]
  <2>1. Collected = [page EXCEPT !.layers = layers,
                       !.statics     = IF S = None THEN page.statics ELSE S,
                       !.parts_len   = IF S = None THEN page.parts_len ELSE Len(cur),
                       !.error       = IF E # None THEN E ELSE page.error,
                       !.error_depth = IF E # None THEN Len(layers) ELSE page.error_depth]
    BY Zenon DEF Collected
  <2> HIDE DEF L, S, E, layers
  <2>2. Collected = q
    <3>1. PICK p : p = page
      OBVIOUS
    <3>2. p = [handler |-> p.handler, layers |-> p.layers, statics |-> p.statics,
               parts_len |-> p.parts_len, error |-> p.error, error_depth |-> p.error_depth,
               error_layers |-> p.error_layers, params |-> p.params]
      BY <3>1 DEF IsPage
    <3> QED BY <2>1, <3>1, <3>2
  <2>3. PICK y : y = Collected
    OBVIOUS
  <2>4. IsPage(y)
    BY <2>2, <2>3 DEF IsPage
  <2> QED BY <2>2, <2>3, <2>4
<1>2. /\ routes \in Seq(Routes) /\ cur \in Seq(Key) /\ Len(cur) \in Nat
      /\ Upto(cur, Len(cur)) = cur
  BY UptoAll, LenProperties DEF TreeInv, Typed
<1>3. \A kind \in Kinds :
        /\ At(kind) = PageAt(kind, cur)
        /\ Enclosing(kind, cur, Len(cur) - 1) \in Seq(Routes)
        /\ Enclosing(kind, cur, Len(cur)) =
             IF At(kind) = None THEN Enclosing(kind, cur, Len(cur) - 1)
             ELSE Append(Enclosing(kind, cur, Len(cur) - 1), At(kind))
        /\ At(kind) # None => At(kind) \in Routes /\ Len(At(kind).parts) = Len(cur)
  <2>1. ASSUME NEW kind \in Kinds
        PROVE  /\ At(kind) = PageAt(kind, cur)
               /\ Enclosing(kind, cur, Len(cur) - 1) \in Seq(Routes)
               /\ Enclosing(kind, cur, Len(cur)) =
                    IF At(kind) = None THEN Enclosing(kind, cur, Len(cur) - 1)
                    ELSE Append(Enclosing(kind, cur, Len(cur) - 1), At(kind))
               /\ At(kind) # None => At(kind) \in Routes /\ Len(At(kind).parts) = Len(cur)
    <3>1. At(kind) = PageAt(kind, cur)
      BY AtIs
    <3>2. Len(cur) - 1 \in Int /\ -1 <= Len(cur) - 1
      BY <1>2
    <3>3. Enclosing(kind, cur, Len(cur) - 1) \in Seq(Routes)
      BY <1>2, <3>2, EnclosingIs
    <3>4. Enclosing(kind, cur, Len(cur)) =
             IF PageAt(kind, Upto(cur, Len(cur))) = None THEN Enclosing(kind, cur, Len(cur) - 1)
             ELSE Append(Enclosing(kind, cur, Len(cur) - 1), PageAt(kind, Upto(cur, Len(cur))))
      BY <1>2, EnclosingNext
    <3>5. PageAt(kind, cur) # None => PageAt(kind, cur) \in Routes /\ Len(PageAt(kind, cur).parts) = Len(cur)
      BY <1>2, PageIs
    <3> QED BY <1>2, <3>1, <3>3, <3>4, <3>5
  <2> QED BY <2>1
<1>4. "layers" \in Kinds /\ "errors" \in Kinds /\ "statics" \in Kinds
  BY DEF Kinds, Special
<1> DEFINE old == Enclosing("layers", cur, Len(cur) - 1)
           new == Enclosing("layers", cur, Len(cur))
<1>5. /\ old \in Seq(Routes) /\ page.layers = old /\ layers = new
      /\ new = IF L = None THEN old ELSE Append(old, L)
      /\ L # None => L \in Routes
  BY <1>3, <1>4 DEF Held
<1>6. new \in Seq(Routes) /\ Len(new) \in Nat /\ Len(old) \in Nat /\ Len(old) <= Len(new)
      /\ \A j \in 0..Len(old) : Upto(new, j) = Upto(old, j)
  <2> HIDE DEF old, new, L
  <2>1. CASE L = None
    BY <1>5, <2>1, LenProperties
  <2>2. CASE L # None
    BY <1>5, <2>2, AppendIs, LenProperties
  <2> QED BY <2>1, <2>2
<1>7. Collected.error = Innermost(Enclosing("errors", cur, Len(cur)))
  BY <1>1, <1>3, <1>4, InnermostIs DEF Held
<1>8. Collected.statics = Innermost(Enclosing("statics", cur, Len(cur)))
  BY <1>1, <1>3, <1>4, InnermostIs DEF Held
<1>9. Collected.statics # None => Collected.parts_len = Len(Collected.statics.parts)
  BY <1>1, <1>3, <1>4 DEF Held
<1>10. Collected.error = None => Collected.error_depth = 0
  BY <1>1 DEF Held
<1>11. ASSUME Collected.error # None
       PROVE  /\ Collected.error_depth \in 0..Len(new) /\ Len(Collected.error.parts) \in 0..Len(cur)
              /\ Upto(new, Collected.error_depth) = Enclosing("layers", cur, Len(Collected.error.parts))
  <2>1. CASE E # None
    <3>1. Collected.error = E /\ Collected.error_depth = Len(new) /\ Len(E.parts) = Len(cur)
      BY <1>1, <1>3, <1>4, <1>5, <2>1
    <3>2. Upto(new, Len(new)) = new
      BY <1>6, UptoAll
    <3> QED BY <1>2, <1>6, <3>1, <3>2
  <2>2. CASE E = None
    <3>1. /\ Collected.error = page.error /\ Collected.error_depth = page.error_depth /\ page.error # None
      BY <1>1, <1>11, <2>2
    <3>2. /\ page.error_depth \in 0..Len(old) /\ Len(page.error.parts) \in 0..Len(cur) - 1
          /\ Upto(old, page.error_depth) = Enclosing("layers", cur, Len(page.error.parts))
      BY <1>5, <3>1 DEF Held
    <3> HIDE DEF old, new
    <3> QED BY <1>2, <1>6, <3>1, <3>2
  <2> QED BY <2>1, <2>2
<1>12. Collected.layers = new
  BY <1>1, <1>5
<1>13. PICK p : p = Collected
  OBVIOUS
<1>14. Held(p, cur, Len(cur))
  BY <1>7, <1>8, <1>9, <1>10, <1>11, <1>12, <1>13 DEF Held
<1> QED BY <1>1, <1>13, <1>14

(* Going on loses none of the pages.                                       *)
LEMMA HeldStays ==
  ASSUME NEW p, NEW k \in Seq(Key), NEW x \in Key, NEW b \in Int, b <= Len(k), Held(p, k, b)
  PROVE  Held(p, Append(k, x), b)
<1>1. \A kind : \A n \in Int : n <= Len(k) => Enclosing(kind, Append(k, x), n) = Enclosing(kind, k, n)
  BY EnclosingStays
<1>2. p.error # None => Len(p.error.parts) \in Int /\ Len(p.error.parts) <= Len(k)
  <2>1. p.error # None => Len(p.error.parts) \in 0..b
    BY DEF Held
  <2>2. Len(k) \in Nat
    BY LenProperties
  <2> QED BY <2>1, <2>2
<1> QED BY <1>1, <1>2 DEF Held

LEMMA NamedStays ==
  ASSUME NEW params, NEW k \in Seq(Key), NEW x \in Key, NEW b \in Int, b <= Len(k)
  PROVE  /\ Named(params, Append(k, x), b) <=> Named(params, k, b)
         /\ \A j \in 1..Len(k) : TitlesAt(Append(k, x), j) = TitlesAt(k, j)
<1>1. PICK at : at = Append(k, x)
  OBVIOUS
<1>2. Len(k) \in Nat
  BY LenProperties
<1>3. \A j \in 1..Len(k) : at[j] = k[j] /\ Upto(at, j) = Upto(k, j)
  <2>1. \A j \in 1..Len(k) : j \in 0..Len(k)
    BY <1>2
  <2> QED BY <1>1, <2>1, AppendIs
<1>4. \A j \in 1..Len(k) : TitlesAt(at, j) = TitlesAt(k, j)
  BY <1>3 DEF TitlesAt
<1>5. \A j \in 1..b : j \in 1..Len(k)
  BY <1>2
<1>6. \A j \in 1..Len(k) : \A i \in 1..j : i \in 1..Len(k)
  BY <1>2
<1>7. \A j \in 1..Len(k) : \A z : Outer(at, j, z) <=> Outer(k, j, z)
  BY <1>4, <1>6 DEF Outer
<1>8. Named(params, at, b) <=> Named(params, k, b)
  BY <1>3, <1>4, <1>5, <1>7 DEF Named
<1> QED BY <1>1, <1>4, <1>8

(* A part without titles gives no parameters.                              *)
LEMMA NamedLiteral ==
  ASSUME NEW params, NEW k, NEW n \in Nat, TitlesAt(k, n + 1) = <<>>, Named(params, k, n)
  PROVE  Named(params, k, n + 1)
<1>1. DOMAIN TitlesAt(k, n + 1) = {}
  OBVIOUS
<1>2. \A j \in 1..n + 1 : j \in 1..n \/ j = n + 1
  OBVIOUS
<1>3. \A j \in 1..n : j \in 1..n + 1
  OBVIOUS
<1> QED BY <1>1, <1>2, <1>3 DEF Named

(* What insert leaves: the outer value of a title that stands twice.       *)
LEMMA NamedRegex ==
  ASSUME NEW params, NEW new, NEW k, NEW n \in Nat, NEW groups, Named(params, k, n),
         TitlesAt(k, n + 1) \in Seq(Names), groups = Captures[k[n + 1]][request.path[n + 1]],
         new = [t \in DOMAIN params \cup Range(TitlesAt(k, n + 1)) |->
                  IF t \in DOMAIN params THEN params[t]
                  ELSE groups[Min({z \in DOMAIN TitlesAt(k, n + 1) : TitlesAt(k, n + 1)[z] = t})]]
  PROVE  Named(new, k, n + 1)
<1> DEFINE names == TitlesAt(k, n + 1)
<1>1. DOMAIN names \subseteq Nat
  BY LenProperties
<1>2. /\ \A j \in 1..n + 1 : j \in 1..n \/ j = n + 1
      /\ \A j \in 1..n : j \in 1..n + 1 /\ j < n + 1
      /\ n + 1 \in 1..n + 1
  OBVIOUS
<1>3. DOMAIN new = DOMAIN params \cup Range(names) /\ \A t \in DOMAIN params : new[t] = params[t]
  OBVIOUS
<1>4. ASSUME NEW j \in 1..n, NEW z \in DOMAIN TitlesAt(k, j)
      PROVE  /\ TitlesAt(k, j)[z] \in DOMAIN new
             /\ Outer(k, j, z) \/ new[TitlesAt(k, j)[z]] = Captures[k[j]][request.path[j]][z]
  BY <1>3 DEF Named
<1>5. ASSUME NEW z \in DOMAIN names
      PROVE  /\ names[z] \in DOMAIN new
             /\ Outer(k, n + 1, z) \/ new[names[z]] = groups[z]
  <2>1. PICK t : t = names[z]
    OBVIOUS
  <2>2. t \in Range(names) /\ t \in DOMAIN new
    BY <1>3, <2>1 DEF Range
  <2>3. CASE t \in DOMAIN params
    <3>1. PICK i \in 1..n : t \in Range(TitlesAt(k, i))
      BY <2>3 DEF Named
    <3>2. PICK y \in DOMAIN TitlesAt(k, i) : TitlesAt(k, i)[y] = t
      BY <3>1 DEF Range
    <3>3. i \in 1..n + 1 /\ i < n + 1
      BY <1>2
    <3>4. Outer(k, n + 1, z)
      BY <2>1, <3>2, <3>3 DEF Outer
    <3> QED BY <2>1, <2>2, <3>4
  <2>4. CASE t \notin DOMAIN params
    <3> DEFINE same == {y \in DOMAIN names : names[y] = t}
    <3>1. new[t] = groups[Min(same)]
      BY <2>2, <2>4
    <3>2. same \subseteq Nat /\ z \in same
      BY <1>1, <2>1
    <3>3. Min(same) \in same /\ Min(same) <= z
      <4> HIDE DEF same
      <4> QED BY <3>2, MinIsLeast
    <3>4. CASE Min(same) = z
      BY <2>1, <2>2, <3>1, <3>4
    <3>5. CASE Min(same) # z
      <4>1. PICK y : y = Min(same)
        OBVIOUS
      <4>2. y \in DOMAIN names /\ names[y] = t
        BY <3>3, <4>1
      <4>3. y < z
        <5>1. y \in Nat /\ z \in Nat /\ y <= z /\ y # z
          <6> HIDE DEF same
          <6> QED BY <3>2, <3>3, <3>5, <4>1
        <5> QED BY <5>1
      <4>4. Outer(k, n + 1, z)
        BY <1>2, <2>1, <4>2, <4>3 DEF Outer
      <4> QED BY <2>1, <2>2, <4>4
    <3> QED BY <3>4, <3>5
  <2> QED BY <2>3, <2>4
<1>6. ASSUME NEW t \in DOMAIN new
      PROVE  \E j \in 1..n + 1 : t \in Range(TitlesAt(k, j))
  <2>1. CASE t \in DOMAIN params
    BY <1>2, <2>1 DEF Named
  <2>2. CASE t \in Range(names)
    BY <1>2, <2>2
  <2> QED BY <1>3, <2>1, <2>2
<1>7. ASSUME NEW j \in 1..n + 1, NEW z \in DOMAIN TitlesAt(k, j)
      PROVE  /\ TitlesAt(k, j)[z] \in DOMAIN new
             /\ Outer(k, j, z) \/ new[TitlesAt(k, j)[z]] = Captures[k[j]][request.path[j]][z]
  <2>1. CASE j \in 1..n
    BY <1>4, <2>1
  <2>2. CASE j = n + 1
    BY <1>5, <2>2
  <2> QED BY <1>2, <2>1, <2>2
<1> HIDE DEF names
<1> QED BY <1>6, <1>7 DEF Named

(* While a request walks, what it has to find stays what it is.            *)
LEMMA SamePages ==
  ASSUME UNCHANGED <<routes, request>>
  PROVE  /\ \A p, k, b : Held(p, k, b)' <=> Held(p, k, b)
         /\ \A params, k, b : Named(params, k, b)' <=> Named(params, k, b)
         /\ \A p, k : Answers(p, k)' <=> Answers(p, k)
<1>1. \A n, kind, k, m : Registers(n, kind, k, m)' <=> Registers(n, kind, k, m)
  BY DEF Registers
<1>2. \A kind, k : Registered(kind, k)' = Registered(kind, k)
  BY <1>1 DEF Registered
<1>3. \A kind, k : PageAt(kind, k)' = PageAt(kind, k)
  BY <1>2 DEF PageAt
<1>4. \A kind, k, b : Depths(kind, k, b)' = Depths(kind, k, b)
  BY <1>3 DEF Depths
<1>5. \A kind, k, b : Enclosing(kind, k, b)' = Enclosing(kind, k, b)
  BY <1>3, <1>4 DEF Enclosing
<1>6. \A p, k, b : Held(p, k, b)' <=> Held(p, k, b)
  BY <1>5 DEF Held
<1>7. \A k : \A j : TitlesAt(k, j)' = TitlesAt(k, j)
  BY SameRoutes
<1>8. \A k, j, z : Outer(k, j, z)' <=> Outer(k, j, z)
  BY <1>7 DEF Outer
<1>9. \A params, k, b : Named(params, k, b)' <=> Named(params, k, b)
  BY <1>7, <1>8 DEF Named
<1>10. \A k : Spoiled(k)' <=> Spoiled(k)
  BY SameRoutes
<1>11. \A k : (Closed(k)' <=> Closed(k)) /\ Floor(k)' = Floor(k)
  BY <1>10 DEF Closed, Floor
<1>12. \A p, k : Answers(p, k)' <=> Answers(p, k)
  BY <1>3, <1>5, <1>6, <1>9, <1>11 DEF Answers
<1> QED BY <1>6, <1>9, <1>12

LEMMA StepServed ==
  ASSUME TreeInv, Walked, Served, [Next]_vars
  PROVE  Served'
<1> DEFINE Goal == Served'
<1>1. ASSUME \/ \E r \in Routes : Set_handler(r)
             \/ Build_uri_part \/ Add_page
      PROVE  Goal
  <2>1. phase' \in {"setup", "build"}
    BY <1>1 DEF Set_handler, Build_uri_part, Add_page
  <2> QED BY <2>1 DEF Served
<1>2. ASSUME NEW r \in Requests, Get_handler(r)
      PROVE  Goal
  <2>1. /\ phase = "setup" /\ phase' = "walk" /\ cur' = <<>>
        /\ page' = [handler |-> None, layers |-> <<>>, statics |-> None, parts_len |-> 0,
                    error |-> None, error_depth |-> 0, error_layers |-> <<>>, params |-> <<>>]
    BY <1>2 DEF Get_handler, TreeInv, Typed
  <2>2. Len(cur') = 0 /\ Len(cur') - 1 = -1
    BY <2>1
  <2>3. \A kind, k : Enclosing(kind, k, -1)' = <<>>
    <3>1. 1..Cardinality({}) = {}
      BY FS_EmptySet
    <3>2. \A kind, k : Depths(kind, k, -1)' = {}
      BY DEF Depths
    <3> QED BY <3>1, <3>2 DEF Enclosing
  <2>4. Held(page, cur, Len(cur) - 1)'
    <3>1. Innermost(<<>>) = None
      BY DEF Innermost
    <3> QED BY <2>1, <2>2, <2>3, <3>1 DEF Held
  <2>5. Named(page.params, cur, Len(cur))'
    <3>1. page'.params = <<>> /\ DOMAIN <<>> = {} /\ 1..Len(cur') = {}
      BY <2>1, <2>2
    <3> QED BY <3>1 DEF Named
  <2>6. IsPage(page)' /\ page'.handler = None /\ page'.error_layers = <<>>
    BY <2>1 DEF IsPage
  <2> QED BY <2>1, <2>4, <2>5, <2>6 DEF Served
<1>3. ASSUME UNCHANGED vars
      PROVE  Goal
  <2>1. UNCHANGED <<routes, request, cur, page, phase>>
    BY <1>3 DEF vars
  <2>2. PICK p, k : p = page /\ k = cur
    OBVIOUS
  <2>3. p = page' /\ k = cur'
    BY <2>1, <2>2
  <2>4. /\ phase = "walk" =>
             /\ IsPage(p) /\ p.handler = None /\ p.error_layers = <<>>
             /\ Held(p, k, Len(k) - 1) /\ Named(p.params, k, Len(k))
        /\ phase = "answered" => Answers(p, k)
    BY <2>2 DEF Served
  <2>5. /\ phase' = "walk" =>
             /\ IsPage(p) /\ p.handler = None /\ p.error_layers = <<>>
             /\ Held(p, k, Len(k) - 1)' /\ Named(p.params, k, Len(k))'
        /\ phase' = "answered" => Answers(p, k)'
    BY <2>1, <2>4, SamePages
  <2>6. /\ Held(page, cur, Len(cur) - 1)' <=> Held(p, k, Len(k) - 1)'
        /\ Named(page.params, cur, Len(cur))' <=> Named(p.params, k, Len(k))'
        /\ Answers(page, cur)' <=> Answers(p, k)'
        /\ IsPage(page)' <=> IsPage(p)
    BY <2>3
  <2> QED BY <2>3, <2>5, <2>6 DEF Served
<1>4. ASSUME phase = "walk", UNCHANGED <<routes, request>>,
             \/ Walk_literal \/ Walk_regex \/ Not_found \/ Arrive
      PROVE  Goal
  <2>1. PICK c, k : c = Collected /\ k = cur
    OBVIOUS
  <2>2. /\ k \in Seq(Key) /\ Len(k) \in Nat /\ Len(request.path) \in Nat
        /\ k = <<>> \/ ~Spoiled(k)
        /\ routes \in Seq(Routes)
    BY <1>4, <2>1, RouterAssumption, LenProperties DEF TreeInv, Typed, Walked
  <2>3. /\ IsPage(c) /\ c.handler = None /\ c.error_layers = <<>>
        /\ Held(c, k, Len(k)) /\ Named(c.params, k, Len(k))
    <3>1. /\ IsPage(page) /\ page.handler = None /\ page.error_layers = <<>>
          /\ Held(page, cur, Len(cur) - 1) /\ Named(page.params, cur, Len(cur))
      BY <1>4 DEF Served
    <3>2. /\ IsPage(Collected) /\ Held(Collected, cur, Len(cur))
          /\ Collected.handler = page.handler /\ Collected.params = page.params
          /\ Collected.error_layers = page.error_layers
      BY <1>4, <3>1, CollectedIs
    <3>3. /\ IsPage(c) <=> IsPage(Collected)
          /\ Held(c, k, Len(k)) <=> Held(Collected, cur, Len(cur))
          /\ Named(c.params, k, Len(k)) <=> Named(Collected.params, cur, Len(cur))
      BY <2>1
    <3>4. Named(Collected.params, cur, Len(cur))
      BY <3>1, <3>2
    <3>5. c.handler = None /\ c.error_layers = <<>>
      BY <2>1, <3>1, <3>2
    <3> QED BY <3>2, <3>3, <3>4, <3>5
  (* To be on the way at a node below is to have what is collected here. *)
  <2>4. ASSUME NEW at \in Seq(Key), cur' = at, Len(at) = Len(k) + 1, phase' = "walk",
               NEW q, page' = q, IsPage(q), q.handler = None, q.error_layers = <<>>,
               Held(q, at, Len(k)), Named(q.params, at, Len(k) + 1)
        PROVE  Goal
    <3>1. Len(at) - 1 = Len(k)
      BY <2>2, <2>4
    <3>2. Held(q, at, Len(at) - 1)' /\ Named(q.params, at, Len(at))'
      BY <1>4, <2>4, <3>1, SamePages
    <3>3. Held(page, cur, Len(cur) - 1)' /\ Named(page.params, cur, Len(cur))'
      <4>1. /\ Held(page, cur, Len(cur) - 1)' <=> Held(q, at, Len(at) - 1)'
            /\ Named(page.params, cur, Len(cur))' <=> Named(q.params, at, Len(at))'
        BY <2>4
      <4> QED BY <3>2, <4>1
    <3>4. IsPage(page)' /\ page'.handler = None /\ page'.error_layers = <<>>
      BY <2>4 DEF IsPage
    <3> QED BY <2>4, <3>3, <3>4 DEF Served
  <2>5. ASSUME NEW at, cur' = at, phase' = "answered", NEW q, page' = q, Answers(q, at)
        PROVE  Goal
    <3>1. Answers(q, at)'
      BY <1>4, <2>5, SamePages
    <3>2. Answers(page, cur)' <=> Answers(q, at)'
      BY <2>5
    <3> QED BY <2>5, <3>1, <3>2 DEF Served
  <2>6. ASSUME NEW x \in Key
        PROVE  Held(c, Append(k, x), Len(k)) /\ Named(c.params, Append(k, x), Len(k))
    <3>1. PICK b \in Int : b = Len(k) /\ b <= Len(k)
      BY <2>2
    <3>2. Held(c, k, b) /\ Named(c.params, k, b) /\ k \in Seq(Key)
      BY <2>2, <2>3, <3>1
    <3>3. Held(c, Append(k, x), b)
      BY <3>1, <3>2, HeldStays
    <3>4. Named(c.params, Append(k, x), b)
      BY <3>1, <3>2, NamedStays
    <3> QED BY <3>1, <3>3, <3>4
  <2>7. ASSUME Walk_literal
        PROVE  Goal
    <3>1. /\ OnTheWay /\ Known(Segment) /\ cur' = Append(cur, Segment) /\ page' = c /\ phase' = phase
      BY <2>1, <2>7 DEF Walk_literal
    <3>2. PICK x \in Key : x = Segment
      BY <3>1, SegmentIs DEF TreeInv
    <3>3. PICK at : at = Append(cur, x)
      OBVIOUS
    <3>4. at \in Seq(Key) /\ Len(at) = Len(k) + 1 /\ TitlesAt(at, Len(k) + 1) = <<>>
      <4>1. at \in Seq(Key) /\ Len(at) = Len(cur) + 1 /\ TitlesAt(at, Len(at)) = <<>>
        BY <3>1, <3>2, <3>3, LiteralIs
      <4> QED BY <2>1, <4>1
    <3>5. Held(c, at, Len(k)) /\ Named(c.params, at, Len(k))
      BY <2>1, <2>6, <3>3
    <3>6. Named(c.params, at, Len(k) + 1)
      BY <2>2, <3>4, <3>5, NamedLiteral
    <3>7. cur' = at /\ phase' = "walk"
      BY <1>4, <3>1, <3>2, <3>3
    <3> HIDE DEF Goal
    <3> QED BY <2>3, <2>4, <3>1, <3>4, <3>5, <3>6, <3>7
  <2>8. ASSUME Walk_regex
        PROVE  Goal
    <3>1. PICK x : x = Shapes[Min(Matching)]
      OBVIOUS
    <3>2. PICK at : at = Append(cur, x)
      OBVIOUS
    <3>3. PICK names, groups : names = tree[at].params /\ groups = Captures[x][Segment]
      OBVIOUS
    <3>4. /\ OnTheWay /\ Matching # {} /\ cur' = at
          /\ IF Len(names) # Len(groups)
             THEN phase' = "answered" /\ page' = c
             ELSE phase' = phase /\ page' = Insert(c, names, groups)
      BY <2>1, <2>8, <3>1, <3>2, <3>3 DEF Walk_regex
    <3>5. /\ x \in Key /\ at \in Seq(Key) /\ at # <<>> /\ Len(at) = Len(k) + 1
          /\ at[Len(k) + 1] = x
          /\ Spoiled(at) <=> Len(names) # Len(groups)
          /\ ~Spoiled(at) => names = TitlesAt(at, Len(k) + 1)
          /\ TitlesAt(at, Len(k) + 1) \in Seq(Names)
      <4>1. /\ x \in Key /\ at \in Seq(Key) /\ at # <<>>
            /\ Len(at) = Len(cur) + 1 /\ at[Len(at)] = x
            /\ Spoiled(at) <=> Len(tree[at].params) # Len(Captures[x][Segment])
            /\ ~Spoiled(at) => tree[at].params = TitlesAt(at, Len(at))
            /\ TitlesAt(at, Len(at)) \in Seq(Names)
        BY <3>1, <3>2, <3>4, TitlesFit
      <4> QED BY <2>1, <3>3, <4>1
    <3>6. Held(c, at, Len(k)) /\ Named(c.params, at, Len(k))
      BY <2>1, <2>6, <3>2, <3>5
    <3>7. ASSUME Spoiled(at)
          PROVE  Goal
      <4>1. Closed(at) /\ Floor(at) = Len(k)
        BY <2>2, <3>5, <3>7 DEF Closed, Floor
      <4>2. Answers(c, at)
        BY <2>3, <3>6, <4>1 DEF Answers
      <4>3. cur' = at /\ phase' = "answered" /\ page' = c
        BY <3>4, <3>5, <3>7
      <4> HIDE DEF Goal
      <4> QED BY <2>5, <4>2, <4>3
    <3>8. ASSUME ~Spoiled(at)
          PROVE  Goal
      <4>1. names = TitlesAt(at, Len(k) + 1) /\ phase' = "walk" /\ page' = Insert(c, names, groups)
        BY <1>4, <3>4, <3>5, <3>8
      <4>2. PICK new : new = [t \in DOMAIN c.params \cup Range(names) |->
                                IF t \in DOMAIN c.params THEN c.params[t]
                                ELSE groups[Min({z \in DOMAIN names : names[z] = t})]]
        OBVIOUS
      <4>3. PICK q : q = [c EXCEPT !.params = new]
        OBVIOUS
      <4>4. page' = q
        BY <4>1, <4>2, <4>3 DEF Insert
      <4>5. /\ q.handler = c.handler /\ q.layers = c.layers /\ q.statics = c.statics
            /\ q.parts_len = c.parts_len /\ q.error = c.error /\ q.error_depth = c.error_depth
            /\ q.error_layers = c.error_layers /\ q.params = new
            /\ IsPage(q)
        BY <2>3, <4>3 DEF IsPage
      <4>6. Held(q, at, Len(k))
        BY <3>6, <4>5 DEF Held
      <4>7. groups = Captures[at[Len(k) + 1]][request.path[Len(k) + 1]]
        BY <2>1, <3>3, <3>5 DEF Segment
      <4>8. Named(new, at, Len(k) + 1)
        <5>1. new = [t \in DOMAIN c.params \cup Range(TitlesAt(at, Len(k) + 1)) |->
                       IF t \in DOMAIN c.params THEN c.params[t]
                       ELSE groups[Min({z \in DOMAIN TitlesAt(at, Len(k) + 1) :
                                          TitlesAt(at, Len(k) + 1)[z] = t})]]
          BY <4>1, <4>2
        <5> QED BY <2>2, <3>5, <3>6, <4>7, <5>1, NamedRegex
      <4>9. q.handler = None /\ q.error_layers = <<>> /\ Named(q.params, at, Len(k) + 1)
        BY <2>3, <4>5, <4>8
      <4> HIDE DEF Goal
      <4> QED BY <2>4, <3>4, <3>5, <4>1, <4>4, <4>5, <4>6, <4>9
    <3> HIDE DEF Goal
    <3> QED BY <3>7, <3>8
  (* Nothing more to walk: the layers of the error page are cut out. *)
  <2>9. ASSUME Not_found \/ Arrive
        PROVE  Goal
    <3>1. PICK w : w = [c EXCEPT !.error_layers = SubSeq(c.layers, 1, c.error_depth)]
      OBVIOUS
    <3>2. /\ w.handler = c.handler /\ w.layers = c.layers /\ w.statics = c.statics
          /\ w.parts_len = c.parts_len /\ w.error = c.error /\ w.error_depth = c.error_depth
          /\ w.error_layers = Upto(c.layers, c.error_depth) /\ w.params = c.params
          /\ IsPage(w)
      BY <2>3, <3>1 DEF IsPage, Upto
    <3>3. ~Closed(k) /\ Floor(k) = Len(k)
      BY <2>2 DEF Closed, Floor
    <3>4. w.error_layers = IF w.error = None \/ Closed(k) THEN <<>>
                           ELSE Enclosing("layers", k, Len(w.error.parts))
      <4>1. CASE c.error = None
        <5>1. c.error_depth = 0
          BY <2>3, <4>1 DEF Held
        <5>2. Upto(c.layers, 0) = <<>>
          BY SubSeqEmpty DEF Upto
        <5> QED BY <3>2, <4>1, <5>1, <5>2
      <4>2. CASE c.error # None
        BY <2>3, <3>2, <3>3, <4>2 DEF Held
      <4> QED BY <4>1, <4>2
    <3>5. cur' = k /\ phase' = "answered" /\ page' \in {w, [w EXCEPT !.handler = At("handlers")]}
      BY <2>1, <2>9, <3>1 DEF Not_found, Arrive, WithErrorLayers
    <3>6. PICK q : q = page'
      OBVIOUS
    <3>7. /\ q.layers = w.layers /\ q.statics = w.statics /\ q.parts_len = w.parts_len
          /\ q.error = w.error /\ q.error_depth = w.error_depth
          /\ q.error_layers = w.error_layers /\ q.params = w.params
      BY <3>2, <3>5, <3>6 DEF IsPage
    <3>8. q.handler = IF Len(k) < Len(request.path) THEN None ELSE PageAt("handlers", k)
      <4>1. CASE Not_found
        <5>1. page' = w /\ Len(k) < Len(request.path)
          BY <2>1, <3>1, <4>1 DEF Not_found, WithErrorLayers, OnTheWay
        <5> QED BY <2>3, <3>2, <3>6, <5>1
      <4>2. CASE Arrive
        <5>1. page' = [w EXCEPT !.handler = At("handlers")] /\ Len(k) = Len(request.path)
          BY <2>1, <3>1, <4>2 DEF Arrive, WithErrorLayers
        <5>2. q.handler = At("handlers")
          BY <3>2, <3>6, <5>1 DEF IsPage
        <5>3. At("handlers") = PageAt("handlers", k)
          <6>1. "handlers" \in Kinds
            BY DEF Kinds, Special
          <6> QED BY <1>4, <2>1, <6>1, AtIs
        <5> QED BY <2>2, <5>1, <5>2, <5>3
      <4> QED BY <2>9, <4>1, <4>2
    <3>9. Held(q, k, Len(k)) /\ Named(q.params, k, Len(k))
      BY <2>3, <3>2, <3>7 DEF Held
    <3>10. Answers(q, k)
      BY <3>3, <3>4, <3>7, <3>8, <3>9 DEF Answers
    <3> HIDE DEF Goal
    <3> QED BY <2>5, <3>5, <3>6, <3>10
  <2> HIDE DEF Goal
  <2> QED BY <1>4, <2>7, <2>8, <2>9
<1>5. \/ Walk_literal \/ Walk_regex \/ Not_found \/ Arrive
      => phase = "walk" /\ UNCHANGED <<routes, request>>
  BY DEF Walk_literal, Walk_regex, Not_found, Arrive, OnTheWay
<1> HIDE DEF Goal
<1>6. Goal
  BY <1>1, <1>2, <1>3, <1>4, <1>5 DEF Next
<1> QED BY <1>6 DEF Goal

-----------------------------------------------------------------------------
(* The theorems.                                                           *)

Inv == TreeInv /\ Walked /\ Served

LEMMA InitInv == Init => Inv
<1> SUFFICES ASSUME Init
             PROVE  Inv
  OBVIOUS
<1>1. TreeInv
  BY InitTree
<1>2. phase = "setup"
  BY DEF Init
<1>3. Walked /\ Served
  BY <1>2 DEF Walked, Served
<1> QED BY <1>1, <1>3 DEF Inv

LEMMA StepInv == Inv /\ [Next]_vars => Inv'
<1> SUFFICES ASSUME Inv, [Next]_vars
             PROVE  Inv'
  OBVIOUS
<1>1. TreeInv'
  BY StepTree DEF Inv
<1>2. Walked'
  BY StepWalked DEF Inv
<1>3. Served'
  BY StepServed DEF Inv
<1> QED BY <1>1, <1>2, <1>3 DEF Inv

LEMMA InvHolds == Spec => []Inv
<1>1. Init => Inv
  BY InitInv
<1>2. Inv /\ [Next]_vars => Inv'
  BY StepInv
<1> QED BY <1>1, <1>2, PTL DEF Spec

(* What an answer is, said of the way that the path prefers.               *)
LEMMA AnswerIs ==
  ASSUME Inv, Answered
  PROVE  /\ Way \in Seq(Key) /\ (Barred <=> Closed(Way)) /\ Bottom = Floor(Way)
         /\ routes \in Seq(Routes) /\ Bottom \in Int /\ -1 <= Bottom
         /\ Answers(page, Way)
<1>1. Way = cur
  BY WayIs DEF Inv, TreeInv, Answered
<1>2. cur \in Seq(Key) /\ routes \in Seq(Routes) /\ Answers(page, cur)
  BY DEF Inv, TreeInv, Typed, Served, Answered
<1>3. (Barred <=> Closed(Way)) /\ Bottom = Floor(Way)
  BY DEF Barred, Bottom, Closed, Floor
<1>4. Floor(cur) \in Int /\ -1 <= Floor(cur)
  <2>1. Len(cur) \in Nat
    BY <1>2, LenProperties
  <2> QED BY <2>1 DEF Floor
<1> QED BY <1>1, <1>2, <1>3, <1>4

(* At every point of a registration the nodes, pages and titles of the     *)
(* tree are given by the calls made so far (build_uri_part, set_handler).  *)
THEOREM TreeIsWhatWasRegistered == Spec => [](Nodes /\ PagesKept /\ TitlesKept)
<1>1. Inv => Nodes /\ PagesKept /\ TitlesKept
  BY DEF Inv, TreeInv
<1> QED BY <1>1, InvHolds, PTL

(* Whatever patterns are registered, in whatever order, a request gets the *)
(* handler of the pattern its path prefers (set_handler, build_uri_part    *)
(* and get_handler, for every set of shapes, calls and requests).          *)
THEOREM HandlerIsByPattern == Spec => []HandlerByPattern
<1>1. Inv => HandlerByPattern
  <2> SUFFICES ASSUME Inv, Answered
               PROVE  page.handler = IF Barred \/ Len(Way) < Len(request.path) THEN None
                                     ELSE PageAt("handlers", Way)
    BY DEF HandlerByPattern
  <2> QED BY AnswerIs DEF Answers
<1> QED BY <1>1, InvHolds, PTL

(* The layers, the error page and the static folder of an answer are those *)
(* registered on its way, and the error page runs the layers around it.    *)
THEOREM LayersAlwaysEnclose == Spec => []LayersEnclose
<1>1. Inv => LayersEnclose
  <2> SUFFICES ASSUME Inv, Answered
               PROVE  /\ page.layers = Enclosing("layers", Way, Bottom)
                      /\ page.error = Innermost(Enclosing("errors", Way, Bottom))
                      /\ page.error_layers = IF page.error = None \/ Barred THEN <<>>
                                             ELSE Enclosing("layers", Way, Len(page.error.parts))
                      /\ page.statics = Innermost(Enclosing("statics", Way, Bottom))
                      /\ Enclosing("statics", Way, Bottom) # <<>> =>
                           page.parts_len = Len(Last(Enclosing("statics", Way, Bottom)).parts)
    BY DEF LayersEnclose
  <2>1. /\ Answers(page, Way) /\ (Barred <=> Closed(Way)) /\ Held(page, Way, Bottom)
    BY AnswerIs DEF Answers
  <2>2. Enclosing("statics", Way, Bottom) \in Seq(Routes)
    BY AnswerIs, EnclosingIs
  <2>3. Enclosing("statics", Way, Bottom) # <<>> =>
          /\ Innermost(Enclosing("statics", Way, Bottom)) = Last(Enclosing("statics", Way, Bottom))
          /\ Innermost(Enclosing("statics", Way, Bottom)) # None
    BY <2>2, InnermostIs
  <2> QED BY <2>1, <2>3 DEF Answers, Held
<1> QED BY <1>1, InvHolds, PTL

(* An answer finds the parameters of every part of its way under the       *)
(* titles of the pattern that came first through it, and no others; where  *)
(* a title stands twice, it has the outer part's value.                    *)
THEOREM ParametersAreNamed == Spec => []ParamsNamed
<1>1. Inv => ParamsNamed
  <2> SUFFICES ASSUME Inv, Answered
               PROVE  Named(page.params, Way, Bottom)
    BY DEF ParamsNamed
  <2> QED BY AnswerIs DEF Answers
<1> QED BY <1>1, InvHolds, PTL
=============================================================================
