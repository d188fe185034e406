----------------------------- MODULE ListLemmas -----------------------------
(***************************************************************************)
(* Facts about the sequences the readers keep their tables, columns and    *)
(* views in: the first place where something holds, and what a list is     *)
(* after an element was put in or taken out. About finite sets: images of  *)
(* them, and the lists, in order or not, they can be laid out as. And      *)
(* induction over the numbers, for a set of them.                          *)
(***************************************************************************)
EXTENDS SequencesExt, FiniteSetTheorems, WellFoundedInduction, TLAPS

(***************************************************************************)
(* A set of numbers that is not empty has a least one, which Min is.       *)
(***************************************************************************)
LEMMA MinExists ==
  ASSUME NEW S \in SUBSET Nat, S # {}
  PROVE  Min(S) \in S /\ \A x \in S : Min(S) <= x
<1> DEFINE Upto == {1 .. x : x \in S}
           R == StrictSubsetOrdering(Nat)
<1>1. Upto \subseteq FiniteSubsetsOf(Nat) /\ Upto # {}
  <2>1. \A x \in S : IsFiniteSet(1 .. x) /\ 1 .. x \subseteq Nat
    BY FS_Interval
  <2> QED
    BY <2>1 DEF FiniteSubsetsOf
<1>2. PICK B \in Upto : \A C \in Upto : <<C, B>> \notin R
  <2> HIDE DEF Upto, R
  <2>1. IsWellFoundedOn(R, FiniteSubsetsOf(Nat))
    BY FS_StrictSubsetOrderingWellFounded DEF R
  <2> QED
    BY <1>1, <2>1, WFMin
<1>3. PICK x \in S : B = 1 .. x
  OBVIOUS
<1>4. ASSUME NEW y \in S PROVE x <= y
  <2> SUFFICES ASSUME y < x PROVE FALSE
    OBVIOUS
  <2>1. x \in 1 .. x /\ x \notin 1 .. y /\ 1 .. y \subseteq 1 .. x
    OBVIOUS
  <2>2. <<1 .. y, 1 .. x>> \in R
    BY <2>1 DEF StrictSubsetOrdering
  <2> QED
    BY <1>2, <1>3, <2>2
<1> QED
  BY <1>4 DEF Min

(***************************************************************************)
(* A set of numbers that has 0, and with each number the next, has all.    *)
(***************************************************************************)
LEMMA Induction ==
  ASSUME NEW G, 0 \in G, \A k \in Nat : k \in G => k + 1 \in G
  PROVE  \A k \in Nat : k \in G
<1> DEFINE Bad == Nat \ G
<1> SUFFICES ASSUME Bad # {} PROVE FALSE
  OBVIOUS
<1>1. Min(Bad) \in Bad /\ \A x \in Bad : Min(Bad) <= x
  BY MinExists
<1>2. PICK m \in Nat : m \notin G /\ \A x \in Nat : x \notin G => m <= x
  BY <1>1
<1>3. m # 0
  BY <1>2
<1>4. m - 1 \in Nat /\ ~(m <= m - 1) /\ (m - 1) + 1 = m
  BY <1>3
<1> QED
  BY <1>2, <1>4

(***************************************************************************)
(* A set of numbers up to n that is not empty has a greatest one, which    *)
(* Max is.                                                                 *)
(***************************************************************************)
LEMMA MaxExists ==
  ASSUME NEW n \in Nat, NEW S \in SUBSET (1 .. n), S # {}
  PROVE  Max(S) \in S /\ \A x \in S : x <= Max(S)
<1> DEFINE T == {n - x : x \in S}
<1>1. T \in SUBSET Nat /\ T # {}
  <2>1. \A x \in S : n - x \in Nat
    OBVIOUS
  <2> QED
    BY <2>1
<1>2. PICK m \in T : \A y \in T : m <= y
  <2> HIDE DEF T
  <2> QED
    BY <1>1, MinExists
<1>3. PICK x \in S : m = n - x
  OBVIOUS
<1>4. \A y \in S : n - y \in T
  OBVIOUS
<1>5. \A y \in S : x >= y /\ y <= x
  BY <1>2, <1>3, <1>4
<1>6. \A z \in S : (\A y \in S : z >= y) => \A y \in S : y <= z
  OBVIOUS
<1> QED
  BY <1>5, <1>6 DEF Max

(***************************************************************************)
(* Where only one place will do, the first is that one.                    *)
(***************************************************************************)
LEMMA OnlyPlace ==
  ASSUME NEW S \in SUBSET Nat, NEW i \in S, \A j \in S : j = i
  PROVE  Min(S) = i
<1>1. i \in Nat /\ i <= i
  OBVIOUS
<1>2. \A y \in S : i <= y
  BY <1>1
<1>3. \A x \in S : (\A y \in S : x <= y) => x = i
  OBVIOUS
<1> QED
  BY <1>2, <1>3, Zenon DEF Min

-----------------------------------------------------------------------------

(***************************************************************************)
(* What is in a list after an element was put in at a place.               *)
(***************************************************************************)
LEMMA InsertedAt ==
  ASSUME NEW S, NEW s \in Seq(S), NEW n \in 1 .. Len(s) + 1, NEW e \in S
  PROVE  /\ InsertAt(s, n, e) \in Seq(S)
         /\ Len(InsertAt(s, n, e)) = Len(s) + 1
         /\ \A i \in 1 .. Len(s) + 1 :
              InsertAt(s, n, e)[i] = IF i < n THEN s[i] ELSE IF i = n THEN e ELSE s[i - 1]
<1> DEFINE head == SubSeq(s, 1, n - 1)
           tail == SubSeq(s, n, Len(s))
           front == head \o <<e>>
<1>1. InsertAt(s, n, e) = front \o tail
  BY DEF InsertAt
<1>2. head \in Seq(S) /\ Len(head) = n - 1 /\ \A i \in 1 .. n - 1 : head[i] = s[i]
  OBVIOUS
<1>3. /\ tail \in Seq(S) /\ Len(tail) = Len(s) + 1 - n
      /\ \A i \in 1 .. Len(s) + 1 - n : tail[i] = s[i + n - 1]
  OBVIOUS
<1> HIDE DEF head, tail
<1>4. /\ front \in Seq(S) /\ Len(front) = n
      /\ \A i \in 1 .. n : front[i] = IF i < n THEN s[i] ELSE e
  BY <1>2
<1> HIDE DEF front
<1>5. /\ front \o tail \in Seq(S) /\ Len(front \o tail) = Len(s) + 1
      /\ \A i \in 1 .. Len(s) + 1 :
           (front \o tail)[i] = IF i <= n THEN front[i] ELSE tail[i - n]
  BY <1>3, <1>4
<1>6. ASSUME NEW i \in 1 .. Len(s) + 1
      PROVE  (front \o tail)[i]
             = IF i < n THEN s[i] ELSE IF i = n THEN e ELSE s[i - 1]
  <2>1. CASE i <= n
    BY <1>4, <1>5, <2>1
  <2>2. CASE i > n
    <3>1. i - n \in 1 .. Len(s) + 1 - n
      BY <2>2
    <3>2. tail[i - n] = s[i - 1]
      BY <1>3, <3>1
    <3> QED
      BY <1>5, <2>2, <3>2
  <2>3. i <= n \/ i > n
    OBVIOUS
  <2> QED
    BY <2>1, <2>2, <2>3
<1> QED
  BY <1>1, <1>5, <1>6

(***************************************************************************)
(* What is in a list after the element at a place was taken out.           *)
(***************************************************************************)
LEMMA RemovedAt ==
  ASSUME NEW S, NEW s \in Seq(S), NEW n \in 1 .. Len(s)
  PROVE  /\ RemoveAt(s, n) \in Seq(S)
         /\ Len(RemoveAt(s, n)) = Len(s) - 1
         /\ \A i \in 1 .. Len(s) - 1 :
              RemoveAt(s, n)[i] = IF i < n THEN s[i] ELSE s[i + 1]
<1> DEFINE head == SubSeq(s, 1, n - 1)
           tail == SubSeq(s, n + 1, Len(s))
<1>1. RemoveAt(s, n) = head \o tail
  BY DEF RemoveAt
<1>2. head \in Seq(S) /\ Len(head) = n - 1 /\ \A i \in 1 .. n - 1 : head[i] = s[i]
  OBVIOUS
<1>3. /\ tail \in Seq(S) /\ Len(tail) = Len(s) - n
      /\ \A i \in 1 .. Len(s) - n : tail[i] = s[n + i]
  OBVIOUS
<1> HIDE DEF head, tail
<1>4. /\ head \o tail \in Seq(S) /\ Len(head \o tail) = Len(s) - 1
      /\ \A i \in 1 .. Len(s) - 1 :
           (head \o tail)[i] = IF i < n THEN head[i] ELSE tail[i - (n - 1)]
  <2>1. Len(head) + Len(tail) = Len(s) - 1 /\ \A i \in Nat : i <= n - 1 <=> i < n
    BY <1>2, <1>3
  <2>2. /\ head \o tail \in Seq(S) /\ Len(head \o tail) = Len(head) + Len(tail)
        /\ \A i \in 1 .. Len(head) + Len(tail) :
             (head \o tail)[i] = IF i <= Len(head) THEN head[i] ELSE tail[i - Len(head)]
    <3>1. head \in Seq(S) /\ tail \in Seq(S)
      BY <1>2, <1>3
    <3> QED
      BY <3>1
  <2> QED
    BY <1>2, <2>1, <2>2
<1>5. ASSUME NEW i \in 1 .. Len(s) - 1
      PROVE  (head \o tail)[i] = IF i < n THEN s[i] ELSE s[i + 1]
  <2>1. CASE i < n
    BY <1>2, <1>4, <2>1
  <2>2. CASE i >= n
    <3>1. i - (n - 1) \in 1 .. Len(s) - n
      BY <2>2
    <3>2. tail[i - (n - 1)] = s[i + 1]
      BY <1>3, <3>1
    <3> QED
      BY <1>4, <2>2, <3>2
  <2>3. i < n \/ i >= n
    OBVIOUS
  <2> QED
    BY <2>1, <2>2, <2>3
<1> QED
  BY <1>1, <1>4, <1>5

(***************************************************************************)
(* Wherever an element e was put into s, the others are there as they      *)
(* were.                                                                   *)
(***************************************************************************)
PutIn(after, s, n, e) ==
  /\ Len(after) = Len(s) + 1
  /\ n \in 1 .. Len(after) /\ after[n] = e
  /\ \A p \in 1 .. Len(s) : \E i \in 1 .. Len(after) : i # n /\ after[i] = s[p]
  /\ \A i, j \in 1 .. Len(after) : i # n /\ j # n =>
       \E p, q \in 1 .. Len(s) : after[i] = s[p] /\ after[j] = s[q] /\ (p = q <=> i = j)

(***************************************************************************)
(* Taking an element out of s keeps every other one, and puts in none.     *)
(***************************************************************************)
TakenOut(after, s, n) ==
  /\ Len(after) = Len(s) - 1
  /\ \A p \in 1 .. Len(s) : p # n => \E i \in 1 .. Len(after) : after[i] = s[p]
  /\ \A i \in 1 .. Len(after) : \E p \in 1 .. Len(s) : p # n /\ after[i] = s[p]
  /\ \A i, j \in 1 .. Len(after) :
       \E p, q \in 1 .. Len(s) : after[i] = s[p] /\ after[j] = s[q] /\ (p = q <=> i = j)

LEMMA InsertAtPutsIn ==
  ASSUME NEW S, NEW s \in Seq(S), NEW n \in 1 .. Len(s) + 1, NEW e \in S
  PROVE  InsertAt(s, n, e) \in Seq(S) /\ PutIn(InsertAt(s, n, e), s, n, e)
<1>1. PICK after : after = InsertAt(s, n, e)
  OBVIOUS
<1>2. /\ after \in Seq(S) /\ Len(after) = Len(s) + 1
      /\ \A i \in 1 .. Len(s) + 1 :
           after[i] = IF i < n THEN s[i] ELSE IF i = n THEN e ELSE s[i - 1]
  BY <1>1, InsertedAt
<1> DEFINE From(i) == IF i < n THEN i ELSE i - 1
<1>3. \A i \in 1 .. Len(after) : i # n => From(i) \in 1 .. Len(s) /\ after[i] = s[From(i)]
  BY <1>2
<1>4. \A i, j \in 1 .. Len(after) : i # n /\ j # n => (From(i) = From(j) <=> i = j)
  BY <1>2
<1>5. ASSUME NEW p \in 1 .. Len(s)
      PROVE  \E i \in 1 .. Len(after) : i # n /\ after[i] = s[p]
  <2> DEFINE i == IF p < n THEN p ELSE p + 1
  <2>1. i \in 1 .. Len(after) /\ i # n /\ From(i) = p
    BY <1>2
  <2> QED
    BY <1>3, <2>1
<1>6. n \in 1 .. Len(after) /\ after[n] = e
  BY <1>2
<1> HIDE DEF From
<1>7. \A i, j \in 1 .. Len(after) : i # n /\ j # n =>
        \E p, q \in 1 .. Len(s) :
          after[i] = s[p] /\ after[j] = s[q] /\ (p = q <=> i = j)
  BY <1>3, <1>4
<1>8. PutIn(after, s, n, e)
  BY <1>2, <1>5, <1>6, <1>7 DEF PutIn
<1> QED
  BY <1>1, <1>2, <1>8

LEMMA AppendPutsIn ==
  ASSUME NEW S, NEW s \in Seq(S), NEW e \in S
  PROVE  Append(s, e) \in Seq(S) /\ PutIn(Append(s, e), s, Len(s) + 1, e)
<1>1. PICK after : after = Append(s, e)
  OBVIOUS
<1>2. /\ after \in Seq(S) /\ Len(after) = Len(s) + 1
      /\ after[Len(s) + 1] = e /\ \A i \in 1 .. Len(s) : after[i] = s[i]
  BY <1>1
<1>3. \A i \in 1 .. Len(after) : i # Len(s) + 1 => i \in 1 .. Len(s) /\ after[i] = s[i]
  BY <1>2
<1>4. \A p \in 1 .. Len(s) : \E i \in 1 .. Len(after) : i # Len(s) + 1 /\ after[i] = s[p]
  BY <1>2
<1>5. PutIn(after, s, Len(s) + 1, e)
  BY <1>2, <1>3, <1>4 DEF PutIn
<1> QED
  BY <1>1, <1>2, <1>5

LEMMA RemoveAtTakesOut ==
  ASSUME NEW S, NEW s \in Seq(S), NEW n \in 1 .. Len(s)
  PROVE  RemoveAt(s, n) \in Seq(S) /\ TakenOut(RemoveAt(s, n), s, n)
<1>1. PICK after : after = RemoveAt(s, n)
  OBVIOUS
<1>2. /\ after \in Seq(S) /\ Len(after) = Len(s) - 1
      /\ \A i \in 1 .. Len(s) - 1 : after[i] = IF i < n THEN s[i] ELSE s[i + 1]
  BY <1>1, RemovedAt
<1> DEFINE From(i) == IF i < n THEN i ELSE i + 1
<1>3. \A i \in 1 .. Len(after) :
        From(i) \in 1 .. Len(s) /\ From(i) # n /\ after[i] = s[From(i)]
  BY <1>2
<1>4. \A i, j \in 1 .. Len(after) : From(i) = From(j) <=> i = j
  BY <1>2
<1>5. ASSUME NEW p \in 1 .. Len(s), p # n
      PROVE  \E i \in 1 .. Len(after) : after[i] = s[p]
  <2> DEFINE i == IF p < n THEN p ELSE p - 1
  <2>1. i \in 1 .. Len(after) /\ From(i) = p
    BY <1>2, <1>5
  <2> QED
    BY <1>3, <2>1
<1> HIDE DEF From
<1>6. /\ \A i \in 1 .. Len(after) : \E p \in 1 .. Len(s) : p # n /\ after[i] = s[p]
      /\ \A i, j \in 1 .. Len(after) :
           \E p, q \in 1 .. Len(s) :
             after[i] = s[p] /\ after[j] = s[q] /\ (p = q <=> i = j)
  BY <1>3, <1>4
<1>7. TakenOut(after, s, n)
  BY <1>2, <1>5, <1>6 DEF TakenOut
<1> QED
  BY <1>1, <1>2, <1>7

-----------------------------------------------------------------------------
(***************************************************************************)
(* Finite sets.                                                            *)
(***************************************************************************)

(***************************************************************************)
(* The image of a finite set is finite.                                    *)
(***************************************************************************)
LEMMA ImageFinite ==
  ASSUME NEW f, IsFiniteSet(DOMAIN f)
  PROVE  IsFiniteSet({f[x] : x \in DOMAIN f})
<1> DEFINE S == DOMAIN f
           T == {f[x] : x \in S}
           g == [x \in S |-> f[x]]
<1>1. g \in Surjection(S, T)
  BY DEF Surjection
<1> QED
  BY <1>1, FS_Surjection

LEMMA ToSetFinite ==
  ASSUME NEW S, NEW s \in Seq(S)
  PROVE  IsFiniteSet(ToSet(s))
<1>1. DOMAIN s = 1 .. Len(s) /\ Len(s) \in Nat
  OBVIOUS
<1>2. IsFiniteSet(DOMAIN s)
  BY <1>1, FS_Interval
<1> QED
  BY <1>2, ImageFinite DEF ToSet

(***************************************************************************)
(* A finite set laid out as a list: every element has a place, and every   *)
(* place an element.                                                       *)
(***************************************************************************)
LEMMA LaidOut ==
  ASSUME NEW S, IsFiniteSet(S)
  PROVE  /\ Len(SetToSeq(S)) \in Nat
         /\ DOMAIN SetToSeq(S) = 1 .. Len(SetToSeq(S))
         /\ \A i \in DOMAIN SetToSeq(S) : SetToSeq(S)[i] \in S
         /\ \A x \in S : \E i \in DOMAIN SetToSeq(S) : SetToSeq(S)[i] = x
<1> DEFINE n == Cardinality(S)
<1>1. n \in Nat /\ ExistsBijection(1 .. n, S)
  BY FS_CardinalityType
<1>2. \E f \in [1 .. n -> S] : IsInjective(f)
  <2>1. PICK f \in Injection(1 .. n, S) : TRUE
    BY <1>1 DEF ExistsBijection, Bijection
  <2> QED
    BY <2>1 DEF Injection
<1>3. SetToSeq(S) \in [1 .. n -> S] /\ IsInjective(SetToSeq(S))
  BY <1>2 DEF SetToSeq
<1>4. SetToSeq(S) \in Injection(1 .. n, S)
  BY <1>3 DEF Injection
<1>5. IsFiniteSet(1 .. n) /\ Cardinality(1 .. n) = n
  <2>1. IsFiniteSet(1 .. n) /\ Cardinality(1 .. n) = IF 1 > n THEN 0 ELSE n - 1 + 1
    BY <1>1, FS_Interval
  <2> QED
    BY <1>1, <2>1
<1>6. SetToSeq(S) \in Surjection(1 .. n, S)
  BY <1>4, <1>5, FS_Injection
<1> HIDE DEF n
<1>7. SetToSeq(S) \in Seq(S) /\ Len(SetToSeq(S)) = n
  BY <1>1, <1>3
<1> QED
  BY <1>1, <1>3, <1>6, <1>7 DEF Surjection

(***************************************************************************)
(* Lists of numbers in order. A finite set of numbers can be laid out as   *)
(* one.                                                                    *)
(***************************************************************************)
Increasing(s) == \A a, b \in DOMAIN s : a < b => s[a] < s[b]

LEMMA CanBeOrdered ==
  ASSUME NEW n \in Nat
  PROVE  \A S \in SUBSET (1 .. n) :
           \E s \in [1 .. Cardinality(S) -> S] : Increasing(s)
<1> DEFINE Orders(m) == \A S \in SUBSET (1 .. m) :
                          \E s \in [1 .. Cardinality(S) -> S] : Increasing(s)
           Good == {m \in Nat : Orders(m)}
<1>1. Orders(0)
  <2>1. \A S \in SUBSET (1 .. 0) : S = {} /\ Cardinality(S) = 0
    <3>1. Cardinality({}) = 0 /\ 1 .. 0 = {}
      BY FS_EmptySet
    <3> QED
      BY <3>1
  <2>2. <<>> \in [1 .. 0 -> {}] /\ Increasing(<<>>)
    BY DEF Increasing
  <2> QED
    BY <2>1, <2>2
<1>2. ASSUME NEW l \in Nat, Orders(l) PROVE Orders(l + 1)
  <2> DEFINE m == l + 1
  <2> SUFFICES ASSUME NEW S \in SUBSET (1 .. m)
               PROVE  \E s \in [1 .. Cardinality(S) -> S] : Increasing(s)
    OBVIOUS
  <2>1. CASE m \notin S
    <3>1. S \in SUBSET (1 .. l)
      BY <2>1
    <3> QED
      BY <1>2, <3>1
  <2>2. CASE m \in S
    <3> DEFINE R == S \ {m}
               c == Cardinality(S)
    <3>1. R \in SUBSET (1 .. l)
      OBVIOUS
    <3>2. IsFiniteSet(S)
      <4>1. IsFiniteSet(1 .. m)
        BY FS_Interval
      <4> QED
        BY <4>1, FS_Subset
    <3>3. Cardinality(R) = c - 1 /\ c \in Nat \ {0}
      <4>1. IsFiniteSet(R) /\ Cardinality(R) = c - 1
        BY <2>2, <3>2, FS_RemoveElement
      <4>2. Cardinality(R) \in Nat /\ c \in Nat
        BY <3>2, <4>1, FS_CardinalityType
      <4> QED
        BY <4>1, <4>2
    <3>4. PICK r \in [1 .. c - 1 -> R] : Increasing(r)
      <4> HIDE DEF R, c
      <4> QED
        BY <1>2, <3>1, <3>3
    <3> DEFINE s == [k \in 1 .. c |-> IF k = c THEN m ELSE r[k]]
    <3> HIDE DEF c
    <3>5. s \in [1 .. c -> S]
      BY <2>2, <3>3, <3>4
    <3>6. \A k \in 1 .. c - 1 : r[k] \in 1 .. l
      BY <3>1, <3>4
    <3>7. Increasing(s)
      BY <3>3, <3>4, <3>6 DEF Increasing
    <3> QED
      BY <3>5, <3>7 DEF c
  <2> QED
    BY <2>1, <2>2
<1> HIDE DEF Orders
<1>3. 0 \in Good /\ \A k \in Nat : k \in Good => k + 1 \in Good
  BY <1>1, <1>2
<1>4. \A k \in Nat : k \in Good
  <2> HIDE DEF Good
  <2> QED
    BY <1>3, Induction
<1>5. Orders(n)
  BY <1>4
<1> QED
  BY <1>5 DEF Orders

(***************************************************************************)
(* A list in order has no element twice, so one as long as its set of      *)
(* elements has them all.                                                  *)
(***************************************************************************)
LEMMA OrderedHasAll ==
  ASSUME NEW S \in SUBSET Nat, IsFiniteSet(S),
         NEW s \in [1 .. Cardinality(S) -> S], Increasing(s)
  PROVE  {s[k] : k \in DOMAIN s} = S
<1> DEFINE c == Cardinality(S)
<1>1. c \in Nat
  BY FS_CardinalityType
<1> HIDE DEF c
<1>2. \A a, b \in 1 .. c : s[a] = s[b] => a = b
  <2>1. \A a, b \in 1 .. c : s[a] \in Nat /\ (a < b => s[a] < s[b])
    BY DEF Increasing, c
  <2> QED
    BY <1>1, <2>1
<1>3. s \in Injection(1 .. c, S)
  <2>1. s \in [1 .. c -> S]
    BY DEF c
  <2> QED
    BY <1>2, <2>1 DEF Injection, IsInjective
<1>4. IsFiniteSet(1 .. c) /\ Cardinality(1 .. c) = c
  <2>1. IsFiniteSet(1 .. c) /\ Cardinality(1 .. c) = IF 1 > c THEN 0 ELSE c - 1 + 1
    BY <1>1, FS_Interval
  <2> QED
    BY <1>1, <2>1
<1>5. s \in Surjection(1 .. c, S)
  BY <1>3, <1>4, FS_Injection DEF c
<1> QED
  BY <1>5 DEF Surjection, c

=============================================================================
