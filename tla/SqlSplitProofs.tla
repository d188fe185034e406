--------------------------- MODULE SqlSplitProofs ---------------------------
(***************************************************************************)
(* What the scan of a SQL file returns, proved for every file: its         *)
(* statements are those of the reference definition, its lines those of    *)
(* the file, and its quotes the ones the readers see.                      *)
(*                                                                         *)
(* The invariant says of each of the scan's variables what it is in terms  *)
(* of the file and of the place to read next (Inv). A turn reads some      *)
(* places; that it keeps the invariant is shown in two steps: what the     *)
(* turn of each kind reads, keeps and ends (the lemmas named after the     *)
(* actions), and what that does to the variables (Adding, Ending).         *)
(*                                                                         *)
(* The readers go through a statement by themselves. What they note before *)
(* each place of it is shown by induction along the statement: it goes on  *)
(* in one of four ways (Ways), and each keeps the notes right (QuoteGoesOn *)
(* and NotesGoOn).                                                         *)
(***************************************************************************)
EXTENDS DdlText, ListLemmas

(***************************************************************************)
(* A file the splitter can be given.                                       *)
(***************************************************************************)
File ==
  /\ mysql \in BOOLEAN
  /\ n \in Nat
  /\ text \in Seq(PgTokens \cup MySQLTokens)
  /\ DelimiterLinesEnd

(***************************************************************************)
(* What opens at a place ends at it or after it, and within the file.      *)
(***************************************************************************)
LEMMA LastOfIn ==
  ASSUME File, NEW o \in 1 .. n
  PROVE  LastOf(o) \in o .. n
<1> DEFINE ends == {p \in o .. n :
                      \/ text[o] \in LineComments /\ (p = n \/ text[p + 1] = Newline)
                      \/ text[o] = "/*" /\ text[p] = "*/"
                      \/ text[o] \in Quotes \cup Tags /\ Closes(o, p)}
<1>1. LastOf(o) = IF ends = {} THEN n ELSE Min(ends)
  BY Zenon DEF LastOf
<1>2. n \in o .. n /\ ends \in SUBSET Nat
  BY DEF File
<1>3. ends # {} => Min(ends) \in ends
  <2> HIDE DEF ends
  <2> QED
    BY <1>2, MinExists
<1> QED
  BY <1>1, <1>2, <1>3

(***************************************************************************)
(* The equation of the recursive function that says which places are free. *)
(* That the function exists is shown by induction over the file's length.  *)
(***************************************************************************)
LEMMA FreeIs ==
  ASSUME File
  PROVE  /\ Free \subseteq 1 .. n
         /\ \A p \in 1 .. n :
              p \in Free <=> \A o \in Free : o < p /\ Opens(o) => LastOf(o) < p
<1> DEFINE Eqn(f, m) == f = [p \in 1 .. m |->
                               \A o \in 1 .. p - 1 : f[o] /\ Opens(o) => p > LastOf(o)]
           Good == {m \in Nat : \E f : Eqn(f, m)}
<1>1. \E f : Eqn(f, 0)
  <2>1. 1 .. 0 = {}
    OBVIOUS
  <2> DEFINE g == [p \in 1 .. 0 |-> TRUE]
             h == [p \in 1 .. 0 |->
                     \A o \in 1 .. p - 1 : g[o] /\ Opens(o) => p > LastOf(o)]
  <2>2. g = h
    BY <2>1
  <2> QED
    BY <2>2, Zenon
<1>2. ASSUME NEW l \in Nat, \E f : Eqn(f, l) PROVE \E f : Eqn(f, l + 1)
  <2> DEFINE m == l + 1
  <2>1. PICK f : Eqn(f, l)
    BY <1>2
  <2> DEFINE g == [p \in 1 .. m |->
                     \A o \in 1 .. p - 1 : f[o] /\ Opens(o) => p > LastOf(o)]
             h == [p \in 1 .. m |->
                     \A o \in 1 .. p - 1 : g[o] /\ Opens(o) => p > LastOf(o)]
  <2>2. \A p \in 1 .. l : g[p] = f[p]
    <3>1. \A p \in 1 .. l : p \in 1 .. m
      OBVIOUS
    <3> QED
      BY <2>1, <3>1, Zenon
  <2>3. \A p \in 1 .. m : \A o \in 1 .. p - 1 : g[o] = f[o]
    <3> HIDE DEF g
    <3>1. \A p \in 1 .. m : \A o \in 1 .. p - 1 : o \in 1 .. l
      OBVIOUS
    <3> QED
      BY <2>2, <3>1, Zenon
  <2>4. \A p \in 1 .. m :
          (\A o \in 1 .. p - 1 : f[o] /\ Opens(o) => p > LastOf(o))
          = (\A o \in 1 .. p - 1 : g[o] /\ Opens(o) => p > LastOf(o))
    <3> HIDE DEF g
    <3> QED
      BY <2>3, Zenon
  <2>5. g = h
    BY <2>4, Zenon
  <2> QED
    BY <2>5, Zenon
<1> HIDE DEF Eqn
<1>3. \A k \in Nat : k \in Good
  <2>1. 0 \in Good /\ \A k \in Nat : k \in Good => k + 1 \in Good
    BY <1>1, <1>2
  <2> HIDE DEF Good
  <2> QED
    BY <2>1, Induction
<1>4. \E f : Eqn(f, n)
  BY <1>3 DEF File
<1> DEFINE G == CHOOSE f : Eqn(f, n)
<1>5. Eqn(G, n)
  BY <1>4, Zenon
<1>6. Free = {p \in 1 .. n : G[p]}
  BY Zenon DEF Free, Eqn
<1> HIDE DEF G
<1>7. \A p \in 1 .. n : G[p] = (\A o \in 1 .. p - 1 : G[o] /\ Opens(o) => p > LastOf(o))
  BY <1>5, Zenon DEF Eqn
<1>8. \A p \in 1 .. n : p \in Free <=> \A o \in 1 .. p - 1 : o \in Free /\ Opens(o) => p > LastOf(o)
  <2>1. \A p \in 1 .. n : \A o \in 1 .. p - 1 : o \in 1 .. n
    BY DEF File
  <2>2. \A p \in 1 .. n : p \in Free <=> G[p]
    BY <1>6, Zenon
  <2> QED
    BY <1>7, <2>1, <2>2, Zenon
<1>9. Free \subseteq 1 .. n
  BY <1>6, Zenon
<1>10. \A o \in 1 .. n : LastOf(o) \in o .. n
  BY LastOfIn
<1> QED
  BY <1>8, <1>9, <1>10 DEF File

(***************************************************************************)
(* The equation of the recursive function that says which places of a      *)
(* quoted text are taken by the one before them.                           *)
(***************************************************************************)
LEMMA TakenIs ==
  ASSUME File, NEW o \in 1 .. n
  PROVE  \A p \in o .. n + 1 :
           Taken(o)[p] =
             (/\ p > o + 1 /\ p <= n
              /\ ~Taken(o)[p - 1]
              /\ \/ mysql /\ text[o] = "'" /\ text[p - 1] = "backslash"
                 \/ text[p - 1] = text[o] /\ text[p] = text[o])
<1> DEFINE Eqn(f, m) == f = [p \in o .. m |->
                               /\ p > o + 1 /\ p <= n
                               /\ ~f[p - 1]
                               /\ \/ mysql /\ text[o] = "'" /\ text[p - 1] = "backslash"
                                  \/ text[p - 1] = text[o] /\ text[p] = text[o]]
           Good == {k \in Nat : \E f : Eqn(f, o + k)}
<1>1. \E f : Eqn(f, o + 0)
  <2> DEFINE g == [p \in o .. o |-> FALSE]
  <2>1. \A p \in o .. o : ~(p > o + 1)
    OBVIOUS
  <2>2. Eqn(g, o)
    BY <2>1, Zenon
  <2>3. o + 0 = o
    OBVIOUS
  <2> QED
    BY <2>2, <2>3, Zenon
<1>2. ASSUME NEW k \in Nat, \E f : Eqn(f, o + k) PROVE \E f : Eqn(f, o + (k + 1))
  <2> DEFINE m == o + (k + 1)
  <2>1. PICK f : Eqn(f, o + k)
    BY <1>2
  <2> DEFINE g == [p \in o .. m |->
                               /\ p > o + 1 /\ p <= n
                               /\ ~f[p - 1]
                               /\ \/ mysql /\ text[o] = "'" /\ text[p - 1] = "backslash"
                                  \/ text[p - 1] = text[o] /\ text[p] = text[o]]
  <2>2. \A p \in o .. o + k : g[p] = f[p]
    <3>1. \A p \in o .. o + k : p \in o .. m
      OBVIOUS
    <3> QED
      BY <2>1, <3>1, Zenon
  <2>3. \A p \in o .. m : p > o + 1 => g[p - 1] = f[p - 1]
    <3> HIDE DEF g
    <3>1. \A p \in o .. m : p > o + 1 => p - 1 \in o .. o + k
      OBVIOUS
    <3> QED
      BY <2>2, <3>1, Zenon
  <2>4. Eqn(g, m)
    BY <2>3, Zenon
  <2> QED
    BY <2>4, Zenon
<1> HIDE DEF Eqn
<1>3. \A k \in Nat : k \in Good
  <2>1. 0 \in Good /\ \A k \in Nat : k \in Good => k + 1 \in Good
    BY <1>1, <1>2
  <2> HIDE DEF Good
  <2> QED
    BY <2>1, Induction
<1>4. \E f : Eqn(f, n + 1)
  <2>1. n + 1 - o \in Nat /\ o + (n + 1 - o) = n + 1
    BY DEF File
  <2>2. \E f : Eqn(f, o + (n + 1 - o))
    BY <1>3, <2>1
  <2> QED
    BY <2>1, <2>2, Zenon
<1>5. Eqn(Taken(o), n + 1)
  BY <1>4, Zenon DEF Taken, Eqn
<1> QED
  BY <1>5, Zenon DEF Eqn

(***************************************************************************)
(* What the scan of quoted text finds by walking is where the reference    *)
(* says the text closes.                                                   *)
(***************************************************************************)
Step(o, f, j) ==
  IF j > n THEN n
  ELSE IF mysql /\ text[o] # "back quote" /\ text[j] = "backslash" /\ j < n THEN f[j + 2]
  ELSE IF text[j] # text[o] THEN f[j + 1]
  ELSE IF j < n /\ text[j + 1] = text[o] THEN f[j + 2]
  ELSE j

(***************************************************************************)
(* The equation of the scan's recursive function, which walks from the     *)
(* file's end.                                                             *)
(***************************************************************************)
LEMMA QuoteEndIs ==
  ASSUME File, NEW o \in 1 .. n
  PROVE  \E f : f = [j \in o + 1 .. n + 2 |-> Step(o, f, j)] /\ QuoteEnd(o) = f[o + 1]
<1> DEFINE Eqn(f, m) == f = [j \in m .. n + 2 |-> Step(o, f, j)]
           Good == {k \in Nat : \E f : Eqn(f, n + 2 - k)}
<1>1. n \in Nat
  BY DEF File
<1>2. \E f : Eqn(f, n + 2 - 0)
  <2> DEFINE g == [j \in n + 2 .. n + 2 |-> n]
  <2>1. \A j \in n + 2 .. n + 2 : Step(o, g, j) = n
    <3>1. \A j \in n + 2 .. n + 2 : j > n
      BY <1>1
    <3> QED
      BY <3>1, Zenon DEF Step
  <2>2. n + 2 - 0 = n + 2
    BY <1>1
  <2> HIDE DEF Step
  <2>3. Eqn(g, n + 2)
    BY <2>1, Zenon
  <2> QED
    BY <2>2, <2>3, Zenon
<1>3. ASSUME NEW k \in Nat, \E f : Eqn(f, n + 2 - k)
      PROVE  \E f : Eqn(f, n + 2 - (k + 1))
  <2> DEFINE m == n + 2 - (k + 1)
  <2>1. PICK f : Eqn(f, n + 2 - k)
    BY <1>3
  <2> DEFINE g == [j \in m .. n + 2 |-> Step(o, f, j)]
  <2>2. \A j \in n + 2 - k .. n + 2 : g[j] = f[j]
    <3>1. \A j \in n + 2 - k .. n + 2 : j \in m .. n + 2
      BY <1>1
    <3> QED
      BY <2>1, <3>1, Zenon
  <2>3. \A j \in m .. n + 2 : Step(o, g, j) = Step(o, f, j)
    <3> HIDE DEF g
    <3>1. \A j \in m .. n + 2 : j <= n =>
            j + 1 \in n + 2 - k .. n + 2 /\ j + 2 \in n + 2 - k .. n + 2
      BY <1>1
    <3>2. \A j \in m .. n + 2 : j <= n => g[j + 1] = f[j + 1] /\ g[j + 2] = f[j + 2]
      BY <2>2, <3>1, Zenon
    <3>3. \A j \in m .. n + 2 : j <= n \/ j > n
      BY <1>1
    <3> QED
      BY <3>2, <3>3, Zenon DEF Step
  <2>4. Eqn(g, m)
    BY <2>3, Zenon
  <2> QED
    BY <2>4, Zenon
<1> HIDE DEF Eqn
<1>4. \A k \in Nat : k \in Good
  <2>1. 0 \in Good /\ \A k \in Nat : k \in Good => k + 1 \in Good
    BY <1>2, <1>3
  <2> HIDE DEF Good
  <2> QED
    BY <2>1, Induction
<1>5. \E f : Eqn(f, o + 1)
  <2>1. n + 1 - o \in Nat /\ n + 2 - (n + 1 - o) = o + 1
    BY <1>1
  <2>2. \E f : Eqn(f, n + 2 - (n + 1 - o))
    BY <1>4, <2>1
  <2> QED
    BY <2>1, <2>2, Zenon
<1> DEFINE F == CHOOSE f : Eqn(f, o + 1)
<1>6. Eqn(F, o + 1)
  BY <1>5, Zenon
<1>7. QuoteEnd(o) = F[o + 1]
  BY Zenon DEF QuoteEnd, Eqn, Step
<1> QED
  BY <1>6, <1>7, Zenon DEF Eqn

(***************************************************************************)
(* No word opens two things.                                               *)
(***************************************************************************)
LEMMA Marked ==
  ASSUME File, NEW o \in 1 .. n
  PROVE  /\ text[o] \in LineComments => text[o] \notin {"/*"} \cup Quotes \cup Tags
         /\ text[o] = "/*" => text[o] \notin Quotes \cup Tags
         /\ text[o] \in Quotes => text[o] \notin Tags
BY DEF LineComments, Quotes, Tags

(***************************************************************************)
(* Quoted text ends, for the scan (split.go:109-135), where it closes by   *)
(* the reference definition: at the first quote that no backslash escapes  *)
(* and that is neither doubled nor the second of two.                      *)
(***************************************************************************)
THEOREM QuoteEndsWhereItCloses ==
  ASSUME File, NEW o \in 1 .. n, text[o] \in Quotes
  PROVE  QuoteEnd(o) = LastOf(o)
<1>1. n \in Nat /\ mysql \in BOOLEAN
  BY DEF File
<1>2. PICK f : f = [j \in o + 1 .. n + 2 |-> Step(o, f, j)] /\ QuoteEnd(o) = f[o + 1]
  BY QuoteEndIs
<1> DEFINE T == Taken(o)
<1>3. \A p \in o .. n + 1 :
        T[p] = (/\ p > o + 1 /\ p <= n
                /\ ~T[p - 1]
                /\ \/ mysql /\ text[o] = "'" /\ text[p - 1] = "backslash"
                   \/ text[p - 1] = text[o] /\ text[p] = text[o])
  BY TakenIs
<1> HIDE DEF T
<1> DEFINE Ends(j) == {p \in j .. n : Closes(o, p)}
           First(j) == IF Ends(j) = {} THEN n ELSE Min(Ends(j))
           Right(j) == (j <= n => ~T[j]) => f[j] = First(j)
           Good == {k \in Nat : \A j \in o + 1 .. n + 2 : j >= n + 2 - k => Right(j)}
<1>4. \A j \in o + 1 .. n + 2 : f[j] = Step(o, f, j)
  BY <1>2, Zenon
<1>5. \A p \in o + 1 .. n : Closes(o, p) <=>
        text[p] = text[o] /\ ~T[p] /\ (p < n => text[p + 1] # text[o])
  BY <1>1 DEF Closes, T
<1>6. ASSUME NEW j \in o + 1 .. n + 2, j > n PROVE Right(j)
  <2>1. j .. n = {} /\ Step(o, f, j) = n
    BY <1>1, <1>6 DEF Step
  <2> QED
    BY <1>4, <2>1
<1>7. ASSUME NEW j \in o + 1 .. n, \A m \in j + 1 .. n + 2 : Right(m)
      PROVE  Right(j)
  <2> SUFFICES ASSUME ~T[j] PROVE f[j] = First(j)
    BY <1>1
  <2>1. ASSUME ~Closes(o, j) PROVE First(j + 1) = First(j)
    <3>1. \A p : p \in j .. n <=> p = j \/ p \in j + 1 .. n
      BY <1>1
    <3>2. Ends(j) = Ends(j + 1)
      BY <2>1, <3>1, Zenon
    <3> QED
      BY <3>2, Zenon
  <2>2. ASSUME j < n, ~Closes(o, j), ~Closes(o, j + 1) PROVE First(j + 2) = First(j)
    <3>1. \A p : p \in j .. n <=> p = j \/ p = j + 1 \/ p \in j + 2 .. n
      BY <1>1, <2>2
    <3>2. Ends(j) = Ends(j + 2)
      BY <2>2, <3>1, Zenon
    <3> QED
      BY <3>2, Zenon
  <2>3. f[j] = Step(o, f, j) /\ j <= n /\ ~(j > n) /\ j + 1 \in j + 1 .. n + 2 /\ j + 2 \in j + 1 .. n + 2
    BY <1>1, <1>4
  <2>4. /\ j + 1 <= n => T[j + 1] = (\/ mysql /\ text[o] = "'" /\ text[j] = "backslash"
                                     \/ text[j] = text[o] /\ text[j + 1] = text[o])
        /\ j + 2 <= n /\ T[j + 1] => ~T[j + 2]
    <3>1. j + 1 \in o .. n + 1 /\ j + 1 > o + 1 /\ (j + 1) - 1 = j
      BY <1>1
    <3>2. j + 2 <= n => j + 2 \in o .. n + 1 /\ (j + 2) - 1 = j + 1
      BY <1>1
    <3>3. ASSUME j + 1 <= n
          PROVE  T[j + 1] = (\/ mysql /\ text[o] = "'" /\ text[j] = "backslash"
                             \/ text[j] = text[o] /\ text[j + 1] = text[o])
      BY <1>3, <3>1, <3>3, Zenon
    <3> QED
      BY <1>3, <3>2, <3>3, Zenon
  <2>5. CASE mysql /\ text[o] # "back quote" /\ text[j] = "backslash" /\ j < n
    <3>1. text[o] = "'" /\ text[j] # text[o]
      BY <2>5 DEF Quotes
    <3>2. T[j + 1] /\ j + 1 \in o + 1 .. n
      <4>1. j < n => j + 1 <= n /\ j + 1 \in o + 1 .. n
        BY <1>1
      <4> QED
        BY <2>4, <2>5, <3>1, <4>1, Zenon
    <3>3. ~Closes(o, j) /\ ~Closes(o, j + 1)
      BY <1>5, <3>1, <3>2
    <3>4. f[j] = f[j + 2]
      BY <2>3, <2>5, Zenon DEF Step
    <3>5. f[j + 2] = First(j + 2)
      BY <1>7, <2>3, <2>4, <3>2, Zenon
    <3> QED
      BY <2>2, <2>5, <3>3, <3>4, <3>5, Zenon
  <2>6. CASE ~(mysql /\ text[o] # "back quote" /\ text[j] = "backslash" /\ j < n)
             /\ text[j] # text[o]
    <3>1. j + 1 <= n => ~T[j + 1]
      <4>1. j + 1 <= n => j < n
        BY <1>1
      <4>2. text[o] = "'" => text[o] # "back quote"
        OBVIOUS
      <4> QED
        BY <2>4, <2>6, <4>1, <4>2, Zenon
    <3>2. ~Closes(o, j)
      BY <1>5, <2>6
    <3>3. f[j] = f[j + 1]
      BY <2>3, <2>6, Zenon DEF Step
    <3>4. f[j + 1] = First(j + 1)
      BY <1>7, <2>3, <3>1, Zenon
    <3> QED
      BY <2>1, <3>2, <3>3, <3>4, Zenon
  <2>7. CASE ~(mysql /\ text[o] # "back quote" /\ text[j] = "backslash" /\ j < n)
             /\ text[j] = text[o] /\ j < n /\ text[j + 1] = text[o]
    <3>1. j < n => j + 1 <= n /\ j + 1 \in o + 1 .. n
      BY <1>1
    <3>2. T[j + 1] /\ j + 1 \in o + 1 .. n
      BY <2>4, <2>7, <3>1, Zenon
    <3>3. ~Closes(o, j) /\ ~Closes(o, j + 1)
      BY <1>5, <2>7, <3>2
    <3>4. f[j] = f[j + 2]
      BY <2>3, <2>7, Zenon DEF Step
    <3>5. f[j + 2] = First(j + 2)
      BY <1>7, <2>3, <2>4, <3>2, Zenon
    <3> QED
      BY <2>2, <2>7, <3>3, <3>4, <3>5, Zenon
  <2>8. CASE ~(mysql /\ text[o] # "back quote" /\ text[j] = "backslash" /\ j < n)
             /\ text[j] = text[o] /\ (j < n => text[j + 1] # text[o])
    <3>1. Closes(o, j)
      BY <1>5, <2>8
    <3>2. f[j] = j
      BY <2>3, <2>8, Zenon DEF Step
    <3>3. Ends(j) \in SUBSET Nat /\ j \in Ends(j) /\ \A x \in Ends(j) : j <= x
      BY <1>1, <3>1
    <3>4. Min(Ends(j)) = j
      <4> HIDE DEF Ends
      <4>1. Min(Ends(j)) \in Ends(j) /\ \A x \in Ends(j) : Min(Ends(j)) <= x
        BY <3>3, MinExists
      <4> QED
        BY <3>3, <4>1
    <3> QED
      BY <3>2, <3>3, <3>4, Zenon
  <2> QED
    BY <2>5, <2>6, <2>7, <2>8, Zenon
<1>8. \A k \in Nat : k \in Good
  <2> HIDE DEF Right
  <2>1. 0 \in Good
    <3>1. \A j \in o + 1 .. n + 2 : j >= n + 2 - 0 => j > n
      BY <1>1
    <3> QED
      BY <1>6, <3>1
  <2>2. ASSUME NEW k \in Nat, k \in Good PROVE k + 1 \in Good
    <3> SUFFICES ASSUME NEW j \in o + 1 .. n + 2, j >= n + 2 - (k + 1) PROVE Right(j)
      OBVIOUS
    <3>1. \A m \in j + 1 .. n + 2 : m \in o + 1 .. n + 2 /\ m >= n + 2 - k
      BY <1>1
    <3>2. \A m \in j + 1 .. n + 2 : Right(m)
      BY <2>2, <3>1
    <3>3. j > n \/ j \in o + 1 .. n
      BY <1>1
    <3> QED
      BY <1>6, <1>7, <3>2, <3>3
  <2> HIDE DEF Good
  <2> QED
    BY <2>1, <2>2, Induction
<1>9. Right(o + 1)
  <2> HIDE DEF Right
  <2>1. n + 2 \in Nat /\ o + 1 \in o + 1 .. n + 2 /\ o + 1 >= n + 2 - (n + 2)
    BY <1>1
  <2>2. n + 2 \in Good
    BY <1>8, <2>1
  <2> QED
    BY <2>1, <2>2
<1>10. o + 1 <= n => ~T[o + 1]
  <2>1. o + 1 \in o .. n + 1 /\ ~(o + 1 > o + 1)
    BY <1>1
  <2> QED
    BY <1>3, <2>1, Zenon
<1>11. LastOf(o) = First(o + 1)
  <2>1. text[o] \notin LineComments /\ text[o] # "/*" /\ text[o] \in Quotes \cup Tags
    BY Marked
  <2>2. \A p : p \in o + 1 .. n /\ Closes(o, p) <=> p \in o .. n /\ Closes(o, p)
    BY <1>1 DEF Closes
  <2>3. {p \in o .. n : \/ text[o] \in LineComments /\ (p = n \/ text[p + 1] = Newline)
                        \/ text[o] = "/*" /\ text[p] = "*/"
                        \/ text[o] \in Quotes \cup Tags /\ Closes(o, p)}
        = Ends(o + 1)
    BY <2>1, <2>2, Zenon
  <2> QED
    BY <2>3, Zenon DEF LastOf
<1> QED
  BY <1>2, <1>9, <1>10, <1>11, Zenon

-----------------------------------------------------------------------------

(***************************************************************************)
(* The places of the DELIMITER lines, the places statements end at, and    *)
(* those that are kept.                                                    *)
(***************************************************************************)
Sets == Settings(Free)
Cut  == Cuts(Free)
Keep == Kept(Free, Cut)

(***************************************************************************)
(* All of these depend on the file alone.                                  *)
(***************************************************************************)
LEMMA SameFile ==
  ASSUME UNCHANGED <<mysql, text>>
  PROVE  /\ n' = n
         /\ File' = File
         /\ Tags' = Tags
         /\ Free' = Free
         /\ Sets' = Sets
         /\ Cut' = Cut
         /\ Keep' = Keep
         /\ \A o : Opens(o)' = Opens(o) /\ LastOf(o)' = LastOf(o)
<1>1. text' = text /\ mysql' = mysql
  OBVIOUS
<1>2. n' = n
  BY <1>1 DEF n
<1>3. File' = File
  BY <1>1 DEF File, DelimiterLinesEnd, n
<1>4. Free' = Free
  BY <1>1 DEF Free, Opens, LastOf, Closes, Taken, n, Tags, LineComments
<1>5. Sets' = Sets
  BY <1>1, <1>4 DEF Sets, Settings
<1>6. Cut' = Cut
  BY <1>1, <1>4 DEF Cut, Cuts, Settings, DelimiterAt
<1>7. Keep' = Keep
  BY <1>1, <1>2, <1>4, <1>6 DEF Keep, Kept, Commented, LastOf, Closes, Taken, n, Tags, LineComments
<1>8. Tags' = Tags
  BY <1>1 DEF Tags
<1>9. ASSUME NEW o PROVE Opens(o)' = Opens(o) /\ LastOf(o)' = LastOf(o)
  BY <1>1, <1>2 DEF Opens, LastOf, Closes, Taken, n, Tags, LineComments
<1> QED
  BY <1>2, <1>3, <1>4, <1>5, <1>6, <1>7, <1>8, <1>9, Zenon

(***************************************************************************)
(* Whether only blanks stand between the line's begin and p.               *)
(***************************************************************************)
LineBegins(p) ==
  \A m \in 1 .. p - 1 :
    text[m] # Blank => \E e \in Free : text[e] = Newline /\ m <= e /\ e < p

LEMMA SetsAre ==
  /\ Sets \subseteq Free
  /\ \A p \in Free : p \in Sets <=> mysql /\ text[p] \in DelimiterLines /\ LineBegins(p)
BY DEF Sets, Settings, LineBegins

(***************************************************************************)
(* The delimiter stays the same until a DELIMITER line sets another.       *)
(***************************************************************************)
LEMMA SameDelimiter ==
  ASSUME File, NEW p \in Nat, NEW q \in Nat, p <= q, \A d \in Sets : ~(p <= d /\ d < q)
  PROVE  DelimiterAt(Sets, q) = DelimiterAt(Sets, p)
<1>1. \A d \in Sets : d \in Nat
  BY FreeIs, SetsAre DEF File
<1>2. {d \in Sets : d < q} = {d \in Sets : d < p}
  BY <1>1
<1> QED
  BY <1>2, Zenon DEF DelimiterAt

LEMMA NewDelimiter ==
  ASSUME File, NEW d \in Sets, NEW q \in Nat, d < q, \A x \in Sets : x < q => x <= d
  PROVE  DelimiterAt(Sets, q) = Named(text[d])
<1> DEFINE before == {x \in Sets : x < q}
<1>1. n \in Nat /\ before \in SUBSET (1 .. n) /\ d \in before
  BY FreeIs, SetsAre DEF File
<1>2. Max(before) \in before /\ \A x \in before : x <= Max(before)
  <2> HIDE DEF before
  <2> QED
    BY <1>1, MaxExists
<1>3. Max(before) = d
  BY <1>1, <1>2
<1> QED
  BY <1>1, <1>3, Zenon DEF DelimiterAt

LEMMA DelimiterIs ==
  ASSUME NEW p
  PROVE  DelimiterAt(Sets, p) \in {";", "//"}
BY DEF DelimiterAt, Named

(***************************************************************************)
(* Statements end at the DELIMITER lines and the delimiters.               *)
(***************************************************************************)
LEMMA CutIs ==
  ASSUME File
  PROVE  /\ Cut \subseteq Free
         /\ \A p \in Free : p \in Cut <=> p \in Sets \/ text[p] = DelimiterAt(Sets, p)
<1>1. \A p \in Cut : p \in Sets \/ (p \in Free /\ text[p] = DelimiterAt(Sets, p))
  BY Zenon DEF Cut, Cuts, Sets
<1>2. \A p \in Free : p \in Sets \/ text[p] = DelimiterAt(Sets, p) => p \in Cut
  BY Zenon DEF Cut, Cuts, Sets
<1> QED
  BY <1>1, <1>2, SetsAre

(***************************************************************************)
(* No blank ends a statement, and nothing that opens a comment or a quote. *)
(***************************************************************************)
LEMMA CutsAreMarks ==
  ASSUME File, NEW p \in Cut
  PROVE  text[p] \notin {Blank, Newline} /\ ~Opens(p)
<1>1. text[p] \in DelimiterLines \cup {";", "//"}
  BY CutIs, SetsAre, DelimiterIs, Zenon
<1> QED
  BY <1>1 DEF DelimiterLines, Blank, Newline, Opens, LineComments, Quotes, Tags

(***************************************************************************)
(* Kept is what no comment has in it, and the line ends of comments.       *)
(***************************************************************************)
LEMMA KeepIs ==
  ASSUME NEW p \in 1 .. n
  PROVE  p \in Keep <=>
           /\ p \notin Cut
           /\ \A o \in Free : text[o] \in LineComments \cup {"/*"} /\ p \in o .. LastOf(o)
                => text[p] = Newline
BY DEF Keep, Kept, Commented

LEMMA KeepIn == Keep \subseteq 1 .. n
BY DEF Keep, Kept

(***************************************************************************)
(* Where what opens at o ends.                                             *)
(***************************************************************************)
LEMMA NextAtIs ==
  ASSUME File, NEW from \in Nat, from <= n + 1, NEW tok
  PROVE  /\ NextAt(from, tok) \in from .. n + 1
         /\ \A p \in from .. n : text[p] = tok => NextAt(from, tok) <= p
         /\ NextAt(from, tok) <= n => text[NextAt(from, tok)] = tok
<1> DEFINE places == {p \in from .. n : text[p] = tok}
<1>1. NextAt(from, tok) = IF places = {} THEN n + 1 ELSE Min(places)
  BY Zenon DEF NextAt
<1>2. places \in SUBSET Nat /\ n \in Nat
  BY DEF File
<1>3. places # {} => Min(places) \in places /\ \A x \in places : Min(places) <= x
  <2> HIDE DEF places
  <2> QED
    BY <1>2, MinExists
<1> QED
  BY <1>1, <1>2, <1>3

LEMMA LeastIs ==
  ASSUME NEW S \in SUBSET Nat, NEW m \in S, \A x \in S : m <= x
  PROVE  Min(S) = m
<1>1. Min(S) \in S /\ \A x \in S : Min(S) <= x
  BY MinExists
<1>2. m \in Nat /\ Min(S) \in Nat /\ m <= Min(S) /\ Min(S) <= m
  BY <1>1
<1> QED
  BY <1>2

LEMMA LineCommentEnds ==
  ASSUME File, NEW o \in 1 .. n, text[o] \in LineComments
  PROVE  NextAt(o, Newline) = LastOf(o) + 1 /\ \A p \in o .. LastOf(o) : text[p] # Newline
<1> DEFINE ends == {p \in o .. n : p = n \/ text[p + 1] = Newline}
           next == NextAt(o, Newline)
<1>1. n \in Nat
  BY DEF File
<1>2. /\ next \in o .. n + 1
      /\ \A p \in o .. n : text[p] = Newline => next <= p
      /\ next <= n => text[next] = Newline
  BY <1>1, NextAtIs
<1>3. text[o] # Newline
  BY DEF LineComments, Newline
<1>4. LastOf(o) = Min(ends)
  <2>1. text[o] \notin {"/*"} /\ text[o] \notin Quotes \cup Tags
    BY Marked
  <2>2. n \in ends
    BY <1>1
  <2> QED
    BY <2>1, <2>2, Zenon DEF LastOf
<1> HIDE DEF next
<1>5. next - 1 \in ends /\ \A x \in ends : next - 1 <= x
  BY <1>1, <1>2, <1>3
<1>6. ends \in SUBSET Nat
  BY <1>1
<1>7. Min(ends) = next - 1
  <2> HIDE DEF ends
  <2> QED
    BY <1>5, <1>6, LeastIs
<1>8. LastOf(o) = next - 1
  BY <1>4, <1>7
<1> QED
  BY <1>1, <1>2, <1>8 DEF next

LEMMA BlockCommentEnds ==
  ASSUME File, NEW o \in 1 .. n, text[o] = "/*"
  PROVE  Min({NextAt(o + 1, "*/"), n}) = LastOf(o)
<1> DEFINE ends == {p \in o .. n : text[p] = "*/"}
           next == NextAt(o + 1, "*/")
           least == IF next <= n THEN next ELSE n
<1>1. n \in Nat
  BY DEF File
<1>2. /\ next \in o + 1 .. n + 1
      /\ \A p \in o + 1 .. n : text[p] = "*/" => next <= p
      /\ next <= n => text[next] = "*/"
  <2>1. o + 1 \in Nat /\ o + 1 <= n + 1
    BY <1>1
  <2> QED
    BY <2>1, NextAtIs
<1> HIDE DEF next
<1>3. Min({next, n}) = least
  <2>1. least \in {next, n} /\ {next, n} \in SUBSET Nat /\ \A x \in {next, n} : least <= x
    BY <1>1, <1>2
  <2> HIDE DEF least
  <2> QED
    BY <2>1, LeastIs
<1>4. LastOf(o) = IF ends = {} THEN n ELSE Min(ends)
  <2>1. text[o] \notin LineComments /\ text[o] \notin Quotes \cup Tags
    BY Marked
  <2> QED
    BY <2>1, Zenon DEF LastOf
<1>5. CASE next <= n
  <2>1. ends \in SUBSET Nat /\ next \in ends /\ \A x \in ends : next <= x
    BY <1>1, <1>2, <1>5
  <2>2. Min(ends) = next
    <3> HIDE DEF ends
    <3> QED
      BY <2>1, LeastIs
  <2> QED
    BY <1>3, <1>4, <1>5, <2>1, <2>2 DEF next
<1>6. CASE ~(next <= n)
  <2>1. ends = {}
    BY <1>1, <1>2, <1>6
  <2> QED
    BY <1>3, <1>4, <1>6, <2>1, Zenon DEF next
<1> QED
  BY <1>5, <1>6

LEMMA DollarQuoteEnds ==
  ASSUME File, NEW o \in 1 .. n, text[o] \in Tags,
         NEW p \in o + 1 .. n, \A m \in o + 1 .. p - 1 : text[m] # text[o]
  PROVE  /\ p <= LastOf(o)
         /\ text[p] = text[o] => LastOf(o) = p
<1> DEFINE ends == {x \in o .. n : x > o /\ text[x] = text[o]}
<1>1. n \in Nat
  BY DEF File
<1>2. LastOf(o) = IF ends = {} THEN n ELSE Min(ends)
  <2>1. text[o] \notin LineComments /\ text[o] # "/*" /\ text[o] \notin Quotes
    BY Marked
  <2> QED
    BY <2>1, Zenon DEF LastOf, Closes
<1>3. ends \in SUBSET Nat /\ \A x \in ends : p <= x
  BY <1>1
<1>4. ends # {} => Min(ends) \in ends
  <2> HIDE DEF ends
  <2> QED
    BY <1>3, MinExists
<1>5. text[p] = text[o] => p \in ends
  BY <1>1
<1>6. p \in ends => Min(ends) = p
  <2> HIDE DEF ends
  <2> QED
    BY <1>3, LeastIs
<1> HIDE DEF ends
<1>7. p <= LastOf(o)
  <2>1. CASE ends = {}
    BY <1>1, <1>2, <2>1
  <2>2. CASE ends # {}
    BY <1>2, <1>3, <1>4, <2>2
  <2> QED
    BY <2>1, <2>2
<1>8. text[p] = text[o] => LastOf(o) = p
  BY <1>2, <1>5, <1>6
<1> QED
  BY <1>7, <1>8

-----------------------------------------------------------------------------
(***************************************************************************)
(* Where the scan is.                                                      *)
(***************************************************************************)

(* Outside any dollar quote. *)
Unquoted == dollarT = ""

DelimTyped == delim \in {";", "//"}

ScanTypes ==
  /\ i \in 1 .. n + 1
  /\ Unquoted \/ dollarT \in Tags
  /\ DelimTyped
  /\ bol \in BOOLEAN
  /\ done \in BOOLEAN

(***************************************************************************)
(* Nothing is left to read after the return.                               *)
(***************************************************************************)
Ended == done => i = n + 1

(***************************************************************************)
(* Outside a dollar quote all that opened before has closed.               *)
(***************************************************************************)
Outside == Unquoted => \A o \in Free : o < i /\ Opens(o) => LastOf(o) < i

(***************************************************************************)
(* Inside one the tag that opened it has not come again.                   *)
(***************************************************************************)
Inside ==
  ~Unquoted =>
    \E d \in Free : d < i /\ text[d] = dollarT /\ \A p \in d + 1 .. i - 1 : text[p] # dollarT

(***************************************************************************)
(* The flag for the begin of a line and the delimiter are the file's.      *)
(***************************************************************************)
BolIs == mysql => (bol <=> LineBegins(i))

DelimIs == delim = DelimiterAt(Sets, i)

Scan == File /\ ScanTypes /\ Ended /\ Outside /\ Inside /\ BolIs /\ DelimIs

(***************************************************************************)
(* The flag after a turn: set by a line end, kept by a blank, else         *)
(* cleared.                                                                *)
(***************************************************************************)
BolGoesOn ==
  mysql => \/ text[i] = Newline /\ bol' = TRUE /\ i' = i + 1
           \/ text[i] = Blank /\ bol' = bol /\ i' = i + 1
           \/ text[i] \notin {Blank, Newline} /\ bol' = FALSE

(***************************************************************************)
(* Outside a dollar quote the turn begins at a free place, and the tests   *)
(* it makes are those of the reference definition.                         *)
(***************************************************************************)
LEMMA HereIsFree ==
  ASSUME Scan, i <= n, Unquoted
  PROVE  /\ i \in 1 .. n /\ i \in Free /\ ~done
         /\ i \in Sets <=> IsDelimiterLine
         /\ i \in Cut <=> IsDelimiterLine \/ text[i] = delim
<1>1. File /\ i \in 1 .. n /\ ~done
  <2>1. File /\ i \in 1 .. n + 1 /\ n \in Nat
    BY Zenon DEF Scan, ScanTypes, File
  <2>2. i \in 1 .. n /\ i # n + 1
    BY <2>1
  <2> QED
    BY <2>1, <2>2, Zenon DEF Scan, Ended
<1>2. i \in Free
  BY <1>1, FreeIs DEF Scan, Outside
<1>3. i \in Sets <=> IsDelimiterLine
  BY <1>2, SetsAre, Zenon DEF Scan, BolIs, IsDelimiterLine
<1>4. i \in Cut <=> IsDelimiterLine \/ text[i] = delim
  BY <1>1, <1>2, <1>3, CutIs, Zenon DEF Scan, DelimIs
<1> QED
  BY <1>1, <1>2, <1>3, <1>4

(***************************************************************************)
(* Within a dollar quote nothing is free.                                  *)
(***************************************************************************)
LEMMA HereIsQuoted ==
  ASSUME Scan, i <= n, ~Unquoted
  PROVE  /\ i \in 1 .. n /\ i \notin Free /\ ~done /\ ~mysql
         /\ i \in Keep
         /\ \E d \in Free :
              /\ d < i /\ text[d] = dollarT /\ i <= LastOf(d)
              /\ text[i] = dollarT => LastOf(d) = i
<1>1. File /\ n \in Nat /\ i \in 1 .. n /\ ~done /\ dollarT \in Tags
  <2>1. File /\ i \in 1 .. n + 1 /\ n \in Nat /\ dollarT \in Tags
    BY Zenon DEF Scan, ScanTypes, File
  <2>2. i \in 1 .. n /\ i # n + 1
    BY <2>1
  <2> QED
    BY <2>1, <2>2, Zenon DEF Scan, Ended
<1>2. ~mysql
  BY <1>1 DEF Tags
<1>3. PICK d \in Free : /\ d < i /\ text[d] = dollarT
                        /\ \A p \in d + 1 .. i - 1 : text[p] # dollarT
  BY DEF Scan, Inside
<1>4. d \in 1 .. n /\ i \in d + 1 .. n
  BY <1>1, <1>3, FreeIs
<1>5. i <= LastOf(d) /\ (text[i] = dollarT => LastOf(d) = i)
  BY <1>1, <1>3, <1>4, DollarQuoteEnds
<1>6. Opens(d)
  BY <1>1, <1>3, Zenon DEF Opens
<1>7. \A o \in Free : d < o => ~(o <= LastOf(d))
  BY <1>1, <1>6, FreeIs, LastOfIn
<1>8. i \notin Free
  BY <1>3, <1>5, <1>7
<1>9. i \in Keep
  <2>1. i \notin Cut
    BY <1>1, <1>8, CutIs
  <2>2. ASSUME NEW o \in Free, text[o] \in LineComments \cup {"/*"}, i \in o .. LastOf(o)
        PROVE  FALSE
    <3>1. o \in 1 .. n /\ LastOf(o) \in o .. n /\ LastOf(d) \in d .. n
      BY <1>1, <1>4, FreeIs, LastOfIn
    <3>2. Opens(o)
      BY <2>2, Zenon DEF Opens
    <3>3. o # d
      BY <1>1, <1>3, <2>2, <3>1, Marked
    <3>4. ~(d < o)
      BY <1>5, <1>7, <2>2, <3>1, <1>1, <1>4
    <3>5. o < d => LastOf(o) < d
      BY <1>1, <1>4, <3>2, FreeIs
    <3> QED
      BY <1>3, <1>4, <2>2, <3>1, <3>3, <3>4, <3>5
  <2> QED
    BY <1>1, <2>1, <2>2, KeepIs
<1> QED
  BY <1>1, <1>2, <1>3, <1>5, <1>8, <1>9

(***************************************************************************)
(* A turn that begins outside any quote and does not open a dollar quote:  *)
(* nothing is free in what it reads but the first place, and blanks.       *)
(***************************************************************************)
LEMMA ScanGoesOn ==
  ASSUME Scan, i <= n, Unquoted,
         UNCHANGED <<mysql, text, done, dollarT>>, Unquoted',
         i' \in i + 1 .. n + 1,
         \A p \in Free : i < p /\ p < i' => text[p] = Blank,
         Opens(i) => LastOf(i) < i',
         IF IsDelimiterLine THEN delim' = Named(text[i]) ELSE delim' = delim,
         bol' \in BOOLEAN,
         BolGoesOn
  PROVE  Scan' /\ \A c \in Cut : ~(i < c /\ c < i')
<1>1. File /\ n \in Nat /\ i \in 1 .. n /\ i \in Free /\ ~done
  BY HereIsFree DEF Scan, File
<1>11. i' \in Nat /\ i < i' /\ i \in 1 .. i' - 1
  <2>1. \A j, k \in Nat : 1 <= j /\ j < k => j \in 1 .. k - 1
    OBVIOUS
  <2>2. i \in Nat /\ 1 <= i /\ i' \in Nat /\ i < i'
    BY <1>1
  <2> QED
    BY <2>1, <2>2, Zenon
<1>2. /\ n' = n /\ File' = File /\ Tags' = Tags /\ Free' = Free /\ Sets' = Sets
      /\ Cut' = Cut /\ \A o : Opens(o)' = Opens(o) /\ LastOf(o)' = LastOf(o)
  BY SameFile, Zenon
<1>3. \A c \in Cut : ~(i < c /\ c < i')
  <2>1. \A c \in Cut : c \in Free /\ text[c] # Blank
    BY <1>1, CutIs, CutsAreMarks
  <2> QED
    BY <2>1
<1>4. \A d \in Sets : ~(i < d /\ d < i')
  <2>1. \A d \in Sets : d \in Cut
    BY <1>1, CutIs, SetsAre
  <2> QED
    BY <1>3, <2>1
<1>5. delim' = DelimiterAt(Sets, i')
  <2>1. CASE IsDelimiterLine
    <3>1. i \in Sets
      BY <2>1, HereIsFree
    <3>2. \A d \in Sets : d \in Nat
      BY <1>1, FreeIs, SetsAre
    <3>3. i' \in Nat /\ i < i' /\ \A d \in Sets : d < i' => d <= i
      BY <1>1, <1>4, <3>2
    <3>4. DelimiterAt(Sets, i') = Named(text[i])
      BY <1>1, <3>1, <3>3, NewDelimiter
    <3> QED
      BY <2>1, <3>4
  <2>2. CASE ~IsDelimiterLine
    <3>1. i \notin Sets
      BY <2>2, HereIsFree
    <3>2. i' \in Nat /\ i <= i' /\ \A d \in Sets : ~(i <= d /\ d < i')
      <4>1. \A d \in Sets : d \in Nat
        BY <1>1, FreeIs, SetsAre
      <4> QED
        BY <1>1, <1>4, <3>1, <4>1
    <3>3. DelimiterAt(Sets, i') = DelimiterAt(Sets, i)
      BY <1>1, <3>2, SameDelimiter
    <3> QED
      BY <2>2, <3>3 DEF Scan, DelimIs
  <2> QED
    BY <2>1, <2>2
<1>6. DelimIs'
  BY <1>2, <1>5 DEF DelimIs, DelimiterAt
<1>7. (ScanTypes /\ Ended)'
  <2>1. DelimTyped'
    BY <1>5, DelimiterIs, Zenon DEF DelimTyped
  <2>2. i' \in 1 .. n + 1
    BY <1>1
  <2>3. done' \in BOOLEAN /\ ~done'
    BY <1>1, Zenon DEF Scan, ScanTypes
  <2> QED
    BY <1>2, <2>1, <2>2, <2>3, Zenon DEF ScanTypes, Ended
<1>8. Outside'
  <2>1. \A o \in Free : o < i' /\ Opens(o) => LastOf(o) < i'
    <3> SUFFICES ASSUME NEW o \in Free, o < i', Opens(o) PROVE LastOf(o) < i'
      OBVIOUS
    <3>1. o \in 1 .. n /\ LastOf(o) \in o .. n
      BY <1>1, FreeIs, LastOfIn
    <3>2. CASE o < i
      <4>1. LastOf(o) < i
        BY <3>2 DEF Scan, Outside
      <4> QED
        BY <1>1, <3>1, <4>1
    <3>3. CASE o = i
      BY <3>3
    <3>4. CASE i < o
      <4>1. text[o] = Blank
        BY <3>4
      <4> QED
        BY <4>1 DEF Opens, LineComments, Quotes, Tags, Blank
    <3> QED
      BY <1>1, <3>1, <3>2, <3>3, <3>4
  <2> QED
    BY <1>2, <2>1 DEF Outside
<1>9. Inside'
  BY Zenon DEF Inside
<1>10. BolIs'
  <2> SUFFICES ASSUME mysql PROVE bol' <=> LineBegins(i')
    BY <1>2 DEF BolIs, LineBegins
  <2>1. Free \subseteq 1 .. n
    BY <1>1, FreeIs
  <2>2. bol <=> LineBegins(i)
    BY DEF Scan, BolIs
  <2>3. CASE text[i] = Newline /\ bol' = TRUE /\ i' = i + 1
    <3>1. \A m \in 1 .. i' - 1 : m <= i /\ i < i'
      BY <1>1, <2>3
    <3> QED
      BY <1>1, <2>3, <3>1 DEF LineBegins
  <2>4. CASE text[i] = Blank /\ bol' = bol /\ i' = i + 1
    <3>1. \A m : m \in 1 .. i' - 1 <=> m \in 1 .. i - 1 \/ m = i
      BY <1>1, <2>4
    <3>2. \A e \in Free : e < i' /\ text[e] = Newline <=> e < i /\ text[e] = Newline
      BY <1>1, <2>1, <2>4 DEF Blank, Newline
    <3>3. LineBegins(i') <=> LineBegins(i)
      BY <2>4, <3>1, <3>2, Zenon DEF LineBegins
    <3> QED
      BY <2>2, <2>4, <3>3
  <2>5. CASE text[i] \notin {Blank, Newline} /\ bol' = FALSE
    <3>1. i \in 1 .. i' - 1 /\ text[i] # Blank
      BY <1>11, <2>5, Zenon
    <3>2. ASSUME NEW e \in Free, text[e] = Newline, i <= e, e < i' PROVE FALSE
      <4>1. e # i
        BY <2>5, <3>2
      <4>2. i < e
        BY <1>1, <2>1, <3>2, <4>1
      <4> QED
        BY <3>2, <4>2 DEF Blank, Newline
    <3>3. ~LineBegins(i')
      BY <3>1, <3>2, Zenon DEF LineBegins
    <3> QED
      BY <2>5, <3>3
  <2> QED
    BY <2>3, <2>4, <2>5, Zenon DEF BolGoesOn
<1> QED
  BY <1>1, <1>2, <1>3, <1>6, <1>7, <1>8, <1>9, <1>10 DEF Scan

-----------------------------------------------------------------------------
(***************************************************************************)
(* What one turn does to the statement being read: it adds the places it   *)
(* keeps of what it reads, or it ends the statement.                       *)
(***************************************************************************)
LinesIn(a, b) == {p \in 1 .. n : a <= p /\ p < b /\ text[p] = Newline}

(***************************************************************************)
(* The turn reads the places up to i', no statement ends at one of them    *)
(* but perhaps the first, and it counts their line ends.                   *)
(***************************************************************************)
Reads ==
  /\ i' \in i + 1 .. n + 1
  /\ \A c \in Cut : ~(i < c /\ c < i')
  /\ line' = line + Cardinality(LinesIn(i, i'))
  /\ ~done /\ done' = done

(***************************************************************************)
(* It adds the places kept of them. A word among them means that the first *)
(* is one, and only a quote has line ends before the statement starts.     *)
(***************************************************************************)
Adds(places) ==
  /\ i \notin Cut
  /\ places \in Seq(1 .. n) /\ Increasing(places)
  /\ ToSet(places) = {p \in Keep : i <= p /\ p < i'}
  /\ buf' = buf \o places
  /\ out' = out
  /\ start' = IF start = 0 /\ Trim(places) # <<>> THEN line' ELSE start
  /\ \A p \in ToSet(places) : ~IsBlank(p) =>
       /\ i \in ToSet(places) /\ ~IsBlank(i)
       /\ text[i] \in Quotes \/ line' = line

(***************************************************************************)
(* It ends the statement at its first place; nothing but blanks is left    *)
(* out after that.                                                         *)
(***************************************************************************)
Ends ==
  /\ i \in Cut
  /\ \A p \in 1 .. n : i < p /\ p < i' => text[p] = Blank
  /\ Flush

(***************************************************************************)
(* The lists of places a turn emits: one, none, those of a set in order,   *)
(* and all of an interval.                                                 *)
(***************************************************************************)
LEMMA OnePlace ==
  ASSUME NEW p \in 1 .. n
  PROVE  <<p>> \in Seq(1 .. n) /\ Increasing(<<p>>) /\ ToSet(<<p>>) = {p}
<1>1. <<p>> \in Seq(1 .. n) /\ Len(<<p>>) = 1 /\ <<p>>[1] = p /\ DOMAIN <<p>> = 1 .. 1
  OBVIOUS
<1> QED
  BY <1>1 DEF Increasing, ToSet

LEMMA NoPlace ==
  <<>> \in Seq(1 .. n) /\ Increasing(<<>>) /\ ToSet(<<>>) = {}
BY DEF Increasing, ToSet

LEMMA FunctionIsSeq ==
  ASSUME NEW c \in Nat, NEW T, NEW s \in [1 .. c -> T]
  PROVE  s \in Seq(T) /\ Len(s) = c
OBVIOUS

LEMMA InOrderIs ==
  ASSUME File, NEW S \in SUBSET (1 .. n)
  PROVE  InOrder(S) \in Seq(1 .. n) /\ Increasing(InOrder(S)) /\ ToSet(InOrder(S)) = S
<1> DEFINE s == InOrder(S)
<1>1. n \in Nat
  BY DEF File
<1>2. IsFiniteSet(S) /\ Cardinality(S) \in Nat /\ S \in SUBSET Nat
  <2>1. IsFiniteSet(1 .. n)
    BY <1>1, FS_Interval
  <2>2. IsFiniteSet(S)
    BY <2>1, FS_Subset
  <2> QED
    BY <2>2, FS_CardinalityType
<1>3. \E t \in [1 .. Cardinality(S) -> S] : Increasing(t)
  BY <1>1, CanBeOrdered
<1>4. s \in [1 .. Cardinality(S) -> S] /\ Increasing(s)
  BY <1>3, Zenon DEF InOrder, Increasing
<1> HIDE DEF s
<1>5. ToSet(s) = S
  <2>1. {s[k] : k \in DOMAIN s} = S
    BY <1>2, <1>4, OrderedHasAll
  <2> QED
    BY <2>1, Zenon DEF ToSet
<1>6. s \in Seq(1 .. n)
  <2>1. s \in [1 .. Cardinality(S) -> 1 .. n]
    BY <1>4
  <2> QED
    BY <1>2, <2>1, FunctionIsSeq
<1> QED
  BY <1>4, <1>5, <1>6 DEF s

LEMMA Interval ==
  ASSUME File, NEW a \in 1 .. n, NEW b \in a .. n
  PROVE  LET s == [k \in 1 .. b - a + 1 |-> a + k - 1]
         IN  s \in Seq(1 .. n) /\ Increasing(s) /\ ToSet(s) = a .. b
<1> DEFINE s == [k \in 1 .. b - a + 1 |-> a + k - 1]
<1>1. n \in Nat
  BY DEF File
<1>2. \A k \in 1 .. b - a + 1 : a + k - 1 \in 1 .. n /\ a + k - 1 \in a .. b
  BY <1>1
<1>3. b - a + 1 \in Nat
  BY <1>1
<1>4. s \in Seq(1 .. n)
  BY <1>2, <1>3
<1>5. Increasing(s)
  BY <1>3 DEF Increasing
<1>6. ToSet(s) = a .. b
  <2>1. \A x \in a .. b : x - a + 1 \in 1 .. b - a + 1 /\ a + (x - a + 1) - 1 = x
    BY <1>1
  <2>2. \A x \in a .. b : \E k \in 1 .. b - a + 1 : s[k] = x
    BY <2>1
  <2>3. \A k \in 1 .. b - a + 1 : s[k] \in a .. b
    BY <1>2
  <2>4. DOMAIN s = 1 .. b - a + 1
    OBVIOUS
  <2> HIDE DEF s
  <2> QED
    BY <2>2, <2>3, <2>4 DEF ToSet
<1> QED
  BY <1>4, <1>5, <1>6

(***************************************************************************)
(* Nothing is free in what opens at a free place.                          *)
(***************************************************************************)
LEMMA NothingFree ==
  ASSUME File, NEW o \in Free, Opens(o)
  PROVE  \A p \in Free : ~(o < p /\ p <= LastOf(o))
<1>1. n \in Nat /\ Free \subseteq 1 .. n /\ LastOf(o) \in o .. n
  BY FreeIs, LastOfIn DEF File
<1>2. \A p \in Free : o < p => LastOf(o) < p
  BY <1>1, FreeIs
<1> QED
  BY <1>1, <1>2

(***************************************************************************)
(* A place that a turn outside any comment reads is kept.                  *)
(***************************************************************************)
LEMMA NotCommented ==
  ASSUME Scan, i <= n, Unquoted, text[i] \notin LineComments \cup {"/*"},
         NEW p \in i .. n, \A q \in Free : ~(i < q /\ q <= p), p \notin Cut
  PROVE  p \in Keep
<1>1. File /\ n \in Nat /\ i \in 1 .. n /\ p \in 1 .. n
  BY HereIsFree DEF Scan, File
<1>2. ASSUME NEW o \in Free, text[o] \in LineComments \cup {"/*"}, p \in o .. LastOf(o)
      PROVE  FALSE
  <2>1. o \in 1 .. n /\ LastOf(o) \in o .. n /\ Opens(o)
    BY <1>1, <1>2, FreeIs, LastOfIn DEF Opens
  <2>2. o < i => LastOf(o) < i
    BY <2>1 DEF Scan, Outside
  <2>3. o # i
    BY <1>2
  <2> QED
    BY <1>1, <1>2, <2>1, <2>2, <2>3
<1> QED
  BY <1>1, <1>2, KeepIs

(***************************************************************************)
(* The line ends the turn counts.                                          *)
(***************************************************************************)
LEMMA NoLines ==
  ASSUME File, NEW a \in Nat, NEW b \in Nat,
         \A p \in 1 .. n : a <= p /\ p < b => text[p] # Newline
  PROVE  Cardinality(LinesIn(a, b)) = 0
<1>1. LinesIn(a, b) = {}
  BY DEF LinesIn
<1> QED
  BY <1>1, FS_EmptySet

LEMMA OneLine ==
  ASSUME File, NEW a \in 1 .. n
  PROVE  Cardinality(LinesIn(a, a + 1)) = IF text[a] = Newline THEN 1 ELSE 0
<1>1. n \in Nat
  BY DEF File
<1>2. \A p \in 1 .. n : a <= p /\ p < a + 1 <=> p = a
  BY <1>1
<1>3. LinesIn(a, a + 1) = IF text[a] = Newline THEN {a} ELSE {}
  BY <1>2 DEF LinesIn
<1>4. Cardinality({a}) = 1 /\ Cardinality({}) = 0
  BY FS_Singleton, FS_EmptySet
<1> QED
  BY <1>3, <1>4

LEMMA NewlinesAre ==
  ASSUME File, NEW a \in 1 .. n + 1, NEW b \in Nat, b <= n
  PROVE  Newlines(a, b) = LinesIn(a, b + 1)
<1>1. n \in Nat
  BY DEF File
<1>2. \A p : p \in a .. b <=> p \in 1 .. n /\ a <= p /\ p < b + 1
  BY <1>1
<1> QED
  BY <1>2 DEF Newlines, LinesIn

-----------------------------------------------------------------------------

(***************************************************************************)
(* What is known at a turn that begins outside any dollar quote.           *)
(***************************************************************************)
LEMMA AtReading ==
  ASSUME Scan, NEW toks, Reading(toks)
  PROVE  /\ Unquoted /\ i <= n /\ text[i] \in toks /\ ~IsDelimiterLine
         /\ File /\ n \in Nat /\ i \in 1 .. n /\ i \in Free /\ ~done
         /\ i \in Cut <=> text[i] = delim
         /\ DelimTyped
<1>1. Unquoted /\ i <= n /\ text[i] \in toks /\ ~IsDelimiterLine
  BY Zenon DEF Reading, Unquoted
<1>2. File /\ n \in Nat /\ DelimTyped
  BY Zenon DEF Scan, ScanTypes, File
<1>3. i \in 1 .. n /\ i \in Free /\ ~done /\ (i \in Cut <=> text[i] = delim)
  BY <1>1, HereIsFree, Zenon
<1> QED
  BY <1>1, <1>2, <1>3, Zenon

LEMMA MarkIsNoCut ==
  ASSUME File, NEW p \in 1 .. n, text[p] \in LineComments \cup {"/*"} \cup Quotes
  PROVE  p \notin Cut /\ text[p] \notin {Blank, Newline}
<1>1. Opens(p)
  BY Zenon DEF Opens
<1>2. text[p] \notin {Blank, Newline}
  BY DEF LineComments, Quotes, Blank, Newline
<1> QED
  BY <1>1, <1>2, CutsAreMarks, Zenon

LEMMA BolAfterMark ==
  ASSUME LineStartSeen, text[i] \notin {Blank, Newline}
  PROVE  BolGoesOn
BY Zenon DEF LineStartSeen, BolGoesOn

LEMMA BolStays ==
  ASSUME Scan, LineStartSeen
  PROVE  bol' \in BOOLEAN
<1>1. bol \in BOOLEAN /\ mysql \in BOOLEAN
  BY Zenon DEF Scan, ScanTypes, File
<1> QED
  BY <1>1 DEF LineStartSeen

LEMMA EmptyTrim == Trim(<<>>) = <<>>
<1>1. {k \in DOMAIN <<>> : ~IsBlank(<<>>[k])} = {}
  OBVIOUS
<1> QED
  BY <1>1, Zenon DEF Trim

(***************************************************************************)
(* A DELIMITER line is first on its line and ends a statement; its turn    *)
(* reads on to the line's end, and only blanks are there.                  *)
(***************************************************************************)
LEMMA DelimiterLineStep ==
  ASSUME Scan, line \in Nat, DelimiterLine
  PROVE  Scan' /\ Reads /\ Ends
<1> USE DEF DelimiterLine
<1>1. File /\ n \in Nat /\ i <= n /\ IsDelimiterLine
  BY Zenon DEF Scan, File
<1>2. Unquoted
  <2>1. mysql
    BY <1>1, Zenon DEF IsDelimiterLine
  <2>2. Tags = {}
    BY <2>1, Zenon DEF Tags
  <2> QED
    BY <2>2, Zenon DEF Scan, ScanTypes
<1>3. i \in 1 .. n /\ i \in Cut /\ ~done
  BY <1>1, <1>2, HereIsFree, Zenon
<1>4. text[i] \in DelimiterLines
  BY <1>1, Zenon DEF IsDelimiterLine
<1>5. text[i] \notin {Blank, Newline} /\ ~Opens(i)
  BY <1>4 DEF DelimiterLines, Blank, Newline, Opens, LineComments, Quotes, Tags
<1> DEFINE next == NextAt(i, Newline)
<1>6. /\ next \in i .. n + 1
      /\ \A p \in i .. n : text[p] = Newline => next <= p
      /\ next <= n => text[next] = Newline
  BY <1>1, <1>3, NextAtIs
<1> HIDE DEF next
<1>7. next \in i + 1 .. n + 1
  <2>1. next # i
    BY <1>3, <1>5, <1>6
  <2> QED
    BY <1>1, <1>3, <1>6, <2>1
<1>8. i' = next /\ bol' = FALSE /\ line' = line /\ Flush
      /\ delim' = Named(text[i]) /\ UNCHANGED <<mysql, text, done, dollarT>>
  BY Zenon DEF Goto, next
<1>9. \A p \in 1 .. n : i < p /\ p < next => text[p] = Blank
  <2> SUFFICES ASSUME NEW p \in 1 .. n, i < p, p < next, text[p] # Blank PROVE FALSE
    OBVIOUS
  <2>1. \E e \in i + 1 .. p : text[e] = Newline
    BY <1>1, <1>3, <1>4 DEF File, DelimiterLinesEnd
  <2>2. \A e \in i + 1 .. p : e \in i .. n /\ ~(next <= e)
    BY <1>1, <1>3, <1>7
  <2> QED
    BY <1>6, <2>1, <2>2
<1>10. i' \in i + 1 .. n + 1 /\ \A p \in 1 .. n : i < p /\ p < i' => text[p] = Blank
  BY <1>7, <1>8, <1>9, Zenon
<1>11. Unquoted' /\ BolGoesOn /\ bol' \in BOOLEAN
  BY <1>2, <1>5, <1>8, Zenon DEF Unquoted, BolGoesOn
<1>12. Scan' /\ \A c \in Cut : ~(i < c /\ c < i')
  <2>1. \A p \in Free : i < p /\ p < i' => text[p] = Blank
    BY <1>1, <1>10, FreeIs
  <2> QED
    BY <1>1, <1>2, <1>5, <1>8, <1>10, <1>11, <2>1, ScanGoesOn
<1>13. line' = line + Cardinality(LinesIn(i, i'))
  <2>1. \A p \in 1 .. n : i <= p /\ p < i' => text[p] # Newline
    <3>1. \A p \in 1 .. n : i <= p /\ p < i' /\ text[p] = Newline => next <= p
      BY <1>1, <1>3, <1>6
    <3>2. \A p \in 1 .. n : p < i' => ~(next <= p)
      BY <1>7, <1>8
    <3> QED
      BY <3>1, <3>2
  <2>2. Cardinality(LinesIn(i, i')) = 0
    BY <1>1, <1>3, <1>7, <1>8, <2>1, NoLines
  <2> QED
    BY <1>8, <2>2
<1> QED
  BY <1>3, <1>8, <1>10, <1>12, <1>13, Zenon DEF Reads, Ends

LEMMA AddsNothing ==
  ASSUME i \notin Cut, {p \in Keep : i <= p /\ p < i'} = {},
         UNCHANGED <<start, buf, out>>, buf \in Seq(1 .. n)
  PROVE  Adds(<<>>)
<1>1. buf \o <<>> = buf
  OBVIOUS
<1>2. start' = IF start = 0 /\ Trim(<<>>) # <<>> THEN line' ELSE start
  BY EmptyTrim, Zenon
<1> QED
  BY <1>1, <1>2, NoPlace, Zenon DEF Adds

(***************************************************************************)
(* A line comment's turn reads to its last place and keeps nothing.        *)
(***************************************************************************)
LEMMA LineCommentStep ==
  ASSUME Scan, line \in Nat, buf \in Seq(1 .. n), LineComment
  PROVE  Scan' /\ Reads /\ Adds(<<>>)
<1>1. /\ Unquoted /\ i <= n /\ text[i] \in LineComments /\ ~IsDelimiterLine
      /\ File /\ n \in Nat /\ i \in 1 .. n /\ i \in Free /\ ~done
  BY AtReading, Zenon DEF LineComment
<1>2. i \notin Cut /\ text[i] \notin {Blank, Newline}
  <2>1. text[i] \in LineComments \cup {"/*"} \cup Quotes
    BY <1>1, Zenon
  <2> QED
    BY <1>1, <2>1, MarkIsNoCut
<1>3. Opens(i)
  BY <1>1, Zenon DEF Opens
<1> DEFINE next == NextAt(i, Newline)
<1>4. next = LastOf(i) + 1 /\ (\A p \in i .. LastOf(i) : text[p] # Newline) /\ LastOf(i) \in i .. n
  BY <1>1, LineCommentEnds, LastOfIn
<1>5. i' = next /\ line' = line /\ delim' = delim /\ LineStartSeen
      /\ UNCHANGED <<mysql, text, done, dollarT>> /\ UNCHANGED <<start, buf, out>>
  BY Zenon DEF LineComment, Goto, Nothing
<1> HIDE DEF next
<1>6. i' \in i + 1 .. n + 1 /\ \A p \in 1 .. n : i <= p /\ p < i' <=> p \in i .. LastOf(i)
  BY <1>1, <1>4, <1>5
<1>7. \A p \in Free : ~(i < p /\ p <= LastOf(i))
  BY <1>1, <1>3, NothingFree
<1>8. LastOf(i) < i' /\ \A p \in Free : ~(i < p /\ p < i')
  <2>1. Free \subseteq 1 .. n
    BY <1>1, FreeIs
  <2> QED
    BY <1>1, <1>4, <1>6, <1>7, <2>1
<1>9. Unquoted' /\ BolGoesOn /\ bol' \in BOOLEAN
  BY <1>1, <1>2, <1>5, BolAfterMark, BolStays, Zenon DEF Unquoted
<1>10. Scan' /\ \A c \in Cut : ~(i < c /\ c < i')
  BY <1>1, <1>5, <1>6, <1>8, <1>9, ScanGoesOn
<1>11. line' = line + Cardinality(LinesIn(i, i'))
  <2>1. i \in Nat /\ i' \in Nat /\ \A p \in 1 .. n : i <= p /\ p < i' => text[p] # Newline
    BY <1>1, <1>4, <1>6
  <2>2. Cardinality(LinesIn(i, i')) = 0
    BY <1>1, <2>1, NoLines
  <2> QED
    BY <1>5, <2>2
<1>12. {p \in Keep : i <= p /\ p < i'} = {}
  <2> SUFFICES ASSUME NEW p \in Keep, i <= p, p < i' PROVE FALSE
    OBVIOUS
  <2>1. p \in 1 .. n /\ p \in i .. LastOf(i) /\ text[p] # Newline
    BY <1>4, <1>6, KeepIn
  <2> QED
    BY <1>1, <2>1, KeepIs
<1>13. Adds(<<>>)
  BY <1>2, <1>5, <1>12, AddsNothing
<1> QED
  BY <1>1, <1>5, <1>6, <1>10, <1>11, <1>13, Zenon DEF Reads

(***************************************************************************)
(* A block comment's turn keeps its line ends, in order.                   *)
(***************************************************************************)
LEMMA BlockCommentStep ==
  ASSUME Scan, line \in Nat, BlockComment
  PROVE  Scan' /\ Reads /\ \E places : Adds(places)
<1>1. /\ Unquoted /\ i <= n /\ text[i] \in {"/*"} /\ ~IsDelimiterLine
      /\ File /\ n \in Nat /\ i \in 1 .. n /\ i \in Free /\ ~done
  BY AtReading, Zenon DEF BlockComment
<1>2. i \notin Cut /\ text[i] \notin {Blank, Newline}
  <2>1. text[i] \in LineComments \cup {"/*"} \cup Quotes
    BY <1>1, Zenon
  <2> QED
    BY <1>1, <2>1, MarkIsNoCut
<1>3. Opens(i)
  BY <1>1, Zenon DEF Opens
<1> DEFINE last == LastOf(i)
           places == InOrder(Newlines(i, last))
<1>4. last \in i .. n /\ last = Min({NextAt(i + 1, "*/"), n})
  BY <1>1, BlockCommentEnds, LastOfIn
<1>5. /\ i' = last + 1 /\ line' = line + Cardinality(Newlines(i, last))
      /\ Emit(places) /\ delim' = delim /\ LineStartSeen
      /\ UNCHANGED <<mysql, text, done, dollarT>>
  BY <1>4, Zenon DEF BlockComment, Goto
<1> HIDE DEF last
<1>6. i' \in i + 1 .. n + 1 /\ \A p \in 1 .. n : i <= p /\ p < i' <=> p \in i .. last
  BY <1>1, <1>4, <1>5
<1>7. \A p \in Free : ~(i < p /\ p <= last)
  BY <1>1, <1>3, NothingFree DEF last
<1>8. last < i' /\ \A p \in Free : ~(i < p /\ p < i')
  <2>1. Free \subseteq 1 .. n
    BY <1>1, FreeIs
  <2> QED
    BY <1>1, <1>4, <1>6, <1>7, <2>1
<1>9. Unquoted' /\ BolGoesOn /\ bol' \in BOOLEAN
  BY <1>1, <1>2, <1>5, BolAfterMark, BolStays, Zenon DEF Unquoted
<1>10. Scan' /\ \A c \in Cut : ~(i < c /\ c < i')
  BY <1>1, <1>5, <1>6, <1>8, <1>9, ScanGoesOn DEF last
<1>11. line' = line + Cardinality(LinesIn(i, i'))
  <2>1. i \in 1 .. n + 1 /\ last \in Nat /\ last <= n
    BY <1>1, <1>4
  <2>2. Newlines(i, last) = LinesIn(i, last + 1)
    BY <1>1, <2>1, NewlinesAre
  <2> QED
    BY <1>5, <2>2
<1>12. Newlines(i, last) \in SUBSET (1 .. n)
  BY <1>1, <1>4 DEF Newlines
<1>13. places \in Seq(1 .. n) /\ Increasing(places) /\ ToSet(places) = Newlines(i, last)
  BY <1>1, <1>12, InOrderIs
<1>14. Newlines(i, last) = {p \in Keep : i <= p /\ p < i'}
  <2>1. ASSUME NEW p \in Keep, i <= p, p < i' PROVE p \in Newlines(i, last)
    <3>1. p \in 1 .. n /\ p \in i .. last
      BY <1>6, <2>1, KeepIn
    <3>2. text[p] = Newline
      BY <1>1, <2>1, <3>1, KeepIs DEF last
    <3> QED
      BY <3>1, <3>2 DEF Newlines
  <2>2. ASSUME NEW p \in Newlines(i, last) PROVE p \in Keep /\ i <= p /\ p < i'
    <3>1. p \in 1 .. n /\ i <= p /\ p < i' /\ text[p] = Newline
      BY <1>1, <1>4, <1>6 DEF Newlines
    <3>2. p \notin Cut
      BY <1>1, <3>1, CutsAreMarks
    <3> QED
      BY <3>1, <3>2, KeepIs
  <2> QED
    BY <2>1, <2>2
<1> HIDE DEF places
<1>15. Adds(places)
  <2>1. \A p \in ToSet(places) : IsBlank(p)
    BY <1>13 DEF Newlines, IsBlank
  <2> QED
    BY <1>2, <1>5, <1>13, <1>14, <2>1, Zenon DEF Adds, Emit
<1> QED
  BY <1>1, <1>5, <1>6, <1>10, <1>11, <1>15, Zenon DEF Reads

(***************************************************************************)
(* The turn of quoted text keeps all of it, and reads to where the text    *)
(* closes.                                                                 *)
(***************************************************************************)
LEMMA QuotedStep ==
  ASSUME Scan, line \in Nat, Quoted
  PROVE  Scan' /\ Reads /\ \E places : Adds(places)
<1>1. /\ Unquoted /\ i <= n /\ text[i] \in Quotes /\ ~IsDelimiterLine
      /\ File /\ n \in Nat /\ i \in 1 .. n /\ i \in Free /\ ~done
  BY AtReading, Zenon DEF Quoted
<1>2. i \notin Cut /\ text[i] \notin {Blank, Newline}
  <2>1. text[i] \in LineComments \cup {"/*"} \cup Quotes
    BY <1>1, Zenon
  <2> QED
    BY <1>1, <2>1, MarkIsNoCut
<1>3. Opens(i)
  BY <1>1, Zenon DEF Opens
<1> DEFINE last == LastOf(i)
           places == [k \in 1 .. last - i + 1 |-> i + k - 1]
<1>4. last \in i .. n /\ last = QuoteEnd(i)
  BY <1>1, QuoteEndsWhereItCloses, LastOfIn
<1>5. /\ i' = last + 1 /\ line' = line + Cardinality(Newlines(i, last))
      /\ Emit(places) /\ delim' = delim /\ LineStartSeen
      /\ UNCHANGED <<mysql, text, done, dollarT>>
  BY <1>4, Zenon DEF Quoted, Goto
<1> HIDE DEF last
<1>6. i' \in i + 1 .. n + 1 /\ \A p \in 1 .. n : i <= p /\ p < i' <=> p \in i .. last
  BY <1>1, <1>4, <1>5
<1>7. \A p \in Free : ~(i < p /\ p <= last)
  BY <1>1, <1>3, NothingFree DEF last
<1>8. last < i' /\ \A p \in Free : ~(i < p /\ p < i')
  <2>1. Free \subseteq 1 .. n
    BY <1>1, FreeIs
  <2> QED
    BY <1>1, <1>4, <1>6, <1>7, <2>1
<1>9. Unquoted' /\ BolGoesOn /\ bol' \in BOOLEAN
  BY <1>1, <1>2, <1>5, BolAfterMark, BolStays, Zenon DEF Unquoted
<1>10. Scan' /\ \A c \in Cut : ~(i < c /\ c < i')
  BY <1>1, <1>5, <1>6, <1>8, <1>9, ScanGoesOn DEF last
<1>11. line' = line + Cardinality(LinesIn(i, i'))
  <2>1. i \in 1 .. n + 1 /\ last \in Nat /\ last <= n
    BY <1>1, <1>4
  <2>2. Newlines(i, last) = LinesIn(i, last + 1)
    BY <1>1, <2>1, NewlinesAre
  <2> QED
    BY <1>5, <2>2
<1>12. places \in Seq(1 .. n) /\ Increasing(places) /\ ToSet(places) = i .. last
  BY <1>1, <1>4, Interval
<1>13. i .. last = {p \in Keep : i <= p /\ p < i'}
  <2>1. ASSUME NEW p \in Keep, i <= p, p < i' PROVE p \in i .. last
    BY <1>6, <2>1, KeepIn
  <2>2. ASSUME NEW p \in i .. last PROVE p \in Keep /\ i <= p /\ p < i'
    <3>1. p \in i .. n /\ p \in 1 .. n /\ i <= p /\ p < i'
      BY <1>1, <1>4, <1>6
    <3>2. \A q \in Free : ~(i < q /\ q <= p)
      <4>1. Free \subseteq 1 .. n
        BY <1>1, FreeIs
      <4> QED
        BY <1>1, <1>4, <1>7, <4>1
    <3>3. p \notin Cut
      <4>1. p \in Free => p = i
        BY <1>1, <3>1, <3>2
      <4> QED
        BY <1>1, <1>2, <4>1, CutIs
    <3>4. text[i] \notin LineComments \cup {"/*"}
      BY <1>1, Marked
    <3> QED
      BY <1>1, <3>1, <3>2, <3>3, <3>4, NotCommented
  <2> QED
    BY <2>1, <2>2
<1> HIDE DEF places
<1>14. Adds(places)
  <2>1. i \in ToSet(places) /\ ~IsBlank(i) /\ text[i] \in Quotes
    BY <1>1, <1>2, <1>4, <1>12 DEF IsBlank
  <2> QED
    BY <1>2, <1>5, <1>12, <1>13, <2>1, Zenon DEF Adds, Emit
<1> QED
  BY <1>1, <1>5, <1>6, <1>10, <1>11, <1>14, Zenon DEF Reads

(***************************************************************************)
(* The turns that read one place.                                          *)
(***************************************************************************)
LEMMA OneReads ==
  ASSUME Scan, line \in Nat, i <= n, i' = i + 1,
         line' = line + (IF text[i] = Newline THEN 1 ELSE 0),
         UNCHANGED done
  PROVE  /\ Reads
         /\ \A p \in 1 .. n : i <= p /\ p < i' <=> p = i
         /\ i \in 1 .. n
<1>1. File /\ n \in Nat /\ i \in 1 .. n
  <2>1. File /\ n \in Nat /\ i \in 1 .. n + 1
    BY Zenon DEF Scan, ScanTypes, File
  <2> QED
    BY <2>1
<1>2. ~done
  <2>1. i # n + 1
    BY <1>1
  <2> QED
    BY <2>1, Zenon DEF Scan, Ended
<1>3. i' \in i + 1 .. n + 1 /\ \A p \in 1 .. n : i <= p /\ p < i' <=> p = i
  BY <1>1
<1>4. \A c \in Cut : ~(i < c /\ c < i')
  <2>1. Cut \subseteq 1 .. n
    BY <1>1, CutIs, FreeIs
  <2> QED
    BY <1>1, <2>1
<1>5. Cardinality(LinesIn(i, i')) = IF text[i] = Newline THEN 1 ELSE 0
  BY <1>1, OneLine
<1>6. line' = line + Cardinality(LinesIn(i, i'))
  BY <1>5, Zenon
<1> QED
  BY <1>1, <1>2, <1>3, <1>4, <1>6, Zenon DEF Reads

LEMMA OneAdded ==
  ASSUME File, i \in 1 .. n, \A p \in 1 .. n : i <= p /\ p < i' <=> p = i,
         i \in Keep, Emit(<<i>>), text[i] # Newline => line' = line
  PROVE  Adds(<<i>>)
<1>1. <<i>> \in Seq(1 .. n) /\ Increasing(<<i>>) /\ ToSet(<<i>>) = {i}
  BY OnePlace
<1>2. {i} = {p \in Keep : i <= p /\ p < i'}
  BY KeepIn
<1>3. i \notin Cut
  BY KeepIs
<1>4. ~IsBlank(i) => line' = line
  BY Zenon DEF IsBlank
<1>5. \A p \in {i} : p = i
  OBVIOUS
<1> QED
  BY <1>1, <1>2, <1>3, <1>4, <1>5, Zenon DEF Adds, Emit

(***************************************************************************)
(* A delimiter's turn ends a statement.                                    *)
(***************************************************************************)
LEMMA EndOfStatementStep ==
  ASSUME Scan, line \in Nat, EndOfStatement
  PROVE  Scan' /\ Reads /\ Ends
<1>1. /\ Unquoted /\ i <= n /\ text[i] \in {delim} /\ ~IsDelimiterLine
      /\ File /\ n \in Nat /\ i \in 1 .. n /\ i \in Free /\ ~done /\ DelimTyped
      /\ i \in Cut <=> text[i] = delim
  BY AtReading, Zenon DEF EndOfStatement
<1>2. i \in Cut
  BY <1>1
<1>3. text[i] \notin {Blank, Newline} /\ ~Opens(i)
  BY <1>1 DEF DelimTyped, Blank, Newline, Opens, LineComments, Quotes, Tags
<1>4. /\ i' = i + 1 /\ Flush /\ LineStartSeen
      /\ UNCHANGED <<mysql, text, done, line, dollarT, delim>>
  BY Zenon DEF EndOfStatement, Goto
<1>5. line' = line + (IF text[i] = Newline THEN 1 ELSE 0)
  BY <1>3, <1>4
<1>6. Reads /\ \A p \in 1 .. n : i <= p /\ p < i' <=> p = i
  BY <1>1, <1>4, <1>5, OneReads
<1>7. Unquoted' /\ BolGoesOn /\ bol' \in BOOLEAN
  BY <1>1, <1>3, <1>4, BolAfterMark, BolStays, Zenon DEF Unquoted
<1>8. \A p \in 1 .. n : ~(i < p /\ p < i')
  BY <1>1, <1>4
<1>9. Scan'
  <2>1. \A p \in Free : i < p /\ p < i' => text[p] = Blank
    BY <1>1, <1>8, FreeIs
  <2>2. i' \in i + 1 .. n + 1
    BY <1>1, <1>4
  <2> QED
    BY <1>1, <1>3, <1>4, <1>7, <2>1, <2>2, ScanGoesOn
<1> QED
  BY <1>2, <1>4, <1>6, <1>8, <1>9, Zenon DEF Ends

(***************************************************************************)
(* Any other word is kept.                                                 *)
(***************************************************************************)
LEMMA OtherStep ==
  ASSUME Scan, line \in Nat, Other
  PROVE  Scan' /\ Reads /\ Adds(<<i>>)
<1>1. /\ Unquoted /\ i <= n /\ text[i] \in {text[i]} \ Marks /\ ~IsDelimiterLine
      /\ File /\ n \in Nat /\ i \in 1 .. n /\ i \in Free /\ ~done
      /\ i \in Cut <=> text[i] = delim
  BY AtReading, Zenon DEF Other
<1>2. /\ text[i] \notin LineComments /\ text[i] \notin {"/*"} /\ text[i] \notin Quotes
      /\ text[i] \notin Tags /\ text[i] # delim
  BY <1>1 DEF Marks
<1>3. i \notin Cut /\ ~Opens(i)
  BY <1>1, <1>2, Zenon DEF Opens
<1>4. /\ i' = i + 1 /\ Emit(<<i>>)
      /\ line' = line + (IF text[i] = Newline THEN 1 ELSE 0)
      /\ UNCHANGED <<mysql, text, done, dollarT, delim>>
      /\ IF text[i] = Newline THEN bol' = TRUE ELSE LineStartSeen
  BY Zenon DEF Other, Goto
<1>5. Reads /\ \A p \in 1 .. n : i <= p /\ p < i' <=> p = i
  BY <1>1, <1>4, OneReads
<1>6. Unquoted' /\ BolGoesOn /\ bol' \in BOOLEAN
  <2>1. bol \in BOOLEAN /\ mysql \in BOOLEAN
    BY Zenon DEF Scan, ScanTypes, File
  <2>2. CASE text[i] = Newline
    BY <1>1, <1>4, <2>2, Zenon DEF Unquoted, BolGoesOn
  <2>3. CASE text[i] = Blank
    <3>1. text[i] # Newline
      BY <2>3 DEF Blank, Newline
    <3>2. bol' = bol
      BY <1>4, <2>1, <2>3, <3>1, Zenon DEF LineStartSeen
    <3> QED
      BY <1>1, <1>4, <2>1, <2>3, <3>2, Zenon DEF Unquoted, BolGoesOn
  <2>4. CASE text[i] \notin {Blank, Newline}
    BY <1>1, <1>4, <2>4, BolAfterMark, BolStays, Zenon DEF Unquoted
  <2> QED
    BY <2>2, <2>3, <2>4, Zenon
<1>7. \A p \in 1 .. n : ~(i < p /\ p < i')
  BY <1>1, <1>4
<1>8. Scan'
  <2>1. \A p \in Free : i < p /\ p < i' => text[p] = Blank
    BY <1>1, <1>7, FreeIs
  <2>2. i' \in i + 1 .. n + 1
    BY <1>1, <1>4
  <2> QED
    BY <1>1, <1>3, <1>4, <1>6, <2>1, <2>2, ScanGoesOn
<1>9. i \in Keep
  <2>1. i \in i .. n /\ \A q \in Free : ~(i < q /\ q <= i)
    <3>1. Free \subseteq 1 .. n
      BY <1>1, FreeIs
    <3> QED
      BY <1>1, <3>1
  <2> QED
    BY <1>1, <1>2, <1>3, <2>1, NotCommented
<1>10. text[i] # Newline => line' = line
  BY <1>4
<1> QED
  BY <1>1, <1>4, <1>5, <1>8, <1>9, <1>10, OneAdded, Zenon

(***************************************************************************)
(* The turns that open a dollar quote and go on in one.                    *)
(***************************************************************************)
LEMMA NoSetsInPostgres ==
  ASSUME ~mysql
  PROVE  Sets = {} /\ \A p : DelimiterAt(Sets, p) = ";"
<1>1. Sets = {}
  BY SetsAre, Zenon
<1>2. \A p : {d \in Sets : d < p} = {}
  BY <1>1
<1> QED
  BY <1>1, <1>2, Zenon DEF DelimiterAt

(***************************************************************************)
(* Without MySQL's delimiters a dollar quote is all a turn can change.     *)
(***************************************************************************)
LEMMA ScanInPostgres ==
  ASSUME Scan, ~mysql, i <= n, i' = i + 1,
         UNCHANGED <<mysql, text, done, delim, bol>>, (Unquoted \/ dollarT \in Tags)',
         Outside', Inside'
  PROVE  Scan'
<1>1. File /\ n \in Nat /\ i \in 1 .. n + 1 /\ DelimTyped /\ bol \in BOOLEAN /\ done \in BOOLEAN
  BY Zenon DEF Scan, ScanTypes, File
<1>2. n' = n /\ File' = File /\ Sets' = Sets
  BY SameFile, Zenon
<1>3. i' \in 1 .. n' + 1 /\ i # n + 1
  BY <1>1, <1>2
<1>4. (ScanTypes /\ Ended)'
  <2>1. ~done
    BY <1>3, Zenon DEF Scan, Ended
  <2>2. DelimTyped'
    BY <1>1, Zenon DEF DelimTyped
  <2> QED
    BY <1>1, <1>3, <2>1, <2>2, Zenon DEF ScanTypes, Ended
<1>5. DelimIs'
  <2>1. delim = ";"
    BY NoSetsInPostgres, Zenon DEF Scan, DelimIs
  <2>2. ~mysql'
    BY Zenon
  <2>3. Sets' = {} /\ {d \in Sets' : d < i'} = {}
    BY <1>2, NoSetsInPostgres
  <2>4. delim' = ";"
    BY <2>1, Zenon
  <2> QED
    BY <2>3, <2>4, Zenon DEF DelimIs, DelimiterAt
<1>6. BolIs'
  BY Zenon DEF BolIs
<1> QED
  BY <1>1, <1>2, <1>4, <1>5, <1>6, Zenon DEF Scan

(***************************************************************************)
(* A tag opens a dollar quote, and all is kept until it comes again.       *)
(***************************************************************************)
LEMMA OpenDollarQuoteStep ==
  ASSUME Scan, line \in Nat, OpenDollarQuote
  PROVE  Scan' /\ Reads /\ Adds(<<i>>)
<1>1. /\ Unquoted /\ i <= n /\ text[i] \in Tags /\ ~IsDelimiterLine
      /\ File /\ n \in Nat /\ i \in 1 .. n /\ i \in Free /\ ~done
  BY AtReading, Zenon DEF OpenDollarQuote
<1>2. ~mysql
  <2>1. Tags # {}
    BY <1>1
  <2> QED
    BY <2>1, Zenon DEF Tags
<1>3. /\ i' = i + 1 /\ Emit(<<i>>) /\ line' = line /\ dollarT' = text[i]
      /\ UNCHANGED <<mysql, text, done, delim, bol>>
  BY Zenon DEF OpenDollarQuote, Goto
<1>4. text[i] # Newline
  BY <1>1 DEF Tags, Newline
<1>5. line' = line + (IF text[i] = Newline THEN 1 ELSE 0)
  BY <1>3, <1>4
<1>6. Reads /\ \A p \in 1 .. n : i <= p /\ p < i' <=> p = i
  BY <1>1, <1>3, <1>5, OneReads
<1>7. /\ n' = n /\ File' = File /\ Tags' = Tags /\ Free' = Free
      /\ \A o : Opens(o)' = Opens(o) /\ LastOf(o)' = LastOf(o)
  BY <1>3, SameFile, Zenon
<1>8. ~Unquoted'
  <2>1. ~(text[i] = "")
    BY <1>1, Zenon DEF Tags
  <2> QED
    BY <1>3, <2>1, Zenon DEF Unquoted
<1>9. Inside'
  <2>1. i < i' /\ \A p \in i + 1 .. i' - 1 : FALSE
    BY <1>1, <1>3
  <2> QED
    BY <1>1, <1>3, <1>7, <2>1, Zenon DEF Inside
<1>10. Outside' /\ (Unquoted \/ dollarT \in Tags)'
  BY <1>1, <1>3, <1>7, <1>8, Zenon DEF Outside
<1>11. Scan'
  BY <1>1, <1>2, <1>3, <1>9, <1>10, ScanInPostgres, Zenon
<1>12. i \in Keep
  <2>1. i \in i .. n /\ \A q \in Free : ~(i < q /\ q <= i)
    <3>1. Free \subseteq 1 .. n
      BY <1>1, FreeIs
    <3> QED
      BY <1>1, <3>1
  <2>2. text[i] \notin LineComments \cup {"/*"}
    BY <1>1, Marked
  <2>3. i \notin Cut
    <3>1. Opens(i)
      BY <1>1, Zenon DEF Opens
    <3> QED
      BY <1>1, <3>1, CutsAreMarks, Zenon
  <2> QED
    BY <1>1, <2>1, <2>2, <2>3, NotCommented
<1> QED
  BY <1>1, <1>3, <1>6, <1>11, <1>12, OneAdded, Zenon

LEMMA DollarQuotedStep ==
  ASSUME Scan, line \in Nat, DollarQuoted
  PROVE  Scan' /\ Reads /\ Adds(<<i>>)
<1>1. File /\ n \in Nat /\ i <= n /\ ~Unquoted /\ (Unquoted \/ dollarT \in Tags)
  BY Zenon DEF DollarQuoted, Unquoted, Scan, ScanTypes, File
<1>2. i \in 1 .. n /\ i \notin Free /\ ~mysql /\ i \in Keep
  BY <1>1, HereIsQuoted, Zenon
<1>3. /\ i' = i + 1 /\ Emit(<<i>>)
      /\ line' = line + (IF text[i] = Newline THEN 1 ELSE 0)
      /\ UNCHANGED <<mysql, text, done, delim, bol>>
  BY Zenon DEF DollarQuoted, Goto
<1>4. Reads /\ \A p \in 1 .. n : i <= p /\ p < i' <=> p = i
  BY <1>1, <1>3, OneReads
<1>5. /\ n' = n /\ File' = File /\ Tags' = Tags /\ Free' = Free
      /\ \A o : Opens(o)' = Opens(o) /\ LastOf(o)' = LastOf(o)
  BY <1>3, SameFile, Zenon
<1>6. IF text[i] = dollarT THEN Unquoted' ELSE dollarT' = dollarT /\ ~Unquoted'
  BY <1>1, Zenon DEF DollarQuoted, Unquoted
<1>7. PICK d \in Free : /\ d < i /\ text[d] = dollarT /\ \A p \in d + 1 .. i - 1 : text[p] # dollarT
  BY <1>1, Zenon DEF Scan, Inside
<1>8. d \in 1 .. n /\ i \in d + 1 .. n
  BY <1>1, <1>2, <1>7, FreeIs
<1>9. text[d] \in Tags
  BY <1>1, <1>7, Zenon
<1>10. i <= LastOf(d) /\ (text[i] = dollarT => LastOf(d) = i)
  BY <1>1, <1>7, <1>8, <1>9, DollarQuoteEnds
<1>11. Opens(d)
  BY <1>9, Zenon DEF Opens
<1>12. CASE text[i] = dollarT
  <2>1. Unquoted' /\ LastOf(d) = i
    BY <1>6, <1>10, <1>12, Zenon
  <2>2. \A o \in Free : o < i' /\ Opens(o) => LastOf(o) < i'
    <3> SUFFICES ASSUME NEW o \in Free, o < i', Opens(o) PROVE LastOf(o) < i'
      OBVIOUS
    <3>1. o \in 1 .. n /\ LastOf(o) \in o .. n
      BY <1>1, FreeIs, LastOfIn
    <3>2. o # i
      BY <1>2
    <3>3. ~(d < o /\ o <= LastOf(d))
      BY <1>1, <1>11, NothingFree
    <3>4. o < d => LastOf(o) < d
      BY <1>1, <1>8, FreeIs
    <3> QED
      BY <1>1, <1>3, <1>8, <2>1, <3>1, <3>2, <3>3, <3>4
  <2>3. Outside'
    BY <1>5, <2>2, Zenon DEF Outside
  <2>4. Inside'
    BY <2>1, Zenon DEF Inside
  <2>5. Scan'
    BY <1>1, <1>2, <1>3, <2>1, <2>3, <2>4, ScanInPostgres, Zenon
  <2> QED
    BY <1>1, <1>2, <1>3, <1>4, <2>5, OneAdded
<1>13. CASE text[i] # dollarT
  <2>1. dollarT' = dollarT /\ ~Unquoted' /\ Outside'
    BY <1>6, <1>13, Zenon DEF Outside
  <2>2. d < i' /\ \A p \in d + 1 .. i' - 1 : p \in d + 1 .. i - 1 \/ p = i
    BY <1>1, <1>3, <1>8
  <2>3. \A p \in d + 1 .. i' - 1 : text[p] # dollarT
    BY <1>7, <1>13, <2>2, Zenon
  <2>4. Inside'
    BY <1>3, <1>5, <1>7, <2>1, <2>2, <2>3, Zenon DEF Inside
  <2>5. (Unquoted \/ dollarT \in Tags)'
    BY <1>1, <1>5, <2>1, Zenon
  <2>6. Scan'
    BY <1>1, <1>2, <1>3, <2>1, <2>4, <2>5, ScanInPostgres, Zenon
  <2> QED
    BY <1>1, <1>2, <1>3, <1>4, <2>6, OneAdded
<1> QED
  BY <1>12, <1>13, Zenon

-----------------------------------------------------------------------------
(***************************************************************************)
(* Lists of places in order.                                               *)
(***************************************************************************)
LEMMA SeqIs ==
  ASSUME NEW S, NEW s \in Seq(S)
  PROVE  Len(s) \in Nat /\ DOMAIN s = 1 .. Len(s) /\ \A k \in 1 .. Len(s) : s[k] \in S
OBVIOUS

LEMMA SubSeqIs ==
  ASSUME NEW S, NEW s \in Seq(S), NEW lo \in 1 .. Len(s), NEW hi \in lo .. Len(s)
  PROVE  /\ SubSeq(s, lo, hi) \in Seq(S) /\ Len(SubSeq(s, lo, hi)) = hi - lo + 1
         /\ DOMAIN SubSeq(s, lo, hi) = 1 .. hi - lo + 1
         /\ \A k \in 1 .. hi - lo + 1 : SubSeq(s, lo, hi)[k] = s[lo + k - 1]
OBVIOUS

LEMMA SubSeqAt ==
  ASSUME NEW s \in Seq(1 .. n), NEW lo \in 1 .. Len(s), NEW hi \in lo .. Len(s),
         NEW t, t = SubSeq(s, lo, hi)
  PROVE  /\ t \in Seq(1 .. n) /\ Len(t) = hi - lo + 1
         /\ DOMAIN t = 1 .. hi - lo + 1
         /\ \A k \in 1 .. hi - lo + 1 : t[k] = s[lo + k - 1]
<1>1. /\ SubSeq(s, lo, hi) \in Seq(1 .. n) /\ Len(SubSeq(s, lo, hi)) = hi - lo + 1
      /\ DOMAIN SubSeq(s, lo, hi) = 1 .. hi - lo + 1
      /\ \A k \in 1 .. hi - lo + 1 : SubSeq(s, lo, hi)[k] = s[lo + k - 1]
  BY SubSeqIs
<1> QED
  BY <1>1, Zenon

(***************************************************************************)
(* Two lists in order, one before the other, make one in order.            *)
(***************************************************************************)
LEMMA Joined ==
  ASSUME NEW s \in Seq(1 .. n), NEW t \in Seq(1 .. n), Increasing(s), Increasing(t),
         \A x \in ToSet(s), y \in ToSet(t) : x < y
  PROVE  /\ s \o t \in Seq(1 .. n) /\ Increasing(s \o t)
         /\ ToSet(s \o t) = ToSet(s) \cup ToSet(t)
<1> DEFINE j == s \o t
<1>1. /\ j \in Seq(1 .. n) /\ Len(j) = Len(s) + Len(t) /\ Len(s) \in Nat /\ Len(t) \in Nat
      /\ DOMAIN s = 1 .. Len(s) /\ DOMAIN t = 1 .. Len(t) /\ DOMAIN j = 1 .. Len(j)
      /\ \A k \in 1 .. Len(s) : j[k] = s[k]
      /\ \A k \in 1 .. Len(t) : j[Len(s) + k] = t[k]
  OBVIOUS
<1> HIDE DEF j
<1>2. \A k \in 1 .. Len(j) :
        \/ k \in 1 .. Len(s)
        \/ k - Len(s) \in 1 .. Len(t) /\ Len(s) + (k - Len(s)) = k
  BY <1>1
<1>3. \A k \in 1 .. Len(j) :
        \/ k \in 1 .. Len(s) /\ j[k] = s[k]
        \/ k - Len(s) \in 1 .. Len(t) /\ j[k] = t[k - Len(s)]
  BY <1>1, <1>2
<1>4. \A k \in 1 .. Len(s) : k \in 1 .. Len(j)
  BY <1>1
<1>5. \A k \in 1 .. Len(t) : Len(s) + k \in 1 .. Len(j)
  BY <1>1
<1>6. ToSet(j) = ToSet(s) \cup ToSet(t)
  <2>1. /\ \A p : p \in ToSet(j) <=> \E k \in 1 .. Len(j) : j[k] = p
        /\ \A p : p \in ToSet(s) <=> \E k \in 1 .. Len(s) : s[k] = p
        /\ \A p : p \in ToSet(t) <=> \E k \in 1 .. Len(t) : t[k] = p
    BY <1>1, Zenon DEF ToSet
  <2>2. ASSUME NEW p \in ToSet(j) PROVE p \in ToSet(s) \/ p \in ToSet(t)
    BY <1>3, <2>1, <2>2, Zenon
  <2>3. ASSUME NEW p \in ToSet(s) PROVE p \in ToSet(j)
    BY <1>1, <1>4, <2>1, <2>3, Zenon
  <2>4. ASSUME NEW p \in ToSet(t) PROVE p \in ToSet(j)
    BY <1>1, <1>5, <2>1, <2>4, Zenon
  <2> QED
    BY <2>2, <2>3, <2>4
<1>7. Increasing(j)
  <2> SUFFICES ASSUME NEW a \in 1 .. Len(j), NEW b \in 1 .. Len(j), a < b PROVE j[a] < j[b]
    BY <1>1 DEF Increasing
  <2>1. CASE a \in 1 .. Len(s) /\ b \in 1 .. Len(s)
    BY <1>1, <2>1 DEF Increasing
  <2>2. CASE a \in 1 .. Len(s) /\ b - Len(s) \in 1 .. Len(t)
    <3>1. s[a] \in ToSet(s) /\ t[b - Len(s)] \in ToSet(t)
      BY <1>1, <2>2, Zenon DEF ToSet
    <3>2. j[a] = s[a] /\ j[b] = t[b - Len(s)]
      <4>1. ~(b \in 1 .. Len(s))
        BY <1>1, <2>2
      <4> QED
        BY <1>1, <1>3, <2>2, <4>1
    <3> QED
      BY <3>1, <3>2
  <2>3. CASE a - Len(s) \in 1 .. Len(t) /\ b - Len(s) \in 1 .. Len(t)
    <3>1. j[a] = t[a - Len(s)] /\ j[b] = t[b - Len(s)]
      <4>1. ~(a \in 1 .. Len(s)) /\ ~(b \in 1 .. Len(s))
        BY <1>1, <2>3
      <4> QED
        BY <1>3, <4>1
    <3>2. a - Len(s) < b - Len(s)
      BY <1>1
    <3> QED
      BY <1>1, <2>3, <3>1, <3>2 DEF Increasing
  <2>4. ~(a - Len(s) \in 1 .. Len(t) /\ b \in 1 .. Len(s))
    BY <1>1
  <2> QED
    BY <1>2, <2>1, <2>2, <2>3, <2>4
<1> QED
  BY <1>1, <1>6, <1>7 DEF j

(***************************************************************************)
(* Trim leaves out the blanks before the first word and after the last.    *)
(***************************************************************************)
LEMMA TrimIs ==
  ASSUME NEW s \in Seq(1 .. n), Increasing(s)
  PROVE  /\ Trim(s) \in Seq(1 .. n) /\ Increasing(Trim(s))
         /\ ToSet(Trim(s)) = {p \in ToSet(s) :
                                \E x, y \in ToSet(s) :
                                  ~IsBlank(x) /\ ~IsBlank(y) /\ x <= p /\ p <= y}
         /\ Trim(s) = <<>> <=> \A p \in ToSet(s) : IsBlank(p)
         /\ Trim(s) # <<>> =>
              /\ Trim(s)[1] \in ToSet(s) /\ ~IsBlank(Trim(s)[1])
              /\ \A p \in ToSet(s) : ~IsBlank(p) => Trim(s)[1] <= p
<1> DEFINE kept == {k \in DOMAIN s : ~IsBlank(s[k])}
           lo == Min(kept)
           hi == Max(kept)
           t == SubSeq(s, lo, hi)
<1>1. Len(s) \in Nat /\ DOMAIN s = 1 .. Len(s) /\ \A k \in 1 .. Len(s) : s[k] \in 1 .. n
  BY SeqIs
<1>2. Trim(s) = IF kept = {} THEN <<>> ELSE t
  BY Zenon DEF Trim
<1>3. \A p : p \in ToSet(s) <=> \E k \in 1 .. Len(s) : s[k] = p
  BY <1>1, Zenon DEF ToSet
<1>4. kept = {} <=> \A p \in ToSet(s) : IsBlank(p)
  BY <1>1, <1>3, Zenon
<1>5. CASE kept = {}
  <2>1. Trim(s) = <<>> /\ \A p \in ToSet(s) : IsBlank(p)
    BY <1>2, <1>4, <1>5, Zenon
  <2>2. {p \in ToSet(s) : \E x, y \in ToSet(s) :
           ~IsBlank(x) /\ ~IsBlank(y) /\ x <= p /\ p <= y} = {}
    BY <2>1
  <2> QED
    BY <2>1, <2>2, NoPlace
<1>6. CASE kept # {}
  <2>1. /\ kept \in SUBSET Nat /\ kept \in SUBSET (1 .. Len(s))
    BY <1>1
  <2>2. lo \in kept /\ (\A k \in kept : lo <= k) /\ hi \in kept /\ \A k \in kept : k <= hi
    <3> HIDE DEF kept
    <3> QED
      BY <1>1, <1>6, <2>1, MinExists, MaxExists
  <2>3. lo \in 1 .. Len(s) /\ hi \in 1 .. Len(s) /\ lo <= hi /\ ~IsBlank(s[lo]) /\ ~IsBlank(s[hi])
    BY <2>1, <2>2
  <2>4. \A k \in 1 .. Len(s) : ~IsBlank(s[k]) => lo <= k /\ k <= hi
    BY <1>1, <2>2
  <2> HIDE DEF kept, lo, hi
  <2>5. /\ t \in Seq(1 .. n) /\ Len(t) = hi - lo + 1 /\ DOMAIN t = 1 .. hi - lo + 1
        /\ \A k \in 1 .. hi - lo + 1 : t[k] = s[lo + k - 1]
    <3>1. hi \in lo .. Len(s)
      BY <1>1, <2>3
    <3> QED
      BY <2>3, <3>1, SubSeqAt
  <2> HIDE DEF t
  <2>6. \A k \in 1 .. hi - lo + 1 : lo + k - 1 \in 1 .. Len(s) /\ lo + k - 1 \in lo .. hi
    BY <1>1, <2>3
  <2>7. \A k \in lo .. hi : k - lo + 1 \in 1 .. hi - lo + 1 /\ lo + (k - lo + 1) - 1 = k
    BY <1>1, <2>3
  <2>8. Increasing(t)
    <3> SUFFICES ASSUME NEW a \in 1 .. hi - lo + 1, NEW b \in 1 .. hi - lo + 1, a < b
                 PROVE  t[a] < t[b]
      BY <2>5 DEF Increasing
    <3>1. lo + a - 1 < lo + b - 1
      BY <1>1, <2>3
    <3> QED
      BY <1>1, <2>5, <2>6, <3>1 DEF Increasing
  <2>9. \A p : p \in ToSet(t) <=> \E k \in lo .. hi : s[k] = p
    <3>1. \A p : p \in ToSet(t) <=> \E k \in 1 .. hi - lo + 1 : t[k] = p
      BY <2>5, Zenon DEF ToSet
    <3>2. \A k \in 1 .. hi - lo + 1 : \E m \in lo .. hi : t[k] = s[m]
      BY <2>5, <2>6
    <3>3. \A m \in lo .. hi : \E k \in 1 .. hi - lo + 1 : t[k] = s[m]
      BY <2>5, <2>7
    <3> QED
      BY <3>1, <3>2, <3>3, Zenon
  <2>10. \A a, b \in 1 .. Len(s) : a <= b <=> s[a] <= s[b]
    <3>1. \A a, b \in 1 .. Len(s) : a < b => s[a] < s[b]
      BY <1>1 DEF Increasing
    <3> QED
      BY <1>1, <3>1
  <2>11. \A p : p \in ToSet(t) <=>
           p \in ToSet(s) /\ \E x, y \in ToSet(s) :
                               ~IsBlank(x) /\ ~IsBlank(y) /\ x <= p /\ p <= y
    <3>1. ASSUME NEW p \in ToSet(t)
          PROVE  p \in ToSet(s) /\ \E x, y \in ToSet(s) :
                               ~IsBlank(x) /\ ~IsBlank(y) /\ x <= p /\ p <= y
      <4>1. PICK k \in lo .. hi : s[k] = p
        BY <2>9, <3>1
      <4>2. k \in 1 .. Len(s) /\ s[lo] <= s[k] /\ s[k] <= s[hi]
        BY <1>1, <2>3, <2>10
      <4> QED
        BY <1>3, <2>3, <4>1, <4>2, Zenon
    <3>2. ASSUME NEW p \in ToSet(s), NEW x \in ToSet(s), NEW y \in ToSet(s),
                 ~IsBlank(x), ~IsBlank(y), x <= p, p <= y
          PROVE  p \in ToSet(t)
      <4>1. PICK k \in 1 .. Len(s), a \in 1 .. Len(s), b \in 1 .. Len(s) :
               s[k] = p /\ s[a] = x /\ s[b] = y
        BY <1>3, Zenon
      <4>2. lo <= a /\ b <= hi
        BY <2>4, <3>2, <4>1
      <4>3. a <= k /\ k <= b
        BY <2>10, <3>2, <4>1
      <4>4. k \in lo .. hi
        BY <1>1, <2>3, <4>2, <4>3
      <4> QED
        BY <2>9, <4>1, <4>4, Zenon
    <3> QED
      BY <3>1, <3>2, Zenon
  <2>12. ToSet(t) = {p \in ToSet(s) : \E x, y \in ToSet(s) :
                       ~IsBlank(x) /\ ~IsBlank(y) /\ x <= p /\ p <= y}
    BY <2>11, Zenon
  <2>13. t[1] = s[lo] /\ t # <<>>
    BY <1>1, <2>3, <2>5
  <2>14. s[lo] \in ToSet(s) /\ ~IsBlank(s[lo])
    BY <1>3, <2>3, Zenon
  <2>15. ASSUME NEW p \in ToSet(s), ~IsBlank(p) PROVE s[lo] <= p
    <3>1. PICK k \in 1 .. Len(s) : s[k] = p
      BY <1>3, Zenon
    <3> QED
      BY <2>3, <2>4, <2>10, <2>15, <3>1
  <2>16. Trim(s) = t
    BY <1>2, <1>6, Zenon
  <2>17. ~(\A p \in ToSet(s) : IsBlank(p))
    BY <2>14
  <2> QED
    BY <2>5, <2>8, <2>12, <2>13, <2>14, <2>15, <2>16, <2>17, Zenon
<1> QED
  BY <1>5, <1>6, Zenon

(***************************************************************************)
(* Counting lines.                                                         *)
(***************************************************************************)
LEMMA LinesFinite ==
  ASSUME File, NEW a, NEW b
  PROVE  IsFiniteSet(LinesIn(a, b)) /\ Cardinality(LinesIn(a, b)) \in Nat
<1>1. n \in Nat /\ LinesIn(a, b) \subseteq 1 .. n
  BY DEF File, LinesIn
<1>2. IsFiniteSet(1 .. n)
  BY <1>1, FS_Interval
<1>3. IsFiniteSet(LinesIn(a, b))
  BY <1>1, <1>2, FS_Subset
<1> QED
  BY <1>3, FS_CardinalityType

(***************************************************************************)
(* Lines are counted turn by turn.                                         *)
(***************************************************************************)
LEMMA LinesAdd ==
  ASSUME File, NEW a \in 1 .. n + 1, NEW b \in a .. n + 1, NEW c \in b .. n + 1
  PROVE  Cardinality(LinesIn(a, c)) = Cardinality(LinesIn(a, b)) + Cardinality(LinesIn(b, c))
<1>1. n \in Nat
  BY DEF File
<1>2. \A p \in 1 .. n : a <= p /\ p < c <=> (a <= p /\ p < b) \/ (b <= p /\ p < c)
  BY <1>1
<1>3. LinesIn(a, c) = LinesIn(a, b) \cup LinesIn(b, c)
  BY <1>2 DEF LinesIn
<1>4. LinesIn(a, b) \cap LinesIn(b, c) = {}
  BY <1>1 DEF LinesIn
<1>5. IsFiniteSet(LinesIn(a, b)) /\ IsFiniteSet(LinesIn(b, c))
  BY LinesFinite
<1>6. /\ Cardinality(LinesIn(a, b)) \in Nat /\ Cardinality(LinesIn(b, c)) \in Nat
  BY LinesFinite
<1>7. Cardinality(LinesIn(a, b) \cup LinesIn(b, c))
        = Cardinality(LinesIn(a, b)) + Cardinality(LinesIn(b, c))
          - Cardinality(LinesIn(a, b) \cap LinesIn(b, c))
  BY <1>5, FS_Union
<1> QED
  BY <1>3, <1>4, <1>6, <1>7, FS_EmptySet

LEMMA LineOfIs ==
  ASSUME File, NEW p \in 1 .. n + 1
  PROVE  LineOf(p) = 1 + Cardinality(LinesIn(1, p)) /\ LineOf(p) \in 1 .. n + 1
<1>1. n \in Nat
  BY DEF File
<1>2. Newlines(1, p - 1) = LinesIn(1, p)
  <2>1. 1 \in 1 .. n + 1 /\ p - 1 \in Nat /\ p - 1 <= n /\ (p - 1) + 1 = p
    BY <1>1
  <2>2. Newlines(1, p - 1) = LinesIn(1, (p - 1) + 1)
    BY <2>1, NewlinesAre
  <2> QED
    BY <2>1, <2>2
<1>3. Cardinality(LinesIn(1, p)) \in Nat
  BY LinesFinite
<1>4. Cardinality(LinesIn(1, p)) <= n
  <2>1. IsFiniteSet(1 .. n) /\ Cardinality(1 .. n) = IF 1 > n THEN 0 ELSE n - 1 + 1
    BY <1>1, FS_Interval
  <2>2. Cardinality(1 .. n) = n
    BY <1>1, <2>1
  <2>3. LinesIn(1, p) \in SUBSET (1 .. n)
    BY DEF LinesIn
  <2>4. Cardinality(LinesIn(1, p)) <= Cardinality(1 .. n)
    BY <2>1, <2>3, FS_Subset
  <2> QED
    BY <2>2, <2>4
<1>5. LineOf(p) = 1 + Cardinality(LinesIn(1, p))
  BY <1>2 DEF LineOf
<1> QED
  BY <1>1, <1>3, <1>4, <1>5

-----------------------------------------------------------------------------
(***************************************************************************)
(* What has been read.                                                     *)
(***************************************************************************)
LineIs == line = LineOf(i)

(***************************************************************************)
(* The buffer has what is kept between the last end of a statement, at a,  *)
(* and i; up to s there are only blanks, which a DELIMITER line's turn     *)
(* passed over.                                                            *)
(***************************************************************************)
Holds(a, s) ==
  /\ a \in Cut \cup {0} /\ a <= s /\ s < i
  /\ \A c \in Cut : ~(a < c /\ c < i)
  /\ \A p \in 1 .. n : a < p /\ p <= s => IsBlank(p)
  /\ ToSet(buf) = {p \in Keep : s < p /\ p < i}

BufTyped == buf \in Seq(1 .. n) /\ Increasing(buf)
BufIs == ~done => \E a, s \in Nat : Holds(a, s)

(***************************************************************************)
(* The first word of the statement being read.                             *)
(***************************************************************************)
First(p) == p \in ToSet(buf) /\ ~IsBlank(p) /\ \A q \in ToSet(buf) : ~IsBlank(q) => p <= q

(***************************************************************************)
(* start is 0 until there is a word, then the line of the first one, but   *)
(* for a quote, where it is the line the quote ends on.                    *)
(***************************************************************************)
StartIs ==
  /\ start \in Nat /\ start <= line
  /\ start = 0 <=> \A p \in ToSet(buf) : IsBlank(p)
  /\ \A p : First(p) /\ text[p] \notin Quotes => start = LineOf(p)

(***************************************************************************)
(* A statement put out: in the order of the file, with all line ends       *)
(* between its words, and with the line of its first word.                 *)
(***************************************************************************)
WellRead(st) ==
  /\ st.text # <<>> /\ Increasing(st.text)
  /\ \A p \in 1 .. n :
       text[p] = Newline /\ st.text[1] <= p /\ p <= st.text[Len(st.text)] => p \in ToSet(st.text)
  /\ text[st.text[1]] \notin Quotes => st.line = LineOf(st.text[1])

OutTyped == out \in Seq([text : Seq(1 .. n), line : 1 .. n + 1])
OutRead == \A k \in 1 .. Len(out) : WellRead(out[k])

(***************************************************************************)
(* The statement after the end a, and whether the scan has passed its end. *)
(***************************************************************************)
Statement(a) == Between(Keep, a, NextCut(Cut, a))
Passed(a) == done \/ NextCut(Cut, a) < i

(***************************************************************************)
(* What was put out are the statements passed, but for those without a     *)
(* word.                                                                   *)
(***************************************************************************)
OutIs ==
  /\ \A k \in 1 .. Len(out) : \E a \in Cut \cup {0} : Passed(a) /\ ToSet(out[k].text) = Statement(a)
  /\ \A a \in Cut \cup {0} : Passed(a) /\ Statement(a) # {} =>
       \E k \in 1 .. Len(out) : ToSet(out[k].text) = Statement(a)

(***************************************************************************)
(* All of these depend on the file alone.                                  *)
(***************************************************************************)
LEMMA SamePlaces ==
  ASSUME UNCHANGED <<mysql, text>>
  PROVE  /\ \A p : IsBlank(p)' = IsBlank(p) /\ LineOf(p)' = LineOf(p)
         /\ \A a : Statement(a)' = Statement(a) /\ NextCut(Cut, a)' = NextCut(Cut, a)
         /\ \A st : WellRead(st)' = WellRead(st)
<1>1. text' = text /\ n' = n /\ Cut' = Cut /\ Keep' = Keep
  BY SameFile, Zenon
<1>2. ASSUME NEW p PROVE IsBlank(p)' = IsBlank(p) /\ LineOf(p)' = LineOf(p)
  BY <1>1 DEF IsBlank, LineOf, Newlines
<1>3. ASSUME NEW a PROVE Statement(a)' = Statement(a) /\ NextCut(Cut, a)' = NextCut(Cut, a)
  BY <1>1 DEF Statement, Between, NextCut, IsBlank
<1>4. ASSUME NEW st PROVE WellRead(st)' = WellRead(st)
  BY <1>1 DEF WellRead, LineOf, Newlines
<1> QED
  BY <1>2, <1>3, <1>4, Zenon

(***************************************************************************)
(* The end of the statement after a.                                       *)
(***************************************************************************)
LEMMA NextCutIs ==
  ASSUME File, NEW a \in Cut \cup {0}
  PROVE  /\ NextCut(Cut, a) \in Cut \cup {n + 1} /\ NextCut(Cut, a) \in Nat
         /\ a < NextCut(Cut, a)
         /\ NextCut(Cut, a) <= n + 1 /\ \A c \in Cut : a < c => NextCut(Cut, a) <= c
<1> DEFINE later == {b \in Cut \cup {n + 1} : a < b}
<1>1. n \in Nat /\ Cut \subseteq 1 .. n /\ a \in Nat /\ a <= n
  BY CutIs, FreeIs DEF File
<1>2. later \in SUBSET Nat /\ n + 1 \in later
  <2>1. a < n + 1 /\ n + 1 \in Nat /\ \A c \in Cut : c \in Nat
    BY <1>1
  <2> QED
    BY <2>1
<1>3. Min(later) \in later /\ \A x \in later : Min(later) <= x
  <2> HIDE DEF later
  <2> QED
    BY <1>2, MinExists
<1>4. NextCut(Cut, a) = Min(later)
  BY Zenon DEF NextCut
<1> QED
  BY <1>1, <1>2, <1>3, <1>4

(***************************************************************************)
(* Of all statements, the one being read ends at this end.                 *)
(***************************************************************************)
LEMMA NextCutHere ==
  ASSUME Scan, i \in Cut \cup {n + 1}, NEW a, NEW s \in Nat, Holds(a, s)
  PROVE  \A x \in Cut \cup {0} : NextCut(Cut, x) <= i <=> NextCut(Cut, x) < i \/ x = a
<1>1. File /\ n \in Nat /\ i \in 1 .. n + 1
  BY Zenon DEF Scan, ScanTypes, File
<1>2. Cut \subseteq 1 .. n
  BY <1>1, CutIs, FreeIs
<1>3. a \in Cut \cup {0} /\ a < i /\ a \in Nat /\ \A c \in Cut : ~(a < c /\ c < i)
  BY <1>1, <1>2 DEF Holds
<1> SUFFICES ASSUME NEW x \in Cut \cup {0}
             PROVE  NextCut(Cut, x) <= i <=> NextCut(Cut, x) < i \/ x = a
  OBVIOUS
<1> DEFINE e == NextCut(Cut, x)
<1>4. /\ e \in Cut \cup {n + 1} /\ e \in Nat /\ x < e /\ e <= n + 1
      /\ \A c \in Cut : x < c => e <= c
  BY <1>1, NextCutIs
<1> HIDE DEF e
<1>5. x = a => e <= i
  BY <1>1, <1>2, <1>3, <1>4
<1>6. e = i => x = a
  <2> SUFFICES ASSUME e = i, x # a PROVE FALSE
    OBVIOUS
  <2>1. x \in Nat /\ x < i
    BY <1>1, <1>2, <1>4
  <2>2. CASE x < a
    <3>1. a \in Cut
      BY <1>3, <2>1, <2>2
    <3> QED
      BY <1>3, <1>4, <2>2, <3>1
  <2>3. CASE a < x
    <3>1. x \in Cut
      BY <1>3, <2>3
    <3> QED
      BY <1>3, <2>1, <2>3, <3>1
  <2> QED
    BY <1>3, <2>1, <2>2, <2>3
<1>7. e <= i <=> e < i \/ x = a
  BY <1>1, <1>4, <1>5, <1>6
<1> QED
  BY <1>7 DEF e

(***************************************************************************)
(* A statement that ends here is what is in the buffer but for its outer   *)
(* blanks.                                                                 *)
(***************************************************************************)
LEMMA StatementHere ==
  ASSUME Scan, i \in Cut \cup {n + 1}, NEW a, NEW s \in Nat, Holds(a, s), BufTyped
  PROVE  Statement(a) = ToSet(Trim(buf))
<1>1. File /\ n \in Nat /\ i \in 1 .. n + 1
  BY Zenon DEF Scan, ScanTypes, File
<1>2. Cut \subseteq 1 .. n /\ Keep \subseteq 1 .. n
  BY <1>1, CutIs, FreeIs, KeepIn
<1>3. /\ a \in Cut \cup {0} /\ a <= s /\ s < i /\ a \in Nat
      /\ \A p \in 1 .. n : a < p /\ p <= s => IsBlank(p)
      /\ ToSet(buf) = {p \in Keep : s < p /\ p < i}
  BY <1>1, <1>2 DEF Holds
<1>4. NextCut(Cut, a) = i
  <2>1. NextCut(Cut, a) <= i
    BY NextCutHere, <1>3
  <2>2. NextCut(Cut, a) \in Cut \cup {n + 1} /\ NextCut(Cut, a) \in Nat /\ a < NextCut(Cut, a)
    BY <1>1, <1>3, NextCutIs
  <2>3. \A c \in Cut : ~(a < c /\ c < i)
    BY DEF Holds
  <2> QED
    BY <1>1, <2>1, <2>2, <2>3
<1> DEFINE words == {p \in Keep : a < p /\ p < i /\ ~IsBlank(p)}
<1>5. \A p : p \in words <=> p \in ToSet(buf) /\ ~IsBlank(p)
  <2>1. \A p \in Keep : a < p /\ ~IsBlank(p) <=> s < p /\ ~IsBlank(p)
    <3>1. \A p \in Keep : p \in 1 .. n
      BY <1>2
    <3>2. \A p \in 1 .. n : s < p => a < p
      BY <1>3
    <3>3. \A p \in 1 .. n : a < p /\ ~IsBlank(p) => s < p
      BY <1>3
    <3> QED
      BY <3>1, <3>2, <3>3
  <2> QED
    BY <1>3, <2>1
<1>6. Statement(a) = {p \in Keep : \E x, y \in words : x <= p /\ p <= y}
  BY <1>4, Zenon DEF Statement, Between
<1> HIDE DEF words
<1>7. \A p \in Keep : (\E x, y \in words : x <= p /\ p <= y) => p \in ToSet(buf)
  <2> SUFFICES ASSUME NEW p \in Keep, NEW x \in words, NEW y \in words, x <= p, p <= y
               PROVE  s < p /\ p < i
    BY <1>3
  <2>1. x \in Keep /\ s < x /\ y \in Keep /\ y < i
    BY <1>3, <1>5
  <2> QED
    BY <1>1, <1>2, <2>1
<1>8. ToSet(Trim(buf)) = {p \in ToSet(buf) : \E x, y \in ToSet(buf) :
                            ~IsBlank(x) /\ ~IsBlank(y) /\ x <= p /\ p <= y}
  BY TrimIs DEF BufTyped
<1>9. ToSet(buf) \subseteq Keep
  BY <1>3
<1> QED
  BY <1>5, <1>6, <1>7, <1>8, <1>9

-----------------------------------------------------------------------------
(***************************************************************************)
(* A turn that adds to the statement, or ends it.                          *)
(***************************************************************************)
LEMMA AtTurn ==
  ASSUME Scan, Reads
  PROVE  /\ File /\ n \in Nat /\ i \in 1 .. n /\ i' \in i + 1 .. n + 1
         /\ Free \subseteq 1 .. n /\ Cut \subseteq 1 .. n /\ Keep \subseteq 1 .. n
         /\ \A c \in Cut : ~(i < c /\ c < i')
<1>1. File /\ n \in Nat /\ i \in 1 .. n + 1 /\ i' \in i + 1 .. n + 1
  BY Zenon DEF Scan, ScanTypes, File, Reads
<1>2. i \in 1 .. n
  BY <1>1
<1>3. Free \subseteq 1 .. n /\ Cut \subseteq 1 .. n /\ Keep \subseteq 1 .. n
  BY <1>1, CutIs, FreeIs, KeepIn
<1> QED
  BY <1>1, <1>2, <1>3, Zenon DEF Reads

(***************************************************************************)
(* The line counted is that of the place to read next.                     *)
(***************************************************************************)
LEMMA LineGoesOn ==
  ASSUME Scan, LineIs, Reads, UNCHANGED <<mysql, text>>
  PROVE  /\ LineIs' /\ line' = LineOf(i')
         /\ line \in 1 .. n + 1 /\ line' \in 1 .. n + 1 /\ line <= line'
<1>1. File /\ n \in Nat /\ i \in 1 .. n /\ i' \in i + 1 .. n + 1
  BY AtTurn
<1>2. line = LineOf(i) /\ line' = line + Cardinality(LinesIn(i, i'))
  BY DEF LineIs, Reads
<1>3. 1 \in 1 .. n + 1 /\ i \in 1 .. n + 1 /\ i' \in i .. n + 1 /\ i' \in 1 .. n + 1
  BY <1>1
<1>4. Cardinality(LinesIn(1, i')) = Cardinality(LinesIn(1, i)) + Cardinality(LinesIn(i, i'))
  BY <1>1, <1>3, LinesAdd
<1>5. /\ LineOf(i) = 1 + Cardinality(LinesIn(1, i)) /\ LineOf(i) \in 1 .. n + 1
      /\ LineOf(i') = 1 + Cardinality(LinesIn(1, i')) /\ LineOf(i') \in 1 .. n + 1
  BY <1>1, <1>3, LineOfIs
<1>6. Cardinality(LinesIn(1, i)) \in Nat /\ Cardinality(LinesIn(i, i')) \in Nat
  BY <1>1, LinesFinite
<1>7. line' = LineOf(i') /\ line <= line'
  BY <1>1, <1>2, <1>4, <1>5, <1>6
<1>8. LineOf(i)' = LineOf(i')
  BY DEF LineOf, Newlines
<1> QED
  BY <1>2, <1>5, <1>7, <1>8 DEF LineIs

(***************************************************************************)
(* A turn that adds leaves in the buffer what is kept up to where it read. *)
(***************************************************************************)
LEMMA BufGrows ==
  ASSUME Scan, Reads, BufTyped, BufIs, NEW places, Adds(places), UNCHANGED <<mysql, text>>
  PROVE  BufTyped' /\ BufIs' /\ ToSet(buf') = ToSet(buf) \cup ToSet(places)
<1>1. /\ File /\ n \in Nat /\ i \in 1 .. n /\ i' \in i + 1 .. n + 1
      /\ Cut \subseteq 1 .. n /\ Keep \subseteq 1 .. n
      /\ \A c \in Cut : ~(i < c /\ c < i')
  BY AtTurn
<1>2. /\ i \notin Cut
      /\ places \in Seq(1 .. n) /\ Increasing(places)
      /\ ToSet(places) = {p \in Keep : i <= p /\ p < i'}
      /\ buf' = buf \o places
  BY Zenon DEF Adds
<1>3. buf \in Seq(1 .. n) /\ Increasing(buf)
  BY DEF BufTyped
<1>4. PICK a \in Nat, s \in Nat : Holds(a, s)
  BY Zenon DEF BufIs, Reads
<1>5. /\ a \in Cut \cup {0} /\ a <= s /\ s < i
      /\ \A c \in Cut : ~(a < c /\ c < i)
      /\ \A p \in 1 .. n : a < p /\ p <= s => IsBlank(p)
      /\ ToSet(buf) = {p \in Keep : s < p /\ p < i}
  BY <1>4, Zenon DEF Holds
<1>6. \A x \in ToSet(buf), y \in ToSet(places) : x < y
  <2>1. i \in Nat /\ \A x \in Keep : x \in Nat
    BY <1>1
  <2>2. \A x \in ToSet(buf) : x \in Nat /\ x < i
    BY <1>5, <2>1
  <2>3. \A y \in ToSet(places) : y \in Nat /\ i <= y
    BY <1>2, <2>1
  <2> QED
    BY <2>1, <2>2, <2>3
<1>7. /\ buf' \in Seq(1 .. n) /\ Increasing(buf')
      /\ ToSet(buf') = ToSet(buf) \cup ToSet(places)
  <2>1. /\ buf \o places \in Seq(1 .. n) /\ Increasing(buf \o places)
        /\ ToSet(buf \o places) = ToSet(buf) \cup ToSet(places)
    BY <1>2, <1>3, <1>6, Joined
  <2> QED
    BY <1>2, <2>1, Zenon
<1>8. /\ n' = n /\ Cut' = Cut /\ Keep' = Keep /\ \A p : IsBlank(p)' = IsBlank(p)
  BY SameFile, SamePlaces, Zenon
<1>9. BufTyped'
  BY <1>7, <1>8 DEF BufTyped, Increasing
<1>10. ToSet(buf') = {p \in Keep : s < p /\ p < i'}
  <2>1. \A p \in Keep : s < p /\ p < i' <=> (s < p /\ p < i) \/ (i <= p /\ p < i')
    BY <1>1, <1>5
  <2> QED
    BY <1>2, <1>5, <1>7, <2>1
<1>11. s < i' /\ \A c \in Cut : ~(a < c /\ c < i')
  <2>1. \A c \in Cut : c \in Nat /\ c # i
    BY <1>1, <1>2
  <2>2. a \in Nat /\ s < i'
    BY <1>1, <1>5
  <2> QED
    BY <1>1, <1>5, <2>1, <2>2
<1>12. Holds(a, s)'
  <2>1. ToSet(buf)' = ToSet(buf')
    BY DEF ToSet
  <2>2. \A p \in 1 .. n : a < p /\ p <= s => IsBlank(p)'
    BY <1>5, <1>8, Zenon
  <2> QED
    BY <1>5, <1>8, <1>10, <1>11, <2>1, <2>2, Zenon DEF Holds
<1>13. BufIs'
  BY <1>12, Zenon DEF BufIs
<1> QED
  BY <1>7, <1>9, <1>13

(***************************************************************************)
(* A turn that ends a statement begins the next.                           *)
(***************************************************************************)
LEMMA BufEmpties ==
  ASSUME Scan, Reads, Ends, UNCHANGED <<mysql, text>>
  PROVE  BufTyped' /\ BufIs'
<1>1. /\ File /\ n \in Nat /\ i \in 1 .. n /\ i' \in i + 1 .. n + 1
      /\ Cut \subseteq 1 .. n /\ Keep \subseteq 1 .. n
      /\ \A c \in Cut : ~(i < c /\ c < i')
  BY AtTurn
<1>2. /\ i \in Cut /\ buf' = <<>>
      /\ \A p \in 1 .. n : i < p /\ p < i' => text[p] = Blank
  BY Zenon DEF Ends, Flush
<1>3. n' = n /\ Cut' = Cut /\ Keep' = Keep /\ text' = text
  BY SameFile, Zenon
<1>4. BufTyped' /\ ToSet(buf') = {}
  <2>1. <<>> \in Seq(1 .. n) /\ Increasing(<<>>) /\ ToSet(<<>>) = {}
    BY NoPlace
  <2> QED
    BY <1>2, <1>3, <2>1 DEF BufTyped, Increasing, ToSet
<1>5. \E s \in Nat : i <= s /\ s < i' /\ \A p \in Nat : p <= s <=> p < i'
  <2>1. \A j, k \in Nat : j < k =>
          k - 1 \in Nat /\ j <= k - 1 /\ k - 1 < k /\ \A p \in Nat : p <= k - 1 <=> p < k
    OBVIOUS
  <2>2. i \in Nat /\ i' \in Nat /\ i < i'
    BY <1>1
  <2> QED
    BY <2>1, <2>2, Zenon
<1>6. PICK a \in Nat, s \in Nat : a = i /\ i <= s /\ s < i' /\ \A p \in Nat : p <= s <=> p < i'
  <2>1. i \in Nat
    BY <1>1
  <2> QED
    BY <1>5, <2>1, Zenon
<1>7. \A p \in 1 .. n : i < p /\ p <= s => IsBlank(p)'
  <2>1. \A p \in 1 .. n : i < p /\ p <= s => text'[p] = Blank
    BY <1>2, <1>3, <1>6
  <2> QED
    BY <2>1 DEF IsBlank
<1>8. {p \in Keep : s < p /\ p < i'} = {}
  <2>1. \A p \in Keep : p \in Nat
    BY <1>1
  <2> QED
    BY <1>6, <2>1
<1>9. Holds(a, s)'
  <2>1. ToSet(buf)' = ToSet(buf')
    BY DEF ToSet
  <2>2. ToSet(buf)' = {p \in Keep : s < p /\ p < i'}
    BY <1>4, <1>8, <2>1
  <2>3. /\ a \in Cut \cup {0} /\ a <= s /\ s < i'
        /\ \A c \in Cut : ~(a < c /\ c < i')
        /\ \A p \in 1 .. n : a < p /\ p <= s => IsBlank(p)'
    BY <1>1, <1>2, <1>6, <1>7, Zenon
  <2> QED
    BY <1>3, <2>2, <2>3, Zenon DEF Holds
<1>10. BufIs'
  BY <1>6, <1>9, Zenon DEF BufIs
<1> QED
  BY <1>4, <1>10

-----------------------------------------------------------------------------
(***************************************************************************)
(* The line a statement starts on is that of its first word.               *)
(***************************************************************************)
LEMMA StartIsThen ==
  ASSUME UNCHANGED <<mysql, text>>, start' \in Nat, start' <= line',
         start' = 0 <=> \A p \in ToSet(buf') : IsBlank(p),
         \A p \in ToSet(buf') :
           /\ ~IsBlank(p) /\ text[p] \notin Quotes
           /\ \A q \in ToSet(buf') : ~IsBlank(q) => p <= q
           => start' = LineOf(p)
  PROVE  StartIs'
<1>1. /\ text' = text /\ \A p : IsBlank(p)' = IsBlank(p) /\ LineOf(p)' = LineOf(p)
  BY SamePlaces, Zenon
<1>2. ToSet(buf)' = ToSet(buf')
  BY DEF ToSet
<1>3. Quotes' = Quotes
  BY DEF Quotes
<1>4. ASSUME NEW p, First(p)', text'[p] \notin Quotes PROVE start' = LineOf(p)'
  BY <1>1, <1>2, <1>4, Zenon DEF First
<1>5. (start = 0)' <=> \A p \in ToSet(buf') : IsBlank(p)'
  BY <1>1, Zenon
<1> QED
  BY <1>2, <1>3, <1>4, <1>5, Zenon DEF StartIs

LEMMA StartGoesOn ==
  ASSUME Scan, Reads, LineIs, BufTyped, BufIs, StartIs,
         NEW places, Adds(places), UNCHANGED <<mysql, text>>
  PROVE  StartIs'
<1>1. /\ File /\ n \in Nat /\ i \in 1 .. n /\ i' \in i + 1 .. n + 1
      /\ Cut \subseteq 1 .. n /\ Keep \subseteq 1 .. n
      /\ \A c \in Cut : ~(i < c /\ c < i')
  BY AtTurn
<1>2. /\ places \in Seq(1 .. n) /\ Increasing(places)
      /\ ToSet(places) = {p \in Keep : i <= p /\ p < i'}
      /\ start' = IF start = 0 /\ Trim(places) # <<>> THEN line' ELSE start
      /\ \A p \in ToSet(places) : ~IsBlank(p) =>
           /\ i \in ToSet(places) /\ ~IsBlank(i)
           /\ text[i] \in Quotes \/ line' = line
  BY Zenon DEF Adds
<1>3. Trim(places) = <<>> <=> \A p \in ToSet(places) : IsBlank(p)
  BY <1>2, TrimIs
<1>4. ToSet(buf') = ToSet(buf) \cup ToSet(places)
  BY BufGrows
<1>5. \A x \in ToSet(buf) : x \in Nat /\ x < i
  <2>1. PICK a \in Nat, s \in Nat : Holds(a, s)
    BY Zenon DEF BufIs, Reads
  <2>2. ToSet(buf) = {p \in Keep : s < p /\ p < i}
    BY <2>1, Zenon DEF Holds
  <2>3. \A x \in Keep : x \in Nat
    BY <1>1
  <2> QED
    BY <2>2, <2>3
<1>6. \A y \in ToSet(places) : y \in Nat /\ i <= y
  <2>1. \A x \in Keep : x \in Nat
    BY <1>1
  <2> QED
    BY <1>2, <2>1
<1>7. /\ start \in Nat /\ start <= line
      /\ start = 0 <=> \A p \in ToSet(buf) : IsBlank(p)
      /\ \A p : First(p) /\ text[p] \notin Quotes => start = LineOf(p)
  BY Zenon DEF StartIs
<1>8. line = LineOf(i) /\ line \in 1 .. n + 1 /\ line' \in 1 .. n + 1 /\ line <= line'
  BY LineGoesOn DEF LineIs
<1>9. i \in Nat
  BY <1>1
<1>10. start' \in Nat /\ start' <= line'
  BY <1>1, <1>2, <1>7, <1>8
<1>11. CASE start # 0
  <2>1. start' = start
    BY <1>2, <1>11
  <2>2. PICK w \in ToSet(buf) : ~IsBlank(w)
    BY <1>7, <1>11
  <2>3. ~(\A p \in ToSet(buf') : IsBlank(p))
    BY <1>4, <2>2
  <2>4. ASSUME NEW p \in ToSet(buf'), ~IsBlank(p), text[p] \notin Quotes,
               \A q \in ToSet(buf') : ~IsBlank(q) => p <= q
        PROVE  start' = LineOf(p)
    <3>1. p <= w
      BY <1>4, <2>2, <2>4
    <3>2. p \notin ToSet(places)
      BY <1>5, <1>6, <1>9, <2>2, <3>1
    <3>3. First(p)
      BY <1>4, <2>4, <3>2 DEF First
    <3> QED
      BY <1>7, <2>1, <2>4, <3>3
  <2> QED
    BY <1>10, <1>11, <2>1, <2>3, <2>4, StartIsThen
<1>12. CASE start = 0 /\ \A p \in ToSet(places) : IsBlank(p)
  <2>1. start' = 0
    BY <1>2, <1>3, <1>12
  <2>2. \A p \in ToSet(buf') : IsBlank(p)
    BY <1>4, <1>7, <1>12
  <2> QED
    BY <1>10, <2>1, <2>2, StartIsThen
<1>13. CASE start = 0 /\ \E p \in ToSet(places) : ~IsBlank(p)
  <2>1. start' = line' /\ start' # 0
    BY <1>1, <1>2, <1>3, <1>8, <1>13
  <2>2. i \in ToSet(places) /\ ~IsBlank(i) /\ (text[i] \in Quotes \/ line' = line)
    BY <1>2, <1>13
  <2>3. ~(\A p \in ToSet(buf') : IsBlank(p))
    BY <1>4, <2>2
  <2>4. ASSUME NEW p \in ToSet(buf'), ~IsBlank(p), text[p] \notin Quotes,
               \A q \in ToSet(buf') : ~IsBlank(q) => p <= q
        PROVE  start' = LineOf(p)
    <3>1. p <= i
      BY <1>4, <2>2, <2>4
    <3>2. p \notin ToSet(buf)
      BY <1>7, <1>13, <2>4
    <3>3. p = i
      BY <1>4, <1>6, <1>9, <3>1, <3>2
    <3> QED
      BY <1>8, <2>1, <2>2, <2>4, <3>3
  <2> QED
    BY <1>10, <2>1, <2>3, <2>4, StartIsThen
<1> QED
  BY <1>11, <1>12, <1>13

(***************************************************************************)
(* After a statement was ended nothing is being read.                      *)
(***************************************************************************)
LEMMA StartEmpties ==
  ASSUME UNCHANGED <<mysql, text>>, Flush, line' \in Nat
  PROVE  StartIs'
<1>1. start' = 0 /\ ToSet(buf') = {}
  <2>1. start' = 0 /\ buf' = <<>>
    BY Zenon DEF Flush
  <2> QED
    BY <2>1, NoPlace
<1>2. 0 \in Nat /\ 0 <= line'
  OBVIOUS
<1> QED
  BY <1>1, <1>2, StartIsThen

(***************************************************************************)
(* What ending a statement puts out.                                       *)
(***************************************************************************)
LEMMA PutOut ==
  ASSUME Scan, LineIs, BufTyped, BufIs, StartIs, ~done, Trim(buf) # <<>>
  PROVE  /\ [text |-> Trim(buf), line |-> start] \in [text : Seq(1 .. n), line : 1 .. n + 1]
         /\ WellRead([text |-> Trim(buf), line |-> start])
<1> DEFINE t == Trim(buf)
<1>1. File /\ n \in Nat /\ i \in 1 .. n + 1
  BY Zenon DEF Scan, ScanTypes, File
<1>2. buf \in Seq(1 .. n) /\ Increasing(buf)
  BY DEF BufTyped
<1>3. /\ t \in Seq(1 .. n) /\ Increasing(t)
      /\ \A p : p \in ToSet(t) <=> p \in ToSet(buf) /\ \E x, y \in ToSet(buf) :
                                   ~IsBlank(x) /\ ~IsBlank(y) /\ x <= p /\ p <= y
      /\ ~(\A p \in ToSet(buf) : IsBlank(p))
      /\ t[1] \in ToSet(buf) /\ ~IsBlank(t[1])
      /\ \A p \in ToSet(buf) : ~IsBlank(p) => t[1] <= p
  BY <1>2, TrimIs
<1> HIDE DEF t
<1>4. /\ Len(t) \in Nat /\ DOMAIN t = 1 .. Len(t) /\ Len(t) \in 1 .. Len(t)
      /\ \A k \in 1 .. Len(t) : t[k] \in 1 .. n
  <2>1. Len(t) \in Nat /\ DOMAIN t = 1 .. Len(t) /\ \A k \in 1 .. Len(t) : t[k] \in 1 .. n
    BY <1>3, SeqIs
  <2>2. t # <<>>
    BY DEF t
  <2>3. Len(t) # 0
    BY <1>3, <2>2
  <2> QED
    BY <2>1, <2>3
<1>5. t[1] \in ToSet(t) /\ t[Len(t)] \in ToSet(t)
  <2>1. 1 \in 1 .. Len(t)
    BY <1>4
  <2> QED
    BY <1>4, <2>1, Zenon DEF ToSet
<1>6. First(t[1])
  BY <1>3, Zenon DEF First
<1>7. start \in 1 .. n + 1 /\ (text[t[1]] \notin Quotes => start = LineOf(t[1]))
  <2>1. /\ start \in Nat /\ start <= line /\ start # 0
        /\ text[t[1]] \notin Quotes => start = LineOf(t[1])
    BY <1>3, <1>6, Zenon DEF StartIs
  <2>2. line \in 1 .. n + 1
    BY <1>1, LineOfIs DEF LineIs
  <2> QED
    BY <1>1, <2>1, <2>2
<1>8. PICK a \in Nat, s \in Nat : Holds(a, s)
  BY Zenon DEF BufIs
<1>9. /\ a \in Cut \cup {0} /\ a <= s /\ s < i
      /\ \A c \in Cut : ~(a < c /\ c < i)
      /\ ToSet(buf) = {p \in Keep : s < p /\ p < i}
  BY <1>8, Zenon DEF Holds
<1>10. ASSUME NEW p \in 1 .. n, text[p] = Newline, t[1] <= p, p <= t[Len(t)]
       PROVE  p \in ToSet(t)
  <2>1. t[1] \in ToSet(buf) /\ t[Len(t)] \in ToSet(buf)
    BY <1>3, <1>5, Zenon
  <2>2. Keep \subseteq 1 .. n
    BY KeepIn
  <2>3. s < p /\ p < i
    <3>1. \A x \in ToSet(buf) : x \in Nat /\ s < x /\ x < i
      <4>1. \A x \in Keep : x \in Nat
        BY <2>2
      <4> QED
        BY <1>9, <4>1
    <3>2. i \in Nat /\ p \in Nat
      BY <1>1
    <3> QED
      BY <1>10, <2>1, <3>1, <3>2
  <2>4. p \notin Cut
    <3>1. Newline \in {Blank, Newline}
      BY Zenon
    <3> QED
      BY <1>1, <1>10, <3>1, CutsAreMarks, Zenon
  <2>5. p \in Keep
    BY <1>10, <2>4, KeepIs, Zenon
  <2>6. p \in ToSet(buf)
    BY <1>9, <2>3, <2>5
  <2>7. PICK x \in ToSet(buf), y \in ToSet(buf) :
           ~IsBlank(x) /\ ~IsBlank(y) /\ x <= t[Len(t)] /\ t[Len(t)] <= y
    BY <1>3, <1>5, Zenon
  <2>8. y \in Nat /\ p <= y
    <3>1. y \in 1 .. n /\ t[Len(t)] \in 1 .. n
      BY <1>4, <1>9, <2>2
    <3> QED
      BY <1>10, <2>7, <3>1
  <2> QED
    BY <1>3, <1>10, <2>6, <2>7, <2>8, Zenon
<1>11. WellRead([text |-> t, line |-> start])
  <2> DEFINE st == [text |-> t, line |-> start]
  <2>1. st.text = t /\ st.line = start
    OBVIOUS
  <2> HIDE DEF st
  <2>2. t # <<>>
    BY DEF t
  <2>3. WellRead(st)
    BY <1>3, <1>7, <1>10, <2>1, <2>2, Zenon DEF WellRead
  <2> QED
    BY <2>3 DEF st
<1> QED
  BY <1>3, <1>7, <1>11 DEF t

-----------------------------------------------------------------------------
(***************************************************************************)
(* What has been put out.                                                  *)
(***************************************************************************)
LEMMA OutIsThen ==
  ASSUME UNCHANGED <<mysql, text>>,
         out' \in Seq([text : Seq(1 .. n), line : 1 .. n + 1]),
         \A k \in 1 .. Len(out') : WellRead(out'[k]),
         \A k \in 1 .. Len(out') :
           \E a \in Cut \cup {0} : Passed(a)' /\ ToSet(out'[k].text) = Statement(a),
         \A a \in Cut \cup {0} : Passed(a)' /\ Statement(a) # {} =>
           \E k \in 1 .. Len(out') : ToSet(out'[k].text) = Statement(a)
  PROVE  OutTyped' /\ OutRead' /\ OutIs'
<1>1. n' = n /\ Cut' = Cut
  BY SameFile, Zenon
<1>2. /\ \A a : Statement(a)' = Statement(a)
      /\ \A st : WellRead(st)' = WellRead(st)
  BY SamePlaces, Zenon
<1>3. OutTyped'
  BY <1>1, Zenon DEF OutTyped
<1>4. \A k : ToSet(out[k].text)' = ToSet(out'[k].text)
  BY DEF ToSet
<1>5. OutIs'
  BY <1>1, <1>2, <1>4, Zenon DEF OutIs
<1>6. OutRead'
  <2>1. text' = text /\ \A k \in 1 .. Len(out') : WellRead(out'[k])
    OBVIOUS
  <2>2. \A k \in 1 .. Len(out') : (WellRead(out[k]))'
    BY <1>1, <2>1 DEF WellRead, LineOf, Newlines, Quotes, ToSet, Increasing
  <2> QED
    BY <2>2 DEF OutRead
<1> QED
  BY <1>3, <1>5, <1>6

(***************************************************************************)
(* A turn that adds passes no end.                                         *)
(***************************************************************************)
LEMMA OutStays ==
  ASSUME Scan, Reads, NEW places, Adds(places), OutTyped, OutRead, OutIs,
         UNCHANGED <<mysql, text>>
  PROVE  OutTyped' /\ OutRead' /\ OutIs'
<1>1. /\ File /\ n \in Nat /\ i \in 1 .. n /\ i' \in i + 1 .. n + 1
      /\ Cut \subseteq 1 .. n
      /\ \A c \in Cut : ~(i < c /\ c < i')
  BY AtTurn
<1>2. out' = out /\ i \notin Cut /\ ~done /\ done' = done
  BY Zenon DEF Adds, Reads
<1>3. \A a \in Cut \cup {0} : Passed(a)' <=> Passed(a)
  <2> SUFFICES ASSUME NEW a \in Cut \cup {0} PROVE Passed(a)' <=> Passed(a)
    OBVIOUS
  <2>1. NextCut(Cut, a) \in Cut \cup {n + 1} /\ NextCut(Cut, a) \in Nat
    BY <1>1, NextCutIs
  <2>2. NextCut(Cut, a)' = NextCut(Cut, a)
    BY SamePlaces, Zenon
  <2>3. \A e \in Cut \cup {n + 1} : e \in Nat => (e < i' <=> e < i)
    <3>1. \A e \in Cut : e < i' <=> e < i
      <4>1. \A e \in Cut : e \in Nat /\ e # i
        BY <1>1, <1>2
      <4> QED
        BY <1>1, <4>1
    <3>2. n + 1 < i' <=> n + 1 < i
      BY <1>1
    <3> QED
      BY <3>1, <3>2
  <2> QED
    BY <1>2, <2>1, <2>2, <2>3, Zenon DEF Passed
<1> QED
  BY <1>2, <1>3, OutIsThen, Zenon DEF OutTyped, OutRead, OutIs

LEMMA Appended ==
  ASSUME NEW S, NEW s \in Seq(S), NEW e \in S
  PROVE  /\ Append(s, e) \in Seq(S)
         /\ Len(s) \in Nat /\ Len(Append(s, e)) = Len(s) + 1
         /\ Append(s, e)[Len(s) + 1] = e
         /\ \A k \in 1 .. Len(s) : Append(s, e)[k] = s[k]
OBVIOUS

(***************************************************************************)
(* With the buffer put out, one more statement is passed.                  *)
(***************************************************************************)
LEMMA OutGrows ==
  ASSUME Scan, LineIs, BufTyped, BufIs, StartIs, OutTyped, OutRead, OutIs, ~done, Flush,
         UNCHANGED <<mysql, text>>,
         NEW a \in Cut \cup {0}, Statement(a) = ToSet(Trim(buf)),
         \A x \in Cut \cup {0} : Passed(x)' <=> Passed(x) \/ x = a
  PROVE  OutTyped' /\ OutRead' /\ OutIs'
<1> DEFINE t == Trim(buf)
           e == [text |-> t, line |-> start]
           E == [text : Seq(1 .. n), line : 1 .. n + 1]
<1>1. out' = IF t = <<>> THEN out ELSE Append(out, e)
  BY Zenon DEF Flush
<1>2. out \in Seq(E)
  BY Zenon DEF OutTyped
<1>3. \A k \in 1 .. Len(out) : WellRead(out[k])
  BY Zenon DEF OutRead
<1>4. /\ \A k \in 1 .. Len(out) : \E x \in Cut \cup {0} : Passed(x) /\ ToSet(out[k].text) = Statement(x)
      /\ \A x \in Cut \cup {0} : Passed(x) /\ Statement(x) # {} =>
           \E k \in 1 .. Len(out) : ToSet(out[k].text) = Statement(x)
  BY Zenon DEF OutIs
<1>5. CASE t = <<>>
  <2>1. Statement(a) = {}
    BY <1>5, NoPlace, Zenon
  <2>2. out' = out
    BY <1>1, <1>5, Zenon
  <2> QED
    BY <1>2, <1>3, <1>4, <2>1, <2>2, OutIsThen, Zenon
<1>6. CASE t # <<>>
  <2>1. e \in E /\ WellRead(e)
    BY <1>6, PutOut
  <2>2. out' = Append(out, e)
    BY <1>1, <1>6, Zenon
  <2>3. e.text = t
    OBVIOUS
  <2>4. Statement(a) = ToSet(e.text)
    BY <2>3, Zenon
  <2> HIDE DEF e, E, t
  <2>5. /\ out' \in Seq(E)
        /\ Len(out) \in Nat /\ Len(out') = Len(out) + 1
        /\ out'[Len(out) + 1] = e
        /\ \A k \in 1 .. Len(out) : out'[k] = out[k]
    <3>1. /\ Append(out, e) \in Seq(E)
          /\ Len(out) \in Nat /\ Len(Append(out, e)) = Len(out) + 1
          /\ Append(out, e)[Len(out) + 1] = e
          /\ \A k \in 1 .. Len(out) : Append(out, e)[k] = out[k]
      BY <1>2, <2>1, Appended
    <3> QED
      BY <2>2, <3>1, Zenon
  <2>6. \A k : k \in 1 .. Len(out') <=> k \in 1 .. Len(out) \/ k = Len(out) + 1
    BY <2>5
  <2>7. \A k \in 1 .. Len(out') : WellRead(out'[k])
    BY <1>3, <2>1, <2>5, <2>6, Zenon
  <2>8. \A k \in 1 .. Len(out') :
          \E x \in Cut \cup {0} : Passed(x)' /\ ToSet(out'[k].text) = Statement(x)
    BY <1>4, <2>4, <2>5, <2>6, Zenon
  <2>9. \A x \in Cut \cup {0} : Passed(x)' /\ Statement(x) # {} =>
          \E k \in 1 .. Len(out') : ToSet(out'[k].text) = Statement(x)
    BY <1>4, <2>4, <2>5, <2>6, Zenon
  <2> QED
    BY <2>5, <2>7, <2>8, <2>9, OutIsThen DEF E
<1> QED
  BY <1>5, <1>6

(***************************************************************************)
(* A turn that ends a statement puts out the one that ends there.          *)
(***************************************************************************)
LEMMA EndsPutsOut ==
  ASSUME Scan, Reads, Ends, LineIs, BufTyped, BufIs, StartIs, OutTyped, OutRead, OutIs,
         UNCHANGED <<mysql, text>>
  PROVE  OutTyped' /\ OutRead' /\ OutIs'
<1>1. /\ File /\ n \in Nat /\ i \in 1 .. n /\ i' \in i + 1 .. n + 1
      /\ Cut \subseteq 1 .. n
      /\ \A c \in Cut : ~(i < c /\ c < i')
  BY AtTurn
<1>2. i \in Cut /\ Flush /\ ~done /\ done' = done
  BY Zenon DEF Ends, Reads
<1>3. PICK a \in Nat, s \in Nat : Holds(a, s)
  BY <1>2, Zenon DEF BufIs
<1>4. a \in Cut \cup {0}
  BY <1>3, Zenon DEF Holds
<1>5. i \in Cut \cup {n + 1}
  BY <1>2
<1>6. Statement(a) = ToSet(Trim(buf))
  BY <1>3, <1>5, StatementHere
<1>7. \A x \in Cut \cup {0} : NextCut(Cut, x) <= i <=> NextCut(Cut, x) < i \/ x = a
  BY <1>3, <1>5, NextCutHere
<1>8. \A x \in Cut \cup {0} : Passed(x)' <=> Passed(x) \/ x = a
  <2> SUFFICES ASSUME NEW x \in Cut \cup {0} PROVE Passed(x)' <=> Passed(x) \/ x = a
    OBVIOUS
  <2>1. NextCut(Cut, x) \in Cut \cup {n + 1} /\ NextCut(Cut, x) \in Nat
    BY <1>1, NextCutIs
  <2>2. NextCut(Cut, x)' = NextCut(Cut, x)
    BY SamePlaces, Zenon
  <2>3. \A e \in Cut \cup {n + 1} : e \in Nat => (e < i' <=> e <= i)
    <3>1. \A e \in Cut : e < i' <=> e <= i
      <4>1. \A e \in Cut : e \in Nat
        BY <1>1
      <4> QED
        BY <1>1, <4>1
    <3>2. ~(n + 1 < i') /\ ~(n + 1 <= i)
      BY <1>1
    <3> QED
      BY <3>1, <3>2
  <2> QED
    BY <1>2, <1>7, <2>1, <2>2, <2>3, Zenon DEF Passed
<1> QED
  BY <1>2, <1>4, <1>6, <1>8, OutGrows

(***************************************************************************)
(* The return puts out what was being read.                                *)
(***************************************************************************)
LEMMA ReturnPutsOut ==
  ASSUME Scan, i = n + 1, ~done, done', Flush,
         LineIs, BufTyped, BufIs, StartIs, OutTyped, OutRead, OutIs,
         UNCHANGED <<mysql, text>>
  PROVE  OutTyped' /\ OutRead' /\ OutIs'
<1>1. File /\ n \in Nat
  BY Zenon DEF Scan, File
<1>2. PICK a \in Nat, s \in Nat : Holds(a, s)
  BY Zenon DEF BufIs
<1>3. a \in Cut \cup {0}
  BY <1>2, Zenon DEF Holds
<1>4. i \in Cut \cup {n + 1}
  OBVIOUS
<1>5. Statement(a) = ToSet(Trim(buf))
  BY <1>2, <1>4, StatementHere
<1>6. \A x \in Cut \cup {0} : NextCut(Cut, x) <= i <=> NextCut(Cut, x) < i \/ x = a
  BY <1>2, <1>4, NextCutHere
<1>7. \A x \in Cut \cup {0} : NextCut(Cut, x) <= i
  BY <1>1, NextCutIs
<1>8. \A x \in Cut \cup {0} : Passed(x)' <=> Passed(x) \/ x = a
  BY <1>6, <1>7, Zenon DEF Passed
<1> QED
  BY <1>3, <1>5, <1>8, OutGrows

-----------------------------------------------------------------------------
(***************************************************************************)
(* The invariant, and that every turn keeps it.                            *)
(***************************************************************************)
Inv ==
  /\ Scan
  /\ LineIs
  /\ BufTyped
  /\ BufIs
  /\ StartIs
  /\ OutTyped
  /\ OutRead
  /\ OutIs

LEMMA Begins ==
  Init => Inv
<1> SUFFICES ASSUME Init PROVE Inv
  OBVIOUS
<1>1. File
  <2>1. mysql \in BOOLEAN /\ DelimiterLinesEnd /\ MaxTokens \in Nat
    BY TokensAssumption, Zenon DEF Init
  <2>2. PICK k \in 0 .. MaxTokens : text \in [1 .. k -> IF mysql THEN MySQLTokens ELSE PgTokens]
    BY Zenon DEF Init
  <2>3. k \in Nat /\ text \in [1 .. k -> PgTokens \cup MySQLTokens]
    BY <2>1, <2>2
  <2>4. text \in Seq(PgTokens \cup MySQLTokens) /\ Len(text) = k
    BY <2>3, FunctionIsSeq
  <2>5. n \in Nat
    BY <2>3, <2>4 DEF n
  <2> QED
    BY <2>1, <2>4, <2>5, Zenon DEF File
<1>2. i = 1 /\ line = 1 /\ start = 0 /\ buf = <<>> /\ out = <<>>
  BY Zenon DEF Init
<1>3. Unquoted /\ DelimTyped /\ delim = ";" /\ bol = TRUE /\ done = FALSE
  BY Zenon DEF Init, Unquoted, DelimTyped
<1>4. n \in Nat /\ Free \subseteq 1 .. n /\ Cut \subseteq 1 .. n /\ Keep \subseteq 1 .. n
  BY <1>1, FreeIs, CutIs, KeepIn DEF File
<1>5. Scan
  <2>1. i \in 1 .. n + 1 /\ \A o \in Free : ~(o < i)
    BY <1>2, <1>4
  <2>2. ScanTypes /\ Ended /\ Outside /\ Inside
    BY <1>3, <2>1, Zenon DEF ScanTypes, Ended, Outside, Inside
  <2>3. LineBegins(i)
    BY <1>2 DEF LineBegins
  <2>4. {d \in Sets : d < i} = {}
    BY <1>1, <2>1, SetsAre
  <2>5. DelimIs
    BY <1>3, <2>4, Zenon DEF DelimIs, DelimiterAt
  <2>6. BolIs
    BY <1>3, <2>3, Zenon DEF BolIs
  <2> QED
    BY <1>1, <2>2, <2>5, <2>6, Zenon DEF Scan
<1>6. LineIs
  <2>1. 1 \in Nat /\ 1 \in 1 .. n + 1 /\ \A p \in 1 .. n : 1 <= p /\ p < 1 => text[p] # Newline
    BY <1>4
  <2>2. Cardinality(LinesIn(1, 1)) = 0
    BY <1>1, <2>1, NoLines
  <2>3. LineOf(1) = 1 + Cardinality(LinesIn(1, 1))
    BY <1>1, <2>1, LineOfIs
  <2> QED
    BY <1>2, <2>2, <2>3 DEF LineIs
<1>7. BufTyped /\ ToSet(buf) = {}
  BY <1>2, NoPlace, Zenon DEF BufTyped
<1>8. BufIs
  <2>1. /\ 0 \in Nat /\ 0 <= 0 /\ 0 < i
        /\ \A c \in Cut : ~(0 < c /\ c < i)
        /\ \A p \in 1 .. n : ~(0 < p /\ p <= 0)
        /\ {p \in Keep : 0 < p /\ p < i} = {}
    <3>1. \A p \in Nat : ~(0 < p /\ p < 1) /\ ~(0 < p /\ p <= 0)
      OBVIOUS
    <3>2. \A p \in Cut \cup Keep \cup 1 .. n : p \in Nat
      BY <1>4
    <3> QED
      BY <1>2, <3>1, <3>2
  <2>2. Holds(0, 0)
    BY <1>7, <2>1, Zenon DEF Holds
  <2> QED
    BY <2>1, <2>2, Zenon DEF BufIs
<1>9. StartIs
  <2>1. start \in Nat /\ start <= line /\ start = 0
    BY <1>2
  <2> QED
    BY <1>7, <2>1 DEF StartIs, First
<1>10. OutTyped /\ OutRead
  <2>1. Len(out) = 0 /\ 1 .. 0 = {}
    BY <1>2
  <2>2. out \in Seq([text : Seq(1 .. n), line : 1 .. n + 1])
    BY <1>2
  <2> QED
    BY <2>1, <2>2, Zenon DEF OutTyped, OutRead
<1>11. OutIs
  <2>1. Len(out) = 0 /\ 1 .. 0 = {}
    BY <1>2
  <2>2. ASSUME NEW a \in Cut \cup {0} PROVE ~(NextCut(Cut, a) < i)
    <3>1. NextCut(Cut, a) \in Nat /\ a < NextCut(Cut, a)
      BY <1>1, NextCutIs
    <3>2. a \in Nat
      BY <1>4
    <3> QED
      BY <1>2, <3>1, <3>2
  <2>3. \A a \in Cut \cup {0} : ~Passed(a)
    BY <1>3, <2>2, Zenon DEF Passed
  <2> QED
    BY <2>1, <2>3, Zenon DEF OutIs
<1> QED
  BY <1>5, <1>6, <1>7, <1>8, <1>9, <1>10, <1>11, Zenon DEF Inv

LEMMA LineTyped ==
  ASSUME Inv
  PROVE  line \in 1 .. n + 1 /\ line \in Nat /\ buf \in Seq(1 .. n) /\ n \in Nat
<1>1. File /\ i \in 1 .. n + 1 /\ n \in Nat /\ line = LineOf(i) /\ buf \in Seq(1 .. n)
  BY Zenon DEF Inv, Scan, ScanTypes, File, LineIs, BufTyped
<1>2. line \in 1 .. n + 1
  BY <1>1, LineOfIs
<1> QED
  BY <1>1, <1>2

(***************************************************************************)
(* A turn that adds to the statement, and one that ends it.                *)
(***************************************************************************)
LEMMA Adding ==
  ASSUME Inv, Scan', Reads, \E places : Adds(places), UNCHANGED <<mysql, text>>
  PROVE  Inv'
<1>1. PICK places : Adds(places)
  OBVIOUS
<1>2. Scan /\ LineIs /\ BufTyped /\ BufIs /\ StartIs /\ OutTyped /\ OutRead /\ OutIs
  BY Zenon DEF Inv
<1>3. LineIs'
  BY <1>2, LineGoesOn
<1>4. BufTyped' /\ BufIs'
  BY <1>1, <1>2, BufGrows
<1>5. StartIs'
  BY <1>1, <1>2, StartGoesOn
<1>6. OutTyped' /\ OutRead' /\ OutIs'
  BY <1>1, <1>2, OutStays
<1> QED
  BY <1>3, <1>4, <1>5, <1>6, Zenon DEF Inv

LEMMA Ending ==
  ASSUME Inv, Scan', Reads, Ends, UNCHANGED <<mysql, text>>
  PROVE  Inv'
<1>1. Scan /\ LineIs /\ BufTyped /\ BufIs /\ StartIs /\ OutTyped /\ OutRead /\ OutIs
  BY Zenon DEF Inv
<1>2. LineIs' /\ line' \in Nat
  <2>1. LineIs' /\ line' \in 1 .. n + 1
    BY <1>1, LineGoesOn
  <2> QED
    BY <2>1
<1>3. BufTyped' /\ BufIs'
  BY <1>1, BufEmpties
<1>4. StartIs'
  BY <1>2, StartEmpties, Zenon DEF Ends
<1>5. OutTyped' /\ OutRead' /\ OutIs'
  BY <1>1, EndsPutsOut
<1> QED
  BY <1>2, <1>3, <1>4, <1>5, Zenon DEF Inv

(***************************************************************************)
(* The return puts out the last statement.                                 *)
(***************************************************************************)
LEMMA Returning ==
  ASSUME Inv, Return
  PROVE  Inv'
<1>1. Scan /\ LineIs /\ BufTyped /\ BufIs /\ StartIs /\ OutTyped /\ OutRead /\ OutIs
  BY Zenon DEF Inv
<1>2. /\ i > n /\ ~done /\ Flush /\ done' = TRUE
      /\ UNCHANGED <<mysql, text, i, line, dollarT, delim, bol>>
  BY Zenon DEF Return
<1>3. i = n + 1 /\ line \in Nat
  <2>1. i \in 1 .. n + 1 /\ n \in Nat /\ line \in Nat
    BY LineTyped, Zenon DEF Inv, Scan, ScanTypes
  <2> QED
    BY <1>2, <2>1
<1>4. /\ n' = n /\ File' = File /\ Tags' = Tags /\ Free' = Free /\ Sets' = Sets
      /\ \A o : Opens(o)' = Opens(o) /\ LastOf(o)' = LastOf(o)
  BY <1>2, SameFile, Zenon
<1>5. Scan'
  <2>1. Unquoted' = Unquoted /\ DelimTyped' = DelimTyped
    BY <1>2, Zenon DEF Unquoted, DelimTyped
  <2>2. (ScanTypes /\ Ended)'
    <3>1. ScanTypes
      BY <1>1, Zenon DEF Scan
    <3>2. ScanTypes'
      BY <1>2, <1>4, <2>1, <3>1, Zenon DEF ScanTypes
    <3>3. Ended'
      BY <1>2, <1>3, <1>4, Zenon DEF Ended
    <3> QED
      BY <3>2, <3>3
  <2>3. Outside'
    <3>1. Outside
      BY <1>1, Zenon DEF Scan
    <3> QED
      BY <1>2, <1>4, <2>1, <3>1, Zenon DEF Outside
  <2>4. Inside'
    <3>1. Inside
      BY <1>1, Zenon DEF Scan
    <3> QED
      BY <1>2, <1>4, <2>1, <3>1 DEF Inside
  <2>5. BolIs'
    <3>1. LineBegins(i)' = LineBegins(i)
      BY <1>2, <1>4 DEF LineBegins
    <3>2. BolIs
      BY <1>1, Zenon DEF Scan
    <3> QED
      BY <1>2, <3>1, <3>2, Zenon DEF BolIs
  <2>6. DelimIs'
    <3>1. DelimIs
      BY <1>1, Zenon DEF Scan
    <3> QED
      BY <1>2, <1>4, <3>1, Zenon DEF DelimIs, DelimiterAt
  <2> QED
    BY <1>1, <1>4, <2>2, <2>3, <2>4, <2>5, <2>6, Zenon DEF Scan
<1>6. LineIs'
  BY <1>1, <1>2 DEF LineIs, LineOf, Newlines
<1>7. BufTyped'
  <2>1. buf' = <<>>
    BY <1>2, Zenon DEF Flush
  <2> QED
    BY <1>4, <2>1, NoPlace DEF BufTyped, Increasing
<1>8. BufIs'
  BY <1>2, Zenon DEF BufIs
<1>9. StartIs'
  BY <1>2, <1>3, StartEmpties
<1>10. OutTyped' /\ OutRead' /\ OutIs'
  BY <1>1, <1>2, <1>3, ReturnPutsOut
<1> QED
  BY <1>5, <1>6, <1>7, <1>8, <1>9, <1>10, Zenon DEF Inv

(***************************************************************************)
(* Nothing in the invariant changes without a turn.                        *)
(***************************************************************************)
LEMMA Resting ==
  ASSUME Inv, UNCHANGED vars
  PROVE  Inv'
<1>1. UNCHANGED <<mysql, text, i, line, start, buf, dollarT, delim, bol, out, done>>
  BY Zenon DEF vars
<1>2. /\ n' = n /\ File' = File /\ Tags' = Tags /\ Free' = Free /\ Sets' = Sets
      /\ Cut' = Cut /\ Keep' = Keep
      /\ \A o : Opens(o)' = Opens(o) /\ LastOf(o)' = LastOf(o)
  BY <1>1, SameFile, Zenon
<1>3. /\ \A p : IsBlank(p)' = IsBlank(p) /\ LineOf(p)' = LineOf(p)
      /\ \A a : Statement(a)' = Statement(a) /\ NextCut(Cut, a)' = NextCut(Cut, a)
      /\ \A st : WellRead(st)' = WellRead(st)
  BY <1>1, SamePlaces, Zenon
<1>4. Scan' = Scan
  BY <1>1, <1>2
  DEF Scan, ScanTypes, Unquoted, DelimTyped, Ended, Outside, Inside, BolIs, DelimIs,
      LineBegins, DelimiterAt
<1>5. LineIs' = LineIs
  BY <1>1 DEF LineIs, LineOf, Newlines
<1>6. BufTyped' = BufTyped /\ BufIs' = BufIs
  BY <1>1, <1>2, <1>3 DEF BufTyped, BufIs, Holds, Increasing, ToSet, IsBlank
<1>7. StartIs' = StartIs
  BY <1>1, <1>2, <1>3 DEF StartIs, First, ToSet, Quotes, IsBlank, LineOf, Newlines
<1>8. OutTyped' = OutTyped /\ OutRead' = OutRead /\ OutIs' = OutIs
  <2>1. \A a : Passed(a)' = Passed(a)
    <3> SUFFICES ASSUME NEW a PROVE Passed(a)' = Passed(a)
      OBVIOUS
    <3> QED
      BY <1>1, <1>3 DEF Passed
  <2> QED
    BY <1>1, <1>2, <1>3, <2>1, Zenon DEF OutTyped, OutRead, OutIs
<1> QED
  BY <1>4, <1>5, <1>6, <1>7, <1>8, Zenon DEF Inv

(***************************************************************************)
(* Each turn keeps the invariant: it adds, ends or returns.                *)
(***************************************************************************)
LEMMA GoesOn ==
  Inv /\ [Next]_vars => Inv'
<1> SUFFICES ASSUME Inv, [Next]_vars PROVE Inv'
  OBVIOUS
<1>1. Scan /\ line \in Nat /\ buf \in Seq(1 .. n)
  BY LineTyped, Zenon DEF Inv
<1>2. CASE DelimiterLine
  BY <1>1, <1>2, DelimiterLineStep, Ending, Zenon DEF DelimiterLine, Goto
<1>3. CASE DollarQuoted
  BY <1>1, <1>3, DollarQuotedStep, Adding, Zenon DEF DollarQuoted, Goto
<1>4. CASE LineComment
  BY <1>1, <1>4, LineCommentStep, Adding, Zenon DEF LineComment, Goto
<1>5. CASE BlockComment
  BY <1>1, <1>5, BlockCommentStep, Adding, Zenon DEF BlockComment, Goto
<1>6. CASE Quoted
  BY <1>1, <1>6, QuotedStep, Adding, Zenon DEF Quoted, Goto
<1>7. CASE OpenDollarQuote
  BY <1>1, <1>7, OpenDollarQuoteStep, Adding, Zenon DEF OpenDollarQuote, Goto
<1>8. CASE EndOfStatement
  BY <1>1, <1>8, EndOfStatementStep, Ending, Zenon DEF EndOfStatement, Goto
<1>9. CASE Other
  BY <1>1, <1>9, OtherStep, Adding, Zenon DEF Other, Goto
<1>10. CASE Return
  BY <1>10, Returning
<1>11. CASE UNCHANGED vars
  BY <1>11, Resting
<1> QED
  BY <1>2, <1>3, <1>4, <1>5, <1>6, <1>7, <1>8, <1>9, <1>10, <1>11, Zenon DEF Next

LEMMA AlwaysInv == Spec => []Inv
<1>1. Init => Inv
  BY Begins
<1>2. Inv /\ [Next]_vars => Inv'
  BY GoesOn
<1> QED
  BY <1>1, <1>2, PTL DEF Spec

-----------------------------------------------------------------------------

(***************************************************************************)
(* The scan's variables keep their types: it never reads past the file's   *)
(* end, and no statement begins on a line it has not reached.              *)
(***************************************************************************)
THEOREM TypesKept == Spec => []TypeOK
<1>1. Inv => TypeOK
  <2> SUFFICES ASSUME Inv PROVE TypeOK
    OBVIOUS
  <2>1. /\ i \in 1 .. n + 1 /\ (Unquoted \/ dollarT \in Tags) /\ DelimTyped
        /\ bol \in BOOLEAN /\ done \in BOOLEAN
    BY Zenon DEF Inv, Scan, ScanTypes
  <2>2. line \in 1 .. n + 1 /\ line \in Nat
    BY LineTyped
  <2>3. start \in Nat /\ start <= line
    BY Zenon DEF Inv, StartIs
  <2>4. start \in 0 .. line
    BY <2>2, <2>3
  <2>5. out \in Seq([text : Seq(1 .. n), line : 1 .. n + 1])
    BY Zenon DEF Inv, OutTyped
  <2>6. \A k \in DOMAIN out : out[k].line \in 1 .. n + 1
    <3>1. \A k \in DOMAIN out : out[k] \in [text : Seq(1 .. n), line : 1 .. n + 1]
      BY <2>5, SeqIs, Zenon
    <3> QED
      BY <3>1
  <2> QED
    BY <2>1, <2>2, <2>4, <2>6, Zenon DEF TypeOK, Unquoted, DelimTyped
<1> QED
  BY <1>1, AlwaysInv, PTL

(***************************************************************************)
(* Each statement put out has words of the file.                           *)
(***************************************************************************)
LEMMA OutAre ==
  ASSUME Inv, NEW k \in DOMAIN out
  PROVE  /\ k \in 1 .. Len(out) /\ WellRead(out[k])
         /\ out[k].text \in Seq(1 .. n) /\ out[k].line \in Nat
         /\ 1 \in DOMAIN out[k].text
<1>1. out \in Seq([text : Seq(1 .. n), line : 1 .. n + 1])
  BY Zenon DEF Inv, OutTyped
<1>2. k \in 1 .. Len(out)
  BY <1>1
<1>3. out[k].text \in Seq(1 .. n) /\ out[k].line \in Nat
  <2>1. out[k] \in [text : Seq(1 .. n), line : 1 .. n + 1]
    BY <1>1, <1>2, SeqIs, Zenon
  <2>2. n \in Nat
    BY LineTyped
  <2>3. out[k].text \in Seq(1 .. n) /\ out[k].line \in 1 .. n + 1
    BY <2>1
  <2> QED
    BY <2>2, <2>3
<1>4. WellRead(out[k])
  BY <1>2, Zenon DEF Inv, OutRead
<1>5. out[k].text # <<>>
  BY <1>4, Zenon DEF WellRead
<1>6. 1 \in DOMAIN out[k].text
  BY <1>3, <1>5
<1> QED
  BY <1>2, <1>3, <1>4, <1>6

(***************************************************************************)
(* The statements split and splitMySQL return are those the file has by    *)
(* the reference definition.                                               *)
(***************************************************************************)
THEOREM StatementsKept == Spec => []StatementsAreTheFiles
<1>1. Inv => StatementsAreTheFiles
  <2> SUFFICES ASSUME Inv, done PROVE {ToSet(out[k].text) : k \in DOMAIN out} = Statements
    BY Zenon DEF StatementsAreTheFiles
  <2> DEFINE Returned == {ToSet(out[k].text) : k \in DOMAIN out}
  <2>1. DOMAIN out = 1 .. Len(out)
    <3>1. out \in Seq([text : Seq(1 .. n), line : 1 .. n + 1])
      BY Zenon DEF Inv, OutTyped
    <3> QED
      BY <3>1
  <2>2. Statements = {Statement(a) : a \in Cut \cup {0}} \ {{}}
    BY Zenon DEF Statements, Statement, Cut, Keep
  <2>3. /\ \A k \in 1 .. Len(out) : \E a \in Cut \cup {0} : ToSet(out[k].text) = Statement(a)
        /\ \A a \in Cut \cup {0} : Statement(a) # {} =>
             \E k \in 1 .. Len(out) : ToSet(out[k].text) = Statement(a)
    BY Zenon DEF Inv, OutIs, Passed
  <2>4. \A k \in DOMAIN out : ToSet(out[k].text) # {}
    BY OutAre DEF ToSet
  <2>5. ASSUME NEW S PROVE S \in Returned => S \in Statements
    BY <2>1, <2>2, <2>3, <2>4, Zenon
  <2>6. ASSUME NEW S PROVE S \in Statements => S \in Returned
    BY <2>1, <2>2, <2>3, Zenon
  <2> HIDE DEF Returned
  <2>7. Returned = Statements
    BY <2>5, <2>6
  <2> QED
    BY <2>7 DEF Returned
<1> QED
  BY <1>1, AlwaysInv, PTL

(***************************************************************************)
(* The line ends before a word of a statement are those before it in the   *)
(* file, from the statement's first word on.                               *)
(***************************************************************************)
LEMMA LinesBefore ==
  ASSUME File, NEW t \in Seq(1 .. n), Increasing(t), 1 \in DOMAIN t,
         \A p \in 1 .. n :
           text[p] = Newline /\ t[1] <= p /\ p <= t[Len(t)] => p \in ToSet(t),
         NEW k \in DOMAIN t, text[t[k]] # Newline
  PROVE  Cardinality({j \in 1 .. k : text[t[j]] = Newline}) = Cardinality(LinesIn(t[1], t[k]))
<1> DEFINE J == {j \in 1 .. k : text[t[j]] = Newline}
           L == LinesIn(t[1], t[k])
           f == [j \in J |-> t[j]]
<1>1. /\ Len(t) \in Nat /\ DOMAIN t = 1 .. Len(t) /\ 1 \in 1 .. Len(t) /\ k \in 1 .. Len(t)
      /\ \A j \in 1 .. Len(t) : t[j] \in 1 .. n
  BY SeqIs
<1>2. \A a, b \in 1 .. Len(t) : a < b <=> t[a] < t[b]
  <2>1. \A a, b \in 1 .. Len(t) : a < b => t[a] < t[b]
    BY <1>1 DEF Increasing
  <2> QED
    BY <1>1, <2>1
<1>3. \A j \in 1 .. k : j \in 1 .. Len(t)
  BY <1>1
<1>4. ASSUME NEW j \in J PROVE f[j] \in L
  <2>1. j \in 1 .. Len(t) /\ text[t[j]] = Newline /\ j # k
    BY <1>3
  <2>2. t[j] < t[k]
    <3>1. j < k
      BY <1>1, <2>1
    <3> QED
      BY <1>1, <1>2, <2>1, <3>1
  <2>3. t[1] <= t[j]
    BY <1>1, <1>2, <2>1
  <2> QED
    BY <1>1, <2>1, <2>2, <2>3, Zenon DEF LinesIn
<1>5. ASSUME NEW p \in L PROVE \E j \in J : f[j] = p
  <2>1. p \in 1 .. n /\ t[1] <= p /\ p < t[k] /\ text[p] = Newline
    BY DEF LinesIn
  <2>2. p \in ToSet(t)
    <3>1. t[k] <= t[Len(t)]
      <4>1. k = Len(t) \/ k < Len(t)
        BY <1>1
      <4>2. Len(t) \in 1 .. Len(t)
        BY <1>1
      <4> QED
        BY <1>1, <1>2, <4>1, <4>2
    <3>2. p <= t[Len(t)]
      <4>1. t[Len(t)] \in Nat /\ t[k] \in Nat
        BY <1>1
      <4> QED
        BY <2>1, <3>1, <4>1
    <3> QED
      BY <2>1, <3>2
  <2>3. PICK j \in 1 .. Len(t) : t[j] = p
    BY <1>1, <2>2, Zenon DEF ToSet
  <2>4. j < k
    BY <1>1, <1>2, <2>1, <2>3
  <2>5. j \in J
    BY <1>1, <2>1, <2>3, <2>4
  <2> QED
    BY <2>3, <2>5
<1>6. \A a, b \in J : f[a] = f[b] => a = b
  BY <1>1, <1>2, <1>3
<1>7. IsFiniteSet(J)
  <2>1. IsFiniteSet(1 .. k)
    BY <1>1, FS_Interval
  <2> QED
    BY <2>1, FS_Subset
<1>8. ExistsBijection(J, L)
  <2>1. f \in [J -> L]
    BY <1>4
  <2>2. \A p \in L : \E j \in J : f[j] = p
    BY <1>5
  <2> HIDE DEF f, J, L
  <2>3. f \in Injection(J, L) /\ f \in Surjection(J, L)
    BY <1>6, <2>1, <2>2 DEF Injection, Surjection, IsInjective
  <2>4. f \in Bijection(J, L)
    BY <2>3 DEF Bijection
  <2> QED
    BY <2>4 DEF ExistsBijection
<1> QED
  BY <1>7, <1>8, FS_Bijection

(***************************************************************************)
(* The readers find every word of a statement on the line it has in the    *)
(* file, unless the statement begins with a quote.                         *)
(***************************************************************************)
THEOREM LinesKept == Spec => []EveryWordOnItsLine
<1>1. Inv => EveryWordOnItsLine
  <2> SUFFICES ASSUME Inv,
                      NEW s \in DOMAIN out, text[out[s].text[1]] \notin Quotes,
                      NEW k \in DOMAIN out[s].text, text[out[s].text[k]] # Newline
               PROVE  FoundOn(out[s], k) = LineOf(out[s].text[k])
    BY Zenon DEF EveryWordOnItsLine
  <2> DEFINE t == out[s].text
             w == t[1]
             p == t[k]
  <2>1. File /\ n \in Nat
    BY Zenon DEF Inv, Scan, File
  <2>2. t \in Seq(1 .. n) /\ 1 \in DOMAIN t /\ WellRead(out[s])
    BY OutAre
  <2>3. /\ Increasing(t)
        /\ \A q \in 1 .. n :
             text[q] = Newline /\ t[1] <= q /\ q <= t[Len(t)] => q \in ToSet(t)
        /\ out[s].line = LineOf(w)
    BY <2>2, Zenon DEF WellRead
  <2>4. FoundOn(out[s], k) = LineOf(w) + Cardinality({j \in 1 .. k : text[t[j]] = Newline})
    BY <2>3, Zenon DEF FoundOn
  <2> HIDE DEF t
  <2>5. Cardinality({j \in 1 .. k : text[t[j]] = Newline}) = Cardinality(LinesIn(w, p))
    <3>1. k \in DOMAIN t /\ text[t[k]] # Newline
      BY DEF t
    <3> QED
      BY <2>1, <2>2, <2>3, <3>1, LinesBefore
  <2>6. w \in 1 .. n /\ p \in 1 .. n /\ w <= p
    <3>1. Len(t) \in Nat /\ DOMAIN t = 1 .. Len(t) /\ \A j \in 1 .. Len(t) : t[j] \in 1 .. n
      BY <2>2, SeqIs
    <3>2. k \in 1 .. Len(t) /\ 1 \in 1 .. Len(t)
      BY <2>2, <3>1 DEF t
    <3>3. 1 < k => t[1] < t[k]
      BY <2>3, <3>1, <3>2 DEF Increasing
    <3>4. 1 < k \/ k = 1
      BY <3>1, <3>2
    <3> QED
      BY <3>1, <3>2, <3>3, <3>4
  <2> HIDE DEF w, p
  <2>7. 1 \in 1 .. n + 1 /\ w \in 1 .. n + 1 /\ p \in w .. n + 1 /\ p \in 1 .. n + 1
    BY <2>1, <2>6
  <2>8. Cardinality(LinesIn(1, p)) = Cardinality(LinesIn(1, w)) + Cardinality(LinesIn(w, p))
    BY <2>1, <2>7, LinesAdd
  <2>9. LineOf(w) = 1 + Cardinality(LinesIn(1, w)) /\ LineOf(p) = 1 + Cardinality(LinesIn(1, p))
    BY <2>1, <2>7, LineOfIs
  <2>10. Cardinality(LinesIn(1, w)) \in Nat /\ Cardinality(LinesIn(w, p)) \in Nat
    BY <2>1, LinesFinite
  <2>11. FoundOn(out[s], k) = LineOf(p)
    BY <2>4, <2>5, <2>8, <2>9, <2>10
  <2> QED
    BY <2>11 DEF p, t
<1> QED
  BY <1>1, AlwaysInv, PTL

-----------------------------------------------------------------------------
(***************************************************************************)
(* No turn of the loop stays where it was or goes past the end, and none   *)
(* changes the file: so a file of n tokens is read in at most n turns, and *)
(* what is left of Terminates is that there always is a turn to take.      *)
(***************************************************************************)
ReadsOn == i < i' /\ i' <= n + 1 /\ n' = n

Returns == i = n + 1 /\ ~done /\ done' /\ n' = n

THEOREM TurnsReadOn == Spec => [][ReadsOn \/ Returns]_vars
<1>1. Inv /\ Next => ReadsOn \/ Returns
  <2> SUFFICES ASSUME Inv, Next PROVE ReadsOn \/ Returns
    OBVIOUS
  <2>1. Scan /\ line \in Nat /\ buf \in Seq(1 .. n)
    BY LineTyped, Zenon DEF Inv
  <2>2. i \in 1 .. n + 1 /\ n \in Nat
    BY <2>1, Zenon DEF Scan, ScanTypes, File
  <2>3. Reads \/ Return
    BY <2>1, DelimiterLineStep, DollarQuotedStep, LineCommentStep, BlockCommentStep, QuotedStep,
       OpenDollarQuoteStep, EndOfStatementStep, OtherStep, Zenon DEF Next
  <2>4. text' = text /\ n' = n
    BY Zenon DEF Next, DelimiterLine, DollarQuoted, LineComment, BlockComment, Quoted,
                 OpenDollarQuote, EndOfStatement, Other, Return, Goto, n
  <2>5. ASSUME Reads PROVE ReadsOn
    <3>1. i' \in i + 1 .. n + 1
      BY <2>5, Zenon DEF Reads
    <3>2. \A j \in i + 1 .. n + 1 : i < j /\ j <= n + 1
      BY <2>2
    <3> QED
      BY <2>4, <3>1, <3>2, Zenon DEF ReadsOn
  <2>6. ASSUME Return PROVE Returns
    <3>1. i > n /\ ~done /\ done'
      BY <2>6, Zenon DEF Return
    <3>2. i = n + 1
      BY <2>2, <3>1
    <3> QED
      BY <2>4, <3>1, <3>2, Zenon DEF Returns
  <2> QED
    BY <2>3, <2>5, <2>6
<1> QED
  BY <1>1, AlwaysInv, PTL DEF Spec

-----------------------------------------------------------------------------
(***************************************************************************)
(* A statement put out, and the quotes in it: it has every kept place      *)
(* between two of its own, and what opened before one of them and hides    *)
(* it.                                                                     *)
(***************************************************************************)
In(o, p) == text[o] \in Quotes /\ o < p /\ p <= LastOf(o)

Part(st) ==
  /\ st \in Seq(1 .. n) /\ Increasing(st) /\ ToSet(st) \subseteq Keep
  /\ \A p \in Keep : \A x, y \in ToSet(st) : x <= p /\ p <= y => p \in ToSet(st)
  /\ \A p \in ToSet(st), o \in Free :
       text[o] \in Quotes \cup Tags /\ o < p /\ p <= LastOf(o) => o \in ToSet(st)

(***************************************************************************)
(* All of a quoted text is kept.                                           *)
(***************************************************************************)
LEMMA QuotesKept ==
  ASSUME File, NEW o \in Free, text[o] \in Quotes \cup Tags, NEW p \in o .. LastOf(o)
  PROVE  p \in Keep
<1>1. n \in Nat /\ o \in 1 .. n /\ LastOf(o) \in o .. n /\ p \in 1 .. n
  BY FreeIs, LastOfIn DEF File
<1>2. Opens(o)
  BY DEF Opens
<1>3. \A q \in Free : ~(o < q /\ q <= LastOf(o))
  BY <1>2, NothingFree
<1>4. p \notin Cut
  <2>1. o \notin Cut
    BY <1>2, CutsAreMarks
  <2>2. Cut \subseteq Free /\ Free \subseteq 1 .. n
    BY CutIs, FreeIs
  <2> QED
    BY <1>1, <1>3, <2>1, <2>2
<1>5. ASSUME NEW c \in Free, text[c] \in LineComments \cup {"/*"}, p \in c .. LastOf(c)
      PROVE  FALSE
  <2>1. c \in 1 .. n /\ LastOf(c) \in c .. n /\ Opens(c)
    BY <1>1, <1>5, FreeIs, LastOfIn DEF Opens
  <2>2. c # o
    BY <1>1, <1>5, Marked
  <2>3. ~(o < c)
    BY <1>1, <1>3, <1>5, <2>1
  <2>4. c < o => LastOf(c) < o
    BY <1>1, <2>1, FreeIs
  <2> QED
    BY <1>1, <1>5, <2>1, <2>2, <2>3, <2>4
<1> QED
  BY <1>1, <1>4, <1>5, KeepIs

LEMMA OutParts ==
  ASSUME Inv, NEW k \in DOMAIN out
  PROVE  Part(out[k].text)
<1> DEFINE st == out[k].text
<1>1. File /\ n \in Nat
  BY Zenon DEF Inv, Scan, File
<1>2. k \in 1 .. Len(out) /\ WellRead(out[k]) /\ st \in Seq(1 .. n)
  BY OutAre
<1>3. Increasing(st)
  BY <1>2, Zenon DEF WellRead
<1>4. PICK a \in Cut \cup {0} : ToSet(st) = Statement(a)
  BY <1>2, Zenon DEF Inv, OutIs
<1> HIDE DEF st
<1> DEFINE b == NextCut(Cut, a)
           words == {p \in Keep : a < p /\ p < b /\ ~IsBlank(p)}
<1>5. \A p : p \in ToSet(st) <=> p \in Keep /\ \E x, y \in words : x <= p /\ p <= y
  BY <1>4, Zenon DEF Statement, Between
<1>6. /\ b \in Cut \cup {n + 1} /\ b \in Nat /\ a < b
      /\ \A c \in Cut : a < c => b <= c
  BY <1>1, NextCutIs
<1>7. Keep \subseteq 1 .. n /\ Cut \subseteq Free /\ Free \subseteq 1 .. n
  BY <1>1, KeepIn, CutIs, FreeIs
<1>8. a \in Nat /\ \A p \in words : p \in Nat /\ p \in Keep /\ a < p /\ p < b /\ ~IsBlank(p)
  BY <1>7
<1>9. \A p \in Keep : a < p /\ p < b /\ ~IsBlank(p) => p \in words
  OBVIOUS
<1> HIDE DEF b, words
<1>10. \A p \in Keep : p \in Nat
  BY <1>7
<1>11. ASSUME NEW p \in Keep, NEW x \in ToSet(st), NEW y \in ToSet(st), x <= p, p <= y
       PROVE  p \in ToSet(st)
  <2>1. PICK u \in words : u <= x
    BY <1>5, Zenon
  <2>2. PICK v \in words : y <= v
    BY <1>5, Zenon
  <2>3. x \in Nat /\ y \in Nat /\ p \in Nat /\ u \in Nat /\ v \in Nat
    BY <1>5, <1>8, <1>10
  <2>4. u <= p /\ p <= v
    BY <1>11, <2>1, <2>2, <2>3
  <2> QED
    BY <1>5, <2>4, Zenon
<1>12. ASSUME NEW p \in ToSet(st), NEW o \in Free, text[o] \in Quotes \cup Tags,
              o < p, p <= LastOf(o)
       PROVE  o \in ToSet(st)
  <2>1. Opens(o)
    BY <1>12 DEF Opens
  <2>2. o \in Nat /\ o \in 1 .. n /\ LastOf(o) \in o .. n
    BY <1>1, <1>7, LastOfIn
  <2>3. PICK u \in words, v \in words : u <= p /\ p <= v
    BY <1>5, Zenon
  <2>4. p \in Nat /\ u \in Nat /\ v \in Nat /\ a < u /\ v < b
    BY <1>5, <1>8, <1>10
  <2>5. a < o
    <3>1. a \in Cut => ~(o < a /\ a <= LastOf(o))
      BY <1>1, <1>7, <2>1, NothingFree
    <3>2. a \in Cut => a # o
      BY <1>1, <2>1, CutsAreMarks
    <3>3. a \notin Cut => a = 0
      OBVIOUS
    <3>4. a <= LastOf(o)
      BY <1>8, <1>12, <2>2, <2>3, <2>4
    <3> QED
      BY <1>8, <2>2, <3>1, <3>2, <3>3, <3>4
  <2>6. o < b
    BY <1>6, <1>12, <2>2, <2>3, <2>4
  <2>7. o \in Keep
    <3>1. o \in o .. LastOf(o)
      BY <2>2
    <3> QED
      BY <1>1, <1>12, <3>1, QuotesKept
  <2>8. ~IsBlank(o)
    BY <1>12 DEF IsBlank, Quotes, Tags, Blank, Newline
  <2>9. o \in words /\ o <= o
    BY <1>9, <2>2, <2>5, <2>6, <2>7, <2>8
  <2> QED
    BY <1>5, <2>7, <2>9, Zenon
<1>13. ToSet(st) \subseteq Keep
  BY <1>5
<1>14. Part(st)
  BY <1>2, <1>3, <1>11, <1>12, <1>13, Zenon DEF Part, st
<1> QED
  BY <1>14 DEF st

-----------------------------------------------------------------------------
(***************************************************************************)
(* No quoted text is in another, and its last place closes it if anything  *)
(* follows.                                                                *)
(***************************************************************************)
Opener(p) == p \in Free /\ text[p] \in Quotes

Bare(p) == \A o \in Free : ~In(o, p)

LEMMA OneQuote ==
  ASSUME File, NEW o \in Free, NEW m \in Free, NEW p, In(o, p), In(m, p), p \in Nat
  PROVE  o = m
<1>1. n \in Nat /\ Free \subseteq 1 .. n /\ Opens(o) /\ Opens(m)
  BY FreeIs DEF File, In, Opens
<1>2. ~(o < m /\ m <= LastOf(o)) /\ ~(m < o /\ o <= LastOf(m))
  BY <1>1, NothingFree
<1>3. LastOf(o) \in o .. n /\ LastOf(m) \in m .. n
  BY <1>1, LastOfIn
<1> QED
  BY <1>1, <1>2, <1>3 DEF In

LEMMA FreeIsBare ==
  ASSUME File, NEW p \in Free
  PROVE  Bare(p)
<1> SUFFICES ASSUME NEW o \in Free, In(o, p) PROVE FALSE
  BY DEF Bare
<1>1. Opens(o)
  BY DEF In, Opens
<1> QED
  BY <1>1, NothingFree DEF In

LEMMA TakenNext ==
  ASSUME File, NEW o \in 1 .. n, NEW p \in o .. n, p + 1 <= n
  PROVE  /\ p = o => ~Taken(o)[p + 1]
         /\ o < p => (Taken(o)[p + 1] <=>
              /\ ~Taken(o)[p]
              /\ \/ mysql /\ text[o] = "'" /\ text[p] = "backslash"
                 \/ text[p] = text[o] /\ text[p + 1] = text[o])
<1>1. /\ p + 1 \in o .. n + 1 /\ (p + 1) - 1 = p
      /\ p = o => ~(p + 1 > o + 1)
      /\ o < p => p + 1 > o + 1
  BY DEF File
<1> QED
  BY <1>1, TakenIs, Zenon

LEMMA LastIs ==
  ASSUME File, NEW o \in 1 .. n, text[o] \in Quotes
  PROVE  /\ LastOf(o) < n => Closes(o, LastOf(o))
         /\ \A p \in o + 1 .. n : p < LastOf(o) => ~Closes(o, p)
<1> DEFINE ends == {p \in o .. n : Closes(o, p)}
<1>1. n \in Nat
  BY DEF File
<1>2. LastOf(o) = IF ends = {} THEN n ELSE Min(ends)
  <2>1. text[o] \notin LineComments /\ text[o] # "/*" /\ text[o] \in Quotes \cup Tags
    BY Marked
  <2> QED
    BY <2>1, Zenon DEF LastOf
<1>3. ends \in SUBSET Nat
  BY <1>1
<1>4. ends # {} => Min(ends) \in ends /\ \A x \in ends : Min(ends) <= x
  <2> HIDE DEF ends
  <2> QED
    BY <1>3, MinExists
<1>5. \A p \in o + 1 .. n : Closes(o, p) => p \in ends
  BY <1>1
<1>6. \A p \in ends : Closes(o, p) /\ p \in Nat
  BY <1>3
<1> HIDE DEF ends
<1>7. LastOf(o) < n => ends # {}
  BY <1>1, <1>2
<1>8. LastOf(o) < n => Closes(o, LastOf(o))
  BY <1>2, <1>4, <1>6, <1>7
<1>9. ASSUME NEW p \in o + 1 .. n, p < LastOf(o), Closes(o, p) PROVE FALSE
  <2>1. p \in ends /\ p \in Nat
    BY <1>5, <1>9
  <2>2. LastOf(o) <= p /\ LastOf(o) \in Nat
    BY <1>2, <1>4, <1>6, <2>1
  <2> QED
    BY <1>9, <2>1, <2>2
<1> QED
  BY <1>8, <1>9

LEMMA InQuotedText ==
  ASSUME File, NEW o \in Free, text[o] \in Quotes, NEW p \in Nat, o < p, p <= LastOf(o)
  PROVE  /\ p < LastOf(o) /\ text[p] = text[o] /\ ~Taken(o)[p] => text[p + 1] = text[o]
         /\ p = LastOf(o) /\ p < n => text[p] = text[o] /\ ~Taken(o)[p]
<1>1. /\ n \in Nat /\ o \in 1 .. n /\ LastOf(o) \in o .. n /\ p \in o + 1 .. n
      /\ p < LastOf(o) => p < n
  BY FreeIs, LastOfIn DEF File
<1>2. Closes(o, p) <=> text[p] = text[o] /\ ~Taken(o)[p] /\ (p < n => text[p + 1] # text[o])
  <2>1. p > o
    BY <1>1
  <2> QED
    BY <2>1, Zenon DEF Closes
<1>3. /\ LastOf(o) < n => Closes(o, LastOf(o))
      /\ p < LastOf(o) => ~Closes(o, p)
  BY <1>1, LastIs
<1> QED
  BY <1>1, <1>2, <1>3, Zenon

(***************************************************************************)
(* From one place of a statement to the next.                              *)
(***************************************************************************)
LEMMA NextPlace ==
  ASSUME File, NEW st, Part(st), NEW k \in 1 .. Len(st), k + 1 \in 1 .. Len(st)
  PROVE  LET p == st[k]
             q == st[k + 1]
         IN  /\ p \in 1 .. n /\ q \in 1 .. n /\ p < q
             /\ \A o \in Free : text[o] \in Quotes /\ o <= p /\ p < LastOf(o)
                  => q = p + 1 /\ In(o, q)
             /\ Bare(p) /\ ~Opener(p) => Bare(q)
             /\ \A o \in Free : In(o, p) /\ p = LastOf(o) => Bare(q)
<1> DEFINE p == st[k]
           q == st[k + 1]
<1>1. /\ st \in Seq(1 .. n) /\ Increasing(st) /\ ToSet(st) \subseteq Keep
      /\ \A x \in Keep : \A y, z \in ToSet(st) : y <= x /\ x <= z => x \in ToSet(st)
      /\ \A x \in ToSet(st), o \in Free :
           text[o] \in Quotes \cup Tags /\ o < x /\ x <= LastOf(o) => o \in ToSet(st)
  BY Zenon DEF Part
<1>2. /\ Len(st) \in Nat /\ DOMAIN st = 1 .. Len(st)
      /\ \A m \in 1 .. Len(st) : st[m] \in 1 .. n
  BY <1>1, SeqIs
<1>3. n \in Nat /\ Free \subseteq 1 .. n
  BY FreeIs DEF File
<1>4. p \in 1 .. n /\ q \in 1 .. n /\ p \in ToSet(st) /\ q \in ToSet(st)
  BY <1>2 DEF ToSet
<1>5. p < q
  BY <1>1, <1>2 DEF Increasing
<1>6. \A x \in ToSet(st) : x <= p \/ q <= x
  <2> SUFFICES ASSUME NEW m \in 1 .. Len(st) PROVE st[m] <= p \/ q <= st[m]
    BY <1>2 DEF ToSet
  <2>1. m < k \/ m = k \/ m = k + 1 \/ k + 1 < m
    OBVIOUS
  <2>2. m < k => st[m] < st[k]
    BY <1>1, <1>2 DEF Increasing
  <2>3. k + 1 < m => st[k + 1] < st[m]
    BY <1>1, <1>2 DEF Increasing
  <2> QED
    BY <1>2, <2>1, <2>2, <2>3
<1>7. \A x \in ToSet(st) : x \in Nat
  BY <1>2 DEF ToSet
<1> HIDE DEF p, q
<1>8. ASSUME NEW o \in Free, text[o] \in Quotes, o <= p, p < LastOf(o)
      PROVE  q = p + 1 /\ In(o, q)
  <2>1. o \in 1 .. n /\ LastOf(o) \in o .. n
    BY <1>3, LastOfIn
  <2>2. p + 1 \in o .. LastOf(o)
    BY <1>4, <1>8, <2>1
  <2>3. p + 1 \in Keep
    BY <1>8, <2>2, QuotesKept
  <2>4. p <= p + 1 /\ p + 1 <= q /\ ~(p + 1 <= p)
    BY <1>4, <1>5
  <2>5. p + 1 \in ToSet(st)
    BY <1>1, <1>4, <2>3, <2>4
  <2>6. q <= p + 1
    BY <1>6, <2>4, <2>5
  <2>7. q = p + 1
    BY <1>4, <1>5, <2>6
  <2> QED
    BY <1>4, <1>8, <2>1, <2>2, <2>7 DEF In
<1>9. ASSUME NEW o \in Free, In(o, q)
      PROVE  o <= p /\ text[o] \in Quotes /\ (o # p => In(o, p))
  <2>1. text[o] \in Quotes /\ o < q /\ q <= LastOf(o)
    BY <1>9 DEF In
  <2>2. o \in ToSet(st)
    BY <1>1, <1>4, <2>1
  <2>3. o \in 1 .. n /\ LastOf(o) \in o .. n
    BY <1>3, LastOfIn
  <2>4. o <= p
    BY <1>4, <1>6, <2>1, <2>2, <2>3
  <2> QED
    BY <1>4, <1>5, <2>1, <2>3, <2>4 DEF In
<1>10. Bare(p) /\ ~Opener(p) => Bare(q)
  BY <1>9 DEF Bare, Opener
<1>11. ASSUME NEW o \in Free, In(o, p), p = LastOf(o) PROVE Bare(q)
  <2> SUFFICES ASSUME NEW m \in Free, In(m, q) PROVE FALSE
    BY DEF Bare
  <2>1. m # p
    <3>1. ~Bare(p)
      BY <1>11 DEF Bare
    <3> QED
      BY <3>1, FreeIsBare
  <2>2. In(m, p)
    BY <1>9, <2>1
  <2>3. m = o
    BY <1>4, <1>11, <2>2, OneQuote
  <2> QED
    BY <1>4, <1>5, <1>11, <2>3 DEF In
<1> QED
  BY <1>4, <1>5, <1>8, <1>10, <1>11 DEF p, q

(***************************************************************************)
(* In a statement without dollar quotes a quote that no other hides opens. *)
(***************************************************************************)
LEMMA QuoteOpens ==
  ASSUME File, NEW st, Part(st), \A k \in DOMAIN st : text[st[k]] \notin Tags,
         NEW p \in ToSet(st), text[p] \in Quotes, Bare(p)
  PROVE  Opener(p)
<1>1. /\ st \in Seq(1 .. n) /\ ToSet(st) \subseteq Keep
      /\ \A x \in ToSet(st), o \in Free :
           text[o] \in Quotes \cup Tags /\ o < x /\ x <= LastOf(o) => o \in ToSet(st)
  BY Zenon DEF Part
<1>2. n \in Nat /\ Free \subseteq 1 .. n /\ p \in 1 .. n /\ p \in Keep
  BY <1>1, FreeIs, KeepIn DEF File
<1>3. \A x \in ToSet(st) : text[x] \notin Tags
  BY Zenon DEF ToSet
<1>4. ASSUME NEW o \in Free, o < p, Opens(o) PROVE LastOf(o) < p
  <2>1. o \in 1 .. n /\ LastOf(o) \in o .. n
    BY <1>2, LastOfIn
  <2> SUFFICES ASSUME p <= LastOf(o) PROVE FALSE
    BY <1>2, <2>1
  <2>2. text[o] \notin Quotes
    BY <1>4 DEF Bare, In
  <2>3. text[o] \notin Tags
    BY <1>1, <1>3, <1>4, Zenon
  <2>4. text[o] \in LineComments \cup {"/*"}
    BY <1>4, <2>2, <2>3, Zenon DEF Opens
  <2>5. text[p] # Newline
    BY DEF Quotes, Newline
  <2>6. p \in o .. LastOf(o)
    BY <1>2, <1>4, <2>1
  <2> QED
    BY <1>2, <2>4, <2>5, <2>6, KeepIs
<1>5. p \in Free
  BY <1>2, <1>4, FreeIs
<1> QED
  BY <1>5 DEF Opener

-----------------------------------------------------------------------------
(***************************************************************************)
(* The equations of the readers' recursive functions.                      *)
(***************************************************************************)
None == ""

Waits(was, tok) ==
  IF was = None THEN IF tok \in Quotes THEN tok ELSE None
  ELSE IF tok = was THEN None
  ELSE was

LEMMA InQuoteIs ==
  ASSUME NEW toks, Len(toks) \in Nat
  PROVE  /\ InQuote(toks)[1] = None
         /\ \A k \in 1 .. Len(toks) : InQuote(toks)[k + 1] = Waits(InQuote(toks)[k], toks[k])
<1> DEFINE Eqn(f, m) == f = [k \in 1 .. m + 1 |->
                               IF k = 1 THEN None ELSE Waits(f[k - 1], toks[k - 1])]
           Good == {m \in Nat : \E f : Eqn(f, m)}
<1>1. \E f : Eqn(f, 0)
  <2> DEFINE g == [k \in 1 .. 0 + 1 |-> None]
  <2>1. \A k \in 1 .. 0 + 1 : k = 1
    OBVIOUS
  <2>2. Eqn(g, 0)
    BY <2>1, Zenon
  <2> QED
    BY <2>2, Zenon
<1>2. ASSUME NEW l \in Nat, \E f : Eqn(f, l) PROVE \E f : Eqn(f, l + 1)
  <2>1. PICK f : Eqn(f, l)
    BY <1>2
  <2> DEFINE g == [k \in 1 .. (l + 1) + 1 |->
                     IF k = 1 THEN None ELSE Waits(f[k - 1], toks[k - 1])]
  <2>2. \A k \in 1 .. l + 1 : g[k] = f[k]
    <3>1. \A k \in 1 .. l + 1 : k \in 1 .. (l + 1) + 1
      OBVIOUS
    <3> QED
      BY <2>1, <3>1, Zenon
  <2>3. \A k \in 1 .. (l + 1) + 1 : k # 1 => g[k - 1] = f[k - 1]
    <3> HIDE DEF g
    <3>1. \A k \in 1 .. (l + 1) + 1 : k # 1 => k - 1 \in 1 .. l + 1
      OBVIOUS
    <3> QED
      BY <2>2, <3>1, Zenon
  <2>4. Eqn(g, l + 1)
    BY <2>3, Zenon
  <2> QED
    BY <2>4, Zenon
<1> HIDE DEF Eqn
<1>3. \A k \in Nat : k \in Good
  <2>1. 0 \in Good /\ \A k \in Nat : k \in Good => k + 1 \in Good
    BY <1>1, <1>2
  <2> HIDE DEF Good
  <2> QED
    BY <2>1, Induction
<1>4. \E f : Eqn(f, Len(toks))
  BY <1>3
<1>5. Eqn(InQuote(toks), Len(toks))
  BY <1>4, Zenon DEF InQuote, Eqn, Waits, None
<1>6. /\ 1 \in 1 .. Len(toks) + 1
      /\ \A k \in 1 .. Len(toks) : k + 1 \in 1 .. Len(toks) + 1 /\ k + 1 # 1 /\ (k + 1) - 1 = k
  OBVIOUS
<1> QED
  BY <1>5, <1>6, Zenon DEF Eqn

(***************************************************************************)
(* One step of doubleEscapedQuotes, at place k.                            *)
(***************************************************************************)
ClosesLater(st, k) == \E m \in k .. Len(st) : text[st[m]] = text[st[k - 1]]

WithQuote(e, q) == [e EXCEPT !.q = q]
WithEscaped(e, b) == [e EXCEPT !.escaped = b]

Escapes(st, k, was) ==
  IF was.escaped THEN WithEscaped(was, FALSE)
  ELSE IF was.q = "'" /\ text[st[k - 1]] = "backslash" /\ k <= Len(st)
    THEN WithEscaped(was, TRUE)
  ELSE IF was.q = text[st[k - 1]] THEN WithQuote(was, None)
  ELSE IF was.q = None /\ \/ text[st[k - 1]] = "'"
                          \/ text[st[k - 1]] = "back quote" /\ ClosesLater(st, k)
    THEN WithQuote(was, text[st[k - 1]])
  ELSE was

LEMMA EscapingIs ==
  ASSUME NEW st, Len(st) \in Nat
  PROVE  /\ Escaping(st)[1] = [q |-> None, escaped |-> FALSE]
         /\ \A k \in 1 .. Len(st) : Escaping(st)[k + 1] = Escapes(st, k + 1, Escaping(st)[k])
<1> DEFINE Eqn(f, m) == f = [k \in 1 .. m + 1 |->
                               IF k = 1 THEN [q |-> None, escaped |-> FALSE]
                               ELSE Escapes(st, k, f[k - 1])]
           Good == {m \in Nat : \E f : Eqn(f, m)}
<1>1. \E f : Eqn(f, 0)
  <2> DEFINE g == [k \in 1 .. 0 + 1 |-> [q |-> None, escaped |-> FALSE]]
  <2>1. \A k \in 1 .. 0 + 1 : k = 1
    OBVIOUS
  <2>2. Eqn(g, 0)
    BY <2>1, Zenon
  <2> QED
    BY <2>2, Zenon
<1>2. ASSUME NEW l \in Nat, \E f : Eqn(f, l) PROVE \E f : Eqn(f, l + 1)
  <2>1. PICK f : Eqn(f, l)
    BY <1>2
  <2> DEFINE g == [k \in 1 .. (l + 1) + 1 |->
                     IF k = 1 THEN [q |-> None, escaped |-> FALSE]
                     ELSE Escapes(st, k, f[k - 1])]
  <2>2. \A k \in 1 .. l + 1 : g[k] = f[k]
    <3>1. \A k \in 1 .. l + 1 : k \in 1 .. (l + 1) + 1
      OBVIOUS
    <3> QED
      BY <2>1, <3>1, Zenon
  <2>3. \A k \in 1 .. (l + 1) + 1 : k # 1 => g[k - 1] = f[k - 1]
    <3> HIDE DEF g
    <3>1. \A k \in 1 .. (l + 1) + 1 : k # 1 => k - 1 \in 1 .. l + 1
      OBVIOUS
    <3> QED
      BY <2>2, <3>1, Zenon
  <2>4. Eqn(g, l + 1)
    BY <2>3, Zenon
  <2> QED
    BY <2>4, Zenon
<1> HIDE DEF Eqn
<1>3. \A k \in Nat : k \in Good
  <2>1. 0 \in Good /\ \A k \in Nat : k \in Good => k + 1 \in Good
    BY <1>1, <1>2
  <2> HIDE DEF Good
  <2> QED
    BY <2>1, Induction
<1>4. \E f : Eqn(f, Len(st))
  BY <1>3
<1>5. Eqn(Escaping(st), Len(st))
  <2> DEFINE F == CHOOSE f : Eqn(f, Len(st))
  <2>1. Eqn(F, Len(st))
    BY <1>4, Zenon
  <2>2. Escaping(st) = F
    BY Zenon DEF Escaping, Eqn, Escapes, WithQuote, WithEscaped, ClosesLater, None
  <2> QED
    BY <2>1, <2>2, Zenon
<1>6. /\ 1 \in 1 .. Len(st) + 1
      /\ \A k \in 1 .. Len(st) : k + 1 \in 1 .. Len(st) + 1 /\ k + 1 # 1 /\ (k + 1) - 1 = k
  OBVIOUS
<1> QED
  BY <1>5, <1>6, Zenon DEF Eqn

(***************************************************************************)
(* The same, said of the fields.                                           *)
(***************************************************************************)
IsPair(e) == \E q, b : b \in BOOLEAN /\ e = [q |-> q, escaped |-> b]

Turned(q, b, tok, later, last, r, c) ==
  /\ b => r = q /\ ~c
  /\ ~b /\ q = "'" /\ tok = "backslash" /\ ~last => r = q /\ c
  /\ ~b /\ ~(q = "'" /\ tok = "backslash" /\ ~last) =>
       /\ ~c
       /\ q = tok => r = None
       /\ q # tok /\ q = None /\ (tok = "'" \/ (tok = "back quote" /\ later)) => r = tok
       /\ q # tok /\ ~(q = None /\ (tok = "'" \/ (tok = "back quote" /\ later))) => r = q

LEMMA PairExcept ==
  ASSUME NEW q, NEW b, NEW x
  PROVE  /\ WithQuote([q |-> q, escaped |-> b], x) = [q |-> x, escaped |-> b]
         /\ WithEscaped([q |-> q, escaped |-> b], x) = [q |-> q, escaped |-> x]
  BY DEF WithQuote, WithEscaped

LEMMA EscapesTurns ==
  ASSUME NEW st, NEW k, NEW e, IsPair(e)
  PROVE  /\ IsPair(Escapes(st, k, e))
         /\ Turned(e.q, e.escaped, text[st[k - 1]], ClosesLater(st, k), ~(k <= Len(st)),
                   Escapes(st, k, e).q, Escapes(st, k, e).escaped)
<1>1. PICK q, b : b \in BOOLEAN /\ e = [q |-> q, escaped |-> b]
  BY Zenon DEF IsPair
<1>2. e.q = q /\ e.escaped = b
  BY <1>1
<1>3. \A x : /\ WithQuote(e, x) = [q |-> x, escaped |-> b]
              /\ WithEscaped(e, x) = [q |-> q, escaped |-> x]
  <2>1. ASSUME NEW x
        PROVE  /\ WithQuote([q |-> q, escaped |-> b], x) = [q |-> x, escaped |-> b]
               /\ WithEscaped([q |-> q, escaped |-> b], x) = [q |-> q, escaped |-> x]
    BY PairExcept
  <2>2. e = [q |-> q, escaped |-> b]
    BY <1>1
  <2> QED
    BY <2>1, <2>2, Zenon
<1> DEFINE tok == text[st[k - 1]]
           later == ClosesLater(st, k)
           last == ~(k <= Len(st))
           t == Escapes(st, k, e)
<1>4. t = IF b THEN [q |-> q, escaped |-> FALSE]
          ELSE IF q = "'" /\ tok = "backslash" /\ ~last THEN [q |-> q, escaped |-> TRUE]
          ELSE IF q = tok THEN [q |-> None, escaped |-> b]
          ELSE IF q = None /\ (tok = "'" \/ (tok = "back quote" /\ later))
            THEN [q |-> tok, escaped |-> b]
          ELSE [q |-> q, escaped |-> b]
  BY <1>1, <1>2, <1>3, Zenon DEF Escapes
<1>5. \A x, y : [q |-> x, escaped |-> y].q = x /\ [q |-> x, escaped |-> y].escaped = y
  OBVIOUS
<1>6. b = TRUE \/ b = FALSE
  BY <1>1
<1> HIDE DEF t, tok, later, last
<1>7. IsPair(t)
  BY <1>4, <1>6, Zenon DEF IsPair
<1>8. Turned(q, b, tok, later, last, t.q, t.escaped)
  BY <1>4, <1>5, <1>6, Zenon DEF Turned
<1> QED
  BY <1>2, <1>7, <1>8, Zenon DEF t, tok, later, last

LEMMA EscapingTurns ==
  ASSUME NEW st, Len(st) \in Nat
  PROVE  /\ Escaping(st)[1].q = None /\ ~Escaping(st)[1].escaped
         /\ \A k \in 1 .. Len(st) :
              Turned(Escaping(st)[k].q, Escaping(st)[k].escaped, text[st[k]],
                     ClosesLater(st, k + 1), ~(k + 1 <= Len(st)),
                     Escaping(st)[k + 1].q, Escaping(st)[k + 1].escaped)
<1> DEFINE at == Escaping(st)
           Good == {k \in Nat : k <= Len(st) => IsPair(at[k + 1])}
<1>1. at[1] = [q |-> None, escaped |-> FALSE]
  BY EscapingIs
<1>2. \A k \in 1 .. Len(st) : at[k + 1] = Escapes(st, k + 1, at[k])
  BY EscapingIs
<1> HIDE DEF at
<1>3. IsPair(at[1])
  BY <1>1, Zenon DEF IsPair
<1>4. \A k \in 1 .. Len(st) : IsPair(at[k]) => IsPair(at[k + 1])
  BY <1>2, EscapesTurns
<1>5. \A k \in Nat : k \in Good
  <2>1. 0 \in Good
    <3>1. 0 + 1 = 1
      OBVIOUS
    <3> QED
      BY <1>3, <3>1
  <2>2. ASSUME NEW k \in Nat, k \in Good PROVE k + 1 \in Good
    <3> SUFFICES ASSUME k + 1 <= Len(st) PROVE IsPair(at[(k + 1) + 1])
      OBVIOUS
    <3>1. k + 1 \in 1 .. Len(st) /\ k <= Len(st)
      OBVIOUS
    <3>2. IsPair(at[k + 1])
      BY <2>2, <3>1
    <3> QED
      BY <1>4, <3>1, <3>2
  <2> HIDE DEF Good
  <2> QED
    BY <2>1, <2>2, Induction
<1>6. ASSUME NEW k \in 1 .. Len(st)
      PROVE  Turned(at[k].q, at[k].escaped, text[st[k]], ClosesLater(st, k + 1),
                    ~(k + 1 <= Len(st)), at[k + 1].q, at[k + 1].escaped)
  <2>1. k - 1 \in Nat /\ k - 1 <= Len(st) /\ (k - 1) + 1 = k /\ (k + 1) - 1 = k
    OBVIOUS
  <2>2. IsPair(at[k])
    <3>1. k - 1 \in Good
      BY <1>5, <2>1
    <3> QED
      BY <2>1, <3>1
  <2>3. Turned(at[k].q, at[k].escaped, text[st[(k + 1) - 1]], ClosesLater(st, k + 1),
               ~(k + 1 <= Len(st)), Escapes(st, k + 1, at[k]).q,
               Escapes(st, k + 1, at[k]).escaped)
    BY <2>2, EscapesTurns
  <2> QED
    BY <1>2, <2>1, <2>3, Zenon
<1>7. at[1].q = None /\ ~at[1].escaped
  BY <1>1
<1> QED
  BY <1>6, <1>7, Zenon DEF at

-----------------------------------------------------------------------------
(***************************************************************************)
(* The four ways a statement goes on: outside quoted text, into it, in it, *)
(* and out of it.                                                          *)
(***************************************************************************)
Passes(p, q) == Bare(p) /\ text[p] \notin Quotes /\ Bare(q)

Enters(o, p, q) == Bare(p) /\ p = o /\ p < LastOf(o) /\ In(o, q) /\ ~Taken(o)[q]

Stays(o, p, q) ==
  /\ In(o, p) /\ p < LastOf(o) /\ In(o, q)
  /\ text[q - 1] = text[p]
  /\ Taken(o)[p] => \/ text[o] = "'" /\ text[p - 1] = "backslash"
                    \/ text[p - 1] = text[o] /\ text[p] = text[o]
  /\ Taken(o)[q] <=> /\ ~Taken(o)[p]
                     /\ \/ mysql /\ text[o] = "'" /\ text[p] = "backslash"
                        \/ text[p] = text[o] /\ text[q] = text[o]
  /\ text[p] = text[o] /\ ~Taken(o)[p] => text[q] = text[o]

Leaves(o, p, q) ==
  /\ In(o, p) /\ p = LastOf(o) /\ p < q
  /\ text[p] = text[o] /\ ~Taken(o)[p]
  /\ Bare(q)

Plain(st) == \A k \in DOMAIN st : text[st[k]] \notin Tags

LEMMA FirstIsBare ==
  ASSUME File, NEW st, Part(st), 1 <= Len(st)
  PROVE  Bare(st[1])
<1>1. /\ st \in Seq(1 .. n)
      /\ \A x \in ToSet(st), o \in Free :
           text[o] \in Quotes \cup Tags /\ o < x /\ x <= LastOf(o) => o \in ToSet(st)
      /\ Increasing(st)
  BY Zenon DEF Part
<1>2. /\ Len(st) \in Nat /\ DOMAIN st = 1 .. Len(st)
      /\ \A k \in 1 .. Len(st) : st[k] \in 1 .. n
  BY <1>1, SeqIs
<1> SUFFICES ASSUME NEW o \in Free, In(o, st[1]) PROVE FALSE
  BY DEF Bare
<1>3. 1 \in 1 .. Len(st) /\ st[1] \in ToSet(st)
  BY <1>2 DEF ToSet
<1>4. text[o] \in Quotes /\ o < st[1] /\ st[1] <= LastOf(o)
  BY Zenon DEF In
<1>5. o \in ToSet(st)
  BY <1>1, <1>3, <1>4
<1>6. PICK j \in 1 .. Len(st) : st[j] = o
  BY <1>2, <1>5 DEF ToSet
<1>7. j = 1 \/ 1 < j
  OBVIOUS
<1>8. 1 < j => st[1] < st[j]
  BY <1>1, <1>2, <1>3 DEF Increasing
<1> QED
  BY <1>2, <1>3, <1>4, <1>6, <1>7, <1>8

LEMMA TakenHow ==
  ASSUME File, NEW o \in 1 .. n, NEW p \in o .. n, Taken(o)[p]
  PROVE  \/ text[o] = "'" /\ text[p - 1] = "backslash"
         \/ text[p - 1] = text[o] /\ text[p] = text[o]
<1>1. p \in o .. n + 1
  BY DEF File
<1> QED
  BY <1>1, TakenIs, Zenon

LEMMA Ways ==
  ASSUME File, NEW st, Part(st), Plain(st), NEW k \in 1 .. Len(st), k + 1 \in 1 .. Len(st)
  PROVE  \/ Passes(st[k], st[k + 1])
         \/ \E o \in Free : /\ text[o] \in Quotes
                            /\ \/ Enters(o, st[k], st[k + 1])
                               \/ Stays(o, st[k], st[k + 1])
                               \/ Leaves(o, st[k], st[k + 1])
<1> DEFINE p == st[k]
           q == st[k + 1]
<1>1. /\ p \in 1 .. n /\ q \in 1 .. n /\ p < q
      /\ \A o \in Free : text[o] \in Quotes /\ o <= p /\ p < LastOf(o) => q = p + 1 /\ In(o, q)
      /\ Bare(p) /\ ~Opener(p) => Bare(q)
      /\ \A o \in Free : In(o, p) /\ p = LastOf(o) => Bare(q)
  BY NextPlace
<1>2. p \in ToSet(st)
  <2>1. st \in Seq(1 .. n)
    BY Zenon DEF Part
  <2>2. DOMAIN st = 1 .. Len(st)
    BY <2>1, SeqIs
  <2> QED
    BY <2>2 DEF ToSet
<1>3. \A j \in DOMAIN st : text[st[j]] \notin Tags
  BY Zenon DEF Plain
<1>4. n \in Nat /\ Free \subseteq 1 .. n
  BY FreeIs DEF File
<1> HIDE DEF p, q
<1>5. CASE Bare(p) /\ ~Opener(p)
  <2>1. text[p] \notin Quotes
    BY <1>2, <1>3, <1>5, QuoteOpens
  <2> QED
    BY <1>1, <1>5, <2>1, Zenon DEF Passes, p, q
<1>6. CASE Opener(p)
  <2>1. p \in Free /\ text[p] \in Quotes /\ Bare(p)
    BY <1>6, FreeIsBare DEF Opener
  <2>2. LastOf(p) \in p .. n
    BY <1>1, LastOfIn
  <2>3. p < LastOf(p)
    <3>1. LastOf(p) < n => LastOf(p) > p
      BY <1>1, <2>1, LastIs DEF Closes
    <3> QED
      BY <1>1, <1>4, <2>2, <3>1
  <2>4. p <= p
    BY <1>1
  <2>5. q = p + 1 /\ In(p, q)
    BY <1>1, <2>1, <2>3, <2>4
  <2>6. p \in p .. n /\ p + 1 <= n
    BY <1>1, <2>5
  <2>7. ~Taken(p)[q]
    BY <1>1, <2>5, <2>6, TakenNext
  <2>8. Enters(p, p, q)
    BY <2>1, <2>3, <2>5, <2>7, Zenon DEF Enters
  <2> QED
    BY <2>1, <2>8, Zenon DEF p, q
<1>7. ASSUME NEW o \in Free, In(o, p)
      PROVE  text[o] \in Quotes /\ (Stays(o, p, q) \/ Leaves(o, p, q))
  <2>1. text[o] \in Quotes /\ o < p /\ p <= LastOf(o)
    BY <1>7, Zenon DEF In
  <2>2. o \in 1 .. n /\ LastOf(o) \in o .. n /\ p \in Nat /\ o <= p /\ p \in o .. n
    BY <1>1, <1>4, <2>1, LastOfIn
  <2>3. /\ p < LastOf(o) /\ text[p] = text[o] /\ ~Taken(o)[p] => text[p + 1] = text[o]
        /\ p = LastOf(o) /\ p < n => text[p] = text[o] /\ ~Taken(o)[p]
    BY <2>1, <2>2, InQuotedText
  <2>4. CASE p < LastOf(o)
    <3>1. q = p + 1 /\ In(o, q)
      BY <1>1, <2>1, <2>2, <2>4
    <3>2. q - 1 = p /\ p + 1 <= n
      BY <1>1, <3>1
    <3>3. Taken(o)[p + 1] <=>
            /\ ~Taken(o)[p]
            /\ \/ mysql /\ text[o] = "'" /\ text[p] = "backslash"
               \/ text[p] = text[o] /\ text[p + 1] = text[o]
      BY <2>1, <2>2, <3>2, TakenNext
    <3>4. Taken(o)[p] => \/ text[o] = "'" /\ text[p - 1] = "backslash"
                         \/ text[p - 1] = text[o] /\ text[p] = text[o]
      BY <2>2, TakenHow
    <3> QED
      BY <1>7, <2>1, <2>3, <2>4, <3>1, <3>2, <3>3, <3>4, Zenon DEF Stays
  <2>5. CASE p = LastOf(o)
    <3>1. p < n
      BY <1>1, <1>4
    <3> QED
      BY <1>1, <1>7, <2>1, <2>3, <2>5, <3>1, Zenon DEF Leaves
  <2> QED
    BY <2>1, <2>2, <2>4, <2>5
<1>8. CASE ~Bare(p)
  <2>1. PICK o \in Free : In(o, p)
    BY <1>8 DEF Bare
  <2> QED
    BY <1>7, <2>1, Zenon DEF p, q
<1> QED
  BY <1>5, <1>6, <1>8

-----------------------------------------------------------------------------
(***************************************************************************)
(* What Body, SplitTop and Words wait for before a place: the mark of the  *)
(* quoted text it is in, or nothing after the first of a doubled mark.     *)
(***************************************************************************)
Doubled(o, p) == Taken(o)[p] /\ text[p] = text[o]

Right(p, v) ==
  /\ \A o \in Free : In(o, p) => v = IF Doubled(o, p) THEN None ELSE text[o]
  /\ Bare(p) => v = None

(***************************************************************************)
(* What they are given of place k, where escaped quotes are doubled.       *)
(***************************************************************************)
ReadRight(st, k, tok) ==
  /\ tok = text[st[k]] \/ (tok = "'" /\ text[st[k]] = "backslash")
  /\ Bare(st[k]) => tok = text[st[k]]
  /\ \A o \in Free : In(o, st[k]) /\ text[o] = "'" =>
       (tok = "'" <=> \/ text[st[k]] = "'"
                      \/ /\ mysql /\ text[st[k]] = "backslash"
                         /\ ~Taken(o)[st[k]] /\ text[st[k + 1]] = "'")

LEMMA OneRight ==
  ASSUME File, NEW o \in Free, NEW q \in Nat, In(o, q), NEW v,
         v = IF Doubled(o, q) THEN None ELSE text[o]
  PROVE  Right(q, v)
<1>1. \A m \in Free : In(m, q) => m = o
  BY OneQuote
<1>2. ~Bare(q)
  BY DEF Bare
<1> QED
  BY <1>1, <1>2, Zenon DEF Right

LEMMA BareRight ==
  ASSUME NEW q, Bare(q)
  PROVE  Right(q, None)
BY Zenon DEF Right, Bare

LEMMA MarkIs ==
  ASSUME NEW m \in Quotes
  PROVE  m # None /\ m # "backslash" /\ (m # "'" => m = "back quote")
BY DEF Quotes, None

LEMMA QuoteGoesOn ==
  ASSUME File, NEW st, Part(st), Plain(st), NEW k \in 1 .. Len(st), k + 1 \in 1 .. Len(st),
         NEW tok, ReadRight(st, k, tok), NEW v, Right(st[k], v)
  PROVE  Right(st[k + 1], Waits(v, tok))
<1> DEFINE p == st[k]
           q == st[k + 1]
<1>1. \/ Passes(p, q)
      \/ \E o \in Free : text[o] \in Quotes /\ (Enters(o, p, q) \/ Stays(o, p, q) \/ Leaves(o, p, q))
  BY Ways
<1>2. p \in Nat /\ q \in Nat
  BY NextPlace
<1>3. /\ tok = text[p] \/ (tok = "'" /\ text[p] = "backslash")
      /\ Bare(p) => tok = text[p]
      /\ \A o \in Free : In(o, p) /\ text[o] = "'" =>
           (tok = "'" <=> \/ text[p] = "'"
                          \/ mysql /\ text[p] = "backslash" /\ ~Taken(o)[p] /\ text[q] = "'")
  BY Zenon DEF ReadRight
<1>4. /\ \A o \in Free : In(o, p) => v = IF Doubled(o, p) THEN None ELSE text[o]
      /\ Bare(p) => v = None
  BY Zenon DEF Right
<1> HIDE DEF p, q
<1>5. CASE Passes(p, q)
  <2>1. v = None /\ tok \notin Quotes /\ Bare(q)
    BY <1>3, <1>4, <1>5, Zenon DEF Passes
  <2>2. Waits(v, tok) = None
    BY <2>1, Zenon DEF Waits
  <2> QED
    BY <2>1, <2>2, BareRight, Zenon DEF q
<1>6. ASSUME NEW o \in Free, text[o] \in Quotes, Enters(o, p, q)
      PROVE  Right(q, Waits(v, tok))
  <2>1. v = None /\ tok = text[o] /\ In(o, q) /\ ~Doubled(o, q)
    BY <1>3, <1>4, <1>6, Zenon DEF Enters, Doubled
  <2>2. Waits(v, tok) = text[o]
    BY <1>6, <2>1, Zenon DEF Waits
  <2> QED
    BY <1>2, <2>1, <2>2, OneRight
<1>7. ASSUME NEW o \in Free, text[o] \in Quotes, Stays(o, p, q)
      PROVE  Right(q, Waits(v, tok))
  <2>1. In(o, p) /\ In(o, q)
    BY <1>7, Zenon DEF Stays
  <2>2. v = IF Doubled(o, p) THEN None ELSE text[o]
    BY <1>4, <2>1
  <2>3. text[o] # None /\ text[o] # "backslash" /\ (text[o] # "'" => text[o] = "back quote")
    BY <1>7, MarkIs
  <2>4. CASE Doubled(o, p)
    <3>1. v = None /\ tok = text[o]
      BY <1>3, <2>2, <2>3, <2>4, Zenon DEF Doubled
    <3>2. ~Doubled(o, q)
      BY <1>7, <2>4, Zenon DEF Doubled, Stays
    <3>3. Waits(v, tok) = text[o]
      BY <1>7, <3>1, Zenon DEF Waits
    <3> QED
      BY <1>2, <2>1, <3>2, <3>3, OneRight
  <2>5. CASE ~Doubled(o, p)
    <3>1. v = text[o]
      BY <2>2, <2>5
    <3>2. tok = text[o] <=> Doubled(o, q)
      <4>1. CASE text[p] = text[o]
        <5>1. ~Taken(o)[p] /\ text[q] = text[o]
          BY <1>7, <2>5, <4>1, Zenon DEF Doubled, Stays
        <5>2. Doubled(o, q)
          BY <1>7, <4>1, <5>1, Zenon DEF Doubled, Stays
        <5>3. tok = text[o]
          BY <1>3, <2>3, <4>1, Zenon
        <5> QED
          BY <5>2, <5>3
      <4>2. CASE text[p] # text[o] /\ text[o] = "'"
        <5>1. tok = "'" <=> mysql /\ text[p] = "backslash" /\ ~Taken(o)[p] /\ text[q] = "'"
          BY <1>3, <2>1, <4>2, Zenon
        <5>2. Taken(o)[q] <=> ~Taken(o)[p] /\ mysql /\ text[p] = "backslash"
          BY <1>7, <4>2, Zenon DEF Stays
        <5> QED
          BY <4>2, <5>1, <5>2, Zenon DEF Doubled
      <4>3. CASE text[p] # text[o] /\ text[o] # "'"
        <5>1. tok # text[o]
          BY <1>3, <4>3, Zenon
        <5>2. ~Taken(o)[q]
          BY <1>7, <4>3, Zenon DEF Stays
        <5> QED
          BY <5>1, <5>2, Zenon DEF Doubled
      <4> QED
        BY <4>1, <4>2, <4>3, Zenon
    <3>3. Waits(v, tok) = IF Doubled(o, q) THEN None ELSE text[o]
      BY <2>3, <3>1, <3>2, Zenon DEF Waits
    <3> QED
      BY <1>2, <2>1, <3>3, OneRight
  <2> QED
    BY <2>4, <2>5
<1>8. ASSUME NEW o \in Free, text[o] \in Quotes, Leaves(o, p, q)
      PROVE  Right(q, Waits(v, tok))
  <2>1. In(o, p) /\ text[p] = text[o] /\ ~Doubled(o, p) /\ Bare(q)
    BY <1>8, Zenon DEF Leaves, Doubled
  <2>2. text[o] # None /\ text[o] # "backslash"
    BY <1>8, MarkIs
  <2>3. v = text[o] /\ tok = text[o]
    BY <1>3, <1>4, <2>1, <2>2, Zenon
  <2>4. Waits(v, tok) = None
    BY <2>2, <2>3, Zenon DEF Waits
  <2> QED
    BY <2>1, <2>4, BareRight, Zenon
<1> QED
  BY <1>1, <1>5, <1>6, <1>7, <1>8, Zenon DEF q

(***************************************************************************)
(* So all of a statement is read right, if each place of it is given so.   *)
(***************************************************************************)
LEMMA ReadersWait ==
  ASSUME File, NEW st, Part(st), Plain(st), NEW toks, Len(toks) = Len(st),
         \A k \in 1 .. Len(st) : k + 1 \in 1 .. Len(st) => ReadRight(st, k, toks[k])
  PROVE  \A k \in 1 .. Len(st) : Right(st[k], InQuote(toks)[k])
<1> DEFINE at == InQuote(toks)
           Good == {k \in Nat : k + 1 <= Len(st) => Right(st[k + 1], at[k + 1])}
<1>1. st \in Seq(1 .. n)
  BY Zenon DEF Part
<1>2. Len(st) \in Nat
  BY <1>1, SeqIs
<1>3. at[1] = None /\ \A k \in 1 .. Len(st) : at[k + 1] = Waits(at[k], toks[k])
  BY <1>2, InQuoteIs
<1> HIDE DEF at
<1>4. 0 \in Good
  <2> SUFFICES ASSUME 1 <= Len(st) PROVE Right(st[1], None)
    BY <1>3
  <2>1. Bare(st[1])
    BY FirstIsBare
  <2> QED
    BY <2>1, BareRight
<1>5. ASSUME NEW k \in Nat, k \in Good PROVE k + 1 \in Good
  <2> SUFFICES ASSUME (k + 1) + 1 <= Len(st)
               PROVE  Right(st[(k + 1) + 1], at[(k + 1) + 1])
    OBVIOUS
  <2>1. k + 1 \in 1 .. Len(st) /\ (k + 1) + 1 \in 1 .. Len(st) /\ k + 1 <= Len(st)
    BY <1>2
  <2>2. Right(st[k + 1], at[k + 1])
    BY <1>5, <2>1
  <2>3. ReadRight(st, k + 1, toks[k + 1])
    BY <2>1
  <2>4. Right(st[(k + 1) + 1], Waits(at[k + 1], toks[k + 1]))
    BY <2>1, <2>2, <2>3, QuoteGoesOn
  <2> QED
    BY <1>3, <2>1, <2>4
<1>6. \A k \in Nat : k \in Good
  <2> HIDE DEF Good
  <2> QED
    BY <1>4, <1>5, Induction
<1>7. ASSUME NEW k \in 1 .. Len(st) PROVE Right(st[k], at[k])
  <2>1. k - 1 \in Nat /\ (k - 1) + 1 = k /\ k <= Len(st)
    OBVIOUS
  <2>2. k - 1 \in Good
    BY <1>6, <2>1
  <2> QED
    BY <2>1, <2>2
<1> QED
  BY <1>7 DEF at

-----------------------------------------------------------------------------
(***************************************************************************)
(* What doubleEscapedQuotes notes before a place: the quote it is in, and  *)
(* whether a backslash escapes the place. An identifier that is not closed *)
(* in the statement it passes over, and what it notes in it does no harm.  *)
(***************************************************************************)
Slashed(o, p) == Taken(o)[p] /\ text[p - 1] = "backslash"

Notes(st, p, q, b) ==
  /\ Bare(p) => q = None /\ ~b
  /\ \A o \in Free : In(o, p) /\ text[o] = "'" =>
       /\ b <=> Slashed(o, p)
       /\ q = IF Taken(o)[p] /\ ~Slashed(o, p) THEN None ELSE "'"
  /\ \A o \in Free : In(o, p) /\ text[o] = "back quote" /\ LastOf(o) < st[Len(st)] =>
       /\ ~b
       /\ q = IF Taken(o)[p] THEN None ELSE "back quote"

LEMMA OneNoted ==
  ASSUME File, NEW st, NEW o \in Free, NEW p \in Nat, In(o, p), NEW q, NEW b,
         text[o] = "'" => /\ b <=> Slashed(o, p)
                          /\ q = IF Taken(o)[p] /\ ~Slashed(o, p) THEN None ELSE "'",
         text[o] = "back quote" /\ LastOf(o) < st[Len(st)] =>
           /\ ~b
           /\ q = IF Taken(o)[p] THEN None ELSE "back quote"
  PROVE  Notes(st, p, q, b)
<1>1. \A m \in Free : In(m, p) => m = o
  BY OneQuote
<1>2. ~Bare(p)
  BY DEF Bare
<1> QED
  BY <1>1, <1>2, Zenon DEF Notes

LEMMA BareNoted ==
  ASSUME NEW st, NEW p, Bare(p), NEW q, q = None, NEW b, ~b
  PROVE  Notes(st, p, q, b)
BY Zenon DEF Notes, Bare

(***************************************************************************)
(* A quoted text that ends within a statement closes later in it.          *)
(***************************************************************************)
LEMMA ClosesThen ==
  ASSUME File, NEW st, Part(st), NEW k \in 1 .. Len(st), NEW o \in Free, text[o] \in Quotes,
         o <= st[k], st[k] < LastOf(o), text[st[k]] = text[o], LastOf(o) < st[Len(st)]
  PROVE  ClosesLater(st, k + 1)
<1> DEFINE c == LastOf(o)
<1>1. /\ st \in Seq(1 .. n) /\ Increasing(st)
      /\ \A p \in Keep : \A x, y \in ToSet(st) : x <= p /\ p <= y => p \in ToSet(st)
  BY Zenon DEF Part
<1>2. /\ Len(st) \in Nat /\ DOMAIN st = 1 .. Len(st)
      /\ \A m \in 1 .. Len(st) : st[m] \in 1 .. n
  BY <1>1, SeqIs
<1>3. n \in Nat /\ o \in 1 .. n /\ c \in o .. n
  BY FreeIs, LastOfIn DEF File
<1>4. Len(st) \in 1 .. Len(st) /\ st[k] \in ToSet(st) /\ st[Len(st)] \in ToSet(st)
  BY <1>2 DEF ToSet
<1>5. c \in Keep
  <2>1. c \in o .. LastOf(o)
    BY <1>3
  <2> QED
    BY <2>1, QuotesKept
<1>6. st[k] <= c /\ c <= st[Len(st)]
  BY <1>2, <1>3, <1>4
<1>7. c \in ToSet(st)
  BY <1>1, <1>4, <1>5, <1>6
<1>8. PICK m \in 1 .. Len(st) : st[m] = c
  BY <1>2, <1>7 DEF ToSet
<1>9. m \in k + 1 .. Len(st)
  <2>1. m < k => st[m] < st[k]
    BY <1>1, <1>2 DEF Increasing
  <2>2. ~(m < k) /\ m # k
    BY <1>2, <1>3, <1>8, <2>1
  <2> QED
    BY <2>2
<1>10. text[c] = text[o]
  <2>1. st[Len(st)] \in 1 .. n /\ o < c /\ c < n /\ c \in Nat
    BY <1>2, <1>3, <1>4
  <2>2. c <= LastOf(o) /\ c = LastOf(o)
    BY <1>3
  <2> QED
    BY <2>1, <2>2, InQuotedText
<1>11. (k + 1) - 1 = k
  OBVIOUS
<1> QED
  BY <1>8, <1>9, <1>10, <1>11, Zenon DEF ClosesLater

LEMMA LastPlace ==
  ASSUME NEW m, NEW st \in Seq(1 .. m), Increasing(st), NEW k \in 1 .. Len(st)
  PROVE  st[k] <= st[Len(st)] /\ st[Len(st)] \in Nat
<1>1. /\ Len(st) \in Nat /\ DOMAIN st = 1 .. Len(st)
      /\ \A j \in 1 .. Len(st) : st[j] \in 1 .. m
  BY SeqIs
<1>2. k = Len(st) \/ k < Len(st)
  <2>1. \A l \in Nat : \A j \in 1 .. l : j = l \/ j < l
    OBVIOUS
  <2> QED
    BY <1>1, <2>1
<1>3. k < Len(st) => st[k] < st[Len(st)]
  BY <1>1 DEF Increasing
<1>4. Len(st) \in 1 .. Len(st) /\ \A j \in 1 .. Len(st) : st[j] \in Nat
  BY <1>1
<1> QED
  BY <1>2, <1>3, <1>4

LEMMA NotesGoOn ==
  ASSUME File, mysql, NEW st, Part(st), Plain(st),
         NEW k \in 1 .. Len(st), k + 1 \in 1 .. Len(st),
         NEW q, NEW b, NEW r, NEW c,
         Notes(st, st[k], q, b),
         Turned(q, b, text[st[k]], ClosesLater(st, k + 1), ~(k + 1 <= Len(st)), r, c)
  PROVE  Notes(st, st[k + 1], r, c)
<1> DEFINE p == st[k]
           s == st[k + 1]
           tok == text[p]
           later == ClosesLater(st, k + 1)
           end == st[Len(st)]
<1>1. \/ Passes(p, s)
      \/ \E o \in Free : text[o] \in Quotes /\ (Enters(o, p, s) \/ Stays(o, p, s) \/ Leaves(o, p, s))
  BY Ways
<1>2. p \in Nat /\ s \in Nat
  BY NextPlace
<1>3. k + 1 <= Len(st)
  OBVIOUS
<1>4. /\ b => r = q /\ ~c
      /\ ~b /\ q = "'" /\ tok = "backslash" => r = q /\ c
      /\ ~b /\ ~(q = "'" /\ tok = "backslash") =>
           /\ ~c
           /\ q = tok => r = None
           /\ q # tok /\ q = None /\ (tok = "'" \/ (tok = "back quote" /\ later)) => r = tok
           /\ q # tok /\ ~(q = None /\ (tok = "'" \/ (tok = "back quote" /\ later))) => r = q
  BY <1>3, Zenon DEF Turned
<1>5. /\ Bare(p) => q = None /\ ~b
      /\ \A o \in Free : In(o, p) /\ text[o] = "'" =>
           /\ b <=> Slashed(o, p)
           /\ q = IF Taken(o)[p] /\ ~Slashed(o, p) THEN None ELSE "'"
      /\ \A o \in Free : In(o, p) /\ text[o] = "back quote" /\ LastOf(o) < end =>
           ~b /\ q = IF Taken(o)[p] THEN None ELSE "back quote"
  BY Zenon DEF Notes
<1>6. None # "'" /\ None # "back quote"
  BY DEF None
<1>7. \A o \in Free : text[o] \in Quotes /\ o <= p /\ p < LastOf(o) /\ tok = text[o] /\ LastOf(o) < end
                        => later
  BY ClosesThen
<1>8. s <= end /\ end \in Nat
  <2>1. st \in Seq(1 .. n) /\ Increasing(st)
    BY Zenon DEF Part
  <2> QED
    BY <2>1, LastPlace, Zenon
<1> HIDE DEF p, s, tok, later, end
<1>9. CASE Passes(p, s)
  <2>1. q = None /\ ~b /\ tok # "'" /\ tok # "back quote" /\ Bare(s)
    BY <1>5, <1>9, Zenon DEF Passes, Quotes, tok
  <2>2. r = None /\ ~c
    BY <1>4, <1>6, <2>1, Zenon
  <2> QED
    BY <2>1, <2>2, BareNoted DEF s
<1>10. ASSUME NEW o \in Free, text[o] \in Quotes, Enters(o, p, s)
       PROVE  Notes(st, s, r, c)
  <2>1. q = None /\ ~b /\ tok = text[o] /\ In(o, s) /\ ~Taken(o)[s] /\ ~Slashed(o, s)
    BY <1>5, <1>10, Zenon DEF Enters, Slashed, tok
  <2>2. text[o] = "'" => r = "'" /\ ~c
    BY <1>4, <1>6, <2>1, Zenon
  <2>3. LastOf(o) < end => later
    <3>1. o <= p /\ p < LastOf(o)
      BY <1>2, <1>10 DEF Enters
    <3> QED
      BY <1>7, <1>10, <2>1, <3>1
  <2>4. text[o] = "back quote" /\ LastOf(o) < end => r = "back quote" /\ ~c
    BY <1>4, <1>6, <2>1, <2>3, Zenon
  <2>5. text[o] = "'" => /\ c <=> Slashed(o, s)
                         /\ r = IF Taken(o)[s] /\ ~Slashed(o, s) THEN None ELSE "'"
    BY <2>1, <2>2, Zenon
  <2>6. text[o] = "back quote" /\ LastOf(o) < end =>
          ~c /\ r = IF Taken(o)[s] THEN None ELSE "back quote"
    BY <2>1, <2>4, Zenon
  <2> QED
    BY <1>2, <2>1, <2>5, <2>6, OneNoted, Zenon DEF end
<1>11. ASSUME NEW o \in Free, text[o] \in Quotes, Stays(o, p, s)
       PROVE  Notes(st, s, r, c)
  <2>1. In(o, p) /\ In(o, s)
    BY <1>11, Zenon DEF Stays
  <2>2. ASSUME text[o] = "'"
        PROVE  /\ c <=> Slashed(o, s)
               /\ r = IF Taken(o)[s] /\ ~Slashed(o, s) THEN None ELSE "'"
    <3>1. b <=> Slashed(o, p)
      BY <1>5, <2>1, <2>2
    <3>2. q = IF Taken(o)[p] /\ ~Slashed(o, p) THEN None ELSE "'"
      BY <1>5, <2>1, <2>2
    <3>3. CASE Slashed(o, p)
      <4>1. q = "'" /\ r = "'" /\ ~c
        BY <1>4, <3>1, <3>2, <3>3, Zenon
      <4>2. ~Taken(o)[s] /\ ~Slashed(o, s)
        BY <1>11, <3>3, Zenon DEF Stays, Slashed
      <4> QED
        BY <4>1, <4>2, Zenon
    <3>4. CASE Taken(o)[p] /\ ~Slashed(o, p)
      <4>1. q = None /\ ~b /\ tok = "'"
        BY <1>11, <2>2, <3>1, <3>2, <3>4, Zenon DEF Stays, Slashed, tok
      <4>2. r = "'" /\ ~c
        BY <1>4, <1>6, <4>1, Zenon
      <4>3. ~Taken(o)[s] /\ ~Slashed(o, s)
        BY <1>11, <3>4, Zenon DEF Stays, Slashed
      <4> QED
        BY <4>2, <4>3, Zenon
    <3>5. CASE ~Taken(o)[p]
      <4>1. q = "'" /\ ~b
        BY <3>1, <3>2, <3>5, Zenon DEF Slashed
      <4>2. CASE tok = "backslash"
        <5>1. r = "'" /\ c
          BY <1>4, <4>1, <4>2, Zenon
        <5>2. Taken(o)[s] /\ Slashed(o, s)
          BY <1>11, <2>2, <3>5, <4>2, Zenon DEF Stays, Slashed, tok
        <5> QED
          BY <5>1, <5>2, Zenon
      <4>3. CASE tok = "'"
        <5>1. r = None /\ ~c
          BY <1>4, <4>1, <4>3, Zenon
        <5>2. Taken(o)[s] /\ ~Slashed(o, s)
          BY <1>11, <2>2, <3>5, <4>3, Zenon DEF Stays, Slashed, tok
        <5> QED
          BY <5>1, <5>2, Zenon
      <4>4. CASE tok # "backslash" /\ tok # "'"
        <5>1. r = "'" /\ ~c
          BY <1>4, <1>6, <4>1, <4>4, Zenon
        <5>2. ~Taken(o)[s] /\ ~Slashed(o, s)
          BY <1>11, <2>2, <4>4, Zenon DEF Stays, Slashed, tok
        <5> QED
          BY <5>1, <5>2, Zenon
      <4> QED
        BY <4>2, <4>3, <4>4, Zenon
    <3> QED
      BY <3>3, <3>4, <3>5, Zenon
  <2>3. ASSUME text[o] = "back quote", LastOf(o) < end
        PROVE  ~c /\ r = IF Taken(o)[s] THEN None ELSE "back quote"
    <3>1. ~b /\ q = IF Taken(o)[p] THEN None ELSE "back quote"
      BY <1>5, <2>1, <2>3
    <3>2. CASE Taken(o)[p]
      <4>1. q = None /\ tok = "back quote" /\ ~Taken(o)[s]
        BY <1>11, <2>3, <3>1, <3>2, Zenon DEF Stays, tok
      <4>2. later
        <5>1. o <= p /\ p < LastOf(o)
          <6>1. o < p /\ p < LastOf(o) /\ o \in Nat
            BY <1>11, FreeIs DEF Stays, In, File
          <6> QED
            BY <1>2, <6>1
        <5> QED
          BY <1>7, <1>11, <2>3, <4>1, <5>1
      <4>3. r = "back quote" /\ ~c
        BY <1>4, <1>6, <3>1, <4>1, <4>2, Zenon
      <4> QED
        BY <4>1, <4>3, Zenon
    <3>3. CASE ~Taken(o)[p]
      <4>1. q = "back quote" /\ q # "'"
        BY <3>1, <3>3, Zenon
      <4>2. CASE tok = "back quote"
        <5>1. r = None /\ ~c
          BY <1>4, <3>1, <4>1, <4>2, Zenon
        <5>2. Taken(o)[s]
          BY <1>11, <2>3, <3>3, <4>2, Zenon DEF Stays, tok
        <5> QED
          BY <5>1, <5>2, Zenon
      <4>3. CASE tok # "back quote"
        <5>1. r = "back quote" /\ ~c
          BY <1>4, <1>6, <3>1, <4>1, <4>3, Zenon
        <5>2. ~Taken(o)[s]
          BY <1>11, <2>3, <4>3, Zenon DEF Stays, tok
        <5> QED
          BY <5>1, <5>2, Zenon
      <4> QED
        BY <4>2, <4>3, Zenon
    <3> QED
      BY <3>2, <3>3
  <2> QED
    BY <1>2, <2>1, <2>2, <2>3, OneNoted, Zenon DEF end
<1>12. ASSUME NEW o \in Free, text[o] \in Quotes, Leaves(o, p, s)
       PROVE  Notes(st, s, r, c)
  <2>1. In(o, p) /\ tok = text[o] /\ ~Taken(o)[p] /\ ~Slashed(o, p) /\ Bare(s)
    BY <1>12, Zenon DEF Leaves, Slashed, tok
  <2>2. LastOf(o) < end
    BY <1>2, <1>8, <1>12 DEF Leaves
  <2>3. ~b /\ q = text[o] /\ tok # "backslash"
    <3>1. text[o] = "'" \/ text[o] = "back quote"
      BY <1>12 DEF Quotes
    <3> QED
      BY <1>5, <2>1, <2>2, <3>1, Zenon
  <2>4. r = None /\ ~c
    BY <1>4, <2>1, <2>3, Zenon
  <2> QED
    BY <2>1, <2>4, BareNoted
<1> QED
  BY <1>1, <1>9, <1>10, <1>11, <1>12, Zenon DEF s

-----------------------------------------------------------------------------
(***************************************************************************)
(* The MySQL reader's notes are right all through a statement, and so is   *)
(* what it passes on.                                                      *)
(***************************************************************************)
Noted(st, k) == Notes(st, st[k], Escaping(st)[k].q, Escaping(st)[k].escaped)

LEMMA AllNoted ==
  ASSUME File, mysql, NEW st, Part(st), Plain(st)
  PROVE  \A k \in 1 .. Len(st) : Noted(st, k)
<1> DEFINE Good == {k \in Nat : k + 1 <= Len(st) => Noted(st, k + 1)}
<1>1. st \in Seq(1 .. n)
  BY Zenon DEF Part
<1>2. Len(st) \in Nat
  BY <1>1, SeqIs
<1>3. /\ Escaping(st)[1].q = None /\ ~Escaping(st)[1].escaped
      /\ \A k \in 1 .. Len(st) :
           Turned(Escaping(st)[k].q, Escaping(st)[k].escaped, text[st[k]],
                  ClosesLater(st, k + 1), ~(k + 1 <= Len(st)),
                  Escaping(st)[k + 1].q, Escaping(st)[k + 1].escaped)
  BY <1>2, EscapingTurns
<1>4. 0 \in Good
  <2> SUFFICES ASSUME 1 <= Len(st) PROVE Noted(st, 1)
    OBVIOUS
  <2>1. Bare(st[1])
    BY FirstIsBare
  <2> QED
    BY <1>3, <2>1, BareNoted, Zenon DEF Noted
<1>5. ASSUME NEW k \in Nat, k \in Good PROVE k + 1 \in Good
  <2> SUFFICES ASSUME (k + 1) + 1 <= Len(st) PROVE Noted(st, (k + 1) + 1)
    OBVIOUS
  <2>1. k + 1 \in 1 .. Len(st) /\ (k + 1) + 1 \in 1 .. Len(st) /\ k + 1 <= Len(st)
    BY <1>2
  <2>2. Noted(st, k + 1)
    BY <1>5, <2>1
  <2> DEFINE m == k + 1
             was == Escaping(st)[m]
             is == Escaping(st)[m + 1]
  <2>3. Turned(was.q, was.escaped, text[st[m]], ClosesLater(st, m + 1), ~(m + 1 <= Len(st)),
               is.q, is.escaped)
    BY <1>3, <2>1, Zenon
  <2>4. Notes(st, st[m], was.q, was.escaped)
    BY <2>2, Zenon DEF Noted
  <2> HIDE DEF was, is
  <2>5. m \in 1 .. Len(st) /\ m + 1 \in 1 .. Len(st)
    BY <2>1
  <2> HIDE DEF m
  <2>6. Notes(st, st[m + 1], is.q, is.escaped)
    BY <2>3, <2>4, <2>5, NotesGoOn
  <2> QED
    BY <2>6, Zenon DEF Noted, is, m
<1>6. \A k \in Nat : k \in Good
  <2> HIDE DEF Good
  <2> QED
    BY <1>4, <1>5, Induction
<1> SUFFICES ASSUME NEW k \in 1 .. Len(st) PROVE Noted(st, k)
  OBVIOUS
<1>7. k - 1 \in Nat /\ (k - 1) + 1 = k /\ k <= Len(st)
  OBVIOUS
<1>8. k - 1 \in Good
  BY <1>6, <1>7
<1> QED
  BY <1>7, <1>8

LEMMA MySQLReadsRight ==
  ASSUME File, mysql, NEW st, Part(st), Plain(st),
         NEW k \in 1 .. Len(st), k + 1 \in 1 .. Len(st)
  PROVE  ReadRight(st, k, DoubleEscapedQuotes(st)[k])
<1> DEFINE p == st[k]
           q == Escaping(st)[k].q
           b == Escaping(st)[k].escaped
           r == Escaping(st)[k + 1].q
           c == Escaping(st)[k + 1].escaped
           later == ClosesLater(st, k + 1)
           tok == DoubleEscapedQuotes(st)[k]
<1>1. st \in Seq(1 .. n)
  BY Zenon DEF Part
<1>2. Len(st) \in Nat /\ DOMAIN st = 1 .. Len(st)
  BY <1>1, SeqIs
<1>3. k < Len(st) /\ k + 1 <= Len(st) /\ k \in DOMAIN st
  BY <1>2
<1>4. tok = IF c /\ text[st[k + 1]] = "'" THEN "'" ELSE text[p]
  BY <1>3, Zenon DEF DoubleEscapedQuotes
<1>5. Turned(q, b, text[p], later, ~(k + 1 <= Len(st)), r, c)
  BY <1>2, EscapingTurns
<1>6. Noted(st, k)
  BY AllNoted
<1>7. /\ Bare(p) => q = None /\ ~b
      /\ \A o \in Free : In(o, p) /\ text[o] = "'" =>
           /\ b <=> Slashed(o, p)
           /\ q = IF Taken(o)[p] /\ ~Slashed(o, p) THEN None ELSE "'"
  BY <1>6, Zenon DEF Noted, Notes
<1> HIDE DEF p, q, b, r, c, later, tok
<1>8. c <=> ~b /\ q = "'" /\ text[p] = "backslash"
  BY <1>3, <1>5, Zenon DEF Turned
<1>9. None # "'" /\ "backslash" # "'"
  BY DEF None
<1>10. Bare(p) => tok = text[p]
  BY <1>4, <1>7, <1>8, <1>9, Zenon
<1>11. ASSUME NEW o \in Free, In(o, p), text[o] = "'"
       PROVE  tok = "'" <=> \/ text[p] = "'"
                            \/ /\ mysql /\ text[p] = "backslash"
                               /\ ~Taken(o)[p] /\ text[st[k + 1]] = "'"
  <2>1. (b <=> Slashed(o, p)) /\ q = IF Taken(o)[p] /\ ~Slashed(o, p) THEN None ELSE "'"
    BY <1>7, <1>11
  <2>2. ~b /\ q = "'" <=> ~Taken(o)[p]
    BY <1>9, <2>1, Zenon DEF Slashed
  <2> QED
    BY <1>4, <1>8, <1>9, <2>2, Zenon
<1>12. tok = text[p] \/ (tok = "'" /\ text[p] = "backslash")
  BY <1>4, <1>8, Zenon
<1> QED
  BY <1>10, <1>11, <1>12, Zenon DEF ReadRight, p, tok

LEMMA ReadsRight ==
  ASSUME File, NEW st, Part(st), Plain(st), NEW k \in 1 .. Len(st), k + 1 \in 1 .. Len(st)
  PROVE  ReadRight(st, k, ReadAs(st)[k])
<1>1. CASE mysql
  BY <1>1, MySQLReadsRight, Zenon DEF ReadAs
<1>2. CASE ~mysql
  <2>1. st \in Seq(1 .. n)
    BY Zenon DEF Part
  <2>2. k \in DOMAIN st
    BY <2>1, SeqIs
  <2>3. ReadAs(st)[k] = text[st[k]]
    BY <1>2, <2>2, Zenon DEF ReadAs
  <2> QED
    BY <1>2, <2>3, Zenon DEF ReadRight
<1> QED
  BY <1>1, <1>2

LEMMA DomainLen ==
  ASSUME NEW m \in Nat, NEW s, DOMAIN s = 1 .. m, s = [j \in DOMAIN s |-> s[j]]
  PROVE  Len(s) = m
OBVIOUS

(***************************************************************************)
(* The readers take a word of a statement for quoted exactly where the     *)
(* scan did (Body, SplitTop and Words, after doubleEscapedQuotes in        *)
(* MySQL), in every statement without dollar quotes.                       *)
(***************************************************************************)
THEOREM QuotesReadTheSame == Spec => []ReadersSeeTheSameQuotes
<1>1. Inv => ReadersSeeTheSameQuotes
  <2> SUFFICES ASSUME Inv, NEW s \in DOMAIN out,
                      \A j \in DOMAIN out[s].text : text[out[s].text[j]] \notin Tags,
                      NEW k \in DOMAIN out[s].text,
                      text[out[s].text[k]] \notin Quotes \cup {"backslash"}
               PROVE  InQuote(ReadAs(out[s].text))[k] # ""
                      <=> QuotedInFile(Free, out[s].text[k])
    BY Zenon DEF ReadersSeeTheSameQuotes
  <2> DEFINE st == out[s].text
             p == st[k]
             v == InQuote(ReadAs(st))[k]
  <2>1. File /\ Part(st)
    BY OutParts, Zenon DEF Inv, Scan
  <2>2. Plain(st)
    BY Zenon DEF Plain
  <2>3. st \in Seq(1 .. n) /\ Len(st) \in Nat /\ DOMAIN st = 1 .. Len(st)
    <3>1. st \in Seq(1 .. n)
      BY <2>1, Zenon DEF Part
    <3> QED
      BY <3>1, SeqIs
  <2>4. Len(ReadAs(st)) = Len(st)
    <3>1. DOMAIN ReadAs(st) = 1 .. Len(st)
      BY <2>3, Zenon DEF ReadAs, DoubleEscapedQuotes
    <3>2. ReadAs(st) = [j \in DOMAIN ReadAs(st) |-> ReadAs(st)[j]]
      BY Zenon DEF ReadAs, DoubleEscapedQuotes
    <3> QED
      BY <2>3, <3>1, <3>2, DomainLen
  <2>5. \A j \in 1 .. Len(st) : Right(st[j], InQuote(ReadAs(st))[j])
    BY <2>1, <2>2, <2>4, ReadsRight, ReadersWait
  <2>6. Right(p, v)
    BY <2>3, <2>5
  <2>7. QuotedInFile(Free, p) <=> ~Bare(p)
    BY Zenon DEF QuotedInFile, Bare, In
  <2>8. ASSUME NEW o \in Free, In(o, p) PROVE v # None
    <3>1. text[o] \in Quotes
      BY <2>8 DEF In
    <3>2. ~Doubled(o, p)
      BY <3>1, Zenon DEF Doubled
    <3>3. v = text[o]
      BY <2>6, <2>8, <3>2, Zenon DEF Right
    <3> QED
      BY <3>1, <3>3, MarkIs
  <2>9. Bare(p) => v = None
    BY <2>6, Zenon DEF Right
  <2>10. ~Bare(p) => \E o \in Free : In(o, p)
    BY DEF Bare
  <2> QED
    BY <2>7, <2>8, <2>9, <2>10, Zenon DEF None
<1> QED
  BY <1>1, AlwaysInv, PTL

=============================================================================
