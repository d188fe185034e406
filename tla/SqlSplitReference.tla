------------------------- MODULE SqlSplitReference --------------------------
(***************************************************************************)
(* Which statements a file has, said without scanning it, and that the     *)
(* scan finds them.                                                        *)
(***************************************************************************)
EXTENDS SqlSplit

(***************************************************************************)
(* Within the quoted text that opens at o: the places that are taken by    *)
(* the one before them, which escapes them or doubles them.                *)
(***************************************************************************)
Taken(o) ==
  LET taken[p \in o .. n + 1] ==
        /\ p > o + 1 /\ p <= n
        /\ ~taken[p - 1]
        /\ \/ mysql /\ text[o] = "'" /\ text[p - 1] = "backslash"
           \/ text[p - 1] = text[o] /\ text[p] = text[o]
  IN  taken

Closes(o, p) ==
  /\ p > o
  /\ text[p] = text[o]
  /\ text[o] \in Quotes =>
       ~Taken(o)[p] /\ (p < n => text[p + 1] # text[o])

(***************************************************************************)
(* The last place of what opens at o.                                      *)
(***************************************************************************)
LastOf(o) ==
  LET ends == {p \in o .. n :
                 \/ text[o] \in LineComments /\ (p = n \/ text[p + 1] = Newline)
                 \/ text[o] = "/*" /\ text[p] = "*/"
                 \/ text[o] \in Quotes \cup Tags /\ Closes(o, p)}
  IN  IF ends = {} THEN n ELSE Min(ends)

Opens(o) == text[o] \in LineComments \cup {"/*"} \cup Quotes \cup Tags

(***************************************************************************)
(* The places no comment and no quote before them hides.                   *)
(***************************************************************************)
Free ==
  LET free[p \in 1 .. n] ==
        \A o \in 1 .. p - 1 : free[o] /\ Opens(o) => p > LastOf(o)
  IN  {p \in 1 .. n : free[p]}

(***************************************************************************)
(* The places in comments.                                                 *)
(***************************************************************************)
Commented(free) ==
  UNION {o .. LastOf(o) : o \in {x \in free : text[x] \in LineComments \cup {"/*"}}}

(***************************************************************************)
(* The DELIMITER lines, each first on its line but for blanks.             *)
(***************************************************************************)
Settings(free) ==
  {p \in free :
     /\ mysql /\ text[p] \in DelimiterLines
     /\ \A m \in 1 .. p - 1 :
          text[m] # Blank => \E e \in free : text[e] = Newline /\ m <= e /\ e < p}

DelimiterAt(settings, p) ==
  LET before == {d \in settings : d < p}
  IN  IF before = {} THEN ";" ELSE Named(text[Max(before)])

(***************************************************************************)
(* Where statements end.                                                   *)
(***************************************************************************)
Cuts(free) ==
  LET settings == Settings(free)
  IN  settings \cup {p \in free : text[p] = DelimiterAt(settings, p)}

Kept(free, cuts) ==
  LET commented == Commented(free)
  IN  {p \in (1 .. n) \ cuts : p \in commented => text[p] = Newline}

(***************************************************************************)
(* What is kept between two places, without its outer blanks.              *)
(***************************************************************************)
Between(kept, a, b) ==
  LET words == {p \in kept : a < p /\ p < b /\ ~IsBlank(p)}
  IN  {p \in kept : \E x, y \in words : x <= p /\ p <= y}

NextCut(cuts, a) == Min({b \in cuts \cup {n + 1} : a < b})

Statements ==
  LET free == Free
      cuts == Cuts(free)
      kept == Kept(free, cuts)
  IN  {Between(kept, a, NextCut(cuts, a)) : a \in cuts \cup {0}} \ {{}}

-----------------------------------------------------------------------------

TypeOK ==
  /\ i \in 1 .. n + 1
  /\ line \in 1 .. n + 1
  /\ start \in 0 .. line
  /\ dollarT \in Tags \cup {""}
  /\ delim \in {";", "//"}
  /\ bol \in BOOLEAN /\ done \in BOOLEAN
  /\ \A k \in DOMAIN out : out[k].line \in 1 .. n + 1

(***************************************************************************)
(* The statements returned are the file's: no semicolon of a comment, a    *)
(* quote or a dollar quote ends one, and no comment is left in one         *)
(* (split.go:1-6, 17-18 and 23-27).                                        *)
(***************************************************************************)
StatementsAreTheFiles ==
  done => {ToSet(out[k].text) : k \in DOMAIN out} = Statements

LineOf(p) == 1 + Cardinality(Newlines(1, p - 1))

(***************************************************************************)
(* Where a reader finds a word: the statement's line and the line ends its *)
(* text has before the word (ItemLine and NameLine).                       *)
(***************************************************************************)
FoundOn(st, k) ==
  st.line + Cardinality({j \in 1 .. k : text[st.text[j]] = Newline})

(***************************************************************************)
(* Every word of a statement is found on the line it is on in the file,    *)
(* whatever comments and quotes stand before it, unless the statement      *)
(* begins with a quote (split.go:10-11, 17-18 and 106-107).                *)
(***************************************************************************)
EveryWordOnItsLine ==
  \A s \in DOMAIN out :
    text[out[s].text[1]] \notin Quotes =>
      \A k \in DOMAIN out[s].text :
        text[out[s].text[k]] # Newline =>
          FoundOn(out[s], k) = LineOf(out[s].text[k])

(***************************************************************************)
(* Every file is read to its end, also when a comment or a quote of it is  *)
(* never closed.                                                           *)
(***************************************************************************)
Terminates == <>done

=============================================================================
