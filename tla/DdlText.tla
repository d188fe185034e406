------------------------------ MODULE DdlText -------------------------------
(***************************************************************************)
(* How the readers see the quotes of a statement (internal/ddl). Body,     *)
(* SplitTop and Words close a quote at the next mark like the one that     *)
(* opened it, and know no backslash, so the MySQL reader first rewrites an *)
(* escaped quote as a doubled one (doubleEscapedQuotes).                   *)
(***************************************************************************)
EXTENDS SqlSplitReference

(***************************************************************************)
(* doubleEscapedQuotes at each place of st: the quote it is in, and        *)
(* whether the backslash before the place escapes it. An identifier's      *)
(* quotes are passed over if they close.                                   *)
(***************************************************************************)
Escaping(st) ==
  LET at[k \in 1 .. Len(st) + 1] ==
        IF k = 1 THEN [q |-> "", escaped |-> FALSE]
        ELSE LET was == at[k - 1]
                 tok == text[st[k - 1]]
             IN  IF was.escaped THEN [was EXCEPT !.escaped = FALSE]
                 ELSE IF was.q = "'" /\ tok = "backslash" /\ k <= Len(st)
                   THEN [was EXCEPT !.escaped = TRUE]
                 ELSE IF was.q = tok THEN [was EXCEPT !.q = ""]
                 ELSE IF was.q = "" /\ \/ tok = "'"
                                       \/ /\ tok = "back quote"
                                          /\ \E m \in k .. Len(st) : text[st[m]] = tok
                   THEN [was EXCEPT !.q = tok]
                 ELSE was
  IN  at

(* Faulty: the statement is read as it is written. *)
EscapedQuotesLeft(st) == [k \in DOMAIN st |-> text[st[k]]]

DoubleEscapedQuotes(st) ==
  [k \in DOMAIN st |->
     IF k < Len(st) /\ Escaping(st)[k + 1].escaped /\ text[st[k + 1]] = "'"
     THEN "'" ELSE text[st[k]]]

(***************************************************************************)
(* inQuote of Body, SplitTop and Words: the mark they wait for, at each    *)
(* place.                                                                  *)
(***************************************************************************)
InQuote(toks) ==
  LET at[k \in 1 .. Len(toks) + 1] ==
        IF k = 1 THEN ""
        ELSE IF at[k - 1] = "" THEN IF toks[k - 1] \in Quotes THEN toks[k - 1] ELSE ""
        ELSE IF toks[k - 1] = at[k - 1] THEN ""
        ELSE at[k - 1]
  IN  at

ReadAs(st) == IF mysql THEN DoubleEscapedQuotes(st) ELSE [k \in DOMAIN st |-> text[st[k]]]

-----------------------------------------------------------------------------

QuotedInFile(free, p) ==
  \E o \in free : text[o] \in Quotes /\ o < p /\ p <= LastOf(o)

(***************************************************************************)
(* The readers take a word for quoted exactly where the scan that cut the  *)
(* statement did, so that no comma or parenthesis of a string ends a       *)
(* column's definition and none outside is missed; in a statement without  *)
(* dollar quotes, which no table's is (mysql.go:541-543).                  *)
(***************************************************************************)
ReadersSeeTheSameQuotes ==
  \A s \in DOMAIN out :
    LET st == out[s].text
        free == Free
        inQuote == InQuote(ReadAs(st))
    IN  (\A k \in DOMAIN st : text[st[k]] \notin Tags) =>
          \A k \in DOMAIN st :
            text[st[k]] \notin Quotes \cup {"backslash"} =>
              (inQuote[k] # "" <=> QuotedInFile(free, st[k]))

=============================================================================
