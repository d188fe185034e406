------------------------------ MODULE SqlSplit ------------------------------
(***************************************************************************)
(* Cutting a SQL file into statements (internal/sqlsplit). A file is a     *)
(* sequence of tokens: one for each mark the scan looks for, one for any   *)
(* other word, blank or line end. Each turn of the loop in split is one    *)
(* step.                                                                   *)
(*                                                                         *)
(* What a statement keeps is the sequence of the places of its tokens in   *)
(* the file.                                                               *)
(***************************************************************************)
EXTENDS Naturals, SequencesExt

CONSTANTS
  PgTokens,    \* the tokens of Postgres and warehouse files
  MySQLTokens, \* the tokens of MySQL files
  MaxTokens    \* bounds the tokens of a file

Blank   == "blank"
Newline == "newline"

(***************************************************************************)
(* A DELIMITER line is one token, with the delimiter it names.             *)
(***************************************************************************)
DelimiterLines == {"DELIMITER //", "DELIMITER ;"}
Named(tok) == IF tok = "DELIMITER //" THEN "//" ELSE ";"

ASSUME TokensAssumption ==
  /\ MaxTokens \in Nat
  /\ PgTokens \cap DelimiterLines = {}

VARIABLES
  mysql,   \* which of Split and SplitMySQL is called
  text,    \* the file
  i,       \* the token to read next
  line,    \* the line counted so far
  start,   \* the line the current statement began on, or 0
  buf,     \* the current statement
  dollarT, \* the tag of the dollar quote being read, or ""
  delim,   \* what ends a statement
  bol,     \* whether only blanks were read since the line began
  out,     \* the statements cut
  done     \* whether split has returned

vars == <<mysql, text, i, line, start, buf, dollarT, delim, bol, out, done>>

n == Len(text)

(***************************************************************************)
(* Nothing but blanks follows the delimiter a DELIMITER line names.        *)
(***************************************************************************)
DelimiterLinesEnd ==
  \A p, m \in 1 .. n :
    text[p] \in DelimiterLines /\ p < m /\ text[m] # Blank =>
      \E e \in p + 1 .. m : text[e] = Newline

Init ==
  /\ mysql \in BOOLEAN
  /\ \E k \in 0 .. MaxTokens :
       text \in [1 .. k -> IF mysql THEN MySQLTokens ELSE PgTokens]
  /\ DelimiterLinesEnd
  /\ i = 1
  /\ line = 1
  /\ start = 0
  /\ buf = <<>>
  /\ dollarT = ""
  /\ delim = ";"
  /\ bol = TRUE
  /\ out = <<>>
  /\ done = FALSE

-----------------------------------------------------------------------------

IsBlank(p) == text[p] \in {Blank, Newline}

Newlines(from, to) == {p \in from .. to : text[p] = Newline}

InOrder(places) ==
  CHOOSE s \in [1 .. Cardinality(places) -> places] :
    \A a, b \in DOMAIN s : a < b => s[a] < s[b]

(***************************************************************************)
(* The first place from `from` on that holds `tok`, or the one past the    *)
(* end.                                                                    *)
(***************************************************************************)
NextAt(from, tok) ==
  LET places == {p \in from .. n : text[p] = tok}
  IN  IF places = {} THEN n + 1 ELSE Min(places)

Trim(places) ==
  LET kept == {k \in DOMAIN places : ~IsBlank(places[k])}
  IN  IF kept = {} THEN <<>> ELSE SubSeq(places, Min(kept), Max(kept))

Flush ==
  /\ out' = IF Trim(buf) = <<>> THEN out
            ELSE Append(out, [text |-> Trim(buf), line |-> start])
  /\ buf' = <<>>
  /\ start' = 0

(***************************************************************************)
(* The statement starts on the line counted when its first word is         *)
(* emitted.                                                                *)
(***************************************************************************)
Emit(places) ==
  /\ start' = IF start = 0 /\ Trim(places) # <<>> THEN line' ELSE start
  /\ buf' = buf \o places
  /\ UNCHANGED out

Nothing == UNCHANGED <<start, buf, out>>

Goto(p) == i' = p /\ UNCHANGED <<mysql, text, done>>

LineStartSeen == bol' = (bol /\ (mysql => text[i] = Blank))

(* Faulty: a backslash is a character like any other. *)
QuoteEndAnywhere(from) ==
  LET ends == {p \in from + 1 .. n : /\ text[p] = text[from]
                                     /\ p = n \/ text[p + 1] # text[from]}
  IN  IF ends = {} THEN n ELSE Min(ends)

(***************************************************************************)
(* Where the quoted text that opens at `from` closes: a doubled quote is   *)
(* one of its characters, and so in MySQL is what a backslash escapes.     *)
(***************************************************************************)
QuoteEnd(from) ==
  LET q == text[from]
      end[j \in from + 1 .. n + 2] ==
        IF j > n THEN n
        ELSE IF mysql /\ q # "back quote" /\ text[j] = "backslash" /\ j < n THEN end[j + 2]
        ELSE IF text[j] # q THEN end[j + 1]
        ELSE IF j < n /\ text[j + 1] = q THEN end[j + 2]
        ELSE j
  IN  end[from + 1]

IsDelimiterLine == mysql /\ bol /\ text[i] \in DelimiterLines

Reading(toks) ==
  /\ i <= n
  /\ ~IsDelimiterLine
  /\ dollarT = ""
  /\ text[i] \in toks

LineComments == {"--"} \cup IF mysql THEN {"#"} ELSE {}
Quotes == {"'", "back quote"}
Tags == IF mysql THEN {} ELSE {"$$", "$a$"}

-----------------------------------------------------------------------------

(***************************************************************************)
(* A DELIMITER line ends the statement before it and is read to its end.   *)
(***************************************************************************)
DelimiterLine ==
  /\ i <= n
  /\ IsDelimiterLine
  /\ Flush
  /\ delim' = Named(text[i])
  /\ Goto(NextAt(i, Newline))
  /\ bol' = FALSE
  /\ UNCHANGED <<line, dollarT>>

DollarQuoted ==
  /\ i <= n
  /\ dollarT # ""
  /\ line' = line + (IF text[i] = Newline THEN 1 ELSE 0)
  /\ Emit(<<i>>)
  /\ dollarT' = IF text[i] = dollarT THEN "" ELSE dollarT
  /\ Goto(i + 1)
  /\ UNCHANGED <<delim, bol>>

(* Faulty: the line's end is taken with the comment. *)
LineCommentAndEnd ==
  /\ Reading(LineComments)
  /\ Nothing
  /\ Goto(NextAt(i, Newline) + 1)
  /\ LineStartSeen
  /\ UNCHANGED <<line, dollarT, delim>>

(* Faulty: a comment no line end follows is not passed over. *)
LineCommentToEnd ==
  /\ Reading(LineComments)
  /\ Nothing
  /\ Goto(IF NextAt(i, Newline) > n THEN i ELSE NextAt(i, Newline))
  /\ LineStartSeen
  /\ UNCHANGED <<line, dollarT, delim>>

LineComment ==
  /\ Reading(LineComments)
  /\ Nothing
  /\ Goto(NextAt(i, Newline))
  /\ LineStartSeen
  /\ UNCHANGED <<line, dollarT, delim>>

(* Faulty: nothing of the comment is kept. *)
BlockCommentDropped ==
  /\ Reading({"/*"})
  /\ LET end == Min({NextAt(i + 1, "*/"), n})
     IN  /\ line' = line + Cardinality(Newlines(i, end))
         /\ Nothing
         /\ Goto(end + 1)
  /\ LineStartSeen
  /\ UNCHANGED <<dollarT, delim>>

(***************************************************************************)
(* Only the line ends of a block comment are kept; one never closed is the *)
(* rest of the file.                                                       *)
(***************************************************************************)
BlockComment ==
  /\ Reading({"/*"})
  /\ LET end == Min({NextAt(i + 1, "*/"), n})
     IN  /\ line' = line + Cardinality(Newlines(i, end))
         /\ Emit(InOrder(Newlines(i, end)))
         /\ Goto(end + 1)
  /\ LineStartSeen
  /\ UNCHANGED <<dollarT, delim>>

Quoted ==
  /\ Reading(Quotes)
  /\ LET end == QuoteEnd(i)
     IN  /\ line' = line + Cardinality(Newlines(i, end))
         /\ Emit([k \in 1 .. end - i + 1 |-> i + k - 1])
         /\ Goto(end + 1)
  /\ LineStartSeen
  /\ UNCHANGED <<dollarT, delim>>

OpenDollarQuote ==
  /\ Reading(Tags)
  /\ dollarT' = text[i]
  /\ UNCHANGED line
  /\ Emit(<<i>>)
  /\ Goto(i + 1)
  /\ UNCHANGED <<delim, bol>>

EndOfStatement ==
  /\ Reading({delim})
  /\ Flush
  /\ Goto(i + 1)
  /\ LineStartSeen
  /\ UNCHANGED <<line, dollarT, delim>>

Marks == LineComments \cup {"/*"} \cup Quotes \cup Tags \cup {delim}

Other ==
  /\ i <= n /\ Reading({text[i]} \ Marks)
  /\ line' = line + (IF text[i] = Newline THEN 1 ELSE 0)
  /\ Emit(<<i>>)
  /\ Goto(i + 1)
  /\ IF text[i] = Newline THEN bol' = TRUE ELSE LineStartSeen
  /\ UNCHANGED <<dollarT, delim>>

Return ==
  /\ i > n
  /\ ~done
  /\ Flush
  /\ done' = TRUE
  /\ UNCHANGED <<mysql, text, i, line, dollarT, delim, bol>>

Next ==
  \/ DelimiterLine \/ DollarQuoted \/ LineComment \/ BlockComment \/ Quoted
  \/ OpenDollarQuote \/ EndOfStatement \/ Other \/ Return

(***************************************************************************)
(* The loop is a single thread that nothing waits for: while a turn is     *)
(* left it is taken.                                                       *)
(***************************************************************************)
Spec == Init /\ [][Next]_vars /\ WF_vars(Next)

=============================================================================
