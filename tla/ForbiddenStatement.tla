------------------------- MODULE ForbiddenStatement -------------------------
(***************************************************************************)
(* The guard a submission passes before it is run                          *)
(* (apps/api/src/grading/forbidden-statement.guard.ts), and the reading of *)
(* SQL text it stands for.                                                 *)
(*                                                                         *)
(* A text is a sequence of tokens: newlines, comment markers, semicolons,  *)
(* SELECT, WITH, "DELETE" for every word that makes a statement write, and *)
(* "word" for any other word or symbol.  String literals are left out: the *)
(* guard does not know them either, and takes a semicolon in one for the   *)
(* end of the statement, as it does in a comment.                          *)
(***************************************************************************)
EXTENDS Integers, Sequences

Tokens ==
  {"SELECT", "WITH", "DELETE", "word", "semicolon", "--", "/*", "*/", "newline"}

\* ALLOWED_LEADING_KEYWORDS
LeadingKeywords == {"SELECT", "WITH"}

\* The position after the first `mark` of text from i on, or the end.
After(text, mark, i) ==
  LET found == {j \in i..Len(text) : text[j] = mark}
  IN IF found = {} THEN Len(text) + 1
     ELSE 1 + CHOOSE j \in found : \A k \in found : j <= k

\* Defect: a line comment reaches to the end of the text.
StartLineSwallowsAll(text, i) ==
  LET start[j \in Nat] ==
        IF j > Len(text) THEN j
        ELSE CASE text[j] = "newline" -> start[j + 1]
               [] text[j] = "--" -> Len(text) + 1
               [] text[j] = "/*" -> start[After(text, "*/", j)]
               [] OTHER -> j
  IN start[i]

\* stripLeadingCommentsAndWhitespace of the text from i on: where the first
\* token that is neither blank nor in a leading comment is.
Start(text, i) ==
  LET start[j \in Nat] ==
        IF j > Len(text) THEN j
        ELSE CASE text[j] = "newline" -> start[j + 1]
               [] text[j] = "--" -> start[After(text, "newline", j)]
               [] text[j] = "/*" -> start[After(text, "*/", j)]
               [] OTHER -> j
  IN start[i]

\* Anything substantive after the first semicolon makes several statements.
HasMultipleStatements(text) ==
  /\ \E i \in DOMAIN text : text[i] = "semicolon"
  /\ Start(text, After(text, "semicolon", 1)) <= Len(text)

CheckForbiddenStatement(text) ==
  /\ \E i \in DOMAIN text : text[i] # "newline"
  /\ ~ HasMultipleStatements(text)
  /\ LET first == Start(text, 1)
     IN first <= Len(text) /\ text[first] \in LeadingKeywords

-----------------------------------------------------------------------------
(* The reading: a scan that knows at every token whether it is in code or  *)
(* in a comment.                                                           *)

\* The mode in which the i-th token is read.
Mode(text) ==
  LET mode[i \in 1..(Len(text) + 1)] ==
        IF i = 1 THEN "code"
        ELSE LET last == text[i - 1]
                 before == mode[i - 1]
             IN CASE before = "code" /\ last = "--" -> "line"
                  [] before = "code" /\ last = "/*" -> "block"
                  [] before = "line" /\ last = "newline" -> "code"
                  [] before = "block" /\ last = "*/" -> "code"
                  [] OTHER -> before
  IN mode

\* The positions that hold SQL rather than comments and blanks.
Code(text) ==
  {i \in DOMAIN text :
     Mode(text)[i] = "code" /\ text[i] \notin {"--", "/*", "newline"}}

\* The first word of the SQL is one of words.
LeadsWith(words, text) ==
  \E i \in Code(text) : text[i] \in words /\ \A j \in Code(text) : i <= j

\* A semicolon is the last of the SQL.
EndsAtSemicolon(text) ==
  \A i \in Code(text) : text[i] = "semicolon" => \A j \in Code(text) : j <= i

\* WITH may lead a statement that writes: WITH ... DELETE.
WritesUnderWith(text) ==
  LeadsWith({"WITH"}, text) /\ \E i \in Code(text) : text[i] = "DELETE"

\* The text is one query that only reads, perhaps with a semicolon at its end.
IsReadOnlyQuery(text) ==
  /\ LeadsWith({"SELECT", "WITH"}, text)
  /\ EndsAtSemicolon(text)
  /\ ~ WritesUnderWith(text)

\* The text is one statement that writes what its WITH names.
IsWriteUnderWith(text) == WritesUnderWith(text) /\ EndsAtSemicolon(text)

SemicolonInComment(text) ==
  \E i \in DOMAIN text \ Code(text) : text[i] = "semicolon"
=============================================================================
