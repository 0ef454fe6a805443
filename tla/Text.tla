---------------------------------- MODULE Text ----------------------------------
(***************************************************************************)
(* Payloads that are text.  A field of it is a word; separators are octets *)
(* of their own, and a character may take two octets.  The operations on   *)
(* &str that the HTTP and FTP parsers use.                                 *)
(***************************************************************************)
EXTENDS Octets, SequencesExt, FiniteSetsExt

Word(w, size) == Field([word |-> w], size)
Mark(m) == Field([mark |-> m], 1)
Space == Mark(" ")
Colon == Mark(":")
LF == Mark("LF")
NewLine == Mark("CR") \o LF

\* A character of two octets.
Continuation == [continues |-> TRUE]
Wide == <<[lead |-> 2], Continuation>>

--------------------------------------------------------------------------------
\* str::from_utf8 takes it, and an index before which a string may be sliced.
IsText(data) ==
  \A i \in DOMAIN data :
    /\ Has(data, i - 1, "lead") => i < Len(data)
    /\ data[i] = Continuation => i > 1
IsBoundary(text, n) == n = Len(text) \/ text[n + 1] # Continuation

\* str::split
Split(text, mark) ==
  LET from[i \in 1 .. Len(text) + 1] ==
        LET marks == {j \in i .. Len(text) : text[j] = mark[1]} IN
        IF marks = {} THEN <<SubSeq(text, i, Len(text))>>
        ELSE <<SubSeq(text, i, Min(marks) - 1)>> \o from[Min(marks) + 1]
  IN from[1]

\* str::lines: the last piece is a line if it is not empty.
LinesOf(text) ==
  LET pieces == Split(text, LF)
      Chomp(line) == IF IsSuffix(Mark("CR"), line) THEN Front(line) ELSE line
  IN [k \in 1 .. Len(pieces) - 1 |-> Chomp(pieces[k])]
       \o IF Last(pieces) = << >> THEN << >> ELSE <<Last(pieces)>>

Trim(text) ==
  LET solid == {i \in DOMAIN text : <<text[i]>> \notin {Space, Mark("CR")}} IN
  IF solid = {} THEN << >> ELSE SubSeq(text, Min(solid), Max(solid))

\* str::parse::<u16>
IsNumber(text) ==
  text # << >> /\ Has(text, 0, "digits") /\ \A i \in 2 .. Len(text) : text[i] = Inside

AllDigits_First(text) == Has(text, 0, "digits")   \* mutant: looks at one character
\* chars().all(is_digit) of a text of digits and words
AllDigits(text) ==
  \A i \in DOMAIN text : Has(text, i - 1, "digits") \/ (i > 1 /\ text[i] = Inside)
================================================================================
