-------------------------------- MODULE FtpLine --------------------------------
(***************************************************************************)
(* parse_ftp_data of src/parser/application/ftp.rs, and the client and     *)
(* server of a control connection (RFC 959, RFC 2640) whose commands and   *)
(* replies it parses.                                                      *)
(***************************************************************************)
EXTENDS Text

CONSTANTS
  Verbs, Codes,   \* of commands and replies
  MaxText         \* bound: number of characters behind them

Character == {"ascii", "wide", "digit", "space"}

VARIABLES
  line,   \* what the line begins with
  text    \* and the characters that follow

vars == <<line, text>>

--------------------------------------------------------------------------------
(***************************************************************************)
(* The sender.                                                             *)
(***************************************************************************)
Init == line \in [verb : Verbs] \cup [code : Codes] /\ text = << >>

Write(char) ==
  /\ Len(text) < MaxText
  /\ text' = Append(text, char)
  /\ UNCHANGED line

Next == \E char \in Character : Write(char)

Spec == Init /\ [][Next]_vars

IsReply == "code" \in DOMAIN line
Head3 == IF IsReply THEN Field([digits |-> line.code], 3) ELSE Word(line.verb, 3)
OctetsOf(chars) ==
  FlattenSeq([i \in DOMAIN chars |->
    CASE chars[i] = "ascii" -> Word("a", 1)
      [] chars[i] = "wide"  -> Wide
      [] chars[i] = "digit" -> Field([digits |-> 1], 1)
      [] chars[i] = "space" -> Space])
Characters == OctetsOf(text)
Written ==
  Head3 \o (IF text = << >> THEN << >> ELSE Space \o Characters) \o NewLine

--------------------------------------------------------------------------------
\* Mutants, named <definition>_<slip>, stand before the definition they alter.
FirstLine_Untrimmed(data) == Split(data, LF)[1]
FirstLine(data) == Trim(Split(data, LF)[1])

Slices_Longer(first) == Len(first) > 3   \* does not look at a line of three octets
\* Does the test for three digits slice the line?
Slices(first) == Len(first) >= 3

\* Of a line that does not begin with three digits anything is a command.
ParseLine(first) ==
  LET command == Split(first, Space)[1] IN
  IF Slices(first) /\ ~ IsBoundary(first, 3) THEN Panic
  ELSE IF Slices(first) /\ AllDigits(SubSeq(first, 1, 3))
  THEN Parsed([code |-> SubSeq(first, 1, 3), message |-> Trim(SubSeq(first, 4, Len(first)))], Len(first))
  ELSE Parsed([command |-> command, message |-> SubSeq(first, Len(command) + 2, Len(first))], Len(first))

ParseFtpData(data) ==
  IF ~ IsText(data) \/ FirstLine(data) = << >> THEN Err ELSE ParseLine(FirstLine(data))

--------------------------------------------------------------------------------
TypeOK ==
  /\ line \in [verb : Verbs] \cup [code : Codes]
  /\ text \in Seq(Character) /\ Len(text) <= MaxText

\* A line that comes in several segments: the first shows the code of a reply, or
\* the verb of a command, unless it ends before them (22 of a code 220 is then a
\* command), and it never panics, whatever characters follow; and the text that it
\* shows is, but for the spaces at its ends, the beginning of the text sent.
FirstSegmentIsRead ==
  \A n \in 1 .. Len(Written) :
    LET result == ParseFtpData(SubSeq(Written, 1, n)) IN
    /\ ~ result.ok => result = Err /\ ~ IsText(SubSeq(Written, 1, n))
    /\ result.ok =>
         /\ IsPrefix(Trim(result.value.message), Trim(Characters))
         /\ LET begins == IF n >= 3 /\ IsReply THEN "code" ELSE "command" IN
            /\ begins \in DOMAIN result.value
            /\ result.value[begins] = SubSeq(Head3, 1, Min({n, 3}))
    /\ n = Len(Written) => result.ok /\ Trim(result.value.message) = Trim(Characters)

\* Characters without the spaces at their ends.
Stripped(chars) ==
  LET solid == {i \in DOMAIN chars : chars[i] # "space"} IN
  IF solid = {} THEN << >> ELSE SubSeq(chars, Min(solid), Max(solid))
UpToSpace(chars) ==
  SubSeq(chars, 1, Min({i \in DOMAIN chars : chars[i] = "space"} \cup {Len(chars) + 1}) - 1)

\* What a segment shows that begins behind the verb or code, with whichever
\* character: nothing if only spaces are left; else it panics if a character begins
\* before the third octet and ends behind it; else three digits are shown as the
\* code of a reply, and anything else as a command, though neither was sent.
RestIsMisread ==
  \A k \in DOMAIN text :
    LET rest == Stripped(SubSeq(text, k, Len(text)))
        octets == Len(OctetsOf(SubSeq(text, 1, k - 1)))
        result == ParseFtpData(SubSeq(Written, 5 + octets, Len(Written)))
        cut == \E i \in DOMAIN rest :
                 rest[i] = "wide" /\ Len(OctetsOf(SubSeq(rest, 1, i - 1))) = 2
        digits == IsPrefix(<<"digit", "digit", "digit">>, rest)
    IN /\ result = Err <=> rest = << >>
       /\ result = Panic <=> cut
       /\ result.ok =>
            LET begins == IF digits THEN "code" ELSE "command" IN
            /\ begins \in DOMAIN result.value
            /\ result.value[begins] = OctetsOf(IF digits THEN SubSeq(rest, 1, 3) ELSE UpToSpace(rest))
================================================================================
