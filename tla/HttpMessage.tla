------------------------------- MODULE HttpMessage -------------------------------
(***************************************************************************)
(* parse_http_data of src/parser/application/http.rs, and the clients and  *)
(* servers (RFC 9112) whose messages it parses.                            *)
(***************************************************************************)
EXTENDS Text

CONSTANTS
  Starts,         \* the first lines
  Lines,          \* the header lines
  MaxLines,       \* bound: number of header lines
  MaxPieces,      \* bound: number of pieces of the body
  PreviewLength   \* octets of the body that are kept; 1024 in the code

Method == {"GET", "POST", "PUT", "DELETE", "HEAD", "OPTIONS", "TRACE", "CONNECT", "PATCH"}
Start == [method : Method \cup {"other"}, uri : STRING] \cup [status : 100 .. 599]
\* A value may hold a colon, and go on in a further line (with or without one).
Line == [name : STRING, upper : BOOLEAN, value : STRING, colon : BOOLEAN,
         folded : {"no", "plain", "colon"}]

\* Of a body: characters and line breaks, and the words a first line is made of.
Piece == {"ascii", "wide", "break", "space", "method", "version", "number"}

VARIABLES
  start, headers,   \* the first line and the header lines written so far
  body              \* the pieces of the body

vars == <<start, headers, body>>

--------------------------------------------------------------------------------
(***************************************************************************)
(* The sender.                                                             *)
(***************************************************************************)
Init == start \in Starts /\ headers = << >> /\ body = << >>

AddHeader(line) ==
  /\ body = << >> /\ Len(headers) < MaxLines
  /\ headers' = Append(headers, line)
  /\ UNCHANGED <<start, body>>

AddBody(piece) ==
  /\ Len(body) < MaxPieces
  /\ body' = Append(body, piece)
  /\ UNCHANGED <<start, headers>>

Next ==
  \/ \E line \in Lines : AddHeader(line)
  \/ \E piece \in Piece : AddBody(piece)

Spec == Init /\ [][Next]_vars

Version == Word("HTTP/", 5) \o Word("1.1", 3)
StartLine ==
  IF "status" \in DOMAIN start
  THEN Version \o Space \o Field([digits |-> start.status], 3) \o Space \o Word("reason", 2)
  ELSE Word(start.method, 3) \o Space \o Word(start.uri, 2) \o Space \o Version

Name(line) == Field([word |-> line.name, upper |-> line.upper], 2)
Value(line) ==
  Word(line.value, 2) \o IF line.colon THEN Colon \o Word("port", 2) ELSE << >>
Fold(line) ==
  CASE line.folded = "no"    -> << >>
    [] line.folded = "plain" -> NewLine \o Space \o Word("more", 2)
    [] line.folded = "colon" -> NewLine \o Space \o Word("more", 2) \o Colon \o Word("still", 2)

HeaderLines ==
  FlattenSeq([i \in DOMAIN headers |->
    Name(headers[i]) \o Colon \o Space \o Value(headers[i]) \o Fold(headers[i]) \o NewLine])

BodyWith(line_break) ==
  FlattenSeq([i \in DOMAIN body |->
    CASE body[i] = "ascii"   -> Word("a", 1)
      [] body[i] = "wide"    -> Wide
      [] body[i] = "break"   -> line_break
      [] body[i] = "space"   -> Space
      [] body[i] = "method"  -> Word("GET", 3)
      [] body[i] = "version" -> Version
      [] body[i] = "number"  -> Field([digits |-> 404], 3)])

Message == StartLine \o NewLine \o HeaderLines \o NewLine \o BodyWith(NewLine)

--------------------------------------------------------------------------------
(***************************************************************************)
(* The parser.  (Mutants, named <definition>_<slip>, stand before the      *)
(* definition they alter.)                                                 *)
(***************************************************************************)
ToLowercase(text) ==
  [i \in DOMAIN text |->
     IF Has(text, i - 1, "upper") THEN [text[i] EXCEPT !.upper = FALSE] ELSE text[i]]

FindColon_Last(line) == Max({i \in DOMAIN line : line[i] = Colon[1]})   \* rfind
FindColon(line) == Min({i \in DOMAIN line : line[i] = Colon[1]})
HasColon(line) == \E i \in DOMAIN line : line[i] = Colon[1]

FieldName(line) == ToLowercase(Trim(SubSeq(line, 1, FindColon(line) - 1)))
FieldValue(line) == Trim(SubSeq(line, FindColon(line) + 1, Len(line)))

\* parse_headers: up to the empty line.  The first colon ends the name, also in
\* a line that goes on with the value of the line before; other such lines are
\* skipped.  Of the lines with the same name the last counts.
ParseHeaders(lines) ==
  LET named == {i \in DOMAIN lines : HasColon(lines[i])}
      last(name) == Max({i \in named : FieldName(lines[i]) = name})
  IN IF \E i \in DOMAIN lines \ named : ~ IsPrefix(Space, lines[i])
     THEN Err
     ELSE Parsed([name \in {FieldName(lines[i]) : i \in named} |-> FieldValue(lines[last(name)])],
                 Len(lines))

Join(lines) == Tail(FlattenSeq([i \in DOMAIN lines |-> LF \o lines[i]]))

TruncateBody(text) ==
  IF Len(text) <= PreviewLength THEN [text |-> text, truncated |-> FALSE]
  ELSE [text |-> SubSeq(text, 1, PreviewLength), truncated |-> TRUE]

None == "none"

\* What parse_http_request and parse_http_response do after the first line.
Finish(first, lines) ==
  LET empty == {k \in 2 .. Len(lines) : lines[k] = << >>}
      end == IF empty = {} THEN Len(lines) + 1 ELSE Min(empty)
      behind == SubSeq(lines, end + 1, Len(lines))
      Message_(fields, preview) ==
        [field \in DOMAIN first \cup {"headers", "body_preview"} |->
           CASE field = "headers" -> fields
             [] field = "body_preview" -> preview
             [] OTHER -> first[field]]
  IN Then(ParseHeaders(SubSeq(lines, 2, end - 1)), LAMBDA fields, next :
       IF behind = << >> THEN Parsed(Message_(fields, None), next)
       ELSE IF Len(Join(behind)) > PreviewLength /\ ~ IsBoundary(Join(behind), PreviewLength)
       THEN Panic
       ELSE Parsed(Message_(fields, TruncateBody(Join(behind))), next))

ParseRequest_TwoParts(lines) ==   \* tests for a URI, not for a version
  LET parts == Split(lines[1], Space) IN
  IF Len(parts) < 2 THEN Err
  ELSE Finish([method |-> parts[1], uri |-> parts[2],
               version |-> IF Len(parts) < 3 THEN << >> ELSE parts[3]], lines)

ParseRequest(lines) ==
  LET parts == Split(lines[1], Space) IN
  IF Len(parts) < 3 THEN Err
  ELSE Finish([method |-> parts[1], uri |-> parts[2], version |-> parts[3]], lines)

ParseResponse_Unchecked(lines) ==   \* takes it that there is a status
  LET parts == Split(lines[1], Space) IN
  IF Len(parts) < 2 THEN Panic
  ELSE IF ~ IsNumber(parts[2]) THEN Err
  ELSE Finish([version |-> parts[1], status_code |-> parts[2]], lines)

ParseResponse(lines) ==
  LET parts == Split(lines[1], Space) IN
  IF Len(parts) < 2 \/ ~ IsNumber(parts[2]) THEN Err
  ELSE Finish([version |-> parts[1], status_code |-> parts[2]], lines)

ParseHttpData(data) ==
  IF ~ IsText(data) THEN Err
  ELSE IF IsPrefix(Word("HTTP/", 5), data) THEN ParseResponse(LinesOf(data))
  ELSE IF Split(data, Space)[1] \in {Word(m, 3) : m \in Method}
  THEN ParseRequest(LinesOf(data))
  ELSE Err

--------------------------------------------------------------------------------
TypeOK ==
  /\ start \in Starts
  /\ headers \in Seq(Lines) /\ Len(headers) <= MaxLines
  /\ body \in Seq(Piece) /\ Len(body) <= MaxPieces

\* The first line as it should be read.
First ==
  IF "status" \in DOMAIN start
  THEN [version |-> Version, status_code |-> Field([digits |-> start.status], 3)]
  ELSE [method |-> Word(start.method, 3), uri |-> Word(start.uri, 2), version |-> Version]

KeyOf(line) == Name([line EXCEPT !.upper = FALSE])
ValuesOf(key) == {Value(headers[i]) : i \in {i \in DOMAIN headers : KeyOf(headers[i]) = key}}
\* Names the parser makes out of the second line of a value.
Misread ==
  {Word("more", 2) : i \in {i \in DOMAIN headers : headers[i].folded = "colon"}}

\* The body with LF for line breaks, and without the one it may end in.
Body ==
  LET text == BodyWith(LF) IN
  IF body # << >> /\ Last(body) = "break" THEN Front(text) ELSE text

\* A message in one segment is read as it was written: the first line, under
\* each name in any case the value sent last, and the body up to the preview's
\* length.  When that length falls inside a character the parser panics.  A
\* method it does not know is an error.
ReadsWhatIsWritten ==
  LET result == ParseHttpData(Message) IN
  IF "method" \in DOMAIN start /\ start.method = "other" THEN result = Err
  ELSE IF Len(Body) > PreviewLength /\ Body[PreviewLength + 1] = Continuation
  THEN result = Panic
  ELSE /\ result.ok
       /\ \A field \in DOMAIN First : result.value[field] = First[field]
       /\ DOMAIN result.value.headers = {KeyOf(headers[i]) : i \in DOMAIN headers} \cup Misread
       /\ \A i \in DOMAIN headers :
            (\A j \in i + 1 .. Len(headers) : KeyOf(headers[j]) # KeyOf(headers[i])) =>
              result.value.headers[KeyOf(headers[i])] = Value(headers[i])
       /\ IF body = << >> THEN result.value.body_preview = None
          ELSE LET preview == result.value.body_preview IN
               /\ IsPrefix(preview.text, Body)
               /\ Len(preview.text) = Min({Len(Body), PreviewLength})
               /\ preview.truncated = (Len(Body) > PreviewLength)

\* The last field of the first line, of which a cut may leave a part.
LastOfFirst == IF "status" \in DOMAIN start THEN "status_code" ELSE "version"

\* The first segment of a longer message shows nothing that the message does not
\* say: it is an error, or the first line is that of the message (only its last
\* field may be cut short, 20 for a status of 200, or keep the CR of a line break
\* cut in two), and so is every header, whose value may be cut short.  It panics
\* only if the whole message does.
CutShowsNoOther ==
  \A n \in 0 .. Len(Message) - 1 :
    LET result == ParseHttpData(SubSeq(Message, 1, n)) IN
    IF ~ result.ok THEN result.panics => ParseHttpData(Message) = Panic
    ELSE /\ \A field \in DOMAIN First :
              IF field = LastOfFirst THEN IsPrefix(result.value[field], First[field] \o Mark("CR"))
              ELSE result.value[field] = First[field]
         /\ \A key \in DOMAIN result.value.headers \ Misread :
              \E value \in ValuesOf(key) : IsPrefix(result.value.headers[key], value)

\* The segments after the first are errors, wherever they begin, unless one begins
\* in the body, and with the octets that a first line begins with: what is shown
\* then was never sent as a message.  (Lines holds no value of several words;
\* a segment that begins inside such a value would be taken for one just so.)
RestIsMessageOnlyInBody ==
  \A n \in 1 .. Len(Message) :
    LET rest == SubSeq(Message, n + 1, Len(Message)) IN
    ParseHttpData(rest) # Err =>
      /\ n >= Len(Message) - Len(BodyWith(NewLine))
      /\ \E opening \in {Word("HTTP/", 5)} \cup {Word(m, 3) : m \in Method} : IsPrefix(opening, rest)
================================================================================
