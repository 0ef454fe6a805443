------------------------- MODULE ApplicationHttpProofs --------------------------
(***************************************************************************)
(* Proofs that the parser of HTTP shows what was written.                  *)
(***************************************************************************)
EXTENDS ApplicationWritersProofs

--------------------------------------------------------------------------------
(***************************************************************************)
(* What HTTP clients and servers write.                                    *)
(***************************************************************************)
LEMMA HttpOctets ==
  /\ Http!Inside = Inside /\ Http!Err = Err /\ Http!Panic = Panic
  /\ Http!Space = Space /\ Http!LF = LF /\ Http!NewLine = NewLine /\ Http!Colon = Colon
  /\ Http!Wide = Wide /\ Http!Continuation = Continuation
  /\ \A first, size : Http!Field(first, size) = Field(first, size)
  /\ \A w, size : Http!Word(w, size) = Field([word |-> w], size)
  /\ \A value, next : Http!Parsed(value, next) = Parsed(value, next)
  /\ \A seqs : Http!FlattenSeq(seqs) = FlattenSeq(seqs)
  /\ Http!Mark("CR") = <<CR>>
<1>1. /\ Http!Inside = Inside /\ Http!Err = Err /\ Http!Panic = Panic
      /\ \A value, next : Http!Parsed(value, next) = Parsed(value, next)
  BY DEF Http!Inside, Inside, Http!Err, Err, Http!Panic, Panic, Http!Parsed, Parsed
<1>2. \A first, size : Http!Field(first, size) = Field(first, size)
  BY <1>1 DEF Http!Field, Field
<1>3. \A w, size : Http!Word(w, size) = Field([word |-> w], size)
  BY <1>2 DEF Http!Word
<1>4. \A m : Http!Mark(m) = Mark(m)
  BY <1>2 DEF Http!Mark, Mark
<1>5. Http!Space = Space /\ Http!LF = LF /\ Http!Colon = Colon
  BY <1>4, Zenon DEF Http!Space, Space, Http!LF, LF, Http!Colon, Colon
<1>6. Http!NewLine = NewLine
  BY <1>4, <1>5 DEF Http!NewLine, NewLine
<1>7. Http!Continuation = Continuation
  BY DEF Http!Continuation, Continuation
<1>8. Http!Wide = Wide
  BY <1>7 DEF Http!Wide, Wide
<1>9. \A seqs : Http!FlattenSeq(seqs) = FlattenSeq(seqs)
  BY DEF Http!FlattenSeq, FlattenSeq
<1>10. Http!Mark("CR") = <<CR>>
  BY <1>4, Marks, Zenon DEF CR
<1> QED BY <1>1, <1>2, <1>3, <1>5, <1>6, <1>7, <1>8, <1>9, <1>10

LEMMA HttpStrings ==
  /\ \A s, mark : Http!Split(s, mark) = Split(s, mark)
  /\ \A s : Http!LinesOf(s) = LinesOf(s)
  /\ \A s : Http!Trim(s) = Trim(s)
  /\ \A s : Http!IsText(s) = IsText(s)
  /\ \A s : Http!IsNumber(s) = IsNumber(s)
  /\ \A s, n : Http!IsBoundary(s, n) = IsBoundary(s, n)
  /\ \A s, t : Http!IsPrefix(s, t) = IsPrefix(s, t)
  /\ \A s : Http!Min(s) = Min(s) /\ Http!Max(s) = Max(s)
  /\ \A s, o, field : Http!Has(s, o, field) = Has(s, o, field)
<1>1. (\A s : Http!Min(s) = Min(s)) /\ (\A s : Http!Max(s) = Max(s))
  BY DEF Http!Min, Min, Http!Max, Max
<1>2. \A s, mark : Http!Split(s, mark) = Split(s, mark)
  BY DEF Http!Split, Split, Http!Min, Min
<1>3. \A m : Http!Mark(m) = Mark(m)
  BY HttpOctets DEF Http!Mark, Mark
<1>4. \A s : Http!Trim(s) = Trim(s)
  BY <1>1, <1>3, HttpOctets DEF Http!Trim, Trim
<1>5. \A data, offset, field : Http!Has(data, offset, field) = Has(data, offset, field)
  BY DEF Http!Has, Has
<1>6. \A s : Http!IsText(s) = IsText(s)
  BY <1>5, HttpOctets DEF Http!IsText, IsText
<1>7. \A s : Http!IsNumber(s) = IsNumber(s)
  BY <1>5, HttpOctets DEF Http!IsNumber, IsNumber
<1>8. \A s, n : Http!IsBoundary(s, n) = IsBoundary(s, n)
  BY HttpOctets DEF Http!IsBoundary, IsBoundary
<1>9. \A s, t : Http!IsPrefix(s, t) = IsPrefix(s, t)
  BY DEF Http!IsPrefix, IsPrefix
<1>10. \A s, t : Http!IsSuffix(s, t) = IsSuffix(s, t)
  BY DEF Http!IsSuffix, IsSuffix, Http!IsPrefix, IsPrefix, Http!Reverse, Reverse
<1>11. (\A s : Http!Last(s) = Last(s)) /\ (\A s : Http!Front(s) = Front(s))
  BY DEF Http!Last, Last, Http!Front, Front
<1>12. \A s : Http!LinesOf(s) = LinesOf(s)
  BY <1>2, <1>3, <1>10, <1>11, HttpOctets DEF Http!LinesOf, LinesOf
<1> QED BY <1>1, <1>2, <1>4, <1>5, <1>6, <1>7, <1>8, <1>9, <1>12

\* The octets of rows, those of the message without line feeds, and all.
HttpWord == STRING \cup Http!Method \cup {"other", "HTTP/", "1.1", "reason", "port", "more", "still", "a"}
RowOctet == {Inside, Space[1], Colon[1], CR} \cup [word : HttpWord] \cup [word : STRING, upper : BOOLEAN]
              \cup [digits : 100 .. 599]
HttpOctet == RowOctet \cup CharOctet
AnyOctet == HttpOctet \cup {Feed}

LEMMA OctetsApart ==
  /\ RowOctet \subseteq HttpOctet /\ CharOctet \subseteq HttpOctet /\ HttpOctet \subseteq AnyOctet
  /\ Feed \in AnyOctet /\ CR \in HttpOctet /\ CR \in AnyOctet /\ CR \in RowOctet
  /\ Feed \notin HttpOctet
  /\ \A x \in RowOctet : x # Continuation /\ "lead" \notin DOMAIN x
  /\ Feed # Continuation /\ "lead" \notin DOMAIN Feed
  /\ \A x \in CharOctet : x # Space[1] /\ x # Colon[1] /\ x # CR /\ x # Feed
  /\ CR # Space[1] /\ CR # Colon[1] /\ Space[1] # Colon[1] /\ CR # Feed /\ Feed # Space[1] /\ Feed # Colon[1]
  /\ CR # Continuation
<1>1. Space[1] = [mark |-> " "] /\ Colon[1] = [mark |-> ":"] /\ CR = [mark |-> "CR"] /\ Feed = [mark |-> "LF"]
  BY Marks, Zenon DEF CR, Feed
<1>2. ASSUME NEW m, NEW n, m # n PROVE [mark |-> m] # [mark |-> n]
  <2>1. [mark |-> m].mark = m /\ [mark |-> n].mark = n
    OBVIOUS
  <2> QED BY <2>1, <1>2
<1>3. \A m : [mark |-> m] # Continuation /\ "lead" \notin DOMAIN [mark |-> m] /\ "mark" \in DOMAIN [mark |-> m]
  BY DEF Continuation
<1>4. /\ CR # Space[1] /\ CR # Colon[1] /\ Space[1] # Colon[1] /\ CR # Feed /\ Feed # Space[1] /\ Feed # Colon[1]
  BY <1>1, <1>2, Zenon
<1>5. ASSUME NEW x \in [word : HttpWord] \cup [word : STRING, upper : BOOLEAN] \cup [digits : 100 .. 599] \cup {Inside}
      PROVE  x # Continuation /\ "lead" \notin DOMAIN x /\ "mark" \notin DOMAIN x
  <2>1. CASE x \in [word : HttpWord]
    BY <2>1 DEF Continuation
  <2>2. CASE x \in [word : STRING, upper : BOOLEAN]
    BY <2>2 DEF Continuation
  <2>3. CASE x \in [digits : 100 .. 599]
    BY <2>3 DEF Continuation
  <2>4. CASE x = Inside
    BY <2>4 DEF Continuation, Inside
  <2> QED BY <2>1, <2>2, <2>3, <2>4
<1>6. ASSUME NEW x \in CharOctet PROVE "mark" \notin DOMAIN x
  BY DEF CharOctet, Continuation
<1>7. ASSUME NEW x \in RowOctet
      PROVE  x # Continuation /\ "lead" \notin DOMAIN x /\ ("mark" \notin DOMAIN x \/ x \in {Space[1], Colon[1], CR})
  <2>1. CASE x \in {Space[1], Colon[1], CR}
    BY <2>1, <1>1, <1>3, Zenon
  <2>2. CASE x \notin {Space[1], Colon[1], CR}
    <3>1. x \in [word : HttpWord] \cup [word : STRING, upper : BOOLEAN] \cup [digits : 100 .. 599] \cup {Inside}
      BY <2>2 DEF RowOctet
    <3> QED BY <3>1, <1>5
  <2> QED BY <2>1, <2>2
<1>8. ASSUME NEW x \in CharOctet PROVE x # Space[1] /\ x # Colon[1] /\ x # CR /\ x # Feed
  BY <1>1, <1>3, <1>6, Zenon
<1>9. Feed \notin RowOctet
  <2>1. "mark" \in DOMAIN Feed
    BY <1>1, Zenon
  <2> QED BY <2>1, <1>4, <1>7
<1>10. Feed \notin HttpOctet
  BY <1>8, <1>9 DEF HttpOctet
<1>11. CR \in RowOctet
  BY DEF RowOctet
<1>12. Feed # Continuation /\ "lead" \notin DOMAIN Feed /\ CR # Continuation
  BY <1>1, <1>3, Zenon
<1> QED BY <1>4, <1>7, <1>8, <1>10, <1>11, <1>12 DEF HttpOctet, AnyOctet

BodyPiece(piece, sep) ==
  IF piece = "break" THEN sep
  ELSE IF piece = "wide" THEN Wide
  ELSE IF piece = "space" THEN Space
  ELSE IF piece = "method" THEN Field([word |-> "GET"], 3)
  ELSE IF piece = "version" THEN Http!Version
  ELSE IF piece = "number" THEN Field([digits |-> 404], 3)
  ELSE Field([word |-> "a"], 1)
BodyPieces(b, sep) == [i \in 1 .. Len(b) |-> BodyPiece(b[i], sep)]
BodyOf(b, sep) == FlattenSeq(BodyPieces(b, sep))

LEMMA BodyIs ==
  ASSUME NEW sep, content \in Seq(Http!Piece) PROVE Http!BodyWith(sep) = BodyOf(content, sep)
<1>1. DOMAIN content = 1 .. Len(content) /\ \A i \in 1 .. Len(content) : content[i] \in Http!Piece
  OBVIOUS
<1> DEFINE piece(i) == CASE content[i] = "ascii"   -> Http!Word("a", 1)
                         [] content[i] = "wide"    -> Http!Wide
                         [] content[i] = "break"   -> sep
                         [] content[i] = "space"   -> Http!Space
                         [] content[i] = "method"  -> Http!Word("GET", 3)
                         [] content[i] = "version" -> Http!Version
                         [] content[i] = "number"  -> Http!Field([digits |-> 404], 3)
<1>2. ASSUME NEW i \in 1 .. Len(content) PROVE piece(i) = BodyPiece(content[i], sep)
  <2>1. \/ content[i] = "ascii" \/ content[i] = "wide" \/ content[i] = "break" \/ content[i] = "space"
        \/ content[i] = "method" \/ content[i] = "version" \/ content[i] = "number"
    BY <1>1 DEF Http!Piece
  <2>2. /\ Http!Word("a", 1) = Field([word |-> "a"], 1) /\ Http!Wide = Wide /\ Http!Space = Space
        /\ Http!Word("GET", 3) = Field([word |-> "GET"], 3)
        /\ Http!Field([digits |-> 404], 3) = Field([digits |-> 404], 3)
    BY HttpOctets
  <2>3. CASE content[i] = "ascii"
    BY <2>2, <2>3 DEF BodyPiece
  <2>4. CASE content[i] = "wide"
    BY <2>2, <2>4 DEF BodyPiece
  <2>5. CASE content[i] = "break"
    BY <2>5 DEF BodyPiece
  <2>6. CASE content[i] = "space"
    BY <2>2, <2>6 DEF BodyPiece
  <2>7. CASE content[i] = "method"
    BY <2>2, <2>7 DEF BodyPiece
  <2>8. CASE content[i] = "version"
    BY <2>8 DEF BodyPiece
  <2>9. CASE content[i] = "number"
    BY <2>2, <2>9 DEF BodyPiece
  <2> QED BY <2>1, <2>3, <2>4, <2>5, <2>6, <2>7, <2>8, <2>9
<1>3. [i \in DOMAIN content |-> piece(i)] = BodyPieces(content, sep)
  <2> HIDE DEF piece
  <2> QED BY <1>1, <1>2 DEF BodyPieces
<1> QED BY <1>3, HttpOctets DEF Http!BodyWith, BodyOf

\* A piece that breaks no line: octets of which the last is not the first of two.
Unbroken(p) == p \in Seq(HttpOctet) /\ Len(p) >= 1 /\ "lead" \notin DOMAIN p[Len(p)]
LEMMA FieldUnbroken ==
  ASSUME NEW first \in HttpOctet, "lead" \notin DOMAIN first, NEW size \in Nat \ {0}
  PROVE  Unbroken(Field(first, size))
<1> DEFINE p == Field(first, size)
<1>1. Inside \in HttpOctet /\ "lead" \notin DOMAIN Inside
  BY OctetsApart DEF RowOctet
<1>2. size \in Nat /\ first \in HttpOctet \cup {Inside}
  OBVIOUS
<1>3. p \in Seq(HttpOctet) /\ Len(p) = size /\ \A i \in 1 .. size : p[i] = IF i = 1 THEN first ELSE Inside
  BY <1>1, <1>2, Fields, Zenon
<1> HIDE DEF p
<1>4. size >= 1 /\ size \in 1 .. size
  OBVIOUS
<1>5. p[size] = first \/ p[size] = Inside
  BY <1>3, <1>4
<1>6. "lead" \notin DOMAIN p[size]
  BY <1>1, <1>5
<1> QED BY <1>3, <1>4, <1>6 DEF Unbroken, p

LEMMA Singles == Space = Field(Space[1], 1) /\ Colon = Field(Colon[1], 1)
<1>1. ASSUME NEW m PROVE Mark(m) = Field(Mark(m)[1], 1)
  <2>1. Field([mark |-> m], 1)[1] = [mark |-> m]
    BY SMTT(30) DEF Field
  <2> QED BY <2>1 DEF Mark
<1> QED BY <1>1, Zenon DEF Space, Colon

LEMMA BodyPieceTyped ==
  /\ \A piece \in Http!Piece : piece # "break" => \A sep : Unbroken(BodyPiece(piece, sep))
  /\ \A piece \in Http!Piece : \A sep \in Seq(AnyOctet) : BodyPiece(piece, sep) \in Seq(AnyOctet)
<1>1. Unbroken(Wide)
  <2>1. Wide \in Seq(CharOctet) /\ Len(Wide) = 2 /\ Wide[2] = Continuation
    BY DEF Wide, CharOctet
  <2>2. CharOctet \subseteq HttpOctet
    BY OctetsApart
  <2>3. Wide \in Seq(HttpOctet)
    BY <2>1, <2>2, SeqMonotonic
  <2> QED BY <2>1, <2>3, CharOctets DEF Unbroken
<1> DEFINE a == [word |-> "a"]
           g == [word |-> "GET"]
           d == [digits |-> 404]
           x == Space[1]
<1>2. /\ a \in HttpOctet /\ "lead" \notin DOMAIN a
      /\ g \in HttpOctet /\ "lead" \notin DOMAIN g
      /\ d \in HttpOctet /\ "lead" \notin DOMAIN d
      /\ x \in HttpOctet /\ "lead" \notin DOMAIN x
  <2>1. "a" \in HttpWord /\ "GET" \in HttpWord /\ 404 \in 100 .. 599
    <3>1. "a" \in HttpWord
      BY Zenon DEF HttpWord
    <3>2. "GET" \in Http!Method
      BY Zenon DEF Http!Method
    <3>3. "GET" \in HttpWord
      BY <3>2, Zenon DEF HttpWord
    <3>4. 404 \in 100 .. 599
      BY SMT
    <3> QED BY <3>1, <3>3, <3>4
  <2>2. a \in [word : HttpWord] /\ g \in [word : HttpWord] /\ d \in [digits : 100 .. 599]
    BY <2>1
  <2>3. x \in RowOctet
    BY DEF RowOctet
  <2> HIDE DEF a, g, d, x
  <2>4. a \in RowOctet /\ g \in RowOctet /\ d \in RowOctet
    BY <2>2, Zenon DEF RowOctet
  <2> QED BY <2>3, <2>4, OctetsApart
<1> HIDE DEF a, g, d, x
<1>3. Unbroken(Field(a, 1)) /\ Unbroken(Field(g, 3)) /\ Unbroken(Field(d, 3)) /\ Unbroken(Field(x, 1))
  <2>1. 1 \in Nat \ {0} /\ 3 \in Nat \ {0}
    OBVIOUS
  <2> QED BY <1>2, <2>1, FieldUnbroken
<1>4. Space = Field(x, 1)
  BY Singles DEF x
<1>5. Unbroken(Http!Version)
  <2> DEFINE h == Field([word |-> "HTTP/"], 5)
             v == Field([word |-> "1.1"], 3)
             b == [word |-> "HTTP/"]
             c == [word |-> "1.1"]
  <2>1. b \in HttpOctet /\ "lead" \notin DOMAIN b /\ c \in HttpOctet /\ "lead" \notin DOMAIN c
    <3>1. b \in RowOctet /\ c \in RowOctet
      BY DEF RowOctet, HttpWord
    <3> HIDE DEF b, c
    <3> QED BY <3>1, OctetsApart
  <2> HIDE DEF b, c
  <2>2. Unbroken(Field(b, 5)) /\ Unbroken(Field(c, 3))
    <3>1. 5 \in Nat \ {0} /\ 3 \in Nat \ {0}
      OBVIOUS
    <3> QED BY <2>1, <3>1, FieldUnbroken
  <2>3. Unbroken(h) /\ Unbroken(v)
    BY <2>2 DEF b, c
  <2> HIDE DEF h, v
  <2>4. IsJoin(h \o v, HttpOctet, h, v)
    BY <2>3, Joined DEF Unbroken
  <2> DEFINE u == h \o v
  <2> HIDE DEF u
  <2>5. PICK l \in Nat, n \in Nat : l = Len(h) /\ n = Len(v) /\ n >= 1
    BY <2>3 DEF Unbroken
  <2>6. u \in Seq(HttpOctet) /\ Len(u) = l + n /\ u[l + n] = v[n]
    <3>1. n \in 1 .. Len(v)
      BY <2>5
    <3> QED BY <2>4, <2>5, <3>1 DEF IsJoin, u
  <2>7. Unbroken(u)
    BY <2>3, <2>5, <2>6 DEF Unbroken
  <2>8. Http!Version = u
    BY HttpOctets, Zenon DEF Http!Version, u, h, v
  <2> QED BY <2>7, <2>8
<1>6. ASSUME NEW piece \in Http!Piece, piece # "break", NEW sep PROVE Unbroken(BodyPiece(piece, sep))
  BY <1>1, <1>3, <1>4, <1>5, <1>6, Zenon DEF BodyPiece, a, g, d
<1>7. ASSUME NEW piece \in Http!Piece, NEW sep \in Seq(AnyOctet) PROVE BodyPiece(piece, sep) \in Seq(AnyOctet)
  <2>1. CASE piece = "break"
    BY <2>1 DEF BodyPiece
  <2>2. CASE piece # "break"
    <3>1. BodyPiece(piece, sep) \in Seq(HttpOctet)
      BY <2>2, <1>6 DEF Unbroken
    <3>2. HttpOctet \subseteq AnyOctet
      BY OctetsApart
    <3> HIDE DEF BodyPiece
    <3> QED BY <3>1, <3>2, SeqMonotonic
  <2> QED BY <2>1, <2>2
<1> QED BY <1>6, <1>7

LEMMA BodyGrows ==
  ASSUME NEW b \in Seq(Http!Piece), NEW x \in Http!Piece, NEW sep \in Seq(AnyOctet)
  PROVE  BodyOf(Append(b, x), sep) = BodyOf(b, sep) \o BodyPiece(x, sep)
<1>1. PICK n \in Nat : n = Len(b) /\ \A k \in 1 .. n : b[k] \in Http!Piece
  OBVIOUS
<1> DEFINE a == BodyPieces(b, sep)
           e == BodyPiece(x, sep)
           c == Append(b, x)
           u == BodyPieces(c, sep)
           v == Append(a, e)
<1>2. \A k \in 1 .. n : BodyPiece(b[k], sep) \in Seq(AnyOctet)
  BY <1>1, BodyPieceTyped
<1>3. a \in Seq(Seq(AnyOctet)) /\ Len(a) = n /\ \A k \in 1 .. n : a[k] = BodyPiece(b[k], sep)
  <2>1. a = [i \in 1 .. n |-> BodyPiece(b[i], sep)]
    BY <1>1 DEF BodyPieces
  <2> HIDE DEF a
  <2> QED BY <2>1, <1>2
<1>4. e \in Seq(AnyOctet)
  BY BodyPieceTyped
<1>5. Len(c) = n + 1 /\ (\A k \in 1 .. n : c[k] = b[k]) /\ c[n + 1] = x
  BY <1>1
<1> HIDE DEF a, c
<1>6. u = [k \in 1 .. n + 1 |-> BodyPiece(c[k], sep)]
  BY <1>5 DEF BodyPieces
<1>7. ASSUME NEW k \in 1 .. n + 1
      PROVE  BodyPiece(c[k], sep) = (IF k = n + 1 THEN e ELSE a[k])
             /\ (IF k = n + 1 THEN e ELSE a[k]) \in Seq(AnyOctet)
  <2>1. CASE k = n + 1
    BY <2>1, <1>4, <1>5
  <2>2. CASE k # n + 1
    <3>1. k \in 1 .. n
      BY <2>2
    <3>2. c[k] = b[k]
      BY <3>1, <1>5
    <3> QED BY <3>1, <3>2, <2>2, <1>3
  <2> QED BY <2>1, <2>2
<1> HIDE DEF e
<1>8. v \in Seq(Seq(AnyOctet)) /\ Len(v) = n + 1 /\ (\A k \in 1 .. n : v[k] = a[k]) /\ v[n + 1] = e
  <2>1. Len(a) = n
    BY <1>3
  <2> QED BY <2>1, <1>3, <1>4, AppendProperties
<1>9. u = [k \in 1 .. n + 1 |-> IF k = n + 1 THEN e ELSE a[k]]
  BY <1>6, <1>7
<1> HIDE DEF u, v
<1>10. u \in Seq(Seq(AnyOctet)) /\ Len(u) = n + 1 /\ \A k \in 1 .. n + 1 : u[k] = IF k = n + 1 THEN e ELSE a[k]
  BY <1>7, <1>9
<1>11. ASSUME NEW k \in 1 .. n + 1 PROVE u[k] = v[k]
  <2>1. CASE k = n + 1
    BY <2>1, <1>8, <1>10
  <2>2. CASE k # n + 1
    <3>1. k \in 1 .. n
      BY <2>2
    <3> QED BY <3>1, <2>2, <1>8, <1>10
  <2> QED BY <2>1, <2>2
<1>12. u = v
  BY <1>8, <1>10, <1>11, SeqEqual
<1>13. FlattenSeq(Append(a, e)) = FlattenSeq(a) \o e
  BY <1>3, <1>4, FlattenAppended
<1> QED BY <1>12, <1>13 DEF u, v, c, e, a, BodyOf

\* The rows of the body b, and what follows the last.
BodyRows(b, rows, tail) ==
  /\ rows \in Seq(Seq(HttpOctet)) /\ tail \in Seq(HttpOctet)
  /\ BodyOf(b, NewLine) = Lined(rows, NewLine, tail) /\ BodyOf(b, LF) = Lined(rows, LF, tail)
  /\ b = << >> <=> rows = << >> /\ tail = << >>
  /\ b # << >> => (Last(b) = "break" <=> tail = << >>)
  /\ tail # << >> => "lead" \notin DOMAIN tail[Len(tail)]

LEMMA Separators == NewLine \in Seq(AnyOctet) /\ LF \in Seq(AnyOctet)
<1>1. NewLine = <<CR, Feed>> /\ LF = <<Feed>>
  BY Marks, Zenon DEF CR, Feed
<1>2. CR \in AnyOctet /\ Feed \in AnyOctet
  BY OctetsApart
<1>3. <<CR, Feed>> \in Seq(AnyOctet) /\ <<Feed>> \in Seq(AnyOctet)
  BY <1>2
<1> QED BY <1>1, <1>3

LEMMA CharRowsTyped ==
  ASSUME NEW rows \in Seq(Seq(HttpOctet)), NEW tail \in Seq(HttpOctet)
  PROVE  rows \in Seq(Seq(AnyOctet)) /\ tail \in Seq(AnyOctet)
<1>1. HttpOctet \subseteq AnyOctet
  BY OctetsApart
<1>2. Seq(HttpOctet) \subseteq Seq(AnyOctet)
  BY <1>1, SeqMonotonic
<1>3. rows \in Seq(Seq(AnyOctet))
  BY <1>2, SeqMonotonic
<1> QED BY <1>2, <1>3

LEMMA BodyBreaks ==
  ASSUME NEW b \in Seq(Http!Piece), NEW rows, NEW tail, BodyRows(b, rows, tail)
  PROVE  BodyRows(Append(b, "break"), Append(rows, tail), << >>)
<1> DEFINE c == Append(b, "break")
           r == Append(rows, tail)
<1>1. rows \in Seq(Seq(HttpOctet)) /\ tail \in Seq(HttpOctet)
  BY DEF BodyRows
<1>2. BodyOf(b, NewLine) = Lined(rows, NewLine, tail) /\ BodyOf(b, LF) = Lined(rows, LF, tail)
  BY DEF BodyRows
<1>3. rows \in Seq(Seq(AnyOctet)) /\ tail \in Seq(AnyOctet) /\ << >> \in Seq(AnyOctet)
  BY <1>1, CharRowsTyped
<1>4. ASSUME NEW sep \in Seq(AnyOctet), BodyOf(b, sep) = Lined(rows, sep, tail)
      PROVE  BodyOf(c, sep) = Lined(r, sep, << >>)
  <2>1. "break" \in Http!Piece
    BY DEF Http!Piece
  <2>2. BodyOf(c, sep) = BodyOf(b, sep) \o BodyPiece("break", sep)
    BY <2>1, BodyGrows
  <2>3. BodyPiece("break", sep) = sep
    BY DEF BodyPiece
  <2> DEFINE none == << >>
  <2>4. none \in Seq(AnyOctet)
    OBVIOUS
  <2>5. sep \o none = sep
    OBVIOUS
  <2> HIDE DEF none
  <2>6. FurtherRow(rows, tail, sep, none)
    BY <2>4, <1>3, LinedRow
  <2>7. Lined(r, sep, none) = Lined(rows, sep, tail) \o sep
    BY <2>5, <2>6 DEF FurtherRow
  <2> QED BY <2>2, <2>3, <2>7, <1>4 DEF none
<1>5. BodyOf(c, NewLine) = Lined(r, NewLine, << >>) /\ BodyOf(c, LF) = Lined(r, LF, << >>)
  BY <1>2, <1>4, Separators
<1>6. r \in Seq(Seq(HttpOctet)) /\ << >> \in Seq(HttpOctet) /\ r # << >>
  <2>1. r \in Seq(Seq(HttpOctet)) /\ r # << >>
    BY <1>1, AppendProperties
  <2>2. << >> \in Seq(HttpOctet)
    OBVIOUS
  <2> QED BY <2>1, <2>2
<1>7. c # << >> /\ Last(c) = "break"
  <2>1. c \in Seq(Http!Piece) /\ Len(c) = Len(b) + 1 /\ c[Len(b) + 1] = "break" /\ Len(b) \in Nat
    BY DEF Http!Piece
  <2> HIDE DEF c
  <2> QED BY <2>1 DEF Last
<1> HIDE DEF r, c
<1>8. BodyRows(c, r, << >>)
  BY <1>5, <1>6, <1>7 DEF BodyRows
<1> QED BY <1>8 DEF r, c

LEMMA BodyGoesOn ==
  ASSUME NEW b \in Seq(Http!Piece), NEW rows, NEW tail, BodyRows(b, rows, tail),
         NEW x \in Http!Piece, x # "break"
  PROVE  BodyRows(Append(b, x), rows, tail \o BodyPiece(x, LF))
<1> DEFINE c == Append(b, x)
           p == BodyPiece(x, LF)
           t == tail \o p
<1>1. rows \in Seq(Seq(HttpOctet)) /\ tail \in Seq(HttpOctet)
  BY DEF BodyRows
<1>2. BodyOf(b, NewLine) = Lined(rows, NewLine, tail) /\ BodyOf(b, LF) = Lined(rows, LF, tail)
  BY DEF BodyRows
<1>3. \A sep : BodyPiece(x, sep) = p
  BY DEF BodyPiece
<1>4. p \in Seq(HttpOctet) /\ Len(p) >= 1 /\ "lead" \notin DOMAIN p[Len(p)] /\ Len(p) \in Nat
  <2>1. Unbroken(p)
    BY BodyPieceTyped
  <2> HIDE DEF p
  <2> QED BY <2>1 DEF Unbroken
<1> HIDE DEF p
<1>5. rows \in Seq(Seq(AnyOctet)) /\ tail \in Seq(AnyOctet) /\ p \in Seq(AnyOctet)
  BY <1>1, <1>4, CharRowsTyped
<1>6. ASSUME NEW sep \in Seq(AnyOctet), BodyOf(b, sep) = Lined(rows, sep, tail)
      PROVE  BodyOf(c, sep) = Lined(rows, sep, t)
  <2>1. BodyOf(c, sep) = BodyOf(b, sep) \o BodyPiece(x, sep)
    BY BodyGrows
  <2>2. FurtherOctets(rows, sep, tail, p)
    BY <1>5, LinedMore
  <2> QED BY <2>1, <2>2, <1>3, <1>6 DEF FurtherOctets
<1>7. BodyOf(c, NewLine) = Lined(rows, NewLine, t) /\ BodyOf(c, LF) = Lined(rows, LF, t)
  BY <1>2, <1>6, Separators
<1>8. t \in Seq(HttpOctet) /\ t # << >> /\ "lead" \notin DOMAIN t[Len(t)]
  <2>1. IsJoin(t, HttpOctet, tail, p)
    BY <1>1, <1>4, Joined
  <2> HIDE DEF t
  <2>2. PICK m \in Nat, n \in Nat : m = Len(tail) /\ n = Len(p) /\ n >= 1 /\ Len(t) = m + n /\ n \in 1 .. n
    BY <2>1, <1>1, <1>4 DEF IsJoin
  <2>3. t \in Seq(HttpOctet) /\ t[m + n] = p[n]
    BY <2>1, <2>2 DEF IsJoin
  <2> QED BY <2>2, <2>3, <1>4
<1>9. c # << >> /\ Last(c) # "break"
  <2>1. c \in Seq(Http!Piece) /\ Len(c) = Len(b) + 1 /\ c[Len(b) + 1] = x /\ Len(b) \in Nat
    OBVIOUS
  <2> HIDE DEF c
  <2> QED BY <2>1 DEF Last
<1> HIDE DEF t, c
<1>10. BodyRows(c, rows, t)
  BY <1>1, <1>7, <1>8, <1>9 DEF BodyRows
<1> QED BY <1>10 DEF t, c, p

LEMMA BodyInRows == \A b \in Seq(Http!Piece) : \E rows, tail : BodyRows(b, rows, tail)
<1> DEFINE T == {b \in Seq(Http!Piece) : \E rows, tail : BodyRows(b, rows, tail)}
<1>1. << >> \in T
  <2>1. \A sep : BodyPieces(<< >>, sep) = << >>
    BY DEF BodyPieces
  <2>2. \A sep : BodyOf(<< >>, sep) = << >>
    BY <2>1, FlattenNone DEF BodyOf
  <2>3. \A sep : Lined(<< >>, sep, << >>) = << >>
    <3>1. << >> \in Seq({0})
      OBVIOUS
    <3> QED BY <3>1, LinedNone
  <2>4. BodyRows(<< >>, << >>, << >>)
    <3>1. << >> \in Seq(Seq(HttpOctet)) /\ << >> \in Seq(HttpOctet)
      OBVIOUS
    <3> QED BY <3>1, <2>2, <2>3 DEF BodyRows
  <2> QED BY <2>4
<1>2. ASSUME NEW b \in Seq(Http!Piece), NEW x \in Http!Piece, b \in T PROVE Append(b, x) \in T
  <2>1. PICK rows, tail : BodyRows(b, rows, tail)
    BY <1>2
  <2>2. Append(b, x) \in Seq(Http!Piece)
    OBVIOUS
  <2>3. CASE x = "break"
    BY <2>1, <2>2, <2>3, BodyBreaks
  <2>4. CASE x # "break"
    BY <2>1, <2>2, <2>4, BodyGoesOn
  <2> QED BY <2>3, <2>4
<1>3. \A b \in Seq(Http!Piece) : b \in T
  <2> HIDE DEF T
  <2> QED BY <1>1, <1>2, SeqInduction
<1> QED BY <1>3

\* s and a field behind it.
WithField(t, S, s, first, size) ==
  /\ t \in Seq(S) /\ Len(t) = Len(s) + size
  /\ \A j \in 1 .. Len(s) : t[j] = s[j]
  /\ t[Len(s) + 1] = first
  /\ \A j \in 2 .. size : t[Len(s) + j] = Inside

LEMMA FieldJoined ==
  ASSUME NEW S, NEW s \in Seq(S), NEW first \in S, Inside \in S, NEW size \in Nat \ {0}
  PROVE  WithField(s \o Field(first, size), S, s, first, size)
<1> DEFINE f == Field(first, size)
           t == s \o f
<1>1. f \in Seq(S) /\ Len(f) = size /\ \A i \in 1 .. size : f[i] = IF i = 1 THEN first ELSE Inside
  <2>1. size \in Nat
    OBVIOUS
  <2> QED BY <2>1, Fields, Zenon
<1> HIDE DEF f
<1>2. IsJoin(t, S, s, f)
  BY <1>1, Joined
<1> HIDE DEF t
<1>3. t \in Seq(S) /\ Len(t) = Len(s) + size /\ \A j \in 1 .. Len(s) : t[j] = s[j]
  BY <1>1, <1>2 DEF IsJoin
<1>4. \A j \in 1 .. size : t[Len(s) + j] = f[j]
  BY <1>1, <1>2 DEF IsJoin
<1>5. t[Len(s) + 1] = first
  <2>1. 1 \in 1 .. size
    OBVIOUS
  <2> QED BY <2>1, <1>1, <1>4
<1>6. ASSUME NEW j \in 2 .. size PROVE t[Len(s) + j] = Inside
  <2>1. j \in 1 .. size /\ j # 1
    OBVIOUS
  <2> QED BY <2>1, <1>1, <1>4
<1> QED BY <1>3, <1>5, <1>6 DEF WithField, t, f

LEMMA RowOctets ==
  /\ Inside \in RowOctet /\ Space[1] \in RowOctet /\ Colon[1] \in RowOctet
  /\ \A w \in HttpWord : [word |-> w] \in RowOctet
  /\ \A w \in STRING : \A u \in BOOLEAN : [word |-> w, upper |-> u] \in RowOctet
  /\ \A d \in 100 .. 599 : [digits |-> d] \in RowOctet
  /\ "HTTP/" \in HttpWord /\ "1.1" \in HttpWord /\ "reason" \in HttpWord /\ "port" \in HttpWord
  /\ "more" \in HttpWord /\ "still" \in HttpWord
  /\ STRING \subseteq HttpWord /\ Http!Method \cup {"other"} \subseteq HttpWord
BY DEF RowOctet, HttpWord

VersionAt(s, o) ==
  /\ s[o + 1] = [word |-> "HTTP/"] /\ s[o + 2] = Inside /\ s[o + 3] = Inside /\ s[o + 4] = Inside /\ s[o + 5] = Inside
  /\ s[o + 6] = [word |-> "1.1"] /\ s[o + 7] = Inside /\ s[o + 8] = Inside

LEMMA VersionIs ==
  /\ Http!Version \in Seq(RowOctet) /\ Len(Http!Version) = 8 /\ VersionAt(Http!Version, 0)
<1>0. PICK one \in Nat \ {0}, two \in Nat \ {0}, three \in Nat \ {0}, five \in Nat \ {0} :
        one = 1 /\ two = 2 /\ three = 3 /\ five = 5
  OBVIOUS
<1> DEFINE h == [word |-> "HTTP/"]
           o == [word |-> "1.1"]
           s == Field(h, five)
           t == s \o Field(o, three)
<1>1. Http!Version = t
  BY <1>0, HttpOctets DEF Http!Version
<1>2. h \in RowOctet /\ o \in RowOctet /\ Inside \in RowOctet
  BY RowOctets
<1> HIDE DEF h, o
<1>3. s \in Seq(RowOctet) /\ Len(s) = 5 /\ \A i \in 1 .. 5 : s[i] = IF i = 1 THEN h ELSE Inside
  <2>1. s \in Seq(RowOctet) /\ Len(s) = five /\ \A i \in 1 .. five : s[i] = IF i = 1 THEN h ELSE Inside
    <3>1. five \in Nat
      OBVIOUS
    <3> QED BY <3>1, <1>2, Fields, Zenon
  <2> HIDE DEF s
  <2> QED BY <2>1, <1>0
<1> HIDE DEF s
<1>4. WithField(t, RowOctet, s, o, three)
  BY <1>2, <1>3, FieldJoined, Zenon
<1> HIDE DEF t
<1>5. /\ t \in Seq(RowOctet) /\ Len(t) = 8 /\ \A j \in 1 .. 5 : t[j] = s[j]
      /\ t[6] = o /\ \A j \in 2 .. 3 : t[5 + j] = Inside
  BY <1>0, <1>3, <1>4 DEF WithField
<1>6. t[1] = h /\ t[2] = Inside /\ t[3] = Inside /\ t[4] = Inside /\ t[5] = Inside
  BY <1>3, <1>5
<1>7. t[7] = Inside /\ t[8] = Inside
  <2>1. 2 \in 2 .. 3 /\ 3 \in 2 .. 3 /\ 5 + 2 = 7 /\ 5 + 3 = 8
    OBVIOUS
  <2> QED BY <2>1, <1>5
<1>8. VersionAt(t, 0)
  BY <1>5, <1>6, <1>7 DEF VersionAt, h, o
<1> QED BY <1>1, <1>5, <1>8

Answers == "status" \in DOMAIN start

StartIs(s) ==
  /\ s \in Seq(RowOctet) /\ Len(s) = 15
  /\ Answers =>
       /\ start \in [status : 100 .. 599] /\ VersionAt(s, 0) /\ s[9] = Space[1]
       /\ s[10] = [digits |-> start.status] /\ s[11] = Inside /\ s[12] = Inside
       /\ s[13] = Space[1] /\ s[14] = [word |-> "reason"] /\ s[15] = Inside
  /\ ~ Answers =>
       /\ start \in [method : Http!Method \cup {"other"}, uri : STRING]
       /\ s[1] = [word |-> start.method] /\ s[2] = Inside /\ s[3] = Inside
       /\ s[4] = Space[1] /\ s[5] = [word |-> start.uri] /\ s[6] = Inside
       /\ s[7] = Space[1] /\ VersionAt(s, 7)

LEMMA StartTyped ==
  ASSUME Http!TypeOK
  PROVE  /\ Answers => start \in [status : 100 .. 599]
         /\ ~ Answers => start \in [method : Http!Method \cup {"other"}, uri : STRING]
<1>1. start \in [method : Http!Method \cup {"other"}, uri : STRING] \cup [status : 100 .. 599]
  BY HttpAssumption DEF Http!TypeOK, Http!Start
<1>2. \A x \in [method : Http!Method \cup {"other"}, uri : STRING] : "status" \notin DOMAIN x
  OBVIOUS
<1>3. \A x \in [status : 100 .. 599] : "status" \in DOMAIN x
  OBVIOUS
<1> QED BY <1>1, <1>2, <1>3 DEF Answers

LEMMA ResponseStarts == ASSUME Http!TypeOK, Answers PROVE StartIs(Http!StartLine)
<1>0. PICK one \in Nat \ {0}, two \in Nat \ {0}, three \in Nat \ {0}, five \in Nat \ {0} :
        one = 1 /\ two = 2 /\ three = 3 /\ five = 5
  OBVIOUS
<1> DEFINE d == [digits |-> start.status]
           r == [word |-> "reason"]
           v == Http!Version
           s1 == v \o Field(Space[1], one)
           s2 == s1 \o Field(d, three)
           s3 == s2 \o Field(Space[1], one)
           s4 == s3 \o Field(r, two)
<1>1. Http!StartLine = s4
  BY <1>0, HttpOctets, Singles DEF Http!StartLine, Answers
<1>2. start \in [status : 100 .. 599]
  BY StartTyped
<1>3. d \in RowOctet /\ r \in RowOctet /\ Inside \in RowOctet /\ Space[1] \in RowOctet
  <2>1. start.status \in 100 .. 599
    BY <1>2
  <2> QED BY <2>1, RowOctets
<1>4. v \in Seq(RowOctet) /\ Len(v) = 8 /\ VersionAt(v, 0)
  BY VersionIs
<1> HIDE DEF d, r, v
<1> DEFINE space == Space[1]
<1> HIDE DEF space
<1>5. /\ s1 \in Seq(RowOctet) /\ Len(s1) = 9 /\ (\A j \in 1 .. 8 : s1[j] = v[j]) /\ s1[9] = space
  <2>1. WithField(s1, RowOctet, v, space, one)
    BY <1>3, <1>4, FieldJoined, Zenon DEF space
  <2> HIDE DEF s1
  <2> QED BY <1>0, <2>1, <1>4 DEF WithField
<1> HIDE DEF s1
<1>6. /\ s2 \in Seq(RowOctet) /\ Len(s2) = 12 /\ (\A j \in 1 .. 9 : s2[j] = s1[j]) /\ s2[10] = d
      /\ s2[11] = Inside /\ s2[12] = Inside
  <2>1. WithField(s2, RowOctet, s1, d, three)
    BY <1>3, <1>5, FieldJoined, Zenon
  <2> HIDE DEF s2
  <2>2. 2 \in 2 .. 3 /\ 3 \in 2 .. 3 /\ 9 + 2 = 11 /\ 9 + 3 = 12
    OBVIOUS
  <2>3. \A j \in 2 .. 3 : s2[9 + j] = Inside
    BY <1>0, <2>1, <1>5 DEF WithField
  <2>4. s2[11] = Inside /\ s2[12] = Inside
    BY <2>2, <2>3
  <2> QED BY <1>0, <2>1, <2>4, <1>5 DEF WithField
<1> HIDE DEF s2
<1>7. /\ s3 \in Seq(RowOctet) /\ Len(s3) = 13 /\ (\A j \in 1 .. 12 : s3[j] = s2[j]) /\ s3[13] = space
  <2>1. WithField(s3, RowOctet, s2, space, one)
    BY <1>3, <1>6, FieldJoined, Zenon DEF space
  <2> HIDE DEF s3
  <2> QED BY <1>0, <2>1, <1>6 DEF WithField
<1> HIDE DEF s3
<1>8. /\ s4 \in Seq(RowOctet) /\ Len(s4) = 15 /\ (\A j \in 1 .. 13 : s4[j] = s3[j]) /\ s4[14] = r
      /\ s4[15] = Inside
  <2>1. WithField(s4, RowOctet, s3, r, two)
    BY <1>3, <1>7, FieldJoined, Zenon
  <2> HIDE DEF s4
  <2>2. 2 \in 2 .. 2 /\ 13 + 2 = 15
    OBVIOUS
  <2>3. \A j \in 2 .. 2 : s4[13 + j] = Inside
    BY <1>0, <2>1, <1>7 DEF WithField
  <2>4. s4[15] = Inside
    BY <2>2, <2>3
  <2> QED BY <1>0, <2>1, <2>4, <1>7 DEF WithField
<1> HIDE DEF s4
<1>9. \A j \in 1 .. 8 : s4[j] = v[j]
  BY SMTT(30), <1>5, <1>6, <1>7, <1>8
<1>10. VersionAt(s4, 0)
  BY <1>4, <1>9 DEF VersionAt
<1>11. s4[9] = space /\ s4[10] = d /\ s4[11] = Inside /\ s4[12] = Inside /\ s4[13] = space
  BY <1>5, <1>6, <1>7, <1>8
<1>12. StartIs(s4)
  BY <1>2, <1>8, <1>10, <1>11 DEF StartIs, space, d, r
<1> QED BY <1>1, <1>12

LEMMA RequestStarts == ASSUME Http!TypeOK, ~ Answers PROVE StartIs(Http!StartLine)
<1>0. PICK one \in Nat \ {0}, two \in Nat \ {0}, three \in Nat \ {0}, five \in Nat \ {0} :
        one = 1 /\ two = 2 /\ three = 3 /\ five = 5
  OBVIOUS
<1> DEFINE m == [word |-> start.method]
           u == [word |-> start.uri]
           v == Http!Version
           s1 == Field(m, three)
           s2 == s1 \o Field(Space[1], one)
           s3 == s2 \o Field(u, two)
           s4 == s3 \o Field(Space[1], one)
           s5 == s4 \o v
<1>1. Http!StartLine = s5
  BY <1>0, HttpOctets, Singles DEF Http!StartLine, Answers
<1>2. start \in [method : Http!Method \cup {"other"}, uri : STRING]
  BY StartTyped
<1>3. m \in RowOctet /\ u \in RowOctet /\ Inside \in RowOctet /\ Space[1] \in RowOctet
  <2>1. start.method \in Http!Method \cup {"other"} /\ start.uri \in STRING
    BY <1>2
  <2> QED BY <2>1, RowOctets
<1>4. v \in Seq(RowOctet) /\ Len(v) = 8 /\ VersionAt(v, 0)
  BY VersionIs
<1> HIDE DEF m, u, v
<1> DEFINE space == Space[1]
<1> HIDE DEF space
<1>5. s1 \in Seq(RowOctet) /\ Len(s1) = 3 /\ s1[1] = m /\ s1[2] = Inside /\ s1[3] = Inside
  <2>1. s1 \in Seq(RowOctet) /\ Len(s1) = three /\ \A i \in 1 .. three : s1[i] = IF i = 1 THEN m ELSE Inside
    <3>1. three \in Nat
      OBVIOUS
    <3> QED BY <3>1, <1>3, Fields, Zenon
  <2> HIDE DEF s1
  <2> QED BY <2>1, <1>0
<1> HIDE DEF s1
<1>6. /\ s2 \in Seq(RowOctet) /\ Len(s2) = 4 /\ (\A j \in 1 .. 3 : s2[j] = s1[j]) /\ s2[4] = space
  <2>1. WithField(s2, RowOctet, s1, space, one)
    BY <1>3, <1>5, FieldJoined, Zenon DEF space
  <2> HIDE DEF s2
  <2> QED BY <1>0, <2>1, <1>5 DEF WithField
<1> HIDE DEF s2
<1>7. /\ s3 \in Seq(RowOctet) /\ Len(s3) = 6 /\ (\A j \in 1 .. 4 : s3[j] = s2[j]) /\ s3[5] = u /\ s3[6] = Inside
  <2>1. WithField(s3, RowOctet, s2, u, two)
    BY <1>3, <1>6, FieldJoined, Zenon
  <2> HIDE DEF s3
  <2>2. 2 \in 2 .. 2 /\ 4 + 2 = 6
    OBVIOUS
  <2>3. \A j \in 2 .. 2 : s3[4 + j] = Inside
    BY <1>0, <2>1, <1>6 DEF WithField
  <2>4. s3[6] = Inside
    BY <2>2, <2>3
  <2> QED BY <1>0, <2>1, <2>4, <1>6 DEF WithField
<1> HIDE DEF s3
<1>8. /\ s4 \in Seq(RowOctet) /\ Len(s4) = 7 /\ (\A j \in 1 .. 6 : s4[j] = s3[j]) /\ s4[7] = space
  <2>1. WithField(s4, RowOctet, s3, space, one)
    BY <1>3, <1>7, FieldJoined, Zenon DEF space
  <2> HIDE DEF s4
  <2> QED BY <1>0, <2>1, <1>7 DEF WithField
<1> HIDE DEF s4
<1>9. /\ s5 \in Seq(RowOctet) /\ Len(s5) = 15 /\ (\A j \in 1 .. 7 : s5[j] = s4[j])
      /\ \A j \in 1 .. 8 : s5[7 + j] = v[j]
  <2>1. IsJoin(s5, RowOctet, s4, v)
    BY <1>4, <1>8, Joined
  <2> HIDE DEF s5
  <2> QED BY <2>1, <1>4, <1>8 DEF IsJoin
<1> HIDE DEF s5
<1>10. VersionAt(s5, 7)
  <2>1. \A j \in 1 .. 8 : v[0 + j] = v[j]
    OBVIOUS
  <2> QED BY <2>1, <1>4, <1>9 DEF VersionAt
<1>11. s5[1] = m /\ s5[2] = Inside /\ s5[3] = Inside /\ s5[4] = space /\ s5[5] = u /\ s5[6] = Inside /\ s5[7] = space
  BY <1>5, <1>6, <1>7, <1>8, <1>9
<1>12. StartIs(s5)
  BY <1>2, <1>9, <1>10, <1>11 DEF StartIs, space, m, u
<1> QED BY <1>1, <1>12

LEMMA FieldsJoined ==
  ASSUME NEW S, NEW s \in Seq(S), NEW first \in S, Inside \in S
  PROVE  /\ WithField(s \o Field(first, 1), S, s, first, 1)
         /\ WithField(s \o Field(first, 2), S, s, first, 2)
<1>0. PICK one \in Nat \ {0}, two \in Nat \ {0} : one = 1 /\ two = 2
  OBVIOUS
<1>1. WithField(s \o Field(first, one), S, s, first, one)
  BY FieldJoined, Zenon
<1>2. WithField(s \o Field(first, two), S, s, first, two)
  BY FieldJoined, Zenon
<1> QED BY <1>0, <1>1, <1>2, Zenon

LEMMA ShortFields ==
  ASSUME NEW S, NEW first \in S, Inside \in S
  PROVE  /\ Field(first, 1) \in Seq(S) /\ Len(Field(first, 1)) = 1 /\ Field(first, 1)[1] = first
         /\ Field(first, 2) \in Seq(S) /\ Len(Field(first, 2)) = 2
         /\ Field(first, 2)[1] = first /\ Field(first, 2)[2] = Inside
<1>1. ASSUME NEW size \in Nat
      PROVE  /\ Field(first, size) \in Seq(S) /\ Len(Field(first, size)) = size
             /\ \A i \in 1 .. size : Field(first, size)[i] = IF i = 1 THEN first ELSE Inside
  BY Fields, Zenon
<1>2. PICK one \in Nat, two \in Nat : one = 1 /\ two = 2
  OBVIOUS
<1>3. /\ Field(first, one) \in Seq(S) /\ Len(Field(first, one)) = one
      /\ \A i \in 1 .. one : Field(first, one)[i] = IF i = 1 THEN first ELSE Inside
  BY <1>1
<1>4. /\ Field(first, two) \in Seq(S) /\ Len(Field(first, two)) = two
      /\ \A i \in 1 .. two : Field(first, two)[i] = IF i = 1 THEN first ELSE Inside
  BY <1>1
<1>5. Field(first, one) \in Seq(S) /\ Len(Field(first, one)) = 1 /\ Field(first, one)[1] = first
  BY <1>2, <1>3
<1>6. /\ Field(first, two) \in Seq(S) /\ Len(Field(first, two)) = 2
      /\ Field(first, two)[1] = first /\ Field(first, two)[2] = Inside
  BY <1>2, <1>4
<1> QED BY <1>2, <1>5, <1>6, Zenon

\* The rows of a header line.
ValueIs(v, h) ==
  /\ v \in Seq(RowOctet) /\ Len(v) \in {2, 5}
  /\ \A j \in 1 .. Len(v) : ~ Blank(v[j])
  /\ \A j \in 2 .. Len(v) : v[j] = Inside => v[j - 1] # Inside
MainRow(h) == Http!Name(h) \o Colon \o Space \o Http!Value(h)
FoldRow(h) ==
  IF h.folded = "plain" THEN Space \o Field([word |-> "more"], 2)
  ELSE Space \o Field([word |-> "more"], 2) \o Colon \o Field([word |-> "still"], 2)
RowsOf(h) == IF h.folded = "no" THEN <<MainRow(h)>> ELSE <<MainRow(h), FoldRow(h)>>
MainIs(s, h) ==
  /\ s \in Seq(RowOctet) /\ Len(s) = 4 + Len(Http!Value(h))
  /\ s[1] = [word |-> h.name, upper |-> h.upper] /\ s[2] = Inside
  /\ s[3] = Colon[1] /\ s[4] = Space[1]
  /\ \A j \in 1 .. Len(Http!Value(h)) : s[4 + j] = Http!Value(h)[j]
FoldIs(s, h) ==
  /\ s \in Seq(RowOctet) /\ s[1] = Space[1] /\ s[2] = [word |-> "more"] /\ s[3] = Inside
  /\ Len(s) = IF h.folded = "plain" THEN 3 ELSE 6
  /\ h.folded # "plain" => s[4] = Colon[1] /\ s[5] = [word |-> "still"] /\ s[6] = Inside

LEMMA RowMarks ==
  /\ Inside \in RowOctet /\ Space[1] \in RowOctet /\ Colon[1] \in RowOctet
  /\ ~ Blank(Inside) /\ ~ Blank(Colon[1]) /\ (\A w : ~ Blank([word |-> w]))
  /\ (\A w : [word |-> w] # Inside) /\ Colon[1] # Inside
  /\ Space \in Seq(RowOctet) /\ Len(Space) = 1
<1>1. Space = <<[mark |-> " "]>> /\ Colon = <<[mark |-> ":"]>>
  BY Marks, Zenon
<1>2. Inside \in RowOctet /\ Space[1] \in RowOctet /\ Colon[1] \in RowOctet
  BY RowOctets
<1>3. Space[1] = [mark |-> " "] /\ Colon[1] = [mark |-> ":"]
  BY <1>1, Zenon
<1>4. ~ Blank(Inside) /\ Colon[1] # Inside
  <2>1. \A m : [mark |-> m] # [inside |-> TRUE]
    <3>1. \A m : "mark" \in DOMAIN [mark |-> m]
      OBVIOUS
    <3>2. "mark" \notin DOMAIN [inside |-> TRUE]
      OBVIOUS
    <3> QED BY <3>1, <3>2
  <2> QED BY <2>1, <1>3, Zenon DEF Blank, Inside
<1>5. \A w : ~ Blank([word |-> w]) /\ [word |-> w] # Inside
  BY Zenon DEF Blank, Inside
<1>6. ~ Blank(Colon[1])
  <2>1. [mark |-> ":"] # [mark |-> " "] /\ [mark |-> ":"] # [mark |-> "CR"]
    BY Zenon
  <2> QED BY <2>1, <1>3, Zenon DEF Blank
<1>7. Space \in Seq(RowOctet) /\ Len(Space) = 1
  <2>1. [mark |-> " "] \in RowOctet
    BY <1>2, <1>3, Zenon
  <2>2. \A x \in RowOctet : <<x>> \in Seq(RowOctet) /\ Len(<<x>>) = 1
    OBVIOUS
  <2> QED BY <2>1, <2>2, <1>1, Zenon
<1> QED BY <1>2, <1>4, <1>5, <1>6, <1>7

LEMMA ValueTyped == ASSUME NEW h \in Http!Line PROVE ValueIs(Http!Value(h), h)
<1> DEFINE w == [word |-> h.value]
           p == [word |-> "port"]
           s1 == Field(w, 2)
           s2 == s1 \o (Field(Colon[1], 1) \o Field(p, 2))
           c == Field(Colon[1], 1)
           d == c \o Field(p, 2)
<1>1. Http!Value(h) = IF h.colon THEN s1 \o d ELSE s1 \o << >>
  BY HttpOctets, Singles DEF Http!Value
<1>2. h.value \in STRING
  BY DEF Http!Line
<1>3. w \in RowOctet /\ p \in RowOctet
  BY <1>2, RowOctets
<1>4. ~ Blank(w) /\ ~ Blank(p) /\ w # Inside /\ p # Inside
  BY RowMarks
<1> HIDE DEF w, p
<1>5. s1 \in Seq(RowOctet) /\ Len(s1) = 2 /\ s1[1] = w /\ s1[2] = Inside
  BY <1>3, RowMarks, ShortFields, Zenon
<1> HIDE DEF s1
<1> DEFINE colon == Colon[1]
<1>6. colon \in RowOctet /\ ~ Blank(colon) /\ colon # Inside /\ ~ Blank(Inside)
  BY RowMarks
<1>7. c \in Seq(RowOctet) /\ Len(c) = 1 /\ c[1] = colon
  BY <1>6, RowMarks, ShortFields, Zenon DEF colon
<1> HIDE DEF c, colon
<1>8. /\ d \in Seq(RowOctet) /\ Len(d) = 3 /\ d[1] = colon /\ d[2] = p /\ d[3] = Inside
  <2>1. WithField(d, RowOctet, c, p, 2)
    BY <1>3, <1>7, RowMarks, FieldsJoined, Zenon
  <2> HIDE DEF d
  <2>2. 2 \in 2 .. 2 /\ 1 + 2 = 3
    OBVIOUS
  <2>3. \A j \in 2 .. 2 : d[1 + j] = Inside
    BY <2>1, <1>7 DEF WithField
  <2>4. d[3] = Inside
    BY <2>2, <2>3
  <2> QED BY <2>1, <2>4, <1>7 DEF WithField
<1> HIDE DEF d
<1>9. CASE h.colon
  <2> DEFINE v == s1 \o d
  <2>1. IsJoin(v, RowOctet, s1, d)
    BY <1>5, <1>8, Joined
  <2>2. Http!Value(h) = v
    BY <1>1, <1>9
  <2> HIDE DEF v
  <2>3. v \in Seq(RowOctet) /\ Len(v) = 5 /\ v[1] = w /\ v[2] = Inside
    BY <2>1, <1>5, <1>8 DEF IsJoin
  <2>4. \A j \in 1 .. 3 : v[2 + j] = d[j]
    BY <2>1, <1>5, <1>8 DEF IsJoin
  <2>5. v[3] = colon /\ v[4] = p /\ v[5] = Inside
    <3>1. 1 \in 1 .. 3 /\ 2 \in 1 .. 3 /\ 3 \in 1 .. 3 /\ 2 + 1 = 3 /\ 2 + 2 = 4 /\ 2 + 3 = 5
      OBVIOUS
    <3> QED BY <3>1, <2>4, <1>8
  <2>6. \A j \in 1 .. 5 : ~ Blank(v[j])
    <3>1. \A j \in 1 .. 5 : j = 1 \/ j = 2 \/ j = 3 \/ j = 4 \/ j = 5
      OBVIOUS
    <3> QED BY <3>1, <2>3, <2>5, <1>4, <1>6
  <2>7. \A j \in 2 .. 5 : v[j] = Inside => v[j - 1] # Inside
    <3>1. \A j \in 2 .. 5 : j = 2 \/ j = 3 \/ j = 4 \/ j = 5
      OBVIOUS
    <3>2. 2 - 1 = 1 /\ 3 - 1 = 2 /\ 4 - 1 = 3 /\ 5 - 1 = 4
      OBVIOUS
    <3> QED BY <3>1, <3>2, <2>3, <2>5, <1>4, <1>6
  <2>8. ValueIs(v, h)
    BY <2>3, <2>6, <2>7 DEF ValueIs
  <2> QED BY <2>2, <2>8
<1>10. CASE ~ h.colon
  <2>1. s1 \o << >> = s1
    BY <1>5
  <2>2. Http!Value(h) = s1
    BY <1>1, <1>10, <2>1
  <2>3. \A j \in 1 .. 2 : ~ Blank(s1[j])
    <3>1. \A j \in 1 .. 2 : j = 1 \/ j = 2
      OBVIOUS
    <3> QED BY <3>1, <1>4, <1>5, <1>6
  <2>4. \A j \in 2 .. 2 : s1[j] = Inside => s1[j - 1] # Inside
    <3>1. \A j \in 2 .. 2 : j = 2 /\ j - 1 = 1
      OBVIOUS
    <3> QED BY <3>1, <1>4, <1>5
  <2>5. ValueIs(s1, h)
    BY <1>5, <2>3, <2>4 DEF ValueIs
  <2> QED BY <2>2, <2>5
<1> QED BY <1>9, <1>10

LEMMA MainTyped == ASSUME NEW h \in Http!Line PROVE MainIs(MainRow(h), h)
<1> DEFINE w == [word |-> h.name, upper |-> h.upper]
           s1 == Field(w, 2)
           s2 == s1 \o Field(Colon[1], 1)
           s3 == s2 \o Field(Space[1], 1)
           v == Http!Value(h)
           s4 == s3 \o v
<1>1. MainRow(h) = s4
  BY HttpOctets, Singles DEF MainRow, Http!Name
<1>2. h.name \in STRING /\ h.upper \in BOOLEAN
  BY DEF Http!Line
<1>3. w \in RowOctet
  BY <1>2, RowOctets
<1> HIDE DEF w
<1>4. v \in Seq(RowOctet)
  BY ValueTyped DEF ValueIs
<1> HIDE DEF v
<1>5. s1 \in Seq(RowOctet) /\ Len(s1) = 2 /\ s1[1] = w /\ s1[2] = Inside
  BY <1>3, RowMarks, ShortFields, Zenon
<1> HIDE DEF s1
<1> DEFINE colon == Colon[1]
           space == Space[1]
<1>6. colon \in RowOctet /\ space \in RowOctet
  BY RowMarks
<1> HIDE DEF colon, space
<1>7. s2 \in Seq(RowOctet) /\ Len(s2) = 3 /\ s2[1] = w /\ s2[2] = Inside /\ s2[3] = colon
  <2>1. WithField(s2, RowOctet, s1, colon, 1)
    BY <1>5, <1>6, RowMarks, FieldsJoined, Zenon DEF colon
  <2> HIDE DEF s2
  <2> QED BY <2>1, <1>5 DEF WithField
<1> HIDE DEF s2
<1>8. s3 \in Seq(RowOctet) /\ Len(s3) = 4 /\ s3[1] = w /\ s3[2] = Inside /\ s3[3] = colon /\ s3[4] = space
  <2>1. WithField(s3, RowOctet, s2, space, 1)
    BY <1>6, <1>7, RowMarks, FieldsJoined, Zenon DEF space
  <2> HIDE DEF s3
  <2> QED BY <2>1, <1>7 DEF WithField
<1> HIDE DEF s3
<1>9. IsJoin(s4, RowOctet, s3, v)
  BY <1>4, <1>8, Joined
<1> HIDE DEF s4
<1>10. /\ s4 \in Seq(RowOctet) /\ Len(s4) = 4 + Len(v) /\ s4[1] = w /\ s4[2] = Inside /\ s4[3] = colon
       /\ s4[4] = space
  BY <1>4, <1>8, <1>9 DEF IsJoin
<1>11. \A j \in 1 .. Len(v) : s4[4 + j] = v[j]
  BY <1>8, <1>9 DEF IsJoin
<1>12. MainIs(s4, h)
  BY <1>10, <1>11 DEF MainIs, w, v, colon, space
<1> QED BY <1>1, <1>12

LEMMA FoldTyped == ASSUME NEW h \in Http!Line PROVE FoldIs(FoldRow(h), h)
<1> DEFINE w == [word |-> "more"]
           u == [word |-> "still"]
           s1 == Space
           s2 == s1 \o Field(w, 2)
           s3 == s2 \o Field(Colon[1], 1)
           s4 == s3 \o Field(u, 2)
<1>1. FoldRow(h) = IF h.folded = "plain" THEN s2 ELSE s4
  BY Singles DEF FoldRow
<1>2. w \in RowOctet /\ u \in RowOctet
  BY RowOctets
<1> HIDE DEF w, u
<1> DEFINE colon == Colon[1]
           space == Space[1]
<1>3. colon \in RowOctet /\ space \in RowOctet /\ Inside \in RowOctet
  BY RowMarks
<1>4. s1 \in Seq(RowOctet) /\ Len(s1) = 1 /\ s1[1] = space
  BY RowMarks
<1> HIDE DEF colon, space, s1
<1>5. s2 \in Seq(RowOctet) /\ Len(s2) = 3 /\ s2[1] = space /\ s2[2] = w /\ s2[3] = Inside
  <2>1. WithField(s2, RowOctet, s1, w, 2)
    BY <1>2, <1>3, <1>4, FieldsJoined, Zenon
  <2> HIDE DEF s2
  <2>2. 2 \in 2 .. 2 /\ 1 + 2 = 3
    OBVIOUS
  <2>3. \A j \in 2 .. 2 : s2[1 + j] = Inside
    BY <2>1, <1>4 DEF WithField
  <2>4. s2[3] = Inside
    BY <2>2, <2>3
  <2> QED BY <2>1, <2>4, <1>4 DEF WithField
<1> HIDE DEF s2
<1>6. /\ s3 \in Seq(RowOctet) /\ Len(s3) = 4 /\ s3[1] = space /\ s3[2] = w /\ s3[3] = Inside
      /\ s3[4] = colon
  <2>1. WithField(s3, RowOctet, s2, colon, 1)
    BY <1>3, <1>5, FieldsJoined, Zenon DEF colon
  <2> HIDE DEF s3
  <2> QED BY <2>1, <1>5 DEF WithField
<1> HIDE DEF s3
<1>7. /\ s4 \in Seq(RowOctet) /\ Len(s4) = 6 /\ s4[1] = space /\ s4[2] = w /\ s4[3] = Inside
      /\ s4[4] = colon /\ s4[5] = u /\ s4[6] = Inside
  <2>1. WithField(s4, RowOctet, s3, u, 2)
    BY <1>2, <1>3, <1>6, FieldsJoined, Zenon
  <2> HIDE DEF s4
  <2>2. 2 \in 2 .. 2 /\ 4 + 2 = 6
    OBVIOUS
  <2>3. \A j \in 2 .. 2 : s4[4 + j] = Inside
    BY <2>1, <1>6 DEF WithField
  <2>4. s4[6] = Inside
    BY <2>2, <2>3
  <2> QED BY <2>1, <2>4, <1>6 DEF WithField
<1> HIDE DEF s4
<1>8. CASE h.folded = "plain"
  <2>1. FoldIs(s2, h)
    BY <1>5, <1>8 DEF FoldIs, space, w
  <2> QED BY <1>1, <1>8, <2>1
<1>9. CASE h.folded # "plain"
  <2>1. FoldIs(s4, h)
    BY <1>7, <1>9 DEF FoldIs, space, w, u, colon
  <2> QED BY <1>1, <1>9, <2>1
<1> QED BY <1>8, <1>9

HeaderParts == [i \in 1 .. Len(headers) |-> RowsOf(headers[i])]
HeaderRows == FlattenSeq(HeaderParts)
\* The place of each header line among the rows.
HeadersAt(main, rows) ==
  /\ rows \in Seq(Seq(RowOctet)) /\ main \in [1 .. Len(headers) -> 1 .. Len(rows)]
  /\ \A i, j \in 1 .. Len(headers) : i < j => main[i] < main[j]
  /\ \A i \in 1 .. Len(headers) : rows[main[i]] = MainRow(headers[i])
  /\ \A k \in 1 .. Len(rows) :
       \/ \E i \in 1 .. Len(headers) : k = main[i]
       \/ \E i \in 1 .. Len(headers) : headers[i].folded # "no" /\ rows[k] = FoldRow(headers[i])
  /\ \A i \in 1 .. Len(headers) :
       headers[i].folded # "no" => \E k \in 1 .. Len(rows) : rows[k] = FoldRow(headers[i])

LEMMA RowsOfLine ==
  ASSUME NEW h \in Http!Line
  PROVE  /\ RowsOf(h) \in Seq(Seq(RowOctet)) /\ Len(RowsOf(h)) \in {1, 2} /\ RowsOf(h)[1] = MainRow(h)
         /\ Len(RowsOf(h)) = 2 <=> h.folded # "no"
         /\ Len(RowsOf(h)) = 2 => RowsOf(h)[2] = FoldRow(h)
<1>1. MainRow(h) \in Seq(RowOctet) /\ FoldRow(h) \in Seq(RowOctet)
  BY MainTyped, FoldTyped DEF MainIs, FoldIs
<1> DEFINE m == MainRow(h)
           f == FoldRow(h)
           T == Seq(RowOctet)
<1>2. m \in T /\ f \in T
  BY <1>1
<1>3. RowsOf(h) = IF h.folded = "no" THEN <<m>> ELSE <<m, f>>
  BY DEF RowsOf
<1> HIDE DEF m, f, T
<1>4. <<m>> \in Seq(T) /\ Len(<<m>>) = 1 /\ <<m>>[1] = m
  BY <1>2
<1>5. <<m, f>> \in Seq(T) /\ Len(<<m, f>>) = 2 /\ <<m, f>>[1] = m /\ <<m, f>>[2] = f
  BY <1>2
<1>6. 1 # 2
  OBVIOUS
<1> QED BY <1>3, <1>4, <1>5, <1>6, Zenon DEF m, f, T

LEMMA HeaderLine == ASSUME Http!TypeOK PROVE headers \in Seq(Http!Line)
  BY HttpAssumption, SeqMonotonic DEF Http!TypeOK

LEMMA HeadersPlaced ==
  ASSUME Http!TypeOK
  PROVE  HeaderParts \in Seq(Seq(Seq(RowOctet))) /\ Len(HeaderParts) = Len(headers)
         /\ \E main : HeadersAt(main, HeaderRows)
<1> DEFINE N == Len(headers)
           p == HeaderParts
           T == Seq(RowOctet)
<1>1. headers \in Seq(Http!Line) /\ N \in Nat
  BY HeaderLine
<1>2. \A i \in 1 .. N : headers[i] \in Http!Line
  BY <1>1
<1>3. p \in Seq(Seq(T)) /\ Len(p) = N /\ \A i \in 1 .. N : p[i] = RowsOf(headers[i])
  <2>1. \A i \in 1 .. N : RowsOf(headers[i]) \in Seq(T)
    BY <1>2, RowsOfLine
  <2> QED BY <1>1, <2>1 DEF HeaderParts
<1>4. HeaderRows \in Seq(T) /\ \E at : PiecesAt(at, p, HeaderRows)
  BY <1>3, FlattenPieces DEF HeaderRows
<1> DEFINE rows == HeaderRows
<1>5. rows \in Seq(T) /\ \E at : PiecesAt(at, p, rows)
  BY <1>4
<1> HIDE DEF p, T, rows
<1>6. PICK at : PiecesAt(at, p, rows)
  BY <1>5
<1>7. \A i, j \in 0 .. N : i <= j => at[i] <= at[j]
  BY <1>3, <1>5, <1>6, PiecesInOrder
<1>8. \A i \in 0 .. N : at[i] \in Nat
  BY <1>3, <1>6 DEF PiecesAt
<1>9. at[N] = Len(rows)
  BY <1>3, <1>6 DEF PiecesAt
<1>10. \A i \in 1 .. N : Len(p[i]) \in {1, 2} /\ p[i][1] = MainRow(headers[i])
                         /\ (Len(p[i]) = 2 <=> headers[i].folded # "no")
                         /\ (Len(p[i]) = 2 => p[i][2] = FoldRow(headers[i]))
  BY <1>2, <1>3, RowsOfLine
<1>11. \A i \in 1 .. N : at[i] = at[i - 1] + Len(p[i])
                         /\ \A j \in 1 .. Len(p[i]) : rows[at[i - 1] + j] = p[i][j]
  BY <1>3, <1>6 DEF PiecesAt
<1> DEFINE main == [i \in 1 .. N |-> at[i - 1] + 1]
<1>12. \A i \in 1 .. N : i - 1 \in 0 .. N /\ i \in 0 .. N /\ N \in 0 .. N
  BY <1>1
<1>13. \A i \in 1 .. N : at[i - 1] + 1 \in 1 .. Len(rows)
  <2>1. TAKE i \in 1 .. N
  <2>2. at[i] <= at[N] /\ at[i - 1] \in Nat /\ at[i] \in Nat /\ at[N] \in Nat
    BY <1>7, <1>8, <1>12
  <2>3. at[i] = at[i - 1] + Len(p[i]) /\ Len(p[i]) \in {1, 2}
    BY <1>10, <1>11
  <2>4. PICK a \in Nat, b \in Nat, c \in Nat : a = at[i - 1] /\ b = at[i] /\ c = at[N]
    BY <2>2
  <2>5. b = a + 1 \/ b = a + 2
    BY <2>3, <2>4
  <2>6. b <= c
    BY <2>2, <2>4
  <2>7. a + 1 \in 1 .. c
    BY <2>5, <2>6
  <2> QED BY <2>4, <2>7, <1>9
<1>14. main \in [1 .. N -> 1 .. Len(rows)]
  BY <1>13
<1>15. \A i \in 1 .. N : main[i] = at[i - 1] + 1
  OBVIOUS
<1> HIDE DEF main
<1>16. ASSUME NEW i \in 1 .. N, NEW j \in 1 .. N, i < j PROVE main[i] < main[j]
  <2>1. i <= j - 1 /\ j - 1 \in 0 .. N /\ i \in 0 .. N
    BY <1>1, <1>16
  <2>2. at[i] <= at[j - 1] /\ at[i] \in Nat /\ at[j - 1] \in Nat /\ at[i - 1] \in Nat
    BY <2>1, <1>7, <1>8, <1>12
  <2>3. at[i] = at[i - 1] + Len(p[i]) /\ Len(p[i]) \in {1, 2}
    BY <1>10, <1>11
  <2>4. PICK a \in Nat, b \in Nat, c \in Nat : a = at[i - 1] /\ b = at[i] /\ c = at[j - 1]
    BY <2>2
  <2>5. b = a + 1 \/ b = a + 2
    BY <2>3, <2>4
  <2>6. b <= c
    BY <2>2, <2>4
  <2>7. main[i] = a + 1 /\ main[j] = c + 1
    BY <2>4, <1>15
  <2> QED BY <2>5, <2>6, <2>7
<1>17. ASSUME NEW i \in 1 .. N PROVE rows[main[i]] = MainRow(headers[i])
  <2>1. 1 \in 1 .. Len(p[i])
    BY <1>10
  <2> QED BY <2>1, <1>10, <1>11, <1>15
<1>18. ASSUME NEW k \in 1 .. Len(rows)
       PROVE  \/ \E i \in 1 .. N : k = main[i]
              \/ \E i \in 1 .. N : headers[i].folded # "no" /\ rows[k] = FoldRow(headers[i])
  <2>1. InPiece(k, at, p, rows)
    BY <1>3, <1>5, <1>6, PiecesCover
  <2>2. PICK i \in 1 .. N : \E j \in 1 .. Len(p[i]) : k = at[i - 1] + j /\ rows[k] = p[i][j]
    BY <2>1, <1>3 DEF InPiece
  <2>3. PICK j \in 1 .. Len(p[i]) : k = at[i - 1] + j /\ rows[k] = p[i][j]
    BY <2>2
  <2>4. CASE j = 1
    BY <2>3, <2>4, <1>15
  <2>5. CASE j # 1
    <3>2. Len(p[i]) \in {1, 2} /\ j \in 1 .. Len(p[i])
      BY <1>10
    <3>3. PICK l \in Nat : l = Len(p[i])
      BY <3>2
    <3>4. j \in 1 .. l /\ (l = 1 \/ l = 2)
      BY <3>2, <3>3
    <3>5. j = 2 /\ l = 2
      BY <2>5, <3>4
    <3>1. j = 2 /\ Len(p[i]) = 2
      BY <3>3, <3>5
    <3> QED BY <3>1, <2>3, <1>10
  <2> QED BY <2>4, <2>5
<1>19. ASSUME NEW i \in 1 .. N, headers[i].folded # "no"
       PROVE  \E k \in 1 .. Len(rows) : rows[k] = FoldRow(headers[i])
  <2>1. Len(p[i]) = 2 /\ p[i][2] = FoldRow(headers[i])
    BY <1>10, <1>19
  <2>2. 2 \in 1 .. Len(p[i])
    BY <2>1
  <2>3. rows[at[i - 1] + 2] = FoldRow(headers[i])
    BY <2>1, <2>2, <1>11
  <2>4. at[i] <= at[N] /\ at[i - 1] \in Nat /\ at[i] \in Nat
    BY <1>7, <1>8, <1>12
  <2>5. at[i] = at[i - 1] + 2
    BY <2>1, <1>11
  <2>6. at[i - 1] + 2 \in 1 .. Len(rows)
    BY <2>4, <2>5, <1>9
  <2> QED BY <2>3, <2>6
<1>20. HeadersAt(main, rows)
  BY <1>5, <1>14, <1>16, <1>17, <1>18, <1>19 DEF HeadersAt, T
<1> QED BY <1>3, <1>20 DEF p, rows, T

HeaderOctets(h) == Http!Name(h) \o Colon \o Space \o Http!Value(h) \o Http!Fold(h) \o NewLine

LEMMA LineInRows ==
  ASSUME NEW h \in Http!Line
  PROVE  HeaderOctets(h) = FlattenSeq(Ended(RowsOf(h), NewLine))
<1> DEFINE m == MainRow(h)
           w == Field([word |-> "more"], 2)
           u == Field([word |-> "still"], 2)
           nl == NewLine
           sp == Space
           co == Colon
           S == AnyOctet
<1>1. nl \in Seq(S)
  BY Separators
<1>2. Http!Fold(h) = IF h.folded = "no" THEN << >> ELSE IF h.folded = "plain" THEN (nl \o sp) \o w
                     ELSE (((nl \o sp) \o w) \o co) \o u
  BY HttpOctets DEF Http!Fold, Http!Line
<1>3. FoldRow(h) = IF h.folded = "plain" THEN sp \o w ELSE ((sp \o w) \o co) \o u
  BY DEF FoldRow
<1>4. RowOctet \subseteq AnyOctet
  BY OctetsApart
<1>5. m \in Seq(S) /\ FoldRow(h) \in Seq(S) /\ sp \in Seq(S)
  <2>1. Seq(RowOctet) \subseteq Seq(AnyOctet)
    BY <1>4, SeqMonotonic
  <2> QED BY <2>1, MainTyped, FoldTyped, RowMarks DEF MainIs, FoldIs
<1>6. w \in Seq(S) /\ u \in Seq(S) /\ co \in Seq(S)
  <2>1. /\ [word |-> "more"] \in RowOctet /\ [word |-> "still"] \in RowOctet /\ Inside \in RowOctet
        /\ Colon[1] \in RowOctet
    BY RowOctets
  <2>2. w \in Seq(RowOctet) /\ u \in Seq(RowOctet) /\ Field(Colon[1], 1) \in Seq(RowOctet)
    BY <2>1, ShortFields, Zenon
  <2>3. Seq(RowOctet) \subseteq Seq(AnyOctet)
    BY <1>4, SeqMonotonic
  <2> QED BY <2>2, <2>3, Singles
<1> DEFINE f == FoldRow(h)
<1>7. h.folded # "no" => Http!Fold(h) = nl \o f
  <2> HIDE DEF nl, sp, co, w, u, S
  <2>1. (nl \o sp) \o w = nl \o (sp \o w)
    BY <1>1, <1>5, <1>6, ConcatAssociative, SMTT(30)
  <2>2. (((nl \o sp) \o w) \o co) \o u = nl \o (((sp \o w) \o co) \o u)
    <3> DEFINE a == sp \o w
               b == a \o co
    <3>1. a \in Seq(S) /\ b \in Seq(S)
      BY <1>5, <1>6
    <3>2. (nl \o a) \o co = nl \o b
      <4> HIDE DEF a
      <4> QED BY <1>1, <1>6, <3>1, ConcatAssociative, SMTT(30)
    <3>3. (nl \o b) \o u = nl \o (b \o u)
      <4> HIDE DEF b
      <4> QED BY <1>1, <1>6, <3>1, ConcatAssociative, SMTT(30)
    <3> QED BY <2>1, <3>2, <3>3, Zenon
  <2> QED BY <1>2, <1>3, <2>1, <2>2, Zenon
<1>8. HeaderOctets(h) = (m \o Http!Fold(h)) \o nl
  BY DEF HeaderOctets, MainRow
<1>9. CASE h.folded = "no"
  <2>1. Http!Fold(h) = << >> /\ RowsOf(h) = <<m>>
    BY <1>2, <1>9 DEF RowsOf
  <2> HIDE DEF m, nl
  <2>2. m \o << >> = m
    BY <1>5
  <2>5. m \in Seq(S) /\ nl \in Seq(S)
    BY <1>1, <1>5
  <2>6. Ended(<<m>>, nl) = <<m \o nl>>
    BY <2>5, EndedOne
  <2>7. m \o nl \in Seq(S)
    BY <2>5
  <2>3. Ended(<<m>>, nl) = <<m \o nl>> /\ m \o nl \in Seq(S)
    BY <2>6, <2>7
  <2>4. FlattenSeq(<<m \o nl>>) = m \o nl
    BY <2>3, FlattenOne
  <2> QED BY <1>8, <2>1, <2>2, <2>3, <2>4, Zenon DEF nl
<1>10. CASE h.folded # "no"
  <2>1. Http!Fold(h) = nl \o f /\ RowsOf(h) = <<m, f>>
    BY <1>7, <1>10 DEF RowsOf
  <2> HIDE DEF m, nl, f, S
  <2>2. m \o (nl \o f) = (m \o nl) \o f
    BY SMTT(30), <1>1, <1>5, ConcatAssociative DEF f
  <2>3. ((m \o nl) \o f) \o nl = (m \o nl) \o (f \o nl)
    <3>1. m \o nl \in Seq(S) /\ f \in Seq(S)
      BY <1>1, <1>5 DEF f
    <3> QED BY SMTT(30), <3>1, <1>1, ConcatAssociative
  <2>4. <<m, f>> = <<m>> \o <<f>> /\ <<m>> \in Seq(Seq(S)) /\ <<f>> \in Seq(Seq(S))
    BY <1>5 DEF f
  <2>5. Ended(<<m>> \o <<f>>, nl) = Ended(<<m>>, nl) \o Ended(<<f>>, nl)
    <3> DEFINE pm == <<m>>
               pf == <<f>>
    <3>1. pm \in Seq(Seq(S)) /\ pf \in Seq(Seq(S))
      BY <2>4
    <3> HIDE DEF pm, pf
    <3>2. Ended(pm \o pf, nl) = Ended(pm, nl) \o Ended(pf, nl)
      BY <1>1, <3>1, EndedConcat
    <3> QED BY <3>2, Zenon DEF pm, pf
  <2>6. Ended(<<m>>, nl) = <<m \o nl>> /\ Ended(<<f>>, nl) = <<f \o nl>>
    BY <1>1, <1>5, EndedOne DEF f
  <2>7. m \o nl \in Seq(S) /\ f \o nl \in Seq(S)
    BY <1>1, <1>5 DEF f
  <2>8. FlattenSeq(<<m \o nl>> \o <<f \o nl>>) = (m \o nl) \o (f \o nl)
    <3> DEFINE a == m \o nl
               b == f \o nl
               pa == <<a>>
               pb == <<b>>
    <3>0. a \in Seq(S) /\ b \in Seq(S)
      BY <2>7
    <3> HIDE DEF a, b
    <3>4. FlattenSeq(pa) = a /\ FlattenSeq(pb) = b
      BY <3>0, FlattenOne
    <3>5. pa \in Seq(Seq(S)) /\ pb \in Seq(Seq(S))
      BY <3>0
    <3>1. pa \in Seq(Seq(S)) /\ pb \in Seq(Seq(S)) /\ FlattenSeq(pa) = a /\ FlattenSeq(pb) = b
      BY <3>4, <3>5
    <3> HIDE DEF pa, pb
    <3>2. FlattenSeq(pa \o pb) = FlattenSeq(pa) \o FlattenSeq(pb)
      BY <3>1, FlattenConcat
    <3> QED BY <3>1, <3>2, Zenon DEF pa, pb, a, b
  <2> QED BY <1>8, <2>1, <2>2, <2>3, <2>4, <2>5, <2>6, <2>8, Zenon DEF nl
<1> QED BY <1>9, <1>10

FlatOfTwo(a, b, sep) ==
  FlattenSeq(Ended(a \o b, sep)) = FlattenSeq(Ended(a, sep)) \o FlattenSeq(Ended(b, sep))
LEMMA EndedTwo ==
  ASSUME NEW S, NEW a \in Seq(Seq(S)), NEW b \in Seq(Seq(S)), NEW sep \in Seq(S)
  PROVE  FlatOfTwo(a, b, sep)
<1> DEFINE ea == Ended(a, sep)
           eb == Ended(b, sep)
<1>1. Ended(a \o b, sep) = ea \o eb
  BY EndedConcat
<1>2. ea \in Seq(Seq(S)) /\ eb \in Seq(Seq(S))
  BY EndedTyped
<1> HIDE DEF ea, eb
<1>3. FlattenSeq(ea \o eb) = FlattenSeq(ea) \o FlattenSeq(eb)
  BY <1>2, FlattenConcat
<1> QED BY <1>1, <1>3, Zenon DEF FlatOfTwo, ea, eb

LEMMA EndedSingle ==
  ASSUME NEW S, NEW r \in Seq(S), NEW sep \in Seq(S)
  PROVE  FlattenSeq(Ended(<<r>>, sep)) = r \o sep
<1> DEFINE x == r \o sep
<1>3. Ended(<<r>>, sep) = <<x>>
  BY EndedOne
<1>4. x \in Seq(S)
  OBVIOUS
<1>1. Ended(<<r>>, sep) = <<x>> /\ x \in Seq(S)
  BY <1>3, <1>4
<1> HIDE DEF x
<1>2. FlattenSeq(<<x>>) = x
  BY <1>1, FlattenOne
<1> QED BY <1>1, <1>2 DEF x

LEMMA HeaderLinesAre == ASSUME Http!TypeOK PROVE Http!HeaderLines = FlattenSeq(Ended(HeaderRows, NewLine))
<1> DEFINE nl == NewLine
           f == [i \in DOMAIN headers |-> HeaderOctets(headers[i])]
<1>1. Http!HeaderLines = FlattenSeq(f)
  BY HttpOctets DEF Http!HeaderLines, HeaderOctets
<1>2. HeaderParts \in Seq(Seq(Seq(RowOctet))) /\ Len(HeaderParts) = Len(headers)
  BY HeadersPlaced
<1>3. HeaderParts \in Seq(Seq(Seq(AnyOctet)))
  <2>1. RowOctet \subseteq AnyOctet
    BY OctetsApart
  <2>2. Seq(RowOctet) \subseteq Seq(AnyOctet)
    BY <2>1, SeqMonotonic
  <2>3. Seq(Seq(RowOctet)) \subseteq Seq(Seq(AnyOctet))
    BY <2>2, SeqMonotonic
  <2> QED BY <1>2, <2>3, SeqMonotonic
<1>4. EndedIn(HeaderParts, nl)
  BY <1>3, Separators, EndedFlatten
<1>5. headers \in Seq(Http!Line) /\ DOMAIN headers = 1 .. Len(headers)
  BY HeaderLine
<1>6. \A i \in 1 .. Len(headers) : HeaderParts[i] = RowsOf(headers[i])
                                    /\ HeaderOctets(headers[i]) = FlattenSeq(Ended(RowsOf(headers[i]), nl))
  <2>1. \A i \in 1 .. Len(headers) : headers[i] \in Http!Line
    BY <1>5
  <2>2. \A i \in 1 .. Len(headers) : HeaderOctets(headers[i]) = FlattenSeq(Ended(RowsOf(headers[i]), nl))
    BY <2>1, LineInRows
  <2>3. \A i \in 1 .. Len(headers) : HeaderParts[i] = RowsOf(headers[i])
    BY DEF HeaderParts
  <2> QED BY <2>2, <2>3
<1>7. EndedParts(HeaderParts, nl) = f
  <2> HIDE DEF nl
  <2>1. EndedParts(HeaderParts, nl) = [i \in 1 .. Len(headers) |-> FlattenSeq(Ended(HeaderParts[i], nl))]
    BY <1>2 DEF EndedParts
  <2>2. \A i \in 1 .. Len(headers) : FlattenSeq(Ended(HeaderParts[i], nl)) = HeaderOctets(headers[i])
    BY <1>6
  <2> QED BY <2>1, <2>2, <1>5
<1> HIDE DEF f, nl
<1> QED BY <1>1, <1>4, <1>7, Zenon DEF EndedIn, HeaderRows, nl

TopRows == <<Http!StartLine>> \o HeaderRows
EmptyRow == <<>>
HeadRows == TopRows \o <<EmptyRow>>
InRows(message, brows, tail) == message = Lined(HeadRows \o brows, NewLine, tail)
LEMMA HeadTyped ==
  ASSUME Http!TypeOK
  PROVE  /\ StartIs(Http!StartLine) /\ Http!StartLine \in Seq(RowOctet) /\ HeaderRows \in Seq(Seq(RowOctet))
         /\ TopRows \in Seq(Seq(RowOctet)) /\ HeadRows \in Seq(Seq(RowOctet))
         /\ Len(TopRows) = 1 + Len(HeaderRows) /\ Len(HeadRows) = 2 + Len(HeaderRows)
         /\ HeadRows[1] = Http!StartLine
         /\ \A k \in 1 .. Len(HeaderRows) : HeadRows[1 + k] = HeaderRows[k]
         /\ HeadRows[2 + Len(HeaderRows)] = << >>
<1> DEFINE sl == Http!StartLine
           T == Seq(RowOctet)
           first == <<sl>>
           last == <<EmptyRow>>
<1>1. StartIs(sl)
  BY ResponseStarts, RequestStarts
<1>2. sl \in T
  BY <1>1 DEF StartIs
<1>3. EmptyRow \in T
  BY DEF EmptyRow
<1>4. HeaderRows \in Seq(T)
  BY HeadersPlaced DEF HeadersAt
<1> HIDE DEF sl, T
<1>5. first \in Seq(T) /\ Len(first) = 1 /\ first[1] = sl /\ last \in Seq(T) /\ Len(last) = 1 /\ last[1] = EmptyRow
  BY <1>2, <1>3
<1> HIDE DEF first, last
<1> DEFINE top == first \o HeaderRows
           rows == top \o last
<1>6. IsJoin(top, T, first, HeaderRows)
  BY <1>4, <1>5, Joined
<1> HIDE DEF top
<1>7. top \in Seq(T) /\ Len(top) = 1 + Len(HeaderRows) /\ top[1] = sl
      /\ \A k \in 1 .. Len(HeaderRows) : top[1 + k] = HeaderRows[k]
  BY <1>5, <1>6 DEF IsJoin
<1>8. IsJoin(rows, T, top, last)
  BY <1>5, <1>7, Joined
<1> HIDE DEF rows
<1>9. rows \in Seq(T) /\ Len(rows) = Len(top) + 1 /\ (\A k \in 1 .. Len(top) : rows[k] = top[k]) /\ rows[Len(top) + 1] = EmptyRow
  BY <1>5, <1>8 DEF IsJoin
<1>10. Len(HeaderRows) \in Nat
  BY <1>4
<1>11. rows[1] = sl
  BY <1>7, <1>9, <1>10
<1>12. \A k \in 1 .. Len(HeaderRows) : rows[1 + k] = HeaderRows[k]
  <2>1. \A k \in 1 .. Len(HeaderRows) : 1 + k \in 1 .. 1 + Len(HeaderRows)
    BY <1>10
  <2> QED BY <2>1, <1>7, <1>9
<1>13. Len(rows) = 2 + Len(HeaderRows) /\ rows[2 + Len(HeaderRows)] = EmptyRow
  <2>1. (1 + Len(HeaderRows)) + 1 = 2 + Len(HeaderRows)
    BY <1>10
  <2> QED BY <2>1, <1>7, <1>9
<1>14. TopRows = top /\ HeadRows = rows
  BY Zenon DEF TopRows, HeadRows, top, rows, first, last, sl
<1>15. EmptyRow = << >>
  BY DEF EmptyRow
<1> QED BY <1>1, <1>2, <1>4, <1>7, <1>9, <1>11, <1>12, <1>13, <1>14, <1>15, Zenon DEF sl, T

LEMMA MessageInRows ==
  ASSUME Http!TypeOK, NEW brows, NEW tail, BodyRows(content, brows, tail)
  PROVE  InRows(Http!Message, brows, tail)
<1> DEFINE sl == Http!StartLine
           hl == Http!HeaderLines
           nl == NewLine
           b == BodyOf(content, NewLine)
           S == AnyOctet
           sle == <<sl>>
           em == <<EmptyRow>>
<1>1. Http!Message = (((sl \o nl) \o hl) \o nl) \o b
  <2>1. content \in Seq(Http!Piece)
    BY DEF Http!TypeOK
  <2>2. Http!BodyWith(Http!NewLine) = b
    BY <2>1, BodyIs, HttpOctets
  <2> QED BY <2>2, HttpOctets DEF Http!Message
<1>2. Seq(Seq(RowOctet)) \subseteq Seq(Seq(S))
  <2>1. RowOctet \subseteq AnyOctet
    BY OctetsApart
  <2>2. Seq(RowOctet) \subseteq Seq(AnyOctet)
    BY <2>1, SeqMonotonic
  <2> QED BY <2>2, SeqMonotonic
<1>3. sl \in Seq(S)
  BY HeadTyped, OctetsApart, SeqMonotonic
<1>4. HeaderRows \in Seq(Seq(S)) /\ TopRows \in Seq(Seq(S)) /\ HeadRows \in Seq(Seq(S))
  BY <1>2, HeadTyped
<1>5. brows \in Seq(Seq(S)) /\ tail \in Seq(S) /\ b = Lined(brows, nl, tail)
  BY CharRowsTyped DEF BodyRows
<1>6. nl \in Seq(S) /\ hl = FlattenSeq(Ended(HeaderRows, nl))
  BY Separators, HeaderLinesAre
<1>7. EmptyRow \in Seq(S)
  BY DEF EmptyRow
<1>8. TopRows = sle \o HeaderRows /\ HeadRows = TopRows \o em
  BY DEF TopRows, HeadRows
<1> HIDE DEF sl, hl, nl, b, S
<1>9. sle \in Seq(Seq(S)) /\ em \in Seq(Seq(S))
  BY <1>3, <1>7
<1>10. FlattenSeq(Ended(sle, nl)) = sl \o nl
  BY <1>3, <1>6, EndedSingle
<1>11. FlattenSeq(Ended(em, nl)) = nl
  <2>1. FlattenSeq(Ended(em, nl)) = EmptyRow \o nl
    BY <1>6, <1>7, EndedSingle
  <2>2. EmptyRow \o nl = nl
    BY <1>6 DEF EmptyRow
  <2> QED BY <2>1, <2>2
<1> HIDE DEF sle, em
<1>12. FlatOfTwo(sle, HeaderRows, nl) /\ FlatOfTwo(TopRows, em, nl)
  BY <1>4, <1>6, <1>9, EndedTwo
<1>13. FlattenSeq(Ended(HeadRows, nl)) = ((sl \o nl) \o hl) \o nl
  BY <1>6, <1>8, <1>10, <1>11, <1>12, Zenon DEF FlatOfTwo
<1>14. LinedOfTwo(HeadRows, brows, nl, tail)
  BY <1>4, <1>5, <1>6, LinedConcat
<1> QED BY <1>1, <1>5, <1>13, <1>14, Zenon DEF LinedOfTwo, InRows, nl

(***************************************************************************)
(* What segments behind the first hold of a message.                       *)
(***************************************************************************)
\* What is behind the first line.
After == NewLine \o (Http!HeaderLines \o (NewLine \o BodyOf(content, NewLine)))

LEMMA OfRows ==
  /\ Seq(RowOctet) \subseteq Seq(HttpOctet) /\ Seq(CharOctet) \subseteq Seq(HttpOctet)
  /\ Seq(HttpOctet) \subseteq Seq(AnyOctet)
  /\ Seq(Seq(RowOctet)) \subseteq Seq(Seq(HttpOctet)) /\ Seq(Seq(CharOctet)) \subseteq Seq(Seq(HttpOctet))
  /\ Seq(Seq(HttpOctet)) \subseteq Seq(Seq(AnyOctet))
<1>1. RowOctet \subseteq HttpOctet /\ CharOctet \subseteq HttpOctet /\ HttpOctet \subseteq AnyOctet
  BY OctetsApart
<1>2. /\ Seq(RowOctet) \subseteq Seq(HttpOctet) /\ Seq(CharOctet) \subseteq Seq(HttpOctet)
      /\ Seq(HttpOctet) \subseteq Seq(AnyOctet)
  BY <1>1, SeqMonotonic
<1> QED BY <1>2, SeqMonotonic

LEMMA BehindStart ==
  ASSUME Http!TypeOK
  PROVE  /\ Http!Message = Http!StartLine \o After /\ After \in Seq(AnyOctet) /\ Http!StartLine \in Seq(AnyOctet)
         /\ Http!HeaderLines \in Seq(AnyOctet) /\ BodyOf(content, NewLine) \in Seq(AnyOctet)
<1> DEFINE sl == Http!StartLine
           hl == Http!HeaderLines
           nl == NewLine
           b == BodyOf(content, NewLine)
           S == AnyOctet
<1>1. Http!Message = (((sl \o nl) \o hl) \o nl) \o b
  <2>1. content \in Seq(Http!Piece)
    BY DEF Http!TypeOK
  <2>2. Http!BodyWith(Http!NewLine) = b
    BY <2>1, BodyIs, HttpOctets
  <2> QED BY <2>2, HttpOctets DEF Http!Message
<1>2. sl \in Seq(S)
  BY HeadTyped, OfRows
<1>3. hl \in Seq(S)
  <2>1. HeaderRows \in Seq(Seq(S))
    BY HeadTyped, OfRows
  <2>2. FlattenSeq(Ended(HeaderRows, nl)) \in Seq(S)
    <3>1. \E x : x \in Seq(S)
      BY Separators
    <3> QED BY <2>1, <3>1, Separators, LinedTyped
  <2> QED BY <2>2, HeaderLinesAre
<1>4. b \in Seq(S)
  <2>1. content \in Seq(Http!Piece)
    BY DEF Http!TypeOK
  <2>2. PICK brows, tail : BodyRows(content, brows, tail)
    BY <2>1, BodyInRows
  <2>3. brows \in Seq(Seq(S)) /\ tail \in Seq(S) /\ b = Lined(brows, nl, tail)
    BY <2>2, CharRowsTyped DEF BodyRows
  <2> QED BY <2>3, Separators, LinedTyped
<1>5. nl \in Seq(S)
  BY Separators
<1> HIDE DEF sl, hl, nl, b, S
<1> DEFINE nb == nl \o b
           hb == hl \o nb
           a == nl \o hb
<1>6. nb \in Seq(S)
  BY <1>4, <1>5
<1>7. ((sl \o nl) \o hl) \o nb = (((sl \o nl) \o hl) \o nl) \o b
  <2> DEFINE x == (sl \o nl) \o hl
  <2>1. x \in Seq(S)
    <3>1. sl \o nl \in Seq(S)
      BY <1>2, <1>5
    <3> QED BY <3>1, <1>3
  <2> HIDE DEF x
  <2>2. (x \o nl) \o b = x \o (nl \o b)
    BY <2>1, <1>4, <1>5, ConcatAssociative
  <2> QED BY <2>2, Zenon DEF x
<1> HIDE DEF nb
<1>8. hb \in Seq(S)
  BY <1>3, <1>6
<1>9. ((sl \o nl) \o hl) \o nb = (sl \o nl) \o hb
  <2> DEFINE x == sl \o nl
  <2>1. x \in Seq(S)
    BY <1>2, <1>5
  <2> HIDE DEF x
  <2> QED BY <2>1, <1>3, <1>6, ConcatAssociative, SMTT(30) DEF x
<1> HIDE DEF hb
<1>10. (sl \o nl) \o hb = sl \o a
  BY SMTT(30), <1>2, <1>5, <1>8, ConcatAssociative
<1>11. a \in Seq(S)
  BY <1>5, <1>8
<1>12. After = a
  BY Zenon DEF After, a, hb, nb, nl, hl, b
<1> HIDE DEF a
<1> QED BY <1>1, <1>2, <1>3, <1>4, <1>7, <1>9, <1>10, <1>11, <1>12, Zenon DEF sl, S, hl, b

\* No two octets inside a field stand side by side.
Solo(t) ==
  /\ t \in Seq(AnyOctet)
  /\ Len(t) > 0 => t[1] # Inside
  /\ \A j \in 2 .. Len(t) : t[j] = Inside => t[j - 1] # Inside
LEMMA SoloJoined == ASSUME NEW s, NEW t, Solo(s), Solo(t) PROVE Solo(s \o t)
<1> DEFINE w == s \o t
<1>1. s \in Seq(AnyOctet) /\ t \in Seq(AnyOctet)
  BY DEF Solo
<1>2. IsJoin(w, AnyOctet, s, t)
  BY <1>1, Joined
<1> HIDE DEF w
<1>3. PICK l \in Nat, m \in Nat : l = Len(s) /\ m = Len(t)
  BY <1>1
<1>4. w \in Seq(AnyOctet) /\ Len(w) = l + m /\ (\A j \in 1 .. l : w[j] = s[j]) /\ \A j \in 1 .. m : w[l + j] = t[j]
  BY <1>2, <1>3 DEF IsJoin
<1>5. l > 0 => s[1] # Inside
  BY <1>3 DEF Solo
<1>6. \A j \in 2 .. l : s[j] = Inside => s[j - 1] # Inside
  BY <1>3 DEF Solo
<1>7. m > 0 => t[1] # Inside
  BY <1>3 DEF Solo
<1>8. \A j \in 2 .. m : t[j] = Inside => t[j - 1] # Inside
  BY <1>3 DEF Solo
<1>9. ASSUME l + m > 0 PROVE w[1] # Inside
  <2>1. CASE l > 0
    <3>1. 1 \in 1 .. l
      BY <2>1
    <3> QED BY <3>1, <2>1, <1>4, <1>5
  <2>2. CASE l = 0
    <3>1. 1 \in 1 .. m /\ l + 1 = 1 /\ m > 0
      BY <2>2, <1>9
    <3> QED BY <3>1, <1>4, <1>7
  <2> QED BY <2>1, <2>2
<1>10. ASSUME NEW j \in 2 .. l + m, w[j] = Inside PROVE w[j - 1] # Inside
  <2>1. CASE j <= l
    <3>1. j \in 2 .. l /\ j \in 1 .. l /\ j - 1 \in 1 .. l
      BY <2>1
    <3> QED BY <3>1, <1>4, <1>6, <1>10
  <2>2. CASE j = l + 1
    <3>1. 1 \in 1 .. m /\ m > 0
      BY <2>2
    <3>2. w[l + 1] = t[1]
      BY <3>1, <1>4
    <3> QED BY <3>1, <3>2, <2>2, <1>7, <1>10
  <2>3. CASE j > l + 1
    <3>1. PICK i \in 2 .. m : j = l + i
      <4>1. j - l \in 2 .. m /\ j = l + (j - l)
        BY <2>3
      <4> QED BY <4>1
    <3>2. i \in 1 .. m /\ i - 1 \in 1 .. m /\ j - 1 = l + (i - 1)
      BY <3>1
    <3>3. w[l + i] = t[i] /\ w[l + (i - 1)] = t[i - 1]
      BY <3>2, <1>4
    <3> QED BY <3>1, <3>2, <3>3, <1>8, <1>10
  <2> QED BY <2>1, <2>2, <2>3
<1>11. Solo(w)
  BY <1>4, <1>9, <1>10 DEF Solo
<1> QED BY <1>11 DEF w

LEMMA SoloPieces ==
  ASSUME NEW pieces, Len(pieces) \in Nat, pieces \in [1 .. Len(pieces) -> Seq(AnyOctet)],
         \A i \in 1 .. Len(pieces) : Solo(pieces[i])
  PROVE  Solo(FlattenSeq(pieces))
<1> DEFINE S == {s \in Seq(AnyOctet) : Solo(s)}
           T == {p \in Seq(S) : Solo(FlattenSeq(p))}
<1>1. << >> \in T
  <2>1. FlattenSeq(<< >>) = << >>
    BY FlattenNone
  <2>2. Solo(<< >>)
    BY DEF Solo
  <2>3. << >> \in Seq(S)
    OBVIOUS
  <2> QED BY <2>1, <2>2, <2>3
<1>2. ASSUME NEW p \in Seq(S), NEW x \in S, p \in T PROVE Append(p, x) \in T
  <2>1. p \in Seq(Seq(AnyOctet)) /\ x \in Seq(AnyOctet)
    <3>1. S \subseteq Seq(AnyOctet)
      OBVIOUS
    <3> QED BY <3>1, SeqMonotonic
  <2>2. FlattenSeq(Append(p, x)) = FlattenSeq(p) \o x
    BY <2>1, FlattenAppended
  <2>3. Solo(FlattenSeq(p)) /\ Solo(x)
    BY <1>2
  <2>4. Solo(FlattenSeq(p) \o x)
    BY <2>3, SoloJoined
  <2>5. Append(p, x) \in Seq(S)
    OBVIOUS
  <2> QED BY <2>2, <2>4, <2>5
<1>3. \A p \in Seq(S) : p \in T
  <2> HIDE DEF T, S
  <2> QED BY <1>1, <1>2, SeqInduction
<1>4. pieces \in Seq(S)
  <2>1. \A i \in 1 .. Len(pieces) : pieces[i] \in S
    OBVIOUS
  <2> HIDE DEF S
  <2>2. pieces \in [1 .. Len(pieces) -> S]
    BY <2>1
  <2> QED BY <2>2, SeqDef
<1> QED BY <1>3, <1>4

LEMMA SoloRow == ASSUME Http!TypeOK, NEW k \in 1 .. Len(HeaderRows) PROVE Solo(HeaderRows[k])
<1>1. PICK main : HeadersAt(main, HeaderRows)
  BY HeadersPlaced
<1>2. PICK i \in 1 .. Len(headers) : HeaderRows[k] = MainRow(headers[i]) \/ HeaderRows[k] = FoldRow(headers[i])
  BY <1>1 DEF HeadersAt
<1> DEFINE h == headers[i]
           v == Http!Value(h)
<1>3. h \in Http!Line
  BY HeaderLine
<1>4. Seq(RowOctet) \subseteq Seq(AnyOctet)
  BY OfRows
<1>5. /\ \A w, u : [word |-> w, upper |-> u] # Inside
      /\ \A w : [word |-> w] # Inside
      /\ Space[1] # Inside /\ Colon[1] # Inside
  <2>1. \A w, u : [word |-> w, upper |-> u] # Inside
    BY DEF Inside
  <2>2. Space[1] # Inside
    <3>1. \A m : [mark |-> m] # [inside |-> TRUE]
      <4>1. \A m : "mark" \in DOMAIN [mark |-> m]
        OBVIOUS
      <4>2. "mark" \notin DOMAIN [inside |-> TRUE]
        OBVIOUS
      <4> QED BY <4>1, <4>2
    <3>2. Space = <<[mark |-> " "]>>
      BY Marks, Zenon
    <3> QED BY <3>1, <3>2, Zenon DEF Inside
  <2> QED BY <2>1, <2>2, RowMarks
<1> HIDE DEF h
<1>6. MainIs(MainRow(h), h) /\ FoldIs(FoldRow(h), h) /\ ValueIs(v, h)
  BY <1>3, MainTyped, FoldTyped, ValueTyped
<1> HIDE DEF v
<1>7. Solo(MainRow(h))
  <2> DEFINE s == MainRow(h)
  <2>1. /\ s \in Seq(RowOctet) /\ Len(s) = 4 + Len(v) /\ s[1] # Inside /\ s[3] # Inside /\ s[4] # Inside
        /\ \A j \in 1 .. Len(v) : s[4 + j] = v[j]
    BY <1>5, <1>6 DEF MainIs, v
  <2>2. \A j \in 2 .. Len(v) : v[j] = Inside => v[j - 1] # Inside
    BY <1>6 DEF ValueIs
  <2>3. PICK l \in Nat : l = Len(v)
    BY <1>6 DEF ValueIs
  <2> HIDE DEF s
  <2>4. ASSUME NEW j \in 2 .. 4 + l, s[j] = Inside PROVE s[j - 1] # Inside
    <3>1. j = 2 \/ j = 3 \/ j = 4 \/ j = 5 \/ j > 5
      OBVIOUS
    <3>2. CASE j > 5
      <4>1. PICK i2 \in 2 .. l : j = 4 + i2
        <5>1. j - 4 \in 2 .. l /\ j = 4 + (j - 4)
          BY <3>2
        <5> QED BY <5>1
      <4>2. i2 \in 1 .. l /\ i2 - 1 \in 1 .. l /\ j - 1 = 4 + (i2 - 1)
        BY <4>1
      <4>3. s[4 + i2] = v[i2] /\ s[4 + (i2 - 1)] = v[i2 - 1]
        BY <4>2, <2>1, <2>3
      <4> QED BY <4>1, <4>2, <4>3, <2>2, <2>3, <2>4
    <3>3. 2 - 1 = 1 /\ 5 - 1 = 4
      OBVIOUS
    <3> QED BY <3>1, <3>2, <3>3, <2>1, <2>4
  <2>5. Solo(s)
    <3>1. s \in Seq(AnyOctet)
      BY <2>1, <1>4
    <3> QED BY <3>1, <2>1, <2>3, <2>4 DEF Solo
  <2> QED BY <2>5 DEF s
<1>8. Solo(FoldRow(h))
  <2> DEFINE s == FoldRow(h)
  <2>1. /\ s \in Seq(RowOctet) /\ Len(s) \in {3, 6} /\ s[1] # Inside /\ s[2] # Inside
        /\ Len(s) = 6 => s[4] # Inside /\ s[5] # Inside
    BY <1>5, <1>6 DEF FoldIs
  <2> HIDE DEF s
  <2>2. ASSUME NEW j \in 2 .. Len(s), s[j] = Inside PROVE s[j - 1] # Inside
    <3>1. CASE Len(s) = 3
      <4>1. j = 2 \/ j = 3
        BY <3>1
      <4>2. 2 - 1 = 1 /\ 3 - 1 = 2
        OBVIOUS
      <4> QED BY <4>1, <4>2, <2>1
    <3>2. CASE Len(s) = 6
      <4>1. j = 2 \/ j = 3 \/ j = 4 \/ j = 5 \/ j = 6
        BY <3>2
      <4>2. 2 - 1 = 1 /\ 3 - 1 = 2 /\ 6 - 1 = 5
        OBVIOUS
      <4> QED BY <4>1, <4>2, <3>2, <2>1, <2>2
    <3> QED BY <3>1, <3>2, <2>1
  <2>3. Solo(s)
    <3>1. s \in Seq(AnyOctet)
      BY <2>1, <1>4
    <3> QED BY <3>1, <2>1, <2>2 DEF Solo
  <2> QED BY <2>3 DEF s
<1> QED BY <1>2, <1>7, <1>8 DEF h

LEMMA LineBreak == NewLine \in Seq(AnyOctet) /\ Len(NewLine) = 2 /\ NewLine[1] = CR /\ NewLine[2] = Feed
                   /\ CR # Inside /\ Feed # Inside /\ Solo(NewLine)
<1>1. NewLine = <<CR, Feed>>
  BY Marks, Zenon DEF CR, Feed
<1>2. NewLine \in Seq(AnyOctet)
  BY Separators
<1>3. CR # Inside /\ Feed # Inside
  BY DEF CR, Feed, Inside
<1>4. Len(NewLine) = 2 /\ NewLine[1] = CR /\ NewLine[2] = Feed
  <2>1. \A x, y : Len(<<x, y>>) = 2 /\ <<x, y>>[1] = x /\ <<x, y>>[2] = y
    OBVIOUS
  <2> QED BY <1>1, <2>1, Zenon
<1>5. Solo(NewLine)
  <2>1. \A j \in 2 .. 2 : j = 2
    OBVIOUS
  <2> QED BY <2>1, <1>2, <1>3, <1>4 DEF Solo
<1> QED BY <1>2, <1>3, <1>4, <1>5

LEMMA SoloHeaders == ASSUME Http!TypeOK PROVE Solo(Http!HeaderLines)
<1> DEFINE rows == HeaderRows
           e == Ended(rows, NewLine)
<1>1. rows \in Seq(Seq(AnyOctet))
  BY HeadTyped, OfRows
<1>2. \A k \in 1 .. Len(rows) : Solo(rows[k])
  BY SoloRow
<1> HIDE DEF rows
<1>3. e \in Seq(Seq(AnyOctet)) /\ Len(e) = Len(rows) /\ \A k \in 1 .. Len(rows) : e[k] = rows[k] \o NewLine
  BY <1>1, Separators, EndedTyped
<1> HIDE DEF e
<1>4. \A k \in 1 .. Len(e) : Solo(e[k])
  BY <1>2, <1>3, LineBreak, SoloJoined
<1>5. Len(e) \in Nat /\ e \in [1 .. Len(e) -> Seq(AnyOctet)]
  BY <1>3
<1>6. Solo(FlattenSeq(e))
  BY <1>4, <1>5, SoloPieces
<1> QED BY <1>6, HeaderLinesAre DEF e, rows

\* The first e octets of what is behind the first line are the headers and the
\* empty line.
HeadingOf(a, e) ==
  /\ e \in 1 .. Len(a) /\ a[1] = CR /\ a[e] = Feed
  /\ \A j \in 2 .. e : a[j] = Inside => a[j - 1] # Inside
LEMMA AfterHeading ==
  ASSUME Http!TypeOK PROVE \E e \in Nat : HeadingOf(After, e) /\ Len(After) = e + Len(BodyOf(content, NewLine))
<1> DEFINE b == BodyOf(content, NewLine)
           hl == Http!HeaderLines
           nl == NewLine
           hn == hl \o nl
           h == nl \o hn
           S == AnyOctet
<1>1. hl \in Seq(S) /\ nl \in Seq(S) /\ b \in Seq(S)
  BY BehindStart, Separators
<1>2. Solo(hn) /\ Solo(nl)
  BY LineBreak, SoloHeaders, SoloJoined
<1>3. Solo(h)
  BY <1>2, SoloJoined
<1>4. After = h \o b
  <2> HIDE DEF b, hl, nl, S
  <2>1. nl \o (hl \o (nl \o b)) = (nl \o (hl \o nl)) \o b
    <3>1. hl \o (nl \o b) = (hl \o nl) \o b
      BY <1>1, ConcatAssociative, SMTT(30)
    <3>2. hn \in Seq(S)
      BY <1>1
    <3> HIDE DEF hn
    <3>3. nl \o (hn \o b) = (nl \o hn) \o b
      BY <1>1, <3>2, ConcatAssociative, SMTT(30)
    <3> QED BY <3>1, <3>3, Zenon DEF hn
  <2> QED BY <2>1, Zenon DEF After, b, hl, nl
<1>5. nl[1] = CR /\ nl[2] = Feed /\ Len(nl) = 2
  BY LineBreak
<1> HIDE DEF b, hl, nl
<1>6. IsJoin(hn, S, hl, nl)
  BY <1>1, Joined
<1> HIDE DEF hn
<1>7. hn \in Seq(S)
  BY <1>6 DEF IsJoin
<1>8. IsJoin(h, S, nl, hn)
  BY <1>1, <1>7, Joined
<1> HIDE DEF h
<1>9. h \in Seq(S)
  BY <1>8 DEF IsJoin
<1>10. IsJoin(After, S, h, b)
  BY <1>1, <1>4, <1>9, Joined
<1>11. PICK k \in Nat, e \in Nat : k = Len(hl) /\ e = Len(h) /\ e = 2 + (k + 2) /\ Len(hn) = k + 2
  <2>1. Len(hl) \in Nat /\ Len(hn) = Len(hl) + 2 /\ Len(h) = 2 + Len(hn)
    BY <1>1, <1>5, <1>6, <1>8 DEF IsJoin
  <2> QED BY <2>1
<1>12. h[1] = CR
  <2>1. 1 \in 1 .. Len(nl)
    BY <1>5
  <2> QED BY <2>1, <1>5, <1>8 DEF IsJoin
<1>13. h[e] = Feed
  <2>1. 2 \in 1 .. Len(nl) /\ k + 2 \in 1 .. Len(hn)
    BY <1>5, <1>11
  <2>2. hn[k + 2] = nl[2]
    BY <2>1, <1>6, <1>11 DEF IsJoin
  <2>3. h[2 + (k + 2)] = hn[k + 2]
    BY <2>1, <1>5, <1>8 DEF IsJoin
  <2> QED BY <2>2, <2>3, <1>5, <1>11
<1>14. \A j \in 1 .. e : After[j] = h[j]
  BY <1>10, <1>11 DEF IsJoin
<1>15. Len(After) = e + Len(b) /\ e \in 1 .. Len(After) /\ 1 \in 1 .. e /\ e \in 1 .. e
  <2>1. Len(After) = e + Len(b) /\ Len(b) \in Nat
    BY <1>1, <1>10, <1>11 DEF IsJoin
  <2> QED BY <2>1, <1>11
<1>16. ASSUME NEW j \in 2 .. e, After[j] = Inside PROVE After[j - 1] # Inside
  <2>1. j \in 1 .. e /\ j - 1 \in 1 .. e /\ j \in 2 .. Len(h)
    BY <1>11
  <2>2. h[j] = Inside => h[j - 1] # Inside
    BY <2>1, <1>3 DEF Solo
  <2> QED BY <2>1, <2>2, <1>14, <1>16
<1>17. HeadingOf(After, e)
  BY <1>12, <1>13, <1>14, <1>15, <1>16 DEF HeadingOf
<1> QED BY <1>15, <1>17 DEF b

BeginsWith(d, w) == Len(d) >= 3 /\ d[1] = [word |-> w] /\ d[2] = Inside /\ d[3] = Inside
Greeting == Http!Method \cup {"HTTP/"}

LEMMA StatusLine ==
  ASSUME NEW S, NEW d \in Seq(S)
  PROVE  IsPrefix(Field([word |-> "HTTP/"], 5), d) <=>
           BeginsWith(d, "HTTP/") /\ Len(d) >= 5 /\ d[4] = Inside /\ d[5] = Inside
<1> DEFINE h == [word |-> "HTTP/"]
           R == S \cup {h, Inside}
<1>1. PICK five \in Nat : five = 5
  OBVIOUS
<1> DEFINE p == Field(h, five)
<1>2. h \in R /\ Inside \in R /\ d \in Seq(R)
  <2>1. S \subseteq R
    OBVIOUS
  <2> QED BY <2>1, SeqMonotonic
<1> HIDE DEF h, R
<1>3. p \in Seq(R) /\ Len(p) = five /\ \A i \in 1 .. five : p[i] = IF i = 1 THEN h ELSE Inside
  BY <1>2, Fields, Zenon
<1> HIDE DEF p
<1>4. SubSeq(p, 1, Len(p)) = p
  BY <1>3
<1>5. ASSUME five <= Len(d)
      PROVE  SubSeq(d, 1, five) = p <=> \A i \in 1 .. five : d[i] = p[i]
  <2> DEFINE q == SubSeq(d, 1, five)
  <2>1. q \in Seq(R) /\ Len(q) = five /\ \A i \in 1 .. five : q[i] = d[i]
    BY <1>2, <1>5, Beginning
  <2> HIDE DEF q
  <2>2. q = p => \A i \in 1 .. five : d[i] = p[i]
    BY <2>1
  <2>3. ASSUME \A i \in 1 .. five : d[i] = p[i] PROVE q = p
    <3>1. Len(q) = Len(p) /\ \A j \in 1 .. Len(q) : q[j] = p[j]
      BY <2>1, <2>3, <1>3
    <3> QED BY <3>1, <2>1, <1>3, SameSeq
  <2> QED BY <2>2, <2>3 DEF q
<1>6. IsPrefix(p, d) <=> five <= Len(d) /\ SubSeq(d, 1, five) = p
  BY <1>3, <1>4 DEF IsPrefix
<1>7. (\A i \in 1 .. five : d[i] = p[i]) <=>
        d[1] = h /\ d[2] = Inside /\ d[3] = Inside /\ d[4] = Inside /\ d[5] = Inside
  <2>1. p[1] = h /\ p[2] = Inside /\ p[3] = Inside /\ p[4] = Inside /\ p[5] = Inside
    BY <1>1, <1>3
  <2>2. \A i \in 1 .. five : i = 1 \/ i = 2 \/ i = 3 \/ i = 4 \/ i = 5
    BY <1>1
  <2>3. 1 \in 1 .. five /\ 2 \in 1 .. five /\ 3 \in 1 .. five /\ 4 \in 1 .. five /\ 5 \in 1 .. five
    BY <1>1
  <2> QED BY <2>1, <2>2, <2>3
<1>8. five <= Len(d) <=> Len(d) >= 3 /\ Len(d) >= 5
  <2>1. Len(d) \in Nat
    OBVIOUS
  <2> QED BY <2>1, <1>1
<1> QED BY <1>1, <1>5, <1>6, <1>7, <1>8, Zenon DEF p, h, BeginsWith

LEMMA ThreeOctets ==
  ASSUME NEW S, NEW d \in Seq(S), NEW w
  PROVE  d = Field([word |-> w], 3) <=> BeginsWith(d, w) /\ Len(d) = 3
<1> DEFINE h == [word |-> w]
           R == S \cup {h, Inside}
<1>1. PICK three \in Nat : three = 3
  OBVIOUS
<1> DEFINE p == Field(h, three)
<1>2. h \in R /\ Inside \in R /\ d \in Seq(R)
  <2>1. S \subseteq R
    OBVIOUS
  <2> QED BY <2>1, SeqMonotonic
<1> HIDE DEF h, R
<1>3. p \in Seq(R) /\ Len(p) = three /\ \A i \in 1 .. three : p[i] = IF i = 1 THEN h ELSE Inside
  BY <1>2, Fields, Zenon
<1> HIDE DEF p
<1>4. p[1] = h /\ p[2] = Inside /\ p[3] = Inside /\ Len(p) = 3
  BY <1>1, <1>3
<1>5. d = p => d[1] = h /\ d[2] = Inside /\ d[3] = Inside /\ Len(d) = 3
  BY <1>4
<1>6. ASSUME d[1] = h, d[2] = Inside, d[3] = Inside, Len(d) = 3 PROVE d = p
  <2>1. \A i \in 1 .. 3 : i = 1 \/ i = 2 \/ i = 3
    OBVIOUS
  <2>2. \A i \in 1 .. 3 : d[i] = p[i]
    BY <2>1, <1>4, <1>6
  <2> QED BY <2>2, <1>2, <1>3, <1>4, <1>6, SameSeq
<1>7. Len(d) = 3 => Len(d) >= 3
  OBVIOUS
<1> QED BY <1>1, <1>5, <1>6, <1>7, Zenon DEF p, h, BeginsWith

LEMMA FirstPart ==
  ASSUME NEW S, NEW d \in Seq(S), NEW mark
  PROVE  \E m \in 0 .. Len(d) : /\ \A j \in 1 .. m : d[j] # mark[1]
                                /\ m < Len(d) => d[m + 1] = mark[1]
                                /\ Split(d, mark)[1] = SubSeq(d, 1, m)
<1> DEFINE T == {j \in 1 .. Len(d) : d[j] = mark[1]}
<1>1. PICK n \in Nat : n = Len(d)
  OBVIOUS
<1>2. CASE T = {}
  <2>1. \A j \in 1 .. n : d[j] # mark[1]
    BY <1>1, <1>2
  <2>2. n \in 0 .. Len(d) /\ ~ n < Len(d)
    BY <1>1
  <2>3. Split(d, mark)[1] = SubSeq(d, 1, n)
    BY <2>1, <2>2, FirstPiece
  <2> QED BY <2>1, <2>2, <2>3
<1>3. CASE T # {}
  <2>1. T \in SUBSET Nat
    OBVIOUS
  <2> DEFINE a == Min(T)
  <2>2. a \in T /\ \A y \in T : a <= y
    BY <2>1, <1>3, MinOf
  <2>3. a \in 1 .. n /\ d[a] = mark[1]
    BY <2>2, <1>1
  <2>4. \A j \in 1 .. n : d[j] = mark[1] => a <= j
    BY <2>2, <1>1
  <2> HIDE DEF a, T
  <2>5. a - 1 \in 0 .. Len(d) /\ (a - 1) + 1 = a
    BY <2>3, <1>1
  <2>6. \A j \in 1 .. a - 1 : d[j] # mark[1]
    <3>1. \A j \in 1 .. a - 1 : j \in 1 .. n /\ ~ a <= j
      BY <2>3
    <3> QED BY <3>1, <2>4
  <2>7. d[(a - 1) + 1] = mark[1]
    BY <2>3, <2>5
  <2>8. Split(d, mark)[1] = SubSeq(d, 1, a - 1)
    <3> DEFINE m == a - 1
    <3>1. m \in 0 .. Len(d) /\ (\A j \in 1 .. m : d[j] # mark[1]) /\ d[m + 1] = mark[1]
      BY <2>5, <2>6, <2>7
    <3> HIDE DEF m
    <3>2. Split(d, mark)[1] = SubSeq(d, 1, m)
      BY <3>1, FirstPiece
    <3> QED BY <3>2 DEF m
  <2> QED BY <2>5, <2>6, <2>7, <2>8
<1> QED BY <1>2, <1>3

LEMMA MethodFirst ==
  ASSUME NEW S, NEW d \in Seq(S), NEW m, Split(d, Space)[1] = Field([word |-> m], 3)
  PROVE  BeginsWith(d, m)
<1> DEFINE mark == Space
<1>1. PICK k \in 0 .. Len(d) : Split(d, mark)[1] = SubSeq(d, 1, k)
  <2> HIDE DEF mark
  <2> QED BY FirstPart
<1> DEFINE p == SubSeq(d, 1, k)
<1>2. p \in Seq(S) /\ Len(p) = k /\ \A i \in 1 .. k : p[i] = d[i]
  <2>1. k \in Nat /\ k <= Len(d)
    OBVIOUS
  <2> QED BY <2>1, Beginning
<1>3. p = Field([word |-> m], 3)
  BY <1>1
<1> HIDE DEF p
<1>4. BeginsWith(p, m) /\ Len(p) = 3
  BY <1>2, <1>3, ThreeOctets
<1>5. BeginsWith(d, m)
  <2>1. Len(d) >= 3 /\ 1 \in 1 .. k /\ 2 \in 1 .. k /\ 3 \in 1 .. k
    BY <1>2, <1>4
  <2> QED BY <2>1, <1>2, <1>4 DEF BeginsWith
<1> QED BY <1>5

LEMMA NoMessage ==
  ASSUME NEW S, NEW d \in Seq(S), \A w \in Greeting : ~ BeginsWith(d, w)
  PROVE  Http!ParseHttpData(d) = Err
<1>1. ~ IsPrefix(Field([word |-> "HTTP/"], 5), d)
  <2>1. ~ BeginsWith(d, "HTTP/")
    BY DEF Greeting
  <2> QED BY <2>1, StatusLine
<1>2. ASSUME NEW m \in Http!Method, Split(d, Space)[1] = Field([word |-> m], 3) PROVE FALSE
  BY <1>2, MethodFirst DEF Greeting
<1>3. Split(d, Space)[1] \notin {Field([word |-> m], 3) : m \in Http!Method}
  BY <1>2
<1>4. Http!ParseHttpData(d) =
        IF ~ IsText(d) THEN Err
        ELSE IF IsPrefix(Field([word |-> "HTTP/"], 5), d) THEN Http!ParseResponse(LinesOf(d))
        ELSE IF Split(d, Space)[1] \in {Field([word |-> m], 3) : m \in Http!Method}
        THEN Http!ParseRequest(LinesOf(d)) ELSE Err
  BY HttpOctets, HttpStrings, Zenon DEF Http!ParseHttpData
<1> QED BY <1>1, <1>3, <1>4, Zenon

LEMMA WordOctets ==
  /\ \A w \in Greeting : /\ [word |-> w] # Inside /\ [word |-> w] # Space[1] /\ [word |-> w] # [word |-> "1.1"]
                         /\ \A d : [word |-> w] # [digits |-> d]
  /\ CR # Inside /\ Space[1] # Inside
<1>1. \A w \in Greeting : w # "1.1"
  BY DEF Greeting, Http!Method
<1>2. \A w, u : [word |-> w] = [word |-> u] => w = u
  <2>1. \A w : [word |-> w].word = w
    OBVIOUS
  <2> QED BY <2>1
<1>3. \A w, d : [word |-> w] # [digits |-> d]
  OBVIOUS
<1>4. \A w, m : [word |-> w] # [mark |-> m]
  OBVIOUS
<1>5. Space[1] = [mark |-> " "]
  <2>1. Space = <<[mark |-> " "]>>
    BY Marks, Zenon
  <2> QED BY <2>1, Zenon
<1>6. \A m : [mark |-> m] # [inside |-> TRUE]
  <2>1. \A m : "mark" \in DOMAIN [mark |-> m]
    OBVIOUS
  <2>2. "mark" \notin DOMAIN [inside |-> TRUE]
    OBVIOUS
  <2> QED BY <2>1, <2>2
<1>7. CR # Inside /\ Space[1] # Inside
  BY <1>5, <1>6, Zenon DEF CR, Inside
<1>8. \A w : [word |-> w] # Inside
  BY RowMarks
<1> QED BY <1>1, <1>2, <1>3, <1>4, <1>5, <1>7, <1>8, Zenon

StartThenAfter(m, s, a) ==
  /\ m \in Seq(AnyOctet) /\ s \in Seq(AnyOctet) /\ a \in Seq(AnyOctet)
  /\ Len(s) = 15 /\ Len(m) = 15 + Len(a) /\ StartIs(s) /\ Len(a) > 0 /\ a[1] = CR
  /\ \A j \in 1 .. 15 : m[j] = s[j]
  /\ \A j \in 1 .. Len(a) : m[15 + j] = a[j]
LEMMA MessageBegins == ASSUME Http!TypeOK PROVE StartThenAfter(Http!Message, Http!StartLine, After)
<1> DEFINE m == Http!Message
           s == Http!StartLine
           a == After
<1>1. m = s \o a /\ a \in Seq(AnyOctet) /\ s \in Seq(AnyOctet)
  BY BehindStart
<1>2. StartIs(s) /\ Len(s) = 15
  BY HeadTyped DEF StartIs
<1>3. Len(a) > 0 /\ a[1] = CR
  <2>1. PICK e : HeadingOf(a, e)
    BY AfterHeading
  <2> QED BY <2>1 DEF HeadingOf
<1> HIDE DEF s, a
<1>4. IsJoin(s \o a, AnyOctet, s, a)
  BY <1>1, Joined
<1>5. IsJoin(m, AnyOctet, s, a)
  BY <1>1, <1>4
<1> HIDE DEF m
<1> QED BY <1>1, <1>2, <1>3, <1>5 DEF IsJoin, StartThenAfter, m, s, a

LEMMA MarksApart ==
  /\ Inside # Space[1] /\ (\A w : [word |-> w] # Space[1]) /\ (\A d : [digits |-> d] # Space[1]) /\ CR # Space[1]
  /\ Inside # Feed /\ \A w : [word |-> w] # Feed
<1>1. Space[1] = [mark |-> " "]
  <2>1. Space = <<[mark |-> " "]>>
    BY Marks, Zenon
  <2> QED BY <2>1, Zenon
<1>2. \A w, m : [word |-> w] # [mark |-> m]
  OBVIOUS
<1>3. \A d, m : [digits |-> d] # [mark |-> m]
  OBVIOUS
<1>4. Inside # Space[1] /\ CR # Space[1]
  BY WordOctets, OctetsApart
<1>5. Inside # Feed
  BY LineBreak
<1> QED BY <1>1, <1>2, <1>3, <1>4, <1>5, Zenon DEF Feed

LEMMA GreetingAt ==
  ASSUME Http!TypeOK, NEW m, NEW s, NEW a, StartThenAfter(m, s, a), NEW e \in Nat, HeadingOf(a, e),
         NEW n \in 1 .. Len(m), n < 15 + e, NEW w \in Greeting, BeginsWith(SubSeq(m, n + 1, Len(m)), w)
  PROVE  ~ Answers /\ n = 7
<1>1. PICK l \in Nat : l = Len(m)
  BY DEF StartThenAfter
<1>2. n \in Nat /\ n <= l /\ n >= 1
  BY <1>1
<1> DEFINE d == SubSeq(m, n + 1, l)
<1>3. Len(d) = l - n /\ \A p \in 1 .. l - n : d[p] = m[n + p]
  <2>1. m \in Seq(AnyOctet)
    BY DEF StartThenAfter
  <2> QED BY <2>1, <1>1, <1>2, Slice
<1>4. BeginsWith(d, w)
  BY <1>1
<1> HIDE DEF d
<1>5. n + 3 <= l /\ m[n + 1] = [word |-> w] /\ m[n + 2] = Inside /\ m[n + 3] = Inside
  <2>1. l - n >= 3 /\ d[1] = [word |-> w] /\ d[2] = Inside /\ d[3] = Inside
    BY <1>3, <1>4 DEF BeginsWith
  <2>2. 1 \in 1 .. l - n /\ 2 \in 1 .. l - n /\ 3 \in 1 .. l - n
    BY <1>2, <2>1
  <2> QED BY <1>2, <1>3, <2>1, <2>2
<1>6. PICK k \in Nat : k = Len(a)
  <2>1. a \in Seq(AnyOctet)
    BY DEF StartThenAfter
  <2> QED BY <2>1
<1>7. l = 15 + k /\ \A j \in 1 .. k : m[15 + j] = a[j]
  BY <1>1, <1>6 DEF StartThenAfter
<1>8. CASE n >= 15 /\ n + 3 <= 15 + e
  <2>1. PICK j \in 2 .. e : n + 2 = 15 + (j - 1) /\ n + 3 = 15 + j /\ j - 1 \in 1 .. k
    <3>0. e <= k
      BY <1>6 DEF HeadingOf
    <3>1. (n + 3) - 15 \in 2 .. e /\ n + 2 = 15 + (((n + 3) - 15) - 1) /\ n + 3 = 15 + ((n + 3) - 15)
          /\ ((n + 3) - 15) - 1 \in 1 .. k
      BY <3>0, <1>2, <1>5, <1>7, <1>8
    <3> QED BY <3>1
  <2>2. j \in 1 .. k
    BY <2>1, <1>6 DEF HeadingOf
  <2>3. m[n + 3] = a[j] /\ m[n + 2] = a[j - 1]
    BY SMTT(30), <2>1, <2>2, <1>7
  <2>4. a[j] = Inside => a[j - 1] # Inside
    BY DEF HeadingOf
  <2> QED BY <2>3, <2>4, <1>5
<1>13. CASE n >= 15 /\ n + 3 > 15 + e
  <2>1. e \in 1 .. k /\ a[e] = Feed
    BY <1>6 DEF HeadingOf
  <2>2. m[15 + e] = Feed
    BY <2>1, <1>7
  <2>3. n + 1 = 15 + e \/ n + 2 = 15 + e
    BY <1>2, <1>13
  <2>4. [word |-> w] # Feed /\ Inside # Feed
    BY MarksApart
  <2> QED BY <2>2, <2>3, <2>4, <1>5
<1>9. m[16] = CR
  <2>1. 1 \in 1 .. k /\ 15 + 1 = 16 /\ a[1] = CR
    BY <1>6 DEF StartThenAfter
  <2> QED BY <2>1, <1>7
<1>10. CASE n = 14
  <2>1. n + 2 = 16
    BY <1>10
  <2> QED BY <2>1, <1>5, <1>9, WordOctets
<1>11. CASE n = 13
  <2>1. n + 3 = 16
    BY <1>11
  <2> QED BY <2>1, <1>5, <1>9, WordOctets
<1>12. CASE n \in 1 .. 12
  <2>1. m[n + 1] = s[n + 1] /\ m[n + 2] = s[n + 2] /\ m[n + 3] = s[n + 3]
    <3>1. n + 1 \in 1 .. 15 /\ n + 2 \in 1 .. 15 /\ n + 3 \in 1 .. 15
      BY <1>12
    <3> QED BY <3>1 DEF StartThenAfter
  <2>2. s[n + 1] = [word |-> w] /\ s[n + 2] = Inside /\ s[n + 3] = Inside
    BY <2>1, <1>5
  <2>3. [word |-> w] # Inside /\ [word |-> w] # Space[1] /\ [word |-> w] # [word |-> "1.1"]
        /\ (\A x : [word |-> w] # [digits |-> x]) /\ Space[1] # Inside
    BY WordOctets
  <2>4. StartIs(s)
    BY DEF StartThenAfter
  <2>5. \/ n = 1 \/ n = 2 \/ n = 3 \/ n = 4 \/ n = 5 \/ n = 6 \/ n = 7 \/ n = 8 \/ n = 9 \/ n = 10 \/ n = 11 \/ n = 12
    BY <1>12
  <2>6. CASE Answers
    <3>1. VersionAt(s, 0) /\ s[9] = Space[1] /\ s[10] = [digits |-> start.status] /\ s[11] = Inside /\ s[12] = Inside
          /\ s[13] = Space[1]
      BY <2>4, <2>6 DEF StartIs
    <3>2. s[2] = Inside /\ s[3] = Inside /\ s[4] = Inside /\ s[5] = Inside /\ s[6] = [word |-> "1.1"]
          /\ s[7] = Inside /\ s[8] = Inside
      BY <3>1 DEF VersionAt
    <3> QED BY <2>2, <2>3, <2>5, <3>1, <3>2, SMTT(30)
  <2>7. CASE ~ Answers
    <3>1. VersionAt(s, 7) /\ s[2] = Inside /\ s[3] = Inside /\ s[4] = Space[1] /\ s[6] = Inside /\ s[7] = Space[1]
      BY <2>4, <2>7 DEF StartIs
    <3>2. s[9] = Inside /\ s[10] = Inside /\ s[11] = Inside /\ s[12] = Inside /\ s[13] = [word |-> "1.1"]
      BY <3>1 DEF VersionAt
    <3>3. n # 4
      <4>1. n = 4 => s[7] = Inside
        BY <2>2
      <4> QED BY <4>1, <3>1, <2>3
    <3> QED BY SMTT(30), <2>2, <2>3, <2>5, <2>7, <3>1, <3>2, <3>3
  <2> QED BY <2>6, <2>7
<1> QED BY <1>2, <1>8, <1>10, <1>11, <1>12, <1>13

\* The rows behind the first.
Behind(brows) == HeaderRows \o (<<EmptyRow>> \o brows)
LEMMA AfterInRows ==
  ASSUME Http!TypeOK, NEW brows, NEW tail, BodyRows(content, brows, tail)
  PROVE  /\ HeadRows \o brows = <<Http!StartLine>> \o Behind(brows)
         /\ Behind(brows) \in Seq(Seq(HttpOctet)) /\ tail \in Seq(HttpOctet)
         /\ After = NewLine \o Lined(Behind(brows), NewLine, tail)
<1> DEFINE T == Seq(HttpOctet)
           sl == <<Http!StartLine>>
           em == <<EmptyRow>>
           nl == NewLine
           S == AnyOctet
           hl == Http!HeaderLines
           eb == em \o brows
<1>1. HeaderRows \in Seq(T) /\ Http!StartLine \in T /\ brows \in Seq(T) /\ tail \in T
  BY HeadTyped, OfRows DEF BodyRows
<1>2. EmptyRow \in T
  BY DEF EmptyRow
<1> HIDE DEF T
<1>3. sl \in Seq(T) /\ em \in Seq(T)
  BY <1>1, <1>2
<1> HIDE DEF em, sl
<1>4. em \o brows \in Seq(T)
  BY <1>1, <1>3
<1>5. HeaderRows \o (em \o brows) \in Seq(T)
  BY <1>1, <1>4
<1>6. ((sl \o HeaderRows) \o em) \o brows = sl \o (HeaderRows \o (em \o brows))
  <2> DEFINE x == sl \o HeaderRows
  <2>1. x \in Seq(T)
    BY <1>1, <1>3
  <2> HIDE DEF x
  <2>2. (x \o em) \o brows = x \o (em \o brows)
    BY <2>1, <1>1, <1>3, ConcatAssociative, SMTT(30)
  <2>3. x \o eb = sl \o (HeaderRows \o eb)
    <3>1. eb \in Seq(T)
      BY <1>4
    <3> HIDE DEF eb
    <3> QED BY <3>1, <1>1, <1>3, ConcatAssociative, SMTT(30) DEF x
  <2> QED BY <2>2, <2>3, Zenon DEF x, eb
<1>7. HeadRows \o brows = sl \o Behind(brows)
  BY <1>6, Zenon DEF HeadRows, TopRows, Behind, sl, em
<1>8. Behind(brows) \in Seq(T)
  BY <1>5 DEF Behind, em
<1>9. nl \in Seq(S) /\ HeaderRows \in Seq(Seq(S)) /\ em \in Seq(Seq(S)) /\ brows \in Seq(Seq(S)) /\ tail \in Seq(S)
  <2>1. Seq(T) \subseteq Seq(Seq(S)) /\ T \subseteq Seq(S)
    BY OfRows DEF T
  <2> QED BY <2>1, <1>1, <1>3, Separators
<1>10. hl = FlattenSeq(Ended(HeaderRows, nl))
  BY HeaderLinesAre
<1>11. FlattenSeq(Ended(em, nl)) = nl
  <2>1. EmptyRow \in Seq(S)
    BY DEF EmptyRow
  <2>2. FlattenSeq(Ended(em, nl)) = EmptyRow \o nl
    BY <1>9, <2>1, EndedSingle DEF em
  <2>3. EmptyRow \o nl = nl
    BY <1>9 DEF EmptyRow
  <2> QED BY <2>2, <2>3
<1>12. LinedOfTwo(HeaderRows, eb, nl, tail) /\ LinedOfTwo(em, brows, nl, tail)
  <2>1. eb \in Seq(Seq(S))
    BY <1>9
  <2> HIDE DEF eb, nl
  <2>2. LinedOfTwo(HeaderRows, eb, nl, tail)
    BY <1>9, <2>1, LinedConcat
  <2>3. LinedOfTwo(em, brows, nl, tail)
    BY <1>9, LinedConcat
  <2> QED BY <2>2, <2>3
<1>13. BodyOf(content, NewLine) = Lined(brows, nl, tail)
  BY DEF BodyRows
<1>14. After = nl \o Lined(Behind(brows), nl, tail)
  <2> HIDE DEF hl
  <2>1. Lined(em \o brows, nl, tail) = nl \o BodyOf(content, NewLine)
    BY <1>11, <1>12, <1>13, Zenon DEF LinedOfTwo
  <2>2. Lined(HeaderRows \o eb, nl, tail) = hl \o Lined(eb, nl, tail)
    BY <1>10, <1>12, Zenon DEF LinedOfTwo
  <2> QED BY <2>1, <2>2, Zenon DEF After, Behind, eb, em, hl
<1> QED BY <1>1, <1>7, <1>8, <1>14 DEF T, sl

FirstLineIs(d, v) == Len(LinesOf(d)) >= 1 /\ LinesOf(d)[1] = v
LEMMA FirstOfLines ==
  ASSUME NEW v \in Seq(HttpOctet), NEW rows \in Seq(Seq(HttpOctet)), NEW t \in Seq(HttpOctet)
  PROVE  FirstLineIs(v \o (NewLine \o Lined(rows, NewLine, t)), v)
<1> DEFINE vs == <<v>>
           all == vs \o rows
           nl == NewLine
           T == Seq(HttpOctet)
           S == AnyOctet
<1>1. v \in T /\ rows \in Seq(T) /\ t \in T
  OBVIOUS
<1>2. T \subseteq Seq(S) /\ Seq(T) \subseteq Seq(Seq(S)) /\ nl \in Seq(S)
  BY OfRows, Separators
<1>3. Feed \notin HttpOctet /\ Feed \in S /\ CR \in S /\ HttpOctet \in SUBSET S
  BY OctetsApart
<1> HIDE DEF T
<1>4. vs \in Seq(T) /\ Len(vs) = 1 /\ vs[1] = v
  BY <1>1
<1> HIDE DEF nl, S
<1>5. FlattenSeq(Ended(vs, nl)) = v \o nl
  BY <1>1, <1>2, EndedSingle
<1> HIDE DEF vs
<1>6. LinedOfTwo(vs, rows, nl, t)
  BY <1>1, <1>2, <1>4, LinedConcat
<1> DEFINE r == Lined(rows, nl, t)
<1>7. r \in Seq(S)
  BY <1>1, <1>2, LinedTyped
<1>8. Lined(all, nl, t) = v \o (nl \o r)
  <2> HIDE DEF r
  <2>1. (v \o nl) \o r = v \o (nl \o r)
    BY <1>1, <1>2, <1>7, ConcatAssociative, SMTT(30)
  <2> QED BY <2>1, <1>5, <1>6, Zenon DEF LinedOfTwo, r
<1>9. IsJoin(all, T, vs, rows)
  BY <1>1, <1>4, Joined
<1> HIDE DEF all
<1>10. all \in Seq(T) /\ Len(all) >= 1 /\ all[1] = v
  <2>1. Len(rows) \in Nat /\ 1 \in 1 .. 1
    BY <1>1
  <2> QED BY <2>1, <1>4, <1>9 DEF IsJoin
<1>11. LinesOf(Lined(all, nl, t)) = IF t = << >> THEN all ELSE Append(all, t)
  BY SMTT(30), <1>1, <1>3, <1>10, LinesAre DEF nl, T, S
<1>12. FirstLineIs(Lined(all, nl, t), v)
  <2>1. CASE t = << >>
    BY <2>1, <1>10, <1>11 DEF FirstLineIs
  <2>2. CASE t # << >>
    <3> DEFINE at == Append(all, t)
    <3>1. Len(at) = Len(all) + 1 /\ at[1] = all[1]
      BY <1>1, <1>10
    <3>2. LinesOf(Lined(all, nl, t)) = at
      BY <2>2, <1>11
    <3> HIDE DEF at
    <3>3. Len(all) \in Nat
      BY <1>10
    <3> QED BY <3>1, <3>2, <3>3, <1>10 DEF FirstLineIs
  <2> QED BY <2>1, <2>2
<1> HIDE DEF r
<1> QED BY <1>8, <1>12, Zenon DEF nl, r

LEMMA SecondHalf ==
  ASSUME Http!TypeOK, ~ Answers
  PROVE  Http!ParseHttpData(SubSeq(Http!Message, 7 + 1, Len(Http!Message))) = Err
<1> DEFINE m == Http!Message
           s == Http!StartLine
           a == After
           S == AnyOctet
<1>1. StartThenAfter(m, s, a)
  BY MessageBegins
<1> HIDE DEF m, s, a
<1>2. PICK k \in Nat : k = Len(a)
  BY <1>1 DEF StartThenAfter
<1>3. PICK n \in Nat : n = 7
  OBVIOUS
<1>4. m \in Seq(S) /\ Len(m) = 15 + k /\ s \in Seq(S) /\ Len(s) = 15 /\ a \in Seq(S)
      /\ (\A j \in 1 .. 15 : m[j] = s[j]) /\ \A j \in 1 .. k : m[15 + j] = a[j]
  BY <1>1, <1>2 DEF StartThenAfter
<1>5. s \in Seq(RowOctet) /\ VersionAt(s, 7)
  BY <1>1 DEF StartThenAfter, StartIs
<1> DEFINE l == Len(m)
           d == SubSeq(m, n + 1, l)
           v == SubSeq(s, n + 1, 15)
<1>6. d \in Seq(S) /\ Len(d) = l - n /\ \A p \in 1 .. l - n : d[p] = m[n + p]
  <2>1. PICK q \in Nat : q = Len(m) /\ n <= q
    BY <1>3, <1>4
  <2>2. m \in Seq(S) /\ q <= Len(m)
    BY <2>1, <1>4
  <2> HIDE DEF S
  <2>3. SubSeq(m, n + 1, q) \in Seq(S) /\ Len(SubSeq(m, n + 1, q)) = q - n
        /\ \A p \in 1 .. q - n : SubSeq(m, n + 1, q)[p] = m[n + p]
    BY <2>1, <2>2, Slice
  <2> QED BY <2>1, <2>3
<1>7. v \in Seq(RowOctet) /\ Len(v) = 8 /\ \A p \in 1 .. 8 : v[p] = s[7 + p]
  <2>1. PICK f \in Nat : f = 15
    OBVIOUS
  <2>2. n <= f /\ f <= Len(s)
    BY <2>1, <1>3, <1>4
  <2>3. SubSeq(s, n + 1, f) \in Seq(RowOctet) /\ Len(SubSeq(s, n + 1, f)) = f - n
        /\ \A p \in 1 .. f - n : SubSeq(s, n + 1, f)[p] = s[n + p]
    BY <2>2, <1>5, Slice
  <2>4. f - n = 8
    BY <2>1, <1>3
  <2>5. SubSeq(s, n + 1, f) = v
    BY <2>1
  <2> HIDE DEF v
  <2> QED BY <2>3, <2>4, <2>5, <1>3
<1> HIDE DEF d, v
<1>8. VersionAt(v, 0)
  <2>1. \A j \in 1 .. 8 : v[0 + j] = s[7 + j]
    BY <1>7
  <2> QED BY <2>1, <1>5, SMTT(30) DEF VersionAt
<1>9. v \in Seq(S) /\ v \in Seq(HttpOctet)
  BY <1>7, OfRows
<1>10. d = v \o a
  <2> DEFINE w == v \o a
  <2>1. IsJoin(w, S, v, a)
    BY <1>4, <1>9, Joined
  <2> HIDE DEF w
  <2>2. w \in Seq(S) /\ Len(w) = 8 + k /\ (\A j \in 1 .. 8 : w[j] = v[j]) /\ \A j \in 1 .. k : w[8 + j] = a[j]
    BY <2>1, <1>2, <1>7 DEF IsJoin
  <2>3. Len(d) = 8 + k /\ \A p \in 1 .. 8 + k : d[p] = m[7 + p]
    BY <1>3, <1>4, <1>6
  <2>4. ASSUME NEW p \in 1 .. 8 + k PROVE d[p] = w[p]
    <3>1. CASE p <= 8
      <4>1. p \in 1 .. 8 /\ 7 + p \in 1 .. 15
        BY <3>1
      <4>2. d[p] = m[7 + p]
        BY <2>3
      <4>3. w[p] = v[p]
        BY <4>1, <2>2
      <4>4. m[7 + p] = v[p]
        BY <4>1, <1>4, <1>7
      <4> QED BY <4>2, <4>3, <4>4
    <3>2. CASE p > 8
      <4>1. PICK j \in 1 .. k : p = 8 + j /\ 7 + p = 15 + j
        <5>1. p - 8 \in 1 .. k /\ p = 8 + (p - 8) /\ 7 + p = 15 + (p - 8)
          BY <3>2
        <5> QED BY <5>1
      <4>2. d[p] = m[15 + j]
        BY <4>1, <2>3
      <4>3. w[p] = a[j] /\ j \in 1 .. k
        BY <4>1, <2>2
      <4>4. m[15 + j] = a[j]
        BY <4>3, <1>4
      <4> QED BY <4>2, <4>3, <4>4
    <3> QED BY <3>1, <3>2
  <2>5. d = w
    BY <2>2, <2>3, <2>4, <1>6, SameSeq
  <2> QED BY <2>5 DEF w
<1>11. PICK brows, tail : BodyRows(content, brows, tail)
  <2>1. content \in Seq(Http!Piece)
    BY DEF Http!TypeOK
  <2> QED BY <2>1, BodyInRows
<1>12. Behind(brows) \in Seq(Seq(HttpOctet)) /\ tail \in Seq(HttpOctet) /\ a = NewLine \o Lined(Behind(brows), NewLine, tail)
  BY <1>11, AfterInRows DEF a
<1>13. FirstLineIs(d, v)
  <2> DEFINE x == Behind(brows)
  <2>1. x \in Seq(Seq(HttpOctet))
    BY <1>12
  <2> HIDE DEF x
  <2>2. FirstLineIs(v \o (NewLine \o Lined(x, NewLine, tail)), v)
    BY <2>1, <1>9, <1>12, FirstOfLines
  <2> QED BY <2>2, <1>10, <1>12, Zenon DEF x
<1>14. Len(Split(v, Space)) = 1
  <2> DEFINE mark == Space
  <2>1. \A j \in 1 .. Len(v) : v[j] # mark[1]
    <3>1. \A j \in 1 .. 8 : j = 1 \/ j = 2 \/ j = 3 \/ j = 4 \/ j = 5 \/ j = 6 \/ j = 7 \/ j = 8
      OBVIOUS
    <3>2. v[1] = [word |-> "HTTP/"] /\ v[2] = Inside /\ v[3] = Inside /\ v[4] = Inside /\ v[5] = Inside
          /\ v[6] = [word |-> "1.1"] /\ v[7] = Inside /\ v[8] = Inside
      BY <1>8 DEF VersionAt
    <3> QED BY SMTT(30), <3>1, <3>2, <1>7, MarksApart
  <2> HIDE DEF mark
  <2>2. Len(Split(v, mark)) = 1
    BY <2>1, <1>9, SplitOne
  <2> QED BY <2>2 DEF mark
<1>15. IsPrefix(Field([word |-> "HTTP/"], 5), d)
  <2>1. \A p \in 1 .. 8 : d[p] = v[p]
    <3>1. IsJoin(v \o a, S, v, a)
      BY <1>4, <1>9, Joined
    <3> QED BY <3>1, <1>7, <1>10 DEF IsJoin
  <2>2. Len(d) >= 5
    BY <1>3, <1>4, <1>6
  <2>3. BeginsWith(d, "HTTP/") /\ d[4] = Inside /\ d[5] = Inside
    <3>1. v[1] = [word |-> "HTTP/"] /\ v[2] = Inside /\ v[3] = Inside /\ v[4] = Inside /\ v[5] = Inside
      BY <1>8 DEF VersionAt
    <3> QED BY <3>1, <2>1, <2>2 DEF BeginsWith
  <2> QED BY <2>2, <2>3, <1>6, StatusLine
<1>16. Http!ParseResponse(LinesOf(d)) = Err
  <2>1. LinesOf(d)[1] = v
    BY <1>13 DEF FirstLineIs
  <2>2. Http!Split(LinesOf(d)[1], Http!Space) = Split(v, Space)
    BY <2>1, HttpOctets, HttpStrings
  <2>3. Len(Http!Split(LinesOf(d)[1], Http!Space)) < 2
    BY <2>2, <1>14
  <2> QED BY <2>3, HttpOctets, Zenon DEF Http!ParseResponse
<1>17. Http!ParseHttpData(d) =
         IF ~ IsText(d) THEN Err
         ELSE IF IsPrefix(Field([word |-> "HTTP/"], 5), d) THEN Http!ParseResponse(LinesOf(d))
         ELSE IF Split(d, Space)[1] \in {Field([word |-> x], 3) : x \in Http!Method}
         THEN Http!ParseRequest(LinesOf(d)) ELSE Err
  BY HttpOctets, HttpStrings, Zenon DEF Http!ParseHttpData
<1>18. Http!ParseHttpData(d) = Err
  BY <1>15, <1>16, <1>17, Zenon
<1> QED BY <1>3, <1>18 DEF d, m

\* What is no error begins as a first line does.
LEMMA OpensAsMessage ==
  ASSUME NEW S, NEW d \in Seq(S), Http!ParseHttpData(d) # Err
  PROVE  \E opening \in {Http!Word("HTTP/", 5)} \cup {Http!Word(m, 3) : m \in Http!Method} : Http!IsPrefix(opening, d)
<1>1. Http!ParseHttpData(d) =
        IF ~ IsText(d) THEN Err
        ELSE IF IsPrefix(Http!Word("HTTP/", 5), d) THEN Http!ParseResponse(LinesOf(d))
        ELSE IF Split(d, Space)[1] \in {Http!Word(x, 3) : x \in Http!Method}
        THEN Http!ParseRequest(LinesOf(d)) ELSE Err
  BY HttpOctets, HttpStrings, Zenon DEF Http!ParseHttpData
<1>2. CASE IsPrefix(Http!Word("HTTP/", 5), d)
  BY <1>2, HttpStrings
<1>3. CASE Split(d, Space)[1] \in {Http!Word(x, 3) : x \in Http!Method}
  <2> DEFINE mark == Space
  <2>1. PICK k \in 0 .. Len(d) : Split(d, mark)[1] = SubSeq(d, 1, k)
    <3> HIDE DEF mark
    <3> QED BY FirstPart
  <2>2. IsPrefix(SubSeq(d, 1, k), d)
    BY PrefixOf
  <2>3. Http!IsPrefix(Split(d, Space)[1], d)
    BY <2>1, <2>2, HttpStrings
  <2> QED BY <2>3, <1>3
<1> QED BY <1>1, <1>2, <1>3, Zenon

LEMMA RestNoMessage == ASSUME Http!TypeOK PROVE Http!RestIsMessageOnlyInBody
<1> DEFINE m == Http!Message
           b == BodyOf(content, NewLine)
           rest(n) == SubSeq(m, n + 1, Len(m))
<1>1. StartThenAfter(m, Http!StartLine, After)
  BY MessageBegins
<1>2. PICK e \in Nat : HeadingOf(After, e) /\ Len(After) = e + Len(b)
  BY AfterHeading
<1>3. Http!BodyWith(Http!NewLine) = b
  <2>1. content \in Seq(Http!Piece)
    BY DEF Http!TypeOK
  <2> QED BY <2>1, BodyIs, HttpOctets
<1>4. m \in Seq(AnyOctet) /\ Len(m) = 15 + (e + Len(b)) /\ Len(b) \in Nat
  <2>1. b \in Seq(AnyOctet)
    BY BehindStart
  <2> HIDE DEF b, m
  <2> QED BY <2>1, <1>1, <1>2 DEF StartThenAfter
<1> HIDE DEF b
<1>5. ASSUME NEW n \in 1 .. Len(m), ~ (n >= Len(m) - Len(b)) PROVE Http!ParseHttpData(rest(n)) = Err
  <2> DEFINE d == rest(n)
  <2>1. n < 15 + e /\ n \in Nat
    <3> HIDE DEF m
    <3> QED BY <1>4, <1>5
  <2>2. d \in Seq(AnyOctet)
    <3> HIDE DEF m
    <3> QED BY <1>4
  <2>3. CASE \A w \in Greeting : ~ BeginsWith(d, w)
    <3> HIDE DEF d
    <3>1. Http!ParseHttpData(d) = Err
      BY <2>2, <2>3, NoMessage
    <3> QED BY <3>1 DEF d
  <2>4. ASSUME NEW w \in Greeting, BeginsWith(d, w) PROVE Http!ParseHttpData(rest(n)) = Err
    <3>1. ~ Answers /\ n = 7
      <4> HIDE DEF m
      <4> QED BY <2>1, <2>4, <1>1, <1>2, GreetingAt
    <3> QED BY <3>1, SecondHalf
  <2> QED BY <2>3, <2>4
<1>6. ASSUME NEW n \in 1 .. Len(m), Http!ParseHttpData(rest(n)) # Err
      PROVE  \E opening \in {Http!Word("HTTP/", 5)} \cup {Http!Word(x, 3) : x \in Http!Method} :
               Http!IsPrefix(opening, rest(n))
  <2> DEFINE d == rest(n)
  <2>1. d \in Seq(AnyOctet)
    <3> HIDE DEF m
    <3> QED BY <1>4
  <2> HIDE DEF d
  <2>2. Http!ParseHttpData(d) # Err
    BY <1>6 DEF d
  <2>3. \E opening \in {Http!Word("HTTP/", 5)} \cup {Http!Word(x, 3) : x \in Http!Method} :
          Http!IsPrefix(opening, d)
    BY <2>1, <2>2, OpensAsMessage
  <2> QED BY <2>3 DEF d
<1>7. \A n \in 1 .. Len(m) :
        Http!ParseHttpData(rest(n)) # Err =>
          /\ n >= Len(m) - Len(Http!BodyWith(Http!NewLine))
          /\ \E opening \in {Http!Word("HTTP/", 5)} \cup {Http!Word(x, 3) : x \in Http!Method} :
               Http!IsPrefix(opening, rest(n))
  <2> HIDE DEF m
  <2> QED BY <1>3, <1>5, <1>6
<1> QED BY <1>7, HttpOctets DEF Http!RestIsMessageOnlyInBody

(***************************************************************************)
(* How parse_http_data reads the first line.                               *)
(***************************************************************************)
\* The first octets of a message.
StartsLike(d, s, n) ==
  d \in Seq(AnyOctet) /\ n = Len(d) /\ StartIs(s) /\ \A j \in 1 .. n : j <= 15 => d[j] = s[j]

LEMMA MethodWords ==
  /\ "other" \notin Http!Method /\ "HTTP/" \notin Http!Method
  /\ \A w, u : [word |-> w] = [word |-> u] => w = u
<1>1. \A w, u : [word |-> w] = [word |-> u] => w = u
  <2>1. \A w : [word |-> w].word = w
    OBVIOUS
  <2> QED BY <2>1
<1> QED BY <1>1 DEF Http!Method

LEMMA Dispatch ==
  ASSUME NEW d
  PROVE  Http!ParseHttpData(d) =
           IF ~ IsText(d) THEN Err
           ELSE IF IsPrefix(Field([word |-> "HTTP/"], 5), d) THEN Http!ParseResponse(LinesOf(d))
           ELSE IF Split(d, Space)[1] \in {Field([word |-> x], 3) : x \in Http!Method}
           THEN Http!ParseRequest(LinesOf(d)) ELSE Err
  BY HttpOctets, HttpStrings, Zenon DEF Http!ParseHttpData

LEMMA ResponseDispatch ==
  ASSUME Answers, NEW d, NEW s, NEW n, StartsLike(d, s, n)
  PROVE  Http!ParseHttpData(d) = IF IsText(d) /\ n >= 5 THEN Http!ParseResponse(LinesOf(d)) ELSE Err
<1>1. /\ d \in Seq(AnyOctet) /\ n = Len(d) /\ n \in Nat
      /\ s[1] = [word |-> "HTTP/"] /\ s[2] = Inside /\ s[3] = Inside /\ s[4] = Inside /\ s[5] = Inside
  <2>1. VersionAt(s, 0)
    BY DEF StartsLike, StartIs
  <2> QED BY <2>1 DEF VersionAt, StartsLike
<1>2. \A j \in 1 .. n : j <= 15 => d[j] = s[j]
  BY DEF StartsLike
<1>3. IsPrefix(Field([word |-> "HTTP/"], 5), d) <=> n >= 5
  <2>1. IsPrefix(Field([word |-> "HTTP/"], 5), d) <=>
          BeginsWith(d, "HTTP/") /\ Len(d) >= 5 /\ d[4] = Inside /\ d[5] = Inside
    BY <1>1, StatusLine
  <2>2. n >= 5 => BeginsWith(d, "HTTP/") /\ d[4] = Inside /\ d[5] = Inside
    BY <1>1, <1>2 DEF BeginsWith
  <2> QED BY <2>1, <2>2, <1>1
<1>4. ASSUME Split(d, Space)[1] \in {Field([word |-> x], 3) : x \in Http!Method} PROVE FALSE
  <2>1. PICK x \in Http!Method : Split(d, Space)[1] = Field([word |-> x], 3)
    BY <1>4
  <2>2. BeginsWith(d, x)
    BY <2>1, <1>1, MethodFirst
  <2>3. d[1] = [word |-> x] /\ 1 \in 1 .. n
    BY <2>2, <1>1 DEF BeginsWith
  <2>4. [word |-> x] = [word |-> "HTTP/"]
    BY <2>3, <1>1, <1>2
  <2> QED BY <2>4, MethodWords
<1> QED BY <1>3, <1>4, Dispatch, Zenon

LEMMA RequestDispatch ==
  ASSUME ~ Answers, NEW d, NEW s, NEW n, StartsLike(d, s, n)
  PROVE  Http!ParseHttpData(d) =
           IF IsText(d) /\ n >= 3 /\ start.method \in Http!Method
           THEN Http!ParseRequest(LinesOf(d)) ELSE Err
<1>1. /\ d \in Seq(AnyOctet) /\ n = Len(d) /\ n \in Nat
      /\ s[1] = [word |-> start.method] /\ s[2] = Inside /\ s[3] = Inside /\ s[4] = Space[1]
      /\ start.method \in Http!Method \cup {"other"}
  <2>1. start \in [method : Http!Method \cup {"other"}, uri : STRING]
    BY DEF StartsLike, StartIs
  <2>2. start.method \in Http!Method \cup {"other"}
    BY <2>1
  <2> QED BY <2>2 DEF StartsLike, StartIs
<1>2. \A j \in 1 .. n : j <= 15 => d[j] = s[j]
  BY DEF StartsLike
<1>3. ~ IsPrefix(Field([word |-> "HTTP/"], 5), d)
  <2>1. IsPrefix(Field([word |-> "HTTP/"], 5), d) => BeginsWith(d, "HTTP/")
    BY <1>1, StatusLine
  <2>2. ASSUME BeginsWith(d, "HTTP/") PROVE FALSE
    <3>1. d[1] = [word |-> "HTTP/"] /\ 1 \in 1 .. n
      BY <2>2, <1>1 DEF BeginsWith
    <3>2. [word |-> start.method] = [word |-> "HTTP/"]
      BY <3>1, <1>1, <1>2
    <3>3. start.method = "HTTP/"
      BY <3>2, MethodWords
    <3>4. "HTTP/" # "other"
      OBVIOUS
    <3> QED BY <3>3, <3>4, <1>1, MethodWords
  <2> QED BY <2>1, <2>2
<1>4. ASSUME Split(d, Space)[1] \in {Field([word |-> x], 3) : x \in Http!Method}
      PROVE  n >= 3 /\ start.method \in Http!Method
  <2>1. PICK x \in Http!Method : Split(d, Space)[1] = Field([word |-> x], 3)
    BY <1>4
  <2>2. BeginsWith(d, x)
    BY <2>1, <1>1, MethodFirst
  <2>3. d[1] = [word |-> x] /\ 1 \in 1 .. n /\ n >= 3
    BY <2>2, <1>1 DEF BeginsWith
  <2>4. [word |-> x] = [word |-> start.method]
    BY <2>3, <1>1, <1>2
  <2>5. x = start.method
    BY <2>4, MethodWords
  <2> QED BY <2>3, <2>5
<1>5. ASSUME n >= 3 PROVE Split(d, Space)[1] = Field([word |-> start.method], 3)
  <2> DEFINE mark == Space
  <2>1. PICK m \in Nat : m = 3
    OBVIOUS
  <2>2. d[1] = [word |-> start.method] /\ d[2] = Inside /\ d[3] = Inside
    BY <1>1, <1>2, <1>5
  <2>3. \A j \in 1 .. m : d[j] # mark[1]
    <3>1. \A j \in 1 .. m : j = 1 \/ j = 2 \/ j = 3
      BY <2>1
    <3> QED BY <3>1, <2>2, MarksApart
  <2>4. m < Len(d) => d[m + 1] = mark[1]
    <3>1. m < n => m + 1 = 4 /\ 4 \in 1 .. n
      BY <2>1, <1>1
    <3> QED BY <3>1, <1>1, <1>2
  <2>5. m \in 0 .. Len(d)
    BY <2>1, <1>1, <1>5
  <2> HIDE DEF mark
  <2>6. Split(d, mark)[1] = SubSeq(d, 1, m)
    BY <2>3, <2>4, <2>5, <1>1, FirstPiece
  <2> DEFINE q == SubSeq(d, 1, m)
  <2>7. q \in Seq(AnyOctet) /\ Len(q) = m /\ \A i \in 1 .. m : q[i] = d[i]
    <3>1. m <= Len(d)
      BY <2>5
    <3> QED BY <3>1, <1>1, Beginning
  <2> HIDE DEF q
  <2>8. BeginsWith(q, start.method) /\ Len(q) = 3
    <3>1. 1 \in 1 .. m /\ 2 \in 1 .. m /\ 3 \in 1 .. m /\ Len(q) >= 3 /\ Len(q) = 3
      BY <2>1, <2>7
    <3> QED BY <3>1, <2>2, <2>7 DEF BeginsWith
  <2> DEFINE w == start.method
  <2>9. q = Field([word |-> w], 3)
    <3>1. BeginsWith(q, w)
      BY <2>8
    <3> HIDE DEF w
    <3> QED BY <3>1, <2>7, <2>8, ThreeOctets
  <2> QED BY <2>6, <2>9 DEF q, mark
<1>6. n >= 3 /\ start.method \in Http!Method => Split(d, Space)[1] \in {Field([word |-> x], 3) : x \in Http!Method}
  BY <1>5
<1> QED BY <1>3, <1>4, <1>6, Dispatch, Zenon

\* The first p octets of the first line and its CR.
StartOf(l, s, p) ==
  /\ l \in Seq(RowOctet) /\ p = Len(l) /\ p <= 16 /\ StartIs(s)
  /\ \A j \in 1 .. p : IF j <= 15 THEN l[j] = s[j] ELSE l[j] = CR
\* A piece of the first line, and perhaps a CR.
Partly(t, f, size) ==
  /\ t \in Seq(RowOctet) /\ Len(t) <= size + 1
  /\ \A j \in 1 .. Len(t) : IF j <= size THEN t[j] = f[j] ELSE t[j] = CR
LEMMA PartlyPrefix ==
  ASSUME NEW f \in Seq(RowOctet), NEW t, Partly(t, f, Len(f))
  PROVE  IsPrefix(t, f \o Mark("CR")) /\ (Len(t) = Len(f) => t = f)
<1> DEFINE c == <<CR>>
           w == f \o c
<1>1. CR \in RowOctet
  BY OctetsApart
<1>2. w \in Seq(RowOctet) /\ Len(w) = Len(f) + 1 /\ (\A j \in 1 .. Len(f) : w[j] = f[j]) /\ w[Len(f) + 1] = CR
  BY <1>1, Followed
<1> HIDE DEF w
<1>3. PICK n \in Nat, k \in Nat : n = Len(f) /\ k = Len(t)
  BY DEF Partly
<1>4. t \in Seq(RowOctet) /\ k <= n + 1 /\ \A j \in 1 .. k : IF j <= n THEN t[j] = f[j] ELSE t[j] = CR
  BY <1>3 DEF Partly
<1>5. \A j \in 1 .. k : t[j] = w[j]
  <2>1. TAKE j \in 1 .. k
  <2>2. CASE j <= n
    BY <2>2, <1>2, <1>3, <1>4
  <2>3. CASE j > n
    <3>1. j = n + 1
      BY <2>3, <1>4
    <3> QED BY <3>1, <2>3, <1>2, <1>3, <1>4
  <2> QED BY <2>2, <2>3
<1>6. t = SubSeq(w, 1, k)
  <2> DEFINE q == SubSeq(w, 1, k)
  <2>1. q \in Seq(RowOctet) /\ Len(q) = k /\ \A p \in 1 .. k : q[p] = w[p]
    <3>1. k <= Len(w)
      BY <1>2, <1>3, <1>4
    <3> QED BY <3>1, <1>2, Beginning
  <2> HIDE DEF q
  <2>2. t = q
    BY <2>1, <1>3, <1>4, <1>5, SameSeq
  <2> QED BY <2>2 DEF q
<1>7. IsPrefix(t, w)
  <2>1. k \in 0 .. Len(w)
    BY <1>2, <1>3, <1>4
  <2> QED BY <2>1, <1>2, <1>6, PrefixOf
<1>8. ASSUME k = n PROVE t = f
  <2>1. \A j \in 1 .. k : t[j] = f[j]
    BY <1>4, <1>8
  <2> QED BY <2>1, <1>3, <1>4, <1>8, SameSeq
<1>9. Mark("CR") = c
  BY Marks, Zenon DEF CR
<1> QED BY <1>3, <1>7, <1>8, <1>9 DEF w

LEMMA VersionUnique ==
  ASSUME NEW t \in Seq(RowOctet), Len(t) = 8, VersionAt(t, 0)
  PROVE  t = Http!Version
<1> DEFINE v == Http!Version
<1>1. v \in Seq(RowOctet) /\ Len(v) = 8 /\ VersionAt(v, 0)
  BY VersionIs
<1> HIDE DEF v
<1>2. ASSUME NEW j \in 1 .. 8 PROVE t[j] = v[j]
  <2>1. j = 1 \/ j = 2 \/ j = 3 \/ j = 4 \/ j = 5 \/ j = 6 \/ j = 7 \/ j = 8
    OBVIOUS
  <2>2. /\ t[1] = v[1] /\ t[2] = v[2] /\ t[3] = v[3] /\ t[4] = v[4] /\ t[5] = v[5] /\ t[6] = v[6]
        /\ t[7] = v[7] /\ t[8] = v[8]
    BY <1>1 DEF VersionAt
  <2> QED BY <2>1, <2>2
<1>3. t = v
  BY <1>1, <1>2, SameSeq
<1> QED BY <1>3 DEF v

LEMMA SameVersion ==
  ASSUME NEW s, NEW o \in Nat, VersionAt(s, o), NEW j \in 1 .. 8
  PROVE  s[o + j] = Http!Version[j] /\ s[o + j] # Space[1]
<1> DEFINE v == Http!Version
<1>1. VersionAt(v, 0)
  BY VersionIs
<1> HIDE DEF v
<1>2. j = 1 \/ j = 2 \/ j = 3 \/ j = 4 \/ j = 5 \/ j = 6 \/ j = 7 \/ j = 8
  OBVIOUS
<1>3. /\ v[1] = [word |-> "HTTP/"] /\ v[2] = Inside /\ v[3] = Inside /\ v[4] = Inside /\ v[5] = Inside
      /\ v[6] = [word |-> "1.1"] /\ v[7] = Inside /\ v[8] = Inside
  BY <1>1 DEF VersionAt
<1>4. /\ s[o + 1] = [word |-> "HTTP/"] /\ s[o + 2] = Inside /\ s[o + 3] = Inside /\ s[o + 4] = Inside
      /\ s[o + 5] = Inside /\ s[o + 6] = [word |-> "1.1"] /\ s[o + 7] = Inside /\ s[o + 8] = Inside
  BY DEF VersionAt
<1>5. s[o + j] = v[j]
  BY <1>2, <1>3, <1>4
<1>6. v[j] # Space[1]
  BY <1>2, <1>3, MarksApart
<1> QED BY <1>5, <1>6 DEF v

LEMMA WhereSpaces ==
  ASSUME NEW l, NEW s, NEW p, StartOf(l, s, p)
  PROVE  /\ Answers => \A j \in 1 .. p : l[j] = Space[1] <=> j = 9 \/ j = 13
         /\ ~ Answers => \A j \in 1 .. p : l[j] = Space[1] <=> j = 4 \/ j = 7
<1>1. p \in Nat /\ p <= 16 /\ \A j \in 1 .. p : IF j <= 15 THEN l[j] = s[j] ELSE l[j] = CR
  BY DEF StartOf
<1>2. \A j \in 1 .. p : j <= 15 \/ j = 16
  BY <1>1
<1>3. CR # Space[1] /\ Inside # Space[1] /\ (\A w : [word |-> w] # Space[1]) /\ \A x : [digits |-> x] # Space[1]
  BY MarksApart
<1>4. ASSUME Answers, NEW j \in 1 .. 15 PROVE s[j] = Space[1] <=> j = 9 \/ j = 13
  <2>1. /\ VersionAt(s, 0) /\ s[9] = Space[1] /\ s[10] = [digits |-> start.status] /\ s[11] = Inside
        /\ s[12] = Inside /\ s[13] = Space[1] /\ s[14] = [word |-> "reason"] /\ s[15] = Inside
    BY <1>4 DEF StartOf, StartIs
  <2>2. \A i \in 1 .. 8 : s[i] # Space[1]
    <3>1. ASSUME NEW i \in 1 .. 8 PROVE s[i] # Space[1]
      <4>1. s[0 + i] # Space[1]
        BY <2>1, SameVersion
      <4> QED BY <4>1
    <3> QED BY <3>1
  <2>3. j \in 1 .. 8 \/ j = 9 \/ j = 10 \/ j = 11 \/ j = 12 \/ j = 13 \/ j = 14 \/ j = 15
    OBVIOUS
  <2> QED BY <2>1, <2>2, <2>3, <1>3
<1>5. ASSUME ~ Answers, NEW j \in 1 .. 15 PROVE s[j] = Space[1] <=> j = 4 \/ j = 7
  <2>1. /\ VersionAt(s, 7) /\ s[1] = [word |-> start.method] /\ s[2] = Inside /\ s[3] = Inside
        /\ s[4] = Space[1] /\ s[5] = [word |-> start.uri] /\ s[6] = Inside /\ s[7] = Space[1]
    BY <1>5 DEF StartOf, StartIs
  <2>2. \A i \in 1 .. 8 : s[7 + i] # Space[1]
    BY <2>1, SameVersion
  <2>3. j = 1 \/ j = 2 \/ j = 3 \/ j = 4 \/ j = 5 \/ j = 6 \/ j = 7 \/ \E i \in 1 .. 8 : j = 7 + i
    <3>1. j > 7 => j - 7 \in 1 .. 8 /\ j = 7 + (j - 7)
      OBVIOUS
    <3> QED BY <3>1
  <2> QED BY <2>1, <2>2, <2>3, <1>3
<1>6. ASSUME NEW a \in 1 .. 15, NEW b \in 1 .. 15, \A j \in 1 .. 15 : s[j] = Space[1] <=> j = a \/ j = b,
             NEW j \in 1 .. p
      PROVE  l[j] = Space[1] <=> j = a \/ j = b
  <2>1. CASE j <= 15
    BY <2>1, <1>1, <1>6
  <2>2. CASE j = 16
    BY SMTT(30), <2>2, <1>1, <1>3
  <2> QED BY <2>1, <2>2, <1>2
<1>7. Answers => \A j \in 1 .. p : l[j] = Space[1] <=> j = 9 \/ j = 13
  <2>1. 9 \in 1 .. 15 /\ 13 \in 1 .. 15
    BY SMTT(30)
  <2> QED BY <2>1, <1>4, <1>6
<1>8. ~ Answers => \A j \in 1 .. p : l[j] = Space[1] <=> j = 4 \/ j = 7
  <2>1. 4 \in 1 .. 15 /\ 7 \in 1 .. 15
    OBVIOUS
  <2> QED BY <2>1, <1>5, <1>6
<1> QED BY <1>7, <1>8

LEMMA TwoOctets ==
  ASSUME NEW S, NEW d \in Seq(S), NEW w, Len(d) = 2, d[1] = [word |-> w], d[2] = Inside
  PROVE  d = Field([word |-> w], 2)
<1> DEFINE h == [word |-> w]
           R == S \cup {h, Inside}
           f == Field(h, 2)
<1>1. h \in R /\ Inside \in R /\ d \in Seq(R)
  <2>1. S \subseteq R
    OBVIOUS
  <2> QED BY <2>1, SeqMonotonic
<1>2. d[1] = h
  OBVIOUS
<1> HIDE DEF h, R
<1>3. f \in Seq(R) /\ Len(f) = 2 /\ f[1] = h /\ f[2] = Inside
  BY <1>1, ShortFields, Zenon
<1> HIDE DEF f
<1>4. \A j \in 1 .. Len(d) : d[j] = f[j]
  <2>1. \A j \in 1 .. 2 : j = 1 \/ j = 2
    OBVIOUS
  <2> QED BY <2>1, <1>2, <1>3
<1>5. d = f
  BY <1>1, <1>3, <1>4, SameSeq
<1> QED BY <1>5 DEF f, h

RequestPartsAre(parts, p) ==
  /\ p < 7 => Len(parts) < 3
  /\ p >= 7 => /\ Len(parts) >= 3
               /\ parts[1] = Field([word |-> start.method], 3) /\ parts[2] = Field([word |-> start.uri], 2)
               /\ Partly(parts[3], Http!Version, 8) /\ (p = 15 => Len(parts[3]) = 8)
LEMMA RequestParts ==
  ASSUME ~ Answers, NEW l, NEW s, NEW p, StartOf(l, s, p)
  PROVE  RequestPartsAre(Split(l, Space), p)
<1> DEFINE mark == Space
           parts == Split(l, mark)
<1>1. /\ l \in Seq(RowOctet) /\ p = Len(l) /\ p <= 16 /\ p \in Nat
      /\ \A j \in 1 .. p : IF j <= 15 THEN l[j] = s[j] ELSE l[j] = CR
  BY DEF StartOf
<1>2. /\ VersionAt(s, 7) /\ s[1] = [word |-> start.method] /\ s[2] = Inside /\ s[3] = Inside
      /\ s[4] = Space[1] /\ s[5] = [word |-> start.uri] /\ s[6] = Inside /\ s[7] = Space[1]
  BY DEF StartOf, StartIs
<1>3. \A j \in 1 .. p : l[j] = mark[1] <=> j = 4 \/ j = 7
  BY WhereSpaces
<1> HIDE DEF mark
<1>4. PICK four \in Nat, seven \in Nat : four = 4 /\ seven = 7
  OBVIOUS
<1>5. CASE p < 4
  <2>1. \A j \in 1 .. Len(l) : l[j] # mark[1]
    BY <1>1, <1>3, <1>5
  <2>2. Len(parts) = 1
    BY <1>1, <2>1, SplitOne
  <2> HIDE DEF parts
  <2>3. RequestPartsAre(parts, p)
    <3>1. ~ p >= 7 /\ Len(parts) < 3
      BY <1>1, <2>2, <1>5
    <3> QED BY <3>1 DEF RequestPartsAre
  <2> QED BY <2>3 DEF parts, mark
<1>6. CASE p >= 4 /\ p < 7
  <2>1. four \in 1 .. Len(l) /\ l[four] = mark[1] /\ \A j \in 1 .. Len(l) : j # four => l[j] # mark[1]
    BY <1>1, <1>3, <1>4, <1>6
  <2>2. Len(parts) = 2
    BY SMTT(30), <1>1, <2>1, SplitTwo
  <2> HIDE DEF parts
  <2>3. RequestPartsAre(parts, p)
    <3>1. ~ p >= 7 /\ Len(parts) < 3
      BY <1>1, <2>2, <1>6
    <3> QED BY <3>1 DEF RequestPartsAre
  <2> QED BY <2>3 DEF parts, mark
<1>7. CASE p >= 7
  <2>1. /\ four \in 1 .. Len(l) /\ seven \in 1 .. Len(l) /\ four < seven
        /\ l[four] = mark[1] /\ l[seven] = mark[1]
        /\ \A j \in 1 .. Len(l) : j # four /\ j # seven => l[j] # mark[1]
    BY <1>1, <1>3, <1>4, <1>7
  <2>2. Len(parts) = 3 /\ parts[1] = SubSeq(l, 1, four - 1) /\ parts[2] = SubSeq(l, four + 1, seven - 1)
        /\ parts[3] = SubSeq(l, seven + 1, Len(l))
    <3>1. l \in Seq(RowOctet)
      BY <1>1
    <3>2. MarkedTwice(l, mark, four, seven)
      BY <2>1 DEF MarkedTwice
    <3>3. ThreeParts(parts, l, four, seven)
      BY <3>1, <3>2, SplitThree
    <3> QED BY <3>3 DEF ThreeParts
  <2> HIDE DEF parts
  <2>3. parts[1] = Field([word |-> start.method], 3)
    <3> DEFINE m == four - 1
               q == SubSeq(l, 1, m)
               w == start.method
    <3>1. m \in Nat /\ m <= Len(l) /\ m = 3
      BY <1>1, <1>4, <1>7
    <3> HIDE DEF m
    <3>2. q \in Seq(RowOctet) /\ Len(q) = m /\ \A i \in 1 .. m : q[i] = l[i]
      BY <3>1, <1>1, Beginning
    <3> HIDE DEF q
    <3>3. q[1] = [word |-> w] /\ q[2] = Inside /\ q[3] = Inside /\ Len(q) = 3
      BY <3>1, <3>2, <1>1, <1>2, <1>7
    <3>4. BeginsWith(q, w)
      BY <3>3 DEF BeginsWith
    <3> HIDE DEF w
    <3>5. q = Field([word |-> w], 3)
      BY <3>2, <3>3, <3>4, ThreeOctets
    <3> QED BY <3>5, <2>2 DEF q, m, w
  <2>4. parts[2] = Field([word |-> start.uri], 2)
    <3> DEFINE m == seven - 1
               q == SubSeq(l, four + 1, m)
               w == start.uri
    <3>1. m \in Nat /\ m <= Len(l) /\ m = 6 /\ four <= m
      BY <1>1, <1>4, <1>7
    <3> HIDE DEF m
    <3>2. q \in Seq(RowOctet) /\ Len(q) = m - four /\ \A i \in 1 .. m - four : q[i] = l[four + i]
      BY <3>1, <1>1, Slice
    <3> HIDE DEF q
    <3>3. m - four = 2 /\ 4 + 1 = 5 /\ 4 + 2 = 6
      BY <3>1, <1>4
    <3>4. q[1] = l[5] /\ q[2] = l[6] /\ Len(q) = 2
      BY <3>2, <3>3, <1>4
    <3>5. l[5] = s[5] /\ l[6] = s[6]
      BY <1>1, <1>7
    <3>6. q[1] = [word |-> w] /\ q[2] = Inside
      BY <3>4, <3>5, <1>2
    <3> HIDE DEF w
    <3>7. q = Field([word |-> w], 2)
      BY <3>2, <3>4, <3>6, TwoOctets
    <3> QED BY <3>7, <2>2 DEF q, m, w
  <2>5. Partly(parts[3], Http!Version, 8) /\ (p = 15 => Len(parts[3]) = 8)
    <3> DEFINE q == SubSeq(l, seven + 1, p)
    <3>1. seven <= p /\ p <= Len(l)
      BY <1>1, <1>4, <1>7
    <3>2. q \in Seq(RowOctet) /\ Len(q) = p - seven /\ \A i \in 1 .. p - seven : q[i] = l[seven + i]
      BY <3>1, <1>1, Slice
    <3> HIDE DEF q
    <3>3. Len(q) = p - 7 /\ \A i \in 1 .. p - 7 : q[i] = l[7 + i]
      BY <3>2, <1>4
    <3>4. ASSUME NEW j \in 1 .. p - 7 PROVE IF j <= 8 THEN q[j] = Http!Version[j] ELSE q[j] = CR
      <4>1. 7 + j \in 1 .. p /\ (7 + j <= 15 <=> j <= 8)
        BY <1>1
      <4>2. CASE j <= 8
        <5>1. q[j] = s[7 + j] /\ j \in 1 .. 8
          BY <4>1, <4>2, <3>3, <1>1
        <5> QED BY <5>1, <4>2, <1>2, SameVersion
      <4>3. CASE ~ j <= 8
        BY <4>1, <4>3, <3>3, <1>1
      <4> QED BY <4>2, <4>3
    <3>5. Len(q) <= 8 + 1 /\ (p = 15 => Len(q) = 8)
      BY <3>3, <1>1
    <3>6. Partly(q, Http!Version, 8)
      BY <3>2, <3>3, <3>4, <3>5 DEF Partly
    <3>7. parts[3] = q
      BY <2>2, <1>1 DEF q
    <3> QED BY <3>5, <3>6, <3>7
  <2>6. RequestPartsAre(parts, p)
    <3>1. ~ p < 7
      BY <1>1, <1>7
    <3> QED BY SMTT(30), <3>1, <2>2, <2>3, <2>4, <2>5 DEF RequestPartsAre
  <2> QED BY <2>6 DEF parts, mark
<1> QED BY <1>1, <1>5, <1>6, <1>7

StatusField == Field([digits |-> start.status], 3)
ResponsePartsAre(parts, p) ==
  /\ p < 10 => Len(parts) < 2 \/ ~ IsNumber(parts[2])
  /\ p >= 10 => /\ Len(parts) >= 2 /\ parts[1] = Http!Version /\ IsNumber(parts[2])
                /\ Partly(parts[2], StatusField, 3) /\ (p = 15 => Len(parts[2]) = 3)

LEMMA StatusOctets ==
  ASSUME Answers, NEW l, NEW s, NEW p, StartOf(l, s, p), p >= 10, NEW q, NEW e \in Nat, e >= 10, e <= p, e <= 12,
         q = SubSeq(l, 10, e)
  PROVE  IsNumber(q) /\ Partly(q, StatusField, 3) /\ Len(q) = e - 9
<1>1. /\ l \in Seq(RowOctet) /\ p = Len(l) /\ p <= 16 /\ p \in Nat
      /\ \A j \in 1 .. p : IF j <= 15 THEN l[j] = s[j] ELSE l[j] = CR
  BY DEF StartOf
<1>2. s[10] = [digits |-> start.status] /\ s[11] = Inside /\ s[12] = Inside /\ start \in [status : 100 .. 599]
  BY DEF StartOf, StartIs
<1>3. PICK nine \in Nat : nine = 9
  OBVIOUS
<1>4. q \in Seq(RowOctet) /\ Len(q) = e - 9 /\ \A i \in 1 .. e - 9 : q[i] = l[9 + i]
  <2>1. nine <= e /\ e <= Len(l)
    BY <1>1, <1>3
  <2>2. /\ SubSeq(l, nine + 1, e) \in Seq(RowOctet) /\ Len(SubSeq(l, nine + 1, e)) = e - nine
        /\ \A i \in 1 .. e - nine : SubSeq(l, nine + 1, e)[i] = l[nine + i]
    BY <2>1, <1>1, Slice
  <2>3. nine + 1 = 10
    BY <1>3
  <2>4. q = SubSeq(l, nine + 1, e)
    BY SMTT(30), <2>3
  <2> QED BY <2>2, <2>4, <1>3
<1> DEFINE h == [digits |-> start.status]
           f == Field(h, 3)
<1>5. h \in RowOctet /\ Inside \in RowOctet
  <2>1. start.status \in 100 .. 599
    BY <1>2
  <2> QED BY <2>1, RowOctets
<1>6. "digits" \in DOMAIN h
  OBVIOUS
<1>7. s[10] = h
  BY <1>2
<1> HIDE DEF h
<1>8. f[1] = h /\ f[2] = Inside /\ f[3] = Inside
  <2>1. PICK three \in Nat : three = 3
    OBVIOUS
  <2>2. \A i \in 1 .. three : Field(h, three)[i] = IF i = 1 THEN h ELSE Inside
    BY <1>5, Fields, Zenon
  <2> QED BY <2>1, <2>2
<1> HIDE DEF f
<1>9. ASSUME NEW j \in 1 .. e - 9 PROVE q[j] = f[j] /\ q[j] = IF j = 1 THEN h ELSE Inside
  <2>1. j = 1 \/ j = 2 \/ j = 3
    OBVIOUS
  <2>2. 9 + j \in 1 .. p /\ 9 + j <= 15 /\ 9 + 1 = 10 /\ 9 + 2 = 11 /\ 9 + 3 = 12
    BY <1>1
  <2>3. q[j] = s[9 + j]
    BY <2>2, <1>1, <1>4
  <2> QED BY <2>1, <2>2, <2>3, <1>2, <1>7, <1>8
<1>10. Partly(q, f, 3)
  <2>1. Len(q) <= 3 + 1 /\ \A j \in 1 .. Len(q) : j \in 1 .. e - 9 /\ j <= 3
    BY <1>4
  <2> QED BY <2>1, <1>4, <1>9 DEF Partly
<1>11. IsNumber(q)
  <2>1. Len(q) > 0 /\ 1 \in 1 .. e - 9
    BY <1>4
  <2>2. q # << >> /\ q[0 + 1] = h
    <3>4. Len(q) # 0
      BY <2>1
    <3>5. Len(<< >>) = 0
      OBVIOUS
    <3>1. q # << >>
      BY <3>4, <3>5, Zenon
    <3>2. q[1] = h
      BY <2>1, <1>9
    <3>3. 0 + 1 = 1
      OBVIOUS
    <3> QED BY <3>1, <3>2, <3>3
  <2>3. Has(q, 0, "digits")
    BY <2>2, <1>6 DEF Has
  <2>4. \A i \in 2 .. Len(q) : i \in 1 .. e - 9 /\ i # 1
    BY <1>4
  <2> QED BY <2>2, <2>3, <2>4, <1>9 DEF IsNumber
<1> QED BY <1>4, <1>10, <1>11 DEF StatusField, f, h

LEMMA ResponseParts ==
  ASSUME Answers, NEW l, NEW s, NEW p, StartOf(l, s, p)
  PROVE  ResponsePartsAre(Split(l, Space), p)
<1> DEFINE mark == Space
           parts == Split(l, mark)
<1>0. l \in Seq(RowOctet)
  BY DEF StartOf
<1>1. /\ p = Len(l) /\ p <= 16 /\ p \in Nat
      /\ \A j \in 1 .. p : IF j <= 15 THEN l[j] = s[j] ELSE l[j] = CR
  BY DEF StartOf
<1>2. VersionAt(s, 0)
  BY DEF StartOf, StartIs
<1>3. \A j \in 1 .. p : l[j] = mark[1] <=> j = 9 \/ j = 13
  BY WhereSpaces
<1> HIDE DEF mark
<1>4. PICK nine \in Nat, last \in Nat : nine = 9 /\ last = 13
  OBVIOUS
<1>5. CASE p < 9
  <2>1. \A j \in 1 .. Len(l) : l[j] # mark[1]
    BY <1>1, <1>3, <1>5
  <2>2. Len(parts) = 1
    BY <1>0, <2>1, SplitOne
  <2> HIDE DEF parts
  <2>4. ResponsePartsAre(parts, p)
    <3>1. ~ p >= 10 /\ Len(parts) < 2
      BY <1>1, <2>2, <1>5
    <3> QED BY <3>1 DEF ResponsePartsAre
  <2> QED BY <2>4 DEF parts, mark
<1>6. ASSUME p >= 9 PROVE SubSeq(l, 1, nine - 1) = Http!Version
  <2> DEFINE m == nine - 1
             q == SubSeq(l, 1, m)
  <2>1. m \in Nat /\ m <= Len(l) /\ m = 8
    BY <1>1, <1>4, <1>6
  <2> HIDE DEF m
  <2>2. q \in Seq(RowOctet) /\ Len(q) = m /\ \A i \in 1 .. m : q[i] = l[i]
    BY <2>1, <1>0, Beginning
  <2> HIDE DEF q
  <2>3. Len(q) = 8 /\ \A i \in 1 .. 8 : q[i] = s[i]
    BY <2>1, <2>2, <1>1, <1>6
  <2>4. VersionAt(q, 0)
    BY <2>3, <1>2 DEF VersionAt
  <2>5. q = Http!Version
    BY <2>2, <2>3, <2>4, VersionUnique
  <2> QED BY <2>5 DEF q, m
<1>7. CASE p >= 9 /\ p < 13
  <2>1. nine \in 1 .. Len(l) /\ l[nine] = mark[1] /\ \A j \in 1 .. Len(l) : j # nine => l[j] # mark[1]
    BY <1>1, <1>3, <1>4, <1>7
  <2>2. Len(parts) = 2 /\ parts[1] = SubSeq(l, 1, nine - 1) /\ parts[2] = SubSeq(l, nine + 1, Len(l))
    BY <1>0, <2>1, SplitTwo
  <2> HIDE DEF parts
  <2>3. parts[2] = SubSeq(l, 10, p)
    BY <2>2, <1>1, <1>4
  <2>4. CASE p = 9
    <3>1. parts[2] = << >>
      BY <2>3, <2>4, <1>0
    <3>2. ~ IsNumber(parts[2])
      BY <3>1 DEF IsNumber
    <3>3. ResponsePartsAre(parts, p)
      <4>1. ~ p >= 10
        BY <2>4
      <4> QED BY <3>2, <4>1 DEF ResponsePartsAre
    <3> QED BY <3>3 DEF parts, mark
  <2>5. CASE p >= 10
    <3>1. p <= 12 /\ p <= p
      BY <1>1, <1>7
    <3> DEFINE q == SubSeq(l, 10, p)
    <3>2. IsNumber(q) /\ Partly(q, StatusField, 3)
      BY <2>5, <3>1, <1>1, StatusOctets
    <3> HIDE DEF q
    <3>3. ~ p < 10 /\ p # 15 /\ Len(parts) >= 2 /\ parts[1] = Http!Version
      BY <2>2, <2>5, <1>1, <1>6, <1>7, SMTT(30)
    <3>4. ResponsePartsAre(parts, p)
      BY <2>3, <3>2, <3>3 DEF ResponsePartsAre, q
    <3> QED BY <3>4 DEF parts, mark
  <2> QED BY <2>4, <2>5, <1>1, <1>7
<1>8. CASE p >= 13
  <2>1. /\ nine \in 1 .. Len(l) /\ last \in 1 .. Len(l) /\ nine < last
        /\ l[nine] = mark[1] /\ l[last] = mark[1]
        /\ \A j \in 1 .. Len(l) : j # nine /\ j # last => l[j] # mark[1]
    BY <1>1, <1>3, <1>4, <1>8
  <2>2. Len(parts) = 3 /\ parts[1] = SubSeq(l, 1, nine - 1) /\ parts[2] = SubSeq(l, nine + 1, last - 1)
        /\ parts[3] = SubSeq(l, last + 1, Len(l))
    <3>1. MarkedTwice(l, mark, nine, last)
      BY <2>1 DEF MarkedTwice
    <3>2. ThreeParts(parts, l, nine, last)
      BY <1>0, <3>1, SplitThree
    <3> QED BY <3>2 DEF ThreeParts
  <2> HIDE DEF parts
  <2>3. parts[2] = SubSeq(l, 10, 12)
    BY <2>2, <1>4
  <2>4. PICK e \in Nat : e = 12
    OBVIOUS
  <2> DEFINE q == SubSeq(l, 10, e)
  <2>5. e >= 10 /\ e <= p /\ e <= 12 /\ p >= 10
    BY <2>4, <1>1, <1>8
  <2>6. IsNumber(q) /\ Partly(q, StatusField, 3) /\ Len(q) = e - 9
    BY ZenonT(40), <2>5, StatusOctets
  <2>7. parts[2] = q
    BY <2>3, <2>4
  <2> HIDE DEF q
  <2>8. ~ p < 10 /\ Len(parts) >= 2 /\ parts[1] = Http!Version /\ Len(q) = 3
    BY <2>2, <2>4, <2>5, <2>6, <1>1, <1>6, <1>8
  <2>9. ResponsePartsAre(parts, p)
    BY <2>6, <2>7, <2>8 DEF ResponsePartsAre
  <2> QED BY <2>9 DEF parts, mark
<1> QED BY <1>1, <1>5, <1>7, <1>8

\* The first line as it is read, of which the last field may be cut short.
FirstRead(first, whole) ==
  \E t : /\ first = IF Answers THEN [version |-> Http!Version, status_code |-> t]
                    ELSE [method |-> Field([word |-> start.method], 3), uri |-> Field([word |-> start.uri], 2),
                          version |-> t]
         /\ IsPrefix(t, (IF Answers THEN StatusField ELSE Http!Version) \o Mark("CR"))
         /\ whole => t = IF Answers THEN StatusField ELSE Http!Version
ReadFrom(d, whole) ==
  \E first : FirstRead(first, whole) /\ Http!ParseHttpData(d) = Http!Finish(first, LinesOf(d))
LEMMA StartRead ==
  ASSUME NEW d, NEW s, NEW n, StartsLike(d, s, n), NEW p,
         Len(LinesOf(d)) >= 1, StartOf(LinesOf(d)[1], s, p)
  PROVE  /\ Http!ParseHttpData(d) = Err \/ ReadFrom(d, p = 15)
         /\ IsText(d) /\ p >= 10 /\ n >= 5 /\ (~ Answers => start.method # "other") => ReadFrom(d, p = 15)
<1> DEFINE lines == LinesOf(d)
           l == lines[1]
           parts == Split(l, Space)
           result == Http!ParseHttpData(d)
<1>1. p \in Nat /\ n \in Nat /\ n = Len(d)
  BY DEF StartOf, StartsLike
<1>2. CASE Answers
  <2>1. ResponsePartsAre(parts, p)
    BY <1>2, ResponseParts
  <2>2. result = IF IsText(d) /\ n >= 5 THEN Http!ParseResponse(lines) ELSE Err
    BY <1>2, ResponseDispatch
  <2>3. Http!ParseResponse(lines) =
          IF Len(parts) < 2 \/ ~ IsNumber(parts[2]) THEN Err
          ELSE Http!Finish([version |-> parts[1], status_code |-> parts[2]], lines)
    BY HttpOctets, HttpStrings, Zenon DEF Http!ParseResponse
  <2> HIDE DEF parts, lines, result
  <2>4. CASE p < 10
    <3>1. ~ p >= 10
      BY <2>4, <1>1
    <3>2. Http!ParseResponse(lines) = Err
      BY <2>1, <2>3, <2>4, Zenon DEF ResponsePartsAre
    <3> QED BY <2>2, <3>1, <3>2, Zenon DEF result
  <2>5. CASE p >= 10
    <3> DEFINE t == parts[2]
               first == [version |-> Http!Version, status_code |-> t]
    <3>1. Len(parts) >= 2 /\ parts[1] = Http!Version /\ IsNumber(t) /\ Partly(t, StatusField, 3)
          /\ (p = 15 => Len(t) = 3)
      BY <2>1, <2>5 DEF ResponsePartsAre
    <3>2. ~ Len(parts) < 2
      BY <2>1, <2>5, <1>1 DEF ResponsePartsAre
    <3>3. Http!ParseResponse(lines) = Http!Finish(first, lines)
      BY <2>3, <3>1, <3>2, Zenon
    <3>4. StatusField \in Seq(RowOctet) /\ Len(StatusField) = 3
      <4> DEFINE h == [digits |-> start.status]
      <4>1. start.status \in 100 .. 599
        BY SMTT(30), <1>2 DEF StartsLike, StartIs
      <4>2. h \in RowOctet /\ Inside \in RowOctet
        BY <4>1, RowOctets
      <4> HIDE DEF h
      <4>3. PICK three \in Nat : three = 3
        OBVIOUS
      <4>4. Field(h, three) \in Seq(RowOctet) /\ Len(Field(h, three)) = three
        BY <4>2, Fields, Zenon
      <4> QED BY <4>3, <4>4 DEF StatusField, h
    <3>5. IsPrefix(t, StatusField \o Mark("CR")) /\ (Len(t) = 3 => t = StatusField)
      <4> DEFINE f == StatusField
      <4>1. f \in Seq(RowOctet) /\ Partly(t, f, Len(f))
        BY <3>1, <3>4
      <4> HIDE DEF f, t
      <4>2. IsPrefix(t, f \o Mark("CR")) /\ (Len(t) = Len(f) => t = f)
        BY <4>1, PartlyPrefix
      <4> QED BY <4>2, <3>4 DEF f
    <3>6. FirstRead(first, p = 15)
      BY <3>1, <3>5, <1>2, Zenon DEF FirstRead
    <3> HIDE DEF first
    <3>7. result = Err \/ result = Http!Finish(first, lines)
      BY <2>2, <3>3, Zenon
    <3>8. IsText(d) /\ n >= 5 => result = Http!Finish(first, lines)
      BY <2>2, <3>3, Zenon
    <3> QED BY <3>6, <3>7, <3>8, Zenon DEF ReadFrom, result, lines
  <2> QED BY <2>4, <2>5, <1>1
<1>3. CASE ~ Answers
  <2>1. RequestPartsAre(parts, p)
    BY <1>3, RequestParts
  <2>2. result = IF IsText(d) /\ n >= 3 /\ start.method \in Http!Method THEN Http!ParseRequest(lines) ELSE Err
    BY <1>3, RequestDispatch
  <2>3. Http!ParseRequest(lines) =
          IF Len(parts) < 3 THEN Err
          ELSE Http!Finish([method |-> parts[1], uri |-> parts[2], version |-> parts[3]], lines)
    BY HttpOctets, HttpStrings, Zenon DEF Http!ParseRequest
  <2>4. start.method # "other" => start.method \in Http!Method
    <3>1. start \in [method : Http!Method \cup {"other"}, uri : STRING]
      BY <1>3 DEF StartsLike, StartIs
    <3>2. start.method \in Http!Method \cup {"other"}
      BY <3>1
    <3> QED BY <3>2
  <2> HIDE DEF parts, lines, result
  <2>5. CASE p < 7
    <3>1. ~ p >= 10
      BY <2>5, <1>1
    <3>2. Http!ParseRequest(lines) = Err
      BY <2>1, <2>3, <2>5, Zenon DEF RequestPartsAre
    <3> QED BY <2>2, <3>1, <3>2, Zenon DEF result
  <2>6. CASE p >= 7
    <3> DEFINE t == parts[3]
               first == [method |-> Field([word |-> start.method], 3), uri |-> Field([word |-> start.uri], 2),
                         version |-> t]
    <3>1. /\ parts[1] = Field([word |-> start.method], 3) /\ parts[2] = Field([word |-> start.uri], 2)
          /\ Partly(t, Http!Version, 8) /\ (p = 15 => Len(t) = 8) /\ Len(parts) >= 3
      BY <2>1, <2>6 DEF RequestPartsAre
    <3>2. ~ Len(parts) < 3
      <4>1. l \in Seq(RowOctet)
        BY DEF StartOf, l, lines
      <4>2. parts \in Seq(Seq(RowOctet))
        <5> DEFINE mark == Space
        <5> HIDE DEF mark
        <5>1. \E f : Splits(f, RowOctet, l, mark)
          BY <4>1, SplitterSplits
        <5>2. Split(l, mark) \in Seq(Seq(RowOctet))
          <6>1. Split(l, mark) = Splitter(l, mark)[1]
            BY SplitIs
          <6>2. Splits(Splitter(l, mark), RowOctet, l, mark)
            BY <4>1, SplitterSplits
          <6>3. 1 \in 1 .. Len(l) + 1
            BY <4>1
          <6> QED BY <6>1, <6>2, <6>3 DEF Splits
        <5> QED BY <5>2 DEF parts, mark
      <4>3. Len(parts) \in Nat
        BY <4>2
      <4> QED BY <3>1, <4>3
    <3>3. Http!ParseRequest(lines) = Http!Finish(first, lines)
      BY <2>3, <3>1, <3>2, Zenon
    <3>4. IsPrefix(t, Http!Version \o Mark("CR")) /\ (Len(t) = 8 => t = Http!Version)
      <4> DEFINE f == Http!Version
      <4>1. f \in Seq(RowOctet) /\ Partly(t, f, Len(f)) /\ Len(f) = 8
        BY <3>1, VersionIs
      <4> HIDE DEF f, t
      <4>2. IsPrefix(t, f \o Mark("CR")) /\ (Len(t) = Len(f) => t = f)
        BY <4>1, PartlyPrefix
      <4> QED BY <4>1, <4>2 DEF f
    <3>5. FirstRead(first, p = 15)
      BY <3>1, <3>4, <1>3, Zenon DEF FirstRead
    <3> HIDE DEF first
    <3>6. result = Err \/ result = Http!Finish(first, lines)
      BY <2>2, <3>3, Zenon
    <3>7. IsText(d) /\ n >= 5 /\ start.method # "other" => result = Http!Finish(first, lines)
      <4>1. n >= 5 => n >= 3
        BY <1>1
      <4> QED BY <2>2, <2>4, <3>3, <4>1, Zenon
    <3> QED BY <3>5, <3>6, <3>7, <1>3, Zenon DEF ReadFrom, result, lines
  <2> QED BY <2>5, <2>6, <1>1
<1> QED BY <1>2, <1>3

(***************************************************************************)
(* How it reads the header lines.                                          *)
(***************************************************************************)
KeyField(h) == Field([word |-> h.name, upper |-> FALSE], 2)
LEMMA KeyIs == ASSUME NEW h \in Http!Line PROVE Http!KeyOf(h) = KeyField(h)
<1> DEFINE g == [h EXCEPT !.upper = FALSE]
<1>1. g.name = h.name /\ g.upper = FALSE
  BY DEF Http!Line
<1> HIDE DEF g
<1>2. Http!Name(g) = Field([word |-> h.name, upper |-> FALSE], 2)
  BY <1>1, HttpOctets DEF Http!Name
<1> QED BY <1>2 DEF Http!KeyOf, KeyField, g

\* Octets of two, the first of which starts a field.
PairOf(x, first) == x \in Seq(RowOctet) /\ Len(x) = 2 /\ x[1] = first /\ x[2] = Inside
LEMMA LowerOf ==
  ASSUME NEW x, NEW first, PairOf(x, first)
  PROVE  Http!ToLowercase(x) =
           [i \in 1 .. 2 |-> IF i = 1 THEN IF "upper" \in DOMAIN first THEN [first EXCEPT !.upper = FALSE]
                                                                      ELSE first
                             ELSE Inside]
<1>1. x \in Seq(RowOctet) /\ Len(x) = 2 /\ x[1] = first /\ x[2] = Inside /\ DOMAIN x = 1 .. 2
  BY DEF PairOf
<1>2. \A i \in 1 .. 2 : (i - 1) + 1 = i
  OBVIOUS
<1>3. \A i \in 1 .. 2 : Has(x, i - 1, "upper") <=> "upper" \in DOMAIN x[i]
  BY <1>2 DEF Has
<1>4. "upper" \notin DOMAIN Inside
  BY DEF Inside
<1>5. Http!ToLowercase(x) =
        [i \in 1 .. 2 |-> IF Has(x, i - 1, "upper") THEN [x[i] EXCEPT !.upper = FALSE] ELSE x[i]]
  BY <1>1, HttpStrings DEF Http!ToLowercase
<1>6. \A i \in 1 .. 2 : i = 1 \/ i = 2
  OBVIOUS
<1>7. ASSUME NEW i \in 1 .. 2
      PROVE  (IF Has(x, i - 1, "upper") THEN [x[i] EXCEPT !.upper = FALSE] ELSE x[i]) =
             (IF i = 1 THEN IF "upper" \in DOMAIN first THEN [first EXCEPT !.upper = FALSE] ELSE first ELSE Inside)
  <2>1. CASE i = 1
    BY <2>1, <1>1, <1>3
  <2>2. CASE i = 2
    BY <2>2, <1>1, <1>3, <1>4
  <2> QED BY <2>1, <2>2, <1>6
<1> QED BY <1>5, <1>7

\* In lower case.
LEMMA LowerFirst ==
  ASSUME NEW n \in STRING, NEW u \in BOOLEAN
  PROVE  [[word |-> n, upper |-> u] EXCEPT !.upper = FALSE] = [word |-> n, upper |-> FALSE]
<1> DEFINE f == [word |-> n, upper |-> u]
<1>1. f \in [word : STRING, upper : BOOLEAN] /\ f.word = n
  OBVIOUS
<1> HIDE DEF f
<1> DEFINE g == [f EXCEPT !.upper = FALSE]
<1>2. g \in [word : STRING, upper : BOOLEAN] /\ g.word = n /\ g.upper = FALSE
  BY <1>1
<1> HIDE DEF g
<1>3. g = [word |-> n, upper |-> FALSE]
  BY <1>2
<1> QED BY <1>3 DEF f, g

LEMMA LowerName ==
  ASSUME NEW h \in Http!Line, NEW x, PairOf(x, [word |-> h.name, upper |-> h.upper])
  PROVE  Http!ToLowercase(x) = KeyField(h)
<1> DEFINE first == [word |-> h.name, upper |-> h.upper]
<1>1. "upper" \in DOMAIN first
  OBVIOUS
<1>2. [first EXCEPT !.upper = FALSE] = [word |-> h.name, upper |-> FALSE]
  <2>1. h.name \in STRING /\ h.upper \in BOOLEAN
    BY DEF Http!Line
  <2> QED BY <2>1, LowerFirst
<1> HIDE DEF first
<1>3. PairOf(x, first)
  BY DEF first
<1>4. Http!ToLowercase(x) =
        [i \in 1 .. 2 |-> IF i = 1 THEN IF "upper" \in DOMAIN first THEN [first EXCEPT !.upper = FALSE]
                                                                   ELSE first
                          ELSE Inside]
  BY <1>3, LowerOf
<1> QED BY <1>1, <1>2, <1>4 DEF KeyField, Field

More == Field([word |-> "more"], 2)
LEMMA LowerMore ==
  ASSUME NEW x, PairOf(x, [word |-> "more"])
  PROVE  Http!ToLowercase(x) = More
<1> DEFINE first == [word |-> "more"]
<1>1. "upper" \notin DOMAIN first
  OBVIOUS
<1> HIDE DEF first
<1>3. PairOf(x, first)
  BY DEF first
<1>4. Http!ToLowercase(x) =
        [i \in 1 .. 2 |-> IF i = 1 THEN IF "upper" \in DOMAIN first THEN [first EXCEPT !.upper = FALSE]
                                                                   ELSE first
                          ELSE Inside]
  BY <1>3, LowerOf
<1> QED BY <1>1, <1>4 DEF More, Field, first

LEMMA KeysDiffer == ASSUME NEW h PROVE KeyField(h) # More
<1>1. KeyField(h)[1] = [word |-> h.name, upper |-> FALSE] /\ More[1] = [word |-> "more"]
  BY DEF KeyField, More, Field
<1>2. "upper" \in DOMAIN [word |-> h.name, upper |-> FALSE] /\ "upper" \notin DOMAIN [word |-> "more"]
  OBVIOUS
<1> QED BY <1>1, <1>2, Zenon

LEMMA FindsColon ==
  ASSUME NEW s \in Seq(RowOctet), NEW c \in 1 .. Len(s), s[c] = Colon[1],
         \A j \in 1 .. c - 1 : s[j] # Colon[1]
  PROVE  /\ Http!HasColon(s)
         /\ Http!FieldName(s) = Http!ToLowercase(Trim(SubSeq(s, 1, c - 1)))
         /\ Http!FieldValue(s) = Trim(SubSeq(s, c + 1, Len(s)))
<1> DEFINE T == {i \in DOMAIN s : s[i] = Colon[1]}
<1>1. DOMAIN s = 1 .. Len(s)
  OBVIOUS
<1>2. T \in SUBSET Nat /\ c \in T /\ \A y \in T : c <= y
  BY <1>1
<1>3. Min(T) = c
  <2> HIDE DEF T
  <2> QED BY <1>2, MinIs
<1>4. Http!FindColon(s) = c
  BY <1>3, HttpOctets, HttpStrings DEF Http!FindColon
<1>5. Http!HasColon(s)
  BY <1>1, HttpOctets DEF Http!HasColon
<1> QED BY <1>4, <1>5, HttpStrings DEF Http!FieldName, Http!FieldValue

LEMMA ColonsApart ==
  /\ (\A w : [word |-> w] # Colon[1]) /\ (\A w, u : [word |-> w, upper |-> u] # Colon[1])
  /\ Inside # Colon[1] /\ CR # Colon[1] /\ Space[1] # Colon[1]
  /\ Blank(Space[1]) /\ Blank(CR) /\ ~ Blank(Inside)
  /\ (\A w : ~ Blank([word |-> w])) /\ (\A w, u : ~ Blank([word |-> w, upper |-> u]))
<1>1. Space[1] = [mark |-> " "] /\ Colon[1] = [mark |-> ":"]
  <2>1. Space = <<[mark |-> " "]>> /\ Colon = <<[mark |-> ":"]>>
    BY Marks, Zenon
  <2> QED BY <2>1, Zenon
<1>2. \A w, m : [word |-> w] # [mark |-> m]
  OBVIOUS
<1>3. \A w, u, m : [word |-> w, upper |-> u] # [mark |-> m]
  OBVIOUS
<1>4. Blank(Space[1]) /\ Blank(CR)
  BY <1>1, Zenon DEF Blank, CR
<1>5. \A w, u : ~ Blank([word |-> w, upper |-> u])
  BY <1>3, Zenon DEF Blank
<1> QED BY <1>1, <1>2, <1>3, <1>4, <1>5, RowMarks, OctetsApart, Zenon

LEMMA PairTrimmed ==
  ASSUME NEW x, NEW first, PairOf(x, first), ~ Blank(first)
  PROVE  Trim(x) = x
<1>1. x \in Seq(RowOctet) /\ Len(x) = 2 /\ x[1] = first /\ x[2] = Inside
  BY DEF PairOf
<1>2. PICK one \in Nat, two \in Nat : one = 1 /\ two = 2
  OBVIOUS
<1>3. one \in 1 .. Len(x) /\ two \in 1 .. Len(x) /\ ~ Blank(x[one]) /\ ~ Blank(x[two])
  BY <1>1, <1>2, ColonsApart
<1>4. (\A i \in 1 .. one - 1 : Blank(x[i])) /\ \A i \in two + 1 .. Len(x) : Blank(x[i])
  BY <1>1, <1>2
<1>5. Trim(x) = SubSeq(x, one, two)
  BY <1>1, <1>3, <1>4, TrimKeeps
<1>6. SubSeq(x, 1, Len(x)) = x
  BY <1>1
<1> QED BY <1>1, <1>2, <1>5, <1>6

\* Some of the octets of a value, or all, with a space before and perhaps a CR behind.
LEMMA ValueTrimmed ==
  ASSUME NEW h \in Http!Line, NEW t \in Seq(RowOctet), NEW L \in Nat, L = Len(Http!Value(h)),
         NEW m \in Nat, m = Len(t), m <= L + 2,
         m > 0 => t[1] = Space[1],
         \A j \in 1 .. L : j + 1 <= m => t[j + 1] = Http!Value(h)[j],
         m = L + 2 => t[L + 2] = CR
  PROVE  IsPrefix(Trim(t), Http!Value(h)) /\ (m > L => Trim(t) = Http!Value(h))
<1> DEFINE v == Http!Value(h)
<1>1. v \in Seq(RowOctet) /\ Len(v) = L /\ L \in {2, 5} /\ \A j \in 1 .. L : ~ Blank(v[j])
  BY ValueTyped DEF ValueIs
<1>2. \A j \in 1 .. L : j + 1 <= m => t[j + 1] = v[j]
  OBVIOUS
<1> HIDE DEF v
<1>3. CASE m <= 1
  <2>1. \A i \in 1 .. Len(t) : Blank(t[i])
    <3>1. TAKE i \in 1 .. Len(t)
    <3>2. i = 1 /\ m > 0
      BY <1>3
    <3> QED BY <3>2, ColonsApart
  <2>2. Trim(t) = << >>
    BY <2>1, TrimEmpties
  <2>3. << >> \in Seq(RowOctet) /\ Len(<< >>) = 0
    OBVIOUS
  <2>4. IsPrefix(<< >>, v)
    <3> DEFINE none == << >>
    <3>1. none \in Seq(RowOctet) /\ Len(none) = 0
      OBVIOUS
    <3> HIDE DEF none
    <3>2. Len(none) <= Len(v) /\ \A j \in 1 .. Len(none) : none[j] = v[j]
      BY <3>1, <1>1
    <3>3. IsPrefix(none, v)
      BY <3>1, <3>2, <1>1, PrefixedBy
    <3> QED BY <3>3 DEF none
  <2> QED BY <2>2, <2>4, <1>3, <1>1 DEF v
<1>4. CASE m > 1
  <2>1. PICK e \in Nat : e >= 1 /\ e <= L /\ e + 1 <= m /\ (m <= L + 1 => e + 1 = m) /\ (m > L => e = L)
    <3>1. CASE m <= L + 1
      <4>1. PICK e \in Nat : e + 1 = m
        BY <1>4
      <4>2. e >= 1 /\ e <= L /\ e + 1 <= m /\ (m > L => e = L)
        BY <3>1, <4>1, <1>4
      <4> QED BY <4>1, <4>2
    <3>2. CASE m > L + 1
      BY <3>2, <1>1
    <3> QED BY <3>1, <3>2
  <2>2. PICK one \in Nat, two \in Nat : one = 1 /\ two = 2
    OBVIOUS
  <2>3. \A j \in 1 .. e : t[j + 1] = v[j] /\ ~ Blank(t[j + 1])
    <3>1. TAKE j \in 1 .. e
    <3>2. j \in 1 .. L /\ j + 1 <= m
      BY <2>1
    <3> QED BY <3>2, <1>1, <1>2
  <2>4. two \in 1 .. Len(t) /\ e + 1 \in 1 .. Len(t)
    BY <1>4, <2>1, <2>2
  <2>5. ~ Blank(t[two]) /\ ~ Blank(t[e + 1])
    <3>1. 1 \in 1 .. e /\ e \in 1 .. e /\ 1 + 1 = two
      BY <2>1, <2>2
    <3> QED BY <3>1, <2>3
  <2>6. \A i \in 1 .. two - 1 : Blank(t[i])
    <3>1. TAKE i \in 1 .. two - 1
    <3>2. i = 1 /\ m > 0
      BY <2>2, <1>4
    <3> QED BY <3>2, ColonsApart
  <2>7. \A i \in (e + 1) + 1 .. Len(t) : Blank(t[i])
    <3>1. TAKE i \in (e + 1) + 1 .. Len(t)
    <3>2. i = L + 2 /\ m = L + 2
      BY <2>1
    <3> QED BY <3>2, ColonsApart
  <2>8. Trim(t) = SubSeq(t, two, e + 1)
    BY <2>4, <2>5, <2>6, <2>7, TrimKeeps
  <2>9. /\ SubSeq(t, one + 1, e + 1) \in Seq(RowOctet) /\ Len(SubSeq(t, one + 1, e + 1)) = (e + 1) - one
        /\ \A p \in 1 .. (e + 1) - one : SubSeq(t, one + 1, e + 1)[p] = t[one + p]
    <3>1. one <= e + 1 /\ e + 1 <= Len(t) /\ e + 1 \in Nat
      BY <2>1, <2>2
    <3> QED BY <3>1, Slice
  <2> DEFINE u == SubSeq(t, two, e + 1)
  <2>10. u \in Seq(RowOctet) /\ Len(u) = e /\ \A p \in 1 .. e : u[p] = v[p]
    <3>1. one + 1 = two /\ (e + 1) - one = e
      BY <2>2
    <3>2. u \in Seq(RowOctet) /\ Len(u) = e /\ \A p \in 1 .. e : u[p] = t[one + p]
      BY <3>1, <2>9
    <3>3. \A p \in 1 .. e : one + p = p + 1
      BY <2>2
    <3> QED BY <3>2, <3>3, <2>3
  <2> HIDE DEF u
  <2>11. IsPrefix(u, v) /\ (Len(u) = Len(v) => u = v)
    <3>1. Len(u) <= Len(v) /\ \A p \in 1 .. Len(u) : u[p] = v[p]
      BY <2>10, <2>1, <1>1
    <3> QED BY <3>1, <2>10, <1>1, PrefixedBy
  <2>12. m > L => Len(u) = Len(v)
    BY <2>10, <2>1, <1>1
  <2>13. Trim(t) = u
    BY <2>8 DEF u
  <2> QED BY <2>11, <2>12, <2>13 DEF v
<1> QED BY <1>3, <1>4

LEMMA MainRead ==
  ASSUME NEW h \in Http!Line, NEW s, Partly(s, MainRow(h), Len(MainRow(h))), Len(s) > 0
  PROVE  /\ Http!HasColon(s) => /\ Http!FieldName(s) = KeyField(h)
                                /\ IsPrefix(Http!FieldValue(s), Http!Value(h))
         /\ Len(s) >= Len(MainRow(h)) => Http!HasColon(s) /\ Http!FieldValue(s) = Http!Value(h)
         /\ ~ IsPrefix(Space, s)
<1> DEFINE v == Http!Value(h)
           f == MainRow(h)
           first == [word |-> h.name, upper |-> h.upper]
<1>1. PICK q \in Nat, L \in Nat : q = Len(s) /\ L = Len(v) /\ L \in {2, 5} /\ q > 0
  BY ValueTyped, SMTT(30) DEF ValueIs, Partly
<1>2. /\ f \in Seq(RowOctet) /\ Len(f) = L + 4 /\ f[1] = first /\ f[2] = Inside /\ f[3] = Colon[1] /\ f[4] = Space[1]
      /\ \A j \in 1 .. L : f[4 + j] = v[j]
  BY <1>1, MainTyped DEF MainIs
<1>3. s \in Seq(RowOctet) /\ q <= L + 5 /\ \A j \in 1 .. q : IF j <= L + 4 THEN s[j] = f[j] ELSE s[j] = CR
  BY <1>1, <1>2 DEF Partly
<1>4. first # Colon[1] /\ ~ Blank(first)
  BY ColonsApart
<1> HIDE DEF f, first
<1>5. \A j \in 1 .. q : /\ (j = 1 => s[j] = first) /\ (j = 2 => s[j] = Inside) /\ (j = 3 => s[j] = Colon[1])
                        /\ (j = 4 => s[j] = Space[1])
  BY <1>1, <1>2, <1>3
<1>6. ~ IsPrefix(Space, s)
  <2>1. s[1] = first
    BY <1>1, <1>5
  <2>2. IsPrefix(Space, s) => SubSeq(Space, 1, 1) = SubSeq(s, 1, 1)
    BY RowMarks DEF IsPrefix
  <2>3. PICK one \in Nat : one = 1
    OBVIOUS
  <2>4. SubSeq(Space, 1, one)[one] = Space[1] /\ SubSeq(s, 1, one)[one] = s[1]
    BY <2>3, <1>1, <1>3, RowMarks, Beginning
  <2>5. first # Space[1]
    BY <1>4, ColonsApart
  <2> QED BY <2>1, <2>2, <2>3, <2>4, <2>5
<1>7. CASE q < 3
  <2>1. \A j \in 1 .. q : s[j] # Colon[1]
    <3>1. TAKE j \in 1 .. q
    <3>2. j = 1 \/ j = 2
      BY <1>7
    <3> QED BY <3>2, <1>4, <1>5, ColonsApart
  <2>2. DOMAIN s = 1 .. q
    BY <1>1, <1>3
  <2>3. ~ Http!HasColon(s)
    BY <2>1, <2>2, HttpOctets DEF Http!HasColon
  <2>4. ~ (Len(s) >= Len(f))
    BY <1>1, <1>2, <1>7
  <2> QED BY <2>3, <2>4, <1>6 DEF f
<1>8. CASE q >= 3
  <2>1. PICK three \in Nat, two \in Nat, one \in Nat : three = 3 /\ two = 2 /\ one = 1
    OBVIOUS
  <2>2. three \in 1 .. Len(s) /\ s[three] = Colon[1] /\ \A j \in 1 .. three - 1 : s[j] # Colon[1]
    <3>1. three \in 1 .. Len(s) /\ s[three] = Colon[1]
      BY <1>1, <1>5, <1>8, <2>1
    <3>2. ASSUME NEW j \in 1 .. three - 1 PROVE s[j] # Colon[1]
      <4>1. (j = 1 \/ j = 2) /\ j \in 1 .. q
        BY <2>1, <1>8
      <4> QED BY <4>1, <1>4, <1>5, ColonsApart
    <3> QED BY <3>1, <3>2
  <2>3. /\ Http!HasColon(s)
        /\ Http!FieldName(s) = Http!ToLowercase(Trim(SubSeq(s, 1, three - 1)))
        /\ Http!FieldValue(s) = Trim(SubSeq(s, three + 1, Len(s)))
    BY <2>2, <1>3, FindsColon
  <2> DEFINE x == SubSeq(s, 1, two)
             t == SubSeq(s, three + 1, q)
  <2>4. x \in Seq(RowOctet) /\ Len(x) = two /\ \A p \in 1 .. two : x[p] = s[p]
    <3>1. two <= Len(s)
      BY <1>1, <1>8, <2>1
    <3> QED BY <3>1, <1>3, Beginning
  <2>5. t \in Seq(RowOctet) /\ Len(t) = q - three /\ \A p \in 1 .. q - three : t[p] = s[three + p]
    <3>1. three <= q /\ q <= Len(s)
      BY <1>1, <1>8, <2>1
    <3> QED BY <3>1, <1>3, Slice
  <2> HIDE DEF x, t
  <2>6. PairOf(x, first)
    <3>1. s[1] = first /\ s[2] = Inside
      BY <1>5, <1>8
    <3> QED BY <3>1, <2>1, <2>4 DEF PairOf
  <2>7. Trim(x) = x
    BY <2>6, <1>4, PairTrimmed
  <2>8. Http!ToLowercase(x) = KeyField(h)
    BY <2>6, LowerName DEF first
  <2>9. Http!FieldName(s) = KeyField(h)
    <3>1. three - 1 = two
      BY <2>1
    <3> QED BY <3>1, <2>3, <2>7, <2>8 DEF x
  <2>10. PICK m \in Nat : m = q - 3 /\ m = q - three
    BY <1>8, <2>1
  <2>11. IsPrefix(Trim(t), v) /\ (m > L => Trim(t) = v)
    <3>1. m = Len(t) /\ m <= L + 2
      BY <2>5, <2>10, <1>3
    <3>2. \A p \in 1 .. m : t[p] = s[3 + p]
      BY <2>5, <2>10, <2>1
    <3>3. m > 0 => t[1] = Space[1]
      <4>1. HAVE m > 0
      <4>2. 1 \in 1 .. m /\ 3 + 1 = 4 /\ 4 \in 1 .. q
        BY <4>1, <2>10
      <4> QED BY <4>2, <3>2, <1>5
    <3>4. ASSUME NEW j \in 1 .. L, j + 1 <= m PROVE t[j + 1] = v[j]
      <4>1. j + 1 \in 1 .. m /\ 3 + (j + 1) = 4 + j /\ 4 + j \in 1 .. q /\ 4 + j <= L + 4
        BY <3>4, <2>10
      <4>2. t[j + 1] = s[4 + j]
        BY <4>1, <3>2
      <4>3. s[4 + j] = f[4 + j]
        BY <4>1, <1>3
      <4> QED BY <4>2, <4>3, <1>2
    <3>5. m = L + 2 => t[L + 2] = CR
      <4>1. HAVE m = L + 2
      <4>2. L + 2 \in 1 .. m /\ 3 + (L + 2) = L + 5 /\ L + 5 \in 1 .. q /\ ~ (L + 5 <= L + 4)
        BY <4>1, <2>10
      <4> QED BY <4>2, <3>2, <1>3
    <3> QED BY <3>1, <3>3, <3>4, <3>5, <2>5, <1>1, ValueTrimmed
  <2>12. Http!FieldValue(s) = Trim(t)
    BY <2>3, <1>1 DEF t
  <2>13. Len(s) >= Len(f) => m > L
    BY <1>1, <1>2, <2>10
  <2> QED BY <2>3, <2>9, <2>11, <2>12, <2>13, <1>6 DEF f
<1> QED BY <1>7, <1>8

LEMMA FoldRead ==
  ASSUME NEW h \in Http!Line, h.folded # "no", NEW s, Partly(s, FoldRow(h), Len(FoldRow(h))), Len(s) > 0
  PROVE  /\ Http!HasColon(s) => h.folded = "colon" /\ Http!FieldName(s) = More
         /\ Len(s) >= Len(FoldRow(h)) => (Http!HasColon(s) <=> h.folded = "colon")
         /\ IsPrefix(Space, s)
<1> DEFINE f == FoldRow(h)
           more == [word |-> "more"]
<1>1. h.folded = "plain" \/ h.folded = "colon"
  BY DEF Http!Line
<1>2. /\ f \in Seq(RowOctet) /\ f[1] = Space[1] /\ f[2] = more /\ f[3] = Inside
      /\ h.folded = "plain" => Len(f) = 3
      /\ h.folded = "colon" => Len(f) = 6 /\ f[4] = Colon[1]
  BY <1>1, FoldTyped DEF FoldIs
<1>3. PICK q \in Nat, L \in Nat : q = Len(s) /\ L = Len(f) /\ q > 0
  BY <1>2 DEF Partly
<1>4. s \in Seq(RowOctet) /\ q <= L + 1 /\ \A j \in 1 .. q : IF j <= L THEN s[j] = f[j] ELSE s[j] = CR
  BY <1>3 DEF Partly
<1>5. more # Colon[1] /\ ~ Blank(more)
  BY ColonsApart
<1> HIDE DEF f, more
<1>6. \A j \in 1 .. q : /\ (j = 1 => s[j] = Space[1]) /\ (j = 2 => s[j] = more) /\ (j = 3 => s[j] = Inside)
                        /\ (j = 4 => s[j] = IF h.folded = "plain" THEN CR ELSE Colon[1])
  <2>1. TAKE j \in 1 .. q
  <2>2. L >= 3
    BY <1>1, <1>2, <1>3
  <2>3. j <= 3 => s[j] = f[j]
    BY <2>2, <1>4
  <2>4. j = 4 => s[j] = IF h.folded = "plain" THEN CR ELSE Colon[1]
    <3>1. CASE h.folded = "plain"
      <4>1. L = 3
        BY <3>1, <1>2, <1>3
      <4> QED BY <4>1, <3>1, <1>4
    <3>2. CASE h.folded = "colon"
      <4>1. L = 6 /\ f[4] = Colon[1] /\ h.folded # "plain"
        BY <3>2, <1>2, <1>3
      <4> QED BY <4>1, <1>4
    <3> QED BY <3>1, <3>2, <1>1
  <2> QED BY <2>3, <2>4, <1>2
<1>7. IsPrefix(Space, s)
  <2> DEFINE sp == Space
  <2>1. sp \in Seq(RowOctet) /\ Len(sp) = 1
    BY RowMarks
  <2>2. s[1] = sp[1]
    BY <1>3, <1>6
  <2> HIDE DEF sp
  <2>3. Len(sp) <= Len(s) /\ \A j \in 1 .. Len(sp) : sp[j] = s[j]
    BY <2>1, <2>2, <1>3
  <2>4. IsPrefix(sp, s)
    BY <2>1, <2>3, <1>4, PrefixedBy
  <2> QED BY <2>4 DEF sp
<1>8. DOMAIN s = 1 .. q
  BY <1>3, <1>4
<1>9. CASE q < 4 \/ h.folded = "plain"
  <2>1. \A j \in 1 .. q : s[j] # Colon[1]
    <3>1. TAKE j \in 1 .. q
    <3>2. CASE j = 4
      <4>1. h.folded = "plain"
        BY <3>2, <1>9
      <4> QED BY <3>2, <4>1, <1>6, ColonsApart
    <3>3. CASE j # 4
      <4>1. j = 1 \/ j = 2 \/ j = 3
        <5>1. h.folded = "plain" => q <= 4
          BY <1>2, <1>3, <1>4
        <5> QED BY <5>1, <3>3, <1>9
      <4> QED BY <4>1, <1>5, <1>6, ColonsApart
    <3> QED BY <3>2, <3>3
  <2>2. ~ Http!HasColon(s)
    BY <2>1, <1>8, HttpOctets DEF Http!HasColon
  <2>3. Len(s) >= Len(f) => h.folded # "colon"
    <3>1. SUFFICES ASSUME h.folded = "colon", Len(s) >= Len(f) PROVE FALSE
      OBVIOUS
    <3>2. h.folded # "plain"
      BY <3>1
    <3>3. q < 4 /\ Len(f) = 6
      BY <3>1, <3>2, <1>2, <1>9
    <3> QED BY <3>1, <3>3, <1>3
  <2> QED BY <2>2, <2>3, <1>7 DEF f
<1>10. CASE q >= 4 /\ h.folded = "colon"
  <2>1. PICK four \in Nat, three \in Nat, two \in Nat, one \in Nat : four = 4 /\ three = 3 /\ two = 2 /\ one = 1
    OBVIOUS
  <2>2. four \in 1 .. Len(s) /\ s[four] = Colon[1]
    <3>1. h.folded # "plain"
      BY <1>10
    <3> QED BY <3>1, <2>1, <1>3, <1>6, <1>10
  <2>3. \A j \in 1 .. four - 1 : s[j] # Colon[1]
    <3>1. TAKE j \in 1 .. four - 1
    <3>2. (j = 1 \/ j = 2 \/ j = 3) /\ j \in 1 .. q
      BY <2>1, <1>10
    <3> QED BY <3>2, <1>5, <1>6, ColonsApart
  <2>4. Http!HasColon(s) /\ Http!FieldName(s) = Http!ToLowercase(Trim(SubSeq(s, 1, four - 1)))
    BY <2>2, <2>3, <1>4, FindsColon
  <2> DEFINE y == SubSeq(s, 1, three)
             x == SubSeq(y, two, three)
  <2>5. y \in Seq(RowOctet) /\ Len(y) = three /\ \A p \in 1 .. three : y[p] = s[p]
    <3>1. three <= Len(s)
      BY <2>1, <1>3, <1>10
    <3> QED BY <3>1, <1>4, Beginning
  <2> HIDE DEF y
  <2>6. y[1] = Space[1] /\ y[two] = more /\ y[three] = Inside
    BY <2>1, <2>5, <1>6, <1>10
  <2>7. Trim(y) = x
    <3>1. two \in 1 .. Len(y) /\ three \in 1 .. Len(y)
      BY <2>1, <2>5
    <3>2. ~ Blank(y[two]) /\ ~ Blank(y[three])
      BY <2>6, <1>5, ColonsApart
    <3>3. \A i \in 1 .. two - 1 : Blank(y[i])
      BY <2>1, <2>6, ColonsApart
    <3>4. \A i \in three + 1 .. Len(y) : Blank(y[i])
      BY <2>5
    <3> QED BY <3>1, <3>2, <3>3, <3>4, <2>5, TrimKeeps
  <2>8. PairOf(x, more)
    <3>1. /\ SubSeq(y, one + 1, three) \in Seq(RowOctet) /\ Len(SubSeq(y, one + 1, three)) = three - one
          /\ \A p \in 1 .. three - one : SubSeq(y, one + 1, three)[p] = y[one + p]
      <4>1. one <= three /\ three <= Len(y)
        BY <2>1, <2>5
      <4> QED BY <4>1, <2>5, Slice
    <3>2. one + 1 = two /\ three - one = 2
      BY <2>1
    <3>3. x \in Seq(RowOctet) /\ Len(x) = 2 /\ \A p \in 1 .. 2 : x[p] = y[one + p]
      BY <3>1, <3>2
    <3>4. one + 1 = two /\ one + 2 = three
      BY <2>1
    <3> HIDE DEF x
    <3>5. x[1] = y[two] /\ x[2] = y[three]
      BY <3>3, <3>4
    <3> QED BY <3>3, <3>5, <2>6 DEF PairOf
  <2> HIDE DEF x
  <2>9. Http!ToLowercase(x) = More
    BY <2>8, LowerMore DEF more
  <2>10. Http!FieldName(s) = More
    <3>1. four - 1 = three
      BY <2>1
    <3> QED BY <3>1, <2>4, <2>7, <2>9 DEF y
  <2> QED BY <2>4, <2>10, <1>7, <1>10 DEF f
<1> QED BY <1>1, <1>9, <1>10

Named(lines) == {i \in DOMAIN lines : Http!HasColon(lines[i])}
NamedLike(lines, name) == {i \in Named(lines) : Http!FieldName(lines[i]) = name}
HeadersRead(lines) ==
  [name \in {Http!FieldName(lines[i]) : i \in Named(lines)} |->
     Http!FieldValue(lines[Max(NamedLike(lines, name))])]
LEMMA HeadersAre ==
  ASSUME NEW lines
  PROVE  Http!ParseHeaders(lines) =
           IF \E i \in DOMAIN lines \ Named(lines) : ~ IsPrefix(Space, lines[i]) THEN Err
           ELSE Parsed(HeadersRead(lines), Len(lines))
BY HttpOctets, HttpStrings, Zenon DEF Http!ParseHeaders, Named, NamedLike, HeadersRead

LEMMA NamedField ==
  ASSUME NEW lines, Len(lines) \in Nat, DOMAIN lines = 1 .. Len(lines), NEW key \in DOMAIN HeadersRead(lines)
  PROVE  \E k \in 1 .. Len(lines) : /\ Http!HasColon(lines[k]) /\ Http!FieldName(lines[k]) = key
                                    /\ HeadersRead(lines)[key] = Http!FieldValue(lines[k])
<1> DEFINE T == NamedLike(lines, key)
<1>1. DOMAIN HeadersRead(lines) = {Http!FieldName(lines[i]) : i \in Named(lines)}
  BY DEF HeadersRead
<1>2. PICK i \in Named(lines) : Http!FieldName(lines[i]) = key
  BY <1>1
<1>3. T \in SUBSET (0 .. Len(lines)) /\ T # {}
  <2>1. i \in T
    BY <1>2 DEF NamedLike
  <2>2. T \subseteq 1 .. Len(lines)
    BY DEF NamedLike, Named
  <2> HIDE DEF T
  <2> QED BY <2>1, <2>2
<1>4. Max(T) \in T
  <2> HIDE DEF T
  <2> QED BY <1>3, MaxOf
<1>5. HeadersRead(lines)[key] = Http!FieldValue(lines[Max(T)])
  BY <1>1 DEF HeadersRead
<1>6. Max(T) \in 1 .. Len(lines) /\ Http!HasColon(lines[Max(T)]) /\ Http!FieldName(lines[Max(T)]) = key
  BY <1>4 DEF NamedLike, Named
<1> QED BY <1>5, <1>6

\* A line of a cut message among those of its headers.
CutRow(t) ==
  /\ Len(t) > 0
  /\ \/ t = <<CR>>
     \/ \E i \in 1 .. Len(headers) : Partly(t, MainRow(headers[i]), Len(MainRow(headers[i])))
     \/ \E i \in 1 .. Len(headers) :
          headers[i].folded # "no" /\ Partly(t, FoldRow(headers[i]), Len(FoldRow(headers[i])))
\* Headers as a cut message shows them, and as the whole does.
HeadersShow(fields) ==
  \A key \in DOMAIN fields \ Http!Misread : \E value \in Http!ValuesOf(key) : IsPrefix(fields[key], value)
HeadersWhole(fields) ==
  /\ DOMAIN fields = {Http!KeyOf(headers[i]) : i \in DOMAIN headers} \cup Http!Misread
  /\ \A i \in DOMAIN headers :
       (\A j \in i + 1 .. Len(headers) : Http!KeyOf(headers[j]) # Http!KeyOf(headers[i])) =>
         fields[Http!KeyOf(headers[i])] = Http!Value(headers[i])

LEMMA HeaderNames ==
  ASSUME Http!TypeOK
  PROVE  /\ DOMAIN headers = 1 .. Len(headers) /\ Len(headers) \in Nat
         /\ \A i \in 1 .. Len(headers) :
              /\ headers[i] \in Http!Line /\ Http!KeyOf(headers[i]) = KeyField(headers[i])
              /\ Http!Value(headers[i]) \in Http!ValuesOf(KeyField(headers[i]))
              /\ headers[i].folded = "colon" => More \in Http!Misread
         /\ Http!Misread = {k \in {More} : \E i \in 1 .. Len(headers) : headers[i].folded = "colon"}
<1>1. headers \in Seq(Http!Line)
  BY HeaderLine
<1>2. DOMAIN headers = 1 .. Len(headers) /\ Len(headers) \in Nat /\ \A i \in 1 .. Len(headers) : headers[i] \in Http!Line
  BY <1>1
<1>3. Http!Word("more", 2) = More
  BY HttpOctets DEF More
<1>4. Http!Misread = {k \in {More} : \E i \in 1 .. Len(headers) : headers[i].folded = "colon"}
  BY <1>2, <1>3 DEF Http!Misread
<1>5. ASSUME NEW i \in 1 .. Len(headers)
      PROVE  Http!KeyOf(headers[i]) = KeyField(headers[i])
             /\ Http!Value(headers[i]) \in Http!ValuesOf(KeyField(headers[i]))
  <2>1. Http!KeyOf(headers[i]) = KeyField(headers[i])
    BY <1>2, KeyIs
  <2> QED BY <2>1, <1>2 DEF Http!ValuesOf
<1> QED BY <1>2, <1>4, <1>5

LEMMA HeadersCut ==
  ASSUME Http!TypeOK, NEW lines, Len(lines) \in Nat, DOMAIN lines = 1 .. Len(lines),
         \A i \in 1 .. Len(lines) : CutRow(lines[i])
  PROVE  \/ Http!ParseHeaders(lines) = Err
         \/ \E fields : HeadersShow(fields) /\ Http!ParseHeaders(lines) = Parsed(fields, Len(lines))
<1>1. SUFFICES ASSUME Http!ParseHeaders(lines) # Err
               PROVE  HeadersShow(HeadersRead(lines))
  BY HeadersAre
<1>2. ASSUME NEW key \in DOMAIN HeadersRead(lines), key \notin Http!Misread
      PROVE  \E value \in Http!ValuesOf(key) : IsPrefix(HeadersRead(lines)[key], value)
  <2>1. PICK k \in 1 .. Len(lines) : /\ Http!HasColon(lines[k]) /\ Http!FieldName(lines[k]) = key
                                     /\ HeadersRead(lines)[key] = Http!FieldValue(lines[k])
    BY <1>2, NamedField
  <2>2. CutRow(lines[k])
    OBVIOUS
  <2>3. lines[k] # <<CR>>
    <3>1. \A c : c = <<CR>> => DOMAIN c = 1 .. 1 /\ c[1] = CR
      OBVIOUS
    <3>2. \A i \in 1 .. 1 : i = 1
      OBVIOUS
    <3>3. Http!HasColon(lines[k]) => \E i \in DOMAIN lines[k] : lines[k][i] = Colon[1]
      BY HttpOctets DEF Http!HasColon
    <3> QED BY <3>1, <3>2, <3>3, <2>1, ColonsApart
  <2>4. ASSUME NEW i \in 1 .. Len(headers), Partly(lines[k], MainRow(headers[i]), Len(MainRow(headers[i])))
        PROVE  \E value \in Http!ValuesOf(key) : IsPrefix(HeadersRead(lines)[key], value)
    <3>1. headers[i] \in Http!Line /\ Http!Value(headers[i]) \in Http!ValuesOf(KeyField(headers[i]))
      BY HeaderNames
    <3>2. Len(lines[k]) > 0
      BY <2>2 DEF CutRow
    <3>3. Http!FieldName(lines[k]) = KeyField(headers[i])
          /\ IsPrefix(Http!FieldValue(lines[k]), Http!Value(headers[i]))
      BY <2>1, <2>4, <3>1, <3>2, MainRead
    <3> QED BY <2>1, <3>1, <3>3
  <2>5. ASSUME NEW i \in 1 .. Len(headers), headers[i].folded # "no",
               Partly(lines[k], FoldRow(headers[i]), Len(FoldRow(headers[i])))
        PROVE  FALSE
    <3>1. headers[i] \in Http!Line
      BY HeaderNames
    <3>2. Len(lines[k]) > 0
      BY <2>2 DEF CutRow
    <3>3. headers[i].folded = "colon" /\ Http!FieldName(lines[k]) = More
      BY <2>1, <2>5, <3>1, <3>2, FoldRead
    <3>4. More \in Http!Misread
      BY <3>3, HeaderNames
    <3> QED BY <3>3, <3>4, <2>1, <1>2
  <2> QED BY <2>2, <2>3, <2>4, <2>5 DEF CutRow
<1> QED BY <1>2 DEF HeadersShow

LEMMA WholeRow ==
  ASSUME NEW f \in Seq(RowOctet) PROVE Partly(f, f, Len(f))
<1>1. Len(f) \in Nat
  OBVIOUS
<1> QED BY <1>1 DEF Partly

\* A header line among the rows, with what it may go on in.
LEMMA MainWhole ==
  ASSUME NEW h \in Http!Line
  PROVE  /\ Http!HasColon(MainRow(h)) /\ Http!FieldName(MainRow(h)) = KeyField(h)
         /\ Http!FieldValue(MainRow(h)) = Http!Value(h)
<1> DEFINE f == MainRow(h)
<1>1. f \in Seq(RowOctet) /\ Len(f) > 0
  <2>1. PICK L \in Nat : L = Len(Http!Value(h))
    BY ValueTyped DEF ValueIs
  <2>2. f \in Seq(RowOctet) /\ Len(f) = 4 + L
    BY <2>1, MainTyped DEF MainIs
  <2> HIDE DEF f
  <2> QED BY <2>2
<1>2. Partly(f, f, Len(f)) /\ Len(f) >= Len(f)
  <2> HIDE DEF f
  <2> QED BY <1>1, WholeRow
<1>3. Partly(f, MainRow(h), Len(MainRow(h))) /\ Len(f) >= Len(MainRow(h))
  BY <1>2
<1> HIDE DEF f
<1>4. Http!HasColon(f) /\ Http!FieldName(f) = KeyField(h) /\ Http!FieldValue(f) = Http!Value(h)
  BY <1>1, <1>3, MainRead
<1> QED BY <1>4 DEF f

LEMMA FoldWhole ==
  ASSUME NEW h \in Http!Line, h.folded # "no"
  PROVE  /\ Http!HasColon(FoldRow(h)) <=> h.folded = "colon"
         /\ Http!HasColon(FoldRow(h)) => Http!FieldName(FoldRow(h)) = More
         /\ IsPrefix(Space, FoldRow(h))
<1> DEFINE f == FoldRow(h)
<1>1. f \in Seq(RowOctet) /\ Len(f) > 0
  BY FoldTyped DEF FoldIs
<1>2. Partly(f, f, Len(f)) /\ Len(f) >= Len(f)
  <2> HIDE DEF f
  <2> QED BY <1>1, WholeRow
<1>3. Partly(f, FoldRow(h), Len(FoldRow(h))) /\ Len(f) >= Len(FoldRow(h))
  BY <1>2
<1> HIDE DEF f
<1>4. /\ Http!HasColon(f) => h.folded = "colon" /\ Http!FieldName(f) = More
      /\ Http!HasColon(f) <=> h.folded = "colon"
      /\ IsPrefix(Space, f)
  BY <1>1, <1>3, FoldRead
<1> QED BY <1>4 DEF f

LEMMA HeadersRight ==
  ASSUME Http!TypeOK, NEW main, NEW rows, HeadersAt(main, rows)
  PROVE  \E fields : HeadersWhole(fields) /\ Http!ParseHeaders(rows) = Parsed(fields, Len(rows))
<1> DEFINE H == 1 .. Len(headers)
           R == 1 .. Len(rows)
           key(i) == KeyField(headers[i])
<1>1. DOMAIN rows = R /\ Len(rows) \in Nat
  BY DEF HeadersAt
<1>2. /\ main \in [H -> R]
      /\ \A i, j \in H : i < j => main[i] < main[j]
      /\ \A i \in H : rows[main[i]] = MainRow(headers[i])
      /\ \A k \in R : \/ \E i \in H : k = main[i]
                      \/ \E i \in H : headers[i].folded # "no" /\ rows[k] = FoldRow(headers[i])
      /\ \A i \in H : headers[i].folded # "no" => \E k \in R : rows[k] = FoldRow(headers[i])
  BY DEF HeadersAt
<1>3. /\ DOMAIN headers = H
      /\ \A i \in H : headers[i] \in Http!Line /\ Http!KeyOf(headers[i]) = key(i)
      /\ Http!Misread = {k \in {More} : \E i \in H : headers[i].folded = "colon"}
  BY HeaderNames
<1> HIDE DEF H, R
<1>4. \A i \in H : /\ Http!HasColon(rows[main[i]]) /\ Http!FieldName(rows[main[i]]) = key(i)
                   /\ Http!FieldValue(rows[main[i]]) = Http!Value(headers[i])
  BY <1>2, <1>3, MainWhole
<1>5. \A k \in R : \A i \in H : headers[i].folded # "no" /\ rows[k] = FoldRow(headers[i]) =>
        /\ Http!HasColon(rows[k]) <=> headers[i].folded = "colon"
        /\ Http!HasColon(rows[k]) => Http!FieldName(rows[k]) = More
        /\ IsPrefix(Space, rows[k])
  BY <1>3, FoldWhole
<1>6. Http!ParseHeaders(rows) = Parsed(HeadersRead(rows), Len(rows))
  <2>1. \A k \in DOMAIN rows \ Named(rows) : IsPrefix(Space, rows[k])
    <3>1. TAKE k \in DOMAIN rows \ Named(rows)
    <3>2. k \in R /\ ~ Http!HasColon(rows[k])
      BY <1>1 DEF Named
    <3>3. \A i \in H : k # main[i]
      BY <3>2, <1>4
    <3> QED BY <3>2, <3>3, <1>2, <1>5
  <2> QED BY <2>1, HeadersAre
<1>7. Named(rows) = {k \in R : Http!HasColon(rows[k])}
  BY <1>1 DEF Named
<1>8. DOMAIN HeadersRead(rows) = {Http!FieldName(rows[k]) : k \in Named(rows)}
  BY DEF HeadersRead
<1>9. DOMAIN HeadersRead(rows) = {Http!KeyOf(headers[i]) : i \in DOMAIN headers} \cup Http!Misread
  <2>1. ASSUME NEW x \in DOMAIN HeadersRead(rows)
        PROVE  x \in {Http!KeyOf(headers[i]) : i \in DOMAIN headers} \cup Http!Misread
    <3>1. PICK k \in R : Http!HasColon(rows[k]) /\ x = Http!FieldName(rows[k])
      BY <1>7, <1>8
    <3>2. CASE \E i \in H : k = main[i]
      BY <3>1, <3>2, <1>3, <1>4
    <3>3. CASE \E i \in H : headers[i].folded # "no" /\ rows[k] = FoldRow(headers[i])
      <4>1. PICK i \in H : headers[i].folded # "no" /\ rows[k] = FoldRow(headers[i])
        BY <3>3
      <4>2. headers[i].folded = "colon" /\ x = More
        BY <4>1, <3>1, <1>5
      <4> QED BY <4>2, <1>3
    <3> QED BY <3>2, <3>3, <1>2
  <2>2. ASSUME NEW i \in DOMAIN headers PROVE Http!KeyOf(headers[i]) \in DOMAIN HeadersRead(rows)
    <3>1. i \in H /\ main[i] \in R
      BY <1>2, <1>3
    <3>2. main[i] \in Named(rows)
      BY <3>1, <1>4, <1>7
    <3> QED BY <3>1, <3>2, <1>3, <1>4, <1>8
  <2>3. ASSUME NEW x \in Http!Misread PROVE x \in DOMAIN HeadersRead(rows)
    <3>1. PICK i \in H : headers[i].folded = "colon" /\ x = More
      BY <1>3
    <3>2. headers[i].folded # "no"
      BY <3>1
    <3>3. PICK k \in R : rows[k] = FoldRow(headers[i])
      BY <3>2, <1>2
    <3>4. Http!HasColon(rows[k]) /\ Http!FieldName(rows[k]) = More
      BY <3>1, <3>2, <3>3, <1>5
    <3>5. k \in Named(rows)
      BY <3>4, <1>7
    <3> QED BY <3>1, <3>4, <3>5, <1>8
  <2> QED BY <2>1, <2>2, <2>3
<1>10. ASSUME NEW i \in DOMAIN headers,
              \A j \in i + 1 .. Len(headers) : Http!KeyOf(headers[j]) # Http!KeyOf(headers[i])
       PROVE  HeadersRead(rows)[Http!KeyOf(headers[i])] = Http!Value(headers[i])
  <2> DEFINE T == NamedLike(rows, key(i))
  <2>1. i \in H /\ main[i] \in R
    BY <1>2, <1>3
  <2>2. main[i] \in T
    BY <2>1, <1>4, <1>7 DEF NamedLike
  <2>3. ASSUME NEW k \in T PROVE main[i] >= k
    <3>1. k \in R /\ Http!HasColon(rows[k]) /\ Http!FieldName(rows[k]) = key(i)
      BY <1>7 DEF NamedLike
    <3>2. PICK j \in H : k = main[j]
      <4>1. ASSUME NEW j \in H, headers[j].folded # "no", rows[k] = FoldRow(headers[j]) PROVE FALSE
        <5>1. Http!FieldName(rows[k]) = More
          BY <4>1, <3>1, <1>5
        <5> QED BY <5>1, <3>1, KeysDiffer
      <4> QED BY <4>1, <3>1, <1>2
    <3>3. key(j) = key(i)
      BY <3>1, <3>2, <1>4
    <3>4. i \in 1 .. Len(headers) /\ j \in 1 .. Len(headers) /\ Len(headers) \in Nat
      BY <2>1, HeaderNames DEF H
    <3>5. ~ (i < j)
      <4>1. i < j => j \in i + 1 .. Len(headers)
        BY <3>4
      <4> QED BY <4>1, <3>3, <2>1, <1>3, <1>10
    <3>6. i = j \/ j < i
      BY <3>4, <3>5
    <3>7. i = j \/ main[j] < main[i]
      BY <3>6, <2>1, <1>2
    <3>8. main[i] \in Nat /\ main[j] \in Nat
      BY <2>1, <1>2 DEF R
    <3> QED BY <3>2, <3>7, <3>8
  <2>4. T \in SUBSET Nat
    <3>1. T \subseteq R
      BY <1>7 DEF NamedLike
    <3> QED BY <3>1 DEF R
  <2> HIDE DEF T
  <2>5. Max(T) = main[i]
    BY <2>2, <2>3, <2>4, MaxIs
  <2>6. key(i) \in DOMAIN HeadersRead(rows) /\ Http!KeyOf(headers[i]) = key(i)
    BY <2>1, <1>3, <1>9
  <2>7. HeadersRead(rows)[key(i)] = Http!FieldValue(rows[Max(T)])
    BY <2>6, <1>8 DEF HeadersRead, T
  <2> QED BY <2>1, <2>5, <2>6, <2>7, <1>4
<1> QED BY <1>6, <1>9, <1>10 DEF HeadersWhole

(***************************************************************************)
(* The lines of a first segment.                                           *)
(***************************************************************************)
\* A piece of a row, or the row, and perhaps a CR.
Stretch(t, f) ==
  Len(t) <= Len(f) + 1 /\ \A j \in 1 .. Len(t) : IF j <= Len(f) THEN t[j] = f[j] ELSE t[j] = CR
\* The lines of octets that are k rows and a rest.
LinesBegun(lines, rows, k, rest) ==
  /\ lines \in Seq(Seq(HttpOctet))
  /\ Len(lines) = IF rest = << >> THEN k ELSE k + 1
  /\ \A i \in 1 .. k : lines[i] = rows[i]
  /\ rest # << >> => lines[k + 1] = rest
Begun(lines, rows, tail, k, rest) ==
  /\ k \in 0 .. Len(rows) /\ rest \in Seq(HttpOctet)
  /\ k < Len(rows) => Stretch(rest, rows[k + 1])
  /\ k = Len(rows) => Len(rest) <= Len(tail) /\ Stretch(rest, tail)
  /\ LinesBegun(lines, rows, k, rest)

LEMMA StretchOf ==
  ASSUME NEW S, CR \in S, NEW f \in Seq(S), NEW p \in 0 .. Len(f) + 1
  PROVE  /\ Stretch(SubSeq(f \o <<CR>>, 1, p), f) /\ SubSeq(f \o <<CR>>, 1, p) \in Seq(S)
<1> DEFINE c == <<CR>>
           w == f \o c
           t == SubSeq(w, 1, p)
<1>1. w \in Seq(S) /\ Len(w) = Len(f) + 1 /\ (\A j \in 1 .. Len(f) : w[j] = f[j]) /\ w[Len(f) + 1] = CR
  BY Followed
<1> HIDE DEF w
<1>2. PICK n \in Nat : n = Len(f)
  OBVIOUS
<1>3. t \in Seq(S) /\ Len(t) = p /\ \A j \in 1 .. p : t[j] = w[j]
  BY <1>1, <1>2, Beginning
<1> HIDE DEF t
<1>4. Stretch(t, f)
  <2>1. ASSUME NEW j \in 1 .. p PROVE IF j <= n THEN t[j] = f[j] ELSE t[j] = CR
    <3>1. CASE j <= n
      BY <3>1, <1>1, <1>2, <1>3
    <3>2. CASE j > n
      <4>1. j = n + 1
        BY <3>2, <1>2
      <4> QED BY <4>1, <3>2, <1>1, <1>2, <1>3
    <3> QED BY <3>1, <3>2
  <2> QED BY <2>1, <1>2, <1>3 DEF Stretch
<1> QED BY <1>3, <1>4 DEF t, w

LEMMA StretchTail ==
  ASSUME NEW S, NEW f \in Seq(S), NEW p \in 0 .. Len(f)
  PROVE  /\ Stretch(SubSeq(f, 1, p), f) /\ SubSeq(f, 1, p) \in Seq(S) /\ Len(SubSeq(f, 1, p)) = p
<1> DEFINE t == SubSeq(f, 1, p)
<1>1. PICK n \in Nat : n = Len(f)
  OBVIOUS
<1>2. t \in Seq(S) /\ Len(t) = p /\ \A j \in 1 .. p : t[j] = f[j]
  BY <1>1, Beginning
<1> HIDE DEF t
<1>3. Stretch(t, f)
  BY <1>1, <1>2 DEF Stretch
<1> QED BY <1>2, <1>3 DEF t

LEMMA LinesOfRows ==
  ASSUME NEW rows \in Seq(Seq(HttpOctet)), NEW rest \in Seq(HttpOctet), NEW k \in 0 .. Len(rows)
  PROVE  LinesBegun(LinesOf(Lined(SubSeq(rows, 1, k), NewLine, rest)), rows, k, rest)
<1> DEFINE g == SubSeq(rows, 1, k)
           L == LinesOf(Lined(g, NewLine, rest))
<1>1. g \in Seq(Seq(HttpOctet)) /\ Len(g) = k /\ \A i \in 1 .. k : g[i] = rows[i]
  BY Beginning
<1> HIDE DEF g
<1>2. HttpOctet \in SUBSET AnyOctet /\ Feed \notin HttpOctet /\ Feed \in AnyOctet /\ CR \in AnyOctet
  BY OctetsApart
<1>3. L = IF rest = << >> THEN g ELSE Append(g, rest)
  BY <1>1, <1>2, LinesAre
<1> HIDE DEF L
<1>6. LinesBegun(L, rows, k, rest)
  <2>1. CASE rest = << >>
    <3>1. L = g
      BY <1>3, <2>1
    <3> QED BY <3>1, <1>1, <2>1 DEF LinesBegun
  <2>2. CASE rest # << >>
    <3>1. L = Append(g, rest)
      BY <1>3, <2>2
    <3>2. L \in Seq(Seq(HttpOctet)) /\ Len(L) = k + 1 /\ (\A i \in 1 .. k : L[i] = g[i]) /\ L[k + 1] = rest
      BY <3>1, <1>1
    <3> QED BY <3>2, <1>1, <2>2 DEF LinesBegun
  <2> QED BY <2>1, <2>2
<1> QED BY <1>6 DEF L, g

LEMMA EmptyCut ==
  ASSUME NEW rows \in Seq(Seq(HttpOctet)), NEW rest, rest = << >>
  PROVE  Lined(SubSeq(rows, 1, 0), NewLine, rest) = << >>
<1> DEFINE none == SubSeq(rows, 1, 0)
<1>1. none = << >>
  OBVIOUS
<1>2. rest \in Seq(AnyOctet)
  OBVIOUS
<1>3. Lined(<< >>, NewLine, rest) = rest
  BY <1>2, LinedNone
<1> QED BY <1>1, <1>3

LEMMA BegunCut ==
  ASSUME NEW rows \in Seq(Seq(HttpOctet)), NEW tail \in Seq(HttpOctet),
         NEW n \in Nat, n < Len(Lined(rows, NewLine, tail))
  PROVE  \E k, rest : /\ Begun(LinesOf(SubSeq(Lined(rows, NewLine, tail), 1, n)), rows, tail, k, rest)
                      /\ k = 0 /\ rest = << >> => SubSeq(Lined(rows, NewLine, tail), 1, n) = << >>
<1> DEFINE d == SubSeq(Lined(rows, NewLine, tail), 1, n)
<1>1. rows \in Seq(Seq(AnyOctet)) /\ tail \in Seq(AnyOctet) /\ CR \in AnyOctet /\ Feed \in AnyOctet /\ CR \in HttpOctet
  BY OfRows, OctetsApart
<1>2. PICK k, rest : CutIs(d, rows, tail, k, rest)
  BY <1>1, LinedCut
<1> HIDE DEF d
<1>3. k \in 0 .. Len(rows) /\ Len(rows) \in Nat /\ Len(tail) \in Nat
  BY <1>2 DEF CutIs, RowCut
<1>4. k < Len(rows) => rest \in Seq(HttpOctet) /\ Stretch(rest, rows[k + 1])
  <2>1. HAVE k < Len(rows)
  <2>2. PICK p \in 0 .. Len(rows[k + 1]) + 1 : rest = SubSeq(rows[k + 1] \o <<CR>>, 1, p)
    BY <2>1, <1>2 DEF CutIs, RowCut
  <2>3. rows[k + 1] \in Seq(HttpOctet)
    BY <2>1, <1>3
  <2> DEFINE f == rows[k + 1]
  <2> HIDE DEF f
  <2>4. Stretch(SubSeq(f \o <<CR>>, 1, p), f) /\ SubSeq(f \o <<CR>>, 1, p) \in Seq(HttpOctet)
    BY <2>2, <2>3, <1>1, StretchOf DEF f
  <2> QED BY <2>2, <2>4 DEF f
<1>5. k = Len(rows) => rest \in Seq(HttpOctet) /\ Len(rest) <= Len(tail) /\ Stretch(rest, tail)
  <2>1. HAVE k = Len(rows)
  <2>2. PICK p \in 0 .. Len(tail) - 1 : rest = SubSeq(tail, 1, p)
    BY <2>1, <1>2 DEF CutIs, RowCut
  <2>3. p \in 0 .. Len(tail) /\ p <= Len(tail)
    BY <1>3
  <2> QED BY <2>2, <2>3, StretchTail
<1>6. rest \in Seq(HttpOctet)
  BY <1>3, <1>4, <1>5
<1>7. d = Lined(SubSeq(rows, 1, k), NewLine, rest)
  BY <1>2 DEF CutIs
<1>8. LinesBegun(LinesOf(d), rows, k, rest)
  BY <1>3, <1>6, <1>7, LinesOfRows
<1>9. Begun(LinesOf(d), rows, tail, k, rest)
  BY <1>3, <1>4, <1>5, <1>6, <1>8 DEF Begun
<1>10. k = 0 /\ rest = << >> => d = << >>
  BY <1>7, EmptyCut
<1> QED BY <1>9, <1>10 DEF d

LEMMA BegunWhole ==
  ASSUME NEW rows \in Seq(Seq(HttpOctet)), NEW tail \in Seq(HttpOctet)
  PROVE  Begun(LinesOf(Lined(rows, NewLine, tail)), rows, tail, Len(rows), tail)
<1>1. PICK k \in Nat, m \in Nat : k = Len(rows) /\ m = Len(tail)
  OBVIOUS
<1>2. SubSeq(rows, 1, k) = rows /\ SubSeq(tail, 1, m) = tail
  BY <1>1
<1>3. LinesBegun(LinesOf(Lined(rows, NewLine, tail)), rows, k, tail)
  <2>1. LinesBegun(LinesOf(Lined(SubSeq(rows, 1, k), NewLine, tail)), rows, k, tail)
    BY <1>1, LinesOfRows
  <2> QED BY <2>1, <1>2
<1>4. Stretch(tail, tail)
  <2>1. Stretch(SubSeq(tail, 1, m), tail)
    BY <1>1, StretchTail
  <2> QED BY <2>1, <1>2
<1> QED BY <1>1, <1>3, <1>4 DEF Begun

(***************************************************************************)
(* How it finds the end of the headers and previews the body.              *)
(***************************************************************************)
EmptyLines(lines) == {k \in 2 .. Len(lines) : lines[k] = << >>}
EndOf(lines) == IF EmptyLines(lines) = {} THEN Len(lines) + 1 ELSE Min(EmptyLines(lines))
HeadersOf(lines) == SubSeq(lines, 2, EndOf(lines) - 1)
BehindOf(lines) == SubSeq(lines, EndOf(lines) + 1, Len(lines))
MessageOf(first, fields, preview) ==
  [field \in DOMAIN first \cup {"headers", "body_preview"} |->
     CASE field = "headers" -> fields
       [] field = "body_preview" -> preview
       [] OTHER -> first[field]]
Overlong(text_) == Len(text_) > PreviewLength /\ ~ IsBoundary(text_, PreviewLength)
FinishWith(first, lines, fields, next) ==
  IF BehindOf(lines) = << >> THEN Parsed(MessageOf(first, fields, Http!None), next)
  ELSE IF Overlong(Http!Join(BehindOf(lines))) THEN Panic
  ELSE Parsed(MessageOf(first, fields, Http!TruncateBody(Http!Join(BehindOf(lines)))), next)

LEMMA FinishFails ==
  ASSUME NEW first, NEW lines, Http!ParseHeaders(HeadersOf(lines)) = Err
  PROVE  Http!Finish(first, lines) = Err
<1>1. Http!ParseHeaders(HeadersOf(lines)).ok = FALSE
  BY DEF Err
<1> QED BY <1>1, HttpStrings DEF Http!Finish, Http!Then, HeadersOf, EndOf, EmptyLines

LEMMA FinishGoesOn ==
  ASSUME NEW first, NEW lines, NEW fields, NEW next,
         Http!ParseHeaders(HeadersOf(lines)) = Parsed(fields, next)
  PROVE  Http!Finish(first, lines) = FinishWith(first, lines, fields, next)
<1>1. /\ Http!ParseHeaders(HeadersOf(lines)).ok = TRUE /\ Http!ParseHeaders(HeadersOf(lines)).value = fields
      /\ Http!ParseHeaders(HeadersOf(lines)).next = next
  BY DEF Parsed
<1> QED BY <1>1, HttpStrings, HttpOctets
      DEF Http!Finish, Http!Then, HeadersOf, EndOf, EmptyLines, FinishWith, BehindOf, MessageOf, Overlong

\* A row of the headers.
FieldRow(f) ==
  /\ f \in Seq(RowOctet) /\ Len(f) > 0
  /\ \/ \E i \in 1 .. Len(headers) : f = MainRow(headers[i])
     \/ \E i \in 1 .. Len(headers) : headers[i].folded # "no" /\ f = FoldRow(headers[i])
LEMMA FieldRows == ASSUME Http!TypeOK, NEW k \in 1 .. Len(HeaderRows) PROVE FieldRow(HeaderRows[k])
<1>1. PICK main : HeadersAt(main, HeaderRows)
  BY HeadersPlaced
<1>2. \A i \in 1 .. Len(headers) : headers[i] \in Http!Line
  BY HeaderNames
<1>3. HeaderRows[k] \in Seq(RowOctet)
  BY <1>1 DEF HeadersAt
<1>4. CASE \E i \in 1 .. Len(headers) : k = main[i]
  <2>1. PICK i \in 1 .. Len(headers) : k = main[i]
    BY <1>4
  <2>2. HeaderRows[k] = MainRow(headers[i])
    BY <1>1, <2>1 DEF HeadersAt
  <2>3. Http!HasColon(MainRow(headers[i]))
    BY <1>2, MainWhole
  <2>4. Len(MainRow(headers[i])) > 0
    <3>1. \A s \in Seq(RowOctet) : Http!HasColon(s) => Len(s) > 0
      BY DEF Http!HasColon
    <3> QED BY <3>1, <2>2, <2>3, <1>3
  <2> QED BY <1>3, <2>2, <2>4 DEF FieldRow
<1>5. CASE \E i \in 1 .. Len(headers) : headers[i].folded # "no" /\ HeaderRows[k] = FoldRow(headers[i])
  <2>1. PICK i \in 1 .. Len(headers) : headers[i].folded # "no" /\ HeaderRows[k] = FoldRow(headers[i])
    BY <1>5
  <2>2. FoldIs(FoldRow(headers[i]), headers[i])
    BY <1>2, FoldTyped
  <2>3. Len(FoldRow(headers[i])) > 0
    BY <2>2 DEF FoldIs
  <2> QED BY <1>3, <2>1, <2>3 DEF FieldRow
<1> QED BY <1>1, <1>4, <1>5 DEF HeadersAt

LEMMA StretchedRow ==
  ASSUME NEW f, FieldRow(f), NEW t \in Seq(HttpOctet), Len(t) > 0, Stretch(t, f)
  PROVE  CutRow(t)
<1>1. f \in Seq(RowOctet) /\ CR \in RowOctet
  BY OctetsApart DEF FieldRow
<1>2. PICK n \in Nat, k \in Nat : n = Len(f) /\ k = Len(t)
  BY <1>1
<1>3. k <= n + 1 /\ \A j \in 1 .. k : IF j <= n THEN t[j] = f[j] ELSE t[j] = CR
  BY <1>2 DEF Stretch
<1>4. \A j \in 1 .. k : t[j] \in RowOctet
  <2>1. TAKE j \in 1 .. k
  <2>2. j <= n => f[j] \in RowOctet
    BY <1>1, <1>2
  <2> QED BY <2>2, <1>1, <1>3
<1>5. t \in Seq(RowOctet)
  <2>1. t \in [1 .. k -> RowOctet]
    BY <1>2, <1>4
  <2> QED BY <2>1, <1>2
<1>6. Partly(t, f, Len(f))
  BY <1>2, <1>3, <1>5 DEF Partly
<1> QED BY <1>6 DEF FieldRow, CutRow

LEMMA RowItself ==
  ASSUME NEW f, FieldRow(f)
  PROVE  CutRow(f) /\ f # << >>
<1>1. f \in Seq(RowOctet) /\ Len(f) > 0
  BY DEF FieldRow
<1>2. Partly(f, f, Len(f))
  BY <1>1, WholeRow
<1>3. CutRow(f)
  BY <1>1, <1>2 DEF FieldRow, CutRow
<1> QED BY <1>1, <1>3

LEMMA BrokenBreak ==
  ASSUME NEW t \in Seq(HttpOctet), Len(t) > 0, Stretch(t, << >>)
  PROVE  CutRow(t)
<1>1. Len(t) = 1 /\ t[1] = CR
  <2> DEFINE e == << >>
  <2>1. Len(e) = 0
    OBVIOUS
  <2>2. Stretch(t, e)
    OBVIOUS
  <2> HIDE DEF e
  <2>3. PICK m \in Nat : m = Len(t) /\ m > 0
    OBVIOUS
  <2>4. m <= 0 + 1 /\ \A j \in 1 .. m : IF j <= 0 THEN t[j] = e[j] ELSE t[j] = CR
    BY <2>1, <2>2, <2>3 DEF Stretch
  <2>5. m = 1
    BY <2>3, <2>4
  <2> QED BY <2>3, <2>4, <2>5
<1>2. t = <<CR>>
  BY <1>1
<1> QED BY <1>2 DEF CutRow

\* Rows that begin with those of the head, the last of which, the e-th, is empty.
RowsAre(rows, brows, e) ==
  /\ e \in Nat /\ e >= 2 /\ rows \in Seq(Seq(HttpOctet)) /\ brows \in Seq(Seq(HttpOctet))
  /\ Len(rows) = e + Len(brows)
  /\ rows[1] = Http!StartLine /\ rows[e] = EmptyRow
  /\ HeaderRows \in Seq(Seq(HttpOctet)) /\ 2 + Len(HeaderRows) = e
  /\ \A i \in 1 .. e - 2 : rows[1 + i] = HeaderRows[i]
  /\ \A i \in 1 .. Len(brows) : rows[e + i] = brows[i]
LEMMA RowsKnown ==
  ASSUME Http!TypeOK, NEW brows, NEW tail, BodyRows(content, brows, tail)
  PROVE  RowsAre(HeadRows \o brows, brows, 2 + Len(HeaderRows)) /\ tail \in Seq(HttpOctet)
<1> DEFINE rows == HeadRows \o brows
<1>1. brows \in Seq(Seq(HttpOctet)) /\ tail \in Seq(HttpOctet)
  BY OfRows DEF BodyRows
<1>2. /\ HeaderRows \in Seq(Seq(HttpOctet)) /\ HeadRows \in Seq(Seq(HttpOctet))
      /\ Len(HeadRows) = 2 + Len(HeaderRows) /\ HeadRows[1] = Http!StartLine
      /\ \A i \in 1 .. Len(HeaderRows) : HeadRows[1 + i] = HeaderRows[i]
      /\ HeadRows[2 + Len(HeaderRows)] = << >>
  BY HeadTyped, OfRows
<1>3. PICK h \in Nat, e \in Nat : h = Len(HeaderRows) /\ e = 2 + h
  BY <1>2
<1>4. IsJoin(rows, Seq(HttpOctet), HeadRows, brows)
  BY <1>1, <1>2, Joined
<1> HIDE DEF rows
<1>5. /\ rows \in Seq(Seq(HttpOctet)) /\ Len(rows) = e + Len(brows)
      /\ (\A i \in 1 .. e : rows[i] = HeadRows[i]) /\ \A i \in 1 .. Len(brows) : rows[e + i] = brows[i]
  BY <1>2, <1>3, <1>4 DEF IsJoin
<1>6. rows[1] = Http!StartLine /\ rows[e] = EmptyRow
  <2>1. 1 \in 1 .. e /\ e \in 1 .. e
    BY <1>3
  <2> QED BY <2>1, <1>2, <1>3, <1>5 DEF EmptyRow
<1>7. ASSUME NEW i \in 1 .. e - 2 PROVE rows[1 + i] = HeaderRows[i]
  <2>1. i \in 1 .. h /\ 1 + i \in 1 .. e
    BY <1>3
  <2> QED BY <2>1, <1>2, <1>3, <1>5
<1>8. RowsAre(rows, brows, e)
  <2>1. e >= 2 /\ 2 + Len(HeaderRows) = e
    BY <1>3
  <2> QED BY <2>1, <1>1, <1>2, <1>5, <1>6, <1>7 DEF RowsAre
<1>9. 2 + Len(HeaderRows) = e
  BY <1>3
<1> QED BY <1>1, <1>8, <1>9 DEF rows

BodyLines(brows, tail) == IF tail = << >> THEN brows ELSE Append(brows, tail)
LEMMA BodyLinesAre ==
  ASSUME NEW brows \in Seq(Seq(HttpOctet)), NEW tail \in Seq(HttpOctet)
  PROVE  /\ BodyLines(brows, tail) \in Seq(Seq(HttpOctet))
         /\ Len(BodyLines(brows, tail)) = IF tail = << >> THEN Len(brows) ELSE Len(brows) + 1
         /\ \A i \in 1 .. Len(brows) : BodyLines(brows, tail)[i] = brows[i]
         /\ tail # << >> => BodyLines(brows, tail)[Len(brows) + 1] = tail
<1>1. CASE tail = << >>
  BY <1>1 DEF BodyLines
<1>2. CASE tail # << >>
  <2> DEFINE b == Append(brows, tail)
  <2>1. b \in Seq(Seq(HttpOctet)) /\ Len(b) = Len(brows) + 1 /\ (\A i \in 1 .. Len(brows) : b[i] = brows[i])
        /\ b[Len(brows) + 1] = tail
    OBVIOUS
  <2>2. BodyLines(brows, tail) = b
    BY <1>2 DEF BodyLines
  <2> HIDE DEF b
  <2> QED BY <1>2, <2>1, <2>2
<1> QED BY <1>1, <1>2

\* What follows the empty line of a cut message: lines of the body, the last of which
\* may be cut short, or keep the CR of its line break.
BehindLike(b, lines) ==
  \E m \in Nat : /\ m >= 1 /\ m <= Len(lines) /\ b \in Seq(Seq(HttpOctet)) /\ Len(b) = m
                 /\ \A i \in 1 .. m : i # m => b[i] = lines[i]
                 /\ Stretch(b[m], lines[m])

\* Before the headers have ended.
LEMMA EndlessHead ==
  ASSUME Http!TypeOK, NEW rows, NEW brows, NEW e, RowsAre(rows, brows, e), NEW lines, NEW tail, NEW k, NEW rest,
         Begun(lines, rows, tail, k, rest), k < e
  PROVE  /\ Len(HeadersOf(lines)) \in Nat /\ DOMAIN HeadersOf(lines) = 1 .. Len(HeadersOf(lines))
         /\ \A i \in 1 .. Len(HeadersOf(lines)) : CutRow(HeadersOf(lines)[i])
         /\ BehindOf(lines) = << >>
<1>1. /\ e \in Nat /\ e >= 2 /\ Len(rows) = e + Len(brows) /\ Len(brows) \in Nat /\ rows[e] = EmptyRow
      /\ HeaderRows \in Seq(Seq(HttpOctet)) /\ 2 + Len(HeaderRows) = e
      /\ \A i \in 1 .. e - 2 : rows[1 + i] = HeaderRows[i]
  BY DEF RowsAre
<1>2. /\ k \in Nat /\ rest \in Seq(HttpOctet) /\ Stretch(rest, rows[k + 1])
      /\ lines \in Seq(Seq(HttpOctet)) /\ Len(lines) = (IF rest = << >> THEN k ELSE k + 1)
      /\ (\A i \in 1 .. k : lines[i] = rows[i]) /\ (rest # << >> => lines[k + 1] = rest)
  BY <1>1 DEF Begun, LinesBegun
<1>3. PICK N \in Nat : N = Len(lines)
  BY <1>2
<1>4. ASSUME NEW m \in 2 .. e - 1 PROVE FieldRow(rows[m])
  <2>1. PICK i \in Nat : m = 1 + i
    <3>1. m - 1 \in Nat /\ m = 1 + (m - 1)
      OBVIOUS
    <3> QED BY <3>1
  <2>2. i \in 1 .. e - 2 /\ i \in 1 .. Len(HeaderRows)
    BY <2>1, <1>1
  <2> QED BY <2>1, <2>2, <1>1, FieldRows
<1>5. ASSUME NEW m \in 2 .. N PROVE CutRow(lines[m]) /\ lines[m] # << >>
  <2>1. CASE m <= k
    <3>1. m \in 2 .. e - 1 /\ m \in 1 .. k
      BY <2>1, <1>1, <1>2
    <3> QED BY <3>1, <1>2, <1>4, RowItself
  <2>2. CASE m > k
    <3>1. rest # << >> /\ m = k + 1
      BY <2>2, <1>2, <1>3
    <3>2. lines[m] = rest /\ Len(rest) > 0
      BY <3>1, <1>2
    <3>3. CASE m = e
      <4>1. Stretch(rest, << >>)
        BY <3>1, <3>3, <1>1, <1>2 DEF EmptyRow
      <4> QED BY <4>1, <3>1, <3>2, <1>2, BrokenBreak
    <3>4. CASE m # e
      <4>1. m \in 2 .. e - 1
        BY <3>1, <3>4, <1>1, <1>2
      <4>2. Stretch(rest, rows[m])
        BY <3>1, <1>2
      <4> QED BY <4>1, <4>2, <3>1, <3>2, <1>2, <1>4, StretchedRow
    <3> QED BY <3>3, <3>4
  <2> QED BY <2>1, <2>2, <1>2
<1>6. EmptyLines(lines) = {}
  BY <1>3, <1>5 DEF EmptyLines
<1>7. EndOf(lines) = N + 1
  BY <1>3, <1>6 DEF EndOf
<1>8. BehindOf(lines) = << >>
  <2>1. (N + 1) + 1 > N
    OBVIOUS
  <2>2. SubSeq(lines, (N + 1) + 1, N) = << >>
    BY <2>1, <1>2, <1>3
  <2> QED BY <2>2, <1>3, <1>7 DEF BehindOf
<1>9. HeadersOf(lines) = SubSeq(lines, 2, N)
  <2>1. (N + 1) - 1 = N
    OBVIOUS
  <2> QED BY <2>1, <1>7 DEF HeadersOf
<1>10. CASE N = 0
  <2>1. SubSeq(lines, 2, N) = << >>
    BY <1>10, <1>2, <1>3
  <2> DEFINE x == << >>
  <2>2. Len(x) = 0 /\ DOMAIN x = 1 .. 0
    OBVIOUS
  <2>3. HeadersOf(lines) = x
    BY <2>1, <1>9
  <2> HIDE DEF x
  <2>4. Len(HeadersOf(lines)) = 0 /\ DOMAIN HeadersOf(lines) = 1 .. 0
    BY <2>2, <2>3
  <2> QED BY <2>4, <1>8
<1>11. CASE N # 0
  <2>1. PICK one \in Nat, two \in Nat : one = 1 /\ two = 2 /\ one + 1 = two
    OBVIOUS
  <2> DEFINE x == SubSeq(lines, two, N)
  <2>2. x \in Seq(Seq(HttpOctet)) /\ Len(x) = N - one /\ \A p \in 1 .. N - one : x[p] = lines[one + p]
    <3>1. one <= N /\ N <= Len(lines)
      BY <1>11, <1>3, <2>1
    <3> QED BY <3>1, <2>1, <1>2, Slice
  <2>3. HeadersOf(lines) = x
    BY <2>1, <1>9
  <2> HIDE DEF x
  <2>4. ASSUME NEW i \in 1 .. Len(x) PROVE CutRow(x[i])
    <3>1. i \in 1 .. N - one /\ one + i \in 2 .. N
      BY <2>1, <2>2, <1>11
    <3> QED BY <3>1, <2>2, <1>5
  <2>5. Len(x) \in Nat /\ DOMAIN x = 1 .. Len(x)
    BY <2>2
  <2> QED BY <2>3, <2>4, <2>5, <1>8
<1> QED BY <1>10, <1>11

LEMMA HeadEnds ==
  ASSUME Http!TypeOK, NEW rows, NEW brows, NEW e, RowsAre(rows, brows, e),
         NEW lines \in Seq(Seq(HttpOctet)), e <= Len(lines), \A i \in 1 .. e : lines[i] = rows[i]
  PROVE  /\ HeadersOf(lines) = HeaderRows
         /\ BehindOf(lines) \in Seq(Seq(HttpOctet)) /\ Len(BehindOf(lines)) = Len(lines) - e
         /\ \A i \in 1 .. Len(lines) - e : BehindOf(lines)[i] = lines[e + i]
<1>1. /\ e \in Nat /\ e >= 2 /\ rows[e] = EmptyRow
      /\ HeaderRows \in Seq(Seq(HttpOctet)) /\ 2 + Len(HeaderRows) = e
      /\ \A i \in 1 .. e - 2 : rows[1 + i] = HeaderRows[i]
  BY DEF RowsAre
<1>2. PICK N \in Nat, h \in Nat : N = Len(lines) /\ h = Len(HeaderRows) /\ e = 2 + h /\ e <= N
  BY <1>1
<1>3. \A m \in 2 .. e - 1 : lines[m] # << >>
  <2>1. TAKE m \in 2 .. e - 1
  <2>2. PICK i \in Nat : m = 1 + i
    <3>1. m - 1 \in Nat /\ m = 1 + (m - 1)
      OBVIOUS
    <3> QED BY <3>1
  <2>3. i \in 1 .. e - 2 /\ i \in 1 .. Len(HeaderRows) /\ m \in 1 .. e
    BY <2>2, <1>1, <1>2
  <2>4. lines[m] = HeaderRows[i]
    BY <2>2, <2>3, <1>1
  <2> QED BY <2>3, <2>4, FieldRows, RowItself
<1>4. lines[e] = << >>
  BY <1>1, <1>2, SMTT(30) DEF EmptyRow
<1> DEFINE T == EmptyLines(lines)
<1>5. T \in SUBSET Nat /\ e \in T /\ \A y \in T : e <= y
  <2>1. T = {m \in 2 .. N : lines[m] = << >>}
    BY <1>2 DEF EmptyLines
  <2>2. e \in T
    BY <2>1, <1>1, <1>2, <1>4
  <2>3. ASSUME NEW y \in T PROVE e <= y
    <3>1. y \in 2 .. N /\ lines[y] = << >>
      BY <2>1
    <3>2. y \notin 2 .. e - 1
      BY <3>1, <1>3
    <3> QED BY <3>1, <3>2, <1>1
  <2>4. T \in SUBSET Nat
    BY <2>1
  <2> QED BY <2>2, <2>3, <2>4
<1> HIDE DEF T
<1>6. EndOf(lines) = e
  <2>1. Min(T) = e
    BY <1>5, MinIs
  <2>2. T # {}
    BY <1>5
  <2> QED BY <2>1, <2>2 DEF EndOf, T
<1>7. HeadersOf(lines) = HeaderRows
  <2>1. PICK one \in Nat, two \in Nat, g \in Nat : one = 1 /\ two = 2 /\ one + 1 = two /\ g = e - 1 /\ g = h + one
    <3>1. 1 \in Nat /\ 2 \in Nat /\ h + 1 \in Nat /\ h + 1 = e - 1 /\ 1 + 1 = 2
      BY <1>2
    <3> QED BY <3>1
  <2> DEFINE x == SubSeq(lines, two, g)
  <2>2. x \in Seq(Seq(HttpOctet)) /\ Len(x) = g - one /\ \A p \in 1 .. g - one : x[p] = lines[one + p]
    <3>1. one <= g /\ g <= Len(lines)
      BY <1>2, <2>1
    <3> QED BY <3>1, <2>1, Slice
  <2>3. HeadersOf(lines) = x
    BY <2>1, <1>6 DEF HeadersOf
  <2> HIDE DEF x
  <2>4. Len(x) = Len(HeaderRows)
    BY <2>1, <2>2, <1>2
  <2>5. ASSUME NEW p \in 1 .. Len(x) PROVE x[p] = HeaderRows[p]
    <3>1. p \in 1 .. g - one /\ p \in 1 .. e - 2 /\ one + p \in 1 .. e /\ one + p = 1 + p
      BY <2>1, <2>2, <1>2
    <3> QED BY <3>1, <2>2, <1>1
  <2>6. x = HeaderRows
    BY <2>2, <2>4, <2>5, <1>1, SameSeq
  <2> QED BY <2>3, <2>6
<1>8. /\ BehindOf(lines) \in Seq(Seq(HttpOctet)) /\ Len(BehindOf(lines)) = Len(lines) - e
      /\ \A i \in 1 .. Len(lines) - e : BehindOf(lines)[i] = lines[e + i]
  <2>1. BehindOf(lines) = SubSeq(lines, e + 1, Len(lines))
    BY <1>6 DEF BehindOf
  <2>2. Len(lines) \in Nat /\ Len(lines) <= Len(lines) /\ e \in Nat
    BY <1>1
  <2> QED BY <2>1, <2>2, Slice
<1> QED BY <1>7, <1>8

\* Where the headers have ended.
LEMMA EndedHead ==
  ASSUME Http!TypeOK, NEW rows, NEW brows, NEW e, RowsAre(rows, brows, e), NEW lines, NEW tail \in Seq(HttpOctet),
         NEW k, NEW rest, Begun(lines, rows, tail, k, rest), k >= e
  PROVE  /\ HeadersOf(lines) = HeaderRows
         /\ BehindOf(lines) = << >> \/ BehindLike(BehindOf(lines), BodyLines(brows, tail))
         /\ k = Len(rows) /\ rest = tail => BehindOf(lines) = BodyLines(brows, tail)
<1> DEFINE bl == BodyLines(brows, tail)
           b == BehindOf(lines)
<1>1. PICK w \in Nat : w = Len(brows)
  BY DEF RowsAre
<1>2. /\ e \in Nat /\ e >= 2 /\ brows \in Seq(Seq(HttpOctet)) /\ Len(rows) = e + w
      /\ \A i \in 1 .. w : rows[e + i] = brows[i]
  BY <1>1 DEF RowsAre
<1>3. /\ bl \in Seq(Seq(HttpOctet)) /\ Len(bl) = (IF tail = << >> THEN w ELSE w + 1)
      /\ (\A i \in 1 .. w : bl[i] = brows[i]) /\ (tail # << >> => bl[w + 1] = tail)
  BY <1>1, <1>2, BodyLinesAre
<1>4. /\ k \in Nat /\ k <= e + w /\ rest \in Seq(HttpOctet) /\ (k < e + w => Stretch(rest, rows[k + 1]))
      /\ (k = e + w => Len(rest) <= Len(tail) /\ Stretch(rest, tail))
      /\ lines \in Seq(Seq(HttpOctet))
      /\ Len(lines) = (IF rest = << >> THEN k ELSE k + 1)
      /\ (\A i \in 1 .. k : lines[i] = rows[i]) /\ (rest # << >> => lines[k + 1] = rest)
  BY <1>2 DEF Begun, LinesBegun
<1>5. PICK N \in Nat, j \in Nat, m \in Nat : N = Len(lines) /\ k = e + j /\ m = N - e
  <2>1. Len(lines) \in Nat /\ k - e \in Nat /\ Len(lines) - e \in Nat /\ k = e + (k - e)
    BY <1>2, <1>4
  <2> QED BY <2>1
<1>6. HeadersOf(lines) = HeaderRows /\ b \in Seq(Seq(HttpOctet)) /\ Len(b) = m /\ \A i \in 1 .. m : b[i] = lines[e + i]
  <2>1. e <= Len(lines) /\ \A i \in 1 .. e : lines[i] = rows[i]
    BY SMTT(30), <1>2, <1>4
  <2> QED BY SMTT(30), <2>1, <1>4, <1>5, HeadEnds
<1> HIDE DEF b, bl
<1>7. j <= w /\ m = (IF rest = << >> THEN j ELSE j + 1)
  BY <1>2, <1>4, <1>5
<1>8. ASSUME NEW i \in 1 .. j PROVE b[i] = bl[i]
  <2>1. i \in 1 .. w /\ i \in 1 .. m /\ e + i \in 1 .. k
    BY <1>2, <1>5, <1>7, SMTT(30)
  <2> QED BY <2>1, <1>2, <1>3, <1>4, <1>6
<1>9. rest # << >> => j + 1 <= Len(bl) /\ Stretch(rest, bl[j + 1]) /\ b[j + 1] = rest
  <2>1. HAVE rest # << >>
  <2>2. b[j + 1] = rest
    <3>1. m = j + 1 /\ j + 1 \in 1 .. m /\ e + (j + 1) = k + 1
      BY <2>1, <1>2, <1>5, <1>7
    <3> QED BY <3>1, <2>1, <1>4, <1>6
  <2>3. CASE j < w
    <3>1. j + 1 \in 1 .. w /\ k < e + w /\ e + (j + 1) = k + 1
      BY <2>3, <1>2, <1>5
    <3>2. j + 1 <= Len(bl)
      <4>1. CASE tail = << >>
        <5>1. Len(bl) = w
          BY <4>1, <1>3
        <5> QED BY <5>1, <2>3
      <4>2. CASE tail # << >>
        <5>1. Len(bl) = w + 1
          BY <4>2, <1>3
        <5> QED BY <5>1, <2>3
      <4> QED BY <4>1, <4>2
    <3>3. Stretch(rest, rows[k + 1]) /\ rows[e + (j + 1)] = brows[j + 1] /\ bl[j + 1] = brows[j + 1]
      BY <3>1, <1>2, <1>3, <1>4
    <3>4. rows[k + 1] = rows[e + (j + 1)]
      BY <3>1
    <3>5. Stretch(rest, bl[j + 1])
      BY <3>3, <3>4
    <3> QED BY <3>2, <3>5, <2>2
  <2>4. CASE j = w
    <3>1. k = e + w /\ Len(rest) # 0
      BY <2>1, <2>4, <1>2, <1>4, <1>5
    <3>2. Len(rest) <= Len(tail) /\ Stretch(rest, tail)
      BY <3>1, <1>4
    <3>3. tail # << >>
      <4>1. Len(rest) \in Nat
        BY <1>4
      <4> QED BY <4>1, <3>1, <3>2
    <3> QED BY <3>2, <3>3, <2>2, <2>4, <1>3
  <2> QED BY <2>3, <2>4, <1>7
<1>10. b = << >> \/ BehindLike(b, bl)
  <2>1. CASE m = 0
    BY <2>1, <1>6
  <2>2. CASE m # 0 /\ rest # << >>
    <3>1. m = j + 1 /\ \A i \in 1 .. m : i # m => i \in 1 .. j
      BY <2>2, <1>7
    <3> QED BY <3>1, <2>2, <1>6, <1>8, <1>9 DEF BehindLike
  <2>3. CASE m # 0 /\ rest = << >>
    <3>1. m = j /\ m \in 1 .. j /\ m <= Len(bl)
      <4>1. m = j
        BY <2>3, <1>7
      <4> QED BY <4>1, <2>3, <1>3, <1>7
    <3>2. Stretch(bl[m], bl[m])
      <4>1. bl[m] \in Seq(HttpOctet)
        BY <3>1, <1>3
      <4> QED BY <4>1 DEF Stretch
    <3>3. Stretch(b[m], bl[m])
      BY <3>1, <3>2, <1>8
    <3> QED BY <3>1, <3>3, <1>6, <1>8 DEF BehindLike
  <2> QED BY <2>1, <2>2, <2>3
<1>11. k = Len(rows) /\ rest = tail => b = bl
  <2>1. HAVE k = Len(rows) /\ rest = tail
  <2>2. j = w /\ Len(b) = Len(bl)
    BY <2>1, <1>2, <1>3, <1>5, <1>6, <1>7
  <2>3. ASSUME NEW i \in 1 .. Len(b) PROVE b[i] = bl[i]
    <3>1. i \in 1 .. m
      BY <1>6
    <3>2. CASE i <= j
      <4>1. i \in 1 .. j
        BY <3>1, <3>2, <1>5
      <4> QED BY <4>1, <1>8
    <3>3. CASE i > j
      <4>1. rest # << >> /\ i = j + 1
        BY <3>1, <3>3, <1>7
      <4> QED BY <4>1, <2>1, <2>2, <1>3, <1>9
    <3> QED BY <3>2, <3>3, <3>1, <1>5
  <2> QED BY <2>2, <2>3, <1>3, <1>6, SameSeq
<1> QED BY <1>6, <1>10, <1>11 DEF b, bl

LEMMA JoinIs ==
  ASSUME NEW g \in Seq(Seq(AnyOctet)), NEW x \in Seq(AnyOctet)
  PROVE  Http!Join(Append(g, x)) = Lined(g, LF, x)
<1> DEFINE lines == Append(g, x)
           w == Lined(g, LF, x)
           lf == LF
<1>1. lines \in Seq(Seq(AnyOctet)) /\ DOMAIN lines = 1 .. Len(lines)
  OBVIOUS
<1>2. lf \in Seq(AnyOctet) /\ w \in Seq(AnyOctet) /\ lf = <<Feed>>
  BY Separators, LinedTyped, Marks, Zenon DEF Feed
<1>3. FlattenSeq(Led(lines, LF)) = lf \o w
  BY <1>2, LedLines
<1>4. Http!Join(lines) = Tail(FlattenSeq(Led(lines, LF)))
  <2> HIDE DEF lines
  <2>1. [i \in DOMAIN lines |-> LF \o lines[i]] = Led(lines, LF)
    BY <1>1 DEF Led
  <2> QED BY <2>1, HttpOctets DEF Http!Join
<1>5. Tail(lf \o w) = w
  <2> HIDE DEF w, lf
  <2>1. Tail(<<Feed>> \o w) = w
    <3>1. Feed \in AnyOctet
      BY OctetsApart
    <3> DEFINE a == <<Feed>> \o w
    <3>2. a \in Seq(AnyOctet) /\ Len(a) = 1 + Len(w) /\ \A i \in 1 .. Len(w) : a[1 + i] = w[i]
      BY <3>1, <1>2
    <3> HIDE DEF a
    <3>3. Tail(a) \in Seq(AnyOctet) /\ Len(Tail(a)) = Len(w) /\ \A i \in 1 .. Len(w) : Tail(a)[i] = a[1 + i]
      <4>1. a # << >>
        <5>1. Len(a) # 0
          BY <3>2, <1>2
        <5>2. \A e : e = << >> => Len(e) = 0
          OBVIOUS
        <5> QED BY <5>1, <5>2, Zenon
      <4>2. Len(Tail(a)) = Len(a) - 1 /\ Tail(a) \in Seq(AnyOctet) /\ \A i \in 1 .. Len(a) - 1 : Tail(a)[i] = a[i + 1]
        BY <4>1, <3>2
      <4>3. Len(a) - 1 = Len(w) /\ \A i \in 1 .. Len(w) : 1 + i = i + 1
        BY <3>2, <1>2
      <4> QED BY <4>2, <4>3
    <3>4. Tail(a) = w
      BY <3>2, <3>3, <1>2, SameSeq
    <3> QED BY <3>4 DEF a
  <2> QED BY <2>1, <1>2
<1> QED BY <1>3, <1>4, <1>5

LEMMA LastApart ==
  ASSUME NEW S, NEW s \in Seq(S), NEW n \in Nat, n + 1 = Len(s)
  PROVE  s = Append(SubSeq(s, 1, n), s[n + 1])
<1> DEFINE g == SubSeq(s, 1, n)
<1>1. n <= Len(s) /\ s[n + 1] \in S
  OBVIOUS
<1>2. g \in Seq(S) /\ Len(g) = n /\ \A p \in 1 .. n : g[p] = s[p]
  BY <1>1, Beginning
<1> HIDE DEF g
<1> DEFINE t == Append(g, s[n + 1])
<1>3. t \in Seq(S) /\ Len(t) = n + 1 /\ (\A p \in 1 .. n : t[p] = g[p]) /\ t[n + 1] = s[n + 1]
  BY <1>1, <1>2
<1> HIDE DEF t
<1>4. \A p \in 1 .. n + 1 : t[p] = s[p]
  <2>1. TAKE p \in 1 .. n + 1
  <2>2. p \in 1 .. n \/ p = n + 1
    OBVIOUS
  <2> QED BY <2>2, <1>2, <1>3
<1>5. t = s
  BY <1>3, <1>4, SameSeq
<1> QED BY <1>5 DEF t, g

\* The octets of the first m lines and those behind.
JoinedFrom(lines, m, more) ==
  more \in Seq(AnyOctet) /\ Http!Join(lines) = Lined(SubSeq(lines, 1, m - 1), LF, lines[m]) \o more
LEMMA JoinSplit ==
  ASSUME NEW lines \in Seq(Seq(AnyOctet)), NEW m \in 1 .. Len(lines)
  PROVE  \E more : JoinedFrom(lines, m, more)
<1>1. PICK n \in Nat, k \in Nat : n + 1 = Len(lines) /\ k + 1 = m /\ k = m - 1 /\ k <= n
  <2>1. Len(lines) - 1 \in Nat /\ m - 1 \in Nat /\ (Len(lines) - 1) + 1 = Len(lines) /\ (m - 1) + 1 = m
        /\ m - 1 <= Len(lines) - 1
    OBVIOUS
  <2> QED BY <2>1, Zenon
<1> DEFINE h == SubSeq(lines, 1, n)
           g == SubSeq(lines, 1, k)
           y == lines[k + 1]
           z == lines[n + 1]
<1>2. h \in Seq(Seq(AnyOctet)) /\ g \in Seq(Seq(AnyOctet)) /\ z \in Seq(AnyOctet) /\ y \in Seq(AnyOctet)
  <2>1. n <= Len(lines) /\ k <= Len(lines) /\ k + 1 \in 1 .. Len(lines) /\ n + 1 \in 1 .. Len(lines)
    BY <1>1
  <2> QED BY <2>1, Beginning
<1>3. lines = Append(h, z)
  BY <1>1, LastApart
<1>4. Http!Join(lines) = Lined(h, LF, z)
  <2> HIDE DEF h, z
  <2>1. Http!Join(Append(h, z)) = Lined(h, LF, z)
    BY <1>2, JoinIs
  <2> QED BY <2>1, <1>3
<1>5. CASE k = n
  <2> DEFINE w == Lined(h, LF, z)
             none == << >>
  <2>1. w \in Seq(AnyOctet)
    BY <1>2, Separators, LinedTyped
  <2>2. none \in Seq(AnyOctet)
    OBVIOUS
  <2>3. w \o none = w
    <3> HIDE DEF w
    <3> QED BY <2>1
  <2>4. Lined(SubSeq(lines, 1, m - 1), LF, lines[m]) = w
    BY <1>1, <1>5
  <2>5. Http!Join(lines) = w \o none
    BY <1>4, <2>3
  <2> HIDE DEF w, none
  <2>6. JoinedFrom(lines, m, none)
    BY <2>2, <2>4, <2>5 DEF JoinedFrom
  <2> QED BY <2>6
<1>6. CASE k < n
  <2> DEFINE a == SubSeq(lines, 1, m)
             r == SubSeq(lines, m + 1, n)
             w == Lined(r, LF, z)
             more == LF \o w
  <2>1. m \in Nat /\ m <= n /\ n <= Len(lines)
    BY <1>1, <1>6
  <2>2. a \in Seq(Seq(AnyOctet)) /\ r \in Seq(Seq(AnyOctet)) /\ a \o r = h
    <3>1. a \o r = h
      BY <2>1, Adjacent
    <3>2. a \in Seq(Seq(AnyOctet))
      BY <2>1, Beginning
    <3>3. r \in Seq(Seq(AnyOctet))
      BY <2>1, Slice
    <3> QED BY <3>1, <3>2, <3>3
  <2>3. a = Append(g, y)
    <3>1. /\ a \in Seq(Seq(AnyOctet)) /\ Len(a) = m /\ \A p \in 1 .. m : a[p] = lines[p]
      BY <2>1, Beginning
    <3>2. k <= Len(lines) /\ k <= Len(a) /\ k + 1 = Len(a)
      BY <3>1, <2>1, <1>1
    <3> DEFINE b == a
    <3> HIDE DEF a
    <3>3. a = Append(SubSeq(a, 1, k), a[k + 1])
      BY <3>1, <3>2, LastApart
    <3>4. a[k + 1] = y
      <4>1. k + 1 \in 1 .. m
        BY <1>1
      <4> QED BY <4>1, <3>1
    <3>5. SubSeq(a, 1, k) = g
      <4> DEFINE u == SubSeq(a, 1, k)
      <4>1. u \in Seq(Seq(AnyOctet)) /\ Len(u) = k /\ \A p \in 1 .. k : u[p] = a[p]
        BY <3>1, <3>2, Beginning
      <4>2. g \in Seq(Seq(AnyOctet)) /\ Len(g) = k /\ \A p \in 1 .. k : g[p] = lines[p]
        BY <3>2, Beginning
      <4> HIDE DEF u, g
      <4>3. \A p \in 1 .. k : p \in 1 .. m
        BY <1>1
      <4>4. \A p \in 1 .. k : u[p] = g[p]
        BY <4>1, <4>2, <4>3, <3>1
      <4>5. u = g
        BY <4>1, <4>2, <4>4, SameSeq
      <4> QED BY <4>5 DEF u
    <3> QED BY <3>3, <3>4, <3>5
  <2>4. w \in Seq(AnyOctet) /\ more \in Seq(AnyOctet)
    <3>1. w \in Seq(AnyOctet)
      BY <2>2, <1>2, Separators, LinedTyped
    <3> HIDE DEF w
    <3> QED BY <3>1, Separators
  <2> HIDE DEF a, r, g, h, y, z
  <2>5. LinedOfTwo(a, r, LF, z)
    BY <2>2, <1>2, Separators, LinedConcat
  <2>6. Lined(h, LF, z) = Lined(a, LF, w)
    BY <2>2, <2>5 DEF LinedOfTwo, Lined
  <2>7. FurtherRow(g, y, LF, w)
    BY <2>4, <1>2, Separators, LinedRow
  <2>8. Lined(a, LF, w) = Lined(g, LF, y) \o more
    BY <2>3, <2>7 DEF FurtherRow
  <2> HIDE DEF more, w
  <2>9. SubSeq(lines, 1, m - 1) = g /\ lines[m] = y
    BY <1>1 DEF g, y
  <2>10. JoinedFrom(lines, m, more)
    BY <2>4, <2>6, <2>8, <2>9, <1>4 DEF JoinedFrom
  <2> QED BY <2>10
<1> QED BY <1>1, <1>5, <1>6, SMTT(30)

LEMMA BodyEnds ==
  /\ \A s : Http!Last(s) = s[Len(s)] /\ Last(s) = s[Len(s)]
  /\ \A s : Http!Front(s) = Front(s)
BY DEF Http!Last, Last, Http!Front, Front

LEMMA FrontOf ==
  ASSUME NEW S, NEW s \in Seq(S), NEW x \in S
  PROVE  Front(s \o <<x>>) = s
<1> DEFINE t == s \o <<x>>
<1>1. PICK n \in Nat : n = Len(s)
  OBVIOUS
<1>2. t \in Seq(S) /\ Len(t) = n + 1 /\ \A i \in 1 .. n : t[i] = s[i]
  BY <1>1, Followed
<1> HIDE DEF t
<1>3. SubSeq(t, 1, n) \in Seq(S) /\ Len(SubSeq(t, 1, n)) = n /\ \A i \in 1 .. n : SubSeq(t, 1, n)[i] = t[i]
  BY <1>2, Beginning
<1>4. SubSeq(t, 1, n) = s
  <2> DEFINE u == SubSeq(t, 1, n)
  <2> HIDE DEF u
  <2>1. u \in Seq(S) /\ Len(u) = Len(s) /\ \A i \in 1 .. Len(u) : u[i] = s[i]
    BY <1>1, <1>2, <1>3 DEF u
  <2>2. u = s
    BY <2>1, SameSeq
  <2> QED BY <2>2 DEF u
<1>5. Len(t) - 1 = n
  BY <1>2
<1> QED BY <1>4, <1>5 DEF Front, t

\* The body as it should be read is that of its lines.
BodyIsJoined(brows, tail) ==
  /\ Http!Body \in Seq(AnyOctet)
  /\ content = << >> => BodyLines(brows, tail) = << >> /\ Http!Body = << >>
  /\ content # << >> => /\ BodyLines(brows, tail) # << >>
                        /\ Http!Join(BodyLines(brows, tail)) = Http!Body
LEMMA BodyJoined ==
  ASSUME Http!TypeOK, NEW brows, NEW tail, BodyRows(content, brows, tail)
  PROVE  BodyIsJoined(brows, tail)
<1> DEFINE w == Lined(brows, LF, tail)
<1>1. brows \in Seq(Seq(AnyOctet)) /\ tail \in Seq(AnyOctet)
  BY CharRowsTyped DEF BodyRows
<1>2. w \in Seq(AnyOctet)
  BY <1>1, Separators, LinedTyped
<1>3. Http!BodyWith(LF) = w
  <2>1. content \in Seq(Http!Piece)
    BY DEF Http!TypeOK
  <2> QED BY <2>1, BodyIs DEF BodyRows
<1> HIDE DEF w
<1>4. Http!Body = IF content # << >> /\ Last(content) = "break" THEN Front(w) ELSE w
  BY <1>3, HttpOctets, BodyEnds DEF Http!Body
<1>5. content = << >> <=> brows = << >> /\ tail = << >>
  BY DEF BodyRows
<1>6. CASE content = << >>
  <2>1. Http!Body = w /\ brows = << >> /\ tail = << >>
    BY <1>4, <1>5, <1>6
  <2>2. w = << >>
    <3>1. Lined(<< >>, LF, tail) = tail
      BY <1>1, LinedNone
    <3> QED BY <3>1, <2>1 DEF w
  <2>3. BodyLines(brows, tail) = << >>
    BY <2>1 DEF BodyLines
  <2> QED BY <2>1, <2>2, <2>3, <1>2, <1>6 DEF BodyIsJoined
<1>7. CASE content # << >> /\ tail # << >>
  <2>1. Last(content) # "break"
    BY <1>7 DEF BodyRows
  <2>2. Http!Body = w
    BY <1>4, <2>1
  <2>3. BodyLines(brows, tail) = Append(brows, tail)
    BY <1>7 DEF BodyLines
  <2>4. Http!Join(Append(brows, tail)) = w
    BY <1>1, JoinIs DEF w
  <2>5. Append(brows, tail) # << >>
    <3> DEFINE a == Append(brows, tail)
    <3>1. Len(a) = Len(brows) + 1 /\ Len(brows) \in Nat
      BY <1>1
    <3> HIDE DEF a
    <3>2. Len(a) # 0
      BY <3>1
    <3>3. \A e : e = << >> => Len(e) = 0
      OBVIOUS
    <3>4. a # << >>
      BY <3>2, <3>3, Zenon
    <3> QED BY <3>4 DEF a
  <2> QED BY <2>2, <2>3, <2>4, <2>5, <1>2, <1>7 DEF BodyIsJoined
<1>8. CASE content # << >> /\ tail = << >>
  <2>1. Last(content) = "break" /\ brows # << >>
    BY <1>5, <1>8 DEF BodyRows
  <2>2. Http!Body = Front(w)
    BY <1>4, <1>8, <2>1
  <2>3. BodyLines(brows, tail) = brows
    BY <1>8, SMTT(30) DEF BodyLines
  <2>4. PICK n \in Nat : n + 1 = Len(brows)
    <3>1. Len(brows) # 0 /\ Len(brows) \in Nat
      BY <2>1, <1>1
    <3>2. Len(brows) - 1 \in Nat /\ (Len(brows) - 1) + 1 = Len(brows)
      BY <3>1
    <3> QED BY <3>2, Zenon
  <2> DEFINE g == SubSeq(brows, 1, n)
             r == brows[n + 1]
             v == Lined(g, LF, r)
             none == << >>
             lf == LF
  <2>5. brows = Append(g, r)
    BY <2>4, <1>1, LastApart
  <2>6. g \in Seq(Seq(AnyOctet)) /\ r \in Seq(AnyOctet)
    <3>1. n <= Len(brows) /\ n + 1 \in 1 .. Len(brows)
      BY <2>4
    <3>2. g \in Seq(Seq(AnyOctet))
      BY <3>1, <1>1, Beginning
    <3> QED BY <3>1, <3>2, <1>1
  <2> HIDE DEF g, r
  <2>7. v \in Seq(AnyOctet) /\ Http!Join(Append(g, r)) = v
    BY <2>6, Separators, LinedTyped, JoinIs
  <2>8. none \in Seq(AnyOctet) /\ lf \in Seq(AnyOctet) /\ lf = <<Feed>>
    <3>1. none \in Seq(AnyOctet)
      OBVIOUS
    <3> HIDE DEF none
    <3>2. lf \in Seq(AnyOctet)
      BY Separators
    <3>3. lf = <<Feed>>
      BY Marks, Zenon DEF Feed
    <3> QED BY <3>1, <3>2, <3>3
  <2>9. FurtherRow(g, r, LF, none)
    BY <2>6, <2>8, Separators, LinedRow
  <2>10. w = v \o (lf \o none)
    BY <2>5, <2>9, <1>8 DEF FurtherRow, w
  <2> HIDE DEF v
  <2>11. lf \o none = lf
    <3> HIDE DEF lf
    <3> QED BY <2>8
  <2>12. Feed \in AnyOctet
    BY OctetsApart
  <2>13. Front(v \o <<Feed>>) = v
    BY <2>7, <2>12, FrontOf
  <2>14. Http!Body = v
    BY <2>2, <2>8, <2>10, <2>11, <2>13
  <2> QED BY <2>1, <2>3, <2>5, <2>7, <2>14, <1>8 DEF BodyIsJoined
<1> QED BY <1>6, <1>7, <1>8

\* A cut message panics only where the whole does.
LEMMA CutOverlong ==
  ASSUME NEW lines \in Seq(Seq(AnyOctet)), NEW b, BehindLike(b, lines), Overlong(Http!Join(b)),
         NEW w \in Seq(AnyOctet), Http!Join(lines) = w, PreviewLength \in Nat
  PROVE  Len(w) > PreviewLength /\ w[PreviewLength + 1] = Continuation
<1>1. PICK m \in Nat : /\ m >= 1 /\ m <= Len(lines) /\ b \in Seq(Seq(HttpOctet)) /\ Len(b) = m
                       /\ \A i \in 1 .. m : i # m => b[i] = lines[i]
                       /\ Stretch(b[m], lines[m])
  BY DEF BehindLike
<1>2. PICK k \in Nat : k + 1 = m /\ k = m - 1
  <2>1. m - 1 \in Nat /\ (m - 1) + 1 = m
    BY <1>1
  <2> QED BY <2>1
<1> DEFINE g == SubSeq(lines, 1, k)
           x == b[m]
           y == lines[m]
           f == FlattenSeq(Ended(g, LF))
<1>3. x \in Seq(AnyOctet) /\ y \in Seq(AnyOctet) /\ g \in Seq(Seq(AnyOctet)) /\ b \in Seq(Seq(AnyOctet))
  <2>1. m \in 1 .. Len(b) /\ m \in 1 .. Len(lines) /\ k <= Len(lines)
    BY <1>1, <1>2
  <2>2. b \in Seq(Seq(AnyOctet))
    BY <1>1, OfRows
  <2>3. x \in Seq(AnyOctet) /\ y \in Seq(AnyOctet)
    BY <2>1, <2>2
  <2>4. g \in Seq(Seq(AnyOctet))
    BY <2>1, Beginning
  <2> QED BY <2>2, <2>3, <2>4
<1>4. f \in Seq(AnyOctet)
  BY <1>3, Separators, LinedTyped
<1>5. Http!Join(b) = f \o x
  <2>1. b = Append(SubSeq(b, 1, k), b[k + 1])
    BY <1>1, <1>2, <1>3, LastApart
  <2>2. SubSeq(b, 1, k) = g
    <3> DEFINE u == SubSeq(b, 1, k)
    <3>1. k <= Len(b) /\ k <= Len(lines) /\ \A p \in 1 .. k : p \in 1 .. m /\ p # m
      BY <1>1, <1>2
    <3>2. u \in Seq(Seq(AnyOctet)) /\ Len(u) = k /\ \A p \in 1 .. k : u[p] = b[p]
      BY <3>1, <1>3, Beginning
    <3>3. g \in Seq(Seq(AnyOctet)) /\ Len(g) = k /\ \A p \in 1 .. k : g[p] = lines[p]
      BY <3>1, Beginning
    <3> HIDE DEF u, g
    <3>4. \A p \in 1 .. k : u[p] = g[p]
      BY <3>1, <3>2, <3>3, <1>1
    <3>5. u = g
      BY <3>2, <3>3, <3>4, SameSeq
    <3> QED BY <3>5 DEF u
  <2>3. Http!Join(Append(g, x)) = Lined(g, LF, x)
    BY <1>3, JoinIs
  <2> QED BY <2>1, <2>2, <2>3, <1>2 DEF Lined
<1>6. PICK more : JoinedFrom(lines, m, more)
  <2>1. m \in 1 .. Len(lines)
    BY <1>1
  <2> QED BY <2>1, JoinSplit
<1>7. more \in Seq(AnyOctet) /\ w = (f \o y) \o more
  BY <1>2, <1>6 DEF JoinedFrom, Lined
<1> DEFINE fx == f \o x
           fy == f \o y
           v == fy \o more
<1> HIDE DEF f, g, x, y
<1>8. IsJoin(fx, AnyOctet, f, x) /\ IsJoin(fy, AnyOctet, f, y)
  BY <1>3, <1>4, Joined
<1> HIDE DEF fx, fy
<1>9. IsJoin(v, AnyOctet, fy, more)
  <2>1. fy \in Seq(AnyOctet)
    BY <1>8 DEF IsJoin
  <2> QED BY <2>1, <1>7, Joined
<1>10. w = v
  BY <1>7 DEF fy
<1> HIDE DEF v
<1>11. PICK i \in Nat, lf \in Nat, lx \in Nat, ly \in Nat, lm \in Nat :
         i = PreviewLength + 1 /\ lf = Len(f) /\ lx = Len(x) /\ ly = Len(y) /\ lm = Len(more) /\ i >= 1
  <2>1. PreviewLength + 1 \in Nat /\ PreviewLength + 1 >= 1
    OBVIOUS
  <2>2. Len(f) \in Nat /\ Len(x) \in Nat /\ Len(y) \in Nat /\ Len(more) \in Nat
    BY <1>3, <1>4, <1>7
  <2> QED BY <2>1, <2>2
<1>12. /\ Len(fx) = lf + lx /\ (\A j \in 1 .. lf : fx[j] = f[j]) /\ (\A j \in 1 .. lx : fx[lf + j] = x[j])
       /\ Len(fy) = lf + ly /\ (\A j \in 1 .. lf : fy[j] = f[j]) /\ (\A j \in 1 .. ly : fy[lf + j] = y[j])
       /\ Len(v) = (lf + ly) + lm /\ \A j \in 1 .. lf + ly : v[j] = fy[j]
  BY <1>8, <1>9, <1>11 DEF IsJoin
<1>13. i <= lf + lx /\ fx[i] = Continuation
  <2>1. Overlong(fx)
    BY <1>5 DEF fx
  <2>2. Len(fx) > PreviewLength /\ fx[PreviewLength + 1] = Continuation
    BY <2>1 DEF Overlong, IsBoundary
  <2> QED BY <2>2, <1>11, <1>12
<1>14. i <= lf + ly /\ fy[i] = Continuation
  <2>1. CASE i <= lf
    BY <2>1, <1>11, <1>12, <1>13
  <2>2. CASE i > lf
    <3>1. PICK q \in Nat : i = lf + q /\ q >= 1 /\ q <= lx
      <4>1. i - lf \in Nat /\ i = lf + (i - lf) /\ i - lf >= 1 /\ i - lf <= lx
        BY <2>2, <1>13
      <4> QED BY <4>1
    <3>2. x[q] = Continuation
      BY SMTT(30), <3>1, <1>12, <1>13
    <3>3. q <= ly /\ x[q] = y[q]
      <4>1. IF q <= Len(y) THEN x[q] = y[q] ELSE x[q] = CR
        <5>1. Stretch(x, y)
          BY <1>1 DEF x, y
        <5>2. q \in 1 .. Len(x)
          BY <3>1, <1>11
        <5> QED BY <5>1, <5>2 DEF Stretch
      <4>2. CR # Continuation
        BY OctetsApart
      <4> QED BY <4>1, <4>2, <3>2, <1>11
    <3> QED BY <3>1, <3>2, <3>3, <1>12
  <2> QED BY <2>1, <2>2
<1>15. v[i] = Continuation /\ i <= Len(v)
  BY <1>11, <1>12, <1>14
<1> QED BY <1>10, <1>11, <1>15

\* What a parser of a cut message may return after its first line.
CutResult(result, first) ==
  \/ result = Err
  \/ result = Panic /\ Len(Http!Body) > PreviewLength /\ Http!Body[PreviewLength + 1] = Continuation
  \/ \E fields, preview, next :
       HeadersShow(fields) /\ result = Parsed(MessageOf(first, fields, preview), next)
LEMMA FinishCut ==
  ASSUME Http!TypeOK, NEW brows, NEW tail, BodyRows(content, brows, tail), NEW lines, NEW k, NEW rest,
         Begun(lines, HeadRows \o brows, tail, k, rest), NEW first
  PROVE  CutResult(Http!Finish(first, lines), first)
<1> DEFINE rows == HeadRows \o brows
           e == 2 + Len(HeaderRows)
           hl == HeadersOf(lines)
           b == BehindOf(lines)
           bl == BodyLines(brows, tail)
<1>1. RowsAre(rows, brows, e) /\ tail \in Seq(HttpOctet)
  BY RowsKnown
<1> HIDE DEF rows, e
<1>2. Begun(lines, rows, tail, k, rest)
  BY DEF rows
<1>3. /\ Len(hl) \in Nat /\ DOMAIN hl = 1 .. Len(hl) /\ \A i \in 1 .. Len(hl) : CutRow(hl[i])
      /\ b = << >> \/ BehindLike(b, bl)
  <2>1. CASE k < e
    BY <1>1, <1>2, <2>1, EndlessHead
  <2>2. CASE k >= e
    <3>1. hl = HeaderRows /\ (b = << >> \/ BehindLike(b, bl))
      BY <1>1, <1>2, <2>2, EndedHead
    <3>2. HeaderRows \in Seq(Seq(RowOctet)) /\ \A i \in 1 .. Len(HeaderRows) : CutRow(HeaderRows[i])
      BY HeadTyped, FieldRows, RowItself
    <3>3. Len(HeaderRows) \in Nat /\ DOMAIN HeaderRows = 1 .. Len(HeaderRows)
      BY <3>2
    <3> QED BY <3>1, <3>2, <3>3
  <2>3. k \in Nat /\ e \in Nat
    BY <1>1, <1>2 DEF RowsAre, Begun
  <2> QED BY <2>1, <2>2, <2>3
<1>4. PreviewLength \in Nat
  BY HttpAssumption
<1>5. BodyIsJoined(brows, tail)
  BY BodyJoined
<1>6. bl \in Seq(Seq(AnyOctet)) /\ brows \in Seq(Seq(HttpOctet))
  <2>1. brows \in Seq(Seq(HttpOctet))
    BY <1>1 DEF RowsAre
  <2>2. bl \in Seq(Seq(HttpOctet))
    BY <2>1, <1>1, BodyLinesAre
  <2> HIDE DEF bl
  <2> QED BY <2>1, <2>2, OfRows
<1> HIDE DEF hl, b, bl
<1>7. CASE Http!ParseHeaders(hl) = Err
  <2>1. Http!Finish(first, lines) = Err
    BY <1>7, FinishFails DEF hl
  <2> QED BY <2>1 DEF CutResult
<1>8. CASE \E fields : HeadersShow(fields) /\ Http!ParseHeaders(hl) = Parsed(fields, Len(hl))
  <2>1. PICK fields : HeadersShow(fields) /\ Http!ParseHeaders(hl) = Parsed(fields, Len(hl))
    BY <1>8
  <2> DEFINE next == Len(hl)
             j == Http!Join(b)
  <2>2. Http!Finish(first, lines) = FinishWith(first, lines, fields, next)
    BY <2>1, FinishGoesOn DEF hl
  <2> HIDE DEF next, j
  <2>3. CASE b = << >>
    <3>1. FinishWith(first, lines, fields, next) = Parsed(MessageOf(first, fields, Http!None), next)
      BY <2>3 DEF FinishWith, b
    <3> QED BY <3>1, <2>1, <2>2 DEF CutResult
  <2>4. CASE b # << >> /\ ~ Overlong(j)
    <3>1. FinishWith(first, lines, fields, next) = Parsed(MessageOf(first, fields, Http!TruncateBody(j)), next)
      BY <2>4 DEF FinishWith, b, j
    <3> QED BY <3>1, <2>1, <2>2 DEF CutResult
  <2>5. CASE b # << >> /\ Overlong(j)
    <3>1. FinishWith(first, lines, fields, next) = Panic
      BY <2>5 DEF FinishWith, b, j
    <3>2. BehindLike(b, bl)
      BY <2>5, <1>3
    <3>3. bl # << >>
      <4>1. Len(bl) # 0
        BY <3>2 DEF BehindLike
      <4>2. \A x : x = << >> => Len(x) = 0
        OBVIOUS
      <4> QED BY <4>1, <4>2, Zenon
    <3>4. Http!Body \in Seq(AnyOctet) /\ Http!Join(bl) = Http!Body
      BY <3>3, <1>5 DEF BodyIsJoined, bl
    <3>5. Overlong(Http!Join(b))
      BY <2>5 DEF j
    <3>6. Len(Http!Body) > PreviewLength /\ Http!Body[PreviewLength + 1] = Continuation
      BY <3>2, <3>4, <3>5, <1>4, <1>6, CutOverlong
    <3> QED BY <3>1, <3>6, <2>2 DEF CutResult
  <2> QED BY <2>3, <2>4, <2>5
<1>9. Http!ParseHeaders(hl) = Err \/ \E fields : HeadersShow(fields) /\ Http!ParseHeaders(hl) = Parsed(fields, Len(hl))
  BY <1>3, HeadersCut
<1> QED BY <1>7, <1>8, <1>9

WholeResult(result, first) ==
  \E fields, next :
    /\ HeadersWhole(fields)
    /\ result = IF content = << >> THEN Parsed(MessageOf(first, fields, Http!None), next)
                ELSE IF Overlong(Http!Body) THEN Panic
                ELSE Parsed(MessageOf(first, fields, Http!TruncateBody(Http!Body)), next)
LEMMA FinishWhole ==
  ASSUME Http!TypeOK, NEW brows, NEW tail, BodyRows(content, brows, tail), NEW lines,
         Begun(lines, HeadRows \o brows, tail, Len(HeadRows \o brows), tail), NEW first
  PROVE  WholeResult(Http!Finish(first, lines), first)
<1> DEFINE rows == HeadRows \o brows
           e == 2 + Len(HeaderRows)
           hl == HeadersOf(lines)
           b == BehindOf(lines)
           bl == BodyLines(brows, tail)
<1>1. RowsAre(rows, brows, e) /\ tail \in Seq(HttpOctet)
  BY RowsKnown
<1> HIDE DEF rows, e
<1>2. Begun(lines, rows, tail, Len(rows), tail)
  BY DEF rows
<1>3. hl = HeaderRows /\ b = bl
  <2>1. Len(rows) >= e
    BY <1>1 DEF RowsAre
  <2> QED BY <1>1, <1>2, <2>1, EndedHead
<1>4. PICK fields : HeadersWhole(fields) /\ Http!ParseHeaders(hl) = Parsed(fields, Len(HeaderRows))
  <2>1. PICK main : HeadersAt(main, HeaderRows)
    BY HeadersPlaced
  <2> QED BY <2>1, <1>3, HeadersRight
<1>5. BodyIsJoined(brows, tail)
  BY BodyJoined
<1> DEFINE next == Len(HeaderRows)
<1>6. Http!Finish(first, lines) = FinishWith(first, lines, fields, next)
  BY <1>4, FinishGoesOn
<1> HIDE DEF next, hl, b, bl
<1>7. CASE content = << >>
  <2>1. b = << >>
    BY <1>3, <1>5, <1>7 DEF BodyIsJoined, bl
  <2>2. FinishWith(first, lines, fields, next) = Parsed(MessageOf(first, fields, Http!None), next)
    BY <2>1 DEF FinishWith, b
  <2> QED BY <2>2, <1>4, <1>6, <1>7 DEF WholeResult
<1>8. CASE content # << >>
  <2>1. b # << >> /\ Http!Join(b) = Http!Body
    BY <1>3, <1>5, <1>8 DEF BodyIsJoined, bl
  <2>2. FinishWith(first, lines, fields, next) =
          IF Overlong(Http!Body) THEN Panic
          ELSE Parsed(MessageOf(first, fields, Http!TruncateBody(Http!Body)), next)
    BY <2>1 DEF FinishWith, b
  <2> QED BY <2>2, <1>4, <1>6, <1>8 DEF WholeResult
<1> QED BY <1>7, <1>8

LEMMA OctetOf == ASSUME NEW S, NEW s \in Seq(S), NEW i \in 1 .. Len(s) PROVE s[i] \in S
  OBVIOUS

\* The first line of a message, or of what was cut from it.
LEMMA FirstLineBegun ==
  ASSUME NEW lines, NEW rows, NEW brows, NEW e, RowsAre(rows, brows, e), NEW tail, NEW k, NEW rest,
         Begun(lines, rows, tail, k, rest), k # 0 \/ rest # << >>, StartIs(Http!StartLine)
  PROVE  /\ Len(lines) >= 1 /\ Len(lines[1]) \in Nat
         /\ StartOf(lines[1], Http!StartLine, Len(lines[1]))
         /\ k # 0 => Len(lines[1]) = 15
<1> DEFINE s == Http!StartLine
<1>1. s \in Seq(RowOctet) /\ Len(s) = 15 /\ StartIs(s)
  BY DEF StartIs
<1>2. rows[1] = s /\ Len(rows) >= 2
  BY DEF RowsAre
<1> HIDE DEF s
<1>3. /\ k \in Nat /\ rest \in Seq(HttpOctet) /\ (k < Len(rows) => Stretch(rest, rows[k + 1]))
      /\ lines \in Seq(Seq(HttpOctet)) /\ Len(lines) = (IF rest = << >> THEN k ELSE k + 1)
      /\ (\A i \in 1 .. k : lines[i] = rows[i]) /\ (rest # << >> => lines[k + 1] = rest)
  BY DEF Begun, LinesBegun
<1>4. Len(lines) >= 1
  BY <1>3
<1>5. CASE k # 0
  <2>1. 1 \in 1 .. k
    BY <1>3, <1>5
  <2>2. lines[1] = s
    BY <2>1, <1>2, <1>3
  <2>3. StartOf(s, s, 15)
    BY <1>1 DEF StartOf
  <2> QED BY <2>2, <2>3, <1>1, <1>4 DEF s
<1>6. CASE k = 0
  <2>1. lines[1] = rest
    <3>1. rest # << >> /\ k + 1 = 1
      BY <1>6
    <3> QED BY <3>1, <1>3
  <2>2. Stretch(rest, s)
    <3>1. k < Len(rows) /\ k + 1 = 1
      BY <1>2, <1>6
    <3> QED BY <3>1, <1>2, <1>3
  <2>3. PICK m \in Nat : m = Len(rest)
    BY <1>3
  <2>4. m <= 16 /\ \A j \in 1 .. m : IF j <= 15 THEN rest[j] = s[j] ELSE rest[j] = CR
    BY <2>2, <2>3, <1>1 DEF Stretch
  <2>5. \A j \in 1 .. m : rest[j] \in RowOctet
    <3>1. TAKE j \in 1 .. m
    <3>2. j <= 15 => s[j] \in RowOctet
      <4>1. j <= 15 => j \in 1 .. Len(s)
        BY <1>1
      <4>2. \A i \in 1 .. Len(s) : s[i] \in RowOctet
        BY <1>1, OctetOf
      <4> QED BY <4>1, <4>2
    <3> QED BY <3>2, <2>4, OctetsApart
  <2>6. rest \in Seq(RowOctet)
    <3>1. rest \in [1 .. m -> RowOctet]
      BY <2>3, <2>5, <1>3
    <3> QED BY <3>1, <2>3
  <2>7. StartOf(rest, s, m)
    BY <2>3, <2>4, <2>6, <1>1 DEF StartOf
  <2> QED BY <2>1, <2>3, <2>7, <1>4, <1>6 DEF s
<1> QED BY <1>5, <1>6

LEMMA MessageIsText == ASSUME Http!TypeOK PROVE IsText(Http!Message)
<1> DEFINE w == Http!Message
<1>1. PICK brows, tail : BodyRows(content, brows, tail)
  <2>1. content \in Seq(Http!Piece)
    BY DEF Http!TypeOK
  <2> QED BY <2>1, BodyInRows
<1> DEFINE rows == HeadRows \o brows
<1>2. w = Lined(rows, NewLine, tail)
  BY <1>1, MessageInRows DEF InRows
<1>3. RowsAre(rows, brows, 2 + Len(HeaderRows)) /\ tail \in Seq(HttpOctet)
  BY <1>1, RowsKnown
<1>4. StartThenAfter(w, Http!StartLine, After)
  BY MessageBegins
<1>5. w \in Seq(AnyOctet) /\ Len(w) >= 15 /\ w[1] # Continuation
  <2>1. w[1] = Http!StartLine[1] /\ Http!StartLine \in Seq(RowOctet) /\ Len(Http!StartLine) = 15 /\ w \in Seq(AnyOctet)
        /\ Len(w) = 15 + Len(After) /\ After \in Seq(AnyOctet)
    BY <1>4 DEF StartThenAfter, StartIs
  <2>2. Http!StartLine[1] \in RowOctet
    <3>1. 1 \in 1 .. Len(Http!StartLine)
      BY <2>1
    <3>2. \A i \in 1 .. Len(Http!StartLine) : Http!StartLine[i] \in RowOctet
      BY <2>1, OctetOf
    <3> QED BY <3>1, <3>2
  <2> QED BY <2>1, <2>2, OctetsApart
<1> HIDE DEF w, rows
<1>6. "lead" \notin DOMAIN w[Len(w)]
  <2>1. rows \in Seq(Seq(AnyOctet)) /\ tail \in Seq(AnyOctet)
    BY <1>3, OfRows DEF RowsAre
  <2>2. CASE tail # << >>
    <3> DEFINE f == FlattenSeq(Ended(rows, NewLine))
    <3>1. f \in Seq(AnyOctet)
      BY <2>1, Separators, LinedTyped
    <3>2. w = f \o tail
      BY <1>2 DEF Lined
    <3> HIDE DEF f
    <3>3. PICK a \in Nat, z \in Nat : a = Len(f) /\ z = Len(tail) /\ z >= 1
      <4>1. Len(tail) # 0 /\ Len(tail) \in Nat /\ Len(f) \in Nat
        BY <2>1, <2>2, <3>1
      <4> QED BY <4>1
    <3>4. IsJoin(f \o tail, AnyOctet, f, tail)
      BY <2>1, <3>1, Joined
    <3>5. Len(w) = a + z /\ w[a + z] = tail[z]
      BY <3>2, <3>3, <3>4 DEF IsJoin
    <3>6. "lead" \notin DOMAIN tail[z]
      BY <3>3, <2>2, <1>1 DEF BodyRows
    <3> QED BY <3>5, <3>6
  <2>3. CASE tail = << >>
    <3>1. PICK n \in Nat : n + 1 = Len(rows)
      <4>1. Len(rows) >= 2 /\ Len(rows) \in Nat
        BY <1>3 DEF RowsAre
      <4>2. Len(rows) - 1 \in Nat /\ (Len(rows) - 1) + 1 = Len(rows)
        BY <4>1
      <4> QED BY <4>2, Zenon
    <3> DEFINE g == SubSeq(rows, 1, n)
               r == rows[n + 1]
               v == Lined(g, NewLine, r)
               nl == NewLine
               none == << >>
    <3>2. rows = Append(g, r)
      BY <3>1, <2>1, LastApart
    <3>3. g \in Seq(Seq(AnyOctet)) /\ r \in Seq(AnyOctet)
      <4>1. n <= Len(rows) /\ n + 1 \in 1 .. Len(rows)
        BY <3>1
      <4>2. g \in Seq(Seq(AnyOctet))
        BY <4>1, <2>1, Beginning
      <4> QED BY <4>1, <4>2, <2>1
    <3> HIDE DEF g, r
    <3>4. v \in Seq(AnyOctet)
      BY <3>3, Separators, LinedTyped
    <3>5. none \in Seq(AnyOctet)
      OBVIOUS
    <3>6. FurtherRow(g, r, NewLine, none)
      BY <3>3, <3>5, Separators, LinedRow
    <3>7. w = v \o (nl \o none)
      BY <3>2, <3>6, <2>3, <1>2 DEF FurtherRow
    <3> HIDE DEF v, nl
    <3>8. nl \in Seq(AnyOctet) /\ Len(nl) = 2 /\ nl[2] = Feed
      BY LineBreak DEF nl
    <3>9. nl \o none = nl
      BY <3>8
    <3>10. PICK a \in Nat : a = Len(v)
      BY <3>4
    <3>11. IsJoin(v \o nl, AnyOctet, v, nl)
      BY <3>4, <3>8, Joined
    <3>12. Len(w) = a + 2 /\ w[a + 2] = Feed
      BY <3>7, <3>8, <3>9, <3>10, <3>11 DEF IsJoin
    <3> QED BY <3>12, OctetsApart, SMTT(30)
  <2> QED BY <2>2, <2>3
<1>7. ASSUME NEW i \in 1 .. Len(w)
      PROVE  (Has(w, i - 1, "lead") => i < Len(w)) /\ (w[i] = Continuation => i > 1)
  <2>1. (i - 1) + 1 = i
    OBVIOUS
  <2>2. Has(w, i - 1, "lead") <=> "lead" \in DOMAIN w[i]
    BY <2>1 DEF Has
  <2>3. "lead" \in DOMAIN w[i] => i # Len(w)
    BY <1>6
  <2>4. w[i] = Continuation => i # 1
    BY <1>5
  <2>5. Len(w) \in Nat
    BY <1>5
  <2> QED BY <2>2, <2>3, <2>4, <2>5
<1>8. DOMAIN w = 1 .. Len(w)
  BY <1>5
<1>9. IsText(w)
  BY <1>7, <1>8 DEF IsText
<1> QED BY <1>9 DEF w

(***************************************************************************)
(* What it shows of a first segment, and of a whole message.               *)
(***************************************************************************)
\* The first line as it is shown.
FirstShown(first, whole) ==
  \A field \in DOMAIN Http!First :
    /\ field \in DOMAIN first /\ field \notin {"headers", "body_preview"}
    /\ IF field = Http!LastOfFirst THEN IsPrefix(first[field], Http!First[field] \o Http!Mark("CR"))
       ELSE first[field] = Http!First[field]
    /\ whole => first[field] = Http!First[field]
LEMMA FirstIsShown ==
  ASSUME NEW first, NEW whole, FirstRead(first, whole)
  PROVE  FirstShown(first, whole)
<1>1. Http!Mark("CR") = Mark("CR")
  BY HttpOctets, Marks, Zenon DEF CR
<1>2. CASE Answers
  <2> DEFINE v == Http!Version
             c == StatusField
  <2>1. PICK t : /\ first = [version |-> v, status_code |-> t]
                 /\ IsPrefix(t, c \o Mark("CR")) /\ (whole => t = c)
    BY <1>2 DEF FirstRead
  <2>2. Http!First = [version |-> v, status_code |-> c]
    BY <1>2, HttpOctets DEF Http!First, Answers, StatusField
  <2>3. Http!LastOfFirst = "status_code"
    BY <1>2 DEF Http!LastOfFirst, Answers
  <2> HIDE DEF v, c
  <2>4. DOMAIN Http!First = {"version", "status_code"} /\ DOMAIN first = {"version", "status_code"}
    BY <2>1, <2>2
  <2>5. /\ first["version"] = v /\ first["status_code"] = t
        /\ Http!First["version"] = v /\ Http!First["status_code"] = c
    BY <2>1, <2>2
  <2>6. ASSUME NEW field \in DOMAIN Http!First
        PROVE  /\ field \in DOMAIN first /\ field \notin {"headers", "body_preview"}
               /\ IF field = Http!LastOfFirst THEN IsPrefix(first[field], Http!First[field] \o Http!Mark("CR"))
                  ELSE first[field] = Http!First[field]
               /\ whole => first[field] = Http!First[field]
    <3>1. field = "version" \/ field = "status_code"
      BY <2>4
    <3>2. CASE field = "version"
      <4>1. field # Http!LastOfFirst /\ first[field] = Http!First[field]
        BY <3>2, <2>3, <2>5
      <4> QED BY <4>1, <3>2, <2>4
    <3>3. CASE field = "status_code"
      <4>1. field = Http!LastOfFirst /\ first[field] = t /\ Http!First[field] = c
        BY <3>3, <2>3, <2>5
      <4> QED BY <4>1, <3>3, <2>1, <2>4, <1>1
    <3> QED BY <3>1, <3>2, <3>3
  <2> QED BY <2>6 DEF FirstShown
<1>3. CASE ~ Answers
  <2> DEFINE v == Http!Version
             m == Field([word |-> start.method], 3)
             u == Field([word |-> start.uri], 2)
  <2>1. PICK t : /\ first = [method |-> m, uri |-> u, version |-> t]
                 /\ IsPrefix(t, v \o Mark("CR")) /\ (whole => t = v)
    BY <1>3 DEF FirstRead
  <2>2. Http!First = [method |-> m, uri |-> u, version |-> v]
    BY <1>3, HttpOctets DEF Http!First, Answers
  <2>3. Http!LastOfFirst = "version"
    BY <1>3 DEF Http!LastOfFirst, Answers
  <2> HIDE DEF v, m, u
  <2>4. DOMAIN Http!First = {"method", "uri", "version"} /\ DOMAIN first = {"method", "uri", "version"}
    BY <2>1, <2>2
  <2>5. /\ first["method"] = m /\ first["uri"] = u /\ first["version"] = t
        /\ Http!First["method"] = m /\ Http!First["uri"] = u /\ Http!First["version"] = v
    BY <2>1, <2>2
  <2>6. ASSUME NEW field \in DOMAIN Http!First
        PROVE  /\ field \in DOMAIN first /\ field \notin {"headers", "body_preview"}
               /\ IF field = Http!LastOfFirst THEN IsPrefix(first[field], Http!First[field] \o Http!Mark("CR"))
                  ELSE first[field] = Http!First[field]
               /\ whole => first[field] = Http!First[field]
    <3>1. field = "version" \/ field = "method" \/ field = "uri"
      BY <2>4
    <3>2. CASE field = "version"
      <4>1. field = Http!LastOfFirst /\ first[field] = t /\ Http!First[field] = v
        BY <3>2, <2>3, <2>5
      <4> QED BY <4>1, <3>2, <2>1, <2>4, <1>1
    <3>3. CASE field = "method" \/ field = "uri"
      <4>1. field # Http!LastOfFirst /\ first[field] = Http!First[field]
        BY <3>3, <2>3, <2>5
      <4>2. field \notin {"headers", "body_preview"}
        BY <3>3
      <4> QED BY <4>1, <4>2, <2>4
    <3> QED BY <3>1, <3>2, <3>3
  <2> QED BY <2>6 DEF FirstShown
<1> QED BY <1>2, <1>3

Holding(result, first, fields, preview) ==
  /\ result.ok = TRUE
  /\ result.value.headers = fields /\ result.value.body_preview = preview
  /\ \A field \in DOMAIN first :
       field \notin {"headers", "body_preview"} => result.value[field] = first[field]
LEMMA MessageFields ==
  ASSUME NEW first, NEW fields, NEW preview, NEW next
  PROVE  Holding(Parsed(MessageOf(first, fields, preview), next), first, fields, preview)
<1> DEFINE w == MessageOf(first, fields, preview)
<1>1. w.headers = fields
  BY DEF MessageOf
<1>2. w.body_preview = preview
  BY DEF MessageOf
<1>3. \A field \in DOMAIN first : field \notin {"headers", "body_preview"} => w[field] = first[field]
  BY DEF MessageOf
<1> HIDE DEF w
<1>4. Parsed(w, next).ok = TRUE /\ Parsed(w, next).value = w
  BY DEF Parsed
<1>5. /\ Parsed(w, next).ok = TRUE
      /\ Parsed(w, next).value.headers = fields /\ Parsed(w, next).value.body_preview = preview
      /\ \A field \in DOMAIN first :
           field \notin {"headers", "body_preview"} => Parsed(w, next).value[field] = first[field]
  BY <1>1, <1>2, <1>3, <1>4
<1> QED BY <1>5 DEF w, Holding

\* What CutShowsNoOther asks of a cut message.
ShowsNoOther(result) ==
  IF ~ result.ok THEN result.panics => Http!ParseHttpData(Http!Message) = Panic
  ELSE /\ \A field \in DOMAIN Http!First :
            IF field = Http!LastOfFirst
            THEN IsPrefix(result.value[field], Http!First[field] \o Http!Mark("CR"))
            ELSE result.value[field] = Http!First[field]
       /\ \A key \in DOMAIN result.value.headers \ Http!Misread :
            \E value \in Http!ValuesOf(key) : IsPrefix(result.value.headers[key], value)
LEMMA CutShown ==
  ASSUME NEW result, NEW first, NEW whole, FirstRead(first, whole), CutResult(result, first),
         Len(Http!Body) > PreviewLength /\ Http!Body[PreviewLength + 1] = Continuation =>
           Http!ParseHttpData(Http!Message) = Panic
  PROVE  ShowsNoOther(result)
<1>1. CASE result = Err
  <2>1. result.ok = FALSE /\ result.panics = FALSE
    BY <1>1 DEF Err
  <2> QED BY <2>1 DEF ShowsNoOther
<1>2. CASE result = Panic /\ Len(Http!Body) > PreviewLength /\ Http!Body[PreviewLength + 1] = Continuation
  <2>1. result.ok = FALSE
    BY <1>2 DEF Panic
  <2> QED BY <2>1, <1>2 DEF ShowsNoOther
<1>3. CASE \E fields, preview, next :
             HeadersShow(fields) /\ result = Parsed(MessageOf(first, fields, preview), next)
  <2>1. PICK fields, preview, next :
          HeadersShow(fields) /\ result = Parsed(MessageOf(first, fields, preview), next)
    BY <1>3
  <2>2. /\ result.ok = TRUE /\ result.value.headers = fields
        /\ \A field \in DOMAIN first :
             field \notin {"headers", "body_preview"} => result.value[field] = first[field]
    <3> DEFINE r == Parsed(MessageOf(first, fields, preview), next)
    <3>1. Holding(r, first, fields, preview)
      BY MessageFields
    <3>2. result = r
      BY <2>1
    <3> HIDE DEF r
    <3> QED BY <3>1, <3>2 DEF Holding
  <2>3. FirstShown(first, whole)
    BY FirstIsShown
  <2>4. \A field \in DOMAIN Http!First :
          IF field = Http!LastOfFirst
          THEN IsPrefix(result.value[field], Http!First[field] \o Http!Mark("CR"))
          ELSE result.value[field] = Http!First[field]
    <3>1. TAKE field \in DOMAIN Http!First
    <3>2. /\ field \in DOMAIN first /\ field \notin {"headers", "body_preview"}
          /\ IF field = Http!LastOfFirst THEN IsPrefix(first[field], Http!First[field] \o Http!Mark("CR"))
             ELSE first[field] = Http!First[field]
      BY <2>3 DEF FirstShown
    <3>3. result.value[field] = first[field]
      BY <2>2, <3>2
    <3> QED BY <3>2, <3>3
  <2>5. \A key \in DOMAIN result.value.headers \ Http!Misread :
          \E value \in Http!ValuesOf(key) : IsPrefix(result.value.headers[key], value)
    BY <2>1, <2>2 DEF HeadersShow
  <2> QED BY <2>2, <2>4, <2>5 DEF ShowsNoOther
<1> QED BY <1>1, <1>2, <1>3 DEF CutResult

MethodKnown == Answers \/ start.method # "other"
LEMMA OtherMethod ==
  ASSUME Http!TypeOK
  PROVE  "method" \in DOMAIN start /\ start.method = "other" <=> ~ MethodKnown
<1>1. CASE Answers
  <2>1. start \in [status : 100 .. 599]
    BY <1>1, StartTyped
  <2>2. "method" \notin DOMAIN start
    BY <2>1
  <2> QED BY <2>2, <1>1 DEF MethodKnown
<1>2. CASE ~ Answers
  <2>1. start \in [method : Http!Method \cup {"other"}, uri : STRING]
    BY <1>2, StartTyped
  <2>2. "method" \in DOMAIN start
    BY <2>1
  <2> QED BY <2>2, <1>2 DEF MethodKnown
<1> QED BY <1>1, <1>2

LEMMA UnknownMethod ==
  ASSUME ~ MethodKnown, NEW d, NEW s, NEW n, StartsLike(d, s, n)
  PROVE  Http!ParseHttpData(d) = Err
<1>1. ~ Answers /\ start.method \notin Http!Method
  BY MethodWords DEF MethodKnown
<1> QED BY <1>1, RequestDispatch

LEMMA BeginningLike ==
  ASSUME Http!TypeOK, NEW n \in Nat, n <= Len(Http!Message)
  PROVE  /\ StartsLike(SubSeq(Http!Message, 1, n), Http!StartLine, n) /\ StartIs(Http!StartLine)
         /\ Len(SubSeq(Http!Message, 1, n)) = n
<1> DEFINE w == Http!Message
           d == SubSeq(w, 1, n)
<1>1. w \in Seq(AnyOctet) /\ StartIs(Http!StartLine) /\ \A j \in 1 .. 15 : w[j] = Http!StartLine[j]
  BY MessageBegins DEF StartThenAfter
<1> HIDE DEF w
<1>2. d \in Seq(AnyOctet) /\ Len(d) = n /\ \A j \in 1 .. n : d[j] = w[j]
  BY <1>1, Beginning DEF w
<1> HIDE DEF d
<1>3. StartsLike(d, Http!StartLine, n)
  <2>1. \A j \in 1 .. n : j <= 15 => d[j] = Http!StartLine[j]
    <3>1. TAKE j \in 1 .. n
    <3>2. j <= 15 => j \in 1 .. 15
      OBVIOUS
    <3> QED BY <3>2, <1>1, <1>2
  <2> QED BY <2>1, <1>1, <1>2 DEF StartsLike
<1> QED BY <1>1, <1>2, <1>3 DEF d, w

LEMMA NothingRead ==
  ASSUME NEW d, NEW s, StartsLike(d, s, 0) PROVE Http!ParseHttpData(d) = Err
<1>1. CASE Answers
  BY <1>1, ResponseDispatch
<1>2. CASE ~ Answers
  BY <1>2, RequestDispatch
<1> QED BY <1>1, <1>2

LEMMA BodyRowsFound == ASSUME Http!TypeOK PROVE \E brows, tail : BodyRows(content, brows, tail)
<1>1. content \in Seq(Http!Piece)
  BY DEF Http!TypeOK
<1> QED BY <1>1, BodyInRows

\* The preview's length falls inside a character of the body.
BodySplits == Len(Http!Body) > PreviewLength /\ Http!Body[PreviewLength + 1] = Continuation
LEMMA CutAt ==
  ASSUME Http!TypeOK, NEW n \in 0 .. Len(Http!Message) - 1,
         MethodKnown /\ BodySplits => Http!ParseHttpData(Http!Message) = Panic
  PROVE  ShowsNoOther(Http!ParseHttpData(SubSeq(Http!Message, 1, n)))
<1> DEFINE w == Http!Message
           d == SubSeq(w, 1, n)
           s == Http!StartLine
           result == Http!ParseHttpData(d)
<1>1. Len(w) \in Nat
  BY MessageBegins DEF StartThenAfter
<1>2. n \in Nat /\ n < Len(w) /\ n <= Len(w)
  BY <1>1
<1>3. StartsLike(d, s, n) /\ StartIs(s) /\ Len(d) = n
  BY <1>2, BeginningLike
<1>4. PICK brows, tail : BodyRows(content, brows, tail)
  BY BodyRowsFound
<1> DEFINE rows == HeadRows \o brows
           e == 2 + Len(HeaderRows)
<1>5. RowsAre(rows, brows, e) /\ tail \in Seq(HttpOctet) /\ rows \in Seq(Seq(HttpOctet))
  BY <1>4, RowsKnown DEF RowsAre
<1>6. w = Lined(rows, NewLine, tail)
  BY <1>4, MessageInRows DEF InRows
<1>7. result = Err => ShowsNoOther(result)
  <2> HIDE DEF result
  <2>1. Err.ok = FALSE /\ Err.panics = FALSE
    BY DEF Err
  <2> QED BY <2>1 DEF ShowsNoOther
<1> HIDE DEF w, s, rows, e
<1>8. CASE n = 0 \/ ~ MethodKnown
  <2>1. result = Err
    BY <1>3, <1>8, NothingRead, UnknownMethod
  <2> QED BY <2>1, <1>7 DEF w
<1>9. CASE n # 0 /\ MethodKnown
  <2>1. PICK k, rest : Begun(LinesOf(d), rows, tail, k, rest) /\ (k = 0 /\ rest = << >> => d = << >>)
    BY <1>2, <1>5, <1>6, BegunCut
  <2> DEFINE lines == LinesOf(d)
  <2>2. k # 0 \/ rest # << >>
    <3>1. \A x : x = << >> => Len(x) = 0
      OBVIOUS
    <3>2. d # << >>
      BY <3>1, <1>3, <1>9, Zenon
    <3> QED BY <3>2, <2>1
  <2> HIDE DEF d
  <2>3. Len(lines) >= 1 /\ StartOf(lines[1], s, Len(lines[1]))
    BY <2>1, <2>2, <1>3, <1>5, FirstLineBegun DEF s
  <2> DEFINE p == Len(lines[1])
  <2>4. result = Err \/ ReadFrom(d, p = 15)
    BY <2>3, <1>3, StartRead
  <2>5. CASE ReadFrom(d, p = 15)
    <3>1. PICK first : FirstRead(first, p = 15) /\ result = Http!Finish(first, lines)
      BY <2>5 DEF ReadFrom
    <3>2. CutResult(Http!Finish(first, lines), first)
      BY <2>1, <1>4, FinishCut DEF rows
    <3> HIDE DEF result, lines, p
    <3>3. ShowsNoOther(result)
      BY <3>1, <3>2, <1>9, CutShown DEF BodySplits
    <3> QED BY <3>3 DEF result, d, w
  <2>6. CASE result = Err
    BY <2>6, <1>7 DEF d, w
  <2> QED BY <2>4, <2>5, <2>6
<1> QED BY <1>8, <1>9, <1>1

\* What the preview holds of a body.
PreviewIs(preview, text_) ==
  /\ IsPrefix(preview.text, text_)
  /\ Len(preview.text) = Min({Len(text_), PreviewLength})
  /\ preview.truncated = (Len(text_) > PreviewLength)
LEMMA Previewed ==
  ASSUME NEW S, NEW b \in Seq(S), PreviewLength \in Nat
  PROVE  PreviewIs(Http!TruncateBody(b), b)
<1>1. PICK n \in Nat, m \in Nat : n = Len(b) /\ m = PreviewLength
  OBVIOUS
<1>2. CASE n <= m
  <2>1. Http!TruncateBody(b) = [text |-> b, truncated |-> FALSE]
    BY <1>1, <1>2 DEF Http!TruncateBody
  <2>2. Min({n, m}) = n
    <3>1. {n, m} \in SUBSET Nat /\ n \in {n, m} /\ \A y \in {n, m} : n <= y
      BY <1>2
    <3> QED BY <3>1, MinIs
  <2>3. IsPrefix(b, b)
    <3>1. Len(b) <= Len(b) /\ \A j \in 1 .. Len(b) : b[j] = b[j]
      OBVIOUS
    <3> QED BY <3>1, PrefixedBy
  <2>4. ~ (Len(b) > PreviewLength)
    BY <1>1, <1>2
  <2>5. Http!TruncateBody(b).text = b /\ Http!TruncateBody(b).truncated = FALSE
    BY <2>1
  <2> DEFINE tr == Http!TruncateBody(b)
  <2>6. IsPrefix(tr.text, b)
    BY <2>3, <2>5
  <2>7. Len(tr.text) = Min({Len(b), PreviewLength})
    BY <2>2, <2>5, <1>1
  <2>8. tr.truncated = (Len(b) > PreviewLength)
    <3>1. tr.truncated = FALSE
      BY <2>5
    <3> HIDE DEF tr
    <3>2. \A p \in Nat, q \in Nat : p <= q => (p > q) = FALSE
      OBVIOUS
    <3>3. (n > m) = FALSE
      BY <3>2, <1>2
    <3>4. tr.truncated = (n > m)
      BY <3>1, <3>3
    <3> QED BY <3>4, <1>1
  <2> HIDE DEF tr
  <2>9. PreviewIs(tr, b)
    BY <2>6, <2>7, <2>8 DEF PreviewIs
  <2> QED BY <2>9 DEF tr
<1>3. CASE n > m
  <2> DEFINE t == SubSeq(b, 1, m)
  <2>1. Http!TruncateBody(b) = [text |-> t, truncated |-> TRUE]
    BY <1>1, <1>3 DEF Http!TruncateBody
  <2>2. Min({n, m}) = m
    <3>1. {n, m} \in SUBSET Nat /\ m \in {n, m} /\ \A y \in {n, m} : m <= y
      BY <1>3
    <3> QED BY <3>1, MinIs
  <2>3. t \in Seq(S) /\ Len(t) = m /\ \A j \in 1 .. m : t[j] = b[j]
    BY <1>1, <1>3, Beginning
  <2> HIDE DEF t
  <2>4. IsPrefix(t, b)
    <3>1. Len(t) <= Len(b) /\ \A j \in 1 .. Len(t) : t[j] = b[j]
      BY <2>3, <1>1, <1>3
    <3> QED BY <3>1, <2>3, PrefixedBy
  <2>5. Len(b) > PreviewLength
    BY <1>1, <1>3
  <2>6. Http!TruncateBody(b).text = t /\ Http!TruncateBody(b).truncated = TRUE
    BY <2>1
  <2> QED BY <2>2, <2>3, <2>4, <2>5, <2>6, <1>1 DEF PreviewIs
<1>4. n <= m \/ n > m
  OBVIOUS
<1> QED BY <1>2, <1>3, <1>4

\* The parser reads a whole message through to the end of its headers.
LEMMA WholeIs ==
  ASSUME Http!TypeOK, MethodKnown
  PROVE  \E first : /\ FirstRead(first, TRUE)
                    /\ WholeResult(Http!ParseHttpData(Http!Message), first)
<1> DEFINE w == Http!Message
           s == Http!StartLine
           n == Len(w)
           d == SubSeq(w, 1, n)
<1>1. w \in Seq(AnyOctet) /\ n \in Nat /\ n >= 15
  <2>1. PICK a \in Nat : n = 15 + a /\ w \in Seq(AnyOctet)
    <3>1. Len(After) \in Nat /\ n = 15 + Len(After) /\ w \in Seq(AnyOctet)
      BY MessageBegins DEF StartThenAfter
    <3> QED BY <3>1
  <2> HIDE DEF n, w
  <2> QED BY <2>1
<1>2. d = w
  <2> HIDE DEF w
  <2> QED BY <1>1
<1>3. StartsLike(w, s, n) /\ StartIs(s)
  <2>1. StartsLike(d, s, n) /\ StartIs(s)
    BY <1>1, BeginningLike
  <2> QED BY <1>2, <2>1
<1>4. PICK brows, tail : BodyRows(content, brows, tail)
  BY BodyRowsFound
<1> DEFINE rows == HeadRows \o brows
           e == 2 + Len(HeaderRows)
           lines == LinesOf(w)
<1>5. RowsAre(rows, brows, e) /\ tail \in Seq(HttpOctet) /\ rows \in Seq(Seq(HttpOctet)) /\ Len(rows) # 0
  <2>1. RowsAre(rows, brows, e) /\ tail \in Seq(HttpOctet)
    BY <1>4, RowsKnown
  <2> HIDE DEF rows, e
  <2> QED BY <2>1 DEF RowsAre
<1>6. w = Lined(rows, NewLine, tail)
  BY <1>4, MessageInRows DEF InRows
<1>7. IsText(w)
  BY MessageIsText
<1> HIDE DEF w, s, n, d, rows, e
<1>8. Begun(lines, rows, tail, Len(rows), tail)
  BY <1>5, <1>6, BegunWhole
<1>9. Len(lines) >= 1 /\ Len(lines[1]) = 15 /\ StartOf(lines[1], s, Len(lines[1]))
  BY <1>3, <1>5, <1>8, FirstLineBegun DEF s
<1>10. ReadFrom(w, TRUE)
  <2> DEFINE p == Len(lines[1])
  <2>1. p >= 10 /\ n >= 5 /\ (p = 15) = TRUE
    BY <1>1, <1>9
  <2>2. ~ Answers => start.method # "other"
    BY DEF MethodKnown
  <2>3. StartOf(LinesOf(w)[1], s, p) /\ Len(LinesOf(w)) >= 1
    BY <1>9
  <2> HIDE DEF p, lines
  <2>4. ReadFrom(w, p = 15)
    BY <2>1, <2>2, <2>3, <1>3, <1>7, StartRead
  <2> QED BY <2>1, <2>4
<1>11. PICK first : FirstRead(first, TRUE) /\ Http!ParseHttpData(w) = Http!Finish(first, lines)
  BY <1>10, Zenon DEF ReadFrom
<1>12. WholeResult(Http!Finish(first, lines), first)
  <2> HIDE DEF lines
  <2> QED BY <1>4, <1>8, FinishWhole DEF rows
<1> QED BY <1>11, <1>12, Zenon DEF w

\* Http!PreviewLength is the constant of the conversation, and so are its operators.
LEMMA PanicIsSplit ==
  ASSUME NEW b, Len(b) \in Nat, PreviewLength \in Nat
  PROVE  Overlong(b) <=> Len(b) > PreviewLength /\ b[PreviewLength + 1] = Continuation
BY DEF Overlong, IsBoundary

LEMMA WholeRead == ASSUME Http!TypeOK PROVE Http!ReadsWhatIsWritten
<1> DEFINE result == Http!ParseHttpData(Http!Message)
           b == Http!Body
<1>1. CASE ~ MethodKnown
  <2>1. Len(Http!Message) \in Nat /\ Http!Message \in Seq(AnyOctet)
    BY MessageBegins DEF StartThenAfter
  <2>2. StartsLike(SubSeq(Http!Message, 1, Len(Http!Message)), Http!StartLine, Len(Http!Message))
    BY <2>1, BeginningLike
  <2>3. SubSeq(Http!Message, 1, Len(Http!Message)) = Http!Message
    <3> DEFINE w == Http!Message
    <3>1. w \in Seq(AnyOctet)
      BY <2>1
    <3> HIDE DEF w
    <3>2. SubSeq(w, 1, Len(w)) = w
      BY <3>1
    <3> QED BY <3>2 DEF w
  <2>4. result = Err
    BY <2>2, <2>3, <1>1, UnknownMethod
  <2>5. "method" \in DOMAIN start /\ start.method = "other"
    BY <1>1, OtherMethod
  <2> QED BY <2>4, <2>5, HttpOctets DEF Http!ReadsWhatIsWritten
<1>2. CASE MethodKnown
  <2>1. ~ ("method" \in DOMAIN start /\ start.method = "other")
    BY <1>2, OtherMethod
  <2>2. PICK first : FirstRead(first, TRUE) /\ WholeResult(result, first)
    BY <1>2, WholeIs, Zenon
  <2>3. PreviewLength \in Nat
    BY HttpAssumption
  <2>4. b \in Seq(AnyOctet) /\ Len(b) \in Nat /\ (content = << >> => b = << >>)
    <3>1. PICK brows, tail : BodyIsJoined(brows, tail)
      BY BodyRowsFound, BodyJoined
    <3>2. b \in Seq(AnyOctet) /\ (content = << >> => b = << >>)
      BY <3>1 DEF BodyIsJoined
    <3> HIDE DEF b
    <3> QED BY <3>2
  <2>5. Overlong(b) <=> Len(b) > PreviewLength /\ b[PreviewLength + 1] = Continuation
    <3> HIDE DEF b
    <3> QED BY <2>3, <2>4, PanicIsSplit
  <2> HIDE DEF result, b
  <2>6. content = << >> => ~ Overlong(b)
    <3>1. \A x : x = << >> => Len(x) = 0
      OBVIOUS
    <3>2. content = << >> => Len(b) = 0
      BY <3>1, <2>4
    <3> QED BY <3>2, <2>3, <2>5
  <2>7. PICK fields, next :
          /\ HeadersWhole(fields)
          /\ result = IF content = << >> THEN Parsed(MessageOf(first, fields, Http!None), next)
                      ELSE IF Overlong(b) THEN Panic
                      ELSE Parsed(MessageOf(first, fields, Http!TruncateBody(b)), next)
    BY <2>2 DEF WholeResult, b
  <2>8. CASE Overlong(b)
    <3>1. result = Panic
      BY <2>6, <2>7, <2>8
    <3>2. Len(Http!Body) > PreviewLength /\ Http!Body[PreviewLength + 1] = Http!Continuation
      BY <2>5, <2>8, HttpOctets DEF b
    <3>3. Http!ParseHttpData(Http!Message) = Http!Panic
      BY <3>1, HttpOctets DEF result
    <3> QED BY <3>2, <3>3, <2>1 DEF Http!ReadsWhatIsWritten
  <2>9. CASE ~ Overlong(b)
    <3> DEFINE preview == IF content = << >> THEN Http!None ELSE Http!TruncateBody(b)
    <3>1. result = Parsed(MessageOf(first, fields, preview), next)
      BY <2>7, <2>9
    <3> HIDE DEF preview
    <3>2. Holding(result, first, fields, preview)
      BY <3>1, MessageFields
    <3>3. FirstShown(first, TRUE)
      BY <2>2, FirstIsShown, Zenon
    <3>4. \A field \in DOMAIN Http!First : result.value[field] = Http!First[field]
      BY <3>2, <3>3 DEF Holding, FirstShown
    <3>5. result.ok = TRUE /\ result.value.headers = fields /\ result.value.body_preview = preview
      BY <3>2 DEF Holding
    <3>6. IF content = << >> THEN preview = Http!None ELSE PreviewIs(preview, b)
      BY <2>3, <2>4, Previewed DEF preview
    <3>7. ~ (Len(Http!Body) > PreviewLength /\ Http!Body[PreviewLength + 1] = Http!Continuation)
      BY <2>5, <2>9, HttpOctets DEF b
    <3>8. /\ DOMAIN fields = {Http!KeyOf(headers[i]) : i \in DOMAIN headers} \cup Http!Misread
          /\ \A i \in DOMAIN headers :
               (\A j \in i + 1 .. Len(headers) : Http!KeyOf(headers[j]) # Http!KeyOf(headers[i])) =>
                 fields[Http!KeyOf(headers[i])] = Http!Value(headers[i])
      BY <2>7 DEF HeadersWhole
    <3>9. IF content = << >> THEN result.value.body_preview = Http!None
          ELSE /\ Http!IsPrefix(result.value.body_preview.text, Http!Body)
               /\ Len(result.value.body_preview.text) = Http!Min({Len(Http!Body), PreviewLength})
               /\ result.value.body_preview.truncated = (Len(Http!Body) > PreviewLength)
      BY <3>5, <3>6, HttpStrings DEF PreviewIs, b
    <3> QED BY <2>1, <3>4, <3>5, <3>7, <3>8, <3>9 DEF Http!ReadsWhatIsWritten, result
  <2> QED BY <2>8, <2>9
<1> QED BY <1>1, <1>2

\* In every first segment that is not the whole of it.
LEMMA CutsShown == ASSUME Http!TypeOK, Http!ReadsWhatIsWritten PROVE Http!CutShowsNoOther
<1>1. MethodKnown /\ BodySplits => Http!ParseHttpData(Http!Message) = Panic
  <2>1. ASSUME MethodKnown, BodySplits PROVE Http!ParseHttpData(Http!Message) = Panic
    <3>1. ~ ("method" \in DOMAIN start /\ start.method = "other")
      BY <2>1, OtherMethod
    <3>2. Len(Http!Body) > PreviewLength /\ Http!Body[PreviewLength + 1] = Http!Continuation
      BY <2>1, HttpOctets DEF BodySplits
    <3>3. Http!ParseHttpData(Http!Message) = Http!Panic
      BY <3>1, <3>2 DEF Http!ReadsWhatIsWritten
    <3> QED BY <3>3, HttpOctets
  <2> QED BY <2>1
<1>2. ASSUME NEW n \in 0 .. Len(Http!Message) - 1
      PROVE  ShowsNoOther(Http!ParseHttpData(SubSeq(Http!Message, 1, n)))
  BY <1>1, <1>2, CutAt
<1> QED BY <1>2, HttpOctets, HttpStrings DEF Http!CutShowsNoOther, ShowsNoOther

(***************************************************************************)
(* What parse_http_data shows of an HTTP message.  Of a whole message: its *)
(* first line, every header under its key with the value of the last       *)
(* header of that key, and no longer beginning of its body than the        *)
(* preview's length; or a panic, when that length falls inside a           *)
(* character.  Of a first segment that is not the whole message: nothing   *)
(* the message does not say, and a panic only if the whole message panics. *)
(* Of a segment after it: no message, unless it begins inside the body     *)
(* with "HTTP/" or with a known method and the rest of the body is taken   *)
(* for a message of its own. For every start line, every header, every     *)
(* cut, every length of the preview, and every body of the characters,     *)
(* breaks, spaces, method names, versions and numbers of Piece.            *)
(***************************************************************************)
THEOREM HttpRead == Spec => []HttpReadsWhatIsWritten
<1>1. Inv => HttpReadsWhatIsWritten
  BY WholeRead, CutsShown, RestNoMessage DEF Inv, HttpReadsWhatIsWritten
<1> QED BY <1>1, Started, WentOn, PTL DEF Spec
================================================================================
