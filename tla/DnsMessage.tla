------------------------------- MODULE DnsMessage -------------------------------
(***************************************************************************)
(* parse_dns_packet of src/parser/application/dns.rs, and the name servers *)
(* whose messages it parses (RFC 1035): question by question and record by *)
(* record they write a message in which a name may end in a pointer to an  *)
(* earlier copy of its last labels.                                        *)
(* The identifier, the flags, classes, TTLs and the contents of addresses  *)
(* are left out.                                                           *)
(***************************************************************************)
EXTENDS Octets, SequencesExt

CONSTANTS
  Labels,      \* labels of domain names
  LabelOctets, \* LabelOctets[l]: number of octets of label l
  Names,       \* the names asked for and served: sequences of labels
  MaxOctets    \* bound: octets of a message; over UDP it is 512 or more

Type == {"A", "AAAA", "CNAME", "PTR", "MX", "SOA", "TXT", "other"}
Sections == <<"answers", "authorities", "additionals">>

VARIABLES
  questions, records,   \* what the message says; records[s]: of section s
  body,                 \* its octets behind the header
  suffixes              \* <<offset, name>> for each name that can be read in it

vars == <<questions, records, body, suffixes>>

--------------------------------------------------------------------------------
Label(l)       == Field([label |-> l], 1 + LabelOctets[l])
Root           == Field([root |-> TRUE], 1)
Pointer(o)     == Field([pointer |-> o], 2)
QuestionTail   == Field([question |-> TRUE], 4)
String(text, size) == Field([text |-> text, size |-> size], 1 + size)
RecordHead(type, length) == Field([type |-> type, length |-> length], 10)

\* The message as it goes over UDP; over TCP its length comes first.
Message ==
  Field([questions |-> Len(questions),
         records   |-> [s \in DOMAIN records |-> Len(records[s])]], 12) \o body
WithLength(data) == Field([length |-> Len(data)], 2) \o data

--------------------------------------------------------------------------------
(***************************************************************************)
(* The writer.                                                             *)
(***************************************************************************)
LabelsOf(name) == FlattenSeq([i \in DOMAIN name |-> Label(name[i])])

\* The ways to write name at offset: some labels, then the root or a pointer to
\* the rest of the name, each with what it adds to the known suffixes.
Writings(name, offset, known) ==
  LET Writing(k, tail) ==
        [octets  |-> LabelsOf(SubSeq(name, 1, k)) \o tail,
         learned |-> {<<offset + Len(LabelsOf(SubSeq(name, 1, i - 1))),
                        SubSeq(name, i, Len(name))>> : i \in 1 .. k}]
  IN {Writing(Len(name), Root)}
     \cup {Writing(Len(name) - Len(old[2]), Pointer(old[1])) :
             old \in {old \in known : IsSuffix(old[2], name)}}

\* The ways to write the data of a record of this type about name.
DataWritings(type, name, offset, known) ==
  LET Fixed(octets) == {[octets |-> octets, learned |-> {}]}
      Behind(head) ==
        {[octets |-> head \o w.octets, learned |-> w.learned] :
           w \in Writings(name, offset + Len(head), known)}
  IN CASE type = "A"    -> Fixed(Field([address |-> name], 4))
       [] type = "AAAA" -> Fixed(Field([address |-> name], 16))
       [] type = "TXT"  -> Fixed(String(name, 3) \o String(name, 1))
       [] type = "MX"   -> Behind(Field([preference |-> 1], 2))
       [] type = "SOA"  ->
            UNION {{[octets |-> w.octets \o v.octets \o Field([numbers |-> 5], 20),
                     learned |-> w.learned \cup v.learned] :
                      v \in Writings(name, offset + Len(w.octets), known)} :
                   w \in Writings(name, offset, known)}
       [] type \in {"CNAME", "PTR"} -> Behind(<< >>)
       [] type = "other" -> Fixed(Field([opaque |-> name], 3))

\* What the data of such a record says.
Says(type, name) == IF type \in {"TXT", "SOA"} THEN <<name, name>> ELSE <<name>>

Init ==
  /\ questions = << >> /\ records = [s \in DOMAIN Sections |-> << >>]
  /\ body = << >> /\ suffixes = {}

Offset_InBody == Len(body)   \* counts from the end of the header
Offset == 12 + Len(body)

Ask(name) ==
  /\ \A s \in DOMAIN records : records[s] = << >>
  /\ \E w \in Writings(name, Offset, suffixes) :
       /\ body' = body \o w.octets \o QuestionTail
       /\ 12 + Len(body') <= MaxOctets
       /\ suffixes' = suffixes \cup w.learned
  /\ questions' = Append(questions, name)
  /\ UNCHANGED records

Serve(s, owner, type, name) ==
  /\ Offset + 10 < MaxOctets
  /\ \A later \in DOMAIN records : later > s => records[later] = << >>
  /\ \E w \in Writings(owner, Offset, suffixes) :
       LET known == suffixes \cup w.learned IN
       \E d \in DataWritings(type, name, Offset + Len(w.octets) + 10, known) :
         /\ body' = body \o w.octets \o RecordHead(type, Len(d.octets)) \o d.octets
         /\ 12 + Len(body') <= MaxOctets
         /\ suffixes' = known \cup d.learned
  /\ records' = [records EXCEPT ![s] =
                   Append(@, [name |-> owner, type |-> type, data |-> Says(type, name)])]
  /\ UNCHANGED questions

Next ==
  \/ \E name \in Names : Ask(name)
  \/ \E s \in DOMAIN Sections, owner, name \in Names, type \in Type :
       Serve(s, owner, type, name)

Spec == Init /\ [][Next]_vars

--------------------------------------------------------------------------------
(***************************************************************************)
(* The parser.  Where it expects a field it finds one.  (Mutants, named    *)
(* <definition>_<slip>, stand before the definition they alter.)           *)
(***************************************************************************)
ParseName_Follows(data, start) ==   \* goes on behind the copy
  LET name[o \in Begins(data, {"label", "pointer", "root"}, Len(data))] ==
        IF o >= Len(data) THEN Err
        ELSE IF Has(data, o, "pointer")
        THEN IF o + 1 >= Len(data) THEN Panic ELSE name[data[o + 1].pointer]
        ELSE IF Has(data, o, "root") THEN Parsed(<< >>, o + 1)
        ELSE LET label == data[o + 1].label
                 end == o + 1 + LabelOctets[label]
             IN IF end > Len(data) THEN Err
                ELSE Then(name[end], LAMBDA rest, next : Parsed(<<label>> \o rest, next))
  IN name[start]

\* A pointer counts from the start of the message, and the octet behind its
\* first one is read without a test.
ParseName(data, start) ==
  LET name[o \in Begins(data, {"label", "pointer", "root"}, Len(data))] ==
        IF o >= Len(data) THEN Err
        ELSE IF Has(data, o, "pointer")
        THEN IF o + 1 >= Len(data) THEN Panic
             ELSE Then(name[data[o + 1].pointer],
                       LAMBDA jumped, next : Parsed(jumped, o + 2))
        ELSE IF Has(data, o, "root") THEN Parsed(<< >>, o + 1)
        ELSE LET label == data[o + 1].label
                 end == o + 1 + LabelOctets[label]
             IN IF end > Len(data) THEN Err
                ELSE Then(name[end], LAMBDA rest, next : Parsed(<<label>> \o rest, next))
  IN name[start]

ParseQuestion_Unchecked(data, start) ==   \* type and class need not be there
  Then(ParseName(data, start), LAMBDA name, o : Parsed(name, o + 4))

ParseQuestion(data, start) ==
  Then(ParseName(data, start), LAMBDA name, o :
    IF o + 4 > Len(data) THEN Err ELSE Parsed(name, o + 4))

\* The character strings of a TXT record, up to offset end.
ParseText(data, start, end) ==
  LET text[o \in {o \in Begins(data, {"text"}, end) : o >= start}] ==
        IF o >= end THEN Parsed(<< >>, o)
        ELSE IF o + 1 + data[o + 1].size > end THEN Err
        ELSE Then(text[o + 1 + data[o + 1].size], LAMBDA rest, next :
               Parsed(<<data[o + 1].text>> \o rest, next))
  IN text[start]

ParseTwoNames(data, start) ==
  Then(ParseName(data, start), LAMBDA mname, o :
    Then(ParseName(data, o), LAMBDA rname, next :
      Parsed(<<mname, rname>>, next)))

\* parse_rdata.  Names may lie, and end, outside the record's own octets.
ParseData(data, o, type, length) ==
  LET Name(offset) ==
        Then(ParseName(data, offset), LAMBDA name, next : Parsed(<<name>>, next))
  IN CASE type = "A" -> IF length # 4 THEN Err ELSE Parsed(<<data[o + 1].address>>, o + 4)
       [] type = "AAAA" ->
            IF length # 16 THEN Err ELSE Parsed(<<data[o + 1].address>>, o + 16)
       [] type \in {"CNAME", "PTR"} -> Name(o)
       [] type = "MX" -> IF length < 2 THEN Err ELSE Name(o + 2)
       [] type = "SOA" ->
            Then(ParseTwoNames(data, o), LAMBDA names, next :
              IF next + 20 > Len(data) THEN Err ELSE Parsed(names, next + 20))
       [] type = "TXT" -> ParseText(data, o, o + length)
       [] type = "other" -> Parsed(<<data[o + 1].opaque>>, o + length)

ParseRecord(data, start) ==
  Then(ParseName(data, start), LAMBDA name, o :
    IF o + 10 > Len(data) THEN Err
    ELSE LET type == data[o + 1].type
             length == data[o + 1].length
         IN IF o + 10 + length > Len(data) THEN Err
            ELSE Then(ParseData(data, o + 10, type, length), LAMBDA value, next :
                   Parsed([name |-> name, type |-> type, data |-> value],
                          o + 10 + length)))

\* count things from offset start on.
ParseAll(Parse(_, _), data, count, start) ==
  LET first[n \in 0 .. count] ==
        IF n = 0 THEN Parsed(<< >>, start)
        ELSE Then(first[n - 1], LAMBDA before, o :
               Then(Parse(data, o), LAMBDA value, next :
                 Parsed(Append(before, value), next)))
  IN first[count]

ParseMessage(data) ==
  IF Len(data) < 12 THEN Err
  ELSE LET counts == data[1]
           Section(s, start) == ParseAll(ParseRecord, data, counts.records[s], start)
       IN Then(ParseAll(ParseQuestion, data, counts.questions, 12), LAMBDA asked, o1 :
            Then(Section(1, o1), LAMBDA answers, o2 :
              Then(Section(2, o2), LAMBDA authorities, o3 :
                Then(Section(3, o3), LAMBDA additionals, o4 :
                  Parsed([questions |-> asked,
                          records   |-> <<answers, authorities, additionals>>], o4)))))

\* Over TCP, what is behind the announced length is not looked at.
ParseDnsPacket(data, is_tcp) ==
  IF ~ is_tcp THEN ParseMessage(data)
  ELSE IF Len(data) < 2 THEN Err
  ELSE IF Len(data) < data[1].length + 2 THEN Err
  ELSE ParseMessage(SubSeq(data, 3, data[1].length + 2))

--------------------------------------------------------------------------------
TypeOK ==
  /\ questions \in Seq(Names) /\ Len(Message) <= MaxOctets
  /\ DOMAIN records = DOMAIN Sections
  /\ \A old \in suffixes : old[1] \in 12 .. Offset - 1 /\ old[2] \in Seq(Labels)

Written == [questions |-> questions, records |-> records]
Padding(n) == [i \in 1 .. n |-> Inside]

\* Whatever way a message uses to share its names, over UDP or TCP and with
\* padding behind it, what is parsed is what was written, and all of it is read.
ReadsWhatIsWritten ==
  \A is_tcp \in BOOLEAN, padding \in 0 .. 1 :
    LET data == IF is_tcp THEN WithLength(Message) ELSE Message IN
    ParseDnsPacket(data \o Padding(padding), is_tcp) = Parsed(Written, Len(Message))

\* A message that was cut short (by a segment boundary, or by IP fragmentation
\* when it goes over UDP) is never taken for another, shorter one.  It is an
\* error, except that one cut between the two octets of a pointer panics; over
\* TCP, and for pointers in record data, a length stands in the way of that.
InRecordData(o) ==
  \E head \in 12 .. Len(Message) - 1 :
    /\ Has(Message, head, "type")
    /\ o \in head + 10 .. head + 9 + Message[head + 1].length

CutIsNoMessage ==
  \A n \in 0 .. Len(Message) - 1 :
    LET cut == SubSeq(Message, 1, n)
        in_pointer == n > 12 /\ Has(cut, n - 1, "pointer") /\ ~ InRecordData(n - 1)
    IN /\ ParseDnsPacket(cut, FALSE) = IF in_pointer THEN Panic ELSE Err
       /\ ParseDnsPacket(SubSeq(WithLength(Message), 1, n + 2), TRUE) = Err
================================================================================
