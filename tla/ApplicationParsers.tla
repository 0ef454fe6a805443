--------------------------- MODULE ApplicationParsers ---------------------------
(***************************************************************************)
(* The parsers that parse_application_data of src/parser/application       *)
(* chooses from, each with the programs that write what it reads.  A       *)
(* conversation has the ports of one protocol.                             *)
(***************************************************************************)
EXTENDS Octets, SequencesExt

CONSTANTS
  Labels, LabelOctets, Names, MaxOctets,               \* DnsMessage
  Hosts, HostOctets, SessionIds, MaxExtensions,        \* TlsHello
  Starts, Lines, MaxLines, MaxPieces, PreviewLength,   \* HttpMessage
  Verbs, Codes, MaxText                                \* FtpLine

VARIABLES
  protocol,   \* what guess_protocol_by_port makes of the ports
  questions, records, body, suffixes,   \* DnsMessage
  session_id, extensions,               \* TlsHello
  start, headers, content,              \* HttpMessage
  line, text                            \* FtpLine

dnsVars == <<questions, records, body, suffixes>>
tlsVars == <<session_id, extensions>>
httpVars == <<start, headers, content>>
ftpVars == <<line, text>>
vars == <<protocol, dnsVars, tlsVars, httpVars, ftpVars>>

\* What the four modules take their constants to be.
ASSUME DnsAssumption ==
  /\ LabelOctets \in [Labels -> 1 .. 63] /\ Names \subseteq Seq(Labels)
  /\ MaxOctets \in Nat /\ MaxOctets >= 12
ASSUME TlsAssumption ==
  /\ HostOctets \in [Hosts -> Nat \ {0}] /\ SessionIds \subseteq Nat
  /\ MaxExtensions \in Nat
ASSUME FtpAssumption == MaxText \in Nat

Dns == INSTANCE DnsMessage
Tls == INSTANCE TlsHello
Http == INSTANCE HttpMessage WITH body <- content
Ftp == INSTANCE FtpLine

ASSUME HttpAssumption ==
  /\ Starts \subseteq Http!Start /\ Lines \subseteq Http!Line
  /\ {MaxLines, MaxPieces, PreviewLength} \subseteq Nat

\* The programs of the other protocols write nothing.
NoDns  == questions = << >> /\ records = << >> /\ body = << >> /\ suffixes = {}
NoTls  == session_id = 0 /\ extensions = << >>
NoHttp == start = << >> /\ headers = << >> /\ content = << >>
NoFtp  == line = << >> /\ text = << >>

Init ==
  \/ protocol = "DNS"  /\ Dns!Init  /\ NoTls /\ NoHttp /\ NoFtp
  \/ protocol = "TLS"  /\ Tls!Init  /\ NoDns /\ NoHttp /\ NoFtp
  \/ protocol = "HTTP" /\ Http!Init /\ NoDns /\ NoTls /\ NoFtp
  \/ protocol = "FTP"  /\ Ftp!Init  /\ NoDns /\ NoTls /\ NoHttp

WriteDns  == protocol = "DNS"  /\ Dns!Next  /\ UNCHANGED <<protocol, tlsVars, httpVars, ftpVars>>
WriteTls  == protocol = "TLS"  /\ Tls!Next  /\ UNCHANGED <<protocol, dnsVars, httpVars, ftpVars>>
WriteHttp == protocol = "HTTP" /\ Http!Next /\ UNCHANGED <<protocol, dnsVars, tlsVars, ftpVars>>
WriteFtp  == protocol = "FTP"  /\ Ftp!Next  /\ UNCHANGED <<protocol, dnsVars, tlsVars, httpVars>>

Next == WriteDns \/ WriteTls \/ WriteHttp \/ WriteFtp

Spec == Init /\ [][Next]_vars

--------------------------------------------------------------------------------
\* Each program has written a message of its protocol.
TypeOK ==
  /\ protocol \in {"DNS", "TLS", "HTTP", "FTP"}
  /\ protocol = "DNS"  => Dns!TypeOK
  /\ protocol = "TLS"  => Tls!TypeOK
  /\ protocol = "HTTP" => Http!TypeOK
  /\ protocol = "FTP"  => Ftp!TypeOK

\* However a DNS message compresses its names, over UDP or TCP, it is read as
\* written, and one that was cut is never taken for a shorter one.
DnsReadsWhatIsWritten ==
  protocol = "DNS" => Dns!ReadsWhatIsWritten /\ Dns!CutIsNoMessage

\* The server name of a ClientHello is found wherever it stands in it, and none
\* is shown of a ClientHello in two segments, or two records.
ServerNameIsFound ==
  protocol = "TLS" => Tls!ServerNameIsFound /\ Tls!CutHelloIsNoHello

\* An HTTP message in one segment is read as written, up to the preview; of a
\* longer one the first segment shows nothing it does not say, and the segments
\* after it are errors unless the body itself, where one begins, looks like a
\* message.
HttpReadsWhatIsWritten ==
  protocol = "HTTP" =>
    Http!ReadsWhatIsWritten /\ Http!CutShowsNoOther /\ Http!RestIsMessageOnlyInBody

\* The first segment of an FTP line shows its code or verb, and of its text
\* nothing but the beginning.
FtpLineIsRead == protocol = "FTP" => Ftp!FirstSegmentIsRead

\* A later segment of an FTP line shows a code, or a command, that nobody sent, and
\* panics just where a character lies across its third octet.
FtpRestIsMisread == protocol = "FTP" => Ftp!RestIsMisread
================================================================================
