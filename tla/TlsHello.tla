-------------------------------- MODULE TlsHello --------------------------------
(***************************************************************************)
(* parse_tls_client_hello of src/parser/application/tls.rs, and the client *)
(* (RFC 8446, RFC 6066) whose ClientHello it looks into for the server     *)
(* name.  Contents other than lengths and the name are left out.           *)
(***************************************************************************)
EXTENDS Octets, SequencesExt

CONSTANTS
  Hosts,         \* server names
  HostOctets,    \* HostOctets[h]: number of octets of name h
  SessionIds,    \* lengths of the session ID
  MaxExtensions  \* bound: number of extensions

VARIABLES
  session_id,   \* its length
  extensions    \* what the ClientHello extends: server names and others

vars == <<session_id, extensions>>

--------------------------------------------------------------------------------
(***************************************************************************)
(* The client.                                                             *)
(***************************************************************************)
Other == [host |-> "other"]
ServerName(h) == [host |-> h]

Init == session_id \in SessionIds /\ extensions = << >>

Extend(extension) ==
  /\ Len(extensions) < MaxExtensions
  /\ extension # Other => \A i \in DOMAIN extensions : extensions[i] = Other
  /\ extensions' = Append(extensions, extension)
  /\ UNCHANGED session_id

Next == Extend(Other) \/ \E h \in Hosts : Extend(ServerName(h))

Spec == Init /\ [][Next]_vars

ExtensionOctets(extension) ==
  IF extension = Other THEN Field([extension |-> "other", length |-> 1], 4) \o Opaque(1)
  ELSE LET size == HostOctets[extension.host] IN
       Field([extension |-> "server_name", length |-> 5 + size], 4)
         \o Field([length |-> 3 + size], 2) \o Field([name_type |-> 0], 1)
         \o Field([length |-> size], 2) \o Field([host_name |-> extension.host], size)

Extensions == FlattenSeq([i \in DOMAIN extensions |-> ExtensionOctets(extensions[i])])

\* Type and length, version and random, session ID, one cipher suite, one
\* compression method.
ClientHello ==
  Field([handshake |-> "client_hello"], 4) \o Opaque(34)
    \o Field([length |-> session_id], 1) \o Opaque(session_id)
    \o Field([length |-> 2], 2) \o Opaque(2)
    \o Field([length |-> 1], 1) \o Opaque(1)
    \o IF extensions = << >> THEN << >>
       ELSE Field([length |-> Len(Extensions)], 2) \o Extensions

Record(type, octets) == Field([record |-> type, length |-> Len(octets)], 5) \o octets

--------------------------------------------------------------------------------
(***************************************************************************)
(* The parser.  Where it expects a field it finds one.  (Mutants, named    *)
(* <definition>_<slip>, stand before the definition they alter.)           *)
(***************************************************************************)
\* The first name of the extension.  If it is of another type the loop goes on
\* to the extensions behind.  A host name is text, which from_utf8 takes.
ParseServerName(sni, behind) ==
  IF Len(sni) < 2 THEN Err
  ELSE IF Len(sni) < 2 + sni[1].length THEN Err
  ELSE IF Len(sni) < 5 THEN Err
  ELSE IF sni[3].name_type # 0 THEN behind
  ELSE IF Len(sni) < 5 + sni[4].length THEN Err
  ELSE Parsed(sni[6].host_name, 5 + sni[4].length)

FindServerName_First(data) ==   \* looks at the first extension only
  IF data = << >> \/ data[1].extension # "server_name" THEN Err
  ELSE ParseServerName(SubSeq(data, 5, 4 + data[1].length), Err)

\* The loop over the extensions.
FindServerName(data) ==
  LET from[o \in Begins(data, {"extension"}, Len(data))] ==
        IF o >= Len(data) THEN Err
        ELSE IF o + 4 > Len(data) THEN Panic
        ELSE IF data[o + 1].extension # "server_name" THEN from[o + 4 + data[o + 1].length]
        ELSE IF o + 4 + data[o + 1].length > Len(data) THEN Panic
        ELSE ParseServerName(SubSeq(data, o + 5, o + 4 + data[o + 1].length),
                             from[o + 4 + data[o + 1].length])
  IN from[0]

ParseHello_TrustsLength(hello) ==   \* the extensions are sliced without a test
  LET suites == 39 + hello[39].length
      methods == suites + 2 + hello[suites + 1].length
      length == methods + 1 + hello[methods + 1].length
  IN IF Len(hello) <= 38 THEN Err
     ELSE IF suites >= Len(hello) THEN Err
     ELSE IF suites + 1 >= Len(hello) THEN Panic
     ELSE IF methods >= Len(hello) THEN Err
     ELSE IF length >= Len(hello) THEN Err
     ELSE IF length + 1 >= Len(hello) THEN Panic
     ELSE IF Len(hello) < length + 2 + hello[length + 1].length THEN Panic
     ELSE FindServerName(SubSeq(hello, length + 3, length + 2 + hello[length + 1].length))

\* The offsets of the cipher suites, the compression methods and the length of
\* the extensions.  Two lengths of two octets are read when only the first of
\* them is known to be there.
ParseHello(hello) ==
  LET suites == 39 + hello[39].length
      methods == suites + 2 + hello[suites + 1].length
      length == methods + 1 + hello[methods + 1].length
  IN IF Len(hello) <= 38 THEN Err
     ELSE IF suites >= Len(hello) THEN Err
     ELSE IF suites + 1 >= Len(hello) THEN Panic
     ELSE IF methods >= Len(hello) THEN Err
     ELSE IF length >= Len(hello) THEN Err
     ELSE IF length + 1 >= Len(hello) THEN Panic
     ELSE IF Len(hello) < length + 2 + hello[length + 1].length THEN Err
     ELSE FindServerName(SubSeq(hello, length + 3, length + 2 + hello[length + 1].length))

ParseTlsClientHello(data) ==
  IF Len(data) < 5 THEN Err
  ELSE IF ~ Has(data, 0, "record") \/ data[1].record # "handshake" THEN Err
  ELSE IF Len(data) < 5 + data[1].length THEN Err
  ELSE LET hello == SubSeq(data, 6, 5 + data[1].length) IN
       IF Len(hello) < 4 THEN Err
       ELSE IF ~ Has(hello, 0, "handshake") \/ hello[1].handshake # "client_hello" THEN Err
       ELSE ParseHello(hello)

--------------------------------------------------------------------------------
TypeOK ==
  /\ session_id \in SessionIds
  /\ extensions \in Seq({Other} \cup {ServerName(h) : h \in Hosts})
  /\ Len(extensions) <= MaxExtensions

HostsOf(list) == {e.host : e \in {list[i] : i \in DOMAIN list} \ {Other}}

\* The server name is found wherever it stands among the extensions, whatever
\* records follow in the segment, and only if the client sent one.
ServerNameIsFound ==
  \A behind \in {<< >>, Record("application_data", Opaque(1))} :
    LET result == ParseTlsClientHello(Record("handshake", ClientHello) \o behind) IN
    IF HostsOf(extensions) = {} THEN result = Err
    ELSE result.ok /\ {result.value} = HostsOf(extensions)

\* Where a length of two octets begins that parse_tls_client_hello reads untested.
Untested == {39 + session_id, 45 + session_id}

\* A ClientHello that does not fit into its segment, or into its first record,
\* shows no name; and it is an error, except that a record ending inside one of
\* two lengths panics.
CutHelloIsNoHello ==
  LET whole == Record("handshake", ClientHello) IN
  /\ \A n \in 0 .. Len(whole) - 1 :
       /\ ParseTlsClientHello(SubSeq(whole, 1, n)) = Err
       /\ n > 0 => ParseTlsClientHello(SubSeq(whole, n + 1, Len(whole))) = Err
  /\ \A n \in 1 .. Len(ClientHello) - 1 :
       LET first == Record("handshake", SubSeq(ClientHello, 1, n))
           second == Record("handshake", SubSeq(ClientHello, n + 1, Len(ClientHello)))
       IN /\ ParseTlsClientHello(first \o second) = IF n - 1 \in Untested THEN Panic ELSE Err
          /\ ParseTlsClientHello(second) = Err
================================================================================
