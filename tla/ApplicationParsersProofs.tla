------------------------ MODULE ApplicationParsersProofs ------------------------
(***************************************************************************)
(* Proofs that the parsers of DNS, TLS and FTP show what was written.      *)
(***************************************************************************)
EXTENDS ApplicationWritersProofs

--------------------------------------------------------------------------------
(***************************************************************************)
(* How the DNS parser reads a name.                                        *)
(***************************************************************************)
NameStarts(data) == Dns!Begins(data, {"label", "pointer", "root"}, Len(data))
LabelEnd(data, o) == o + 1 + LabelOctets[data[o + 1].label]

\* One round of parse_domain_name, f being what it makes of the other names.
NameStep(data, f, o) ==
  IF o >= Len(data) THEN Err
  ELSE IF "pointer" \in DOMAIN data[o + 1]
  THEN IF o + 1 >= Len(data) THEN Panic
       ELSE IF f[data[o + 1].pointer].ok THEN Parsed(f[data[o + 1].pointer].value, o + 2)
       ELSE f[data[o + 1].pointer]
  ELSE IF "root" \in DOMAIN data[o + 1] THEN Parsed(<< >>, o + 1)
  ELSE IF LabelEnd(data, o) > Len(data) THEN Err
  ELSE IF f[LabelEnd(data, o)].ok
  THEN Parsed(<<data[o + 1].label>> \o f[LabelEnd(data, o)].value, f[LabelEnd(data, o)].next)
  ELSE f[LabelEnd(data, o)]

NameReader(data) == CHOOSE f : f = [o \in NameStarts(data) |-> NameStep(data, f, o)]

LEMMA ParseNameReads ==
  ASSUME NEW data, NEW o
  PROVE  Dns!ParseName(data, o) = NameReader(data)[o]
BY DEF Dns!ParseName, Dns!Then, Dns!Has, Dns!Err, Dns!Parsed, Dns!Panic,
       NameReader, NameStep, NameStarts, LabelEnd, Err, Parsed, Panic

\* Pointers and labels lead to names.
Closed(data) ==
  \A o \in NameStarts(data) : o < Len(data) =>
    /\ "pointer" \in DOMAIN data[o + 1] => data[o + 1].pointer \in NameStarts(data)
    /\ "pointer" \notin DOMAIN data[o + 1] /\ "root" \notin DOMAIN data[o + 1] =>
         data[o + 1].label \in Labels /\ LabelEnd(data, o) \in NameStarts(data)

NameResult == {Err, Panic} \cup {Parsed(name, next) : name \in Seq(Labels), next \in Nat}

LEMMA Results ==
  /\ Err.ok = FALSE /\ Panic.ok = FALSE /\ Err # Panic
  /\ \A value, next : /\ Parsed(value, next).ok = TRUE /\ Parsed(value, next).value = value
                      /\ Parsed(value, next).next = next
BY DEF Err, Panic, Parsed

LEMMA NamesRead ==
  ASSUME NEW S, NEW data \in Seq(S), Closed(data)
  PROVE  \A o \in NameStarts(data) : NameReader(data)[o] = NameStep(data, NameReader(data), o)
<1> DEFINE D == NameStarts(data)
           V == NameResult
           ends(o) == o >= Len(data)
           points(o) == "pointer" \in DOMAIN data[o + 1]
           roots(o) == "root" \in DOMAIN data[o + 1]
           Stop == {o \in D : \/ ends(o)
                              \/ points(o) /\ o + 1 >= Len(data)
                              \/ ~ points(o) /\ (roots(o) \/ LabelEnd(data, o) > Len(data))}
           base == [o \in D |-> IF ends(o) THEN Err ELSE IF points(o) THEN Panic
                                ELSE IF roots(o) THEN Parsed(<< >>, o + 1) ELSE Err]
           nx == [o \in D |-> IF o \in Stop THEN o
                              ELSE IF points(o) THEN data[o + 1].pointer ELSE LabelEnd(data, o)]
           step == [o \in D |-> [v \in V |->
                      IF o \in Stop \/ ~ v.ok THEN v
                      ELSE IF points(o) THEN Parsed(v.value, o + 2)
                      ELSE Parsed(<<data[o + 1].label>> \o v.value, v.next)]]
<1>1. D \subseteq Nat /\ Len(data) \in Nat
  BY DEF NameStarts, Dns!Begins
<1>2. ASSUME NEW o \in D, ~ ends(o)
      PROVE  /\ points(o) => data[o + 1].pointer \in D
             /\ ~ points(o) /\ ~ roots(o) => data[o + 1].label \in Labels /\ LabelEnd(data, o) \in D
  BY <1>1, <1>2 DEF Closed
<1>3. Err \in V /\ Panic \in V /\ \A name \in Seq(Labels), next \in Nat : Parsed(name, next) \in V
  BY DEF NameResult
<1>4. ASSUME NEW v \in V, v.ok PROVE v.value \in Seq(Labels) /\ v.next \in Nat
  <2>1. v # Err /\ v # Panic
    BY <1>4, Results
  <2>2. PICK name \in Seq(Labels) : \E next \in Nat : v = Parsed(name, next)
    BY <2>1 DEF NameResult
  <2> QED BY <2>2, Results
<1> HIDE DEF V
<1> HIDE DEF D
<1>5. base \in [D -> V]
  <2>1. ASSUME NEW o \in D PROVE Parsed(<< >>, o + 1) \in V
    <3>1. << >> \in Seq(Labels) /\ o + 1 \in Nat
      BY <1>1
    <3> QED BY <3>1, <1>3
  <2> HIDE DEF ends, points, roots
  <2> QED BY <1>3, <2>1
<1>14. ASSUME NEW o \in D, o \notin Stop
       PROVE  /\ ~ ends(o) /\ (points(o) => ~ (o + 1 >= Len(data)))
              /\ (~ points(o) => ~ roots(o) /\ ~ (LabelEnd(data, o) > Len(data)))
  <2> HIDE DEF ends, points, roots
  <2> QED BY <1>14, Zenon
<1>15. ASSUME NEW o \in D, o \in Stop, NEW f PROVE base[o] = NameStep(data, f, o)
  BY <1>15 DEF NameStep
<1> HIDE DEF Stop
<1>6. nx \in [D -> D]
  <2>1. ASSUME NEW o \in D
        PROVE  (IF o \in Stop THEN o
                ELSE IF points(o) THEN data[o + 1].pointer ELSE LabelEnd(data, o)) \in D
    BY <1>2, <1>14
  <2> HIDE DEF points
  <2> QED BY <2>1
<1>7. step \in [D -> [V -> V]]
  <2>1. ASSUME NEW o \in D, NEW v \in V
        PROVE  (IF o \in Stop \/ ~ v.ok THEN v
                ELSE IF points(o) THEN Parsed(v.value, o + 2)
                ELSE Parsed(<<data[o + 1].label>> \o v.value, v.next)) \in V
    <3>1. CASE o \in Stop \/ ~ v.ok
      BY <3>1
    <3>2. CASE ~ (o \in Stop \/ ~ v.ok) /\ points(o)
      <4>1. v.value \in Seq(Labels) /\ o + 2 \in Nat
        BY <3>2, <1>1, <1>4
      <4>2. Parsed(v.value, o + 2) \in V
        BY <4>1, <1>3
      <4> HIDE DEF points
      <4> QED BY <3>2, <4>2
    <3>3. CASE ~ (o \in Stop \/ ~ v.ok) /\ ~ points(o)
      <4>1. v.value \in Seq(Labels) /\ v.next \in Nat
        BY <3>3, <1>4
      <4>2. data[o + 1].label \in Labels
        BY <3>3, <1>2, <1>14
      <4>3. <<data[o + 1].label>> \o v.value \in Seq(Labels)
        BY <4>1, <4>2
      <4>4. Parsed(<<data[o + 1].label>> \o v.value, v.next) \in V
        BY <4>1, <4>3, <1>3
      <4> HIDE DEF points
      <4> QED BY <3>3, <4>4
    <3> HIDE DEF points
    <3> QED BY <3>1, <3>2, <3>3
  <2> HIDE DEF points
  <2> QED BY <2>1
<1>8. \A o \in D : step[o][Err] = Err
  BY <1>3, Results
<1>9. PICK f \in [D -> V] : Solves(f, D, Stop, base, nx, step)
  <2> HIDE DEF D, Stop, base, nx, step
  <2> QED BY <1>3, <1>5, <1>6, <1>7, <1>8, StrictRecursion
<1>10. ASSUME NEW o \in D PROVE f[o] = NameStep(data, f, o)
  <2>1. CASE o \in Stop
    <3>1. f[o] = base[o]
      BY <2>1, <1>9 DEF Solves
    <3>2. base[o] = NameStep(data, f, o)
      BY <2>1, <1>15
    <3> HIDE DEF base
    <3> QED BY <3>1, <3>2
  <2>2. CASE o \notin Stop
    <3>1. f[o] = step[o][f[nx[o]]]
      BY <2>2, <1>9 DEF Solves
    <3>2. nx[o] \in D /\ f[nx[o]] \in V
      BY <1>6
    <3>3. CASE points(o)
      <4>1. nx[o] = data[o + 1].pointer
        BY <2>2, <3>3
      <4>2. step[o][f[nx[o]]] = IF ~ f[nx[o]].ok THEN f[nx[o]] ELSE Parsed(f[nx[o]].value, o + 2)
        <5> HIDE DEF nx
        <5> QED BY <2>2, <3>2, <3>3
      <4>3. ~ ends(o) /\ ~ (o + 1 >= Len(data))
        BY <2>2, <3>3, <1>14
      <4> HIDE DEF step, nx
      <4> QED BY <3>1, <3>3, <4>1, <4>2, <4>3 DEF NameStep
    <3>4. CASE ~ points(o)
      <4>1. nx[o] = LabelEnd(data, o)
        BY <2>2, <3>4
      <4>2. step[o][f[nx[o]]] = IF ~ f[nx[o]].ok THEN f[nx[o]]
                                ELSE Parsed(<<data[o + 1].label>> \o f[nx[o]].value, f[nx[o]].next)
        <5> HIDE DEF nx
        <5> QED BY <2>2, <3>2, <3>4
      <4>3. ~ ends(o) /\ ~ roots(o) /\ ~ (LabelEnd(data, o) > Len(data))
        BY <2>2, <3>4, <1>14
      <4> HIDE DEF step, nx
      <4> QED BY <3>1, <3>4, <4>1, <4>2, <4>3 DEF NameStep
    <3> QED BY <3>3, <3>4
  <2> QED BY <2>1, <2>2
<1>11. f = [o \in D |-> NameStep(data, f, o)]
  BY <1>10
<1>12. NameReader(data) = [o \in D |-> NameStep(data, NameReader(data), o)]
  <2>1. NameReader(data) = CHOOSE g : g = [o \in D |-> NameStep(data, g, o)]
    BY DEF NameReader, D
  <2> QED BY <2>1, <1>11
<1>13. \A o \in D : NameReader(data)[o] = NameStep(data, NameReader(data), o)
  BY <1>12
<1> QED BY <1>13 DEF D

\* The first m octets of b stand in data behind a header; if they are all of
\* them, padding may follow.
HoldsBody(data, b, m) ==
  /\ m \in Nat /\ m <= Len(b) /\ 12 + m <= Len(data) /\ (m = Len(b) \/ Len(data) = 12 + m)
  /\ \A o \in 0 .. 11 :
       {"label", "pointer", "root", "type"} \cap DOMAIN data[o + 1] = {}
  /\ \A o \in 12 .. 11 + m : data[o + 1] = b[o - 11]
  /\ \A o \in 12 + m .. Len(data) - 1 : data[o + 1] = Inside

LEMMA IsNameStart ==
  ASSUME NEW data, NEW o \in Nat,
         \/ o >= Len(data)
         \/ "label" \in DOMAIN data[o + 1]
         \/ "pointer" \in DOMAIN data[o + 1]
         \/ "root" \in DOMAIN data[o + 1]
  PROVE  o \in NameStarts(data)
BY DEF NameStarts, Dns!Begins, Dns!Has

LEMMA NamesStart ==
  ASSUME NEW S, NEW data \in Seq(S), NEW b \in Seq(DnsOctet), NEW known, NEW ends,
         Known(b, known, ends), NEW m, HoldsBody(data, b, m),
         NEW o \in Nat, 12 <= o, NEW name, NEW end, NameAt(b, known, ends, o, name, end)
  PROVE  o \in NameStarts(data)
<1>1. PICK l \in Nat, n \in Nat : l = Len(b) /\ n = Len(data)
  OBVIOUS
<1>2. /\ m \in Nat /\ m <= l /\ 12 + m <= n /\ (m = l \/ n = 12 + m)
      /\ \A p \in 12 .. 11 + m : data[p + 1] = b[p - 11]
  BY <1>1 DEF HoldsBody
<1>3. CASE o >= n
  BY <1>1, <1>3, IsNameStart
<1>4. ASSUME ~ o >= n, o <= 11 + l PROVE data[o + 1] = b[o - 11]
  <2>1. o \in 12 .. 11 + m
    BY <1>2, <1>4
  <2> QED BY <2>1, <1>2
<1>5. CASE ~ o >= n
  <2>1. CASE name = << >> /\ end = o + 1 /\ end <= 12 + Len(b) /\ b[o - 11] = [root |-> TRUE]
    <3>1. o <= 11 + l
      BY <2>1, <1>1
    <3>2. "root" \in DOMAIN data[o + 1]
      BY <2>1, <3>1, <1>4, <1>5
    <3> QED BY <3>2, IsNameStart
  <2>2. CASE <<o, name>> \in known
    <3>1. o \in 12 .. 11 + Len(b) /\ LabelAt(b, known, ends, <<o, name>>)
      BY <2>2 DEF Known
    <3>2. o <= 11 + l
      BY <3>1, <1>1
    <3>3. b[o - 11] = [label |-> name[1]]
      BY <3>1 DEF LabelAt
    <3>4. "label" \in DOMAIN data[o + 1]
      BY <3>2, <3>3, <1>4, <1>5
    <3> QED BY <3>4, IsNameStart
  <2>3. CASE \E old \in known : end = o + 2 /\ end <= 12 + Len(b) /\ b[o - 11] = [pointer |-> old[1]]
    <3>1. PICK old \in known : end = o + 2 /\ end <= 12 + Len(b) /\ b[o - 11] = [pointer |-> old[1]]
      BY <2>3
    <3>2. o <= 11 + l
      BY <3>1, <1>1
    <3>4. "pointer" \in DOMAIN data[o + 1]
      BY <3>1, <3>2, <1>4, <1>5
    <3> QED BY <3>4, IsNameStart
  <2> QED BY <2>1, <2>2, <2>3 DEF NameAt
<1> QED BY <1>3, <1>5

LEMMA BodyClosed ==
  ASSUME NEW S, NEW data \in Seq(S), NEW b \in Seq(DnsOctet), NEW known, NEW ends,
         Known(b, known, ends), NEW m, HoldsBody(data, b, m)
  PROVE  Closed(data)
<1>1. PICK l \in Nat, n \in Nat : l = Len(b) /\ n = Len(data)
  OBVIOUS
<1>2. /\ m \in Nat /\ m <= l /\ 12 + m <= n /\ (m = l \/ n = 12 + m)
      /\ \A p \in 12 .. 11 + m : data[p + 1] = b[p - 11]
      /\ \A o \in 0 .. 11 : {"label", "pointer", "root", "type"} \cap DOMAIN data[o + 1] = {}
      /\ \A o \in 12 + m .. n - 1 : data[o + 1] = Inside
  BY <1>1 DEF HoldsBody
<1>3. ASSUME NEW o \in NameStarts(data), o < n
      PROVE  o \in 12 .. 11 + m /\ o \in 12 .. 11 + Len(b) /\ data[o + 1] = b[o - 11]
             /\ \/ "label" \in DOMAIN data[o + 1]
                \/ "pointer" \in DOMAIN data[o + 1]
                \/ "root" \in DOMAIN data[o + 1]
  <2>1. o \in Nat /\ \E field \in {"label", "pointer", "root"} : field \in DOMAIN data[o + 1]
    BY <1>1, <1>3 DEF NameStarts, Dns!Begins, Dns!Has
  <2>2. o \notin 0 .. 11
    BY <2>1, <1>2
  <2>3. o \notin 12 + m .. n - 1
    <3>1. DOMAIN Inside = {"inside"}
      BY DEF Inside
    <3> QED BY <3>1, <2>1, <1>2
  <2>4. o \in 12 .. 11 + m
    BY <2>1, <2>2, <2>3, <1>2, <1>3
  <2>5. o \in 12 .. 11 + Len(b)
    BY <2>4, <1>1, <1>2
  <2> QED BY <2>1, <2>4, <2>5, <1>2
<1>4. ASSUME NEW s \in known PROVE s[1] \in NameStarts(data)
  <2>1. s \in (12 .. 11 + Len(b)) \X (Seq(Labels) \ {<< >>})
    BY DEF Known
  <2>2. s = <<s[1], s[2]>> /\ s[1] \in Nat /\ 12 <= s[1]
    BY <2>1
  <2>3. NameAt(b, known, ends, s[1], s[2], ends[s])
    BY <2>2 DEF NameAt
  <2> QED BY <2>2, <2>3, NamesStart
<1>5. ASSUME NEW o \in NameStarts(data), o < n, "pointer" \in DOMAIN data[o + 1]
      PROVE  data[o + 1].pointer \in NameStarts(data)
  <2>1. o \in 12 .. 11 + Len(b) /\ data[o + 1] = b[o - 11]
    BY <1>3, <1>5
  <2>2. PICK name : <<b[o - 11].pointer, name>> \in known
    BY <2>1, <1>5 DEF Known
  <2>3. <<b[o - 11].pointer, name>>[1] \in NameStarts(data)
    BY <2>2, <1>4
  <2> QED BY <2>1, <2>3
<1>6. ASSUME NEW o \in NameStarts(data), o < n, "pointer" \notin DOMAIN data[o + 1],
             "root" \notin DOMAIN data[o + 1]
      PROVE  data[o + 1].label \in Labels /\ LabelEnd(data, o) \in NameStarts(data)
  <2>1. o \in 12 .. 11 + Len(b) /\ data[o + 1] = b[o - 11] /\ "label" \in DOMAIN b[o - 11]
    BY <1>3, <1>6
  <2>2. PICK name : <<o, name>> \in known
    BY <2>1 DEF Known
  <2>3. name \in Seq(Labels) /\ name # << >>
    BY <2>2 DEF Known
  <2>4. LabelAt(b, known, ends, <<o, name>>)
    BY <2>2 DEF Known
  <2>5. /\ b[o - 11] = [label |-> name[1]]
        /\ NameAt(b, known, ends, o + 1 + LabelOctets[name[1]], Tail(name), ends[<<o, name>>])
    BY <2>4 DEF LabelAt
  <2>6. name[1] \in Labels
    BY <2>3
  <2>7. PICK e \in Nat : e = o + 1 + LabelOctets[name[1]] /\ 12 <= e
    <3>1. LabelOctets[name[1]] \in Nat
      BY <2>6, LabelSizes
    <3> QED BY <3>1, <2>1
  <2>8. e \in NameStarts(data)
    BY <2>5, <2>7, NamesStart
  <2>9. data[o + 1].label = name[1]
    BY <2>1, <2>5
  <2> QED BY <2>6, <2>7, <2>8, <2>9 DEF LabelEnd
<1> QED BY <1>1, <1>5, <1>6 DEF Closed

\* What is read of a name: all of it, or where the octets end in it an error or,
\* within a pointer, a panic.
Reads(data, b, m, o, name, end) ==
  /\ end <= 12 + m => NameReader(data)[o] = Parsed(name, end)
  /\ end > 12 + m =>
       NameReader(data)[o] = IF o < 12 + m /\ "pointer" \in DOMAIN b[m] THEN Panic ELSE Err

LEMMA NameAtReads ==
  ASSUME NEW S, NEW data \in Seq(S), NEW b \in Seq(DnsOctet), NEW known, NEW ends,
         Known(b, known, ends), NEW m, HoldsBody(data, b, m),
         NEW name, \A s \in known : s[2] = name => Reads(data, b, m, s[1], name, ends[s]),
         NEW o \in Nat, 12 <= o, NEW end, NameAt(b, known, ends, o, name, end)
  PROVE  Reads(data, b, m, o, name, end)
<1> DEFINE f == NameReader(data)
<1>1. PICK l \in Nat, n \in Nat : l = Len(b) /\ n = Len(data)
  OBVIOUS
<1>2. /\ m \in Nat /\ m <= l /\ 12 + m <= n /\ (m = l \/ n = 12 + m)
      /\ \A p \in 12 .. 11 + m : data[p + 1] = b[p - 11]
  BY <1>1 DEF HoldsBody
<1>3. f[o] = NameStep(data, f, o)
  <2>1. Closed(data)
    BY BodyClosed
  <2>2. o \in NameStarts(data)
    BY NamesStart
  <2> QED BY <2>1, <2>2, NamesRead
<1> HIDE DEF f
<1>4. ASSUME o >= n PROVE f[o] = Err
  BY <1>1, <1>3, <1>4 DEF NameStep
<1>5. ASSUME o < 12 + m PROVE o < n /\ data[o + 1] = b[o - 11]
  <2>1. o \in 12 .. 11 + m
    BY <1>2, <1>5
  <2> QED BY <2>1, <1>2
<1>6. CASE name = << >> /\ end = o + 1 /\ end <= 12 + Len(b) /\ b[o - 11] = [root |-> TRUE]
  <2>1. CASE o < 12 + m
    <3>1. data[o + 1] = [root |-> TRUE] /\ o < n /\ end <= 12 + m
      BY <2>1, <1>2, <1>5, <1>6
    <3>2. f[o] = Parsed(<< >>, o + 1)
      BY <3>1, <1>1, <1>3 DEF NameStep
    <3> QED BY <3>1, <3>2, <1>2, <1>6 DEF Reads, f
  <2>2. CASE o >= 12 + m
    <3>1. o >= n /\ end > 12 + m
      BY <2>2, <1>1, <1>2, <1>6
    <3>2. f[o] = Err
      BY <3>1, <1>4
    <3>3. ~ (o < 12 + m) /\ ~ (end <= 12 + m)
      BY <2>2, <3>1, <1>2, <1>6
    <3> QED BY <3>2, <3>3 DEF Reads, f
  <2> QED BY <2>1, <2>2, <1>2
<1>7. CASE <<o, name>> \in known /\ end = ends[<<o, name>>]
  BY <1>7
<1>8. CASE \E old \in known :
             /\ old[2] = name /\ ends[old] <= o /\ end = o + 2 /\ end <= 12 + Len(b)
             /\ b[o - 11] = [pointer |-> old[1]]
  <2>1. PICK old \in known :
             /\ old[2] = name /\ ends[old] <= o /\ end = o + 2 /\ end <= 12 + Len(b)
             /\ b[o - 11] = [pointer |-> old[1]]
    BY <1>8
  <2>2. CASE o >= 12 + m
    <3>1. o >= n /\ end > 12 + m
      BY <2>1, <2>2, <1>1, <1>2
    <3>2. f[o] = Err
      BY <3>1, <1>4
    <3>3. ~ (o < 12 + m) /\ ~ (end <= 12 + m)
      BY <2>1, <2>2, <3>1, <1>2
    <3> QED BY <3>2, <3>3 DEF Reads, f
  <2>3. CASE o < 12 + m
    <3>1. data[o + 1] = [pointer |-> old[1]] /\ o < n
      BY <2>1, <2>3, <1>5
    <3>2. f[o] = IF o + 1 >= n THEN Panic
                 ELSE IF f[old[1]].ok THEN Parsed(f[old[1]].value, o + 2) ELSE f[old[1]]
      BY <3>1, <1>1, <1>3 DEF NameStep
    <3>3. CASE o + 1 < 12 + m
      <4>1. f[old[1]] = Parsed(name, ends[old])
        <5>1. Reads(data, b, m, old[1], name, ends[old]) /\ ends[old] \in Nat
          BY <2>1 DEF Known
        <5>2. ends[old] <= 12 + m
          BY <5>1, <2>1, <2>3, <1>2
        <5> QED BY <5>1, <5>2 DEF Reads, f
      <4>2. ~ (o + 1 >= n) /\ end <= 12 + m /\ ~ (end > 12 + m)
        BY <3>3, <2>1, <1>2
      <4>3. f[o] = Parsed(name, end)
        BY <4>1, <4>2, <3>2, <2>1, Results
      <4> QED BY <4>2, <4>3 DEF Reads, f
    <3>4. CASE o + 1 >= 12 + m
      <4>1. o = 11 + m /\ n = 12 + m /\ end > 12 + m /\ ~ (end <= 12 + m)
        BY <2>1, <2>3, <3>4, <1>1, <1>2
      <4>2. o - 11 = m /\ "pointer" \in DOMAIN b[o - 11]
        BY <4>1, <2>1, <1>2
      <4>4. o + 1 >= n
        BY <4>1, <1>2
      <4>3. f[o] = Panic
        BY <4>4, <3>2
      <4> QED BY <4>1, <4>2, <4>3, <2>3 DEF Reads, f
    <3> QED BY <3>3, <3>4, <1>2
  <2> QED BY <2>2, <2>3, <1>2
<1> QED BY <1>6, <1>7, <1>8 DEF NameAt

LEMMA KnownReads ==
  ASSUME NEW S, NEW data \in Seq(S), NEW b \in Seq(DnsOctet), NEW known, NEW ends,
         Known(b, known, ends), NEW m, HoldsBody(data, b, m), NEW s \in known,
         NEW e \in Nat, e = s[1] + 1 + LabelOctets[s[2][1]],
         Reads(data, b, m, e, Tail(s[2]), ends[s])
  PROVE  Reads(data, b, m, s[1], s[2], ends[s])
<1> DEFINE f == NameReader(data)
<1>1. PICK l \in Nat, n \in Nat : l = Len(b) /\ n = Len(data)
  OBVIOUS
<1>2. /\ m \in Nat /\ m <= l /\ 12 + m <= n /\ (m = l \/ n = 12 + m)
      /\ \A p \in 12 .. 11 + m : data[p + 1] = b[p - 11]
  BY <1>1 DEF HoldsBody
<1>3. s \in (12 .. 11 + Len(b)) \X (Seq(Labels) \ {<< >>}) /\ ends[s] \in Nat
      /\ LabelAt(b, known, ends, s)
  BY DEF Known
<1>4. PICK o \in Nat : o = s[1] /\ 12 <= o /\ o <= 11 + l
  BY <1>1, <1>3
<1>5. PICK end \in Nat : end = ends[s]
  BY <1>3
<1>6. PICK label \in Labels : label = s[2][1]
  BY <1>3
<1>7. /\ b[o - 11] = [label |-> label] /\ e < end /\ end <= 12 + l
      /\ Without("pointer", b, o, e)
  BY <1>1, <1>3, <1>4, <1>5, <1>6 DEF LabelAt
<1>8. PICK z \in Nat : z = LabelOctets[label]
  BY <1>6, LabelSizes
<1>9. e = o + 1 + z
  BY <1>4, <1>6, <1>8
<1>10. f[o] = NameStep(data, f, o)
  <2>1. Closed(data)
    BY BodyClosed
  <2>2. o \in NameStarts(data)
    <3>1. s = <<s[1], s[2]>>
      BY <1>3
    <3>2. NameAt(b, known, ends, o, s[2], end)
      BY <3>1, <1>4, <1>5 DEF NameAt
    <3> QED BY <3>2, <1>4, NamesStart
  <2> QED BY <2>1, <2>2, NamesRead
<1>11. ASSUME o < 12 + m
       PROVE  f[o] = IF e > n THEN Err
                     ELSE IF f[e].ok THEN Parsed(<<label>> \o f[e].value, f[e].next)
                     ELSE f[e]
  <2>1. o \in 12 .. 11 + m
    BY SMTT(30), <1>2, <1>4, <1>11
  <2>2. data[o + 1] = [label |-> label]
    BY <2>1, <1>2, <1>7
  <2>3. LabelEnd(data, o) = e /\ data[o + 1].label = label /\ ~ (o >= Len(data))
    BY <2>1, <2>2, <1>1, <1>2, <1>8, <1>9 DEF LabelEnd
  <2> HIDE DEF f
  <2> QED BY <2>2, <2>3, <1>1, <1>10 DEF NameStep
<1>12. CASE o >= 12 + m
  <2>1. o >= n /\ ~ (o < 12 + m) /\ end > 12 + m /\ ~ (end <= 12 + m)
    <3>1. m \in Nat /\ (m = l \/ n = 12 + m)
      BY <1>2
    <3>2. e < end
      BY <1>7
    <3>3. m < l /\ n = 12 + m
      BY <3>1, <1>4, <1>12
    <3>4. o < end
      BY <3>2, <1>9
    <3> QED BY <3>1, <3>3, <3>4, <1>12
  <2>2. f[o] = Err
    BY <2>1, <1>1, <1>10 DEF NameStep
  <2> QED BY <2>1, <2>2, <1>4, <1>5 DEF Reads
<1>13. CASE o < 12 + m
  <2>1. CASE end <= 12 + m
    <3>1. ~ (e > n) /\ ~ (end > 12 + m)
      BY SMTT(30), <2>1, <1>2, <1>7
    <3>2. f[e] = Parsed(Tail(s[2]), end)
      BY <2>1, <1>5 DEF Reads
    <3>3. <<label>> \o Tail(s[2]) = s[2]
      BY <1>3, <1>6
    <3> HIDE DEF f
    <3>5. f[e].ok = TRUE /\ f[e].value = Tail(s[2]) /\ f[e].next = end
      BY <3>2, Results
    <3>6. f[o] = Parsed(<<label>> \o f[e].value, f[e].next)
      BY <3>1, <3>5, <1>11, <1>13
    <3>4. f[o] = Parsed(s[2], end)
      BY <3>3, <3>5, <3>6
    <3> QED BY <3>1, <3>4, <1>4, <1>5 DEF Reads, f
  <2>2. CASE end > 12 + m
    <3>1. n = 12 + m /\ ~ (end <= 12 + m) /\ m < l
      BY <2>2, <1>2, <1>7
    <3>2. CASE e < 12 + m
      <4>1. f[e] = IF "pointer" \in DOMAIN b[m] THEN Panic ELSE Err
        BY <2>2, <3>2, <1>5 DEF Reads
      <4>2. ~ (e > n)
        BY <3>1, <3>2
      <4> HIDE DEF f
      <4>3. f[o] = f[e]
        BY <4>1, <4>2, <1>11, <1>13, Results
      <4> QED BY <4>1, <4>3, <3>1, <1>4, <1>5, <1>13 DEF Reads, f
    <3>3. CASE e >= 12 + m
      <4>1. "pointer" \notin DOMAIN b[m]
        <5>1. 11 + m \in o .. e - 1 /\ (11 + m) - 11 = m
          BY <3>3, <1>2, <1>13
        <5> QED BY <5>1, <1>7 DEF Without
      <4>2. CASE e > n
        <5>1. f[o] = Err
          BY <4>2, <1>11, <1>13
        <5> QED BY <5>1, <4>1, <3>1, <1>4, <1>5 DEF Reads
      <4>3. CASE ~ (e > n)
        <5>1. f[e] = Err
          BY <2>2, <3>1, <4>1, <1>5 DEF Reads
        <5> HIDE DEF f
        <5>2. f[o] = Err
          BY <5>1, <4>3, <1>11, <1>13, Results
        <5> QED BY <5>2, <4>1, <3>1, <1>4, <1>5 DEF Reads, f
      <4> QED BY <4>2, <4>3
    <3> QED BY <3>2, <3>3, <1>2
  <2> QED BY <2>1, <2>2, <1>2
<1> QED BY <1>12, <1>13, <1>2

LEMMA NameReads ==
  ASSUME NEW S, NEW data \in Seq(S), NEW b \in Seq(DnsOctet), NEW known, NEW ends,
         Known(b, known, ends), NEW m, HoldsBody(data, b, m),
         NEW name, NEW o \in Nat, 12 <= o, NEW end, NameAt(b, known, ends, o, name, end)
  PROVE  Reads(data, b, m, o, name, end)
<1> DEFINE T == {k \in Nat : \A s \in known : Len(s[2]) = k => Reads(data, b, m, s[1], s[2], ends[s])}
<1>1. ASSUME NEW k \in Nat, \A j \in Nat : j < k => j \in T PROVE k \in T
  <2>1. ASSUME NEW s \in known, Len(s[2]) = k PROVE Reads(data, b, m, s[1], s[2], ends[s])
    <3>1. s \in (12 .. 11 + Len(b)) \X (Seq(Labels) \ {<< >>})
          /\ LabelAt(b, known, ends, s)
      BY DEF Known
    <3>2. PICK e \in Nat : e = s[1] + 1 + LabelOctets[s[2][1]] /\ 12 <= e
      <4>1. s[2][1] \in Labels
        BY <3>1
      <4>2. LabelOctets[s[2][1]] \in Nat
        BY <4>1, LabelSizes
      <4> QED BY SMTT(30), <3>1, <4>2
    <3>3. NameAt(b, known, ends, e, Tail(s[2]), ends[s])
      BY <3>1, <3>2 DEF LabelAt
    <3>4. Tail(s[2]) \in Seq(Labels) /\ Len(Tail(s[2])) = k - 1 /\ k - 1 \in Nat /\ k - 1 < k
      BY <2>1, <3>1
    <3>5. ASSUME NEW t \in known, t[2] = Tail(s[2])
          PROVE  Reads(data, b, m, t[1], Tail(s[2]), ends[t])
      <4>1. k - 1 \in T /\ Len(t[2]) = k - 1
        BY <1>1, <3>4, <3>5
      <4>2. Reads(data, b, m, t[1], t[2], ends[t])
        BY <4>1
      <4> QED BY <4>2, <3>5
    <3>6. Reads(data, b, m, e, Tail(s[2]), ends[s])
      BY <3>2, <3>3, <3>5, NameAtReads
    <3> QED BY <3>2, <3>6, KnownReads
  <2> QED BY <2>1
<1> HIDE DEF T
<1>2. \A k \in Nat : k \in T
  BY <1>1, StrongInduction
<1>3. ASSUME NEW s \in known, s[2] = name PROVE Reads(data, b, m, s[1], name, ends[s])
  <2>1. s[2] \in Seq(Labels)
    BY DEF Known
  <2>2. Len(s[2]) \in T
    BY <2>1, <1>2
  <2> QED BY <2>2, <1>3 DEF T
<1> QED BY <1>3, NameAtReads

--------------------------------------------------------------------------------
(***************************************************************************)
(* How it reads the data of a record.                                      *)
(***************************************************************************)
TextStarts(data, from, end) == {o \in Dns!Begins(data, {"text"}, end) : o >= from}

\* One round of the loop over character strings, f being what the rounds after it make.
TextStep(data, f, end, o) ==
  IF o >= end THEN Parsed(<< >>, o)
  ELSE IF o + 1 + data[o + 1].size > end THEN Err
  ELSE IF f[o + 1 + data[o + 1].size].ok
  THEN Parsed(<<data[o + 1].text>> \o f[o + 1 + data[o + 1].size].value,
              f[o + 1 + data[o + 1].size].next)
  ELSE f[o + 1 + data[o + 1].size]

TextReader(data, from, end) ==
  CHOOSE f : f = [o \in TextStarts(data, from, end) |-> TextStep(data, f, end, o)]

LEMMA ParseTextReads ==
  ASSUME NEW data, NEW from, NEW end
  PROVE  Dns!ParseText(data, from, end) = TextReader(data, from, end)[from]
BY DEF Dns!ParseText, Dns!Then, Dns!Has, Dns!Err, Dns!Parsed,
       TextReader, TextStep, TextStarts, Err, Parsed

\* The two character strings about name.
TextAt(data, o, name) ==
  /\ data[o + 1] = [text |-> name, size |-> 3] /\ data[o + 5] = [text |-> name, size |-> 1]
  /\ \A i \in {2, 3, 4, 6} : "text" \notin DOMAIN data[o + i]

LEMMA TextReads ==
  ASSUME NEW data, NEW o \in Nat, NEW name, TextAt(data, o, name)
  PROVE  Dns!ParseText(data, o, o + 6) = Parsed(<<name, name>>, o + 6)
<1> DEFINE D == TextStarts(data, o, o + 6)
           F(f, p) == TextStep(data, f, o + 6, p)
           g == [p \in D |-> IF p >= o + 6 THEN Parsed(<< >>, p)
                             ELSE IF p = o + 4 THEN Parsed(<<name>>, o + 6)
                             ELSE Parsed(<<name, name>>, o + 6)]
<1>1. D \subseteq Nat /\ o \in D /\ o + 4 \in D /\ o + 6 \in D
      /\ \A p \in D : p = o \/ p = o + 4 \/ p >= o + 6
  <2>1. /\ "text" \in DOMAIN data[o + 1] /\ "text" \in DOMAIN data[(o + 4) + 1]
    <3>1. (o + 4) + 1 = o + 5
      OBVIOUS
    <3> QED BY <3>1 DEF TextAt
  <2>2. D \subseteq Nat /\ o \in D /\ o + 4 \in D /\ o + 6 \in D
    BY <2>1 DEF TextStarts, Dns!Begins, Dns!Has
  <2>3. ASSUME NEW p \in D, ~ p >= o + 6, p # o, p # o + 4 PROVE FALSE
    <3>1. p \in Nat /\ p >= o /\ "text" \in DOMAIN data[p + 1]
      BY <2>3 DEF TextStarts, Dns!Begins, Dns!Has
    <3>2. p + 1 = o + 2 \/ p + 1 = o + 3 \/ p + 1 = o + 4 \/ p + 1 = o + 6
      BY <3>1, <2>3
    <3> QED BY <3>1, <3>2 DEF TextAt
  <2> QED BY <2>2, <2>3
<1>2. /\ data[o + 1].size = 3 /\ data[o + 1].text = name
      /\ data[(o + 4) + 1].size = 1 /\ data[(o + 4) + 1].text = name
      /\ o + 1 + 3 = o + 4 /\ (o + 4) + 1 + 1 = o + 6
      /\ ~ (o >= o + 6) /\ ~ (o + 4 >= o + 6) /\ o + 6 >= o + 6 /\ ~ (o + 4 > o + 6) /\ ~ (o + 6 > o + 6)
      /\ o # o + 4
  <2>1. (o + 4) + 1 = o + 5
    OBVIOUS
  <2> QED BY <2>1 DEF TextAt
<1> HIDE DEF D
<1>3. /\ <<name>> \o << >> = <<name>> /\ <<name>> \o <<name>> = <<name, name>>
  <2>1. <<name>> \in Seq({name})
    OBVIOUS
  <2>2. <<name>> \o << >> = <<name>>
    BY <2>1
  <2>3. ASSUME NEW S, NEW x \in S PROVE <<x>> \o <<x>> = <<x, x>>
    <3>1. /\ <<x>> \in Seq(S) /\ Len(<<x>>) = 1 /\ <<x>>[1] = x
          /\ <<x, x>> \in Seq(S) /\ Len(<<x, x>>) = 2 /\ <<x, x>>[1] = x /\ <<x, x>>[2] = x
      OBVIOUS
    <3>2. PICK s \in Seq(S) : s = <<x>> /\ Len(s) = 1 /\ s[1] = x
      BY <3>1
    <3>3. s \o s \in Seq(S) /\ Len(s \o s) = 2 /\ (s \o s)[1] = x /\ (s \o s)[2] = x
      BY <3>2
    <3>4. ASSUME NEW i \in 1 .. 2 PROVE (s \o s)[i] = <<x, x>>[i]
      BY <3>1, <3>3
    <3>5. s \o s = <<x, x>>
      BY <3>1, <3>3, <3>4, SeqEqual
    <3> QED BY <3>2, <3>5
  <2>4. <<name>> \o <<name>> = <<name, name>>
    <3>1. name \in {name}
      OBVIOUS
    <3> QED BY <3>1, <2>3
  <2> QED BY <2>2, <2>4
<1>4. ASSUME NEW f, f[o + 6] = Parsed(<< >>, o + 6) PROVE F(f, o + 4) = Parsed(<<name>>, o + 6)
  <2>1. f[o + 6].ok = TRUE /\ f[o + 6].value = << >> /\ f[o + 6].next = o + 6
    BY <1>4, Results
  <2> QED BY <2>1, <1>2, <1>3 DEF TextStep
<1>5. ASSUME NEW f, f[o + 4] = Parsed(<<name>>, o + 6) PROVE F(f, o) = Parsed(<<name, name>>, o + 6)
  <2>1. f[o + 4].ok = TRUE /\ f[o + 4].value = <<name>> /\ f[o + 4].next = o + 6
    BY <1>5, Results
  <2> QED BY <2>1, <1>2, <1>3 DEF TextStep
<1>6. ASSUME NEW f, NEW p \in Nat, p >= o + 6 PROVE F(f, p) = Parsed(<< >>, p)
  BY <1>6 DEF TextStep
<1> HIDE DEF F
<1>7. g = [p \in D |-> F(g, p)]
  <2>1. g[o + 6] = Parsed(<< >>, o + 6) /\ g[o + 4] = Parsed(<<name>>, o + 6)
    BY <1>1, <1>2
  <2>2. ASSUME NEW p \in D PROVE g[p] = F(g, p)
    <3>1. CASE p = o
      <4>1. g[o] = Parsed(<<name, name>>, o + 6)
        BY <1>1, <1>2
      <4> HIDE DEF g
      <4> QED BY <4>1, <3>1, <2>1, <1>5
    <3>2. CASE p = o + 4
      <4> HIDE DEF g
      <4> QED BY <3>2, <2>1, <1>4
    <3>3. CASE p >= o + 6
      <4>1. g[p] = Parsed(<< >>, p) /\ p \in Nat
        BY <3>3, <1>1
      <4> HIDE DEF g
      <4> QED BY <4>1, <3>3, <1>6
    <3> QED BY <3>1, <3>2, <3>3, <1>1
  <2>3. g = [p \in D |-> g[p]]
    OBVIOUS
  <2> HIDE DEF g
  <2> QED BY <2>2, <2>3
<1> HIDE DEF g
<1>8. TextReader(data, o, o + 6) = CHOOSE f : f = [p \in D |-> F(f, p)]
  BY DEF TextReader, D, F
<1>9. PICK f : f = TextReader(data, o, o + 6) /\ f = [p \in D |-> F(f, p)]
  BY <1>7, <1>8
<1>10. f[o + 6] = F(f, o + 6) /\ f[o + 4] = F(f, o + 4) /\ f[o] = F(f, o)
  BY <1>1, <1>9
<1>11. f[o + 6] = Parsed(<< >>, o + 6)
  BY <1>2, <1>6, <1>10
<1>12. f[o + 4] = Parsed(<<name>>, o + 6)
  BY <1>4, <1>10, <1>11
<1>13. f[o] = Parsed(<<name, name>>, o + 6)
  BY <1>5, <1>10, <1>12
<1> QED BY <1>9, <1>13, ParseTextReads

LEMMA NameIsRead ==
  ASSUME NEW S, NEW data \in Seq(S), NEW b \in Seq(DnsOctet), NEW known, NEW ends,
         Known(b, known, ends), NEW m, HoldsBody(data, b, m), NEW name, NEW o \in Nat, 12 <= o,
         NEW end, NameAt(b, known, ends, o, name, end), end <= 12 + m
  PROVE  Dns!ParseName(data, o) = Parsed(name, end)
<1>1. Reads(data, b, m, o, name, end)
  BY NameReads
<1> QED BY <1>1, ParseNameReads DEF Reads

\* Data that is there in full is read, up to wherever its last name ends.
DataIsRead(data, type, name, o, length) ==
  \E x : Dns!ParseData(data, o, type, length) = Parsed(Dns!Says(type, name), x)

LEMMA DataReads ==
  ASSUME NEW S, NEW data \in Seq(S), NEW b \in Seq(DnsOctet), NEW known, NEW ends,
         Known(b, known, ends), NEW m, HoldsBody(data, b, m), NEW type, NEW name, NEW o \in Nat, 12 <= o,
         NEW length \in Nat, length > 0, o + length <= 12 + m, DataAt(b, known, ends, type, name, o, length)
  PROVE  DataIsRead(data, type, name, o, length)
<1>1. PICK l \in Nat, n \in Nat : l = Len(b) /\ n = Len(data)
  OBVIOUS
<1>2. m \in Nat /\ 12 + m <= n /\ \A p \in 12 .. 11 + m : data[p + 1] = b[p - 11]
  BY <1>1 DEF HoldsBody
<1>3. data[o + 1] = b[o - 11]
  <2>1. o \in 12 .. 11 + m
    BY <1>2
  <2> QED BY <2>1, <1>2
<1>4. ASSUME NEW p \in Nat, NEW end, 12 <= p, NameAt(b, known, ends, p, name, end), end <= 12 + m
      PROVE  Dns!ParseName(data, p) = Parsed(name, end)
  BY <1>4, NameIsRead
<1>5. ASSUME NEW p \in Nat, NEW end, 12 <= p, NameAt(b, known, ends, p, name, end), end <= 12 + m
      PROVE  Dns!Then(Dns!ParseName(data, p), LAMBDA y, next : Dns!Parsed(<<y>>, next)) = Parsed(<<name>>, end)
  <2>1. Dns!ParseName(data, p) = Parsed(name, end)
    BY <1>5, <1>4
  <2> QED BY <2>1, Results, DnsOctets DEF Dns!Then
<1>6. CASE type = "A"
  <2>1. length = 4 /\ data[o + 1].address = name
    BY <1>3, <1>6 DEF DataAt
  <2> QED BY <2>1, <1>6, DnsOctets DEF Dns!ParseData, Dns!Says, DataIsRead
<1>7. CASE type = "AAAA"
  <2>1. length = 16 /\ data[o + 1].address = name
    BY <1>3, <1>7 DEF DataAt
  <2> QED BY <2>1, <1>7, DnsOctets DEF Dns!ParseData, Dns!Says, DataIsRead
<1>8. CASE type = "other"
  <2>1. data[o + 1].opaque = name
    BY <1>3, <1>8 DEF DataAt
  <2> QED BY <2>1, <1>8, DnsOctets DEF Dns!ParseData, Dns!Says, DataIsRead
<1>9. CASE type \in {"CNAME", "PTR"}
  <2>1. NameAt(b, known, ends, o, name, o + length)
    BY <1>9 DEF DataAt
  <2>2. Dns!Then(Dns!ParseName(data, o), LAMBDA y, next : Dns!Parsed(<<y>>, next)) = Parsed(<<name>>, o + length)
    BY <2>1, <1>5, Zenon
  <2> QED BY <2>2, <1>9, Zenon DEF Dns!ParseData, Dns!Says, DataIsRead
<1>10. CASE type = "MX"
  <2>1. length >= 2 /\ NameAt(b, known, ends, o + 2, name, o + length)
    BY <1>10 DEF DataAt
  <2>2. o + 2 \in Nat /\ 12 <= o + 2 /\ ~ (length < 2)
    BY <2>1
  <2>3. Dns!Then(Dns!ParseName(data, o + 2), LAMBDA y, next : Dns!Parsed(<<y>>, next)) = Parsed(<<name>>, o + length)
    BY <2>1, <2>2, <1>5, Zenon
  <2> QED BY <2>2, <2>3, <1>10, Zenon DEF Dns!ParseData, Dns!Says, DataIsRead
<1>11. CASE type = "SOA"
  <2>1. length >= 20 /\ \E e \in o .. o + length : NameAt(b, known, ends, o, name, e)
                                   /\ NameAt(b, known, ends, e, name, o + length - 20)
    BY <1>11 DEF DataAt
  <2>2. PICK e \in o .. o + length : NameAt(b, known, ends, o, name, e)
                                     /\ NameAt(b, known, ends, e, name, o + length - 20)
    BY <2>1
  <2>3. PICK z \in Nat : z = o + length - 20 /\ z + 20 <= n /\ z <= 12 + m
    BY <2>1, <1>2
  <2>4. e \in Nat /\ 12 <= e /\ e <= 12 + m
    BY <1>2
  <2>5. Dns!ParseName(data, o) = Parsed(name, e)
    BY <2>2, <2>4, <1>4
  <2>6. Dns!ParseName(data, e) = Parsed(name, z)
    BY <2>2, <2>3, <2>4, <1>4
  <2>7. Dns!ParseTwoNames(data, o) = Parsed(<<name, name>>, z)
    <3>1. /\ Dns!ParseName(data, o).ok /\ Dns!ParseName(data, o).value = name
          /\ Dns!ParseName(data, o).next = e
      BY <2>5, Results
    <3>2. /\ Dns!ParseName(data, e).ok /\ Dns!ParseName(data, e).value = name
          /\ Dns!ParseName(data, e).next = z
      BY <2>6, Results
    <3>3. Dns!ParseTwoNames(data, o) = Dns!Parsed(<<name, name>>, z)
      BY <3>1, <3>2 DEF Dns!ParseTwoNames, Dns!Then
    <3> QED BY <3>3, DnsOctets
  <2>8. ~ (z + 20 > Len(data))
    BY <2>3, <1>1
  <2>9. Dns!ParseData(data, o, type, length) = Parsed(<<name, name>>, z + 20)
    BY <2>7, <2>8, <1>11, Results, DnsOctets DEF Dns!ParseData, Dns!Then
  <2> QED BY <2>9, <1>11 DEF Dns!Says, DataIsRead
<1>12. CASE type = "TXT"
  <2>1. /\ length = 6
        /\ b[o - 11] = [text |-> name, size |-> 3] /\ b[(o + 4) - 11] = [text |-> name, size |-> 1]
        /\ Without("text", b, o + 1, o + 4) /\ Without("text", b, o + 5, o + 6)
    BY <1>12 DEF DataAt
  <2>2. ASSUME NEW p \in o .. o + 5 PROVE data[p + 1] = b[p - 11]
    <3>1. p \in 12 .. 11 + m
      BY <2>1, <1>2
    <3> QED BY <3>1, <1>2
  <2>3. data[o + 5] = [text |-> name, size |-> 1]
    <3>1. o + 4 \in o .. o + 5 /\ (o + 4) + 1 = o + 5
      OBVIOUS
    <3> QED BY <3>1, <2>1, <2>2
  <2>4. ASSUME NEW i \in {2, 3, 4, 6} PROVE "text" \notin DOMAIN data[o + i]
    <3>1. PICK p \in o .. o + 5 : /\ p + 1 = o + i
                                  /\ p \in (o + 1) .. (o + 4) - 1 \/ p \in (o + 5) .. (o + 6) - 1
      <4>1. PICK p \in Nat : p = o + i - 1
        OBVIOUS
      <4> QED BY <4>1
    <3>2. "text" \notin DOMAIN b[p - 11]
      BY <3>1, <2>1 DEF Without
    <3>3. data[p + 1] = b[p - 11]
      BY <2>2
    <3> QED BY <3>1, <3>2, <3>3
  <2>5. TextAt(data, o, name)
    BY <2>1, <2>3, <2>4, <1>3 DEF TextAt
  <2>6. Dns!ParseText(data, o, o + 6) = Parsed(<<name, name>>, o + 6)
    BY <2>5, TextReads
  <2>7. Dns!ParseData(data, o, type, length) = Dns!ParseText(data, o, o + 6)
    BY <2>1, <1>12 DEF Dns!ParseData
  <2> QED BY <2>6, <2>7, <1>12 DEF Dns!Says, DataIsRead
<1> QED BY <1>6, <1>7, <1>8, <1>9, <1>10, <1>11, <1>12 DEF DataAt

--------------------------------------------------------------------------------
(***************************************************************************)
(* How it reads questions and records, one by one.                         *)
(***************************************************************************)
\* Is the octet at offset p part of the data of a record?
DataOf(b, p) ==
  \E h \in 12 .. 11 + Len(b) :
    "type" \in DOMAIN b[h - 11] /\ p \in h + 10 .. h + 9 + b[h - 11].length

\* What is made of the first m octets of b, when there are more.
Cut(b, m) == IF m > 0 /\ "pointer" \in DOMAIN b[m] /\ ~ DataOf(b, 11 + m) THEN Panic ELSE Err

ItemReads(result, b, m, value, o, next) ==
  /\ next <= 12 + m => result = Parsed(value, next)
  /\ o <= 12 + m /\ next > 12 + m => result = Cut(b, m)

\* The records that begin before offset o end before it, and if a pointer begins
\* just before it then in the data of a record.
Sound(b, o) ==
  /\ o > 12 /\ "pointer" \in DOMAIN b[o - 12] => DataOf(b, o - 1)
  /\ \A h \in 12 .. o - 1 : "type" \in DOMAIN b[h - 11] => h + 10 + b[h - 11].length <= o

OutsideData(b, p, o) ==
  \A h \in 12 .. 11 + Len(b) : "type" \in DOMAIN b[h - 11] /\ h + 10 <= p => h < o

LEMMA NotData ==
  ASSUME NEW b, NEW o \in Nat, NEW p \in Nat, Sound(b, o), o <= p, OutsideData(b, p, o),
         \A h \in 12 .. 11 + Len(b) : "type" \in DOMAIN b[h - 11] => b[h - 11].length \in Nat
  PROVE  ~ DataOf(b, p)
<1>1. ASSUME NEW h \in 12 .. 11 + Len(b), "type" \in DOMAIN b[h - 11],
             p \in h + 10 .. h + 9 + b[h - 11].length
      PROVE  FALSE
  <2>1. PICK z \in Nat : z = b[h - 11].length
    BY <1>1
  <2>2. h \in Nat /\ 12 <= h /\ h + 10 <= p /\ p <= h + 9 + z
    BY <2>1, <1>1
  <2>3. h < o
    BY <2>2, <1>1 DEF OutsideData
  <2>4. h \in 12 .. o - 1
    BY <2>2, <2>3
  <2>5. h + 10 + z <= o
    BY <2>1, <2>4, <1>1 DEF Sound
  <2> QED BY <2>2, <2>5
<1> QED BY <1>1 DEF DataOf

LEMMA HeadLengths ==
  ASSUME NEW b \in Seq(DnsOctet)
  PROVE  \A h \in 12 .. 11 + Len(b) : "type" \in DOMAIN b[h - 11] => b[h - 11].length \in Nat
<1>1. ASSUME NEW x \in DnsOctet, "type" \in DOMAIN x PROVE x.length \in Nat
  <2>1. x \in [type : Dns!Type, length : Nat]
    <3>1. "type" \notin DOMAIN Inside
      BY DEF Inside
    <3>2. \/ x = Inside
          \/ x \in [label : Labels] \/ x \in [root : {TRUE}] \/ x \in [pointer : Nat]
          \/ x \in [question : {TRUE}] \/ x \in [text : Names, size : Nat]
          \/ x \in [type : Dns!Type, length : Nat] \/ x \in [address : Names]
          \/ x \in [preference : {1}] \/ x \in [numbers : {5}] \/ x \in [opaque : Names]
      BY DEF DnsOctet
    <3>3. ASSUME NEW fields, "type" \notin fields, DOMAIN x = fields PROVE FALSE
      BY <1>1, <3>3
    <3>4. /\ x \notin [label : Labels]
          /\ x \notin [root : {TRUE}]
          /\ x \notin [pointer : Nat]
          /\ x \notin [question : {TRUE}]
          /\ x \notin [text : Names, size : Nat]
          /\ x \notin [address : Names]
          /\ x \notin [preference : {1}]
          /\ x \notin [numbers : {5}]
          /\ x \notin [opaque : Names]
      <4>1. x \notin [label : Labels]
        <5>1. x \in [label : Labels] => DOMAIN x = {"label"}
          OBVIOUS
        <5>2. "type" \notin {"label"}
          OBVIOUS
        <5> QED BY <5>1, <5>2, <3>3
      <4>2. x \notin [root : {TRUE}]
        <5>1. x \in [root : {TRUE}] => DOMAIN x = {"root"}
          OBVIOUS
        <5>2. "type" \notin {"root"}
          OBVIOUS
        <5> QED BY <5>1, <5>2, <3>3
      <4>3. x \notin [pointer : Nat]
        <5>1. x \in [pointer : Nat] => DOMAIN x = {"pointer"}
          OBVIOUS
        <5>2. "type" \notin {"pointer"}
          OBVIOUS
        <5> QED BY <5>1, <5>2, <3>3
      <4>4. x \notin [question : {TRUE}]
        <5>1. x \in [question : {TRUE}] => DOMAIN x = {"question"}
          OBVIOUS
        <5>2. "type" \notin {"question"}
          OBVIOUS
        <5> QED BY <5>1, <5>2, <3>3
      <4>5. x \notin [text : Names, size : Nat]
        <5>1. x \in [text : Names, size : Nat] => DOMAIN x = {"text", "size"}
          OBVIOUS
        <5>2. "type" \notin {"text", "size"}
          OBVIOUS
        <5> QED BY <5>1, <5>2, <3>3
      <4>6. x \notin [address : Names]
        <5>1. x \in [address : Names] => DOMAIN x = {"address"}
          OBVIOUS
        <5>2. "type" \notin {"address"}
          OBVIOUS
        <5> QED BY <5>1, <5>2, <3>3
      <4>7. x \notin [preference : {1}]
        <5>1. x \in [preference : {1}] => DOMAIN x = {"preference"}
          OBVIOUS
        <5>2. "type" \notin {"preference"}
          OBVIOUS
        <5> QED BY <5>1, <5>2, <3>3
      <4>8. x \notin [numbers : {5}]
        <5>1. x \in [numbers : {5}] => DOMAIN x = {"numbers"}
          OBVIOUS
        <5>2. "type" \notin {"numbers"}
          OBVIOUS
        <5> QED BY <5>1, <5>2, <3>3
      <4>9. x \notin [opaque : Names]
        <5>1. x \in [opaque : Names] => DOMAIN x = {"opaque"}
          OBVIOUS
        <5>2. "type" \notin {"opaque"}
          OBVIOUS
        <5> QED BY <5>1, <5>2, <3>3
      <4> QED BY <4>1, <4>2, <4>3, <4>4, <4>5, <4>6, <4>7, <4>8, <4>9
    <3>5. x # Inside
      BY <3>1, <1>1
    <3> QED BY <3>2, <3>4, <3>5, Zenon
  <2> QED BY <2>1
<1>2. ASSUME NEW h \in 12 .. 11 + Len(b) PROVE b[h - 11] \in DnsOctet
  <2>1. h - 11 \in 1 .. Len(b)
    OBVIOUS
  <2> QED BY <2>1
<1> QED BY <1>1, <1>2

\* A name is where a cut may make the parser panic.
LEMMA NameCut ==
  ASSUME NEW S, NEW data \in Seq(S), NEW b \in Seq(DnsOctet), NEW known, NEW ends,
         Known(b, known, ends), NEW m, HoldsBody(data, b, m), NEW name, NEW o \in Nat, 12 <= o,
         NEW e \in Nat, NameAt(b, known, ends, o, name, e), o < e, Without("type", b, o, e), e <= 12 + Len(b),
         Sound(b, o), o <= 12 + m, e > 12 + m
  PROVE  Dns!ParseName(data, o) = Cut(b, m)
<1>1. PICK l \in Nat : l = Len(b) /\ m \in Nat /\ m <= l
  BY DEF HoldsBody
<1>2. Dns!ParseName(data, o) = IF o < 12 + m /\ "pointer" \in DOMAIN b[m] THEN Panic ELSE Err
  BY NameReads, ParseNameReads DEF Reads
<1>3. CASE o = 12 + m
  <2>1. o > 12 <=> m > 0
    BY <1>1, <1>3
  <2>2. o - 12 = m /\ o - 1 = 11 + m /\ ~ (o < 12 + m)
    BY <1>1, <1>3
  <2> QED BY <2>1, <2>2, <1>2 DEF Cut, Sound
<1>4. CASE o # 12 + m
  <2>1. o <= 11 + m /\ m > 0 /\ 11 + m \in Nat /\ o < 12 + m
    BY <1>1, <1>4
  <2>2. ASSUME NEW h \in 12 .. 11 + Len(b), "type" \in DOMAIN b[h - 11], h + 10 <= 11 + m PROVE h < o
    <3>1. ~ (h \in o .. e - 1)
      BY <2>2 DEF Without
    <3> QED BY <3>1, <2>2, <1>1
  <2>3. ~ DataOf(b, 11 + m)
    <3>1. OutsideData(b, 11 + m, o)
      BY <2>2 DEF OutsideData
    <3> QED BY <3>1, <2>1, NotData, HeadLengths
  <2> QED BY <2>1, <2>3, <1>2 DEF Cut
<1> QED BY <1>3, <1>4

LEMMA QuestionReads ==
  ASSUME NEW S, NEW data \in Seq(S), NEW b \in Seq(DnsOctet), NEW known, NEW ends,
         Known(b, known, ends), NEW m, HoldsBody(data, b, m), NEW name, NEW o \in Nat, 12 <= o,
         NEW next \in Nat, QuestionAt(b, known, ends, name, o, next), Sound(b, o)
  PROVE  ItemReads(Dns!ParseQuestion(data, o), b, m, name, o, next) /\ Sound(b, next) /\ o < next
<1>1. PICK e \in Nat : /\ NameAt(b, known, ends, o, name, e) /\ o < e
                       /\ next = e + 4 /\ next <= 12 + Len(b)
                       /\ Without("type", b, o, next) /\ Without("pointer", b, e - 1, next)
  BY DEF QuestionAt
<1>2. PICK l \in Nat, n \in Nat : l = Len(b) /\ n = Len(data)
  OBVIOUS
<1>3. m \in Nat /\ m <= l /\ 12 + m <= n /\ (m = l \/ n = 12 + m)
  BY <1>2 DEF HoldsBody
<1>4. ASSUME e <= 12 + m
      PROVE  Dns!ParseQuestion(data, o) = IF e + 4 > n THEN Err ELSE Parsed(name, e + 4)
  <2>1. Dns!ParseName(data, o) = Parsed(name, e)
    BY <1>1, <1>4, NameIsRead
  <2>2. /\ Dns!ParseName(data, o).ok /\ Dns!ParseName(data, o).value = name
        /\ Dns!ParseName(data, o).next = e
    BY <2>1, Results
  <2> QED BY <2>2, <1>2, DnsOctets DEF Dns!ParseQuestion, Dns!Then
<1>5. ASSUME next <= 12 + m PROVE Dns!ParseQuestion(data, o) = Parsed(name, next)
  <2>1. e <= 12 + m /\ ~ (e + 4 > n)
    BY <1>1, <1>3, <1>5
  <2> QED BY <2>1, <1>1, <1>4
<1>6. ASSUME o <= 12 + m, next > 12 + m PROVE Dns!ParseQuestion(data, o) = Cut(b, m)
  <2>0. n = 12 + m
    BY <1>1, <1>2, <1>3, <1>6
  <2>1. CASE e > 12 + m
    <3>1. Without("type", b, o, e) /\ e <= 12 + Len(b)
      <4>1. \A p \in o .. e - 1 : p \in o .. next - 1
        BY <1>1
      <4>2. e <= 12 + l
        BY <1>1, <1>2
      <4> QED BY <4>1, <4>2, <1>1, <1>2 DEF Without
    <3>2. Dns!ParseName(data, o) = Cut(b, m)
      BY <3>1, <2>1, <1>1, <1>6, NameCut
    <3>3. ~ Dns!ParseName(data, o).ok
      BY <3>2, Results DEF Cut
    <3> QED BY <3>2, <3>3 DEF Dns!ParseQuestion, Dns!Then
  <2>2. CASE e <= 12 + m
    <3>1. Dns!ParseQuestion(data, o) = Err
      BY <2>0, <2>2, <1>1, <1>4, <1>6
    <3>2. 11 + m \in e - 1 .. next - 1 /\ (11 + m) - 11 = m
      BY <2>2, <1>1, <1>3, <1>6
    <3>3. "pointer" \notin DOMAIN b[m]
      BY <3>2, <1>1 DEF Without
    <3> QED BY <3>1, <3>3 DEF Cut
  <2> QED BY <2>1, <2>2, <1>3
<1>7. Sound(b, next)
  <2>1. "pointer" \notin DOMAIN b[next - 12]
    <3>1. next - 1 \in e - 1 .. next - 1 /\ (next - 1) - 11 = next - 12
      BY <1>1
    <3> QED BY <3>1, <1>1 DEF Without
  <2>2. ASSUME NEW h \in 12 .. next - 1, "type" \in DOMAIN b[h - 11]
        PROVE  h + 10 + b[h - 11].length <= next
    <3>1. ~ (h \in o .. next - 1)
      BY <2>2, <1>1 DEF Without
    <3>2. h \in 12 .. o - 1
      BY <3>1
    <3>3. h + 10 + b[h - 11].length <= o
      BY <3>2, <2>2 DEF Sound
    <3>4. b[h - 11].length \in Nat
      <4>1. h \in 12 .. 11 + Len(b)
        BY <1>1, <1>2
      <4> QED BY <4>1, <2>2, HeadLengths
    <3> QED BY <3>3, <3>4, <1>1
  <2> QED BY <2>1, <2>2 DEF Sound
<1> QED BY <1>1, <1>5, <1>6, <1>7 DEF ItemReads

LEMMA RecordReads ==
  ASSUME NEW S, NEW data \in Seq(S), NEW b \in Seq(DnsOctet), NEW known, NEW ends,
         Known(b, known, ends), NEW m, HoldsBody(data, b, m), NEW record \in Record, NEW o \in Nat, 12 <= o,
         NEW next \in Nat, RecordAt(b, known, ends, record, o, next), Sound(b, o)
  PROVE  ItemReads(Dns!ParseRecord(data, o), b, m, record, o, next) /\ Sound(b, next) /\ o < next
<1>1. PICK e \in Nat : \E length \in Nat \ {0} : \E name \in Names :
    /\ NameAt(b, known, ends, o, record.name, e) /\ o < e
    /\ b[e - 11] = [type |-> record.type, length |-> length]
    /\ next = (e + 10) + length /\ next <= 12 + Len(b)
    /\ record.data = Dns!Says(record.type, name)
    /\ DataAt(b, known, ends, record.type, name, e + 10, length)
    /\ Without("type", b, o, e) /\ Without("type", b, e + 1, next)
    /\ Without("pointer", b, e - 1, e + 10)
  BY DEF RecordAt
<1>2. PICK length \in Nat \ {0} : \E name \in Names :
    /\ NameAt(b, known, ends, o, record.name, e) /\ o < e
    /\ b[e - 11] = [type |-> record.type, length |-> length]
    /\ next = (e + 10) + length /\ next <= 12 + Len(b)
    /\ record.data = Dns!Says(record.type, name)
    /\ DataAt(b, known, ends, record.type, name, e + 10, length)
    /\ Without("type", b, o, e) /\ Without("type", b, e + 1, next)
    /\ Without("pointer", b, e - 1, e + 10)
  BY <1>1
<1>3. PICK name \in Names :
    /\ NameAt(b, known, ends, o, record.name, e) /\ o < e
    /\ b[e - 11] = [type |-> record.type, length |-> length]
    /\ next = (e + 10) + length /\ next <= 12 + Len(b)
    /\ record.data = Dns!Says(record.type, name)
    /\ DataAt(b, known, ends, record.type, name, e + 10, length)
    /\ Without("type", b, o, e) /\ Without("type", b, e + 1, next)
    /\ Without("pointer", b, e - 1, e + 10)
  BY <1>2
<1>4. PICK l \in Nat, n \in Nat : l = Len(b) /\ n = Len(data)
  OBVIOUS
<1>5. /\ m \in Nat /\ m <= l /\ 12 + m <= n /\ (m = l \/ n = 12 + m)
      /\ \A p \in 12 .. 11 + m : data[p + 1] = b[p - 11]
  BY <1>4 DEF HoldsBody
<1>6. e <= 12 + l /\ next <= 12 + l /\ e < next
  BY SMTT(30), <1>3, <1>4
\* The data begins where the fixed part of the record ends.
<1>7. PICK d \in Nat : d = e + 10 /\ next = d + length /\ 12 <= d
  BY <1>3
<1>14. o < e /\ 12 <= e
  BY <1>3
<1>8. ASSUME e <= 12 + m
      PROVE  /\ Dns!ParseName(data, o).ok /\ Dns!ParseName(data, o).value = record.name
             /\ Dns!ParseName(data, o).next = e
  <2>1. Dns!ParseName(data, o) = Parsed(record.name, e)
    BY <1>3, <1>8, NameIsRead
  <2> QED BY <2>1, Results
<1>9. ASSUME d <= 12 + m PROVE data[e + 1].type = record.type /\ data[e + 1].length = length
  <2>1. e \in 12 .. 11 + m
    BY SMTT(30), <1>5, <1>7, <1>9, <1>14
  <2>2. data[e + 1] = [type |-> record.type, length |-> length]
    BY <2>1, <1>3, <1>5
  <2> QED BY <2>2
<1>10. ASSUME next <= 12 + m PROVE Dns!ParseRecord(data, o) = Parsed(record, next)
  <2>1. /\ e <= 12 + m /\ d <= 12 + m /\ d + length <= 12 + m
        /\ ~ (d > n) /\ ~ (d + length > n)
    BY SMTT(30), <1>5, <1>7, <1>10
  <2>2. PICK x : Dns!ParseData(data, d, record.type, length) = Parsed(record.data, x)
    <3>1. DataAt(b, known, ends, record.type, name, d, length) /\ length \in Nat /\ length > 0
      BY <1>3, <1>7
    <3>2. DataIsRead(data, record.type, name, d, length)
      BY <2>1, <3>1, <1>7, DataReads
    <3> QED BY <3>2, <1>3 DEF DataIsRead
  <2>3. /\ Dns!ParseData(data, d, record.type, length).ok
        /\ Dns!ParseData(data, d, record.type, length).value = record.data
    BY <2>2, Results
  <2>4. Dns!ParseRecord(data, o)
          = Dns!Parsed([name |-> record.name, type |-> record.type, data |-> record.data], d + length)
    BY <2>1, <2>3, <1>4, <1>7, <1>8, <1>9 DEF Dns!ParseRecord, Dns!Then
  <2>5. [name |-> record.name, type |-> record.type, data |-> record.data] = record
    BY DEF Record
  <2> QED BY <2>4, <2>5, <1>7, DnsOctets
<1>11. ASSUME o <= 12 + m, next > 12 + m PROVE Dns!ParseRecord(data, o) = Cut(b, m)
  <2>0. n = 12 + m
    BY <1>4, <1>5, <1>6, <1>11
  <2>1. CASE e > 12 + m
    <3>1. Without("type", b, o, e) /\ e <= 12 + Len(b)
      BY <1>3, <1>4, <1>6
    <3>2. Dns!ParseName(data, o) = Cut(b, m)
      BY SMTT(30), <3>1, <2>1, <1>3, <1>11, NameCut
    <3>3. ~ Dns!ParseName(data, o).ok
      BY <3>2, Results DEF Cut
    <3> QED BY <3>2, <3>3 DEF Dns!ParseRecord, Dns!Then
  <2>2. CASE e <= 12 + m /\ d > 12 + m
    <3>1. e + 10 > Len(data)
      BY <2>0, <2>2, <1>4, <1>7
    <3>2. Dns!ParseRecord(data, o) = Err
      BY <2>2, <3>1, <1>8, DnsOctets DEF Dns!ParseRecord, Dns!Then
    <3>3. 11 + m \in e - 1 .. (e + 10) - 1 /\ (11 + m) - 11 = m
      BY <2>2, <1>3, <1>5, <1>7
    <3>4. "pointer" \notin DOMAIN b[m]
      BY <3>3, <1>3 DEF Without
    <3> QED BY <3>2, <3>4 DEF Cut
  <2>3. CASE d <= 12 + m
    <3>1. e <= 12 + m /\ ~ (d > n) /\ d + length > n
      BY <2>0, <2>3, <1>5, <1>7, <1>11
    <3>2. Dns!ParseRecord(data, o) = Err
      BY <3>1, <2>3, <1>4, <1>7, <1>8, <1>9, DnsOctets DEF Dns!ParseRecord, Dns!Then
    <3>3. CASE d = 12 + m
      <4>1. 11 + m \in e - 1 .. (e + 10) - 1 /\ (11 + m) - 11 = m
        BY <3>3, <1>3, <1>5, <1>7
      <4>2. "pointer" \notin DOMAIN b[m]
        BY <4>1, <1>3 DEF Without
      <4> QED BY <3>2, <4>2 DEF Cut
    <3>4. CASE d # 12 + m
      <4>1. e \in 12 .. 11 + Len(b) /\ 11 + m \in e + 10 .. e + 9 + length
          <5>1. e <= 11 + l /\ 12 + m >= e + 10 /\ 12 + m < e + 10 + length /\ 12 + m # e + 10
          BY <3>4, <2>3, <1>6, <1>7, <1>11
        <5>2. 11 + m \in e + 10 .. e + 9 + length
          BY <5>1, <1>5, <1>14
        <5>3. e \in 12 .. 11 + Len(b)
          BY <5>1, <1>4, <1>14
        <5> QED BY <5>2, <5>3
      <4>2. "type" \in DOMAIN b[e - 11] /\ b[e - 11].length = length
        BY <1>3
      <4>3. DataOf(b, 11 + m)
        BY <4>1, <4>2 DEF DataOf
      <4> QED BY <3>2, <4>3 DEF Cut
    <3> QED BY <3>3, <3>4
  <2> QED BY <2>1, <2>2, <2>3, <1>5, <1>7
<1>12. Sound(b, next)
  <2>1. DataOf(b, next - 1)
    <3>1. e \in 12 .. 11 + Len(b) /\ next - 1 \in e + 10 .. e + 9 + length
      BY <1>3, <1>4, <1>6, <1>7
    <3>2. "type" \in DOMAIN b[e - 11] /\ b[e - 11].length = length
      BY <1>3
    <3> QED BY <3>1, <3>2 DEF DataOf
  <2>2. ASSUME NEW h \in 12 .. next - 1, "type" \in DOMAIN b[h - 11]
        PROVE  h + 10 + b[h - 11].length <= next
    <3>1. CASE h = e
      <4>1. b[h - 11].length = length
        BY <3>1, <1>3
      <4> QED BY <3>1, <4>1, <1>7
    <3>2. CASE h # e
      <4>1. ~ (h \in o .. e - 1) /\ ~ (h \in e + 1 .. next - 1)
        BY <2>2, <1>3 DEF Without
      <4>2. h \in 12 .. o - 1
        BY <4>1, <3>2, <1>14
      <4>3. h + 10 + b[h - 11].length <= o
        BY <4>2, <2>2 DEF Sound
      <4>4. b[h - 11].length \in Nat
        <5>1. h \in 12 .. 11 + Len(b)
          BY <1>4, <1>6
        <5> QED BY <5>1, <2>2, HeadLengths
      <4> QED BY SMTT(30), <4>3, <4>4, <1>6, <1>14
    <3> QED BY <3>1, <3>2
  <2> QED BY <2>1, <2>2 DEF Sound
<1>13. o < next
  BY <1>3, <1>6
<1> QED BY <1>10, <1>11, <1>12, <1>13 DEF ItemReads

--------------------------------------------------------------------------------
(***************************************************************************)
(* How it reads lists of them.                                             *)
(***************************************************************************)
\* What the loop has made of the first n of list, which begin at at[0], at[1] ...
Upto(b, m, list, at, n) ==
  IF at[n] <= 12 + m THEN Parsed(SubSeq(list, 1, n), at[n]) ELSE Cut(b, m)

NextRead(before, result) ==
  IF result.ok THEN Parsed(Append(before, result.value), result.next) ELSE result

\* results[o] is what is made of the item at offset o.
ItemsRead(results, b, m, list, at) ==
  \A i \in 1 .. Len(list) : Sound(b, at[i - 1]) =>
    /\ ItemReads(results[at[i - 1]], b, m, list[i], at[i - 1], at[i])
    /\ Sound(b, at[i]) /\ at[i - 1] < at[i]

RoundsRead(results, b, m, list, at) ==
  \A n \in 1 .. Len(list) :
    /\ at[n - 1] <= 12 + m => NextRead(SubSeq(list, 1, n - 1), results[at[n - 1]]) = Upto(b, m, list, at, n)
    /\ at[n - 1] > 12 + m => Upto(b, m, list, at, n) = Cut(b, m)

LEMMA ListRounds ==
  ASSUME NEW V, NEW list \in Seq(V), NEW b, NEW m \in Nat, NEW at \in [0 .. Len(list) -> Place],
         NEW results, ItemsRead(results, b, m, list, at), Sound(b, at[0])
  PROVE  /\ RoundsRead(results, b, m, list, at)
         /\ Sound(b, at[Len(list)]) /\ at[0] <= at[Len(list)]
<1>1. PICK k \in Nat : k = Len(list)
  OBVIOUS
<1>2. /\ at \in [0 .. k -> Place] /\ Place \subseteq Nat
      /\ \A i \in 1 .. k : Sound(b, at[i - 1]) =>
           /\ ItemReads(results[at[i - 1]], b, m, list[i], at[i - 1], at[i])
           /\ Sound(b, at[i]) /\ at[i - 1] < at[i]
  BY <1>1 DEF ItemsRead, Place
<1> DEFINE T == {n \in Nat : n <= k => Sound(b, at[n]) /\ at[0] <= at[n]}
<1>3. \A n \in Nat : n \in T
  <2>1. 0 \in T
    <3>1. at[0] \in Nat
      BY <1>2
    <3> QED BY <3>1
  <2>2. ASSUME NEW n \in Nat, n \in T, n + 1 <= k PROVE Sound(b, at[n + 1]) /\ at[0] <= at[n + 1]
    <3>1. n + 1 \in 1 .. k /\ (n + 1) - 1 = n /\ Sound(b, at[n]) /\ at[0] <= at[n]
      BY <2>2
    <3>2. Sound(b, at[n + 1]) /\ at[n] < at[n + 1]
      <4> PICK j \in 1 .. k : j = n + 1 /\ j - 1 = n
        BY <3>1
      <4> QED BY <3>1, <1>2
    <3>3. at[0] \in Nat /\ at[n] \in Nat /\ at[n + 1] \in Nat
      <4>1. 0 \in 0 .. k /\ n \in 0 .. k /\ n + 1 \in 0 .. k
        BY <2>2
      <4> QED BY <4>1, <1>2
    <3> QED BY <3>1, <3>2, <3>3
  <2> HIDE DEF T
  <2>3. \A n \in Nat : n \in T => n + 1 \in T
    BY <2>2 DEF T
  <2> QED BY <2>1, <2>3, Induction
<1>4. ASSUME NEW n \in 1 .. k
      PROVE  /\ at[n - 1] <= 12 + m => NextRead(SubSeq(list, 1, n - 1), results[at[n - 1]]) = Upto(b, m, list, at, n)
             /\ at[n - 1] > 12 + m => Upto(b, m, list, at, n) = Cut(b, m)
  <2>1. PICK o \in Nat, next \in Nat : o = at[n - 1] /\ next = at[n]
    <3>1. n - 1 \in 0 .. k /\ n \in 0 .. k
      OBVIOUS
    <3> QED BY <3>1, <1>2
  <2>2. Sound(b, at[n - 1])
    <3>1. n - 1 \in Nat /\ n - 1 <= k
      OBVIOUS
    <3>2. n - 1 \in T
      BY <3>1, <1>3
    <3> QED BY <3>1, <3>2
  <2>3. ItemReads(results[o], b, m, list[n], o, next) /\ o < next
    BY <2>1, <2>2, <1>2
  <2>4. CASE next <= 12 + m
    <3>1. results[o] = Parsed(list[n], next)
      BY <2>3, <2>4 DEF ItemReads
    <3>2. results[o].ok = TRUE /\ results[o].value = list[n] /\ results[o].next = next
      BY <3>1, Results
    <3>3. Append(SubSeq(list, 1, n - 1), list[n]) = SubSeq(list, 1, n)
      BY <1>1
    <3>4. NextRead(SubSeq(list, 1, n - 1), results[o]) = Parsed(SubSeq(list, 1, n), next)
      BY <3>2, <3>3 DEF NextRead
    <3>5. Upto(b, m, list, at, n) = Parsed(SubSeq(list, 1, n), next)
      BY <2>1, <2>4 DEF Upto
    <3>6. ~ (o > 12 + m)
      BY <2>3, <2>4
    <3> QED BY <3>4, <3>5, <3>6, <2>1
  <2>5. CASE ~ (next <= 12 + m)
    <3>1. Upto(b, m, list, at, n) = Cut(b, m)
      BY <2>1, <2>5 DEF Upto
    <3>2. ASSUME o <= 12 + m PROVE NextRead(SubSeq(list, 1, n - 1), results[o]) = Cut(b, m)
      <4>1. next > 12 + m
        BY <2>5
      <4>2. results[o] = Cut(b, m)
        BY <3>2, <4>1, <2>3 DEF ItemReads
      <4>3. results[o].ok = FALSE
        BY <4>2, Results DEF Cut
      <4> QED BY <4>2, <4>3 DEF NextRead
    <3> QED BY <3>1, <3>2, <2>1
  <2> QED BY <2>4, <2>5
<1>5. k \in T
  BY <1>3
<1> QED BY <1>1, <1>4, <1>5 DEF RoundsRead

LEMMA SameUpTo ==
  ASSUME NEW k \in Nat, NEW f, NEW g, f[0] = g[0],
         \A n \in 1 .. k : f[n - 1] = g[n - 1] => f[n] = g[n]
  PROVE  f[k] = g[k]
<1> DEFINE T == {n \in Nat : n <= k => f[n] = g[n]}
<1>1. 0 \in T
  OBVIOUS
<1>2. ASSUME NEW n \in Nat, n \in T, n + 1 <= k PROVE f[n + 1] = g[n + 1]
  <2>1. PICK j \in 1 .. k : j = n + 1 /\ j - 1 = n
    BY <1>2
  <2>2. f[j - 1] = g[j - 1]
    BY <2>1, <1>2
  <2> QED BY <2>1, <2>2
<1> HIDE DEF T
<1>3. \A n \in Nat : n \in T => n + 1 \in T
  BY <1>2 DEF T
<1>4. k \in T
  BY <1>1, <1>3, Induction
<1> QED BY <1>4 DEF T

LEMMA QuestionsRead ==
  ASSUME NEW S, NEW data \in Seq(S), NEW b \in Seq(DnsOctet), NEW known, NEW ends,
         Known(b, known, ends), NEW m, HoldsBody(data, b, m), NEW list \in Seq(Names),
         NEW from \in Nat, NEW to, QuestionsAt(b, known, ends, list, from, to), Sound(b, from)
  PROVE  /\ ItemReads(Dns!ParseAll(Dns!ParseQuestion, data, Len(list), from), b, m, list, from, to)
         /\ Sound(b, to) /\ from <= to /\ to \in Nat /\ 12 <= from
<1>1. PICK k \in Nat : k = Len(list)
  OBVIOUS
<1>2. PICK at \in [0 .. k -> Place] :
        /\ at[0] = from /\ at[k] = to
        /\ \A i \in 1 .. k : QuestionAt(b, known, ends, list[i], at[i - 1], at[i])
  BY <1>1 DEF QuestionsAt
<1>3. m \in Nat
  BY DEF HoldsBody
<1>4. at[0] \in Place /\ at[k] \in Place
  OBVIOUS
<1> DEFINE results == [o \in Nat |-> Dns!ParseQuestion(data, o)]
<1>5. ASSUME NEW i \in 1 .. k, Sound(b, at[i - 1])
      PROVE  /\ ItemReads(results[at[i - 1]], b, m, list[i], at[i - 1], at[i])
             /\ Sound(b, at[i]) /\ at[i - 1] < at[i]
  <2>1. PICK o \in Nat, next \in Nat : o = at[i - 1] /\ next = at[i] /\ 12 <= o
    <3>1. i - 1 \in 0 .. k /\ i \in 0 .. k
      OBVIOUS
    <3>2. at[i - 1] \in Place /\ at[i] \in Place
      BY <3>1
    <3> QED BY <3>2 DEF Place
  <2>2. QuestionAt(b, known, ends, list[i], o, next) /\ Sound(b, o)
    BY <2>1, <1>2, <1>5
  <2>3. ItemReads(Dns!ParseQuestion(data, o), b, m, list[i], o, next) /\ Sound(b, next) /\ o < next
    BY <2>1, <2>2, QuestionReads
  <2>4. results[o] = Dns!ParseQuestion(data, o)
    OBVIOUS
  <2> HIDE DEF results
  <2> QED BY <2>1, <2>3, <2>4
<1>6. /\ RoundsRead(results, b, m, list, at)
      /\ Sound(b, to) /\ from <= to
  <2>1. ItemsRead(results, b, m, list, at)
    BY <1>1, <1>5 DEF ItemsRead
  <2> HIDE DEF results
  <2> QED BY <2>1, <1>1, <1>2, <1>3, ListRounds
<1> DEFINE F(h, n) ==
      IF n = 0 THEN Dns!Parsed(<< >>, from)
      ELSE Dns!Then(h[n - 1], LAMBDA before, o :
             Dns!Then(Dns!ParseQuestion(data, o), LAMBDA value, next :
               Dns!Parsed(Append(before, value), next)))
    g == [n \in 0 .. k |-> Upto(b, m, list, at, n)]
<1>7. ASSUME from <= 12 + m
      PROVE  Dns!ParseAll(Dns!ParseQuestion, data, k, from) = Upto(b, m, list, at, k)
  <2>1. ASSUME NEW h PROVE F(h, 0) = g[0]
    <3>1. SubSeq(list, 1, 0) = << >>
      OBVIOUS
    <3>2. Upto(b, m, list, at, 0) = Parsed(<< >>, from)
      BY <3>1, <1>2, <1>7 DEF Upto
    <3> QED BY <3>2, DnsOctets
  <2>2. ASSUME NEW h, NEW n \in 1 .. k, h[n - 1] = g[n - 1] PROVE F(h, n) = g[n]
    <3>1. h[n - 1] = Upto(b, m, list, at, n - 1) /\ g[n] = Upto(b, m, list, at, n) /\ n # 0
      BY <2>2
    <3>2. PICK o \in Nat : o = at[n - 1]
      <4>1. n - 1 \in 0 .. k
        OBVIOUS
      <4> QED BY <4>1 DEF Place
    <3>3. CASE o <= 12 + m
      <4>1. h[n - 1] = Parsed(SubSeq(list, 1, n - 1), o)
        BY <3>1, <3>2, <3>3 DEF Upto
      <4> DEFINE before == SubSeq(list, 1, n - 1)
      <4>2. Parsed(before, o).ok = TRUE /\ Parsed(before, o).value = before /\ Parsed(before, o).next = o
        BY Results
      <4>3. F(h, n) = NextRead(before, Dns!ParseQuestion(data, o))
        <5>1. F(h, n) = Dns!Then(Parsed(before, o), LAMBDA old, start_ :
             Dns!Then(Dns!ParseQuestion(data, start_), LAMBDA value, next :
               Dns!Parsed(Append(old, value), next)))
          BY <3>1, <4>1, Zenon
        <5> HIDE DEF F, g, results, before
        <5> QED BY <5>1, <4>2, DnsOctets DEF Dns!Then, NextRead
      <4>4. results[o] = Dns!ParseQuestion(data, o)
        OBVIOUS
      <4> HIDE DEF F, g, results
      <4> QED BY <3>1, <3>2, <3>3, <4>3, <4>4, <1>1, <1>6 DEF RoundsRead
    <3>4. CASE ~ (o <= 12 + m)
      <4>1. o > 12 + m
        BY <3>4, <1>3
      <4>2. h[n - 1] = Cut(b, m)
        BY <3>1, <3>2, <3>4 DEF Upto
      <4>3. ~ h[n - 1].ok
        BY <4>2, Results DEF Cut
      <4>4. F(h, n) = Cut(b, m)
        BY <3>1, <4>2, <4>3 DEF Dns!Then
      <4> HIDE DEF F, g, results
      <4> QED BY <3>1, <3>2, <4>1, <4>4, <1>1, <1>6 DEF RoundsRead
    <3> QED BY <3>3, <3>4, Zenon
  <2>3. Dns!ParseAll(Dns!ParseQuestion, data, k, from) = (CHOOSE f : f = [n \in 0 .. k |-> F(f, n)])[k]
    BY DEF Dns!ParseAll
  <2>4. g = [n \in 0 .. k |-> g[n]]
    OBVIOUS
  <2>5. g[k] = Upto(b, m, list, at, k)
    OBVIOUS
  <2> HIDE DEF F, g
  <2>6. ASSUME NEW n \in 0 .. k PROVE F(g, n) = g[n]
    <3>1. n = 0 \/ n \in 1 .. k
      OBVIOUS
    <3> QED BY <3>1, <2>1, <2>2
  <2>7. g = [n \in 0 .. k |-> F(g, n)]
    BY <2>4, <2>6
  <2>8. PICK f : f = (CHOOSE x : x = [n \in 0 .. k |-> F(x, n)]) /\ f = [n \in 0 .. k |-> F(f, n)]
    BY <2>7
  <2>9. f[0] = g[0]
    <3>1. f[0] = F(f, 0)
      BY <2>8
    <3> QED BY <3>1, <2>1
  <2>10. ASSUME NEW n \in 1 .. k, f[n - 1] = g[n - 1] PROVE f[n] = g[n]
    <3>1. f[n] = F(f, n)
      BY <2>8
    <3> QED BY <3>1, <2>2, <2>10
  <2>11. f[k] = g[k]
    BY <2>9, <2>10, SameUpTo
  <2> QED BY <2>3, <2>5, <2>8, <2>11
<1>8. PICK z \in Nat : z = to /\ z = at[k] /\ from <= z /\ 12 <= from
  BY <1>2, <1>4, <1>6 DEF Place
<1>9. ASSUME to <= 12 + m
      PROVE  Dns!ParseAll(Dns!ParseQuestion, data, k, from) = Parsed(list, to)
  <2>1. from <= 12 + m /\ SubSeq(list, 1, k) = list
    BY <1>1, <1>3, <1>8, <1>9
  <2> QED BY <2>1, <1>2, <1>7, <1>9 DEF Upto
<1>10. ASSUME from <= 12 + m, to > 12 + m
       PROVE  Dns!ParseAll(Dns!ParseQuestion, data, k, from) = Cut(b, m)
  <2>1. ~ (to <= 12 + m)
    BY <1>3, <1>8, <1>10
  <2> QED BY <2>1, <1>2, <1>7, <1>10 DEF Upto
<1> QED BY <1>1, <1>6, <1>8, <1>9, <1>10 DEF ItemReads
LEMMA RecordsRead ==
  ASSUME NEW S, NEW data \in Seq(S), NEW b \in Seq(DnsOctet), NEW known, NEW ends,
         Known(b, known, ends), NEW m, HoldsBody(data, b, m), NEW list \in Seq(Record),
         NEW from \in Nat, NEW to, RecordsAt(b, known, ends, list, from, to), Sound(b, from)
  PROVE  /\ ItemReads(Dns!ParseAll(Dns!ParseRecord, data, Len(list), from), b, m, list, from, to)
         /\ Sound(b, to) /\ from <= to /\ to \in Nat /\ 12 <= from
<1>1. PICK k \in Nat : k = Len(list)
  OBVIOUS
<1>2. PICK at \in [0 .. k -> Place] :
        /\ at[0] = from /\ at[k] = to
        /\ \A i \in 1 .. k : RecordAt(b, known, ends, list[i], at[i - 1], at[i])
  BY <1>1 DEF RecordsAt
<1>3. m \in Nat
  BY DEF HoldsBody
<1>4. at[0] \in Place /\ at[k] \in Place
  OBVIOUS
<1> DEFINE results == [o \in Nat |-> Dns!ParseRecord(data, o)]
<1>5. ASSUME NEW i \in 1 .. k, Sound(b, at[i - 1])
      PROVE  /\ ItemReads(results[at[i - 1]], b, m, list[i], at[i - 1], at[i])
             /\ Sound(b, at[i]) /\ at[i - 1] < at[i]
  <2>1. PICK o \in Nat, next \in Nat : o = at[i - 1] /\ next = at[i] /\ 12 <= o
    <3>1. i - 1 \in 0 .. k /\ i \in 0 .. k
      OBVIOUS
    <3>2. at[i - 1] \in Place /\ at[i] \in Place
      BY <3>1
    <3> QED BY <3>2 DEF Place
  <2>2. RecordAt(b, known, ends, list[i], o, next) /\ Sound(b, o)
    BY <2>1, <1>2, <1>5
  <2> list[i] \in Record
    BY <1>1
  <2>3. ItemReads(Dns!ParseRecord(data, o), b, m, list[i], o, next) /\ Sound(b, next) /\ o < next
    BY <2>1, <2>2, RecordReads
  <2>4. results[o] = Dns!ParseRecord(data, o)
    OBVIOUS
  <2> HIDE DEF results
  <2> QED BY <2>1, <2>3, <2>4
<1>6. /\ RoundsRead(results, b, m, list, at)
      /\ Sound(b, to) /\ from <= to
  <2>1. ItemsRead(results, b, m, list, at)
    BY <1>1, <1>5 DEF ItemsRead
  <2> HIDE DEF results
  <2> QED BY <2>1, <1>1, <1>2, <1>3, ListRounds
<1> DEFINE F(h, n) ==
      IF n = 0 THEN Dns!Parsed(<< >>, from)
      ELSE Dns!Then(h[n - 1], LAMBDA before, o :
             Dns!Then(Dns!ParseRecord(data, o), LAMBDA value, next :
               Dns!Parsed(Append(before, value), next)))
    g == [n \in 0 .. k |-> Upto(b, m, list, at, n)]
<1>7. ASSUME from <= 12 + m
      PROVE  Dns!ParseAll(Dns!ParseRecord, data, k, from) = Upto(b, m, list, at, k)
  <2>1. ASSUME NEW h PROVE F(h, 0) = g[0]
    <3>1. SubSeq(list, 1, 0) = << >>
      OBVIOUS
    <3>2. Upto(b, m, list, at, 0) = Parsed(<< >>, from)
      BY <3>1, <1>2, <1>7 DEF Upto
    <3> QED BY <3>2, DnsOctets
  <2>2. ASSUME NEW h, NEW n \in 1 .. k, h[n - 1] = g[n - 1] PROVE F(h, n) = g[n]
    <3>1. h[n - 1] = Upto(b, m, list, at, n - 1) /\ g[n] = Upto(b, m, list, at, n) /\ n # 0
      BY <2>2
    <3>2. PICK o \in Nat : o = at[n - 1]
      <4>1. n - 1 \in 0 .. k
        OBVIOUS
      <4> QED BY <4>1 DEF Place
    <3>3. CASE o <= 12 + m
      <4>1. h[n - 1] = Parsed(SubSeq(list, 1, n - 1), o)
        BY <3>1, <3>2, <3>3 DEF Upto
      <4> DEFINE before == SubSeq(list, 1, n - 1)
      <4>2. Parsed(before, o).ok = TRUE /\ Parsed(before, o).value = before /\ Parsed(before, o).next = o
        BY Results
      <4>3. F(h, n) = NextRead(before, Dns!ParseRecord(data, o))
        <5>1. F(h, n) = Dns!Then(Parsed(before, o), LAMBDA old, start_ :
             Dns!Then(Dns!ParseRecord(data, start_), LAMBDA value, next :
               Dns!Parsed(Append(old, value), next)))
          BY <3>1, <4>1, Zenon
        <5> HIDE DEF F, g, results, before
        <5> QED BY <5>1, <4>2, DnsOctets DEF Dns!Then, NextRead
      <4>4. results[o] = Dns!ParseRecord(data, o)
        OBVIOUS
      <4> HIDE DEF F, g, results
      <4> QED BY <3>1, <3>2, <3>3, <4>3, <4>4, <1>1, <1>6 DEF RoundsRead
    <3>4. CASE ~ (o <= 12 + m)
      <4>1. o > 12 + m
        BY <3>4, <1>3
      <4>2. h[n - 1] = Cut(b, m)
        BY <3>1, <3>2, <3>4 DEF Upto
      <4>3. ~ h[n - 1].ok
        BY <4>2, Results DEF Cut
      <4>4. F(h, n) = Cut(b, m)
        BY <3>1, <4>2, <4>3 DEF Dns!Then
      <4> HIDE DEF F, g, results
      <4> QED BY <3>1, <3>2, <4>1, <4>4, <1>1, <1>6 DEF RoundsRead
    <3> QED BY <3>3, <3>4, Zenon
  <2>3. Dns!ParseAll(Dns!ParseRecord, data, k, from) = (CHOOSE f : f = [n \in 0 .. k |-> F(f, n)])[k]
    BY DEF Dns!ParseAll
  <2>4. g = [n \in 0 .. k |-> g[n]]
    OBVIOUS
  <2>5. g[k] = Upto(b, m, list, at, k)
    OBVIOUS
  <2> HIDE DEF F, g
  <2>6. ASSUME NEW n \in 0 .. k PROVE F(g, n) = g[n]
    <3>1. n = 0 \/ n \in 1 .. k
      OBVIOUS
    <3> QED BY <3>1, <2>1, <2>2
  <2>7. g = [n \in 0 .. k |-> F(g, n)]
    BY <2>4, <2>6
  <2>8. PICK f : f = (CHOOSE x : x = [n \in 0 .. k |-> F(x, n)]) /\ f = [n \in 0 .. k |-> F(f, n)]
    BY <2>7
  <2>9. f[0] = g[0]
    <3>1. f[0] = F(f, 0)
      BY <2>8
    <3> QED BY <3>1, <2>1
  <2>10. ASSUME NEW n \in 1 .. k, f[n - 1] = g[n - 1] PROVE f[n] = g[n]
    <3>1. f[n] = F(f, n)
      BY <2>8
    <3> QED BY <3>1, <2>2, <2>10
  <2>11. f[k] = g[k]
    BY <2>9, <2>10, SameUpTo
  <2> QED BY <2>3, <2>5, <2>8, <2>11
<1>8. PICK z \in Nat : z = to /\ z = at[k] /\ from <= z /\ 12 <= from
  BY <1>2, <1>4, <1>6 DEF Place
<1>9. ASSUME to <= 12 + m
      PROVE  Dns!ParseAll(Dns!ParseRecord, data, k, from) = Parsed(list, to)
  <2>1. from <= 12 + m /\ SubSeq(list, 1, k) = list
    BY <1>1, <1>3, <1>8, <1>9
  <2> QED BY <2>1, <1>2, <1>7, <1>9 DEF Upto
<1>10. ASSUME from <= 12 + m, to > 12 + m
       PROVE  Dns!ParseAll(Dns!ParseRecord, data, k, from) = Cut(b, m)
  <2>1. ~ (to <= 12 + m)
    BY <1>3, <1>8, <1>10
  <2> QED BY <2>1, <1>2, <1>7, <1>10 DEF Upto
<1> QED BY <1>1, <1>6, <1>8, <1>9, <1>10 DEF ItemReads

--------------------------------------------------------------------------------
(***************************************************************************)
(* How it reads a message, whole or cut.                                   *)
(***************************************************************************)
HeaderSays(data, asked, recs) ==
  data[1] = [questions |-> Len(asked), records |-> [s \in 1 .. 3 |-> Len(recs[s])]]

\* A list is read from offset o to offset next, or the message is cut in it.
WasRead(result, value, next) == result.ok = TRUE /\ result.value = value /\ result.next = next
WasCut(result, b, m) == result.ok = FALSE /\ result = Cut(b, m)

LEMMA ReadWhole ==
  ASSUME NEW result, NEW b, NEW m \in Nat, NEW value, NEW o \in Nat, NEW next \in Nat,
         ItemReads(result, b, m, value, o, next), next <= 12 + m
  PROVE  WasRead(result, value, next)
<1>1. result = Parsed(value, next)
  BY DEF ItemReads
<1> QED BY <1>1, Results DEF WasRead

LEMMA ReadCut ==
  ASSUME NEW result, NEW b, NEW m \in Nat, NEW value, NEW o \in Nat, NEW next \in Nat,
         ItemReads(result, b, m, value, o, next), o <= 12 + m, next > 12 + m
  PROVE  WasCut(result, b, m)
<1>1. result = Cut(b, m)
  BY DEF ItemReads
<1> QED BY <1>1, Results DEF Cut, WasCut

LEMMA MessageReads ==
  ASSUME NEW S, NEW data \in Seq(S), NEW b \in Seq(DnsOctet), NEW known, NEW ends,
         Known(b, known, ends), NEW m, HoldsBody(data, b, m), NEW asked \in Seq(Names),
         NEW recs \in [1 .. 3 -> Seq(Record)], Said(b, known, ends, asked, recs),
         HeaderSays(data, asked, recs)
  PROVE  ItemReads(Dns!ParseMessage(data), b, m, [questions |-> asked, records |-> recs], 12, 12 + Len(b))
<1>1. PICK at \in [0 .. 3 -> Place] :
        /\ QuestionsAt(b, known, ends, asked, 12, at[0])
        /\ \A s \in 1 .. 3 : RecordsAt(b, known, ends, recs[s], at[s - 1], at[s])
        /\ at[3] = 12 + Len(b)
  BY DEF Said
<1>2. PICK p0 \in Nat, p1 \in Nat, p2 \in Nat, p3 \in Nat :
        p0 = at[0] /\ p1 = at[1] /\ p2 = at[2] /\ p3 = at[3]
  BY DEF Place
<1>3. m \in Nat /\ 12 + m <= Len(data)
  BY DEF HoldsBody
<1> DEFINE Q == Dns!ParseAll(Dns!ParseQuestion, data, Len(asked), 12)
           R(s, o) == Dns!ParseAll(Dns!ParseRecord, data, Len(recs[s]), o)
           M4(q, r1, r2, r3, o) == Dns!Parsed([questions |-> q, records |-> <<r1, r2, r3>>], o)
           M3(q, r1, r2, o) == Dns!Then(R(3, o), LAMBDA r3, o4 : M4(q, r1, r2, r3, o4))
           M2(q, r1, o) == Dns!Then(R(2, o), LAMBDA r2, o3 : M3(q, r1, r2, o3))
           M1(q, o) == Dns!Then(R(1, o), LAMBDA r1, o2 : M2(q, r1, o2))
<1>4. Dns!ParseMessage(data) = Dns!Then(Q, LAMBDA q, o1 : M1(q, o1))
  <2>1. ~ (Len(data) < 12)
    BY <1>3
  <2>2. /\ data[1].questions = Len(asked)
        /\ data[1].records[1] = Len(recs[1])
        /\ data[1].records[2] = Len(recs[2])
        /\ data[1].records[3] = Len(recs[3])
    BY DEF HeaderSays
  <2> QED BY <2>1, <2>2 DEF Dns!ParseMessage
<1>5. ItemReads(Q, b, m, asked, 12, p0) /\ Sound(b, p0) /\ 12 <= p0
  <2>1. Sound(b, 12)
    BY DEF Sound
  <2>2. QuestionsAt(b, known, ends, asked, 12, p0)
    BY <1>1, <1>2
  <2> HIDE DEF M1
  <2> QED BY <2>1, <2>2, QuestionsRead
<1>6. ASSUME NEW s \in 1 .. 3, NEW o \in Nat, NEW next \in Nat, o = at[s - 1], next = at[s], Sound(b, o)
      PROVE  ItemReads(R(s, o), b, m, recs[s], o, next) /\ Sound(b, next) /\ o <= next
  <2>1. RecordsAt(b, known, ends, recs[s], o, next) /\ recs[s] \in Seq(Record)
    BY <1>1, <1>6
  <2> QED BY SMTT(30), <2>1, <1>6, RecordsRead
<1>7. ItemReads(R(1, p0), b, m, recs[1], p0, p1) /\ Sound(b, p1) /\ p0 <= p1
  BY SMTT(30), <1>2, <1>5, <1>6
<1>8. ItemReads(R(2, p1), b, m, recs[2], p1, p2) /\ Sound(b, p2) /\ p1 <= p2
  BY SMTT(30), <1>2, <1>7, <1>6
<1>9. ItemReads(R(3, p2), b, m, recs[3], p2, p3) /\ Sound(b, p3) /\ p2 <= p3
  BY SMTT(30), <1>2, <1>8, <1>6
<1>10. p0 <= p1 /\ p1 <= p2 /\ p2 <= p3 /\ 12 <= 12 + m
  BY <1>3, <1>7, <1>8, <1>9
<1>11. p3 = 12 + Len(b)
  BY <1>1, <1>2
<1>12. <<recs[1], recs[2], recs[3]>> = recs
  OBVIOUS
<1>13. CASE p3 <= 12 + m
  <2> HIDE DEF Q, R, M1, M2, M3, M4
  <2>1. p0 <= 12 + m /\ p1 <= 12 + m /\ p2 <= 12 + m
    BY <1>3, <1>10, <1>13
  <2>2. WasRead(Q, asked, p0)
    BY <1>3, <1>5, <1>10, <2>1, ReadWhole
  <2>3. WasRead(R(1, p0), recs[1], p1)
    BY <1>3, <1>7, <2>1, ReadWhole
  <2>4. WasRead(R(2, p1), recs[2], p2)
    BY <1>3, <1>8, <2>1, ReadWhole
  <2>5. WasRead(R(3, p2), recs[3], p3)
    BY <1>3, <1>9, <2>1, <1>13, ReadWhole
  <2>6. Dns!ParseMessage(data) = M1(asked, p0)
    BY <1>4, <2>2 DEF Dns!Then, WasRead, WasCut
  <2>7. M1(asked, p0) = M2(asked, recs[1], p1)
    BY <2>3 DEF Dns!Then, M1, WasRead, WasCut
  <2>8. M2(asked, recs[1], p1) = M3(asked, recs[1], recs[2], p2)
    BY <2>4 DEF Dns!Then, M2, WasRead, WasCut
  <2>9. M3(asked, recs[1], recs[2], p2) = M4(asked, recs[1], recs[2], recs[3], p3)
    BY <2>5 DEF Dns!Then, M3, WasRead, WasCut
  <2>10. M4(asked, recs[1], recs[2], recs[3], p3) = Parsed([questions |-> asked, records |-> recs], p3)
    BY <1>12, DnsOctets DEF M4
  <2>11. Dns!ParseMessage(data) = Parsed([questions |-> asked, records |-> recs], p3)
    BY <2>6, <2>7, <2>8, <2>9, <2>10
  <2> QED BY <2>11, <1>3, <1>11, <1>13 DEF ItemReads
<1>14. CASE p3 > 12 + m
  <2> HIDE DEF Q, R, M1, M2, M3, M4
  <2>1. Dns!ParseMessage(data) = Cut(b, m)
    <3>1. CASE p0 > 12 + m
      <4>1. WasCut(Q, b, m)
        BY <1>3, <1>5, <1>10, <3>1, ReadCut
      <4> QED BY <4>1, <1>4 DEF Dns!Then, WasRead, WasCut
    <3>2. CASE p0 <= 12 + m
      <4>1. WasRead(Q, asked, p0)
        BY <1>3, <1>5, <1>10, <3>2, ReadWhole
      <4>2. Dns!ParseMessage(data) = M1(asked, p0)
        BY <1>4, <4>1 DEF Dns!Then, WasRead, WasCut
      <4>3. CASE p1 > 12 + m
        <5>1. WasCut(R(1, p0), b, m)
          BY <1>3, <1>7, <3>2, <4>3, ReadCut
        <5> QED BY <5>1, <4>2 DEF Dns!Then, M1, WasRead, WasCut
      <4>4. CASE p1 <= 12 + m
        <5>1. WasRead(R(1, p0), recs[1], p1)
          BY <1>3, <1>7, <3>2, <4>4, ReadWhole
        <5>2. M1(asked, p0) = M2(asked, recs[1], p1)
          BY <5>1 DEF Dns!Then, M1, WasRead, WasCut
        <5>3. CASE p2 > 12 + m
          <6>1. WasCut(R(2, p1), b, m)
            BY <1>3, <1>8, <4>4, <5>3, ReadCut
          <6> QED BY <6>1, <4>2, <5>2 DEF Dns!Then, M2, WasRead, WasCut
        <5>4. CASE p2 <= 12 + m
          <6>1. WasRead(R(2, p1), recs[2], p2)
            BY <1>3, <1>8, <4>4, <5>4, ReadWhole
          <6>2. M2(asked, recs[1], p1) = M3(asked, recs[1], recs[2], p2)
            BY <6>1 DEF Dns!Then, M2, WasRead, WasCut
          <6>3. WasCut(R(3, p2), b, m)
            BY <1>3, <1>9, <5>4, <1>14, ReadCut
          <6> QED BY <1>3, <6>2, <6>3, <4>2, <5>2 DEF Dns!Then, M3, WasRead, WasCut
        <5> QED BY <1>3, <5>3, <5>4
      <4> QED BY <1>3, <4>3, <4>4
    <3> QED BY <1>3, <3>1, <3>2
  <2> QED BY <1>3, <2>1, <1>11, <1>14 DEF ItemReads
<1> QED BY <1>3, <1>13, <1>14

--------------------------------------------------------------------------------
(***************************************************************************)
(* How it reads a payload: over UDP the message, over TCP behind its       *)
(* length, and what a cut leaves of them.                                  *)
(***************************************************************************)
Header(asked, recs) == [questions |-> Len(asked), records |-> [s \in 1 .. 3 |-> Len(recs[s])]]

\* data has b behind its header.
HasHeader(data, head, b) ==
  /\ Len(data) = 12 + Len(b) /\ data[1] = head
  /\ \A i \in 2 .. 12 : data[i] = Inside
  /\ \A i \in 13 .. 12 + Len(b) : data[i] = b[i - 12]

LEMMA HeaderFirst ==
  ASSUME NEW S, NEW head \in S, Inside \in S, NEW b \in Seq(S)
  PROVE  Field(head, 12) \o b \in Seq(S) /\ HasHeader(Field(head, 12) \o b, head, b)
<1> DEFINE h == Field(head, 12)
           c == h \o b
<1>1. h \in Seq(S) /\ Len(h) = 12 /\ \A i \in 1 .. 12 : h[i] = IF i = 1 THEN head ELSE Inside
  <2>1. \A i \in 1 .. 12 : (IF i = 1 THEN head ELSE Inside) \in S
    OBVIOUS
  <2> HIDE DEF c
  <2> QED BY <2>1 DEF Field
<1> HIDE DEF h
<1>2. /\ c \in Seq(S) /\ Len(c) = Len(h) + Len(b)
      /\ \A j \in 1 .. Len(h) : c[j] = h[j]
      /\ \A j \in 1 .. Len(b) : c[Len(h) + j] = b[j]
  <2>1. h \in Seq(S)
    BY <1>1
  <2> QED BY <2>1, Concatenation
<1> HIDE DEF c
<1>3. c[1] = head /\ \A i \in 2 .. 12 : c[i] = Inside
  <2>1. 1 \in 1 .. 12 /\ \A i \in 2 .. 12 : i \in 1 .. 12 /\ i # 1
    OBVIOUS
  <2> QED BY <2>1, <1>1, <1>2
<1>4. ASSUME NEW i \in 13 .. 12 + Len(b) PROVE c[i] = b[i - 12]
  <2>1. i - 12 \in 1 .. Len(b) /\ 12 + (i - 12) = i
    OBVIOUS
  <2> QED BY <2>1, <1>1, <1>2
<1>5. HasHeader(c, head, b)
  BY <1>1, <1>2, <1>3, <1>4 DEF HasHeader
<1> QED BY <1>2, <1>5 DEF c, h

LEMMA Opaques ==
  ASSUME NEW S, Inside \in S, NEW p \in Nat
  PROVE  Opaque(p) \in Seq(S) /\ Len(Opaque(p)) = p /\ \A i \in 1 .. p : Opaque(p)[i] = Inside
BY DEF Opaque

\* A message with at most padding behind it, or cut behind its header.
LEMMA WholeHolds ==
  ASSUME NEW S, Inside \in S, NEW message \in Seq(S), NEW head, NEW b \in Seq(DnsOctet), NEW p \in Nat,
         HasHeader(message, head, b),
         {"label", "pointer", "root", "type"} \cap DOMAIN head = {}
  PROVE  /\ message \o Opaque(p) \in Seq(S) /\ HoldsBody(message \o Opaque(p), b, Len(b))
         /\ (message \o Opaque(p))[1] = head
<1>1. PICK q \in Seq(S) : q = Opaque(p) /\ Len(q) = p /\ \A i \in 1 .. p : q[i] = Inside
  BY Opaques, Zenon
<1> DEFINE data == message \o q
<1>2. /\ data \in Seq(S) /\ Len(data) = Len(message) + Len(q)
      /\ \A j \in 1 .. Len(message) : data[j] = message[j]
      /\ \A j \in 1 .. Len(q) : data[Len(message) + j] = q[j]
  BY Concatenation
<1> HIDE DEF data
<1>3. PICK l \in Nat, n \in Nat : l = Len(b) /\ n = Len(data)
  OBVIOUS
<1>4. Len(message) = 12 + l /\ n = 12 + l + p
  <2>1. Len(message) = 12 + l
    BY <1>3 DEF HasHeader
  <2> QED BY <2>1, <1>1, <1>2, <1>3
<1>5. \A i \in 1 .. 12 + l : data[i] = message[i]
  BY <1>2, <1>4
<1>6. data[1] = head /\ \A i \in 2 .. 12 : data[i] = Inside
  <2>1. message[1] = head /\ \A i \in 2 .. 12 : message[i] = Inside
    BY DEF HasHeader
  <2>2. 1 \in 1 .. 12 + l /\ \A i \in 2 .. 12 : i \in 1 .. 12 + l
    BY <1>3
  <2> QED BY <2>1, <2>2, <1>5
<1>7. ASSUME NEW o \in 0 .. 11
      PROVE  {"label", "pointer", "root", "type"} \cap DOMAIN data[o + 1] = {}
  <2>1. o + 1 = 1 \/ o + 1 \in 2 .. 12
    OBVIOUS
  <2>2. {"label", "pointer", "root", "type"} \cap DOMAIN Inside = {}
    BY DEF Inside
  <2> QED BY <2>1, <2>2, <1>6
<1>8. ASSUME NEW o \in 12 .. 11 + l PROVE data[o + 1] = b[o - 11]
  <2>1. PICK i \in 13 .. 12 + l : i = o + 1 /\ i - 12 = o - 11
    BY <1>3
  <2> QED BY SMTT(30), <2>1, <1>3, <1>5 DEF HasHeader
<1>9. ASSUME NEW o \in 12 + l .. n - 1 PROVE data[o + 1] = Inside
  <2>1. PICK i \in 1 .. p : o + 1 = (12 + l) + i
    <3>1. o + 1 - (12 + l) \in 1 .. p /\ o + 1 = (12 + l) + (o + 1 - (12 + l))
      BY <1>3, <1>4
    <3> QED BY <3>1
  <2>2. data[(12 + l) + i] = q[i]
    BY <1>1, <1>2, <1>3, <1>4
  <2> QED BY <2>1, <2>2, <1>1
<1>10. HoldsBody(data, b, l)
  <2>1. l \in Nat /\ l <= Len(b) /\ 12 + l <= Len(data) /\ l = Len(b)
    BY <1>3, <1>4
  <2> QED BY <2>1, <1>3, <1>7, <1>8, <1>9 DEF HoldsBody
<1> QED BY <1>1, <1>2, <1>3, <1>6, <1>10 DEF data

LEMMA CutHolds ==
  ASSUME NEW S, NEW message \in Seq(S), NEW head, NEW b \in Seq(DnsOctet), NEW n \in Nat,
         12 <= n, n <= Len(message), HasHeader(message, head, b),
         {"label", "pointer", "root", "type"} \cap DOMAIN head = {}
  PROVE  /\ SubSeq(message, 1, n) \in Seq(S) /\ HoldsBody(SubSeq(message, 1, n), b, n - 12)
         /\ SubSeq(message, 1, n)[1] = head
<1>1. PICK data \in Seq(S) : data = SubSeq(message, 1, n) /\ Len(data) = n
                             /\ \A i \in 1 .. n : data[i] = message[i]
  <2>1. /\ SubSeq(message, 0 + 1, n) \in Seq(S) /\ Len(SubSeq(message, 0 + 1, n)) = n - 0
        /\ \A i \in 1 .. n - 0 : SubSeq(message, 0 + 1, n)[i] = message[0 + i]
    BY Slice
  <2>2. SubSeq(message, 0 + 1, n) = SubSeq(message, 1, n) /\ n - 0 = n /\ \A i \in 1 .. n : 0 + i = i
    OBVIOUS
  <2> QED BY <2>1, <2>2
<1>2. PICK l \in Nat, m \in Nat : l = Len(b) /\ m = n - 12
  OBVIOUS
<1>3. Len(message) = 12 + l /\ Len(data) = n /\ n = 12 + m /\ m <= l
  BY <1>1, <1>2 DEF HasHeader
<1>4. \A i \in 1 .. 12 + m : data[i] = message[i]
  BY <1>1, <1>3
<1>5. data[1] = head /\ \A i \in 2 .. 12 : data[i] = Inside
  <2>1. message[1] = head /\ \A i \in 2 .. 12 : message[i] = Inside
    BY DEF HasHeader
  <2>2. 1 \in 1 .. 12 + m /\ \A i \in 2 .. 12 : i \in 1 .. 12 + m
    BY <1>2
  <2> QED BY <2>1, <2>2, <1>4
<1>6. ASSUME NEW o \in 0 .. 11
      PROVE  {"label", "pointer", "root", "type"} \cap DOMAIN data[o + 1] = {}
  <2>1. o + 1 = 1 \/ o + 1 \in 2 .. 12
    OBVIOUS
  <2>2. {"label", "pointer", "root", "type"} \cap DOMAIN Inside = {}
    BY DEF Inside
  <2> QED BY <2>1, <2>2, <1>5
<1>7. ASSUME NEW o \in 12 .. 11 + m PROVE data[o + 1] = b[o - 11]
  <2>1. PICK i \in 13 .. 12 + l : i = o + 1 /\ i - 12 = o - 11 /\ i \in 1 .. 12 + m
    BY <1>2, <1>3
  <2> QED BY <2>1, <1>2, <1>4 DEF HasHeader
<1>8. \A o \in 12 + m .. Len(data) - 1 : data[o + 1] = Inside
  BY <1>2, <1>3
<1>9. HoldsBody(data, b, m)
  <2>1. m \in Nat /\ m <= Len(b) /\ 12 + m <= Len(data) /\ Len(data) = 12 + m
    BY <1>2, <1>3
  <2> QED BY <2>1, <1>2, <1>6, <1>7, <1>8 DEF HoldsBody
<1> QED BY <1>1, <1>2, <1>5, <1>9

\* Over TCP.
LEMMA LengthFirst ==
  ASSUME NEW S, Inside \in S, NEW message \in Seq(S), NEW length \in S, NEW p \in Nat
  PROVE  /\ Len((Field(length, 2) \o message) \o Opaque(p)) = 2 + Len(message) + p
         /\ ((Field(length, 2) \o message) \o Opaque(p))[1] = length
         /\ SubSeq((Field(length, 2) \o message) \o Opaque(p), 3, Len(message) + 2) = message
<1> DEFINE f == Field(length, 2)
           q == Opaque(p)
           k == Len(message)
           d == f \o message
           t == SubSeq(d \o q, 2 + 1, k + 2)
<1>1. q \in Seq(S) /\ Len(q) = p
  BY Opaques, Zenon
<1>2. f \in Seq(S) /\ Len(f) = 2 /\ f[1] = length
  BY FieldOfTwo, Zenon
<1>3. k \in Nat
  OBVIOUS
<1> HIDE DEF f, q, k
<1>4. d \in Seq(S) /\ Len(d) = 2 + k /\ d[1] = length /\ \A i \in 1 .. k : d[2 + i] = message[i]
  <2>1. /\ d \in Seq(S) /\ Len(d) = Len(f) + Len(message)
        /\ \A j \in 1 .. Len(f) : d[j] = f[j]
        /\ \A j \in 1 .. Len(message) : d[Len(f) + j] = message[j]
    <3>1. f \in Seq(S)
      BY <1>2
    <3> QED BY <3>1, Concatenation
  <2>2. 1 \in 1 .. 2
    OBVIOUS
  <2> QED BY <2>1, <2>2, <1>2 DEF k
<1> HIDE DEF d
<1>5. /\ d \o q \in Seq(S) /\ Len(d \o q) = 2 + k + p
      /\ \A i \in 1 .. 2 + k : (d \o q)[i] = d[i]
  <2>1. /\ d \o q \in Seq(S) /\ Len(d \o q) = Len(d) + Len(q)
        /\ \A j \in 1 .. Len(d) : (d \o q)[j] = d[j]
    BY <1>1, <1>4, Concatenation
  <2> QED BY <2>1, <1>1, <1>4
<1>6. t \in Seq(S) /\ Len(t) = k /\ \A i \in 1 .. k : t[i] = (d \o q)[2 + i]
  <2>1. 2 \in Nat /\ k + 2 \in Nat /\ 2 <= k + 2 /\ k + 2 <= 2 + k + p /\ (k + 2) - 2 = k
    BY <1>3
  <2>2. /\ t \in Seq(S) /\ Len(t) = (k + 2) - 2
        /\ \A i \in 1 .. (k + 2) - 2 : t[i] = (d \o q)[2 + i]
    BY SMTT(30), <2>1, <1>5, Slice
  <2> QED BY <2>1, <2>2
<1> HIDE DEF t
<1>7. t = message
  <2>1. \A i \in 1 .. k : t[i] = message[i]
    <3>1. \A i \in 1 .. k : 2 + i \in 1 .. 2 + k
      BY <1>3
    <3> QED BY <3>1, <1>4, <1>5, <1>6
  <2> QED BY <2>1, <1>6, SeqEqual DEF k
<1>8. (d \o q)[1] = length
  <2>1. 1 \in 1 .. 2 + k
    BY <1>3
  <2> QED BY <2>1, <1>4, <1>5
<1>9. SubSeq(d \o q, 3, k + 2) = t
  BY DEF t
<1> QED BY <1>5, <1>7, <1>8, <1>9 DEF d, f, q, k

LEMMA LengthOfCut ==
  ASSUME NEW S, Inside \in S, NEW message \in Seq(S), NEW length \in S, NEW n \in Nat, n < Len(message)
  PROVE  /\ Len(SubSeq(Field(length, 2) \o message, 1, n + 2)) = n + 2
         /\ SubSeq(Field(length, 2) \o message, 1, n + 2)[1] = length
<1> DEFINE f == Field(length, 2)
           d == f \o message
<1>1. f \in Seq(S) /\ Len(f) = 2 /\ f[1] = length
  BY FieldOfTwo, Zenon
<1> HIDE DEF f
<1>2. d \in Seq(S) /\ Len(d) = 2 + Len(message) /\ d[1] = length
  <2>1. /\ f \o message \in Seq(S) /\ Len(f \o message) = Len(f) + Len(message)
        /\ \A j \in 1 .. Len(f) : (f \o message)[j] = f[j]
    BY <1>1, Concatenation, ZenonT(30)
  <2>2. 1 \in 1 .. 2
    OBVIOUS
  <2> QED BY <2>1, <2>2, <1>1
<1> HIDE DEF d
<1>3. Len(SubSeq(d, 1, n + 2)) = n + 2 /\ SubSeq(d, 1, n + 2)[1] = d[1]
  BY <1>2
<1> QED BY <1>2, <1>3 DEF d, f

--------------------------------------------------------------------------------
\* What the servers have written, and what of it may be cut.
WellHeaded(head) == {"label", "pointer", "root", "type"} \cap DOMAIN head = {}

LEMMA HeaderWell == \A asked, recs : WellHeaded(Header(asked, recs))
BY DEF Header, WellHeaded

LEMMA MessageIs ==
  ASSUME DnsInv
  PROVE  Dns!Message = Field(Header(questions, records), 12) \o body
<1>1. DOMAIN records = 1 .. 3
  BY DEF DnsInv, IsSaid
<1> QED BY <1>1, DnsOctets DEF Dns!Message, Header

LEMMA WholeReads ==
  ASSUME DnsInv, NEW S, Inside \in S, NEW message \in Seq(S), NEW p \in Nat,
         HasHeader(message, Header(questions, records), body)
  PROVE  Dns!ParseMessage(message \o Opaque(p)) = Parsed(Dns!Written, Len(message))
<1> DEFINE head == Header(questions, records)
           data == message \o Opaque(p)
<1>1. /\ questions \in Seq(Names) /\ records \in [1 .. 3 -> Seq(Record)] /\ body \in Seq(DnsOctet)
  BY DEF DnsInv, IsSaid
<1>2. PICK ends : Known(body, suffixes, ends) /\ Said(body, suffixes, ends, questions, records)
  BY DEF DnsInv, IsSaid
<1>3. data \in Seq(S) /\ HoldsBody(data, body, Len(body)) /\ data[1] = head
  <2>1. {"label", "pointer", "root", "type"} \cap DOMAIN head = {}
    BY HeaderWell DEF WellHeaded
  <2> HIDE DEF head
  <2> QED BY <1>1, <2>1, WholeHolds, ZenonT(30) DEF head
<1>4. HeaderSays(data, questions, records)
  BY <1>3 DEF HeaderSays, Header
<1> HIDE DEF data, head
<1>5. ItemReads(Dns!ParseMessage(data), body, Len(body),
                [questions |-> questions, records |-> records], 12, 12 + Len(body))
  BY <1>1, <1>2, <1>3, <1>4, MessageReads
<1>6. Len(message) = 12 + Len(body) /\ 12 + Len(body) <= 12 + Len(body)
  BY <1>1 DEF HasHeader
<1>7. Dns!ParseMessage(data) = Parsed([questions |-> questions, records |-> records], 12 + Len(body))
  BY <1>5, <1>6 DEF ItemReads
<1> QED BY <1>6, <1>7 DEF data, Dns!Written

LEMMA CutReads ==
  ASSUME DnsInv, NEW S, NEW message \in Seq(S), NEW n \in Nat, 12 <= n, n < Len(message),
         HasHeader(message, Header(questions, records), body)
  PROVE  Dns!ParseMessage(SubSeq(message, 1, n)) = Cut(body, n - 12)
<1> DEFINE head == Header(questions, records)
           data == SubSeq(message, 1, n)
<1>1. /\ questions \in Seq(Names) /\ records \in [1 .. 3 -> Seq(Record)] /\ body \in Seq(DnsOctet)
  BY DEF DnsInv, IsSaid
<1>2. PICK ends : Known(body, suffixes, ends) /\ Said(body, suffixes, ends, questions, records)
  BY DEF DnsInv, IsSaid
<1>3. data \in Seq(S) /\ HoldsBody(data, body, n - 12) /\ data[1] = head
  <2>1. {"label", "pointer", "root", "type"} \cap DOMAIN head = {}
    BY HeaderWell DEF WellHeaded
  <2>2. n <= Len(message)
    OBVIOUS
  <2> HIDE DEF head
  <2> QED BY ZenonT(40), <1>1, <2>1, <2>2, CutHolds DEF head
<1>4. HeaderSays(data, questions, records)
  BY <1>3 DEF HeaderSays, Header
<1> HIDE DEF data, head
<1>5. ItemReads(Dns!ParseMessage(data), body, n - 12,
                [questions |-> questions, records |-> records], 12, 12 + Len(body))
  BY <1>1, <1>2, <1>3, <1>4, MessageReads
<1>6. 12 <= 12 + (n - 12) /\ 12 + Len(body) > 12 + (n - 12)
  <2>1. Len(message) = 12 + Len(body)
    BY DEF HasHeader
  <2> QED BY <2>1, <1>1
<1>7. Dns!ParseMessage(data) = Cut(body, n - 12)
  BY <1>5, <1>6 DEF ItemReads
<1> QED BY <1>7 DEF data

\* The octets a length of record data counts.
LEMMA InDataOf ==
  ASSUME DnsInv, HasHeader(Dns!Message, Header(questions, records), body), NEW n \in Nat, NEW m \in Nat, n = 12 + m
  PROVE  Dns!InRecordData(n - 1) <=> DataOf(body, 11 + m)
<1> DEFINE message == Dns!Message
<1>1. PICK l \in Nat : l = Len(body)
  BY DEF DnsInv, IsSaid
<1>2. Len(message) - 1 = 11 + l
  BY <1>1 DEF HasHeader
<1>3. ASSUME NEW h \in 12 .. 11 + l PROVE message[h + 1] = body[h - 11]
  <2>1. PICK i \in 13 .. 12 + l : i = h + 1 /\ i - 12 = h - 11
    BY <1>1
  <2> QED BY <2>1, <1>1 DEF HasHeader
<1>4. Dns!InRecordData(n - 1) <=>
        \E h \in 12 .. 11 + l : /\ "type" \in DOMAIN message[h + 1]
                                /\ 11 + m \in h + 10 .. h + 9 + message[h + 1].length
  <2>1. n - 1 = 11 + m
    OBVIOUS
  <2> HIDE DEF message
  <2> QED BY <1>2, <2>1, DnsOctets DEF Dns!InRecordData, message, Has
<1>5. DataOf(body, 11 + m) <=>
        \E h \in 12 .. 11 + l : /\ "type" \in DOMAIN body[h - 11]
                                /\ 11 + m \in h + 10 .. h + 9 + body[h - 11].length
  BY <1>1 DEF DataOf
<1> HIDE DEF message
<1> QED BY <1>3, <1>4, <1>5

LEMMA DnsReads == ASSUME DnsInv PROVE Dns!ReadsWhatIsWritten /\ Dns!CutIsNoMessage
<1> DEFINE head == Header(questions, records)
           message == Dns!Message
           size == [length |-> Len(message)]
           S == DnsOctet \cup {head, size}
<1>1. body \in Seq(DnsOctet)
  BY DEF DnsInv, IsSaid
<1>2. Inside \in S /\ head \in S /\ size \in S /\ body \in Seq(S)
  <2>1. Inside \in DnsOctet
    BY DEF DnsOctet
  <2> HIDE DEF head, size
  <2> QED BY <2>1, <1>1
<1>3. message \in Seq(S) /\ HasHeader(message, head, body)
  <2>1. message = Field(head, 12) \o body
    BY MessageIs
  <2> HIDE DEF head, size, message, S
  <2> QED BY <2>1, <1>2, HeaderFirst, Zenon
<1>4. PICK l \in Nat : l = Len(body) /\ Len(message) = 12 + l
  BY <1>1, <1>3 DEF HasHeader
<1>5. ASSUME NEW p \in Nat
      PROVE  Dns!ParseMessage(message \o Opaque(p)) = Parsed(Dns!Written, Len(message))
  <2> HIDE DEF size, message, S
  <2> QED BY <1>2, <1>3, WholeReads, Zenon
<1>6. message \o Opaque(0) = message
  <2>1. Opaque(0) = << >>
    BY DEF Opaque
  <2> HIDE DEF message, S
  <2> QED BY <2>1, <1>3
<1>7. \A data : Dns!WithLength(data) = Field([length |-> Len(data)], 2) \o data
  BY DnsOctets DEF Dns!WithLength
<1>8. \A p \in Nat : Dns!Padding(p) = Opaque(p)
  BY DnsOctets DEF Dns!Padding, Opaque
<1>9. ASSUME NEW p \in 0 .. 1, NEW is_tcp \in BOOLEAN
      PROVE  Dns!ParseDnsPacket((IF is_tcp THEN Dns!WithLength(message) ELSE message) \o Dns!Padding(p), is_tcp)
               = Parsed(Dns!Written, Len(message))
  <2>1. p \in Nat /\ Dns!Padding(p) = Opaque(p)
    BY <1>8
  <2>2. CASE ~ is_tcp
    <3> HIDE DEF message
    <3> QED BY <2>1, <2>2, <1>5 DEF Dns!ParseDnsPacket
  <2>3. CASE is_tcp
    <3> DEFINE data == (Field(size, 2) \o message) \o Opaque(p)
    <3>1. Dns!WithLength(message) \o Dns!Padding(p) = data
      BY <1>7, <2>1
    <3>2. Len(data) = 2 + Len(message) + p /\ data[1] = size /\ SubSeq(data, 3, Len(message) + 2) = message
      <4> HIDE DEF message, size, S
      <4> QED BY <2>1, <1>2, <1>3, LengthFirst, ZenonT(30)
    <3> HIDE DEF data, message
    <3>3. data[1].length = Len(message)
      BY <3>2
    <3>4. ~ (Len(data) < 2) /\ ~ (Len(data) < Len(message) + 2)
      BY <3>2, <2>1, <1>4
    <3>5. Dns!ParseDnsPacket(data, is_tcp) = Dns!ParseMessage(message)
      BY <2>3, <3>2, <3>3, <3>4 DEF Dns!ParseDnsPacket
    <3>6. Dns!ParseMessage(message \o Opaque(0)) = Parsed(Dns!Written, Len(message))
      BY <1>5
    <3> QED BY <2>3, <3>1, <3>5, <3>6, <1>6
  <2> QED BY <2>2, <2>3
<1>10. Dns!ReadsWhatIsWritten
  <2> HIDE DEF message
  <2> QED BY <1>9, DnsOctets DEF Dns!ReadsWhatIsWritten, message
<1>11. ASSUME NEW n \in 0 .. Len(message) - 1
       PROVE  Dns!ParseDnsPacket(SubSeq(message, 1, n), FALSE)
                = IF n > 12 /\ Dns!Has(SubSeq(message, 1, n), n - 1, "pointer") /\ ~ Dns!InRecordData(n - 1)
                  THEN Panic ELSE Err
  <2> DEFINE cut == SubSeq(message, 1, n)
  <2>1. n \in Nat /\ n < Len(message) /\ n <= Len(message)
    BY <1>4
  <2>2. Len(cut) = n /\ \A i \in 1 .. n : cut[i] = message[i]
    <3> HIDE DEF message, S
    <3> QED BY <2>1, <1>3
  <2>3. Dns!ParseDnsPacket(cut, FALSE) = Dns!ParseMessage(cut)
    BY DEF Dns!ParseDnsPacket
  <2>4. CASE n < 12
    <3>1. Dns!ParseMessage(cut) = Err
      BY <2>2, <2>4, DnsOctets, Zenon DEF Dns!ParseMessage
    <3>2. ~ (n > 12)
      BY <2>1, <2>4
    <3> QED BY <2>3, <3>1, <3>2
  <2>5. CASE n >= 12
    <3>1. PICK m \in Nat : m = n - 12 /\ n = 12 + m /\ (n > 12 <=> m > 0)
      BY <2>1, <2>5
    <3>2. Dns!ParseMessage(cut) = Cut(body, m)
      <4> HIDE DEF message, S
      <4> QED BY <2>1, <2>5, <3>1, <1>3, CutReads
    <3>3. Dns!InRecordData(n - 1) <=> DataOf(body, 11 + m)
      BY <2>1, <3>1, <1>3, InDataOf
    <3>4. ASSUME m > 0 PROVE Dns!Has(cut, n - 1, "pointer") <=> "pointer" \in DOMAIN body[m]
      <4>1. (n - 1) + 1 = n /\ n \in 1 .. n /\ n \in 13 .. 12 + l /\ n - 12 = m
        BY <2>1, <3>1, <3>4, <1>4
      <4>2. cut[n] = message[n]
        BY <4>1, <2>2
      <4>3. message[n] = body[m]
        BY <4>1, <1>3, <1>4 DEF HasHeader
      <4> HIDE DEF cut, message
      <4> QED BY <4>1, <4>2, <4>3, DnsOctets DEF Has
    <3> HIDE DEF cut
    <3> QED BY <2>3, <3>1, <3>2, <3>3, <3>4 DEF Cut, cut
  <2>6. n < 12 \/ n >= 12
    BY <2>1
  <2> QED BY <2>4, <2>5, <2>6
<1>12. ASSUME NEW n \in 0 .. Len(message) - 1
       PROVE  Dns!ParseDnsPacket(SubSeq(Dns!WithLength(message), 1, n + 2), TRUE) = Err
  <2> DEFINE cut == SubSeq(Field(size, 2) \o message, 1, n + 2)
  <2>1. n \in Nat /\ n < Len(message)
    BY <1>4
  <2>2. Len(cut) = n + 2 /\ cut[1] = size
    <3> HIDE DEF message, S, size
    <3> QED BY <2>1, <1>2, <1>3, LengthOfCut, ZenonT(30)
  <2>3. SubSeq(Dns!WithLength(message), 1, n + 2) = cut
    BY <1>7
  <2> HIDE DEF cut, message
  <2>4. cut[1].length = Len(message)
    BY <2>2
  <2>5. ~ (Len(cut) < 2) /\ Len(cut) < Len(message) + 2
    BY <2>1, <2>2, <1>4
  <2> QED BY <2>3, <2>4, <2>5, DnsOctets DEF Dns!ParseDnsPacket
<1>13. Dns!CutIsNoMessage
  <2> HIDE DEF message
  <2> QED BY <1>11, <1>12, DnsOctets DEF Dns!CutIsNoMessage, message
<1> QED BY <1>10, <1>13

\* However a DNS message compresses its names, over UDP or TCP, it is read as
\* written; cut, it is an error, but for the panic on half a pointer.
THEOREM DnsRead == Spec => []DnsReadsWhatIsWritten
<1>1. Inv => DnsReadsWhatIsWritten
  BY DnsReads DEF Inv, DnsReadsWhatIsWritten
<1> QED BY <1>1, Started, WentOn, PTL DEF Spec

--------------------------------------------------------------------------------
(***************************************************************************)
(* What TLS clients write.                                                 *)
(***************************************************************************)
LEMMA TlsOctets ==
  /\ Tls!Inside = Inside /\ Tls!Err = Err /\ Tls!Panic = Panic
  /\ \A first, size : Tls!Field(first, size) = Field(first, size)
  /\ \A size : Tls!Opaque(size) = Field(Inside, size)
  /\ \A value, next : Tls!Parsed(value, next) = Parsed(value, next)
  /\ \A seqs : Tls!FlattenSeq(seqs) = FlattenSeq(seqs)
  /\ \A data, offset, field : Tls!Has(data, offset, field) <=> field \in DOMAIN data[offset + 1]
<1>1. \A seqs : Tls!FlattenSeq(seqs) = FlattenSeq(seqs)
  BY DEF Tls!FlattenSeq, FlattenSeq
<1>2. /\ Tls!Inside = Inside /\ Tls!Err = Err /\ Tls!Panic = Panic
      /\ \A value, next : Tls!Parsed(value, next) = Parsed(value, next)
  BY DEF Tls!Inside, Inside, Tls!Err, Err, Tls!Panic, Panic, Tls!Parsed, Parsed
<1>3. \A first, size : Tls!Field(first, size) = Field(first, size)
  BY <1>2 DEF Tls!Field, Field
<1>4. \A size : Tls!Opaque(size) = Field(Inside, size)
  <2>1. \A size : [i \in 1 .. size |-> Inside] = [i \in 1 .. size |-> IF i = 1 THEN Inside ELSE Inside]
    OBVIOUS
  <2> QED BY <2>1, <1>2 DEF Tls!Opaque, Field
<1>5. \A data, offset, field : Tls!Has(data, offset, field) <=> field \in DOMAIN data[offset + 1]
  BY DEF Tls!Has
<1> QED BY <1>1, <1>2, <1>3, <1>4, <1>5

\* The octets of what follows the first field of a ClientHello, and of all of it.
LaterOctet ==
  {Inside} \cup [extension : {"other", "server_name"}, length : Nat] \cup [length : Nat]
    \cup [name_type : {0}] \cup [host_name : Hosts]
TlsOctet == LaterOctet \cup [handshake : {"client_hello"}]
              \cup [record : {"handshake", "application_data"}, length : Nat]

LEMMA LaterOctets ==
  /\ Inside \in LaterOctet /\ LaterOctet \subseteq TlsOctet
  /\ \A n \in Nat : [length |-> n] \in LaterOctet
  /\ \A x \in LaterOctet : "handshake" \notin DOMAIN x /\ "record" \notin DOMAIN x
<1>1. /\ Inside \in LaterOctet /\ LaterOctet \subseteq TlsOctet
      /\ \A n \in Nat : [length |-> n] \in LaterOctet
  BY DEF LaterOctet, TlsOctet
<1>2. ASSUME NEW x \in LaterOctet PROVE "handshake" \notin DOMAIN x /\ "record" \notin DOMAIN x
  <2>1. \/ DOMAIN x = {"inside"}
        \/ DOMAIN x = {"extension", "length"}
        \/ DOMAIN x = {"length"} \/ DOMAIN x = {"name_type"} \/ DOMAIN x = {"host_name"}
    BY <1>2, Zenon DEF LaterOctet, Inside
  <2> QED BY <2>1
<1> QED BY <1>1, <1>2

\* t is s with a field behind it; a field may have no octets.
Adds(t, s, n, first, size) ==
  /\ Len(t) = n + size
  /\ \A i \in 1 .. n : t[i] = s[i]
  /\ \A i \in 1 .. size : t[n + i] = IF i = 1 THEN first ELSE Inside

LEMMA FieldBehind ==
  ASSUME NEW S, Inside \in S, NEW s \in Seq(S), NEW first \in S, NEW size \in Nat, NEW n \in Nat, n = Len(s)
  PROVE  s \o Field(first, size) \in Seq(S) /\ Adds(s \o Field(first, size), s, n, first, size)
<1> DEFINE f == Field(first, size)
           t == s \o f
<1>1. f \in Seq(S) /\ Len(f) = size /\ \A i \in 1 .. size : f[i] = IF i = 1 THEN first ELSE Inside
  <2>1. \A i \in 1 .. size : (IF i = 1 THEN first ELSE Inside) \in S
    OBVIOUS
  <2> HIDE DEF t
  <2> QED BY <2>1 DEF Field
<1> HIDE DEF f
<1>2. /\ t \in Seq(S) /\ Len(t) = Len(s) + Len(f)
      /\ \A j \in 1 .. Len(s) : t[j] = s[j]
      /\ \A j \in 1 .. Len(f) : t[Len(s) + j] = f[j]
  <2>1. f \in Seq(S)
    BY <1>1
  <2> QED BY <2>1, Concatenation
<1> HIDE DEF t
<1>3. Adds(t, s, n, first, size)
  BY <1>1, <1>2 DEF Adds
<1> QED BY <1>2, <1>3 DEF t, f

\* The octets of an extension.
IsOther(c) ==
  /\ Len(c) = 5 /\ c[1] = [extension |-> "other", length |-> 1]
  /\ \A i \in 2 .. 5 : "extension" \notin DOMAIN c[i]
IsName(c, h, size) ==
  /\ Len(c) = 9 + size /\ c[1] = [extension |-> "server_name", length |-> 5 + size]
  /\ c[5] = [length |-> 3 + size] /\ c[7] = [name_type |-> 0]
  /\ c[8] = [length |-> size] /\ c[10] = [host_name |-> h]
  /\ \A i \in 2 .. 9 + size : "extension" \notin DOMAIN c[i]

LEMMA OtherWritten ==
  Tls!ExtensionOctets(Tls!Other) \in Seq(LaterOctet) /\ IsOther(Tls!ExtensionOctets(Tls!Other))
<1> DEFINE first == [extension |-> "other", length |-> 1]
           s == Field(first, 4)
           c == s \o Field(Inside, 1)
<1>1. first \in LaterOctet /\ Inside \in LaterOctet
  BY DEF LaterOctet
<1>2. "extension" \notin DOMAIN Inside
  BY DEF Inside
<1>3. Tls!ExtensionOctets(Tls!Other) = c
  BY TlsOctets DEF Tls!ExtensionOctets
<1> HIDE DEF first
<1>4. s \in Seq(LaterOctet) /\ Len(s) = 4 /\ \A i \in 1 .. 4 : s[i] = IF i = 1 THEN first ELSE Inside
  <2>1. \A i \in 1 .. 4 : (IF i = 1 THEN first ELSE Inside) \in LaterOctet
    BY <1>1
  <2> HIDE DEF c
  <2> QED BY <2>1 DEF Field
<1> HIDE DEF s
<1>5. c \in Seq(LaterOctet) /\ Adds(c, s, 4, Inside, 1)
  BY <1>1, <1>4, FieldBehind, Zenon
<1> HIDE DEF c
<1>6. Len(c) = 5 /\ c[1] = first /\ \A i \in 2 .. 5 : c[i] = Inside
  <2>1. c[4 + 1] = Inside
    BY <1>5 DEF Adds
  <2>2. \A i \in 1 .. 4 : c[i] = s[i]
    BY <1>5 DEF Adds
  <2>3. \A i \in 2 .. 4 : c[i] = Inside
    BY <2>2, <1>4
  <2>4. c[1] = first
    BY <2>2, <1>4
  <2>5. Len(c) = 5
    BY <1>5 DEF Adds
  <2> QED BY <2>1, <2>3, <2>4, <2>5
<1>7. IsOther(c)
  BY <1>2, <1>6 DEF IsOther, first
<1> QED BY <1>3, <1>5, <1>7

LEMMA ServerNameWritten ==
  ASSUME NEW h \in Hosts, Tls!ServerName(h) # Tls!Other
  PROVE  /\ Tls!ExtensionOctets(Tls!ServerName(h)) \in Seq(LaterOctet)
         /\ HostOctets[h] \in Nat \ {0}
         /\ IsName(Tls!ExtensionOctets(Tls!ServerName(h)), h, HostOctets[h])
<1>1. PICK size \in Nat \ {0} : size = HostOctets[h]
  BY TlsAssumption
<1> DEFINE e1 == [extension |-> "server_name", length |-> 5 + size]
           e2 == [length |-> 3 + size]
           e3 == [name_type |-> 0]
           e4 == [length |-> size]
           e5 == [host_name |-> h]
           s1 == Field(e1, 4)
           s2 == s1 \o Field(e2, 2)
           s3 == s2 \o Field(e3, 1)
           s4 == s3 \o Field(e4, 2)
           c == s4 \o Field(e5, size)
<1>2. /\ e1 \in LaterOctet /\ e2 \in LaterOctet /\ e3 \in LaterOctet /\ e4 \in LaterOctet /\ e5 \in LaterOctet
      /\ Inside \in LaterOctet
  BY DEF LaterOctet
<1>3. /\ "extension" \notin DOMAIN e2 /\ "extension" \notin DOMAIN e3 /\ "extension" \notin DOMAIN e4
      /\ "extension" \notin DOMAIN e5 /\ "extension" \notin DOMAIN Inside
  BY DEF Inside
<1>4. Tls!ExtensionOctets(Tls!ServerName(h)) = c
  <2>1. Tls!ServerName(h).host = h
    BY DEF Tls!ServerName
  <2> QED BY <2>1, <1>1, TlsOctets DEF Tls!ExtensionOctets
<1> HIDE DEF e1, e2, e3, e4, e5
<1>5. s1 \in Seq(LaterOctet) /\ Len(s1) = 4 /\ \A i \in 1 .. 4 : s1[i] = IF i = 1 THEN e1 ELSE Inside
  <2>1. \A i \in 1 .. 4 : (IF i = 1 THEN e1 ELSE Inside) \in LaterOctet
    BY <1>2
  <2> HIDE DEF s2, s3, s4, c
  <2> QED BY <2>1 DEF Field
<1> HIDE DEF s1
<1>6. s2 \in Seq(LaterOctet) /\ Adds(s2, s1, 4, e2, 2)
  BY <1>2, <1>5, FieldBehind, Zenon
<1> HIDE DEF s2
<1>7. Len(s2) = 6
  BY <1>6 DEF Adds
<1>8. s3 \in Seq(LaterOctet) /\ Adds(s3, s2, 6, e3, 1)
  BY <1>2, <1>6, <1>7, FieldBehind, Zenon
<1> HIDE DEF s3
<1>9. Len(s3) = 7
  BY <1>8 DEF Adds
<1>10. s4 \in Seq(LaterOctet) /\ Adds(s4, s3, 7, e4, 2)
  BY <1>2, <1>8, <1>9, FieldBehind, Zenon
<1> HIDE DEF s4
<1>11. Len(s4) = 9
  BY <1>10 DEF Adds
<1>12. c \in Seq(LaterOctet) /\ Adds(c, s4, 9, e5, size)
  BY <1>2, <1>10, <1>11, FieldBehind, Zenon
<1> HIDE DEF c
<1>13. s2[1] = e1 /\ s2[2] = Inside /\ s2[3] = Inside /\ s2[4] = Inside /\ s2[5] = e2 /\ s2[6] = Inside
  <2>1. \A i \in 1 .. 4 : s2[i] = s1[i]
    BY <1>6 DEF Adds
  <2>2. s2[4 + 1] = e2 /\ s2[4 + 2] = Inside
    BY <1>6 DEF Adds
  <2> QED BY <2>1, <2>2, <1>5
<1>14. (\A i \in 1 .. 6 : s3[i] = s2[i]) /\ s3[7] = e3
  <2>1. s3[6 + 1] = e3
    BY <1>8 DEF Adds
  <2> QED BY <2>1, <1>8 DEF Adds
<1>15. (\A i \in 1 .. 7 : s4[i] = s3[i]) /\ s4[8] = e4 /\ s4[9] = Inside
  <2>1. s4[7 + 1] = e4 /\ s4[7 + 2] = Inside
    BY <1>10 DEF Adds
  <2> QED BY <2>1, <1>10 DEF Adds
<1>16. /\ Len(c) = 9 + size /\ \A i \in 1 .. 9 : c[i] = s4[i]
       /\ c[10] = e5 /\ \A i \in 11 .. 9 + size : c[i] = Inside
  <2>1. Len(c) = 9 + size /\ \A i \in 1 .. 9 : c[i] = s4[i]
    BY <1>12 DEF Adds
  <2>2. c[9 + 1] = e5
    <3>1. 1 \in 1 .. size
      OBVIOUS
    <3> QED BY <3>1, <1>12 DEF Adds
  <2>3. ASSUME NEW i \in 11 .. 9 + size PROVE c[i] = Inside
    <3>1. PICK j \in 1 .. size : i = 9 + j /\ j # 1
      <4>1. i - 9 \in 1 .. size /\ i = 9 + (i - 9) /\ i - 9 # 1
        OBVIOUS
      <4> QED BY <4>1
    <3> QED BY <3>1, <1>12 DEF Adds
  <2> QED BY <2>1, <2>2, <2>3
<1>17. /\ c[1] = e1 /\ c[2] = Inside /\ c[3] = Inside /\ c[4] = Inside /\ c[5] = e2 /\ c[6] = Inside
       /\ c[7] = e3 /\ c[8] = e4 /\ c[9] = Inside
  <2>1. \A i \in 1 .. 7 : c[i] = s3[i]
    BY <1>15, <1>16
  <2>2. \A i \in 1 .. 6 : c[i] = s2[i]
    BY <1>14, <2>1
  <2>3. c[7] = e3 /\ c[8] = e4 /\ c[9] = Inside
    BY <1>14, <1>15, <1>16, <2>1
  <2> QED BY <2>2, <2>3, <1>13
<1>18. ASSUME NEW i \in 2 .. 9 + size PROVE "extension" \notin DOMAIN c[i]
  <2>1. i \in 2 .. 10 \/ i \in 11 .. 9 + size
    OBVIOUS
  <2>2. CASE i \in 2 .. 10
    <3>1. i = 2 \/ i = 3 \/ i = 4 \/ i = 5 \/ i = 6 \/ i = 7 \/ i = 8 \/ i = 9 \/ i = 10
      BY <2>2
    <3> QED BY <3>1, <1>3, <1>16, <1>17
  <2>3. CASE i \in 11 .. 9 + size
    BY <2>3, <1>3, <1>16
  <2> QED BY <2>1, <2>2, <2>3
<1>19. IsName(c, h, size)
  BY <1>16, <1>17, <1>18 DEF IsName, e1, e2, e3, e4, e5
<1> QED BY <1>1, <1>4, <1>12, <1>19

--------------------------------------------------------------------------------
(***************************************************************************)
(* How the parser finds the name among the extensions.                     *)
(***************************************************************************)
Extension == {Tls!Other} \cup {Tls!ServerName(h) : h \in Hosts}
ExtensionStarts(data) == Tls!Begins(data, {"extension"}, Len(data))

\* One round of the loop, f being what the rounds after it find.
ExtensionStep(data, f, o) ==
  IF o >= Len(data) THEN Err
  ELSE IF o + 4 > Len(data) THEN Panic
  ELSE IF data[o + 1].extension # "server_name" THEN f[o + 4 + data[o + 1].length]
  ELSE IF o + 4 + data[o + 1].length > Len(data) THEN Panic
  ELSE Tls!ParseServerName(SubSeq(data, o + 5, o + 4 + data[o + 1].length),
                           f[o + 4 + data[o + 1].length])

NameFinder(data) == CHOOSE f : f = [o \in ExtensionStarts(data) |-> ExtensionStep(data, f, o)]

LEMMA FindServerNameReads ==
  ASSUME NEW data
  PROVE  Tls!FindServerName(data) = NameFinder(data)[0]
BY DEF Tls!FindServerName, Tls!Err, Tls!Panic, NameFinder, ExtensionStep, ExtensionStarts, Err, Panic

\* list stands in data, the k-th extension between offsets at[k - 1] and at[k].
IsExtension(c, e) ==
  /\ e = Tls!Other => IsOther(c)
  /\ e # Tls!Other => \E h \in Hosts : \E size \in Nat \ {0} : e = Tls!ServerName(h) /\ IsName(c, h, size)
ExtensionsAt(data, at, pieces, list) ==
  /\ PiecesAt(at, pieces, data) /\ Len(pieces) = Len(list)
  /\ \A k \in 1 .. Len(list) : IsExtension(pieces[k], list[k])

\* What the octets of an extension make of a round, whatever comes after them.
RoundAt(data, at, e, k) ==
  /\ e = Tls!Other => \A f : ExtensionStep(data, f, at[k - 1]) = f[at[k]]
  /\ e # Tls!Other =>
       \E h \in Hosts : \E size \in Nat :
         e = Tls!ServerName(h) /\ \A f : ExtensionStep(data, f, at[k - 1]) = Parsed(h, 5 + size)

\* The octets c stand in data from offset o on.
StandsAt(data, o, c) == o + Len(c) <= Len(data) /\ \A j \in 1 .. Len(c) : data[o + j] = c[j]

LEMMA OtherRound ==
  ASSUME NEW S, NEW data \in Seq(S), NEW o \in Nat, NEW c \in Seq(S), IsOther(c),
         StandsAt(data, o, c), NEW f
  PROVE  ExtensionStep(data, f, o) = f[o + 5]
<1>1. Len(c) = 5 /\ c[1] = [extension |-> "other", length |-> 1]
  BY DEF IsOther
<1>2. data[o + 1] = [extension |-> "other", length |-> 1]
  BY <1>1 DEF StandsAt
<1>3. data[o + 1].extension # "server_name" /\ data[o + 1].length = 1
  BY <1>2
<1>4. ~ (o >= Len(data)) /\ ~ (o + 4 > Len(data)) /\ o + 4 + 1 = o + 5
  BY <1>1 DEF StandsAt
<1> QED BY <1>3, <1>4 DEF ExtensionStep

LEMMA NameRound ==
  ASSUME NEW S, NEW data \in Seq(S), NEW o \in Nat, NEW c \in Seq(S), NEW h, NEW size \in Nat \ {0},
         IsName(c, h, size),
         StandsAt(data, o, c), NEW f
  PROVE  ExtensionStep(data, f, o) = Parsed(h, 5 + size)
<1>1. /\ Len(c) = 9 + size /\ c[1] = [extension |-> "server_name", length |-> 5 + size]
      /\ c[5] = [length |-> 3 + size] /\ c[7] = [name_type |-> 0]
      /\ c[8] = [length |-> size] /\ c[10] = [host_name |-> h]
  BY DEF IsName
<1>2. PICK n \in Nat : n = Len(data) /\ o + 9 + size <= n
  BY <1>1 DEF StandsAt
<1>3. data[o + 1] = [extension |-> "server_name", length |-> 5 + size]
  <2>1. 1 \in 1 .. Len(c)
    BY <1>1
  <2> QED BY <2>1, <1>1 DEF StandsAt
<1>4. data[o + 1].extension = "server_name" /\ data[o + 1].length = 5 + size
  BY <1>3
<1>5. /\ ~ (o >= n) /\ ~ (o + 4 > n) /\ ~ (o + 4 + (5 + size) > n)
  BY <1>2
<1> DEFINE sni == SubSeq(data, o + 5, o + 4 + (5 + size))
<1>6. ExtensionStep(data, f, o) = Tls!ParseServerName(sni, f[o + 4 + (5 + size)])
  <2> HIDE DEF sni
  <2> QED BY <1>2, <1>4, <1>5 DEF ExtensionStep, sni
<1>7. Len(sni) = 5 + size /\ \A j \in 1 .. 5 + size : sni[j] = data[o + 4 + j]
  <2>1. PICK w \in Nat, z \in Nat : w = o + 4 /\ z = o + 4 + (5 + size) /\ w <= z /\ z <= Len(data) /\ z - w = 5 + size
    BY <1>2
  <2>2. /\ Len(SubSeq(data, w + 1, z)) = z - w
        /\ \A j \in 1 .. z - w : SubSeq(data, w + 1, z)[j] = data[w + j]
    BY <2>1, Slice
  <2>3. w + 1 = o + 5
    BY <2>1
  <2> QED BY <2>1, <2>2, <2>3
<1> HIDE DEF sni
<1>8. \A j \in 1 .. 5 + size : sni[j] = c[4 + j]
  <2>1. ASSUME NEW j \in 1 .. 5 + size PROVE sni[j] = c[4 + j]
    <3>1. PICK i \in 1 .. 9 + size : i = 4 + j /\ o + i = o + 4 + j
      OBVIOUS
    <3>2. data[o + i] = c[i]
      BY <1>1, <3>1 DEF StandsAt
    <3> QED BY <1>7, <3>1, <3>2
  <2> QED BY <2>1
<1>9. sni[1] = c[5] /\ sni[3] = c[7] /\ sni[4] = c[8] /\ sni[6] = c[10]
  <2>1. /\ 1 \in 1 .. 5 + size /\ 3 \in 1 .. 5 + size
        /\ 4 \in 1 .. 5 + size /\ 6 \in 1 .. 5 + size
        /\ 4 + 1 = 5 /\ 4 + 3 = 7 /\ 4 + 4 = 8 /\ 4 + 6 = 10
    OBVIOUS
  <2> QED BY <2>1, <1>8
<1>10. sni[1].length = 3 + size /\ sni[3].name_type = 0 /\ sni[4].length = size /\ sni[6].host_name = h
  BY <1>1, <1>9
<1>11. /\ ~ (Len(sni) < 2) /\ ~ (Len(sni) < 2 + (3 + size)) /\ ~ (Len(sni) < 5) /\ ~ (Len(sni) < 5 + size)
  BY <1>7
<1>12. Tls!ParseServerName(sni, f[o + 4 + (5 + size)]) = Parsed(h, 5 + size)
  BY <1>10, <1>11, TlsOctets DEF Tls!ParseServerName
<1> QED BY <1>6, <1>12

LEMMA Rounds ==
  ASSUME NEW S, NEW data \in Seq(S), NEW at, NEW pieces \in Seq(Seq(S)), NEW list \in Seq(Extension),
         ExtensionsAt(data, at, pieces, list), NEW k \in 1 .. Len(list)
  PROVE  RoundAt(data, at, list[k], k) /\ at[k - 1] < at[k] /\ at[k] <= Len(data)
<1>1. PICK n \in Nat : n = Len(list) /\ n = Len(pieces)
  BY DEF ExtensionsAt
<1>2. /\ PiecesAt(at, pieces, data) /\ IsExtension(pieces[k], list[k])
  BY DEF ExtensionsAt
<1>3. /\ at \in [0 .. n -> Nat] /\ at[n] = Len(data) /\ at[k] = at[k - 1] + Len(pieces[k])
      /\ \A j \in 1 .. Len(pieces[k]) : data[at[k - 1] + j] = pieces[k][j]
  BY <1>1, <1>2 DEF PiecesAt
<1>4. PICK o \in Nat : o = at[k - 1]
  <2>1. k - 1 \in 0 .. n
    BY <1>1
  <2> QED BY <2>1, <1>3
<1>5. PICK c \in Seq(S) : c = pieces[k]
  BY <1>1
<1>6. at[k] <= Len(data)
  <2>1. k \in 0 .. n /\ n \in 0 .. n /\ k <= n
    BY <1>1
  <2>2. \A i, j \in 0 .. Len(pieces) : i <= j => at[i] <= at[j]
    BY <1>2, PiecesInOrder
  <2> QED BY <2>1, <2>2, <1>1, <1>3
<1>7. StandsAt(data, o, c)
  BY <1>3, <1>4, <1>5, <1>6 DEF StandsAt
<1>8. CASE list[k] = Tls!Other
  <2>1. IsOther(c)
    BY <1>2, <1>5, <1>8 DEF IsExtension
  <2>2. \A f : ExtensionStep(data, f, o) = f[o + 5]
    BY <1>7, <2>1, OtherRound
  <2>3. at[k] = o + 5
    BY <2>1, <1>3, <1>4, <1>5 DEF IsOther
  <2> QED BY <2>2, <2>3, <1>4, <1>6, <1>8 DEF RoundAt
<1>9. CASE list[k] # Tls!Other
  <2>1. PICK h \in Hosts, size \in Nat \ {0} : list[k] = Tls!ServerName(h) /\ IsName(c, h, size)
    BY <1>2, <1>5, <1>9 DEF IsExtension
  <2>2. ASSUME NEW f PROVE ExtensionStep(data, f, o) = Parsed(h, 5 + size)
    <3>1. IsName(c, h, size)
      BY <2>1
    <3> QED BY <1>7, <3>1, NameRound
  <2>3. at[k] = o + (9 + size)
    BY <2>1, <1>3, <1>4, <1>5 DEF IsName
  <2>4. o < at[k]
    BY <2>3
  <2> QED BY <2>1, <2>2, <2>4, <1>4, <1>6, <1>9 DEF RoundAt
<1> QED BY <1>8, <1>9

\* An extension begins nowhere else.
BeginsAt(data, at, n) ==
  /\ \A o \in ExtensionStarts(data) :
       o \in Nat /\ (o >= Len(data) \/ \E k \in 1 .. n : o = at[k - 1])
  /\ \A k \in 0 .. n : at[k] \in ExtensionStarts(data)

LEMMA ExtensionsStart ==
  ASSUME NEW S, NEW data \in Seq(S), NEW at, NEW pieces \in Seq(Seq(S)), NEW list \in Seq(Extension),
         ExtensionsAt(data, at, pieces, list)
  PROVE  BeginsAt(data, at, Len(list))
<1>1. PICK n \in Nat : n = Len(list) /\ n = Len(pieces)
  BY DEF ExtensionsAt
<1>2. PiecesAt(at, pieces, data)
  BY DEF ExtensionsAt
<1>3. at \in [0 .. n -> Nat] /\ at[n] = Len(data)
  BY <1>1, <1>2 DEF PiecesAt
<1>4. \A o : o \in ExtensionStarts(data) <=>
               o \in Nat /\ (o >= Len(data) \/ "extension" \in DOMAIN data[o + 1])
  BY TlsOctets DEF ExtensionStarts, Tls!Begins
<1>5. ASSUME NEW k \in 1 .. n
      PROVE  /\ "extension" \in DOMAIN pieces[k][1] /\ 1 \in 1 .. Len(pieces[k])
             /\ \A j \in 1 .. Len(pieces[k]) : "extension" \in DOMAIN pieces[k][j] => j = 1
  <2>1. IsExtension(pieces[k], list[k])
    BY <1>1 DEF ExtensionsAt
  <2>2. CASE list[k] = Tls!Other
    <3>1. IsOther(pieces[k])
      BY <2>1, <2>2 DEF IsExtension
    <3> QED BY <3>1 DEF IsOther
  <2>3. CASE list[k] # Tls!Other
    <3>1. PICK h \in Hosts, size \in Nat \ {0} : IsName(pieces[k], h, size)
      BY <2>1, <2>3 DEF IsExtension
    <3>2. /\ Len(pieces[k]) = 9 + size /\ pieces[k][1] = [extension |-> "server_name", length |-> 5 + size]
          /\ \A i \in 2 .. 9 + size : "extension" \notin DOMAIN pieces[k][i]
      BY <3>1 DEF IsName
    <3>3. \A j \in 1 .. 9 + size : j = 1 \/ j \in 2 .. 9 + size
      OBVIOUS
    <3>4. 1 \in 1 .. 9 + size
      OBVIOUS
    <3> QED BY <3>2, <3>3, <3>4
  <2> QED BY <2>2, <2>3
<1>6. ASSUME NEW o \in ExtensionStarts(data), ~ (o >= Len(data))
      PROVE  \E k \in 1 .. n : o = at[k - 1]
  <2>1. o \in Nat /\ "extension" \in DOMAIN data[o + 1]
    BY <1>4, <1>6
  <2>2. PICK p \in 1 .. Len(data) : p = o + 1
    BY <2>1, <1>6
  <2>3. InPiece(p, at, pieces, data)
    BY <1>2, PiecesCover
  <2>4. PICK k \in 1 .. n : \E j \in 1 .. Len(pieces[k]) : p = at[k - 1] + j /\ data[p] = pieces[k][j]
    BY <2>3, <1>1 DEF InPiece
  <2>5. PICK j \in 1 .. Len(pieces[k]) : p = at[k - 1] + j /\ data[p] = pieces[k][j]
    BY <2>4
  <2>6. j = 1
    BY <2>1, <2>2, <2>5, <1>5
  <2>7. at[k - 1] \in Nat
    <3>1. k - 1 \in 0 .. n
      OBVIOUS
    <3> QED BY <3>1, <1>3
  <2> QED BY SMTT(30), <2>1, <2>2, <2>5, <2>6, <2>7
<1>7. ASSUME NEW k \in 0 .. n PROVE at[k] \in ExtensionStarts(data)
  <2>1. PICK o \in Nat : o = at[k]
    BY <1>3
  <2>2. CASE k = n
    <3>1. o >= Len(data)
      BY <2>1, <2>2, <1>3
    <3> QED BY <2>1, <3>1, <1>4
  <2>3. CASE k # n
    <3>1. PICK e \in 1 .. n : e = k + 1 /\ e - 1 = k
      BY <2>3
    <3>2. data[at[e - 1] + 1] = pieces[e][1]
      BY <1>1, <1>2, <1>5 DEF PiecesAt
    <3>3. "extension" \in DOMAIN data[o + 1]
      BY <3>1, <3>2, <2>1, <1>5
    <3> QED BY <2>1, <3>3, <1>4
  <2> QED BY <2>2, <2>3
<1>8. ASSUME NEW o \in ExtensionStarts(data)
      PROVE  o \in Nat /\ (o >= Len(data) \/ \E k \in 1 .. n : o = at[k - 1])
  BY <1>4, <1>6
<1> QED BY <1>1, <1>7, <1>8 DEF BeginsAt

LEMMA Walk ==
  ASSUME NEW n \in Nat, NEW f, NEW at, \A k \in 1 .. n : f[at[k - 1]] = f[at[k]]
  PROVE  f[at[0]] = f[at[n]]
<1> DEFINE T == {k \in Nat : k <= n => f[at[0]] = f[at[k]]}
<1>1. 0 \in T
  OBVIOUS
<1>2. ASSUME NEW k \in Nat, k \in T, k + 1 <= n PROVE f[at[0]] = f[at[k + 1]]
  <2>1. PICK j \in 1 .. n : j = k + 1 /\ j - 1 = k
    BY <1>2
  <2> QED BY <2>1, <1>2
<1> HIDE DEF T
<1>3. \A k \in Nat : k \in T => k + 1 \in T
  BY <1>2 DEF T
<1>4. n \in T
  BY <1>1, <1>3, Induction
<1> QED BY <1>4 DEF T

\* The loop goes over the first stop extensions of list and ends with result.
StopsWith(list, stop, result) ==
  /\ stop \in 0 .. Len(list) /\ \A k \in 1 .. stop : list[k] = Tls!Other
  /\ \A k \in stop + 2 .. Len(list) : list[k] = Tls!Other
  /\ stop = Len(list) => result = Err
  /\ stop < Len(list) =>
       \E h \in Hosts : \E size \in Nat :
         list[stop + 1] = Tls!ServerName(h) /\ list[stop + 1] # Tls!Other /\ result = Parsed(h, 5 + size)

Stops(data, at, list) ==
  \E stop, result :
    /\ StopsWith(list, stop, result)
    /\ \A f : stop < Len(list) => ExtensionStep(data, f, at[stop]) = result

LEMMA LoopStops ==
  ASSUME NEW S, NEW data \in Seq(S), NEW at, NEW pieces \in Seq(Seq(S)), NEW list \in Seq(Extension),
         ExtensionsAt(data, at, pieces, list), OneName(list)
  PROVE  Stops(data, at, list)
<1>1. PICK n \in Nat : n = Len(list) /\ DOMAIN list = 1 .. n
  OBVIOUS
<1>2. CASE \A k \in 1 .. n : list[k] = Tls!Other
  <2>1. n \in 0 .. n /\ ~ (n < n) /\ \A k \in n + 2 .. n : k \in 1 .. n
    OBVIOUS
  <2>2. StopsWith(list, n, Err)
    BY <2>1, <1>1, <1>2 DEF StopsWith
  <2> QED BY <2>1, <2>2, <1>1 DEF Stops
<1>3. ASSUME NEW k \in 1 .. n, list[k] # Tls!Other
      PROVE  Stops(data, at, list)
  <2>1. RoundAt(data, at, list[k], k)
    BY <1>1, Rounds
  <2>2. PICK h \in Hosts, size \in Nat :
          list[k] = Tls!ServerName(h) /\ \A f : ExtensionStep(data, f, at[k - 1]) = Parsed(h, 5 + size)
    BY <2>1, <1>3 DEF RoundAt
  <2>3. PICK q \in 0 .. n : q = k - 1 /\ q + 1 = k /\ q < n
    OBVIOUS
  <2>4. \A i \in 1 .. n : i # k => list[i] = Tls!Other
    BY <1>1, <1>3 DEF OneName
  <2>5. (\A i \in 1 .. q : i \in 1 .. n /\ i # k) /\ (\A i \in q + 2 .. n : i \in 1 .. n /\ i # k)
    BY <2>3
  <2>6. StopsWith(list, q, Parsed(h, 5 + size))
    <3>1. q # n
      BY <2>3
    <3> QED BY <3>1, <2>2, <2>3, <2>4, <2>5, <1>1, <1>3 DEF StopsWith
  <2> QED BY <2>2, <2>3, <2>6, <1>1 DEF Stops
<1> QED BY <1>2, <1>3

--------------------------------------------------------------------------------
\* What is to be found of the names in list.
Finds(result, list) ==
  IF Tls!HostsOf(list) = {} THEN result = Err ELSE result.ok /\ {result.value} = Tls!HostsOf(list)

LEMMA StopFinds ==
  ASSUME NEW list \in Seq(Extension), NEW stop, NEW result, StopsWith(list, stop, result)
  PROVE  Finds(result, list)
<1>1. PICK n \in Nat : n = Len(list) /\ DOMAIN list = 1 .. n
  OBVIOUS
<1>2. /\ stop \in 0 .. n /\ \A k \in 1 .. stop : list[k] = Tls!Other
      /\ \A k \in stop + 2 .. n : list[k] = Tls!Other
  BY <1>1 DEF StopsWith
<1>3. \A k \in 1 .. n : k # stop + 1 => list[k] = Tls!Other
  <2>1. \A k \in 1 .. n : k \in 1 .. stop \/ k = stop + 1 \/ k \in stop + 2 .. n
    BY <1>2
  <2> QED BY <2>1, <1>2
<1>4. CASE stop = n
  <2>1. result = Err
    BY <1>1, <1>4 DEF StopsWith
  <2>2. \A k \in 1 .. n : k # stop + 1
    BY <1>4
  <2>3. Tls!HostsOf(list) = {}
    BY <1>1, <1>3, <2>2 DEF Tls!HostsOf
  <2> QED BY <2>1, <2>3 DEF Finds
<1>5. CASE stop # n
  <2>1. stop < n /\ stop + 1 \in 1 .. n
    BY <1>2, <1>5
  <2>2. PICK h \in Hosts, size \in Nat :
          list[stop + 1] = Tls!ServerName(h) /\ list[stop + 1] # Tls!Other /\ result = Parsed(h, 5 + size)
    BY <1>1, <2>1 DEF StopsWith
  <2>3. {list[k] : k \in 1 .. n} \ {Tls!Other} = {list[stop + 1]}
    BY <1>3, <2>1, <2>2
  <2>4. list[stop + 1].host = h
    BY <2>2 DEF Tls!ServerName
  <2>5. Tls!HostsOf(list) = {h}
    BY <1>1, <2>3, <2>4 DEF Tls!HostsOf
  <2>6. Parsed(h, 5 + size).ok = TRUE /\ Parsed(h, 5 + size).value = h
    BY Results
  <2> QED BY <2>2, <2>5, <2>6 DEF Finds
<1> QED BY <1>4, <1>5

LEMMA NameFound ==
  ASSUME NEW S, NEW data \in Seq(S), NEW at, NEW pieces \in Seq(Seq(S)), NEW list \in Seq(Extension),
         ExtensionsAt(data, at, pieces, list), OneName(list)
  PROVE  Finds(Tls!FindServerName(data), list)
<1>1. PICK n \in Nat : n = Len(list) /\ n = Len(pieces)
  BY DEF ExtensionsAt
<1>2. PICK stop, result : /\ StopsWith(list, stop, result)
                          /\ \A f : stop < Len(list) => ExtensionStep(data, f, at[stop]) = result
  <2>1. Stops(data, at, list)
    BY LoopStops
  <2> QED BY <2>1 DEF Stops
<1>3. /\ stop \in 0 .. n /\ \A k \in 1 .. stop : list[k] = Tls!Other
      /\ \A k \in stop + 2 .. n : list[k] = Tls!Other
      /\ stop = n => result = Err
  BY <1>1, <1>2 DEF StopsWith
<1>4. PiecesAt(at, pieces, data)
  BY DEF ExtensionsAt
<1>5. at \in [0 .. n -> Nat] /\ at[0] = 0 /\ at[n] = Len(data)
  BY <1>1, <1>4 DEF PiecesAt
<1>6. \A i, j \in 0 .. n : i <= j => at[i] <= at[j]
  <2>1. \A i, j \in 0 .. Len(pieces) : i <= j => at[i] <= at[j]
    BY <1>4, PiecesInOrder
  <2> QED BY <2>1, <1>1
<1>7. ASSUME NEW k \in 1 .. n
      PROVE  /\ RoundAt(data, at, list[k], k) /\ at[k - 1] < at[k]
             /\ k \in 0 .. n /\ k - 1 \in 0 .. n /\ at[k - 1] \in Nat /\ at[k] \in Nat
  <2>1. RoundAt(data, at, list[k], k) /\ at[k - 1] < at[k]
    BY <1>1, Rounds
  <2>2. k \in 0 .. n /\ k - 1 \in 0 .. n
    OBVIOUS
  <2> QED BY <2>1, <2>2, <1>5
<1> DEFINE D == ExtensionStarts(data)
           F(f, o) == ExtensionStep(data, f, o)
           g == [o \in D |-> IF o <= at[stop] THEN result ELSE Err]
<1>8. /\ \A o \in D : o \in Nat /\ (o >= Len(data) \/ \E k \in 1 .. n : o = at[k - 1])
      /\ \A k \in 0 .. n : at[k] \in D
  <2>1. BeginsAt(data, at, n)
    BY <1>1, ExtensionsStart
  <2> QED BY <2>1 DEF BeginsAt
<1>9. ASSUME NEW f, NEW o \in D, o >= Len(data) PROVE F(f, o) = Err
  BY <1>9 DEF ExtensionStep
<1>10. ASSUME NEW f, NEW k \in 1 .. n, k # stop + 1 PROVE F(f, at[k - 1]) = f[at[k]]
  <2>1. k \in 1 .. stop \/ k \in stop + 2 .. n
    BY <1>3, <1>10
  <2>2. list[k] = Tls!Other
    BY <2>1, <1>3
  <2> QED BY <2>2, <1>7 DEF RoundAt
<1>11. ASSUME NEW f, stop # n PROVE F(f, at[stop]) = result
  <2>1. stop < Len(list)
    BY <1>1, <1>3, <1>11
  <2> QED BY <2>1, <1>2
<1> HIDE DEF D, F
<1>12. ASSUME NEW o \in D PROVE g[o] = F(g, o)
  <2>1. PICK z \in Nat : z = at[stop]
    BY <1>3, <1>5
  <2>2. CASE o >= Len(data)
    <3>1. F(g, o) = Err
      <4> HIDE DEF g
      <4> QED BY <2>2, <1>9
    <3>2. CASE stop = n
      BY <3>1, <3>2, <1>3
    <3>3. CASE stop # n
      <4>1. PICK k \in 1 .. n : k = stop + 1 /\ k - 1 = stop
        BY <3>3, <1>3
      <4>2. at[stop] < at[k] /\ at[k] <= at[n] /\ at[k] \in Nat
        <5>1. k \in 0 .. n /\ n \in 0 .. n /\ k <= n
          OBVIOUS
        <5>2. at[k] <= at[n]
          BY <5>1, <1>6
        <5> QED BY <5>2, <4>1, <1>7
      <4>3. ~ (o <= at[stop])
        BY <4>2, <2>1, <2>2, <1>5, <1>8
      <4> QED BY <3>1, <4>3
    <3> QED BY <3>2, <3>3
  <2>3. ASSUME NEW k \in 1 .. n, o = at[k - 1] PROVE g[o] = F(g, o)
    <3>1. k \in 0 .. n /\ k - 1 \in 0 .. n /\ at[k - 1] \in Nat /\ at[k] \in Nat /\ at[k - 1] < at[k] /\ at[k] \in D
      BY <1>7, <1>8
    <3>2. CASE k = stop + 1
      <4>1. k - 1 = stop /\ stop # n
        BY <3>2, <1>3
      <4>2. g[o] = result
        BY <4>1, <2>1, <2>3
      <4> HIDE DEF g
      <4> QED BY <4>1, <4>2, <2>3, <1>11
    <3>3. CASE k # stop + 1
      <4>1. F(g, o) = g[at[k]]
        <5> HIDE DEF g
        <5> QED BY <3>3, <2>3, <1>10
      <4>2. o <= at[stop] <=> at[k] <= at[stop]
        <5>1. CASE k <= stop
          <6>1. at[k] <= at[stop]
            BY <5>1, <3>1, <1>3, <1>6
          <6> QED BY <6>1, <3>1, <2>1, <2>3
        <5>2. CASE ~ (k <= stop)
          <6>1. PICK e \in 1 .. n : e = stop + 1 /\ e - 1 = stop /\ e <= k - 1
            BY <5>2, <3>3, <1>3
          <6>2. at[stop] < at[e] /\ at[e] \in Nat /\ e \in 0 .. n
            BY <6>1, <1>7
          <6>3. at[e] <= at[k - 1]
            BY <6>1, <6>2, <3>1, <1>6
          <6> QED BY <6>2, <6>3, <3>1, <2>1, <2>3
        <5> QED BY <5>1, <5>2
      <4> QED BY <4>1, <4>2, <3>1
    <3> QED BY <3>2, <3>3
  <2> HIDE DEF g
  <2> QED BY <2>2, <2>3, <1>8
<1>13. g = [o \in D |-> F(g, o)]
  <2>1. g = [o \in D |-> g[o]]
    OBVIOUS
  <2> HIDE DEF g
  <2> QED BY <2>1, <1>12
<1> HIDE DEF g
<1>14. NameFinder(data) = CHOOSE f : f = [o \in D |-> F(f, o)]
  BY DEF NameFinder, D, F
<1>15. PICK f : f = NameFinder(data) /\ f = [o \in D |-> F(f, o)]
  BY <1>13, <1>14
<1>16. \A k \in 0 .. n : f[at[k]] = F(f, at[k])
  BY <1>8, <1>15
<1>17. f[at[stop]] = result
  <2>1. f[at[stop]] = F(f, at[stop]) /\ at[stop] \in D
    BY <1>3, <1>8, <1>16
  <2>2. CASE stop = n
    <3>1. at[stop] >= Len(data)
      BY <2>2, <1>5
    <3> QED BY <3>1, <2>1, <2>2, <1>3, <1>9
  <2>3. CASE stop # n
    BY <2>1, <2>3, <1>11
  <2> QED BY <2>2, <2>3
<1>18. ASSUME NEW k \in 1 .. stop PROVE f[at[k - 1]] = f[at[k]]
  <2>1. k \in 1 .. n /\ k # stop + 1 /\ k - 1 \in 0 .. n
    BY <1>3
  <2> QED BY <2>1, <1>10, <1>16
<1>19. f[at[0]] = f[at[stop]]
  BY <1>3, <1>18, Walk
<1>20. Tls!FindServerName(data) = result
  BY <1>5, <1>15, <1>17, <1>19, FindServerNameReads
<1> QED BY <1>2, <1>20, StopFinds

--------------------------------------------------------------------------------
(***************************************************************************)
(* How it reads a ClientHello, whole or cut.                               *)
(***************************************************************************)
\* The octets of a ClientHello, or of the beginning of one, of which there are n.
Begun(t, n) ==
  /\ t \in Seq(TlsOctet) /\ Len(t) = n /\ n >= 1
  /\ t[1] = [handshake |-> "client_hello"] /\ \A i \in 2 .. n : t[i] \in LaterOctet

LEMMA GoesOn ==
  ASSUME NEW s, NEW n \in Nat, Begun(s, n), NEW first \in LaterOctet, NEW size \in Nat
  PROVE  Begun(s \o Field(first, size), n + size) /\ Adds(s \o Field(first, size), s, n, first, size)
<1> DEFINE t == s \o Field(first, size)
<1>1. /\ s \in Seq(TlsOctet) /\ n = Len(s) /\ n >= 1
      /\ s[1] = [handshake |-> "client_hello"] /\ \A i \in 2 .. n : s[i] \in LaterOctet
  BY DEF Begun
<1>2. first \in TlsOctet /\ Inside \in TlsOctet /\ Inside \in LaterOctet
  BY LaterOctets
<1>3. t \in Seq(TlsOctet) /\ Adds(t, s, n, first, size)
  BY <1>1, <1>2, FieldBehind, Zenon
<1> HIDE DEF t
<1>4. /\ Len(t) = n + size /\ \A i \in 1 .. n : t[i] = s[i]
      /\ \A i \in 1 .. size : t[n + i] = IF i = 1 THEN first ELSE Inside
  BY <1>3 DEF Adds
<1>5. t[1] = [handshake |-> "client_hello"]
  <2>1. 1 \in 1 .. n
    BY <1>1
  <2> QED BY <2>1, <1>1, <1>4
<1>6. ASSUME NEW i \in 2 .. n + size PROVE t[i] \in LaterOctet
  <2>1. CASE i <= n
    <3>1. i \in 1 .. n /\ i \in 2 .. n
      BY <2>1
    <3> QED BY <3>1, <1>1, <1>4
  <2>2. CASE ~ (i <= n)
    <3>1. PICK j \in 1 .. size : i = n + j
      <4>1. i - n \in 1 .. size /\ i = n + (i - n)
        BY <2>2
      <4> QED BY <4>1
    <3>2. t[n + j] = IF j = 1 THEN first ELSE Inside
      BY <1>4
    <3> QED BY <3>1, <3>2, <1>2
  <2> QED BY <2>1, <2>2
<1>7. Begun(t, n + size)
  <2>1. n + size >= 1
    BY <1>1
  <2> QED BY <2>1, <1>3, <1>4, <1>5, <1>6 DEF Begun
<1> QED BY <1>3, <1>7 DEF t

\* The ClientHello before its extensions: the session ID has sid octets.
HelloBegun(t, sid) ==
  /\ Begun(t, 45 + sid)
  /\ t[39] = [length |-> sid] /\ t[40 + sid] = [length |-> 2] /\ t[44 + sid] = [length |-> 1]

HelloStart(sid) ==
  ((((((Field([handshake |-> "client_hello"], 4) \o Field(Inside, 34))
    \o Field([length |-> sid], 1)) \o Field(Inside, sid))
    \o Field([length |-> 2], 2)) \o Field(Inside, 2))
    \o Field([length |-> 1], 1)) \o Field(Inside, 1)

LEMMA HelloBegins ==
  ASSUME NEW sid \in Nat
  PROVE  HelloBegun(HelloStart(sid), sid)
<1> DEFINE e0 == [handshake |-> "client_hello"]
           e1 == [length |-> sid]
           e2 == [length |-> 2]
           e3 == [length |-> 1]
           s0 == Field(e0, 4)
           s1 == s0 \o Field(Inside, 34)
           s2 == s1 \o Field(e1, 1)
           s3 == s2 \o Field(Inside, sid)
           s4 == s3 \o Field(e2, 2)
           s5 == s4 \o Field(Inside, 2)
           s6 == s5 \o Field(e3, 1)
           s7 == s6 \o Field(Inside, 1)
<1>1. /\ e1 \in LaterOctet /\ e2 \in LaterOctet /\ e3 \in LaterOctet /\ Inside \in LaterOctet
      /\ e0 \in TlsOctet /\ Inside \in TlsOctet
  BY LaterOctets DEF TlsOctet
<1>2. HelloStart(sid) = s7
  BY DEF HelloStart
<1> HIDE DEF e1, e2, e3
<1>3. Begun(s0, 4)
  <2> HIDE DEF s1, s2, s3, s4, s5, s6, s7
  <2>1. \A i \in 1 .. 4 : (IF i = 1 THEN e0 ELSE Inside) \in TlsOctet
    BY <1>1
  <2>2. s0 \in Seq(TlsOctet) /\ Len(s0) = 4 /\ s0[1] = e0 /\ \A i \in 2 .. 4 : s0[i] = Inside
    BY <2>1 DEF Field
  <2> QED BY <2>2, <1>1 DEF Begun
<1> HIDE DEF s0
<1>4. Begun(s1, 4 + 34)
  BY <1>1, <1>3, GoesOn
<1> HIDE DEF s1
<1>5. Begun(s2, 38 + 1) /\ Adds(s2, s1, 38, e1, 1)
  BY <1>1, <1>4, GoesOn
<1> HIDE DEF s2
<1>6. Begun(s3, 39 + sid) /\ Adds(s3, s2, 39, Inside, sid)
  <2>1. 38 + 1 = 39 /\ 39 \in Nat
    OBVIOUS
  <2>2. Begun(s2, 39)
    BY <1>5, <2>1
  <2> HIDE DEF s3, s4, s5, s6, s7
  <2> QED BY <1>1, <2>1, <2>2, GoesOn DEF s3
<1> HIDE DEF s3
<1>7. PICK n3 \in Nat : n3 = 39 + sid
  OBVIOUS
<1>8. Begun(s4, n3 + 2) /\ Adds(s4, s3, n3, e2, 2)
  BY <1>1, <1>6, <1>7, GoesOn
<1> HIDE DEF s4
<1>9. PICK n4 \in Nat : n4 = n3 + 2
  OBVIOUS
<1>10. Begun(s5, n4 + 2) /\ Adds(s5, s4, n4, Inside, 2)
  BY <1>1, <1>8, <1>9, GoesOn
<1> HIDE DEF s5
<1>11. PICK n5 \in Nat : n5 = n4 + 2
  OBVIOUS
<1>12. Begun(s6, n5 + 1) /\ Adds(s6, s5, n5, e3, 1)
  BY <1>1, <1>10, <1>11, GoesOn
<1> HIDE DEF s6
<1>13. PICK n6 \in Nat : n6 = n5 + 1
  OBVIOUS
<1>14. Begun(s7, n6 + 1) /\ Adds(s7, s6, n6, Inside, 1)
  BY <1>1, <1>12, <1>13, GoesOn
<1> HIDE DEF s7
<1>15. n6 = 44 + sid /\ n6 + 1 = 45 + sid /\ n5 + 1 = 44 + sid /\ n3 + 1 = 40 + sid
  BY <1>7, <1>9, <1>11, <1>13
<1>16. s2[39] = e1 /\ s4[n3 + 1] = e2 /\ s6[n5 + 1] = e3
  <2>1. s2[38 + 1] = e1
    BY <1>5 DEF Adds
  <2>2. s4[n3 + 1] = e2
    BY <1>8 DEF Adds
  <2>3. s6[n5 + 1] = e3
    BY <1>12 DEF Adds
  <2> QED BY <2>1, <2>2, <2>3
<1>17. /\ \A i \in 1 .. 39 : s3[i] = s2[i]
       /\ \A i \in 1 .. n3 : s4[i] = s3[i]
       /\ \A i \in 1 .. n4 : s5[i] = s4[i]
       /\ \A i \in 1 .. n5 : s6[i] = s5[i]
       /\ \A i \in 1 .. n6 : s7[i] = s6[i]
  BY <1>6, <1>8, <1>10, <1>12, <1>14 DEF Adds
<1>18. /\ 39 \in 1 .. 39 /\ 39 \in 1 .. n3 /\ 39 \in 1 .. n4 /\ 39 \in 1 .. n5 /\ 39 \in 1 .. n6
       /\ n3 + 1 \in 1 .. n4 /\ n3 + 1 \in 1 .. n5 /\ n3 + 1 \in 1 .. n6 /\ n5 + 1 \in 1 .. n6
  BY <1>7, <1>9, <1>11, <1>13
<1>19. s7[39] = e1
  BY <1>16, <1>17, <1>18
<1>20. s7[n3 + 1] = e2
  BY <1>16, <1>17, <1>18
<1>21. s7[n5 + 1] = e3
  BY <1>16, <1>17, <1>18
<1>22. HelloBegun(s7, sid)
  BY <1>14, <1>15, <1>19, <1>20, <1>21 DEF HelloBegun, e1, e2, e3
<1> QED BY <1>2, <1>22

\* All of it: with extensions, their length and their octets come behind.
HelloIs(t, sid, data, extended) ==
  /\ Begun(t, Len(t)) /\ Len(t) = 45 + sid + (IF extended THEN 2 + Len(data) ELSE 0)
  /\ t[39] = [length |-> sid] /\ t[40 + sid] = [length |-> 2] /\ t[44 + sid] = [length |-> 1]
  /\ extended => /\ t[46 + sid] = [length |-> Len(data)]
                 /\ SubSeq(t, 48 + sid, 47 + sid + Len(data)) = data

LEMMA HelloEnds ==
  ASSUME NEW sid \in Nat, NEW s, HelloBegun(s, sid), NEW data \in Seq(LaterOctet)
  PROVE  HelloIs(s \o (Field([length |-> Len(data)], 2) \o data), sid, data, TRUE)
<1> DEFINE first == [length |-> Len(data)]
           f == Field(first, 2)
           r == f \o data
           t == s \o r
<1>1. PICK n \in Nat, k \in Nat : n = 45 + sid /\ k = Len(data)
  OBVIOUS
<1>2. first \in LaterOctet /\ Inside \in LaterOctet
  BY LaterOctets
<1>3. f \in Seq(LaterOctet) /\ Len(f) = 2 /\ f[1] = first
  <2> HIDE DEF first, r, t
  <2> QED BY <1>2, FieldOfTwo, Zenon
<1> HIDE DEF f
<1>4. /\ r \in Seq(LaterOctet) /\ Len(r) = 2 + k
      /\ r[1] = first /\ \A i \in 1 .. k : r[2 + i] = data[i]
  <2>1. f \in Seq(LaterOctet)
    BY <1>3
  <2> HIDE DEF first, t
  <2>2. /\ r \in Seq(LaterOctet) /\ Len(r) = Len(f) + Len(data)
        /\ \A j \in 1 .. Len(f) : r[j] = f[j]
        /\ \A j \in 1 .. Len(data) : r[Len(f) + j] = data[j]
    BY <2>1, Concatenation
  <2>3. 1 \in 1 .. 2
    OBVIOUS
  <2> HIDE DEF r
  <2> QED BY <2>2, <2>3, <1>1, <1>3
<1> HIDE DEF r
<1>5. s \in Seq(TlsOctet) /\ Len(s) = n /\ s[1] = [handshake |-> "client_hello"]
      /\ \A i \in 2 .. n : s[i] \in LaterOctet
  BY <1>1 DEF HelloBegun, Begun
<1>6. /\ t \in Seq(TlsOctet) /\ Len(t) = n + (2 + k)
      /\ \A i \in 1 .. n : t[i] = s[i]
      /\ \A i \in 1 .. 2 + k : t[n + i] = r[i]
  <2>1. s \in Seq(TlsOctet) /\ r \in Seq(TlsOctet)
    <3>1. \A i \in 1 .. 2 + k : r[i] \in TlsOctet
      BY <1>4, LaterOctets
    <3>2. r \in Seq(LaterOctet) /\ Len(r) = 2 + k
      BY <1>4
    <3> QED BY <3>1, <3>2, <1>5
  <2> HIDE DEF first
  <2>2. /\ t \in Seq(TlsOctet) /\ Len(t) = Len(s) + Len(r)
        /\ \A j \in 1 .. Len(s) : t[j] = s[j]
        /\ \A j \in 1 .. Len(r) : t[Len(s) + j] = r[j]
    BY <2>1, Concatenation
  <2>3. Len(r) = 2 + k /\ Len(s) = n
    BY <1>4, <1>5
  <2> HIDE DEF t
  <2> QED BY <2>2, <2>3
<1> HIDE DEF t
<1>7. Begun(t, Len(t))
  <2>1. ASSUME NEW i \in 2 .. n + (2 + k) PROVE t[i] \in LaterOctet
    <3>1. CASE i <= n
      <4>1. i \in 1 .. n /\ i \in 2 .. n
        BY <3>1
      <4> QED BY <4>1, <1>5, <1>6
    <3>2. CASE ~ (i <= n)
      <4>1. PICK j \in 1 .. 2 + k : i = n + j
        <5>1. i - n \in 1 .. 2 + k /\ i = n + (i - n)
          BY <3>2
        <5> QED BY <5>1
      <4>2. t[n + j] = r[j]
        BY <1>6
      <4>3. r[j] \in LaterOctet
        <5>1. r \in Seq(LaterOctet) /\ Len(r) = 2 + k
          BY <1>4
        <5> QED BY <5>1
      <4> QED BY <4>1, <4>2, <4>3
    <3> QED BY <3>1, <3>2
  <2>2. t[1] = [handshake |-> "client_hello"] /\ n + (2 + k) >= 1
    <3>1. 1 \in 1 .. n /\ n + (2 + k) >= 1
      BY <1>1
    <3> QED BY <3>1, <1>5, <1>6
  <2> QED BY <2>1, <2>2, <1>6 DEF Begun
<1>8. /\ s[39] = [length |-> sid] /\ s[40 + sid] = [length |-> 2] /\ s[44 + sid] = [length |-> 1]
  BY DEF HelloBegun
<1>9. /\ 39 \in 1 .. n /\ 40 + sid \in 1 .. n /\ 44 + sid \in 1 .. n
      /\ 46 + sid = n + 1 /\ 48 + sid = (n + 2) + 1 /\ 47 + sid + k = n + 2 + k
      /\ 1 \in 1 .. 2 + k
  BY <1>1
<1>10. /\ t[39] = [length |-> sid] /\ t[40 + sid] = [length |-> 2] /\ t[44 + sid] = [length |-> 1]
  BY <1>6, <1>8, <1>9
<1>11. t[46 + sid] = first
  BY <1>4, <1>6, <1>9, Zenon
<1>12. SubSeq(t, 48 + sid, 47 + sid + k) = data
  <2>1. PICK w \in Nat, z \in Nat : w = n + 2 /\ z = n + 2 + k /\ w <= z /\ z <= Len(t) /\ z - w = k
    BY <1>6
  <2>2. /\ SubSeq(t, w + 1, z) \in Seq(TlsOctet) /\ Len(SubSeq(t, w + 1, z)) = z - w
        /\ \A j \in 1 .. z - w : SubSeq(t, w + 1, z)[j] = t[w + j]
    <3>1. t \in Seq(TlsOctet)
      BY <1>6
    <3> QED BY <2>1, <3>1, Slice
  <2>3. ASSUME NEW j \in 1 .. k PROVE t[w + j] = data[j]
    <3>1. PICK i \in 1 .. 2 + k : i = 2 + j /\ n + i = w + j
      BY <2>1
    <3> QED BY <3>1, <1>4, <1>6
  <2>4. SubSeq(t, w + 1, z) = data
    <3> DEFINE u == SubSeq(t, w + 1, z)
    <3>1. u \in Seq(TlsOctet) /\ Len(u) = k /\ \A j \in 1 .. k : u[j] = data[j]
      BY <2>1, <2>2, <2>3
    <3> HIDE DEF u
    <3>2. u = data
      BY <3>1, <1>1, SeqEqual
    <3> QED BY <3>2 DEF u
  <2> QED BY <2>1, <2>4, <1>9
<1>13. Len(t) = 45 + sid + (2 + Len(data))
  BY <1>1, <1>6
<1>14. HelloIs(t, sid, data, TRUE)
  BY <1>1, <1>7, <1>10, <1>11, <1>12, <1>13 DEF HelloIs, first
<1> QED BY <1>14 DEF t, r, f, first

--------------------------------------------------------------------------------
\* What is made of what a record holds.
HelloRead(hello) ==
  IF Len(hello) < 4 THEN Err
  ELSE IF "handshake" \notin DOMAIN hello[1] \/ hello[1].handshake # "client_hello" THEN Err
  ELSE Tls!ParseHello(hello)

\* hello is t, or the first n octets of it.
FirstOctets(hello, t, n) == Len(hello) = n /\ n <= Len(t) /\ \A i \in 1 .. n : hello[i] = t[i]

\* What parse_tls_client_hello makes of the n octets of hello, by the offsets it
\* works out.
HelloParsed(hello, n, suites, methods, length) ==
  IF n <= 38 THEN Err
  ELSE IF suites >= n THEN Err
  ELSE IF suites + 1 >= n THEN Panic
  ELSE IF methods >= n THEN Err
  ELSE IF length >= n THEN Err
  ELSE IF length + 1 >= n THEN Panic
  ELSE IF n < length + 2 + hello[length + 1].length THEN Err
  ELSE Tls!FindServerName(SubSeq(hello, length + 3, length + 2 + hello[length + 1].length))
Suites(hello) == 39 + hello[39].length
Methods(hello, suites) == suites + 2 + hello[suites + 1].length
LengthOf(hello, methods) == methods + 1 + hello[methods + 1].length

LEMMA HelloParses ==
  ASSUME NEW hello
  PROVE  Tls!ParseHello(hello) =
           HelloParsed(hello, Len(hello), Suites(hello), Methods(hello, Suites(hello)),
                       LengthOf(hello, Methods(hello, Suites(hello))))
BY DEF Tls!ParseHello, HelloParsed, Suites, Methods, LengthOf, Tls!Err, Err, Tls!Panic, Panic

LEMMA BeginningReads ==
  ASSUME NEW sid \in Nat, NEW data \in Seq(LaterOctet), NEW extended \in BOOLEAN, NEW t,
         HelloIs(t, sid, data, extended), NEW hello, NEW n \in Nat, n >= 1, FirstOctets(hello, t, n)
  PROVE  HelloRead(hello) =
           IF n = 40 + sid \/ (n = 46 + sid /\ extended) THEN Panic
           ELSE IF n = Len(t) /\ extended
           THEN Tls!FindServerName(SubSeq(hello, 48 + sid, 47 + sid + Len(data)))
           ELSE Err
<1>1. PICK k \in Nat : k = Len(data)
  OBVIOUS
<1>2. Len(hello) = n /\ n <= Len(t) /\ \A i \in 1 .. n : hello[i] = t[i]
  BY DEF FirstOctets
<1>3. Len(t) = 45 + sid + (IF extended THEN 2 + k ELSE 0)
  BY <1>1 DEF HelloIs
<1>4. t[1] = [handshake |-> "client_hello"]
  BY DEF HelloIs, Begun
<1>5. "handshake" \in DOMAIN hello[1] /\ hello[1].handshake = "client_hello"
  <2>1. 1 \in 1 .. n
    OBVIOUS
  <2>2. hello[1] = [handshake |-> "client_hello"]
    BY <2>1, <1>2, <1>4
  <2> QED BY <2>2
<1>0. Tls!ParseHello(hello) =
        HelloParsed(hello, n, Suites(hello), Methods(hello, Suites(hello)),
                    LengthOf(hello, Methods(hello, Suites(hello))))
  BY <1>2, HelloParses
<1>6. n <= 38 => HelloRead(hello) = Err
  <2>1. ASSUME n <= 38 PROVE Tls!ParseHello(hello) = Err
    BY <2>1, <1>0 DEF HelloParsed
  <2> QED BY <2>1, <1>2, <1>5 DEF HelloRead
<1>7. ASSUME n >= 39 PROVE HelloRead(hello) = Tls!ParseHello(hello) /\ hello[39].length = sid
  <2>1. 39 \in 1 .. n /\ ~ (n < 4)
    BY <1>7
  <2>2. t[39] = [length |-> sid]
    BY DEF HelloIs
  <2>3. hello[39] = [length |-> sid]
    BY <2>1, <2>2, <1>2
  <2> QED BY <2>1, <2>3, <1>2, <1>5 DEF HelloRead
<1>8. ASSUME n >= 39, n <= 39 + sid PROVE HelloRead(hello) = Err
  <2>1. PICK suites \in Nat : suites = 39 + sid
    OBVIOUS
  <2>2. Suites(hello) = suites
    BY <2>1, <1>7, <1>8 DEF Suites
  <2>3. ~ (n <= 38) /\ suites >= n
    BY <2>1, <1>8
  <2>4. Tls!ParseHello(hello) = Err
    BY <2>2, <2>3, <1>0 DEF HelloParsed
  <2> QED BY <2>4, <1>7, <1>8
<1>9. ASSUME n = 40 + sid PROVE HelloRead(hello) = Panic
  <2>1. PICK suites \in Nat : suites = 39 + sid
    OBVIOUS
  <2>2. n >= 39 /\ ~ (n <= 38) /\ ~ (suites >= n) /\ suites + 1 >= n
    BY <2>1, <1>9
  <2>3. Suites(hello) = suites
    BY <2>1, <2>2, <1>7 DEF Suites
  <2>4. Tls!ParseHello(hello) = Panic
    BY <2>2, <2>3, <1>0 DEF HelloParsed
  <2> QED BY <2>2, <2>4, <1>7
<1>10. ASSUME n > 40 + sid
       PROVE  /\ hello[39 + sid + 1].length = 2 /\ n >= 39
              /\ ~ (n <= 38) /\ ~ (39 + sid >= n) /\ ~ (39 + sid + 1 >= n)
  <2>1. PICK i \in 1 .. n : i = 39 + sid + 1 /\ i = 40 + sid
    BY <1>10
  <2>2. t[40 + sid] = [length |-> 2]
    BY DEF HelloIs
  <2>3. hello[i] = [length |-> 2]
    BY <2>1, <2>2, <1>2
  <2>4. n >= 39 /\ ~ (n <= 38) /\ ~ (39 + sid >= n) /\ ~ (39 + sid + 1 >= n)
    BY <1>10
  <2> QED BY <2>1, <2>3, <2>4
<1> DEFINE suites == 39 + sid
           methods == suites + 2 + 2
           length == methods + 1 + 1
<1>11. ASSUME n > 40 + sid, n <= 43 + sid PROVE HelloRead(hello) = Err
  <2>1. methods >= n
    BY <1>11
  <2>2. hello[39].length = sid /\ hello[suites + 1].length = 2
        /\ ~ (n <= 38) /\ ~ (suites >= n) /\ ~ (suites + 1 >= n)
    BY <1>7, <1>10, <1>11
  <2> HIDE DEF suites
  <2>3. Suites(hello) = suites
    BY <2>2 DEF suites, Suites
  <2>4. Methods(hello, suites) = methods
    BY <2>2 DEF Methods
  <2> HIDE DEF methods
  <2>5. Tls!ParseHello(hello) = Err
    BY <2>1, <2>2, <2>3, <2>4, <1>0 DEF HelloParsed
  <2> QED BY <2>5, <1>7, <1>10, <1>11
<1>12. ASSUME n > 43 + sid
       PROVE  hello[methods + 1].length = 1 /\ ~ (methods >= n) /\ n > 40 + sid
  <2>1. PICK i \in 1 .. n : i = methods + 1 /\ i = 44 + sid
    BY <1>12
  <2>2. t[44 + sid] = [length |-> 1]
    BY DEF HelloIs
  <2>3. hello[i] = [length |-> 1]
    BY <2>1, <2>2, <1>2
  <2>4. ~ (methods >= n) /\ n > 40 + sid
    BY <1>12
  <2> QED BY <2>1, <2>3, <2>4
<1>13. ASSUME n > 43 + sid
       PROVE  Tls!ParseHello(hello) =
                IF length >= n THEN Err
                ELSE IF length + 1 >= n THEN Panic
                ELSE IF n < length + 2 + hello[length + 1].length THEN Err
                ELSE Tls!FindServerName(SubSeq(hello, length + 3, length + 2 + hello[length + 1].length))
  <2>1. hello[39].length = sid /\ hello[suites + 1].length = 2 /\ hello[methods + 1].length = 1
    BY <1>7, <1>10, <1>12, <1>13
  <2>2. ~ (n <= 38) /\ ~ (suites >= n) /\ ~ (suites + 1 >= n) /\ ~ (methods >= n)
    BY <1>10, <1>12, <1>13
  <2> HIDE DEF suites
  <2>3. Suites(hello) = suites
    BY <2>1 DEF suites, Suites
  <2>4. Methods(hello, suites) = methods
    BY <2>1 DEF Methods
  <2> HIDE DEF methods
  <2>5. LengthOf(hello, methods) = length
    BY <2>1 DEF LengthOf
  <2> HIDE DEF length
  <2>6. Tls!ParseHello(hello) = HelloParsed(hello, n, suites, methods, length)
    BY <2>3, <2>4, <2>5, <1>0
  <2> QED BY <2>2, <2>6 DEF HelloParsed
<1>14. ASSUME n > 43 + sid PROVE HelloRead(hello) = Tls!ParseHello(hello) /\ length = 45 + sid
  <2>1. n >= 39 /\ length = 45 + sid
    BY <1>14
  <2> QED BY <2>1, <1>7
<1>15. ASSUME n > 43 + sid, n <= 45 + sid PROVE HelloRead(hello) = Err
  <2>1. length >= n
    BY <1>15
  <2> QED BY <2>1, <1>13, <1>14, <1>15
<1>16. ASSUME n > 45 + sid
       PROVE  /\ extended /\ n <= 47 + sid + k /\ n > 43 + sid /\ Len(t) = 47 + sid + k
              /\ hello[46 + sid].length = k
  <2>1. n > 43 + sid /\ extended
    BY <1>2, <1>3, <1>16
  <2>2. Len(t) = 47 + sid + k
    BY <2>1, <1>3
  <2>3. t[46 + sid] = [length |-> k]
    BY <2>1, <1>1 DEF HelloIs
  <2>4. hello[46 + sid] = [length |-> k]
    <3>1. 46 + sid \in 1 .. n
      BY <1>16
    <3> QED BY <3>1, <2>3, <1>2
  <2> QED BY <2>1, <2>2, <2>4, <1>2
<1>17. ASSUME n = 46 + sid PROVE HelloRead(hello) = Panic /\ extended
  <2>1. n > 45 + sid /\ n > 43 + sid /\ ~ (45 + sid >= n) /\ (45 + sid) + 1 >= n
    BY <1>17
  <2> HIDE DEF length
  <2> QED BY <2>1, <1>13, <1>14, <1>16
<1>18. ASSUME n > 46 + sid
       PROVE  HelloRead(hello) =
                IF n < 47 + sid + k THEN Err ELSE Tls!FindServerName(SubSeq(hello, 48 + sid, 47 + sid + k))
  <2>1. n > 45 + sid /\ n > 43 + sid /\ ~ (45 + sid >= n) /\ ~ ((45 + sid) + 1 >= n)
    BY <1>18
  <2>2. /\ (45 + sid) + 1 = 46 + sid /\ (45 + sid) + 3 = 48 + sid
        /\ (45 + sid) + 2 + k = 47 + sid + k
    OBVIOUS
  <2>3. hello[46 + sid].length = k
    BY <2>1, <1>16
  <2> HIDE DEF length
  <2> QED BY <2>1, <2>2, <2>3, <1>13, <1>14
<1> HIDE DEF suites, methods, length
<1>19. \/ n <= 38 \/ (n >= 39 /\ n <= 39 + sid) \/ n = 40 + sid \/ (n > 40 + sid /\ n <= 43 + sid)
       \/ (n > 43 + sid /\ n <= 45 + sid) \/ n = 46 + sid \/ n > 46 + sid
  OBVIOUS
<1>20. CASE n <= 45 + sid /\ n # 40 + sid
  <2>1. HelloRead(hello) = Err
    <3>1. \/ n <= 38 \/ (n >= 39 /\ n <= 39 + sid) \/ (n > 40 + sid /\ n <= 43 + sid)
          \/ (n > 43 + sid /\ n <= 45 + sid)
      BY <1>20
    <3> QED BY <3>1, <1>6, <1>8, <1>11, <1>15
  <2>2. n # 46 + sid /\ ~ (n = Len(t) /\ extended)
    BY <1>3, <1>20
  <2> QED BY <2>1, <2>2, <1>20
<1>21. CASE n = 40 + sid
  BY <1>9, <1>21
<1>22. CASE n = 46 + sid
  BY <1>17, <1>22
<1>23. CASE n > 46 + sid
  <2>1. n > 45 + sid /\ n # 40 + sid /\ n # 46 + sid
    BY <1>23
  <2>2. extended /\ n <= 47 + sid + k /\ Len(t) = 47 + sid + k
    BY <2>1, <1>16
  <2>3. n < 47 + sid + k <=> n # Len(t)
    BY <2>2
  <2> QED BY <2>1, <2>2, <2>3, <1>1, <1>18, <1>23
<1>24. (n <= 45 + sid /\ n # 40 + sid) \/ n = 40 + sid \/ n = 46 + sid \/ n > 46 + sid
  OBVIOUS
<1> QED BY <1>20, <1>21, <1>22, <1>23, <1>24

--------------------------------------------------------------------------------
LEMMA WholeHelloReads ==
  ASSUME NEW sid \in Nat, NEW data \in Seq(LaterOctet), NEW extended \in BOOLEAN, NEW t,
         HelloIs(t, sid, data, extended)
  PROVE  HelloRead(t) = IF extended THEN Tls!FindServerName(data) ELSE Err
<1>1. PICK n \in Nat : n = Len(t) /\ n >= 1
  <2>1. t \in Seq(TlsOctet) /\ Len(t) >= 1
    BY DEF HelloIs, Begun
  <2> QED BY <2>1
<1>2. FirstOctets(t, t, n)
  BY <1>1 DEF FirstOctets
<1>3. n = 45 + sid + (IF extended THEN 2 + Len(data) ELSE 0)
  BY <1>1 DEF HelloIs
<1>4. Len(data) \in Nat
  OBVIOUS
<1>5. n # 40 + sid /\ ~ (n = 46 + sid /\ extended)
  <2>1. CASE extended
    <3>1. n = 45 + sid + (2 + Len(data))
      BY <2>1, <1>3
    <3> QED BY <3>1, <1>4
  <2>2. CASE ~ extended
    <3>1. n = 45 + sid + 0
      BY <2>2, <1>3
    <3> QED BY <3>1, <2>2
  <2> QED BY <2>1, <2>2
<1>6. extended => SubSeq(t, 48 + sid, 47 + sid + Len(data)) = data
  BY DEF HelloIs
<1>7. HelloRead(t) =
        IF n = 40 + sid \/ (n = 46 + sid /\ extended) THEN Panic
        ELSE IF n = Len(t) /\ extended
        THEN Tls!FindServerName(SubSeq(t, 48 + sid, 47 + sid + Len(data)))
        ELSE Err
  BY <1>1, <1>2, BeginningReads
<1> QED BY <1>1, <1>5, <1>6, <1>7

LEMMA CutHelloReads ==
  ASSUME NEW sid \in Nat, NEW data \in Seq(LaterOctet), NEW extended \in BOOLEAN, NEW t,
         HelloIs(t, sid, data, extended), NEW n \in 1 .. Len(t) - 1
  PROVE  /\ SubSeq(t, 1, n) \in Seq(TlsOctet)
         /\ HelloRead(SubSeq(t, 1, n)) = IF n - 1 \in {39 + sid, 45 + sid} THEN Panic ELSE Err
<1>1. t \in Seq(TlsOctet)
  BY DEF HelloIs, Begun
<1>2. PICK m \in Nat : m = Len(t)
  BY <1>1
<1>3. n \in Nat /\ n >= 1 /\ n < m
  BY <1>2
<1> DEFINE hello == SubSeq(t, 1, n)
<1>4. hello \in Seq(TlsOctet) /\ FirstOctets(hello, t, n)
  <2>1. /\ SubSeq(t, 0 + 1, n) \in Seq(TlsOctet) /\ Len(SubSeq(t, 0 + 1, n)) = n - 0
        /\ \A i \in 1 .. n - 0 : SubSeq(t, 0 + 1, n)[i] = t[0 + i]
    <3>1. 0 \in Nat /\ 0 <= n /\ n <= Len(t)
      BY <1>2, <1>3
    <3> QED BY <1>1, <1>3, <3>1, Slice
  <2>2. 0 + 1 = 1 /\ n - 0 = n /\ \A i \in 1 .. n : 0 + i = i
    BY <1>3
  <2> QED BY <2>1, <2>2, <1>2, <1>3 DEF FirstOctets
<1> HIDE DEF hello
<1>5. HelloRead(hello) =
        IF n = 40 + sid \/ (n = 46 + sid /\ extended) THEN Panic
        ELSE IF n = Len(t) /\ extended
        THEN Tls!FindServerName(SubSeq(hello, 48 + sid, 47 + sid + Len(data)))
        ELSE Err
  BY <1>3, <1>4, BeginningReads
<1>6. n # Len(t)
  BY <1>2, <1>3
<1>7. n - 1 \in {39 + sid, 45 + sid} <=> n = 40 + sid \/ (n = 46 + sid /\ extended)
  <2>1. m = 45 + sid + (IF extended THEN 2 + Len(data) ELSE 0)
    BY <1>2 DEF HelloIs
  <2>2. ASSUME n = 46 + sid, ~ extended PROVE FALSE
    <3>1. m = 45 + sid + 0
      BY <2>1, <2>2
    <3> QED BY <3>1, <2>2, <1>3
  <2> QED BY <2>2, <1>3
<1> QED BY <1>4, <1>5, <1>6, <1>7 DEF hello

\* What follows the first octet begins no ClientHello.
LEMMA RestReads ==
  ASSUME NEW t, Begun(t, Len(t)), NEW n \in 1 .. Len(t) - 1
  PROVE  /\ SubSeq(t, n + 1, Len(t)) \in Seq(TlsOctet)
         /\ HelloRead(SubSeq(t, n + 1, Len(t))) = Err
<1>1. PICK m \in Nat : m = Len(t)
  BY DEF Begun
<1>2. t \in Seq(TlsOctet) /\ \A i \in 2 .. m : t[i] \in LaterOctet
  BY <1>1 DEF Begun
<1> DEFINE hello == SubSeq(t, n + 1, m)
<1>3. hello \in Seq(TlsOctet) /\ Len(hello) = m - n /\ \A i \in 1 .. m - n : hello[i] = t[n + i]
  <2>1. n \in Nat /\ n <= m
    BY <1>1
  <2> QED BY <2>1, <1>1, <1>2, Slice
<1> HIDE DEF hello
<1>4. "handshake" \notin DOMAIN hello[1]
  <2>1. 1 \in 1 .. m - n /\ n + 1 \in 2 .. m
    BY <1>1
  <2>2. hello[1] \in LaterOctet
    BY <2>1, <1>2, <1>3
  <2> QED BY <2>2, LaterOctets
<1>5. HelloRead(hello) = Err
  BY <1>4 DEF HelloRead
<1> QED BY <1>1, <1>3, <1>5 DEF hello

\* A record, or what else begins with a head of size octets; q stands behind it.
IsFramed(t, S, head, size, message, q) ==
  /\ t \in Seq(S) /\ Len(t) = size + Len(message) + Len(q)
  /\ t[1] = head /\ SubSeq(t, size + 1, size + Len(message)) = message

LEMMA Framed ==
  ASSUME NEW S, Inside \in S, NEW head \in S, NEW size \in Nat \ {0}, NEW message \in Seq(S), NEW q \in Seq(S)
  PROVE  IsFramed((Field(head, size) \o message) \o q, S, head, size, message, q)
<1> DEFINE f == Field(head, size)
           k == Len(message)
           d == f \o message
           t == SubSeq(d \o q, size + 1, size + k)
<1>1. f \in Seq(S) /\ Len(f) = size /\ f[1] = head
  <2>1. \A i \in 1 .. size : (IF i = 1 THEN head ELSE Inside) \in S
    OBVIOUS
  <2>2. 1 \in 1 .. size
    OBVIOUS
  <2> HIDE DEF d, t, k
  <2> QED BY <2>1, <2>2 DEF Field
<1>2. k \in Nat
  OBVIOUS
<1> HIDE DEF f, k
<1>3. d \in Seq(S) /\ Len(d) = size + k /\ d[1] = head /\ \A i \in 1 .. k : d[size + i] = message[i]
  <2>1. f \in Seq(S)
    BY <1>1
  <2>2. /\ d \in Seq(S) /\ Len(d) = Len(f) + Len(message)
        /\ \A j \in 1 .. Len(f) : d[j] = f[j]
        /\ \A j \in 1 .. Len(message) : d[Len(f) + j] = message[j]
    BY <2>1, Concatenation
  <2>3. 1 \in 1 .. size
    OBVIOUS
  <2> HIDE DEF d
  <2> QED BY <2>2, <2>3, <1>1 DEF k
<1> HIDE DEF d
<1>4. /\ d \o q \in Seq(S) /\ Len(d \o q) = size + k + Len(q)
      /\ \A i \in 1 .. size + k : (d \o q)[i] = d[i]
  <2>1. d \in Seq(S)
    BY <1>3
  <2>2. /\ d \o q \in Seq(S) /\ Len(d \o q) = Len(d) + Len(q)
        /\ \A j \in 1 .. Len(d) : (d \o q)[j] = d[j]
    BY <2>1, Concatenation
  <2> QED BY <2>2, <1>3
<1>5. t \in Seq(S) /\ Len(t) = k /\ \A i \in 1 .. k : t[i] = (d \o q)[size + i]
  <2>1. size \in Nat /\ size + k \in Nat /\ size <= size + k /\ size + k <= size + k + Len(q) /\ (size + k) - size = k
    BY <1>2
  <2>2. d \o q \in Seq(S) /\ size + k <= Len(d \o q)
    BY <2>1, <1>4
  <2>3. /\ t \in Seq(S) /\ Len(t) = (size + k) - size
        /\ \A i \in 1 .. (size + k) - size : t[i] = (d \o q)[size + i]
    BY <2>1, <2>2, Slice, ZenonT(30)
  <2> QED BY <2>1, <2>3
<1> HIDE DEF t
<1>6. t = message
  <2>1. \A i \in 1 .. k : t[i] = message[i]
    <3>1. \A i \in 1 .. k : size + i \in 1 .. size + k
      BY <1>2
    <3> QED BY <3>1, <1>3, <1>4, <1>5
  <2> QED BY <2>1, <1>5, SeqEqual DEF k
<1>7. (d \o q)[1] = head
  <2>1. 1 \in 1 .. size + k
    BY <1>2
  <2> QED BY <2>1, <1>3, <1>4
<1> QED BY <1>4, <1>6, <1>7 DEF t, d, f, k, IsFramed

--------------------------------------------------------------------------------
LEMMA NothingBehind == ASSUME NEW S, NEW s \in Seq(S) PROVE s \o << >> = s /\ << >> \in Seq(S)
OBVIOUS

\* The record of a ClientHello, whatever stands behind it.
LEMMA TlsRecordReads ==
  ASSUME NEW hello \in Seq(TlsOctet), NEW q \in Seq(TlsOctet)
  PROVE  /\ Tls!ParseTlsClientHello(Tls!Record("handshake", hello) \o q) = HelloRead(hello)
         /\ Tls!Record("handshake", hello) \o q \in Seq(TlsOctet)
<1> DEFINE head == [record |-> "handshake", length |-> Len(hello)]
           data == (Field(head, 5) \o hello) \o q
<1>1. PICK k \in Nat : k = Len(hello)
  OBVIOUS
<1>2. head \in TlsOctet /\ Inside \in TlsOctet
  BY <1>1, LaterOctets DEF TlsOctet
<1>3. Tls!Record("handshake", hello) \o q = data
  BY TlsOctets DEF Tls!Record
<1>4. "record" \in DOMAIN head /\ head.record = "handshake" /\ head.length = k
  BY <1>1
<1> HIDE DEF head
<1>5. /\ data \in Seq(TlsOctet) /\ Len(data) = 5 + Len(hello) + Len(q) /\ data[1] = head
      /\ SubSeq(data, 5 + 1, 5 + Len(hello)) = hello
  <2>1. PICK size \in Nat \ {0} : size = 5
    OBVIOUS
  <2> HIDE DEF data
  <2>2. IsFramed((Field(head, size) \o hello) \o q, TlsOctet, head, size, hello, q)
    BY <1>2, Framed, Zenon
  <2>3. data = (Field(head, size) \o hello) \o q
    BY <2>1 DEF data
  <2>4. IsFramed(data, TlsOctet, head, size, hello, q)
    BY <2>2, <2>3, Zenon
  <2> QED BY <2>1, <2>4 DEF IsFramed
<1> HIDE DEF data
<1>6. ~ (Len(data) < 5) /\ ~ (Len(data) < 5 + k) /\ SubSeq(data, 6, 5 + k) = hello
  BY <1>1, <1>5
<1>7. data[1].length = k /\ data[1].record = "handshake" /\ "record" \in DOMAIN data[0 + 1]
  BY <1>4, <1>5
<1>8. Tls!ParseTlsClientHello(data) =
        IF Len(hello) < 4 THEN Err
        ELSE IF ~ Tls!Has(hello, 0, "handshake") \/ hello[1].handshake # "client_hello" THEN Err
        ELSE Tls!ParseHello(hello)
  BY <1>6, <1>7, TlsOctets DEF Tls!ParseTlsClientHello
<1>9. Tls!Has(hello, 0, "handshake") <=> "handshake" \in DOMAIN hello[1]
  BY TlsOctets
<1> QED BY <1>3, <1>5, <1>8, <1>9 DEF HelloRead

LEMMA TlsRecordAlone ==
  ASSUME NEW hello \in Seq(TlsOctet)
  PROVE  /\ Tls!ParseTlsClientHello(Tls!Record("handshake", hello)) = HelloRead(hello)
         /\ Tls!Record("handshake", hello) \in Seq(TlsOctet)
<1>1. << >> \in Seq(TlsOctet)
  OBVIOUS
<1>2. /\ Tls!ParseTlsClientHello(Tls!Record("handshake", hello) \o << >>) = HelloRead(hello)
      /\ Tls!Record("handshake", hello) \o << >> \in Seq(TlsOctet)
  BY <1>1, TlsRecordReads
<1>3. Tls!Record("handshake", hello) \in Seq(TlsOctet)
  <2> DEFINE head == [record |-> "handshake", length |-> Len(hello)]
  <2>1. head \in TlsOctet /\ Inside \in TlsOctet
    BY LaterOctets DEF TlsOctet
  <2>2. Tls!Record("handshake", hello) = Field(head, 5) \o hello
    BY TlsOctets DEF Tls!Record
  <2> HIDE DEF head
  <2>3. Field(head, 5) \in Seq(TlsOctet)
    <3>1. \A i \in 1 .. 5 : (IF i = 1 THEN head ELSE Inside) \in TlsOctet
      BY <2>1
    <3> QED BY <3>1 DEF Field
  <2> QED BY <2>2, <2>3, Concatenation
<1> QED BY <1>2, <1>3, NothingBehind

\* A segment that ends in the record, or begins in it.
LEMMA CutRecordReads ==
  ASSUME NEW t, Begun(t, Len(t)), NEW n \in 0 .. Len(Tls!Record("handshake", t)) - 1
  PROVE  /\ Tls!ParseTlsClientHello(SubSeq(Tls!Record("handshake", t), 1, n)) = Err
         /\ n > 0 => Tls!ParseTlsClientHello(SubSeq(Tls!Record("handshake", t), n + 1,
                                                     Len(Tls!Record("handshake", t)))) = Err
<1> DEFINE head == [record |-> "handshake", length |-> Len(t)]
           whole == Tls!Record("handshake", t)
<1>1. t \in Seq(TlsOctet)
  BY DEF Begun
<1>2. PICK k \in Nat : k = Len(t)
  BY <1>1
<1>3. head \in TlsOctet /\ Inside \in TlsOctet /\ head.length = k
  BY <1>2, LaterOctets DEF TlsOctet
<1>4. whole = Field(head, 5) \o t
  BY TlsOctets DEF Tls!Record
<1> HIDE DEF head, whole
<1>5. Field(head, 5) \in Seq(TlsOctet) /\ Len(Field(head, 5)) = 5 /\ Field(head, 5)[1] = head
      /\ \A i \in 2 .. 5 : Field(head, 5)[i] = Inside
  <2>1. \A i \in 1 .. 5 : (IF i = 1 THEN head ELSE Inside) \in TlsOctet
    BY <1>3
  <2> QED BY <2>1 DEF Field
<1>6. /\ whole \in Seq(TlsOctet) /\ Len(whole) = 5 + k
      /\ \A j \in 1 .. 5 : whole[j] = Field(head, 5)[j]
      /\ \A j \in 1 .. k : whole[5 + j] = t[j]
  <2> DEFINE f == Field(head, 5)
  <2>1. f \in Seq(TlsOctet)
    BY <1>5
  <2> HIDE DEF f
  <2>2. /\ f \o t \in Seq(TlsOctet) /\ Len(f \o t) = Len(f) + Len(t)
        /\ \A j \in 1 .. Len(f) : (f \o t)[j] = f[j]
        /\ \A j \in 1 .. Len(t) : (f \o t)[Len(f) + j] = t[j]
    BY <2>1, <1>1, Concatenation
  <2>3. whole = f \o t /\ Len(f) = 5
    BY <1>4, <1>5 DEF f
  <2>4. /\ whole \in Seq(TlsOctet) /\ Len(whole) = 5 + Len(t)
        /\ \A j \in 1 .. 5 : whole[j] = f[j]
        /\ \A j \in 1 .. Len(t) : whole[5 + j] = t[j]
    BY <2>2, <2>3
  <2> QED BY <2>4, <1>2 DEF f
<1>7. PICK m \in Nat : m = n /\ m < 5 + k
  <2>1. n \in 0 .. Len(whole) - 1
    BY DEF whole
  <2> QED BY <2>1, <1>6
<1>8. Tls!ParseTlsClientHello(SubSeq(whole, 1, m)) = Err
  <2> DEFINE cut == SubSeq(whole, 1, m)
  <2>1. Len(cut) = m /\ \A i \in 1 .. m : cut[i] = whole[i]
    BY <1>6, <1>7
  <2> HIDE DEF cut
  <2>2. CASE m < 5
    BY <2>1, <2>2, TlsOctets DEF Tls!ParseTlsClientHello
  <2>3. CASE ~ (m < 5)
    <3>1. 1 \in 1 .. m /\ 1 \in 1 .. 5
      BY <2>3
    <3>2. cut[1] = head
      BY <3>1, <2>1, <1>5, <1>6
    <3>3. Len(cut) < 5 + cut[1].length
      BY <3>2, <2>1, <1>3, <1>7
    <3>4. Tls!ParseTlsClientHello(cut) = Err
      BY <3>3, TlsOctets DEF Tls!ParseTlsClientHello
    <3> QED BY <3>4 DEF cut
  <2> QED BY <2>2, <2>3 DEF cut
<1>9. ASSUME m > 0 PROVE Tls!ParseTlsClientHello(SubSeq(whole, m + 1, 5 + k)) = Err
  <2> DEFINE rest == SubSeq(whole, m + 1, 5 + k)
  <2>1. Len(rest) = 5 + k - m /\ rest[1] = whole[m + 1]
    <3>1. /\ Len(SubSeq(whole, m + 1, 5 + k)) = (5 + k) - m
          /\ \A p \in 1 .. (5 + k) - m : SubSeq(whole, m + 1, 5 + k)[p] = whole[m + p]
      <4>1. 5 + k \in Nat /\ m <= 5 + k /\ 5 + k <= Len(whole)
        BY <1>6, <1>7
      <4> QED BY <4>1, <1>6, Slice
    <3>2. 1 \in 1 .. (5 + k) - m
      BY <1>7
    <3> QED BY <3>1, <3>2
  <2> HIDE DEF rest
  <2>2. "record" \notin DOMAIN whole[m + 1]
    <3>1. CASE m < 5
      <4>1. m + 1 \in 2 .. 5 /\ m + 1 \in 1 .. 5
        BY <3>1, <1>9
      <4> QED BY <4>1, <1>5, <1>6, LaterOctets
    <3>2. CASE ~ (m < 5)
      <4>1. PICK j \in 1 .. k : m + 1 = 5 + j
        <5>1. (m + 1) - 5 \in 1 .. k /\ m + 1 = 5 + ((m + 1) - 5)
          BY <3>2, <1>7
        <5> QED BY <5>1
      <4>2. whole[m + 1] = t[j]
        BY <4>1, <1>6
      <4>3. j = 1 \/ j \in 2 .. k
        OBVIOUS
      <4>4. "record" \notin DOMAIN t[j]
        <5>1. CASE j = 1
          BY <5>1 DEF Begun
        <5>2. CASE j \in 2 .. k
          <6>1. t[j] \in LaterOctet
            BY <5>2, <1>2 DEF Begun
          <6> QED BY <6>1, LaterOctets
        <5> QED BY <4>3, <5>1, <5>2
      <4> QED BY <4>2, <4>4
    <3> QED BY <3>1, <3>2
  <2>3. ~ Tls!Has(rest, 0, "record")
    <3>1. 0 + 1 = 1
      OBVIOUS
    <3>2. Tls!Has(rest, 0, "record") <=> "record" \in DOMAIN rest[0 + 1]
      BY TlsOctets
    <3> QED BY <3>1, <3>2, <2>1, <2>2
  <2>4. Tls!ParseTlsClientHello(rest) = Err
    BY <2>3, TlsOctets DEF Tls!ParseTlsClientHello
  <2> QED BY <2>4 DEF rest
<1> QED BY <1>6, <1>7, <1>8, <1>9 DEF whole

--------------------------------------------------------------------------------
\* The extensions of a ClientHello say what is to be found in them.
LEMMA ExtensionsRead ==
  ASSUME TlsInv
  PROVE  /\ Tls!Extensions \in Seq(LaterOctet)
         /\ Finds(Tls!FindServerName(Tls!Extensions), extensions)
<1> DEFINE pieces == [i \in DOMAIN extensions |-> Tls!ExtensionOctets(extensions[i])]
           data == FlattenSeq(pieces)
<1>1. extensions \in Seq(Extension) /\ OneName(extensions)
  BY DEF TlsInv, Tls!TypeOK, Extension
<1>2. PICK n \in Nat : n = Len(extensions) /\ DOMAIN extensions = 1 .. n
  BY <1>1
<1>3. ASSUME NEW i \in 1 .. n
      PROVE  pieces[i] \in Seq(LaterOctet) /\ IsExtension(pieces[i], extensions[i])
  <2>1. extensions[i] \in Extension /\ pieces[i] = Tls!ExtensionOctets(extensions[i])
    BY <1>1, <1>2
  <2>2. CASE extensions[i] = Tls!Other
    BY <2>1, <2>2, OtherWritten DEF IsExtension
  <2>3. CASE extensions[i] # Tls!Other
    <3>1. PICK h \in Hosts : extensions[i] = Tls!ServerName(h)
      BY <2>1, <2>3 DEF Extension
    <3>2. /\ Tls!ExtensionOctets(Tls!ServerName(h)) \in Seq(LaterOctet)
          /\ HostOctets[h] \in Nat \ {0}
          /\ IsName(Tls!ExtensionOctets(Tls!ServerName(h)), h, HostOctets[h])
      BY <2>3, <3>1, ServerNameWritten
    <3> QED BY <2>1, <2>3, <3>1, <3>2 DEF IsExtension
  <2> QED BY <2>2, <2>3
<1>4. pieces \in Seq(Seq(LaterOctet)) /\ Len(pieces) = n
  <2>1. pieces \in [1 .. n -> Seq(LaterOctet)]
    BY <1>2, <1>3
  <2> QED BY <2>1
<1>5. Tls!Extensions = data
  BY TlsOctets DEF Tls!Extensions
<1> HIDE DEF pieces, data
<1>6. data \in Seq(LaterOctet)
  BY <1>4, FlattenPieces DEF data
<1>7. PICK at : PiecesAt(at, pieces, data)
  BY <1>4, FlattenPieces DEF data
<1>8. ExtensionsAt(data, at, pieces, extensions)
  BY <1>2, <1>3, <1>4, <1>7 DEF ExtensionsAt
<1>9. Finds(Tls!FindServerName(data), extensions)
  BY <1>1, <1>4, <1>6, <1>8, NameFound
<1> QED BY <1>5, <1>6, <1>9

\* What the client writes is such a ClientHello.
Extended == extensions # << >>

LEMMA HelloWritten ==
  ASSUME TlsInv
  PROVE  HelloIs(Tls!ClientHello, session_id, Tls!Extensions, Extended)
<1> DEFINE behind == IF extensions = << >> THEN << >>
                     ELSE Field([length |-> Len(Tls!Extensions)], 2) \o Tls!Extensions
<1>1. session_id \in Nat
  BY TlsAssumption DEF TlsInv, Tls!TypeOK
<1>2. HelloBegun(HelloStart(session_id), session_id)
  BY <1>1, HelloBegins
<1>3. Tls!ClientHello = HelloStart(session_id) \o behind
  <2> DEFINE a == Field([handshake |-> "client_hello"], 4)
             b == Field(Inside, 34)
             c == Field([length |-> session_id], 1)
             d == Field(Inside, session_id)
             e == Field([length |-> 2], 2)
             f == Field(Inside, 2)
             g == Field([length |-> 1], 1)
             k == Field(Inside, 1)
  <2>1. Tls!ClientHello = a \o b \o c \o d \o e \o f \o g \o k \o behind
    BY TlsOctets DEF Tls!ClientHello
  <2>2. HelloStart(session_id) = a \o b \o c \o d \o e \o f \o g \o k
    BY DEF HelloStart
  <2> QED BY <2>1, <2>2
<1>4. CASE Extended
  <2>1. behind = Field([length |-> Len(Tls!Extensions)], 2) \o Tls!Extensions
    BY <1>4 DEF Extended
  <2> HIDE DEF behind
  <2>2. HelloIs(HelloStart(session_id) \o (Field([length |-> Len(Tls!Extensions)], 2) \o Tls!Extensions),
                session_id, Tls!Extensions, TRUE)
    BY <1>1, <1>2, ExtensionsRead, HelloEnds
  <2>3. Extended = TRUE
    BY <1>4 DEF Extended
  <2> QED BY <2>1, <2>2, <2>3, <1>3
<1>5. CASE ~ Extended
  <2>1. behind = << >>
    BY <1>5 DEF Extended
  <2> HIDE DEF behind
  <2>2. Begun(HelloStart(session_id), 45 + session_id)
    BY <1>2 DEF HelloBegun
  <2>3. HelloStart(session_id) \o << >> = HelloStart(session_id)
    <3>1. HelloStart(session_id) \in Seq(TlsOctet)
      BY <2>2 DEF Begun
    <3> QED BY <3>1, NothingBehind
  <2>4. Tls!ClientHello = HelloStart(session_id)
    BY <2>1, <2>3, <1>3
  <2>5. HelloBegun(Tls!ClientHello, session_id)
    BY <2>4, <1>2
  <2>6. Len(Tls!ClientHello) = 45 + session_id
    BY <2>2, <2>4 DEF Begun
  <2>7. Len(Tls!ClientHello) = 45 + session_id + 0
    BY <2>6, <1>1
  <2> QED BY <2>5, <2>6, <2>7, <1>5 DEF HelloIs, HelloBegun
<1> QED BY <1>4, <1>5

\* A ClientHello in one record and one segment is read.
LEMMA HelloFound == ASSUME TlsInv PROVE Tls!ServerNameIsFound
<1>1. HelloIs(Tls!ClientHello, session_id, Tls!Extensions, Extended) /\ session_id \in Nat
  BY HelloWritten, TlsAssumption DEF TlsInv, Tls!TypeOK
<1>2. Tls!ClientHello \in Seq(TlsOctet)
  BY <1>1 DEF HelloIs, Begun
<1>3. Extended \in BOOLEAN
  BY DEF Extended
<1>4. HelloRead(Tls!ClientHello) = IF Extended THEN Tls!FindServerName(Tls!Extensions) ELSE Err
  BY <1>1, <1>3, ExtensionsRead, WholeHelloReads
<1>5. Finds(HelloRead(Tls!ClientHello), extensions)
  <2>1. CASE Extended
    BY <2>1, <1>4, ExtensionsRead
  <2>2. CASE ~ Extended
    <3>1. DOMAIN extensions = {}
      BY <2>2 DEF Extended
    <3>2. Tls!HostsOf(extensions) = {}
      BY <3>1 DEF Tls!HostsOf
    <3> QED BY <2>2, <3>2, <1>4 DEF Finds
  <2> QED BY <2>1, <2>2
<1>6. Tls!Record("application_data", Tls!Opaque(1)) \in Seq(TlsOctet)
  <2> DEFINE message == Field(Inside, 1)
             head == [record |-> "application_data", length |-> Len(message)]
  <2>1. message \in Seq(TlsOctet)
    <3>1. \A i \in 1 .. 1 : (IF i = 1 THEN Inside ELSE Inside) \in TlsOctet
      BY LaterOctets
    <3> QED BY <3>1 DEF Field
  <2>2. Tls!Record("application_data", Tls!Opaque(1)) = Field(head, 5) \o message
    BY TlsOctets DEF Tls!Record
  <2> HIDE DEF message
  <2>3. head \in TlsOctet /\ Inside \in TlsOctet
    BY <2>1, LaterOctets DEF TlsOctet
  <2> HIDE DEF head
  <2>4. Field(head, 5) \in Seq(TlsOctet)
    <3>1. \A i \in 1 .. 5 : (IF i = 1 THEN head ELSE Inside) \in TlsOctet
      BY <2>3
    <3> QED BY <3>1 DEF Field
  <2> QED BY <2>1, <2>2, <2>4, Concatenation
<1>7. ASSUME NEW behind \in {<< >>, Tls!Record("application_data", Tls!Opaque(1))}
      PROVE  Finds(Tls!ParseTlsClientHello(Tls!Record("handshake", Tls!ClientHello) \o behind), extensions)
  <2>1. behind \in Seq(TlsOctet)
    <3>1. CASE behind = << >>
      BY <3>1, NothingBehind
    <3>2. CASE behind = Tls!Record("application_data", Tls!Opaque(1))
      BY <3>2, <1>6
    <3> QED BY <3>1, <3>2
  <2>2. Tls!ParseTlsClientHello(Tls!Record("handshake", Tls!ClientHello) \o behind) = HelloRead(Tls!ClientHello)
    BY <2>1, <1>2, TlsRecordReads
  <2> QED BY <2>2, <1>5
<1> QED BY <1>7, TlsOctets DEF Finds, Tls!ServerNameIsFound

\* In two segments, or two records, it is not.
LEMMA HelloNotFound == ASSUME TlsInv PROVE Tls!CutHelloIsNoHello
<1> DEFINE t == Tls!ClientHello
           whole == Tls!Record("handshake", t)
<1>1. HelloIs(t, session_id, Tls!Extensions, Extended) /\ session_id \in Nat
  BY HelloWritten, TlsAssumption DEF TlsInv, Tls!TypeOK
<1>2. Begun(t, Len(t)) /\ Extended \in BOOLEAN
  BY <1>1 DEF HelloIs, Extended
<1> HIDE DEF t, whole
<1>3. ASSUME NEW n \in 0 .. Len(whole) - 1
      PROVE  /\ Tls!ParseTlsClientHello(SubSeq(whole, 1, n)) = Err
             /\ n > 0 => Tls!ParseTlsClientHello(SubSeq(whole, n + 1, Len(whole))) = Err
  BY <1>2, <1>3, CutRecordReads DEF whole
<1>4. ASSUME NEW n \in 1 .. Len(t) - 1
      PROVE  /\ Tls!ParseTlsClientHello(Tls!Record("handshake", SubSeq(t, 1, n))
                                          \o Tls!Record("handshake", SubSeq(t, n + 1, Len(t)))) =
                  IF n - 1 \in Tls!Untested THEN Panic ELSE Err
             /\ Tls!ParseTlsClientHello(Tls!Record("handshake", SubSeq(t, n + 1, Len(t)))) = Err
  <2>1. /\ SubSeq(t, 1, n) \in Seq(TlsOctet)
        /\ HelloRead(SubSeq(t, 1, n)) = IF n - 1 \in {39 + session_id, 45 + session_id} THEN Panic ELSE Err
    BY <1>1, <1>2, ExtensionsRead, CutHelloReads
  <2>2. /\ SubSeq(t, n + 1, Len(t)) \in Seq(TlsOctet)
        /\ HelloRead(SubSeq(t, n + 1, Len(t))) = Err
    BY <1>2, RestReads
  <2> DEFINE first == SubSeq(t, 1, n)
             rest == SubSeq(t, n + 1, Len(t))
  <2> HIDE DEF first, rest
  <2>3. first \in Seq(TlsOctet) /\ rest \in Seq(TlsOctet) /\ HelloRead(rest) = Err
    BY <2>1, <2>2 DEF first, rest
  <2>4. /\ Tls!ParseTlsClientHello(Tls!Record("handshake", rest)) = Err
        /\ Tls!Record("handshake", rest) \in Seq(TlsOctet)
    BY <2>3, TlsRecordAlone
  <2>5. Tls!ParseTlsClientHello(Tls!Record("handshake", first) \o Tls!Record("handshake", rest)) = HelloRead(first)
    BY <2>3, <2>4, TlsRecordReads
  <2> QED BY <2>1, <2>4, <2>5 DEF first, rest, Tls!Untested
<1>5. Tls!Err = Err /\ Tls!Panic = Panic
  BY TlsOctets
<1> QED BY <1>3, <1>4, <1>5 DEF Tls!CutHelloIsNoHello, t, whole

(***************************************************************************)
(* The server name of a ClientHello is found wherever it stands in it, and *)
(* parse_tls_client_hello shows none of a ClientHello in two segments or   *)
(* two records: it answers an error, or panics where it reads a length of  *)
(* two octets of which it tested the first.  For every host, extensions    *)
(* and session ID.                                                         *)
(***************************************************************************)
THEOREM ServerNameFound == Spec => []ServerNameIsFound
<1>1. Inv => ServerNameIsFound
  BY HelloFound, HelloNotFound DEF Inv, ServerNameIsFound
<1> QED BY <1>1, Started, WentOn, PTL DEF Spec

(***************************************************************************)
(* What a string loses that is trimmed.                                    *)
(***************************************************************************)
\* The first and the last octet of s that is not blank.
Spans(s, a, z) ==
  /\ a \in 1 .. Len(s) /\ z \in 1 .. Len(s)
  /\ ~ Blank(s[a]) /\ ~ Blank(s[z])
  /\ \A i \in 1 .. a - 1 : Blank(s[i])
  /\ \A i \in z + 1 .. Len(s) : Blank(s[i])

LEMMA SpanTrimmed ==
  ASSUME NEW S, NEW s \in Seq(S), NEW a, NEW z, Spans(s, a, z)
  PROVE  Trim(s) = SubSeq(s, a, z) /\ a <= z
<1>1. Trim(s) = SubSeq(s, a, z)
  BY TrimKeeps DEF Spans
<1>2. a <= z
  <2>1. PICK n \in Nat : n = Len(s)
    OBVIOUS
  <2>2. a \in 1 .. n /\ z \in 1 .. n /\ (z < a => z \in 1 .. a - 1)
    BY <2>1 DEF Spans
  <2>3. ~ (z < a)
    BY <2>2 DEF Spans
  <2> QED BY <2>2, <2>3
<1> QED BY <1>1, <1>2

LEMMA SpanExists ==
  ASSUME NEW S, NEW s \in Seq(S), NEW i \in 1 .. Len(s), ~ Blank(s[i])
  PROVE  \E a, z : Spans(s, a, z)
<1> DEFINE T == {j \in 1 .. Len(s) : ~ Blank(s[j])}
<1>1. PICK n \in Nat : n = Len(s)
  OBVIOUS
<1>2. T \in SUBSET Nat /\ T \in SUBSET (0 .. n) /\ T # {}
  BY <1>1
<1>3. \A j \in 1 .. n : ~ Blank(s[j]) => j \in T
  BY <1>1
<1>4. \A j \in T : j \in 1 .. n /\ ~ Blank(s[j])
  BY <1>1
<1> HIDE DEF T
<1>5. PICK a \in T : \A j \in T : a <= j
  BY <1>2, MinOf
<1>6. PICK z \in T : \A j \in T : j <= z
  BY <1>2, MaxOf
<1>7. \A j \in 1 .. a - 1 : j \in 1 .. n /\ ~ (a <= j)
  BY <1>1, <1>4
<1>8. \A j \in z + 1 .. n : j \in 1 .. n /\ ~ (j <= z)
  BY <1>1, <1>4
<1>9. Spans(s, a, z)
  BY <1>1, <1>3, <1>4, <1>5, <1>6, <1>7, <1>8 DEF Spans
<1> QED BY <1>9

\* The octets from a to z.
TrimmedTo(t, s, a, z) ==
  /\ a \in Nat /\ z \in Nat /\ 1 <= a /\ a <= z /\ z <= Len(s)
  /\ Len(t) = (z - a) + 1 /\ \A p \in 1 .. (z - a) + 1 : t[p] = s[(a - 1) + p]

LEMMA Spanned ==
  ASSUME NEW S, NEW s \in Seq(S), NEW a, NEW z, Spans(s, a, z)
  PROVE  Trim(s) \in Seq(S) /\ TrimmedTo(Trim(s), s, a, z)
<1>1. PICK n \in Nat : n = Len(s)
  OBVIOUS
<1>2. a \in 1 .. n /\ z \in 1 .. n /\ a <= z /\ Trim(s) = SubSeq(s, a, z)
  BY <1>1, SpanTrimmed DEF Spans
<1>3. PICK m \in Nat : m = a - 1 /\ m + 1 = a /\ m <= z /\ z - m = (z - a) + 1
  BY <1>2
<1>4. /\ SubSeq(s, m + 1, z) \in Seq(S) /\ Len(SubSeq(s, m + 1, z)) = z - m
      /\ \A p \in 1 .. z - m : SubSeq(s, m + 1, z)[p] = s[m + p]
  <2>1. z \in Nat /\ z <= Len(s) /\ m <= z
    BY <1>1, <1>2, <1>3
  <2> QED BY <2>1, Slice, SMTT(30)
<1> QED BY <1>1, <1>2, <1>3, <1>4 DEF TrimmedTo

LEMMA TrimNothing == Trim(<< >>) = << >>
<1> DEFINE none == << >>
<1>1. none \in Seq({0}) /\ \A i \in 1 .. Len(none) : Blank(none[i])
  OBVIOUS
<1> HIDE DEF none
<1>2. Trim(none) = << >>
  BY <1>1, TrimEmpties
<1> QED BY <1>2 DEF none

LEMMA TrimTyped == ASSUME NEW S, NEW s \in Seq(S) PROVE Trim(s) \in Seq(S)
<1>1. CASE \E i \in 1 .. Len(s) : ~ Blank(s[i])
  <2>1. PICK a, z : Spans(s, a, z)
    BY <1>1, SpanExists
  <2> QED BY <2>1, Spanned
<1>2. CASE \A i \in 1 .. Len(s) : Blank(s[i])
  <2>1. Trim(s) = << >>
    BY <1>2, TrimEmpties
  <2> QED BY <2>1
<1> QED BY <1>1, <1>2

LEMMA TrimTwice == ASSUME NEW S, NEW s \in Seq(S) PROVE Trim(Trim(s)) = Trim(s)
<1> DEFINE t == Trim(s)
<1>1. CASE \E i \in 1 .. Len(s) : ~ Blank(s[i])
  <2>1. PICK a, z : Spans(s, a, z)
    BY <1>1, SpanExists
  <2>2. /\ a \in Nat /\ z \in Nat /\ 1 <= a /\ a <= z
        /\ t \in Seq(S) /\ Len(t) = (z - a) + 1
        /\ \A p \in 1 .. (z - a) + 1 : t[p] = s[(a - 1) + p]
    <3>1. t \in Seq(S) /\ TrimmedTo(t, s, a, z)
      BY <2>1, Spanned, Zenon
    <3> HIDE DEF t
    <3> QED BY <3>1 DEF TrimmedTo
  <2> HIDE DEF t
  <2>3. PICK k \in Nat : k = (z - a) + 1 /\ 1 \in 1 .. k /\ k \in 1 .. k /\ (a - 1) + 1 = a /\ (a - 1) + k = z
    BY <2>2
  <2>4. ~ Blank(t[1]) /\ ~ Blank(t[k])
    BY <2>1, <2>2, <2>3 DEF Spans
  <2>5. Spans(t, 1, k)
    BY <2>2, <2>3, <2>4 DEF Spans
  <2>6. Trim(t) = SubSeq(t, 1, k)
    BY <2>2, <2>5, SpanTrimmed
  <2>7. SubSeq(t, 1, k) = t
    BY <2>2, <2>3
  <2> QED BY <2>6, <2>7 DEF t
<1>2. CASE \A i \in 1 .. Len(s) : Blank(s[i])
  <2>1. t = << >>
    BY <1>2, TrimEmpties
  <2> QED BY <2>1, TrimNothing
<1> QED BY <1>1, <1>2

\* A blank before a string is lost.
LEMMA TrimBehind ==
  ASSUME NEW S, NEW s \in Seq(S), NEW y \in Seq(S), Len(s) = 1 + Len(y), Blank(s[1]),
         \A i \in 1 .. Len(y) : s[1 + i] = y[i]
  PROVE  Trim(s) = Trim(y)
<1>1. PICK n \in Nat : n = Len(y) /\ Len(s) = 1 + n
  OBVIOUS
<1>2. ASSUME NEW j \in 2 .. 1 + n PROVE j - 1 \in 1 .. n /\ s[j] = y[j - 1]
  <2>1. j - 1 \in 1 .. n /\ 1 + (j - 1) = j
    BY <1>1
  <2> QED BY <2>1, <1>1
<1>3. CASE \E i \in 1 .. Len(y) : ~ Blank(y[i])
  <2>1. PICK a, z : Spans(y, a, z)
    BY <1>3, SpanExists
  <2>2. /\ a \in Nat /\ z \in Nat /\ 1 <= a /\ a <= z /\ z <= n
        /\ Trim(y) \in Seq(S) /\ Len(Trim(y)) = (z - a) + 1
        /\ \A p \in 1 .. (z - a) + 1 : Trim(y)[p] = y[(a - 1) + p]
    <3>1. Trim(y) \in Seq(S) /\ TrimmedTo(Trim(y), y, a, z)
      BY <2>1, Spanned, Zenon
    <3> QED BY <3>1, <1>1 DEF TrimmedTo
  <2>3. Spans(s, 1 + a, 1 + z)
    <3>1. 1 + a \in 1 .. Len(s) /\ 1 + z \in 1 .. Len(s) /\ a \in 1 .. Len(y) /\ z \in 1 .. Len(y)
      BY <2>2, <1>1
    <3>2. ~ Blank(s[1 + a]) /\ ~ Blank(s[1 + z])
      BY <3>1, <2>1 DEF Spans
    <3>3. ASSUME NEW i \in 1 .. (1 + a) - 1 PROVE Blank(s[i])
      <4>1. CASE i = 1
        BY <4>1
      <4>2. CASE i # 1
        <5>1. i \in 2 .. 1 + n /\ i - 1 \in 1 .. a - 1
          BY <4>2, <2>2, <1>1
        <5> QED BY <5>1, <1>2, <2>1 DEF Spans
      <4> QED BY <4>1, <4>2
    <3>4. ASSUME NEW i \in (1 + z) + 1 .. Len(s) PROVE Blank(s[i])
      <4>1. i \in 2 .. 1 + n /\ i - 1 \in z + 1 .. Len(y)
        BY <2>2, <1>1
      <4> QED BY <4>1, <1>2, <2>1 DEF Spans
    <3> QED BY <3>1, <3>2, <3>3, <3>4 DEF Spans
  <2>4. /\ Trim(s) \in Seq(S) /\ Len(Trim(s)) = ((1 + z) - (1 + a)) + 1
        /\ \A p \in 1 .. ((1 + z) - (1 + a)) + 1 : Trim(s)[p] = s[((1 + a) - 1) + p]
    <3>1. Trim(s) \in Seq(S) /\ TrimmedTo(Trim(s), s, 1 + a, 1 + z)
      BY <2>3, Spanned, Zenon
    <3> QED BY <3>1 DEF TrimmedTo
  <2> DEFINE u == Trim(y)
             v == Trim(s)
  <2>5. PICK k \in Nat : k = (z - a) + 1 /\ ((1 + z) - (1 + a)) + 1 = k
    BY <2>2
  <2>6. u \in Seq(S) /\ Len(u) = k /\ v \in Seq(S) /\ Len(v) = k
    BY <2>2, <2>4, <2>5
  <2>7. ASSUME NEW p \in 1 .. k PROVE v[p] = u[p]
    <3>1. (a - 1) + p \in 1 .. Len(y) /\ ((1 + a) - 1) + p = 1 + ((a - 1) + p)
      BY <2>2, <2>5, <1>1
    <3> QED BY <3>1, <2>2, <2>4, <2>5
  <2> HIDE DEF u, v
  <2>8. u = v
    BY <2>6, <2>7, SeqEqual
  <2> QED BY <2>8 DEF u, v
<1>4. CASE \A i \in 1 .. Len(y) : Blank(y[i])
  <2>1. ASSUME NEW i \in 1 .. Len(s) PROVE Blank(s[i])
    <3>1. i = 1 \/ i \in 2 .. 1 + n
      BY <1>1
    <3> QED BY <3>1, <1>1, <1>2, <1>4
  <2>2. Trim(s) = << >> /\ Trim(y) = << >>
    BY <2>1, <1>4, TrimEmpties
  <2> QED BY <2>2
<1> QED BY <1>3, <1>4

\* Of the beginning of a string, what is trimmed is the beginning of what is left of
\* the string, and all of it if the rest is blank.
LEMMA TrimBeginning ==
  ASSUME NEW S, NEW s \in Seq(S), NEW k \in 0 .. Len(s)
  PROVE  /\ IsPrefix(Trim(SubSeq(s, 1, k)), Trim(s))
         /\ (\A i \in k + 1 .. Len(s) : Blank(s[i])) => Trim(SubSeq(s, 1, k)) = Trim(s)
<1> DEFINE x == SubSeq(s, 1, k)
           u == Trim(x)
           v == Trim(s)
<1>1. PICK n \in Nat : n = Len(s) /\ k \in Nat /\ k <= n
  OBVIOUS
<1>2. x \in Seq(S) /\ Len(x) = k /\ \A i \in 1 .. k : x[i] = s[i]
  BY <1>1, Beginning
<1> HIDE DEF x
<1>3. u \in Seq(S) /\ v \in Seq(S)
  BY <1>2, TrimTyped
<1>4. CASE \E i \in 1 .. k : ~ Blank(x[i])
  <2>1. PICK a, z : Spans(x, a, z)
    BY <1>2, <1>4, SpanExists
  <2>2. /\ a \in Nat /\ z \in Nat /\ 1 <= a /\ a <= z /\ z <= k
        /\ Len(u) = (z - a) + 1 /\ \A p \in 1 .. (z - a) + 1 : u[p] = x[(a - 1) + p]
    <3>1. TrimmedTo(u, x, a, z)
      BY <2>1, <1>2, Spanned, Zenon
    <3> QED BY <3>1, <1>2 DEF TrimmedTo
  <2>3. ~ Blank(s[a]) /\ ~ Blank(s[z])
    <3>1. a \in 1 .. k /\ z \in 1 .. k
      BY <1>1, <2>2
    <3> QED BY <3>1, <2>1, <1>2 DEF Spans
  <2>4. a \in 1 .. Len(s)
    BY <1>1, <2>2
  <2>5. PICK b, y : Spans(s, b, y)
    BY <2>3, <2>4, SpanExists
  <2>6. /\ b \in Nat /\ y \in Nat /\ 1 <= b /\ b <= y /\ y <= n
        /\ Len(v) = (y - b) + 1 /\ \A p \in 1 .. (y - b) + 1 : v[p] = s[(b - 1) + p]
    <3>1. TrimmedTo(v, s, b, y)
      BY <2>5, Spanned, Zenon
    <3> QED BY <3>1, <1>1 DEF TrimmedTo
  <2>7. a = b
    <3>1. ~ (b < a)
      <4>1. b < a => b \in 1 .. a - 1 /\ b \in 1 .. k
        BY <1>1, <2>2, <2>6
      <4> QED BY <4>1, <2>1, <2>5, <1>2 DEF Spans
    <3>2. ~ (a < b)
      <4>1. a < b => a \in 1 .. b - 1
        BY <2>2, <2>6
      <4> QED BY <4>1, <2>3, <2>5 DEF Spans
    <3> QED BY <3>1, <3>2, <2>2, <2>6
  <2>8. z <= y
    <3>1. y < z => z \in y + 1 .. Len(s)
      BY <1>1, <2>2, <2>6
    <3>2. ~ (y < z)
      BY <3>1, <2>3, <2>5 DEF Spans
    <3> QED BY <3>2, <2>2, <2>6
  <2> HIDE DEF u, v
  <2>9. Len(u) <= Len(v)
    BY <2>2, <2>6, <2>7, <2>8
  <2>10. ASSUME NEW p \in 1 .. Len(u) PROVE u[p] = v[p]
    <3>1. p \in 1 .. (z - a) + 1 /\ p \in 1 .. (y - b) + 1 /\ (a - 1) + p \in 1 .. k
      BY <1>1, <2>2, <2>6, <2>7, <2>8
    <3> QED BY <3>1, <1>2, <2>2, <2>6, <2>7
  <2>11. IsPrefix(u, v) /\ (Len(u) = Len(v) => u = v)
    BY <1>3, <2>9, <2>10, PrefixedBy
  <2>12. ASSUME \A i \in k + 1 .. Len(s) : Blank(s[i]) PROVE Len(u) = Len(v)
    <3>1. y <= k
      <4>1. y > k => y \in k + 1 .. Len(s)
        BY <1>1, <2>6
      <4>2. ~ (y > k)
        BY <4>1, <2>5, <2>12 DEF Spans
      <4> QED BY <4>2, <1>1, <2>6
    <3>2. ~ (y > z)
      <4>1. y > z => y \in z + 1 .. Len(x) /\ y \in 1 .. k
        BY <3>1, <1>1, <1>2, <2>2, <2>6
      <4> QED BY <4>1, <2>1, <2>5, <1>2 DEF Spans
    <3>3. y = z
      BY <3>2, <2>2, <2>6, <2>8
    <3> QED BY <3>3, <2>2, <2>6, <2>7
  <2>13. (\A i \in k + 1 .. Len(s) : Blank(s[i])) => u = v
    BY <2>11, <2>12
  <2> QED BY <2>11, <2>13 DEF u, v, x
<1>5. CASE \A i \in 1 .. k : Blank(x[i])
  <2>1. u = << >>
    BY <1>2, <1>5, TrimEmpties
  <2> HIDE DEF u
  <2>2. IsPrefix(u, v)
    <3> HIDE DEF v
    <3>1. Len(u) = 0 /\ Len(v) \in Nat
      BY <1>3, <2>1
    <3>2. Len(u) <= Len(v) /\ \A j \in 1 .. Len(u) : u[j] = v[j]
      BY <3>1
    <3> QED BY <3>2, <1>3, PrefixedBy
  <2>3. ASSUME \A i \in k + 1 .. Len(s) : Blank(s[i]) PROVE u = v
    <3>1. ASSUME NEW i \in 1 .. Len(s) PROVE Blank(s[i])
      <4>1. i \in 1 .. k \/ i \in k + 1 .. Len(s)
        BY <1>1
      <4> QED BY <4>1, <1>2, <1>5, <2>3
    <3>2. v = << >>
      BY <3>1, TrimEmpties
    <3> QED BY <3>2, <2>1
  <2> QED BY <2>2, <2>3 DEF u, v, x
<1> QED BY <1>4, <1>5

--------------------------------------------------------------------------------
(***************************************************************************)
(* How the parser reads the first segment of an FTP line.                  *)
(***************************************************************************)
LEMMA MarksDiffer ==
  [mark |-> " "] # [mark |-> "LF"] /\ [mark |-> "CR"] # [mark |-> "LF"]
<1>1. ASSUME NEW m, NEW n, m # n PROVE [mark |-> m] # [mark |-> n]
  <2>1. [mark |-> m].mark = m /\ [mark |-> n].mark = n
    OBVIOUS
  <2> QED BY <2>1, <1>1
<1> QED BY <1>1, Zenon

LEMMA LineOctets ==
  ASSUME Ftp!TypeOK, NEW w, NEW c, NEW q, LineIs(w, c, q)
  PROVE  /\ q \in Nat /\ q >= 3 /\ w \in Seq(FtpOctet) /\ Len(w) = q + 2 /\ c \in Seq(FtpChar)
         /\ Inked(w[1]) /\ Inked(w[2]) /\ Inked(w[3]) /\ \A j \in 1 .. q : w[j] # LF[1]
         /\ q >= 4 => w[4] = Space[1] /\ q = 4 + Len(c) /\ \A i \in 1 .. Len(c) : w[4 + i] = c[i]
         /\ Blank(Space[1]) /\ Space[1] # LF[1] /\ Space[1] # Continuation
         /\ Blank(w[q + 1]) /\ w[q + 1] # LF[1] /\ w[q + 2] = LF[1]
         /\ q < 4 => c = << >>
<1>1. /\ w \in Seq(FtpOctet) /\ c \in Seq(FtpChar) /\ q \in Nat /\ Len(w) = q + 2
      /\ w[1] = FtpHead /\ w[2] = Inside /\ w[3] = Inside
      /\ text = << >> => q = 3 /\ c = << >>
      /\ text # << >> => q = 4 + Len(c) /\ w[4] = [mark |-> " "] /\ Holds(w, 4, c)
      /\ w[q + 1] = [mark |-> "CR"] /\ w[q + 2] = [mark |-> "LF"]
  BY Zenon DEF LineIs
<1>2. PICK k \in Nat : k = Len(c)
  <2>1. c \in Seq(FtpChar)
    BY <1>1, Zenon
  <2> QED BY <2>1
<1>3. (q = 3 /\ text = << >> /\ c = << >>) \/ (q = 4 + k /\ text # << >>)
  BY <1>1, <1>2, Zenon
<1>4. Space[1] = [mark |-> " "] /\ LF[1] = [mark |-> "LF"]
  BY Marks, Zenon
<1>5. Inked(w[1]) /\ Inked(w[2]) /\ Inked(w[3])
  BY <1>1, PlainOctets, Zenon
<1>6. ASSUME NEW j \in 1 .. q PROVE w[j] # LF[1]
  <2>1. CASE j <= 3
    <3>1. j = 1 \/ j = 2 \/ j = 3
      BY <2>1
    <3> QED BY <3>1, <1>5 DEF Inked
  <2>2. CASE j = 4
    <3>1. w[4] = [mark |-> " "] /\ [mark |-> " "] # [mark |-> "LF"]
      <4>1. text # << >>
        BY <2>2, <1>3
      <4> QED BY <4>1, <1>1, MarksDiffer, Zenon
    <3> QED BY <2>2, <3>1, <1>4
  <2>3. CASE j > 4
    <3>1. text # << >> /\ q = 4 + k
      BY <2>3, <1>3
    <3>2. PICK i \in 1 .. k : j = 4 + i
      <4>1. j - 4 \in 1 .. k /\ j = 4 + (j - 4)
        BY <3>1, <2>3, <1>6
      <4> QED BY <4>1
    <3>3. w[4 + i] = c[i]
      BY <3>1, <1>1, <1>2, Zenon DEF Holds
    <3>4. c[i] \in FtpChar
      <4>1. c \in Seq(FtpChar)
        BY <1>1, Zenon
      <4> QED BY <4>1, <1>2
    <3> QED BY <3>2, <3>3, <3>4, FtpChars
  <2> QED BY <2>1, <2>2, <2>3
<1>7. q >= 4 => w[4] = Space[1] /\ q = 4 + Len(c) /\ \A i \in 1 .. Len(c) : w[4 + i] = c[i]
  <2>1. q >= 4 => text # << >>
    BY <1>3
  <2> QED BY <2>1, <1>1, <1>4, Zenon DEF Holds
<1>8. Blank(Space[1]) /\ Space[1] # LF[1] /\ Space[1] # Continuation
  <2>1. [mark |-> " "] # [mark |-> "LF"]
    BY MarksDiffer, Zenon
  <2>2. [mark |-> " "] # Continuation
    BY PlainOctets, Zenon
  <2> QED BY <2>1, <2>2, <1>4, Zenon DEF Blank
<1>9. Blank(w[q + 1]) /\ w[q + 1] # LF[1] /\ w[q + 2] = LF[1]
  <2>1. w[q + 1] = [mark |-> "CR"] /\ w[q + 2] = [mark |-> "LF"]
    BY <1>1, Zenon
  <2>2. [mark |-> "CR"] # [mark |-> "LF"]
    BY MarksDiffer, Zenon
  <2> QED BY <2>1, <2>2, <1>4, Zenon DEF Blank
<1>10. q >= 3 /\ (q < 4 => c = << >>)
  BY <1>3
<1> QED BY <1>1, <1>5, <1>6, <1>7, <1>8, <1>9, <1>10, Zenon

\* What is shown of a line of which the first n octets have come, with a message made
\* of the octets before place m + 1.
Shown(c, m) == IF m <= 3 THEN << >> ELSE SubSeq(c, 1, m - 4)
Upto3(m) == IF m < 3 THEN m ELSE 3
LineShown(message, m, n) ==
  IF m >= 3 /\ Ftp!IsReply
  THEN Parsed([code |-> SubSeq(Field(FtpHead, 3), 1, Upto3(n)), message |-> message], m)
  ELSE Parsed([command |-> SubSeq(Field(FtpHead, 3), 1, Upto3(n)), message |-> message], m)
Shows(result, c, m, n) ==
  \E message : Trim(message) = Trim(Shown(c, m)) /\ result = LineShown(message, m, n)

LEMMA HeadOctets ==
  ASSUME Ftp!TypeOK, NEW w, NEW c, NEW q, LineIs(w, c, q), NEW s \in Seq(FtpOctet), NEW d \in 1 .. 3,
         Len(s) = d, \A i \in 1 .. d : s[i] = w[i]
  PROVE  s = SubSeq(Field(FtpHead, 3), 1, d)
<1> DEFINE h == Field(FtpHead, 3)
           t == SubSeq(h, 1, d)
<1>1. w[1] = FtpHead /\ w[2] = Inside /\ w[3] = Inside
  BY Zenon DEF LineIs
<1>2. h \in Seq(FtpOctet) /\ Len(h) = 3 /\ h[1] = FtpHead /\ h[2] = Inside /\ h[3] = Inside
  <2>1. FtpHead \in FtpOctet /\ Inside \in FtpOctet
    BY PlainOctets, Zenon
  <2>2. \A i \in 1 .. 3 : (IF i = 1 THEN FtpHead ELSE Inside) \in FtpOctet
    BY <2>1
  <2> QED BY <2>2 DEF Field
<1> HIDE DEF h
<1>3. t \in Seq(FtpOctet) /\ Len(t) = d /\ \A i \in 1 .. d : t[i] = h[i]
  BY <1>2
<1> HIDE DEF t
<1>4. ASSUME NEW i \in 1 .. d PROVE s[i] = t[i]
  <2>1. i = 1 \/ i = 2 \/ i = 3
    OBVIOUS
  <2> QED BY <2>1, <1>1, <1>2, <1>3
<1>5. s = t
  BY <1>3, <1>4, SeqEqual
<1> QED BY <1>5 DEF t, h

LEMMA LineParsed ==
  ASSUME Ftp!TypeOK, NEW w, NEW c, NEW q, LineIs(w, c, q), NEW m \in 1 .. q, m # 4
  PROVE  Shows(Ftp!ParseLine(SubSeq(w, 1, m)), c, m, m)
<1> DEFINE first == SubSeq(w, 1, m)
           d == Upto3(m)
           command == SubSeq(first, 1, d)
<1>1. q \in Nat /\ q >= 3 /\ w \in Seq(FtpOctet) /\ Len(w) = q + 2 /\ c \in Seq(FtpChar)
  BY LineOctets
<1>2. Inked(w[1]) /\ Inked(w[2]) /\ Inked(w[3])
  BY LineOctets
<1>3. q >= 4 => w[4] = Space[1] /\ q = 4 + Len(c) /\ \A i \in 1 .. Len(c) : w[4 + i] = c[i]
  BY LineOctets
<1>4. Blank(Space[1]) /\ Space[1] # Continuation
  BY LineOctets
<1>a. q \in Nat /\ m \in Nat /\ 1 <= m /\ m <= q /\ m # 4
  BY <1>1
<1>5. first \in Seq(FtpOctet) /\ Len(first) = m /\ \A i \in 1 .. m : first[i] = w[i]
  BY <1>1
<1> HIDE DEF first
<1>6. d \in 1 .. 3 /\ d <= m /\ (m > 3 => d = 3) /\ (m <= 3 => d = m)
  BY <1>1 DEF Upto3
<1> HIDE DEF d
<1>7. command \in Seq(FtpOctet) /\ Len(command) = d /\ \A i \in 1 .. d : command[i] = w[i]
  <2>1. /\ command \in Seq(FtpOctet) /\ Len(command) = d
        /\ \A i \in 1 .. d : command[i] = first[i]
    BY <1>5, <1>6
  <2>2. \A i \in 1 .. d : i \in 1 .. m
    BY <1>6
  <2> QED BY <2>1, <2>2, <1>5
<1>8. Split(first, Space)[1] = command
  <2>1. \A j \in 1 .. d : first[j] # Space[1]
    <3>1. \A j \in 1 .. d : j \in 1 .. m /\ (j = 1 \/ j = 2 \/ j = 3)
      BY <1>a, <1>6
    <3> QED BY <3>1, <1>2, <1>5 DEF Inked
  <2>2. d < Len(first) => first[d + 1] = Space[1]
    <3>1. ASSUME d < m PROVE first[d + 1] = Space[1]
      <4>1. d + 1 = 4 /\ 4 \in 1 .. m /\ q >= 4
        BY <3>1, <1>1, <1>6
      <4>2. first[4] = w[4]
        BY <4>1, <1>5
      <4> QED BY <4>1, <4>2, <1>3
    <3> QED BY <3>1, <1>5
  <2>3. d \in 0 .. Len(first) /\ first \in Seq(FtpOctet)
    BY <1>5, <1>6
  <2>4. Split(first, Space)[1] = SubSeq(first, 1, d)
    BY <2>1, <2>2, <2>3, FirstPiece, Zenon
  <2> QED BY <2>4
<1>9. command = SubSeq(Field(FtpHead, 3), 1, d)
  <2> HIDE DEF command
  <2>1. d \in 1 .. 3
    BY <1>6
  <2>2. command \in Seq(FtpOctet) /\ Len(command) = d /\ \A i \in 1 .. d : command[i] = w[i]
    BY <1>7
  <2> QED BY <2>1, <2>2, HeadOctets, ZenonT(40)
<1>10. IsBoundary(first, 3) \/ ~ (m >= 3)
  <2>1. ASSUME m >= 3, m # 3 PROVE first[3 + 1] # Continuation
    <3>1. 4 \in 1 .. m /\ q >= 4 /\ 3 + 1 = 4
      BY <2>1, <1>1
    <3>2. first[4] = w[4]
      BY <3>1, <1>5
    <3> QED BY <3>1, <3>2, <1>3, <1>4
  <2> QED BY <2>1, <1>5 DEF IsBoundary
<1>11. ASSUME m >= 3 PROVE AllDigits(command) <=> Ftp!IsReply
  <2>1. d = 3 /\ 1 \in 1 .. d /\ 2 \in 1 .. d /\ 3 \in 1 .. d
    BY <1>6, <1>11
  <2>2. w[1] = FtpHead /\ w[2] = Inside /\ w[3] = Inside
    BY Zenon DEF LineIs
  <2>3. command[1] = FtpHead /\ command[2] = Inside /\ command[3] = Inside
    BY <2>1, <2>2, <1>7
  <2> HIDE DEF command
  <2>4. DOMAIN command = 1 .. 3
    BY <2>1, <1>7
  <2>5. \A i \in 1 .. 3 : i > 1 => command[i] = Inside
    <3>1. \A i \in 1 .. 3 : i > 1 => i = 2 \/ i = 3
      OBVIOUS
    <3> QED BY <3>1, <2>3
  <2>6. \A i \in 1 .. 3 : Has(command, i - 1, "digits") <=> "digits" \in DOMAIN command[i]
    <3>1. \A i \in 1 .. 3 : (i - 1) + 1 = i
      OBVIOUS
    <3> QED BY <3>1 DEF Has
  <2>7. AllDigits(command) <=> "digits" \in DOMAIN FtpHead
    <3>1. 1 \in 1 .. 3 /\ ~ (1 > 1) /\ \A i \in 1 .. 3 : i = 1 \/ i > 1
      OBVIOUS
    <3>2. AllDigits(command) <=> \A i \in 1 .. 3 : "digits" \in DOMAIN command[i] \/ (i > 1 /\ command[i] = Inside)
      BY <2>4, <2>6 DEF AllDigits
    <3> QED BY <3>1, <3>2, <2>3, <2>5, Zenon
  <2> QED BY <2>7, PlainOctets, Zenon
<1> DEFINE tail == SubSeq(first, 4, m)
           message == SubSeq(first, Len(command) + 2, Len(first))
<1>12. Trim(tail) = Trim(Shown(c, m)) \/ ~ (m >= 3)
  <2>1. CASE m = 3
    <3>1. tail = << >>
      BY <2>1, <1>5
    <3> QED BY <2>1, <3>1 DEF Shown
  <2>2. CASE m > 4
    <3>1. PICK k \in Nat : k = m - 4 /\ k >= 1 /\ q = 4 + Len(c) /\ k <= Len(c) /\ m - 3 = k + 1
      <4>1. q >= 4
        BY <1>a, <2>2
      <4>2. q = 4 + Len(c) /\ Len(c) \in Nat
        BY <4>1, <1>1, <1>3
      <4> QED BY <4>2, <2>2
    <3>2. tail \in Seq(FtpOctet) /\ Len(tail) = k + 1 /\ \A p \in 1 .. k + 1 : tail[p] = first[3 + p]
      <4>1. /\ SubSeq(first, 3 + 1, m) \in Seq(FtpOctet) /\ Len(SubSeq(first, 3 + 1, m)) = m - 3
            /\ \A p \in 1 .. m - 3 : SubSeq(first, 3 + 1, m)[p] = first[3 + p]
        <5>1. 3 \in Nat /\ 3 <= m /\ m \in Nat /\ m <= Len(first)
          BY <2>2, <1>5
        <5> QED BY <5>1, <1>5, Slice
      <4>2. 3 + 1 = 4
        OBVIOUS
      <4> QED BY <4>1, <4>2, <3>1
    <3> HIDE DEF tail
    <3>3. tail[1] = Space[1]
      <4>1. 1 \in 1 .. k + 1 /\ 3 + 1 = 4 /\ 4 \in 1 .. m /\ q >= 4
        BY <1>a, <2>2
      <4> QED BY <4>1, <3>2, <1>3, <1>5
    <3>4. ASSUME NEW i \in 1 .. k PROVE tail[1 + i] = c[i]
      <4>1. 1 + i \in 1 .. k + 1 /\ 3 + (1 + i) = 4 + i /\ 4 + i \in 1 .. m
        BY <2>2, <3>1
      <4>2. tail[1 + i] = w[4 + i]
        BY <4>1, <3>2, <1>5
      <4>3. i \in 1 .. Len(c) /\ q >= 4
        BY <3>1, <2>2
      <4> QED BY <4>2, <4>3, <1>3
    <3> DEFINE y == SubSeq(c, 1, k)
    <3>5. y \in Seq(FtpChar) /\ Len(y) = k /\ \A p \in 1 .. k : y[p] = c[p]
      BY <3>1, <1>1, Beginning
    <3>6. Shown(c, m) = y
      BY <2>2, <3>1 DEF Shown
    <3> HIDE DEF y
    <3>7. y \in Seq(FtpOctet)
      BY <3>5, FtpChars
    <3>8. Len(tail) = 1 + Len(y) /\ Blank(tail[1]) /\ \A i \in 1 .. Len(y) : tail[1 + i] = y[i]
      BY <3>1, <3>2, <3>3, <3>4, <3>5, <1>4
    <3>9. Trim(tail) = Trim(y)
      BY <3>2, <3>7, <3>8, TrimBehind
    <3> QED BY <3>6, <3>9
  <2> QED BY <2>1, <2>2, <1>a
<1>13. message = Shown(c, m)
  <2>1. CASE m <= 3
    <3>1. message = SubSeq(first, m + 2, m)
      <4>1. Len(command) = m /\ Len(first) = m
        BY <2>1, <1>5, <1>6, <1>7
      <4> HIDE DEF command
      <4> QED BY <4>1
    <3>2. SubSeq(first, m + 2, m) = << >>
      BY <1>5
    <3> QED BY <2>1, <3>1, <3>2 DEF Shown
  <2>2. CASE m > 4
    <3>1. PICK k \in Nat : k = m - 4 /\ q = 4 + Len(c) /\ k <= Len(c)
      <4>1. q >= 4
        BY <1>a, <2>2
      <4>2. q = 4 + Len(c) /\ Len(c) \in Nat
        BY <4>1, <1>1, <1>3
      <4> QED BY <4>2, <2>2
    <3>2. message = SubSeq(first, 4 + 1, m)
      <4>1. Len(command) + 2 = 4 + 1 /\ Len(first) = m
        BY <2>2, <1>5, <1>6, <1>7
      <4> HIDE DEF command
      <4> QED BY <4>1
    <3> DEFINE x == SubSeq(first, 4 + 1, m)
               y == SubSeq(c, 1, k)
    <3>3. x \in Seq(FtpOctet) /\ Len(x) = m - 4 /\ \A p \in 1 .. m - 4 : x[p] = first[4 + p]
      <4>1. 4 \in Nat /\ 4 <= m /\ m \in Nat /\ m <= Len(first)
        BY <2>2, <1>5
      <4> QED BY <4>1, <1>5, Slice
    <3>4. y \in Seq(FtpChar) /\ Len(y) = k /\ \A p \in 1 .. k : y[p] = c[p]
      BY <3>1, <1>1
    <3> HIDE DEF x, y
    <3>5. y \in Seq(FtpOctet)
      BY <3>4, FtpChars
    <3>6. ASSUME NEW p \in 1 .. k PROVE x[p] = y[p]
      <4>1. 4 + p \in 1 .. m /\ p \in 1 .. Len(c) /\ q >= 4 /\ p \in 1 .. m - 4
        BY <3>1, <2>2
      <4> QED BY ZenonT(40), <4>1, <3>3, <3>4, <1>3, <1>5
    <3>7. x = y
      <4>1. Len(x) = Len(y) /\ \A p \in 1 .. Len(x) : x[p] = y[p]
        BY <3>1, <3>3, <3>4, <3>6
      <4> QED BY <4>1, <3>3, <3>5, SeqEqual
    <3>8. Shown(c, m) = y
      BY <2>2, <3>1 DEF Shown, y
    <3> QED BY <3>2, <3>7, <3>8 DEF x
  <2> HIDE DEF message
  <2> QED BY <2>1, <2>2, <1>a
<1>14. Ftp!ParseLine(first) =
         IF m >= 3 /\ ~ IsBoundary(first, 3) THEN Panic
         ELSE IF m >= 3 /\ AllDigits(SubSeq(first, 1, 3))
         THEN Parsed([code |-> SubSeq(first, 1, 3), message |-> Trim(tail)], m)
         ELSE Parsed([command |-> command, message |-> message], m)
  BY <1>5, <1>8, FtpStrings, FtpOctets DEF Ftp!ParseLine, Ftp!Slices
<1>15. Shown(c, m) \in Seq(FtpChar)
  <2>1. CASE m <= 3
    BY <2>1 DEF Shown
  <2>2. CASE m > 4
    <3>1. PICK k \in Nat : k = m - 4 /\ k <= Len(c)
      <4>1. q >= 4
        BY <1>a, <2>2
      <4>2. q = 4 + Len(c) /\ Len(c) \in Nat
        BY <4>1, <1>1, <1>3
      <4> QED BY <4>2, <1>a, <2>2
    <3> QED BY <2>2, <3>1, <1>1, Beginning DEF Shown
  <2> QED BY <2>1, <2>2, <1>a
<1>16. Trim(Trim(Shown(c, m))) = Trim(Shown(c, m))
  BY <1>15, TrimTwice
<1> HIDE DEF tail, message
<1>17. CASE m >= 3
  <2>1. d = 3
    BY <1>6, <1>17
  <2>2. command = SubSeq(first, 1, 3)
    BY <2>1
  <2> HIDE DEF command
  <2>3. CASE Ftp!IsReply
    <3>1. Ftp!ParseLine(first) = LineShown(Trim(tail), m, m)
      BY <2>2, <2>3, <1>9, <1>10, <1>11, <1>14, <1>17 DEF LineShown, d
    <3>2. Trim(Trim(tail)) = Trim(Shown(c, m))
      BY <1>12, <1>16, <1>17
    <3> QED BY <3>1, <3>2, Zenon DEF Shows, first
  <2>4. CASE ~ Ftp!IsReply
    <3>1. Ftp!ParseLine(first) = LineShown(message, m, m)
      BY <2>2, <2>4, <1>9, <1>10, <1>11, <1>14, <1>17 DEF LineShown, d
    <3> QED BY <3>1, <1>13, Zenon DEF Shows, first
  <2> QED BY <2>3, <2>4
<1>18. CASE ~ (m >= 3)
  <2> HIDE DEF command
  <2>1. Ftp!ParseLine(first) = LineShown(message, m, m)
    BY <1>9, <1>14, <1>18 DEF LineShown, d
  <2> QED BY <2>1, <1>13, Zenon DEF Shows, first
<1> QED BY <1>17, <1>18

--------------------------------------------------------------------------------
\* The first n octets are a line up to place m, and behind it there are only blanks.
EndsAt(w, q, n, m) ==
  /\ m \in 1 .. q /\ m # 4 /\ Upto3(n) <= m /\ m <= n
  /\ \A j \in m + 1 .. q : j <= n => Blank(w[j])
  /\ Ftp!FirstLine(SubSeq(w, 1, n)) = SubSeq(w, 1, m)

LEMMA FirstLineRead ==
  ASSUME Ftp!TypeOK, NEW w, NEW c, NEW q, LineIs(w, c, q), NEW n \in 1 .. q + 2
  PROVE  \E m : EndsAt(w, q, n, m)
<1> DEFINE p == IF n > q + 1 THEN q + 1 ELSE n
           cut == SubSeq(w, 1, n)
           piece == SubSeq(cut, 1, p)
           T == {j \in 1 .. p : ~ Blank(w[j])}
<1>1. q \in Nat /\ q >= 3 /\ w \in Seq(FtpOctet) /\ Len(w) = q + 2
  BY LineOctets
<1>2. ~ Blank(w[1]) /\ ~ Blank(w[2]) /\ ~ Blank(w[3])
  BY LineOctets DEF Inked
<1>3. (q >= 4 => w[4] = Space[1]) /\ Blank(Space[1])
  BY LineOctets
<1>4. \A j \in 1 .. q : w[j] # LF[1]
  BY LineOctets
<1>5. Blank(w[q + 1]) /\ w[q + 1] # LF[1] /\ w[q + 2] = LF[1]
  BY LineOctets
<1>6. n \in Nat /\ 1 <= n /\ n <= q + 2
  BY <1>1
<1>7. p \in Nat /\ 1 <= p /\ p <= n /\ p <= q + 1 /\ (p < n => p = q + 1 /\ n = q + 2) /\ (n <= q + 1 => p = n)
  BY <1>1, <1>6
<1> HIDE DEF p
<1>8. Upto3(n) \in 1 .. 3 /\ Upto3(n) <= p
  BY <1>1, <1>6, <1>7 DEF Upto3
<1>9. ~ Blank(w[Upto3(n)])
  <2>1. \A x \in 1 .. 3 : x = 1 \/ x = 2 \/ x = 3
    OBVIOUS
  <2> QED BY <2>1, <1>2, <1>8
<1>10. T \in SUBSET Nat /\ T \in SUBSET (0 .. p) /\ Upto3(n) \in T /\ 1 \in T
  BY <1>2, <1>7, <1>8, <1>9
<1>11. /\ \A j \in T : j \in 1 .. p /\ ~ Blank(w[j])
       /\ \A j \in 1 .. p : ~ Blank(w[j]) => j \in T
  OBVIOUS
<1> HIDE DEF T
<1>12. PICK m \in T : \A j \in T : j <= m
  BY <1>7, <1>10, MaxOf
<1>13. m \in 1 .. q /\ m # 4 /\ Upto3(n) <= m /\ m <= n /\ m \in 1 .. p
  <2>1. m \in 1 .. p /\ ~ Blank(w[m]) /\ Upto3(n) <= m
    BY <1>10, <1>11, <1>12
  <2>2. m # q + 1
    BY <2>1, <1>5
  <2>3. m # 4
    <3>1. CASE q >= 4
      BY <3>1, <2>1, <1>3
    <3>2. CASE q = 3
      <4>1. q + 1 = 4
        BY <3>2
      <4> QED BY <4>1, <2>2
    <3> QED BY <3>1, <3>2, <1>1
  <2> QED BY <2>1, <2>2, <2>3, <1>1, <1>7
<1>14. \A j \in m + 1 .. p : Blank(w[j])
  <2>1. \A j \in m + 1 .. p : j \in 1 .. p /\ ~ (j <= m)
    BY <1>7, <1>13
  <2> QED BY <2>1, <1>11, <1>12
<1>15. \A j \in m + 1 .. q : j <= n => Blank(w[j])
  <2>1. \A j \in m + 1 .. q : j <= n => j \in m + 1 .. p
    BY <1>1, <1>6, <1>7, <1>13
  <2> QED BY <2>1, <1>14
<1>16. cut \in Seq(FtpOctet) /\ Len(cut) = n /\ \A i \in 1 .. n : cut[i] = w[i]
  BY <1>1, <1>6, Beginning
<1> HIDE DEF cut
<1>17. Split(cut, LF)[1] = piece
  <2>1. ASSUME NEW j \in 1 .. p PROVE cut[j] # LF[1]
    <3>1. j \in 1 .. n /\ (j \in 1 .. q \/ j = q + 1)
      BY <1>1, <1>6, <1>7
    <3> QED BY <3>1, <1>4, <1>5, <1>16
  <2>2. p < Len(cut) => cut[p + 1] = LF[1]
    <3>1. ASSUME p < n PROVE cut[p + 1] = LF[1]
      <4>1. p + 1 = q + 2 /\ p + 1 \in 1 .. n
        BY <3>1, <1>1, <1>6, <1>7
      <4> QED BY <4>1, <1>5, <1>16
    <3> QED BY <3>1, <1>16
  <2>3. p \in 0 .. Len(cut)
    BY <1>7, <1>16
  <2> QED BY <2>1, <2>2, <2>3, <1>16, FirstPiece
<1>18. piece \in Seq(FtpOctet) /\ Len(piece) = p /\ \A i \in 1 .. p : piece[i] = w[i]
  <2>1. piece \in Seq(FtpOctet) /\ Len(piece) = p /\ \A i \in 1 .. p : piece[i] = cut[i]
    BY <1>7, <1>16, Beginning
  <2>2. \A i \in 1 .. p : i \in 1 .. n
    BY <1>6, <1>7
  <2> HIDE DEF piece
  <2> QED BY <2>1, <2>2, <1>16
<1> HIDE DEF piece
<1>19. Trim(piece) = SubSeq(piece, 1, m)
  <2>1. 1 \in 1 .. Len(piece) /\ m \in 1 .. Len(piece) /\ 1 \in 1 .. p /\ m \in 1 .. p
    BY <1>7, <1>13, <1>18
  <2>2. ~ Blank(piece[1]) /\ ~ Blank(piece[m])
    BY <2>1, <1>2, <1>11, <1>12, <1>18
  <2>3. \A i \in 1 .. 1 - 1 : Blank(piece[i])
    OBVIOUS
  <2>4. ASSUME NEW i \in m + 1 .. Len(piece) PROVE Blank(piece[i])
    <3>1. i \in m + 1 .. p /\ i \in 1 .. p
      BY <1>7, <1>13, <1>18
    <3> QED BY <3>1, <1>14, <1>18
  <2> QED BY <2>1, <2>2, <2>3, <2>4, <1>18, TrimKeeps
<1>20. SubSeq(piece, 1, m) = SubSeq(w, 1, m)
  <2> DEFINE x == SubSeq(piece, 1, m)
             y == SubSeq(w, 1, m)
  <2>1. m \in Nat /\ m <= Len(piece) /\ m <= Len(w)
    BY <1>1, <1>7, <1>13, <1>18
  <2>2. x \in Seq(FtpOctet) /\ Len(x) = m /\ \A i \in 1 .. m : x[i] = piece[i]
    BY <2>1, <1>18, Beginning
  <2>3. y \in Seq(FtpOctet) /\ Len(y) = m /\ \A i \in 1 .. m : y[i] = w[i]
    BY <2>1, <1>1, Beginning
  <2>4. \A i \in 1 .. m : i \in 1 .. p
    BY <1>7, <1>13
  <2> HIDE DEF x, y
  <2>5. Len(x) = Len(y) /\ \A i \in 1 .. Len(x) : x[i] = y[i]
    BY <2>2, <2>3, <2>4, <1>18
  <2>6. x = y
    BY <2>2, <2>3, <2>5, SeqEqual
  <2> QED BY <2>6 DEF x, y
<1>21. Ftp!FirstLine(cut) = Trim(piece)
  BY <1>17, FtpStrings, FtpOctets DEF Ftp!FirstLine
<1>22. EndsAt(w, q, n, m)
  BY <1>13, <1>15, <1>19, <1>20, <1>21 DEF EndsAt, cut
<1> QED BY <1>22

\* A segment of the line is text, or an error.
SegmentShows(s, c, m, n) == IF IsText(s) THEN Shows(Ftp!ParseFtpData(s), c, m, n) ELSE Ftp!ParseFtpData(s) = Err

LEMMA FirstSegmentReads ==
  ASSUME Ftp!TypeOK, NEW w, NEW c, NEW q, LineIs(w, c, q), NEW n \in 1 .. q + 2, NEW m, EndsAt(w, q, n, m)
  PROVE  SegmentShows(SubSeq(w, 1, n), c, m, n)
<1> DEFINE cut == SubSeq(w, 1, n)
           first == SubSeq(w, 1, m)
<1>1. q \in Nat /\ q >= 3 /\ w \in Seq(FtpOctet) /\ Len(w) = q + 2
  BY LineOctets
<1>2. m \in 1 .. q /\ m # 4 /\ Ftp!FirstLine(cut) = first /\ Upto3(n) <= m /\ m <= n
  BY DEF EndsAt
<1>3. Upto3(n) = Upto3(m)
  BY <1>1, <1>2 DEF Upto3
<1>4. first # << >>
  <2>1. Len(first) = m /\ m \in Nat /\ 1 <= m
    BY <1>1, <1>2
  <2> HIDE DEF first
  <2> QED BY <2>1
<1>5. PICK message : Trim(message) = Trim(Shown(c, m)) /\ Ftp!ParseLine(first) = LineShown(message, m, m)
  BY <1>2, LineParsed DEF Shows
<1>6. LineShown(message, m, m) = LineShown(message, m, n)
  BY <1>3 DEF LineShown
<1> HIDE DEF cut, first
<1>7. Ftp!ParseFtpData(cut) = IF ~ IsText(cut) THEN Err ELSE LineShown(message, m, n)
  BY <1>2, <1>4, <1>5, <1>6, FtpStrings, FtpOctets DEF Ftp!ParseFtpData
<1> QED BY <1>5, <1>7, Zenon DEF SegmentShows, Shows, cut

\* The whole line is text.
LEMMA LineIsText ==
  ASSUME Ftp!TypeOK, NEW w, NEW c, NEW q, LineIs(w, c, q)
  PROVE  IsText(w)
<1>1. q \in Nat /\ w \in Seq(FtpOctet) /\ Len(w) = q + 2
  BY LineOctets
<1>2. w[1] = FtpHead /\ w[q + 2] = [mark |-> "LF"]
  BY Zenon DEF LineIs
<1>3. FtpHead # Continuation /\ "lead" \notin DOMAIN [mark |-> "LF"]
  BY PlainOctets, Zenon DEF Plain
<1>4. ASSUME NEW i \in DOMAIN w
      PROVE  (Has(w, i - 1, "lead") => i < Len(w)) /\ (w[i] = Continuation => i > 1)
  <2>1. i \in Nat /\ 1 <= i /\ i <= q + 2 /\ (i - 1) + 1 = i
    BY <1>1
  <2>2. Has(w, i - 1, "lead") <=> "lead" \in DOMAIN w[i]
    BY <2>1 DEF Has
  <2>3. "lead" \in DOMAIN w[i] => i # q + 2
    BY <1>2, <1>3
  <2>4. w[i] = Continuation => i # 1
    BY <1>2, <1>3
  <2> QED BY <2>1, <2>2, <2>3, <2>4, <1>1
<1> QED BY <1>4 DEF IsText

\* In the segment with the beginning of a line.
LEMMA FirstSegment == ASSUME Ftp!TypeOK PROVE Ftp!FirstSegmentIsRead
<1> DEFINE w == Ftp!Written
           c == Ftp!Characters
<1>1. PICK q : LineIs(w, c, q)
  BY LineWritten
<1> HIDE DEF w, c
<1>2. q \in Nat /\ q >= 3 /\ w \in Seq(FtpOctet) /\ Len(w) = q + 2
  BY <1>1, LineOctets
<1>3. /\ c \in Seq(FtpChar) /\ (q < 4 => c = << >>)
      /\ q >= 4 => q = 4 + Len(c) /\ \A i \in 1 .. Len(c) : w[4 + i] = c[i]
  BY <1>1, LineOctets
<1>4. Ftp!Head3 = Field(FtpHead, 3)
  BY FtpOctets DEF Ftp!Head3, FtpHead
<1>5. ASSUME NEW n \in 1 .. Len(w)
      PROVE  LET result == Ftp!ParseFtpData(SubSeq(w, 1, n)) IN
             /\ ~ result.ok => result = Err /\ ~ IsText(SubSeq(w, 1, n))
             /\ result.ok =>
                  /\ IsPrefix(Trim(result.value.message), Trim(c))
                  /\ LET begins == IF n >= 3 /\ Ftp!IsReply THEN "code" ELSE "command" IN
                     /\ begins \in DOMAIN result.value
                     /\ result.value[begins] = SubSeq(Field(FtpHead, 3), 1, Min({n, 3}))
             /\ n = Len(w) => result.ok /\ Trim(result.value.message) = Trim(c)
  <2> DEFINE result == Ftp!ParseFtpData(SubSeq(w, 1, n))
             d == SubSeq(Field(FtpHead, 3), 1, Upto3(n))
  <2>1. n \in Nat /\ 1 <= n /\ n <= q + 2 /\ n \in 1 .. q + 2
    BY <1>2, <1>5
  <2>2. PICK m : EndsAt(w, q, n, m)
    BY <2>1, <1>1, FirstLineRead
  <2>3. SegmentShows(SubSeq(w, 1, n), c, m, n)
    BY <2>1, <2>2, <1>1, FirstSegmentReads
  <2>4. /\ m \in Nat /\ 1 <= m /\ m <= q /\ m # 4 /\ (m >= 3 <=> n >= 3)
        /\ \A j \in m + 1 .. q : j <= n => Blank(w[j])
    BY <2>1, <2>2, <1>2 DEF EndsAt, Upto3
  <2>5. Min({n, 3}) = Upto3(n)
    <3>1. CASE n < 3
      <4>1. {n, 3} \in SUBSET Nat /\ n \in {n, 3} /\ \A y \in {n, 3} : n <= y
        BY <3>1, <2>1
      <4>2. Min({n, 3}) = n
        BY <4>1, MinIs
      <4> QED BY <4>2, <3>1 DEF Upto3
    <3>2. CASE ~ (n < 3)
      <4>1. {n, 3} \in SUBSET Nat /\ 3 \in {n, 3} /\ \A y \in {n, 3} : 3 <= y
        BY <3>2, <2>1
      <4>2. Min({n, 3}) = 3
        BY <4>1, MinIs
      <4> QED BY <4>2, <3>2 DEF Upto3
    <3> QED BY <3>1, <3>2
  <2>6. PICK k \in 0 .. Len(c) : Shown(c, m) = SubSeq(c, 1, k) /\ (q >= 4 => k = (IF m <= 3 THEN 0 ELSE m - 4))
    <3>1. CASE m <= 3
      <4>1. 0 \in 0 .. Len(c) /\ SubSeq(c, 1, 0) = << >>
        BY <1>3
      <4> QED BY <4>1, <3>1 DEF Shown
    <3>2. CASE ~ (m <= 3)
      <4>1. q = 4 + Len(c) /\ Len(c) \in Nat
        <5>1. q >= 4
          BY <3>2, <2>4, <1>2
        <5> QED BY <5>1, <1>3
      <4>2. m - 4 \in 0 .. Len(c)
        BY <3>2, <4>1, <2>4
      <4> QED BY <3>2, <4>2 DEF Shown
    <3> QED BY <3>1, <3>2
  <2>7. IsPrefix(Trim(Shown(c, m)), Trim(c))
    BY <2>6, <1>3, TrimBeginning
  <2>8. n = Len(w) => Trim(Shown(c, m)) = Trim(c)
    <3>1. ASSUME n = q + 2, NEW i \in k + 1 .. Len(c) PROVE Blank(c[i])
      <4>1. Len(c) \in Nat /\ k \in Nat
        BY <1>3, <2>6
      <4>2. q >= 4
        <5>1. q < 4 => Len(c) = 0
          BY <1>3
        <5> QED BY <5>1, <4>1, <1>2, <3>1
      <4>3. 4 + i \in m + 1 .. q /\ 4 + i <= n /\ i \in 1 .. Len(c)
        BY <4>1, <4>2, <3>1, <2>4, <2>6, <1>2, <1>3
      <4> QED BY <4>2, <4>3, <2>4, <1>3
    <3>2. n = q + 2 => Trim(SubSeq(c, 1, k)) = Trim(c)
      BY <3>1, <1>3, TrimBeginning
    <3> QED BY <3>2, <2>6, <1>2
  <2>9. n = Len(w) => IsText(SubSeq(w, 1, n))
    <3>1. SubSeq(w, 1, Len(w)) = w
      BY <1>2
    <3> QED BY <3>1, <1>1, LineIsText
  <2> HIDE DEF result
  <2>10. CASE IsText(SubSeq(w, 1, n))
    <3>1. PICK message : Trim(message) = Trim(Shown(c, m)) /\ result = LineShown(message, m, n)
      BY <2>3, <2>10, Zenon DEF SegmentShows, Shows, result
    <3> HIDE DEF d
    <3>2. result = IF n >= 3 /\ Ftp!IsReply THEN Parsed([code |-> d, message |-> message], m)
                   ELSE Parsed([command |-> d, message |-> message], m)
      BY <3>1, <2>4 DEF LineShown, d
    <3>3. \A v, o : Parsed(v, o).ok = TRUE /\ Parsed(v, o).value = v
      BY DEF Parsed
    <3> DEFINE begins == IF n >= 3 /\ Ftp!IsReply THEN "code" ELSE "command"
    <3>4. result.ok = TRUE /\ result.value.message = message /\ begins \in DOMAIN result.value /\ result.value[begins] = d
      <4>1. CASE n >= 3 /\ Ftp!IsReply
        <5>1. result.ok = TRUE /\ result.value = [code |-> d, message |-> message] /\ begins = "code"
          BY <4>1, <3>2, <3>3
        <5> HIDE DEF begins
        <5> QED BY <5>1
      <4>2. CASE ~ (n >= 3 /\ Ftp!IsReply)
        <5>1. result.ok = TRUE /\ result.value = [command |-> d, message |-> message] /\ begins = "command"
          BY <4>2, <3>2, <3>3
        <5> HIDE DEF begins
        <5> QED BY <5>1
      <4> QED BY <4>1, <4>2
    <3>5. d = SubSeq(Field(FtpHead, 3), 1, Min({n, 3}))
      BY <2>5 DEF d
    <3>6. IsPrefix(Trim(message), Trim(c)) /\ (n = Len(w) => Trim(message) = Trim(c))
      BY <3>1, <2>7, <2>8
    <3> HIDE DEF begins
    <3> QED BY <3>4, <3>5, <3>6 DEF result, begins
  <2>11. CASE ~ IsText(SubSeq(w, 1, n))
    <3>1. result = Err /\ result.ok = FALSE /\ n # Len(w)
      BY <2>3, <2>9, <2>11 DEF SegmentShows, result, Err
    <3> QED BY <3>1, <2>11 DEF result
  <2> QED BY <2>10, <2>11
<1>6. Ftp!Err = Err
  BY FtpOctets
<1> QED BY <1>4, <1>5, <1>6, FtpStrings DEF Ftp!FirstSegmentIsRead, w, c

(***************************************************************************)
(* The first segment of an FTP line shows the code of a reply, or the verb *)
(* of a command, as far as it reaches, and then the text it holds of the   *)
(* line, but for the spaces at its ends; it never panics, and is an error  *)
(* only if it ends within a character.  For every verb, every code, every  *)
(* text of letters, digits, spaces and characters of two octets, and every *)
(* cut.                                                                    *)
(***************************************************************************)
THEOREM FtpRead == Spec => []FtpLineIsRead
<1>1. Inv => FtpLineIsRead
  BY FirstSegment DEF Inv, FtpLineIsRead
<1> QED BY <1>1, Started, WentOn, PTL DEF Spec
================================================================================
