------------------------ MODULE ApplicationWritersProofs -------------------------
(***************************************************************************)
(* Proofs about what the programs of ApplicationParsers write, for all     *)
(* constants, and the lemmas about sequences, induction, recursion and     *)
(* text that the proofs about their parsers use too.                       *)
(***************************************************************************)
EXTENDS ApplicationParsers, Text, SequenceTheorems, WellFoundedInduction, TLAPS

(***************************************************************************)
(* Induction and recursion over data.                                      *)
(***************************************************************************)
Before == {ss \in Nat \X Nat : ss[1] < ss[2]}

LEMMA LeastNumber ==
  ASSUME NEW T \in SUBSET Nat, T # {}
  PROVE  \E x \in T : \A y \in T : x <= y
<1>1. IsWellFoundedOn(Before, Nat)
  BY NatLessThanWellFounded DEF OpToRel, Before
<1>2. PICK x \in T : \A y \in T : ~ (<<y, x>> \in Before)
  BY <1>1, WFMin
<1>3. ASSUME NEW y \in T PROVE x <= y
  <2>1. ASSUME y < x PROVE FALSE
    <3>1. <<y, x>> \in Nat \X Nat /\ <<y, x>>[1] < <<y, x>>[2]
      BY <2>1
    <3> QED BY <3>1, <1>2 DEF Before
  <2> QED BY <2>1
<1> QED BY <1>3

LEMMA Induction ==
  ASSUME NEW T, 0 \in T, \A n \in Nat : n \in T => n + 1 \in T
  PROVE  \A n \in Nat : n \in T
<1> DEFINE Bad == Nat \ T
<1>1. ASSUME Bad # {} PROVE FALSE
  <2>1. PICK x \in Bad : \A y \in Bad : x <= y
    BY <1>1, LeastNumber
  <2>2. x # 0 /\ x - 1 \in Nat /\ x - 1 \notin Bad
    BY <2>1
  <2>3. (x - 1) + 1 \in T
    BY <2>2
  <2> QED BY <2>1, <2>3
<1> QED BY <1>1

LEMMA StrongInduction ==
  ASSUME NEW T, \A n \in Nat : (\A m \in Nat : m < n => m \in T) => n \in T
  PROVE  \A n \in Nat : n \in T
<1> DEFINE Bad == Nat \ T
<1>1. ASSUME Bad # {} PROVE FALSE
  <2>1. PICK x \in Bad : \A y \in Bad : x <= y
    BY <1>1, LeastNumber
  <2>2. \A m \in Nat : m < x => m \in T
    BY <2>1
  <2> QED BY <2>1, <2>2
<1> QED BY <1>1

Iterates(g, v, h) == g[0] = v /\ \A n \in Nat : g[n + 1] = h[g[n]]

LEMMA Iteration ==
  ASSUME NEW V, NEW v \in V, NEW h \in [V -> V]
  PROVE  \E g \in [Nat -> V] : Iterates(g, v, h)
<1> DEFINE Upto(n) == {g \in [0 .. n -> V] :
                         g[0] = v /\ \A i \in 0 .. n - 1 : g[i + 1] = h[g[i]]}
           T == {n \in Nat : Upto(n) # {}}
           G == [n \in Nat |-> (CHOOSE g \in Upto(n) : TRUE)[n]]
<1>1. \A n \in Nat : Upto(n) # {}
  <2>1. 0 \in T
    <3>1. [i \in 0 .. 0 |-> v] \in Upto(0)
      OBVIOUS
    <3> QED BY <3>1
  <2>2. ASSUME NEW n \in Nat, n \in T PROVE n + 1 \in T
    <3>1. PICK g \in Upto(n) : TRUE
      BY <2>2
    <3> DEFINE g1 == [i \in 0 .. n + 1 |-> IF i <= n THEN g[i] ELSE h[g[n]]]
    <3>2. g1 \in [0 .. n + 1 -> V]
      BY <3>1
    <3>3. g1[0] = v
      BY <3>1
    <3>4. \A i \in 0 .. n : g1[i + 1] = h[g1[i]]
      <4>1. TAKE i \in 0 .. n
      <4>2. CASE i = n
        BY <4>2
      <4>3. CASE i < n
        <5>1. i + 1 \in 0 .. n /\ i \in 0 .. n - 1 /\ i + 1 <= n /\ i <= n
          BY <4>3
        <5>2. g[i + 1] = h[g[i]]
          BY <5>1, <3>1
        <5>3. g1[i + 1] = g[i + 1] /\ g1[i] = g[i]
          BY <5>1
        <5> HIDE DEF g1
        <5> QED BY <5>2, <5>3
      <4> QED BY <4>2, <4>3
    <3>5. g1 \in Upto(n + 1)
      <4>1. (n + 1) - 1 = n
        OBVIOUS
      <4> HIDE DEF g1
      <4> QED BY <3>2, <3>3, <3>4, <4>1
    <3> HIDE DEF Upto, g1
    <3> QED BY <3>5
  <2> HIDE DEF T
  <2>3. \A n \in Nat : n \in T
    BY <2>1, <2>2, Induction
  <2> QED BY <2>3 DEF T
<1>2. ASSUME NEW n \in Nat, NEW f \in Upto(n), NEW g \in Upto(n + 1) PROVE f[n] = g[n]
  <2> DEFINE E == {i \in Nat : i <= n => f[i] = g[i]}
  <2>1. 0 \in E
    BY <1>2
  <2>2. ASSUME NEW i \in Nat, i \in E PROVE i + 1 \in E
    <3>1. CASE i + 1 <= n
      <4>1. i \in 0 .. n - 1 /\ i \in 0 .. (n + 1) - 1 /\ f[i] = g[i]
        BY <3>1, <2>2
      <4> QED BY <4>1
    <3> QED BY <3>1
  <2> HIDE DEF E
  <2>3. n \in E
    BY <2>1, <2>2, Induction
  <2> QED BY <2>3 DEF E
<1> HIDE DEF Upto
<1>3. \A n \in Nat : (CHOOSE g \in Upto(n) : TRUE) \in Upto(n)
  BY <1>1
<1>4. G \in [Nat -> V]
  <2>1. ASSUME NEW n \in Nat, NEW g \in Upto(n) PROVE g[n] \in V
    BY DEF Upto
  <2> QED BY <1>3, <2>1
<1>5. G[0] = v
  BY <1>3 DEF Upto
<1>6. ASSUME NEW n \in Nat PROVE G[n + 1] = h[G[n]]
  <2> DEFINE g == CHOOSE g \in Upto(n + 1) : TRUE
  <2>1. g \in Upto(n + 1)
    BY <1>3
  <2>2. G[n + 1] = g[n + 1] /\ G[n] = g[n]
    BY <1>2, <1>3
  <2> HIDE DEF g, G
  <2>3. g[n + 1] = h[g[n]]
    BY <2>1 DEF Upto
  <2> QED BY <2>2, <2>3
<1> QED
  <2> HIDE DEF G
  <2> QED BY <1>4, <1>5, <1>6 DEF Iterates
Solves(f, S, Stop, base, nx, step) ==
  \A o \in S : f[o] = IF o \in Stop THEN base[o] ELSE step[o][f[nx[o]]]

\* A recursion that passes through at most one other argument: where one of its
\* steps begins in error it ends in error, so it has a solution also where it goes
\* round in circles.
LEMMA StrictRecursion ==
  ASSUME NEW S, NEW V, NEW bot \in V, NEW Stop,
         NEW base \in [S -> V], NEW nx \in [S -> S], NEW step \in [S -> [V -> V]],
         \A o \in S : step[o][bot] = bot
  PROVE  \E f \in [S -> V] : Solves(f, S, Stop, base, nx, step)
<1> DEFINE h == [f \in [S -> V] |->
                   [o \in S |-> IF o \in Stop THEN base[o] ELSE step[o][f[nx[o]]]]]
           none == [o \in S |-> bot]
<1>1. none \in [S -> V]
  OBVIOUS
<1>2. h \in [[S -> V] -> [S -> V]]
  OBVIOUS
<1>3. PICK g \in [Nat -> [S -> V]] : g[0] = none /\ \A n \in Nat : g[n + 1] = h[g[n]]
  <2> HIDE DEF h, none
  <2>1. \E g \in [Nat -> [S -> V]] : Iterates(g, none, h)
    BY <1>1, <1>2, Iteration
  <2> QED BY <2>1 DEF Iterates
<1>4. \A n \in Nat, o \in S :
         g[n + 1][o] = IF o \in Stop THEN base[o] ELSE step[o][g[n][nx[o]]]
  <2>1. TAKE n \in Nat, o \in S
  <2>2. g[n] \in [S -> V]
    BY <1>3
  <2>3. g[n + 1] = h[g[n]]
    BY <1>3
  <2> QED BY <2>2, <2>3
<1>5. \A n \in Nat, o \in S : g[n][o] # bot => g[n + 1][o] = g[n][o]
  <2> DEFINE T == {n \in Nat : \A o \in S : g[n][o] # bot => g[n + 1][o] = g[n][o]}
  <2>1. 0 \in T
    BY <1>3
  <2>2. ASSUME NEW n \in Nat, n \in T PROVE n + 1 \in T
    <3>1. ASSUME NEW o \in S, g[n + 1][o] # bot PROVE g[(n + 1) + 1][o] = g[n + 1][o]
      <4>1. CASE o \in Stop
        <5>1. g[(n + 1) + 1][o] = base[o] /\ g[n + 1][o] = base[o]
          <6>1. n + 1 \in Nat
            OBVIOUS
          <6> QED BY <6>1, <4>1, <1>4
        <5> QED BY <5>1
      <4>2. CASE o \notin Stop
        <5>1. g[n + 1][o] = step[o][g[n][nx[o]]] /\ nx[o] \in S
          BY <4>2, <1>4
        <5>2. g[n][nx[o]] # bot
          BY <5>1, <3>1
        <5>3. g[n + 1][nx[o]] = g[n][nx[o]]
          BY <5>1, <5>2, <2>2
        <5>4. g[(n + 1) + 1][o] = step[o][g[n + 1][nx[o]]]
          BY <4>2, <1>4
        <5> QED BY <5>1, <5>3, <5>4
      <4> QED BY <4>1, <4>2
    <3> QED BY <3>1
  <2> HIDE DEF T
  <2>3. \A n \in Nat : n \in T
    BY <2>1, <2>2, Induction
  <2> QED BY <2>3 DEF T
<1>6. ASSUME NEW m \in Nat, NEW n \in Nat, NEW o \in S, g[m][o] # bot, g[n][o] # bot
      PROVE  g[m][o] = g[n][o]
  <2>1. ASSUME NEW i \in Nat, NEW x \in S, g[i][x] # bot
        PROVE  \A j \in Nat : g[i + j][x] = g[i][x]
    <3> DEFINE T == {j \in Nat : g[i + j][x] = g[i][x]}
    <3>1. 0 \in T
      OBVIOUS
    <3>2. ASSUME NEW j \in Nat, j \in T PROVE j + 1 \in T
      <4>1. i + j \in Nat /\ i + (j + 1) = (i + j) + 1
        OBVIOUS
      <4>2. g[i + j][x] = g[i][x]
        BY <3>2
      <4>3. g[(i + j) + 1][x] = g[i + j][x]
        BY <4>1, <4>2, <2>1, <1>5
      <4> QED BY <4>1, <4>2, <4>3
    <3> HIDE DEF T
    <3>3. \A j \in Nat : j \in T
      BY <3>1, <3>2, Induction
    <3> QED BY <3>3 DEF T
  <2>2. CASE m <= n
    <3>1. n - m \in Nat /\ m + (n - m) = n
      BY <2>2
    <3>2. g[m + (n - m)][o] = g[m][o]
      BY <3>1, <2>1, <1>6
    <3> QED BY <3>1, <3>2
  <2>3. CASE n <= m
    <3>1. m - n \in Nat /\ n + (m - n) = m
      BY <2>3
    <3>2. g[n + (m - n)][o] = g[n][o]
      BY <3>1, <2>1, <1>6
    <3> QED BY <3>1, <3>2
  <2> QED BY <2>2, <2>3
<1> DEFINE f == [o \in S |-> IF \E n \in Nat : g[n][o] # bot
                             THEN g[CHOOSE n \in Nat : g[n][o] # bot][o] ELSE bot]
<1>7. ASSUME NEW o \in S, NEW n \in Nat, g[n][o] # bot PROVE f[o] = g[n][o]
  <2> DEFINE m == CHOOSE k \in Nat : g[k][o] # bot
  <2>1. m \in Nat /\ g[m][o] # bot
    BY <1>7
  <2>2. f[o] = g[m][o]
    BY <1>7
  <2> HIDE DEF m, f
  <2> QED BY <2>1, <2>2, <1>6, <1>7
<1>8. ASSUME NEW o \in S, \A n \in Nat : g[n][o] = bot PROVE f[o] = bot
  BY <1>8
<1>9. f \in [S -> V]
  <2>1. ASSUME NEW o \in S PROVE f[o] \in V
    <3>1. CASE \E n \in Nat : g[n][o] # bot
      <4>1. PICK n \in Nat : g[n][o] # bot
        BY <3>1
      <4>2. f[o] = g[n][o]
        BY <4>1, <1>7
      <4> QED BY <4>2, <1>3
    <3> QED BY <3>1
  <2> QED BY <2>1
<1> HIDE DEF f
<1>10. ASSUME NEW o \in S PROVE f[o] = IF o \in Stop THEN base[o] ELSE step[o][f[nx[o]]]
  <2>1. CASE o \in Stop
    <3>1. g[0 + 1][o] = base[o]
      BY <2>1, <1>4
    <3>2. CASE base[o] = bot
      <4>1. ASSUME NEW n \in Nat, g[n][o] # bot PROVE FALSE
        <5>1. n # 0 /\ n - 1 \in Nat
          BY <4>1, <1>3
        <5>2. g[(n - 1) + 1][o] = base[o]
          BY <5>1, <2>1, <1>4
        <5> QED BY <5>1, <5>2, <3>2, <4>1
      <4> QED BY <4>1, <1>8, <2>1, <3>2
    <3>3. CASE base[o] # bot
      BY <3>1, <3>3, <1>7, <2>1
    <3> QED BY <3>2, <3>3
  <2>2. CASE o \notin Stop
    <3>1. nx[o] \in S
      OBVIOUS
    <3>2. CASE \A n \in Nat : g[n][nx[o]] = bot
      <4>1. f[nx[o]] = bot
        BY <3>1, <3>2, <1>8
      <4>2. ASSUME NEW n \in Nat, g[n][o] # bot PROVE FALSE
        <5>1. n # 0 /\ n - 1 \in Nat
          BY <4>2, <1>3
        <5>2. g[(n - 1) + 1][o] = step[o][g[n - 1][nx[o]]]
          BY <5>1, <2>2, <1>4
        <5> QED BY <5>1, <5>2, <3>2, <4>2
      <4> QED BY <4>1, <4>2, <1>8, <2>2
    <3>3. CASE \E n \in Nat : g[n][nx[o]] # bot
      <4>1. PICK n \in Nat : g[n][nx[o]] # bot
        BY <3>3
      <4>2. f[nx[o]] = g[n][nx[o]]
        BY <4>1, <3>1, <1>7
      <4>3. g[n + 1][o] = step[o][f[nx[o]]]
        BY <4>2, <2>2, <1>4
      <4>4. CASE g[n + 1][o] # bot
        BY <4>3, <4>4, <1>7, <2>2
      <4>5. CASE g[n + 1][o] = bot
        <5>1. ASSUME NEW k \in Nat, g[k][o] # bot PROVE FALSE
          <6>1. k # 0 /\ k - 1 \in Nat
            BY <5>1, <1>3
          <6>2. g[(k - 1) + 1][o] = step[o][g[k - 1][nx[o]]]
            BY <6>1, <2>2, <1>4
          <6>3. g[k - 1][nx[o]] # bot
            BY <6>1, <6>2, <5>1
          <6>4. g[k - 1][nx[o]] = g[n][nx[o]]
            BY <6>1, <6>3, <4>1, <3>1, <1>6
          <6> QED BY <6>1, <6>2, <6>4, <4>2, <4>3, <4>5, <5>1
        <5> QED BY <5>1, <1>8, <4>3, <4>5, <2>2
      <4> QED BY <4>4, <4>5
    <3> QED BY <3>2, <3>3
  <2> QED BY <2>1, <2>2
<1> QED BY <1>9, <1>10 DEF Solves

LEMMA RankedRecursion ==
  ASSUME NEW S, NEW V, NEW Stop,
         NEW base \in [S -> V], NEW nx \in [S -> S], NEW step \in [S -> [V -> V]],
         NEW rank \in [S -> Nat], \A o \in S \ Stop : rank[nx[o]] < rank[o]
  PROVE  \E f \in [S -> V] : Solves(f, S, Stop, base, nx, step)
<1>1. PICK bot : bot \notin V
  <2> DEFINE R == {v \in V : v \notin v}
  <2>1. ASSUME R \in V PROVE FALSE
    <3>1. CASE R \in R
      BY <3>1, Zenon
    <3>2. CASE R \notin R
      BY <3>2, <2>1, Zenon
    <3> QED BY <3>1, <3>2, Zenon
  <2> QED BY <2>1
<1> DEFINE V1 == V \cup {bot}
           step1 == [o \in S |-> [v \in V1 |-> IF v = bot THEN bot ELSE step[o][v]]]
<1>2. base \in [S -> V1]
  OBVIOUS
<1>3. step1 \in [S -> [V1 -> V1]] /\ \A o \in S : step1[o][bot] = bot
  OBVIOUS
<1>4. \A o \in S, v \in V : step1[o][v] = step[o][v]
  BY <1>1
<1>5. PICK f \in [S -> V1] : Solves(f, S, Stop, base, nx, step1)
  <2> HIDE DEF V1, step1
  <2>1. bot \in V1
    BY DEF V1
  <2> QED BY <1>2, <1>3, <2>1, StrictRecursion
<1> HIDE DEF step1
<1>6. \A o \in S : f[o] \in V
  <2> DEFINE T == {n \in Nat : \A o \in S : rank[o] = n => f[o] \in V}
  <2>1. ASSUME NEW n \in Nat, \A m \in Nat : m < n => m \in T PROVE n \in T
    <3>1. ASSUME NEW o \in S, rank[o] = n PROVE f[o] \in V
      <4>1. CASE o \in Stop
        BY <4>1, <1>5 DEF Solves
      <4>2. CASE o \notin Stop
        <5>1. nx[o] \in S /\ rank[nx[o]] \in Nat /\ rank[nx[o]] < n
          BY <4>2, <3>1
        <5>2. f[nx[o]] \in V
          BY <5>1, <2>1
        <5>3. f[o] = step1[o][f[nx[o]]]
          BY <4>2, <1>5 DEF Solves
        <5> QED BY <5>2, <5>3, <1>4
      <4> QED BY <4>1, <4>2
    <3> QED BY <3>1
  <2> HIDE DEF T
  <2>2. \A n \in Nat : n \in T
    BY <2>1, StrongInduction
  <2> QED BY <2>2 DEF T
<1>7. f \in [S -> V]
  BY <1>6
<1>8. ASSUME NEW o \in S PROVE f[o] = IF o \in Stop THEN base[o] ELSE step[o][f[nx[o]]]
  <2>1. f[nx[o]] \in V
    BY <1>6
  <2> QED BY <2>1, <1>4, <1>5 DEF Solves
<1> QED BY <1>7, <1>8 DEF Solves

\* Where the pieces of a flattened sequence are in it.
PiecesAt(at, pieces, flat) ==
  /\ at \in [0 .. Len(pieces) -> Nat]
  /\ at[0] = 0 /\ at[Len(pieces)] = Len(flat)
  /\ \A k \in 1 .. Len(pieces) : at[k] = at[k - 1] + Len(pieces[k])
  /\ \A k \in 1 .. Len(pieces) : \A j \in 1 .. Len(pieces[k]) : flat[at[k - 1] + j] = pieces[k][j]

LEMMA Concatenation ==
  ASSUME NEW S, NEW s \in Seq(S), NEW t \in Seq(S)
  PROVE  /\ s \o t \in Seq(S) /\ Len(s \o t) = Len(s) + Len(t)
         /\ \A j \in 1 .. Len(s) : (s \o t)[j] = s[j]
         /\ \A j \in 1 .. Len(t) : (s \o t)[Len(s) + j] = t[j]
OBVIOUS

\* f joins the pieces one by one.
Joins(f, n, pieces) ==
  f[1] = pieces[1] /\ \A i \in 2 .. n : f[i] = f[i - 1] \o pieces[i]

LEMMA JoinedPieces ==
  ASSUME NEW S, NEW n \in Nat \ {0}, NEW p \in Seq(Seq(S)), Len(p) = n,
         NEW f \in [1 .. n -> Seq(S)], Joins(f, n, p)
  PROVE  \E at : PiecesAt(at, p, f[n])
<1>0. p \in [1 .. n -> Seq(S)] /\ f[1] = p[1] /\ \A i \in 2 .. n : f[i] = f[i - 1] \o p[i]
  <2>1. p \in [1 .. n -> Seq(S)]
    OBVIOUS
  <2> QED BY <2>1 DEF Joins
<1> DEFINE at == [k \in 0 .. n |-> IF k = 0 THEN 0 ELSE Len(f[k])]
<1>1. at \in [0 .. n -> Nat] /\ at[0] = 0 /\ \A k \in 1 .. n : at[k] = Len(f[k])
  OBVIOUS
<1> HIDE DEF at
<1>2. ASSUME NEW k \in 1 .. n
      PROVE  /\ at[k] = at[k - 1] + Len(p[k])
             /\ \A j \in 1 .. Len(p[k]) : f[k][at[k - 1] + j] = p[k][j]
  <2>1. CASE k = 1
    <3>1. at[k - 1] = 0 /\ f[k] = p[k] /\ at[k] = Len(p[k]) /\ Len(p[k]) \in Nat
      BY <2>1, <1>0, <1>1
    <3> QED BY <3>1
  <2>2. CASE k # 1
    <3>1. PICK m \in 1 .. n : k = m + 1
      <4>1. k - 1 \in 1 .. n /\ k = (k - 1) + 1
        BY <2>2
      <4> QED BY <4>1
    <3>2. k - 1 = m /\ k \in 2 .. n
      BY <3>1
    <3>3. f[k] = f[m] \o p[k]
      BY <3>2, <1>0
    <3>4. f[m] \in Seq(S) /\ p[k] \in Seq(S)
      BY <1>0
    <3>5. at[m] = Len(f[m]) /\ at[k] = Len(f[k])
      BY <1>1
    <3>6. Len(f[k]) = Len(f[m]) + Len(p[k]) /\ \A j \in 1 .. Len(p[k]) : f[k][Len(f[m]) + j] = p[k][j]
      BY <3>3, <3>4, Concatenation
    <3> QED BY <3>2, <3>5, <3>6
  <2> QED BY <2>1, <2>2
<1>3. ASSUME NEW k \in 1 .. n
      PROVE  Len(f[k]) <= Len(f[n]) /\ \A q \in 1 .. Len(f[k]) : f[n][q] = f[k][q]
  <2> DEFINE T == {m \in Nat : k <= m /\ m <= n =>
                     Len(f[k]) <= Len(f[m]) /\ \A q \in 1 .. Len(f[k]) : f[m][q] = f[k][q]}
  <2>1. 0 \in T
    OBVIOUS
  <2>2. ASSUME NEW m \in Nat, m \in T PROVE m + 1 \in T
    <3> SUFFICES ASSUME NEW i \in 1 .. n, i = m + 1, k <= i
                 PROVE  Len(f[k]) <= Len(f[i]) /\ \A q \in 1 .. Len(f[k]) : f[i][q] = f[k][q]
      OBVIOUS
    <3>1. CASE i = k
      BY <3>1
    <3>2. CASE i # k
      <4>1. PICK e \in 1 .. n : e = m
        BY <3>2
      <4>2. k <= e /\ i \in 2 .. n /\ i - 1 = e
        BY <3>2, <4>1
      <4>3. Len(f[k]) <= Len(f[e]) /\ \A q \in 1 .. Len(f[k]) : f[e][q] = f[k][q]
        BY <4>1, <4>2, <2>2
      <4> HIDE DEF T
      <4>4. f[i] = f[e] \o p[i]
        BY <4>2, <1>0
      <4>5. f[k] \in Seq(S) /\ f[e] \in Seq(S) /\ p[i] \in Seq(S)
        BY <1>0
      <4>6. Len(f[i]) = Len(f[e]) + Len(p[i]) /\ \A q \in 1 .. Len(f[e]) : f[i][q] = f[e][q]
        BY <4>4, <4>5, Concatenation
      <4>7. Len(f[k]) <= Len(f[i])
        BY <4>3, <4>5, <4>6
      <4>8. ASSUME NEW q \in 1 .. Len(f[k]) PROVE f[i][q] = f[k][q]
        <5>1. q \in 1 .. Len(f[e])
          BY <4>3, <4>5
        <5> QED BY <5>1, <4>3, <4>6
      <4> QED BY <4>7, <4>8
    <3> QED BY <3>1, <3>2
  <2> HIDE DEF T
  <2>3. n \in T
    BY <2>1, <2>2, Induction
  <2> QED BY <2>3 DEF T
<1>4. ASSUME NEW k \in 1 .. n, NEW j \in 1 .. Len(p[k])
      PROVE  f[n][at[k - 1] + j] = p[k][j]
  <2>1. f[k][at[k - 1] + j] = p[k][j] /\ at[k] = at[k - 1] + Len(p[k])
    BY <1>2
  <2>2. at[k] = Len(f[k]) /\ k - 1 \in 0 .. n /\ at[k - 1] \in Nat
    BY <1>1
  <2>3. Len(p[k]) \in Nat
    OBVIOUS
  <2>4. at[k - 1] + j \in 1 .. Len(f[k])
    <3>1. PICK a \in Nat, b \in Nat : a = at[k - 1] /\ b = Len(p[k])
      BY <2>2, <2>3
    <3>2. j \in 1 .. b /\ Len(f[k]) = a + b
      BY <2>1, <2>2, <3>1
    <3>3. a + j \in 1 .. Len(f[k])
      BY <3>2
    <3> QED BY <3>1, <3>3
  <2> QED BY <2>1, <2>4, <1>3
<1>5. at[n] = Len(f[n])
  BY <1>1
<1>6. \A k \in 1 .. n : at[k] = at[k - 1] + Len(p[k])
  BY <1>2
<1>7. PiecesAt(at, p, f[n])
  BY <1>1, <1>4, <1>5, <1>6 DEF PiecesAt
<1> QED BY <1>7

\* FlattenSeq is a recursion over the pieces.
LEMMA FlattenEquation ==
  ASSUME NEW S, NEW n \in Nat \ {0}, NEW seqs \in [1 .. n -> Seq(S)]
  PROVE  \E f \in [1 .. n -> Seq(S)] : FlattenSeq(seqs) = f[n] /\ Joins(f, n, seqs)
<1> DEFINE D == 1 .. n
           nx == [i \in D |-> IF i = 1 THEN 1 ELSE i - 1]
           step == [i \in D |-> [s \in Seq(S) |-> s \o seqs[i]]]
           rank == [i \in D |-> i]
           flatten == CHOOSE f : f = [i \in D |-> IF i = 1 THEN seqs[i] ELSE f[i - 1] \o seqs[i]]
<1>1. nx \in [D -> D] /\ step \in [D -> [Seq(S) -> Seq(S)]] /\ rank \in [D -> Nat]
  OBVIOUS
<1>2. \A o \in D \ {1} : rank[nx[o]] < rank[o]
  OBVIOUS
<1>3. PICK f \in [D -> Seq(S)] : Solves(f, D, {1}, seqs, nx, step)
  <2> HIDE DEF nx, step, rank
  <2> QED BY <1>1, <1>2, RankedRecursion
<1>4. f = [i \in D |-> IF i = 1 THEN seqs[i] ELSE f[i - 1] \o seqs[i]]
  <2>1. ASSUME NEW i \in D PROVE f[i] = IF i = 1 THEN seqs[i] ELSE f[i - 1] \o seqs[i]
    <3>1. CASE i = 1
      BY <1>3, <3>1 DEF Solves
    <3>2. CASE i # 1
      <4>1. f[i] = step[i][f[nx[i]]]
        BY <1>3, <3>2 DEF Solves
      <4>2. nx[i] = i - 1 /\ i - 1 \in D
        BY <3>2
      <4>3. step[i][f[i - 1]] = f[i - 1] \o seqs[i]
        BY <4>2, Zenon
      <4> QED BY <4>1, <4>2, <4>3, <3>2
    <3> QED BY <3>1, <3>2
  <2> QED BY <2>1
<1>5. flatten = [i \in D |-> IF i = 1 THEN seqs[i] ELSE flatten[i - 1] \o seqs[i]]
  BY <1>4, Zenon
<1>6. Len(seqs) = n
  OBVIOUS
<1>7. FlattenSeq(seqs) = flatten[n]
  BY <1>6 DEF FlattenSeq
<1> HIDE DEF flatten
<1>8. flatten[1] = seqs[1] /\ \A i \in 2 .. n : flatten[i] = flatten[i - 1] \o seqs[i]
  <2>1. \A i \in 1 .. n : flatten[i] = IF i = 1 THEN seqs[i] ELSE flatten[i - 1] \o seqs[i]
    BY <1>5
  <2>2. flatten[1] = seqs[1]
    BY <2>1
  <2>3. ASSUME NEW i \in 2 .. n PROVE flatten[i] = flatten[i - 1] \o seqs[i]
    <3>1. i \in 1 .. n /\ i # 1
      OBVIOUS
    <3> QED BY <3>1, <2>1
  <2> QED BY <2>2, <2>3
<1>9. ASSUME NEW i \in D PROVE flatten[i] \in Seq(S)
  <2> DEFINE T == {m \in Nat : m \in 1 .. n => flatten[m] \in Seq(S)}
  <2>1. 0 \in T
    OBVIOUS
  <2>2. ASSUME NEW m \in Nat, m \in T PROVE m + 1 \in T
    <3> SUFFICES ASSUME NEW k \in 1 .. n, k = m + 1 PROVE flatten[k] \in Seq(S)
      OBVIOUS
    <3>1. CASE k = 1
      BY <3>1, <1>8
    <3>2. CASE k # 1
      <4>1. k \in 2 .. n /\ k - 1 = m /\ m \in 1 .. n
        BY <3>2
      <4>2. flatten[m] \in Seq(S) /\ seqs[k] \in Seq(S)
        BY <2>2, <4>1
      <4>3. flatten[k] = flatten[m] \o seqs[k]
        BY <1>8, <4>1
      <4> QED BY <4>2, <4>3
    <3> QED BY <3>1, <3>2
  <2> HIDE DEF T
  <2>3. \A m \in Nat : m \in T
    BY <2>1, <2>2, Induction
  <2> QED BY <2>3 DEF T
<1>10. flatten \in [D -> Seq(S)]
  BY <1>5, <1>9
<1> QED BY <1>7, <1>8, <1>10 DEF Joins

LEMMA FlattenPieces ==
  ASSUME NEW S, NEW pieces \in Seq(Seq(S))
  PROVE  FlattenSeq(pieces) \in Seq(S) /\ \E at : PiecesAt(at, pieces, FlattenSeq(pieces))
<1>1. PICK n \in Nat : n = Len(pieces) /\ pieces \in [1 .. n -> Seq(S)]
  OBVIOUS
<1>2. CASE n = 0
  <2>1. FlattenSeq(pieces) = << >>
    BY <1>1, <1>2 DEF FlattenSeq
  <2>2. PiecesAt([i \in 0 .. 0 |-> 0], pieces, FlattenSeq(pieces))
    BY <2>1, <1>1, <1>2 DEF PiecesAt
  <2> QED BY <2>1, <2>2
<1>3. CASE n # 0
  <2>1. PICK f \in [1 .. n -> Seq(S)] : FlattenSeq(pieces) = f[n] /\ Joins(f, n, pieces)
    BY <1>1, <1>3, FlattenEquation
  <2>2. \E at : PiecesAt(at, pieces, f[n])
    BY <1>1, <1>3, <2>1, JoinedPieces
  <2> QED BY <2>1, <2>2, <1>3
<1> QED BY <1>2, <1>3

\* The offsets grow, every place is in a piece, and the pieces are all there is.
LEMMA PiecesInOrder ==
  ASSUME NEW S, NEW pieces \in Seq(Seq(S)), NEW flat \in Seq(S), NEW at, PiecesAt(at, pieces, flat)
  PROVE  \A i, j \in 0 .. Len(pieces) : i <= j => at[i] <= at[j]
<1>1. PICK n \in Nat : n = Len(pieces)
  OBVIOUS
<1>2. at \in [0 .. n -> Nat] /\ \A k \in 1 .. n : at[k] = at[k - 1] + Len(pieces[k])
  BY <1>1 DEF PiecesAt
<1>3. ASSUME NEW k \in 1 .. n PROVE at[k - 1] <= at[k]
  <2>1. pieces[k] \in Seq(S) /\ k - 1 \in 0 .. n
    BY <1>1
  <2>2. Len(pieces[k]) \in Nat /\ at[k - 1] \in Nat /\ at[k] = at[k - 1] + Len(pieces[k])
    BY <2>1, <1>2
  <2> QED BY <2>2
<1>4. ASSUME NEW i \in 0 .. n PROVE \A j \in 0 .. n : i <= j => at[i] <= at[j]
  <2> DEFINE T == {j \in Nat : j \in 0 .. n /\ i <= j => at[i] <= at[j]}
  <2>1. 0 \in T
    BY <1>2
  <2>2. ASSUME NEW j \in Nat, j \in T PROVE j + 1 \in T
    <3> SUFFICES ASSUME NEW m \in 0 .. n, m = j + 1, i <= m PROVE at[i] <= at[m]
      OBVIOUS
    <3>1. CASE i = m
      BY <3>1, <1>2
    <3>2. CASE i # m
      <4>1. PICK e \in 0 .. n : e = j
        BY <3>2
      <4>2. i <= e /\ m \in 1 .. n /\ m - 1 = e
        BY <3>2, <4>1
      <4>3. at[i] <= at[e] /\ at[e] <= at[m]
        BY <4>1, <4>2, <2>2, <1>3
      <4>4. at[i] \in Nat /\ at[e] \in Nat /\ at[m] \in Nat
        BY <1>2
      <4> QED BY <4>3, <4>4
    <3> QED BY <3>1, <3>2
  <2> HIDE DEF T
  <2>3. \A j \in Nat : j \in T
    BY <2>1, <2>2, Induction
  <2> QED BY <2>3 DEF T
<1> QED BY <1>1, <1>4

\* Place p is in a piece.
InPiece(p, at, pieces, flat) ==
  \E k \in 1 .. Len(pieces) : \E j \in 1 .. Len(pieces[k]) :
    p = at[k - 1] + j /\ flat[p] = pieces[k][j]

LEMMA PiecesCover ==
  ASSUME NEW S, NEW pieces \in Seq(Seq(S)), NEW flat \in Seq(S), NEW at, PiecesAt(at, pieces, flat),
         NEW p \in 1 .. Len(flat)
  PROVE  InPiece(p, at, pieces, flat)
<1>1. PICK n \in Nat : n = Len(pieces)
  OBVIOUS
<1>2. /\ at \in [0 .. n -> Nat] /\ at[0] = 0 /\ at[n] = Len(flat)
      /\ \A k \in 1 .. n : at[k] = at[k - 1] + Len(pieces[k])
  BY <1>1 DEF PiecesAt
<1> DEFINE T == {k \in 0 .. n : p <= at[k]}
<1>3. n \in T /\ T \in SUBSET Nat
  BY <1>2
<1>4. PICK k \in T : \A i \in T : k <= i
  <2> HIDE DEF T
  <2> QED BY <1>3, LeastNumber
<1>5. k # 0
  BY <1>2, <1>4
<1>6. PICK e \in 0 .. n : e = k - 1
  BY <1>4, <1>5
<1>7. ~ p <= at[e]
  BY <1>4, <1>6
<1>8. k \in 1 .. n /\ pieces[k] \in Seq(S) /\ at[k] = at[e] + Len(pieces[k]) /\ p <= at[k]
  BY <1>1, <1>2, <1>4, <1>5, <1>6
<1>9. at[e] \in Nat /\ Len(pieces[k]) \in Nat
  BY SMTT(30), <1>2, <1>8
<1>10. PICK j \in 1 .. Len(pieces[k]) : p = at[e] + j
  <2>1. p - at[e] \in 1 .. Len(pieces[k]) /\ p = at[e] + (p - at[e])
    BY <1>7, <1>8, <1>9
  <2> QED BY <2>1
<1>11. flat[at[k - 1] + j] = pieces[k][j]
  BY <1>1, <1>8 DEF PiecesAt
<1> QED BY <1>1, <1>6, <1>8, <1>10, <1>11 DEF InPiece

LEMMA PiecesDetermine ==
  ASSUME NEW S, NEW pieces \in Seq(Seq(S)), NEW at,
         NEW f \in Seq(S), PiecesAt(at, pieces, f), NEW g \in Seq(S), PiecesAt(at, pieces, g)
  PROVE  f = g
<1>1. Len(f) = Len(g)
  BY DEF PiecesAt
<1>2. ASSUME NEW p \in 1 .. Len(f) PROVE f[p] = g[p]
  <2>1. InPiece(p, at, pieces, f)
    BY PiecesCover
  <2> PICK k \in 1 .. Len(pieces) : \E j \in 1 .. Len(pieces[k]) :
             p = at[k - 1] + j /\ f[p] = pieces[k][j]
    BY <2>1 DEF InPiece
  <2> PICK j \in 1 .. Len(pieces[k]) : p = at[k - 1] + j /\ f[p] = pieces[k][j]
    OBVIOUS
  <2>2. g[at[k - 1] + j] = pieces[k][j]
    BY DEF PiecesAt
  <2> QED BY <2>2
<1> QED BY <1>1, <1>2, SeqEqual

\* There is one way to lay out the pieces.
LEMMA OffsetsDetermined ==
  ASSUME NEW S, NEW pieces \in Seq(Seq(S)), NEW f \in Seq(S), NEW g \in Seq(S),
         NEW at, PiecesAt(at, pieces, f), NEW to, PiecesAt(to, pieces, g)
  PROVE  at = to
<1>1. PICK n \in Nat : n = Len(pieces)
  OBVIOUS
<1>2. /\ at \in [0 .. n -> Nat] /\ at[0] = 0 /\ \A k \in 1 .. n : at[k] = at[k - 1] + Len(pieces[k])
      /\ to \in [0 .. n -> Nat] /\ to[0] = 0 /\ \A k \in 1 .. n : to[k] = to[k - 1] + Len(pieces[k])
  BY <1>1 DEF PiecesAt
<1> DEFINE T == {k \in Nat : k \in 0 .. n => at[k] = to[k]}
<1>3. 0 \in T
  BY <1>2
<1>4. ASSUME NEW k \in Nat, k \in T PROVE k + 1 \in T
  <2> SUFFICES ASSUME NEW m \in 0 .. n, m = k + 1 PROVE at[m] = to[m]
    OBVIOUS
  <2>1. PICK e \in 0 .. n : e = k
    OBVIOUS
  <2>2. m \in 1 .. n /\ m - 1 = e /\ at[e] = to[e]
    BY <2>1, <1>4
  <2> QED BY <2>2, <1>2
<1> HIDE DEF T
<1>5. \A k \in Nat : k \in T
  BY <1>3, <1>4, Induction
<1>6. \A k \in 0 .. n : at[k] = to[k]
  BY <1>5 DEF T
<1> QED BY <1>2, <1>6

LEMMA Slice ==
  ASSUME NEW S, NEW s \in Seq(S), NEW m \in Nat, NEW n \in Nat, m <= n, n <= Len(s)
  PROVE  /\ SubSeq(s, m + 1, n) \in Seq(S) /\ Len(SubSeq(s, m + 1, n)) = n - m
         /\ \A p \in 1 .. n - m : SubSeq(s, m + 1, n)[p] = s[m + p]
OBVIOUS

LEMMA SliceTail ==
  ASSUME NEW S, NEW s \in Seq(S), NEW i \in 1 .. Len(s), NEW n \in Nat, n = Len(s)
  PROVE  /\ SubSeq(s, i, n) \in Seq(S) /\ SubSeq(s, i, n) # << >> /\ SubSeq(s, i, n)[1] = s[i]
         /\ Tail(SubSeq(s, i, n)) = SubSeq(s, i + 1, n) /\ Len(SubSeq(s, i, n)) = (n - i) + 1
<1>1. PICK m \in Nat : m = i - 1 /\ m + 1 = i /\ m <= n /\ n - m = (n - i) + 1 /\ n - m \in Nat \ {0}
  OBVIOUS
<1> DEFINE t == SubSeq(s, i, n)
<1>2. /\ t \in Seq(S) /\ Len(t) = n - m
      /\ \A p \in 1 .. n - m : t[p] = s[m + p]
  <2>1. /\ SubSeq(s, m + 1, n) \in Seq(S) /\ Len(SubSeq(s, m + 1, n)) = n - m
        /\ \A p \in 1 .. n - m : SubSeq(s, m + 1, n)[p] = s[m + p]
    BY SMTT(30), <1>1, Slice
  <2>2. t = SubSeq(s, m + 1, n)
    BY <1>1
  <2> HIDE DEF t
  <2> QED BY <2>1, <2>2
<1>3. /\ SubSeq(s, i + 1, n) \in Seq(S) /\ Len(SubSeq(s, i + 1, n)) = n - i
      /\ \A p \in 1 .. n - i : SubSeq(s, i + 1, n)[p] = s[i + p]
  BY Slice
<1> HIDE DEF t
<1>4. t # << >> /\ t[1] = s[i]
  BY <1>1, <1>2
<1>5. Tail(t) \in Seq(S) /\ Len(Tail(t)) = n - i /\ \A p \in 1 .. n - i : Tail(t)[p] = s[i + p]
  <2>1. Tail(t) \in Seq(S) /\ Len(Tail(t)) = Len(t) - 1 /\ \A p \in 1 .. Len(t) - 1 : Tail(t)[p] = t[p + 1]
    BY <1>2, <1>4
  <2>2. Len(t) - 1 = n - i
    BY <1>1, <1>2
  <2>3. ASSUME NEW p \in 1 .. n - i PROVE Tail(t)[p] = s[i + p]
    <3>1. PICK q \in 1 .. n - m : q = p + 1 /\ m + q = i + p
      BY <1>1
    <3>2. t[q] = s[m + q]
      BY <1>2
    <3> QED BY <3>1, <3>2, <2>1, <2>2
  <2> QED BY <2>1, <2>2, <2>3
<1>6. Tail(t) = SubSeq(s, i + 1, n)
  BY <1>3, <1>5, SeqEqual
<1> QED BY <1>1, <1>2, <1>4, <1>6 DEF t

\* Numbers of w .. y counted from w: x and, l behind it, z.
CountedFrom(w, x, y, z, l) ==
  /\ z - w = (x - w) + l
  /\ \A j \in 1 .. l : (x - w) + j \in 1 .. y - w /\ w + ((x - w) + j) = x + j

LEMMA Counting ==
  ASSUME NEW w \in Nat, NEW x \in Nat, NEW y \in Nat, NEW z \in Nat, NEW l \in Nat,
         z = x + l, w <= x, z <= y
  PROVE  CountedFrom(w, x, y, z, l)
BY DEF CountedFrom

\* What consecutive pieces make up.
LEMMA FlattenSlice ==
  ASSUME NEW S, NEW pieces \in Seq(Seq(S)), NEW N \in Nat, N = Len(pieces),
         NEW at \in [0 .. N -> Nat], PiecesAt(at, pieces, FlattenSeq(pieces)),
         NEW b \in 0 .. N, NEW n \in 0 .. N, b <= n
  PROVE  FlattenSeq(SubSeq(pieces, b + 1, n)) = SubSeq(FlattenSeq(pieces), at[b] + 1, at[n])
<1>1. PICK c \in Nat : c = n - b
  OBVIOUS
<1> DEFINE flat == FlattenSeq(pieces)
           part == SubSeq(pieces, b + 1, n)
           to == [k \in 0 .. c |-> at[b + k] - at[b]]
           slice == SubSeq(flat, at[b] + 1, at[n])
<1>2. flat \in Seq(S)
  BY FlattenPieces
<1>3. /\ at[N] = Len(flat)
      /\ \A k \in 1 .. N : at[k] = at[k - 1] + Len(pieces[k])
      /\ \A k \in 1 .. N : \A j \in 1 .. Len(pieces[k]) : flat[at[k - 1] + j] = pieces[k][j]
  BY DEF PiecesAt
<1> HIDE DEF flat
<1>4. \A i, j \in 0 .. N : i <= j => at[i] <= at[j]
  BY <1>2, PiecesInOrder DEF flat
<1>5. at[b] <= at[n] /\ at[n] <= Len(flat)
  BY <1>3, <1>4
<1>6. part \in Seq(Seq(S)) /\ Len(part) = c /\ \A k \in 1 .. c : part[k] = pieces[b + k]
  BY <1>1, Slice
<1>7. slice \in Seq(S) /\ Len(slice) = at[n] - at[b]
      /\ \A p \in 1 .. at[n] - at[b] : slice[p] = flat[at[b] + p]
  <2>1. PICK x \in Nat, y \in Nat : x = at[b] /\ y = at[n]
    OBVIOUS
  <2> QED BY <2>1, <1>2, <1>5, Slice
<1> HIDE DEF part, slice
<1>8. to \in [0 .. c -> Nat]
  <2>1. ASSUME NEW k \in 0 .. c PROVE at[b + k] - at[b] \in Nat
    <3>1. PICK i \in 0 .. N : i = b + k
      BY <1>1
    <3>2. at[b] <= at[i]
      BY <3>1, <1>4
    <3>3. PICK x \in Nat, y \in Nat : x = at[b] /\ y = at[i]
      OBVIOUS
    <3> QED BY <3>1, <3>2, <3>3
  <2> QED BY <2>1
<1>9. ASSUME NEW k \in 1 .. c
      PROVE  /\ to[k] = to[k - 1] + Len(part[k])
             /\ \A j \in 1 .. Len(part[k]) : slice[to[k - 1] + j] = part[k][j]
  <2>1. PICK i \in 1 .. N, e \in 0 .. N : i = b + k /\ e = i - 1
    <3>1. b + k \in 1 .. N /\ (b + k) - 1 \in 0 .. N
      BY <1>1
    <3> QED BY <3>1
  <2>2. at[i] = at[e] + Len(pieces[i]) /\ part[k] = pieces[i]
    BY <1>3, <1>6, <2>1
  <2>3. pieces[i] \in Seq(S) /\ Len(pieces[i]) \in Nat
    OBVIOUS
  <2>4. to[k] = at[i] - at[b] /\ to[k - 1] = at[e] - at[b]
    <3>1. k - 1 \in 0 .. c /\ b + (k - 1) = e /\ k \in 0 .. c
      BY <2>1
    <3> QED BY <3>1, <2>1
  <2>5. at[b] <= at[e] /\ at[i] <= at[n]
    BY <1>1, <1>4, <2>1
  <2> HIDE DEF to
  <2>6. at[b] \in Nat /\ at[e] \in Nat /\ at[n] \in Nat
    OBVIOUS
  <2>7. at[i] \in Nat
    OBVIOUS
  <2>8. /\ at[i] - at[b] = (at[e] - at[b]) + Len(pieces[i])
        /\ \A j \in 1 .. Len(pieces[i]) : /\ (at[e] - at[b]) + j \in 1 .. at[n] - at[b]
                                         /\ at[b] + ((at[e] - at[b]) + j) = at[e] + j
    <3>1. CountedFrom(at[b], at[e], at[n], at[i], Len(pieces[i]))
      BY <2>2, <2>3, <2>5, <2>6, <2>7, Counting
    <3> QED BY <3>1 DEF CountedFrom
  <2>9. ASSUME NEW j \in 1 .. Len(pieces[i]) PROVE slice[to[k - 1] + j] = pieces[i][j]
    <3>1. slice[(at[e] - at[b]) + j] = flat[at[b] + ((at[e] - at[b]) + j)]
      BY <1>7, <2>8
    <3>2. flat[at[e] + j] = pieces[i][j]
      BY <1>3, <2>1
    <3> QED BY <3>1, <3>2, <2>4, <2>8
  <2> QED BY <2>2, <2>4, <2>8, <2>9
<1>10. to[0] = 0 /\ to[c] = at[n] - at[b]
  BY <1>1
<1> HIDE DEF to
<1>11. PiecesAt(to, part, slice)
  BY <1>6, <1>7, <1>8, <1>9, <1>10 DEF PiecesAt
<1>12. FlattenSeq(part) \in Seq(S) /\ \E x : PiecesAt(x, part, FlattenSeq(part))
  BY <1>6, FlattenPieces
<1>13. PiecesAt(to, part, FlattenSeq(part))
  BY <1>6, <1>7, <1>11, <1>12, OffsetsDetermined
<1>14. FlattenSeq(part) = slice
  BY <1>6, <1>7, <1>11, <1>12, <1>13, PiecesDetermine
<1> QED BY <1>14 DEF part, slice, flat

(***************************************************************************)
(* What the DNS servers write.                                             *)
(***************************************************************************)
\* The instances have the operators of Octets and SequencesExt each to themselves.
LEMMA DnsOctets ==
  /\ Dns!Inside = Inside /\ Dns!Err = Err /\ Dns!Panic = Panic
  /\ \A first, size : Dns!Field(first, size) = Field(first, size)
  /\ \A value, next : Dns!Parsed(value, next) = Parsed(value, next)
  /\ \A seqs : Dns!FlattenSeq(seqs) = FlattenSeq(seqs)
  /\ \A data, offset, field : Dns!Has(data, offset, field) <=> Has(data, offset, field)
<1>1. \A seqs : Dns!FlattenSeq(seqs) = FlattenSeq(seqs)
  BY DEF Dns!FlattenSeq, FlattenSeq
<1>2. /\ Dns!Inside = Inside /\ Dns!Err = Err /\ Dns!Panic = Panic
      /\ \A value, next : Dns!Parsed(value, next) = Parsed(value, next)
  BY DEF Dns!Inside, Inside, Dns!Err, Err, Dns!Panic, Panic, Dns!Parsed, Parsed
<1>3. \A first, size : Dns!Field(first, size) = Field(first, size)
  BY <1>2 DEF Dns!Field, Field
<1>4. \A data, offset, field : Dns!Has(data, offset, field) <=> Has(data, offset, field)
  BY DEF Dns!Has, Has
<1> QED BY <1>1, <1>2, <1>3, <1>4

LEMMA Fields ==
  ASSUME NEW S, NEW first \in S, NEW size \in Nat, Inside \in S
  PROVE  /\ Field(first, size) \in Seq(S) /\ Len(Field(first, size)) = size
         /\ \A i \in 1 .. size : Field(first, size)[i] = IF i = 1 THEN first ELSE Inside
BY DEF Field

LEMMA FieldOfOne ==
  ASSUME NEW S, NEW first \in S
  PROVE  Field(first, 1) \in Seq(S) /\ Len(Field(first, 1)) = 1 /\ Field(first, 1)[1] = first
BY DEF Field

LEMMA FieldOfTwo ==
  ASSUME NEW S, NEW first \in S, Inside \in S
  PROVE  /\ Field(first, 2) \in Seq(S) /\ Len(Field(first, 2)) = 2
         /\ Field(first, 2)[1] = first /\ Field(first, 2)[2] = Inside
BY DEF Field

LEMMA LabelSizes == \A l \in Labels : LabelOctets[l] \in Nat /\ LabelOctets[l] >= 1
<1>1. LabelOctets \in [Labels -> 1 .. 63]
  BY DnsAssumption
<1> QED BY <1>1

DnsOctet ==
  {Inside} \cup [label : Labels] \cup [root : {TRUE}] \cup [pointer : Nat] \cup [question : {TRUE}]
    \cup [text : Names, size : Nat] \cup [type : Dns!Type, length : Nat] \cup [address : Names]
    \cup [preference : {1}] \cup [numbers : {5}] \cup [opaque : Names]

\* The octets of the first labels of a name, and where the labels begin.
LabelOf(name) == [i \in 1 .. Len(name) |-> Dns!Label(name[i])]
LabelsAt(at, name) ==
  /\ at \in [0 .. Len(name) -> Nat] /\ at[0] = 0 /\ at[Len(name)] = Len(Dns!LabelsOf(name))
  /\ \A i, j \in 0 .. Len(name) : i <= j => at[i] <= at[j]
  /\ \A k \in 0 .. Len(name) : Dns!LabelsOf(SubSeq(name, 1, k)) = SubSeq(Dns!LabelsOf(name), 1, at[k])
  /\ \A k \in 0 .. Len(name) : Len(Dns!LabelsOf(SubSeq(name, 1, k))) = at[k]
  /\ \A k \in 1 .. Len(name) :
       /\ at[k] = at[k - 1] + 1 + LabelOctets[name[k]]
       /\ Dns!LabelsOf(name)[at[k - 1] + 1] = [label |-> name[k]]
  /\ \A p \in 1 .. Len(Dns!LabelsOf(name)) :
       \/ Dns!LabelsOf(name)[p] = Inside
       \/ \E k \in 1 .. Len(name) : p = at[k - 1] + 1 /\ Dns!LabelsOf(name)[p] = [label |-> name[k]]

LEMMA LabelsLaidOut ==
  ASSUME NEW name \in Seq(Labels)
  PROVE  Dns!LabelsOf(name) \in Seq(DnsOctet) /\ \E at : LabelsAt(at, name)
<1> DEFINE S == DnsOctet
           pieces == LabelOf(name)
           flat == Dns!LabelsOf(name)
<1>1. PICK n \in Nat : n = Len(name) /\ name \in [1 .. n -> Labels] /\ DOMAIN name = 1 .. n
  OBVIOUS
<1>2. ASSUME NEW l \in Labels
      PROVE  /\ Dns!Label(l) \in Seq(S) /\ Len(Dns!Label(l)) = 1 + LabelOctets[l]
             /\ Dns!Label(l)[1] = [label |-> l]
             /\ \A j \in 1 .. Len(Dns!Label(l)) : j = 1 \/ Dns!Label(l)[j] = Inside
  <2>1. LabelOctets[l] \in Nat
    BY LabelSizes
  <2>2. Inside \in S /\ [label |-> l] \in S
    BY DEF DnsOctet
  <2> HIDE DEF S
  <2>3. Dns!Label(l) = Field([label |-> l], 1 + LabelOctets[l])
    BY DnsOctets DEF Dns!Label
  <2>4. 1 + LabelOctets[l] \in Nat /\ 1 \in 1 .. 1 + LabelOctets[l]
    BY <2>1
  <2>5. /\ Field([label |-> l], 1 + LabelOctets[l]) \in Seq(S)
        /\ Len(Field([label |-> l], 1 + LabelOctets[l])) = 1 + LabelOctets[l]
        /\ \A i \in 1 .. 1 + LabelOctets[l] :
             Field([label |-> l], 1 + LabelOctets[l])[i] = IF i = 1 THEN [label |-> l] ELSE Inside
    BY <2>2, <2>4, Fields, ZenonT(30)
  <2>6. Field([label |-> l], 1 + LabelOctets[l])[1] = [label |-> l]
    BY <2>4, <2>5
  <2> QED BY <2>3, <2>5, <2>6
<1> HIDE DEF S
<1>3. pieces \in Seq(Seq(S)) /\ Len(pieces) = n
  <2>1. pieces = [i \in 1 .. n |-> Dns!Label(name[i])]
    BY <1>1 DEF LabelOf
  <2>2. \A i \in 1 .. n : Dns!Label(name[i]) \in Seq(S)
    BY <1>1, <1>2
  <2> QED BY <2>1, <2>2
<1>4. \A k \in 1 .. n : pieces[k] = Dns!Label(name[k])
  BY <1>1 DEF LabelOf
<1>5. flat = FlattenSeq(pieces)
  BY <1>1, DnsOctets DEF Dns!LabelsOf, LabelOf
<1> HIDE DEF pieces, flat
<1>6. flat \in Seq(S) /\ \E at : PiecesAt(at, pieces, flat)
  BY <1>3, <1>5, FlattenPieces
<1>7. PICK at : PiecesAt(at, pieces, flat)
  BY <1>6
<1>8. at \in [0 .. n -> Nat] /\ at[0] = 0 /\ at[n] = Len(flat)
  BY <1>3, <1>7 DEF PiecesAt
<1>9. ASSUME NEW k \in 1 .. n
      PROVE  at[k] = at[k - 1] + 1 + LabelOctets[name[k]] /\ flat[at[k - 1] + 1] = [label |-> name[k]]
  <2>1. name[k] \in Labels
    BY <1>1
  <2>2. at[k] = at[k - 1] + Len(pieces[k])
        /\ \A j \in 1 .. Len(pieces[k]) : flat[at[k - 1] + j] = pieces[k][j]
    BY <1>3, <1>7 DEF PiecesAt
  <2>3. k - 1 \in 0 .. n /\ at[k - 1] \in Nat /\ LabelOctets[name[k]] \in Nat
    <3>1. k - 1 \in 0 .. n
      OBVIOUS
    <3> QED BY <3>1, <1>8, <2>1, LabelSizes
  <2>4. Len(pieces[k]) = 1 + LabelOctets[name[k]] /\ pieces[k][1] = [label |-> name[k]]
    BY <1>2, <1>4, <2>1
  <2>5. 1 \in 1 .. Len(pieces[k])
    BY <2>3, <2>4
  <2>6. at[k - 1] + (1 + LabelOctets[name[k]]) = at[k - 1] + 1 + LabelOctets[name[k]]
    BY <2>3
  <2> QED BY <2>2, <2>4, <2>5, <2>6
<1>10. \A i, j \in 0 .. n : i <= j => at[i] <= at[j]
  BY <1>3, <1>6, <1>7, PiecesInOrder
<1>11. ASSUME NEW k \in 0 .. n
       PROVE  /\ Dns!LabelsOf(SubSeq(name, 1, k)) = SubSeq(flat, 1, at[k])
              /\ Len(Dns!LabelsOf(SubSeq(name, 1, k))) = at[k]
  <2>1. FlattenSeq(SubSeq(pieces, 0 + 1, k)) = SubSeq(flat, at[0] + 1, at[k])
    <3>1. 0 \in 0 .. n /\ k \in 0 .. n /\ 0 <= k
      OBVIOUS
    <3>2. PiecesAt(at, pieces, FlattenSeq(pieces)) /\ at \in [0 .. n -> Nat] /\ n = Len(pieces)
      BY <1>3, <1>5, <1>7, <1>8
    <3>3. FlattenSeq(SubSeq(pieces, 0 + 1, k)) = SubSeq(FlattenSeq(pieces), at[0] + 1, at[k])
      BY <3>1, <3>2, <1>3, FlattenSlice
    <3> QED BY <3>3, <1>5
  <2>2. SubSeq(pieces, 1, k) = LabelOf(SubSeq(name, 1, k))
    <3>1. SubSeq(pieces, 1, k) = [i \in 1 .. k |-> pieces[i]]
      BY <1>3
    <3>2. SubSeq(name, 1, k) = [i \in 1 .. k |-> name[i]] /\ Len(SubSeq(name, 1, k)) = k
      BY <1>1
    <3> QED BY <3>1, <3>2, <1>4 DEF LabelOf
  <2>3. Dns!LabelsOf(SubSeq(name, 1, k)) = FlattenSeq(LabelOf(SubSeq(name, 1, k)))
    <3>1. DOMAIN SubSeq(name, 1, k) = 1 .. Len(SubSeq(name, 1, k))
      BY <1>1
    <3> QED BY <3>1, DnsOctets DEF Dns!LabelsOf, LabelOf
  <2>4. Dns!LabelsOf(SubSeq(name, 1, k)) = SubSeq(flat, 1, at[k])
    <3>1. 0 + 1 = 1 /\ at[0] + 1 = 1
      BY <1>8
    <3> QED BY <3>1, <2>1, <2>2, <2>3
  <2>6. at[k] <= Len(flat) /\ at[k] \in Nat
    BY <1>8, <1>10
  <2>7. Len(SubSeq(flat, 1, at[k])) = at[k]
    BY <2>6, <1>6
  <2> QED BY <2>4, <2>7
<1>12. ASSUME NEW p \in 1 .. Len(flat)
       PROVE  \/ flat[p] = Inside
              \/ \E k \in 1 .. n : p = at[k - 1] + 1 /\ flat[p] = [label |-> name[k]]
  <2>1. InPiece(p, at, pieces, flat)
    BY <1>3, <1>6, <1>7, PiecesCover
  <2>2. PICK k \in 1 .. n : \E j \in 1 .. Len(pieces[k]) : p = at[k - 1] + j /\ flat[p] = pieces[k][j]
    BY <2>1, <1>3 DEF InPiece
  <2>3. PICK j \in 1 .. Len(pieces[k]) : p = at[k - 1] + j /\ flat[p] = pieces[k][j]
    BY <2>2
  <2>4. name[k] \in Labels /\ pieces[k] = Dns!Label(name[k])
    BY <1>1, <1>4
  <2>5. j = 1 \/ flat[p] = Inside
    <3>1. PICK l \in Labels : l = name[k]
      BY <2>4
    <3>2. \A i \in 1 .. Len(Dns!Label(l)) : i = 1 \/ Dns!Label(l)[i] = Inside
      BY <1>2
    <3>3. pieces[k] = Dns!Label(l)
      BY <2>4, <3>1
    <3>4. j = 1 \/ pieces[k][j] = Inside
      BY <3>2, <3>3
    <3> QED BY <3>4, <2>3
  <2>6. j = 1 => p = at[k - 1] + 1 /\ flat[p] = [label |-> name[k]]
    BY <1>2, <2>3, <2>4
  <2> QED BY <2>5, <2>6
<1>13. LabelsAt(at, name)
  BY <1>1, <1>8, <1>9, <1>11, <1>12, <1>10 DEF LabelsAt, flat
<1> QED BY <1>6, <1>13 DEF S, flat

\* A suffix of a name is its last labels.
LEMMA SuffixIsLast ==
  ASSUME NEW S, NEW s \in Seq(S), NEW t \in Seq(S), Dns!IsSuffix(s, t)
  PROVE  Len(s) <= Len(t) /\ SubSeq(t, (Len(t) - Len(s)) + 1, Len(t)) = s
<1>1. /\ Len(Dns!Reverse(s)) = Len(s) /\ Len(Dns!Reverse(t)) = Len(t)
      /\ \A i \in 1 .. Len(s) : Dns!Reverse(s)[i] = s[(Len(s) - i) + 1]
      /\ \A i \in 1 .. Len(t) : Dns!Reverse(t)[i] = t[(Len(t) - i) + 1]
      /\ Dns!Reverse(s) \in Seq(S) /\ Dns!Reverse(t) \in Seq(S)
  BY DEF Dns!Reverse
<1>2. /\ Len(Dns!Reverse(s)) <= Len(Dns!Reverse(t))
      /\ SubSeq(Dns!Reverse(s), 1, Len(Dns!Reverse(s))) = SubSeq(Dns!Reverse(t), 1, Len(Dns!Reverse(s)))
  BY DEF Dns!IsSuffix, Dns!IsPrefix
<1>3. \A i \in 1 .. Len(s) : Dns!Reverse(s)[i] = Dns!Reverse(t)[i]
  <2>1. \A u \in Seq(S) : \A n \in 0 .. Len(u) : \A i \in 1 .. n : SubSeq(u, 1, n)[i] = u[i]
    OBVIOUS
  <2>2. Len(s) \in 0 .. Len(s) /\ Len(s) \in 0 .. Len(t)
    BY <1>1, <1>2
  <2> QED BY <1>1, <1>2, <2>1, <2>2
<1>4. PICK m \in Nat, n \in Nat : m = Len(s) /\ n = Len(t) /\ m <= n
  BY <1>1, <1>2
<1>5. ASSUME NEW j \in 1 .. m PROVE t[(n - m) + j] = s[j]
  <2>1. PICK i \in 1 .. m : i = (m - j) + 1
    OBVIOUS
  <2>2. (m - i) + 1 = j /\ (n - i) + 1 = (n - m) + j /\ i \in 1 .. n
    BY <2>1, <1>4
  <2>3. Dns!Reverse(s)[i] = s[j]
    BY <2>2, <1>1, <1>4
  <2>4. Dns!Reverse(t)[i] = t[(n - m) + j]
    BY <2>2, <1>1, <1>4
  <2>5. Dns!Reverse(s)[i] = Dns!Reverse(t)[i]
    BY <1>3, <1>4
  <2> QED BY <2>3, <2>4, <2>5
<1>6. SubSeq(t, (n - m) + 1, n) = s
  <2>1. n - m \in Nat /\ n - m <= n /\ n <= Len(t) /\ n - (n - m) = m
    BY <1>4
  <2>2. /\ SubSeq(t, (n - m) + 1, n) \in Seq(S) /\ Len(SubSeq(t, (n - m) + 1, n)) = m
        /\ \A p \in 1 .. m : SubSeq(t, (n - m) + 1, n)[p] = t[(n - m) + p]
    <3> PICK b \in Nat : b = n - m
      BY <2>1
    <3> QED BY <2>1, Slice
  <2> QED BY <2>2, <1>4, <1>5, SeqEqual
<1> QED BY <1>4, <1>6

\* A name of which the first k labels are written, and what follows them.
Wrote(w, name, offset, known, k) ==
  /\ k \in 0 .. Len(name)
  /\ \E tail : /\ \/ k = Len(name) /\ tail = Field([root |-> TRUE], 1)
                  \/ \E old \in known : /\ tail = Field([pointer |-> old[1]], 2)
                                        /\ old[2] = SubSeq(name, k + 1, Len(name))
               /\ w.octets = Dns!LabelsOf(SubSeq(name, 1, k)) \o tail
  /\ w.learned = {<<offset + Len(Dns!LabelsOf(SubSeq(name, 1, i - 1))), SubSeq(name, i, Len(name))>> : i \in 1 .. k}

LEMMA WritingsAre ==
  ASSUME NEW name \in Seq(Labels), NEW offset, NEW known \in SUBSET (Nat \X Seq(Labels)),
         NEW w \in Dns!Writings(name, offset, known)
  PROVE  \E k : Wrote(w, name, offset, known, k)
<1> DEFINE Writing(k, tail) ==
        [octets  |-> Dns!LabelsOf(SubSeq(name, 1, k)) \o tail,
         learned |-> {<<offset + Len(Dns!LabelsOf(SubSeq(name, 1, i - 1))),
                        SubSeq(name, i, Len(name))>> : i \in 1 .. k}]
<1>1. \/ w = Writing(Len(name), Field([root |-> TRUE], 1))
      \/ \E old \in known : /\ Dns!IsSuffix(old[2], name)
                            /\ w = Writing(Len(name) - Len(old[2]), Field([pointer |-> old[1]], 2))
  BY DnsOctets DEF Dns!Writings, Dns!Root, Dns!Pointer
<1>2. Len(name) \in Nat
  OBVIOUS
<1>3. CASE w = Writing(Len(name), Field([root |-> TRUE], 1))
  <2>1. Wrote(w, name, offset, known, Len(name))
    BY <1>2, <1>3 DEF Wrote
  <2> QED BY <2>1
<1>4. CASE \E old \in known : /\ Dns!IsSuffix(old[2], name)
                              /\ w = Writing(Len(name) - Len(old[2]), Field([pointer |-> old[1]], 2))
  <2>1. PICK old \in known : /\ Dns!IsSuffix(old[2], name)
                             /\ w = Writing(Len(name) - Len(old[2]), Field([pointer |-> old[1]], 2))
    BY <1>4
  <2>2. old[2] \in Seq(Labels) /\ Len(old[2]) \in Nat
    OBVIOUS
  <2>3. Len(old[2]) <= Len(name) /\ SubSeq(name, (Len(name) - Len(old[2])) + 1, Len(name)) = old[2]
    BY <2>1, <2>2, SuffixIsLast
  <2>4. PICK k : k = Len(name) - Len(old[2])
    OBVIOUS
  <2>5. k \in 0 .. Len(name)
    BY <1>2, <2>2, <2>3, <2>4
  <2>6. w.octets = Dns!LabelsOf(SubSeq(name, 1, k)) \o Field([pointer |-> old[1]], 2)
    BY <2>1, <2>4
  <2>7. w.learned = {<<offset + Len(Dns!LabelsOf(SubSeq(name, 1, i - 1))), SubSeq(name, i, Len(name))>> : i \in 1 .. k}
    BY <2>1, <2>4
  <2>8. old[2] = SubSeq(name, k + 1, Len(name))
    BY <2>3, <2>4
  <2> HIDE DEF Writing
  <2>9. Wrote(w, name, offset, known, k)
    BY <2>5, <2>6, <2>7, <2>8 DEF Wrote
  <2> QED BY <2>9
<1> QED BY <1>1, <1>3, <1>4

(***************************************************************************)
(* Offsets count from the start of a message, the octets b from the end of *)
(* its header.  known are the places at which part of a name begins, with  *)
(* that part; reading it goes on at ends[<<o, name>>].                     *)
(***************************************************************************)
\* No field of this kind begins from one offset to another.
Without(field, b, from, to) == \A o \in from .. to - 1 : field \notin DOMAIN b[o - 11]

\* Name stands at offset o, up to end.
NameAt(b, known, ends, o, name, end) ==
  \/ /\ name = << >> /\ end = o + 1 /\ end <= 12 + Len(b)
     /\ b[o - 11] = [root |-> TRUE]
  \/ <<o, name>> \in known /\ end = ends[<<o, name>>]
  \/ \E old \in known :
       /\ old[2] = name /\ ends[old] <= o /\ end = o + 2 /\ end <= 12 + Len(b)
       /\ b[o - 11] = [pointer |-> old[1]]

\* One label of a known name stands at its place, and the others follow.
LabelAt(b, known, ends, s) ==
  /\ b[s[1] - 11] = [label |-> s[2][1]]
  /\ s[1] + 1 + LabelOctets[s[2][1]] < ends[s] /\ ends[s] <= 12 + Len(b)
  /\ Without("pointer", b, s[1], s[1] + 1 + LabelOctets[s[2][1]])
  /\ NameAt(b, known, ends, s[1] + 1 + LabelOctets[s[2][1]], Tail(s[2]), ends[s])

Known(b, known, ends) ==
  /\ known \in SUBSET ((12 .. 11 + Len(b)) \X (Seq(Labels) \ {<< >>}))
  /\ ends \in [known -> Nat]
  /\ \A s \in known : LabelAt(b, known, ends, s)
  /\ \A o \in 12 .. 11 + Len(b) :
       /\ "label" \in DOMAIN b[o - 11] => \E name : <<o, name>> \in known
       /\ "pointer" \in DOMAIN b[o - 11] => \E name : <<b[o - 11].pointer, name>> \in known

\* More octets, and more known names.
Extends(c, more, goOn, b, known, ends) ==
  /\ Len(b) <= Len(c) /\ \A i \in 1 .. Len(b) : c[i] = b[i]
  /\ known \subseteq more /\ \A s \in known : goOn[s] = ends[s]

LEMMA NameKept ==
  ASSUME NEW b \in Seq(DnsOctet), NEW c \in Seq(DnsOctet), NEW known, NEW more, NEW ends, NEW goOn,
         Extends(c, more, goOn, b, known, ends),
         NEW o \in Nat, 12 <= o, NEW name, NEW end, NameAt(b, known, ends, o, name, end)
  PROVE  NameAt(c, more, goOn, o, name, end)
<1>1. /\ Len(b) <= Len(c) /\ \A i \in 1 .. Len(b) : c[i] = b[i]
      /\ known \subseteq more /\ \A s \in known : goOn[s] = ends[s]
  BY DEF Extends
<1>2. Len(b) \in Nat /\ Len(c) \in Nat
  OBVIOUS
<1>3. CASE /\ name = << >> /\ end = o + 1 /\ end <= 12 + Len(b)
           /\ b[o - 11] = [root |-> TRUE]
  <2>1. o - 11 \in 1 .. Len(b) /\ end <= 12 + Len(c)
    BY <1>1, <1>2, <1>3
  <2>2. c[o - 11] = b[o - 11]
    BY <1>1, <2>1
  <2> QED BY <1>3, <2>1, <2>2 DEF NameAt
<1>4. CASE <<o, name>> \in known /\ end = ends[<<o, name>>]
  BY <1>1, <1>4 DEF NameAt
<1>5. CASE \E old \in known :
             /\ old[2] = name /\ ends[old] <= o /\ end = o + 2 /\ end <= 12 + Len(b)
             /\ b[o - 11] = [pointer |-> old[1]]
  <2>1. PICK old \in known :
             /\ old[2] = name /\ ends[old] <= o /\ end = o + 2 /\ end <= 12 + Len(b)
             /\ b[o - 11] = [pointer |-> old[1]]
    BY <1>5
  <2>2. o - 11 \in 1 .. Len(b) /\ end <= 12 + Len(c)
    BY <1>1, <1>2, <2>1
  <2>3. c[o - 11] = b[o - 11] /\ goOn[old] = ends[old] /\ old \in more
    BY <1>1, <2>2
  <2> QED BY <2>1, <2>2, <2>3 DEF NameAt
<1> QED BY <1>3, <1>4, <1>5 DEF NameAt

LEMMA WithoutKept ==
  ASSUME NEW field, NEW b \in Seq(DnsOctet), NEW c \in Seq(DnsOctet), NEW known, NEW more, NEW ends, NEW goOn,
         Extends(c, more, goOn, b, known, ends),
         NEW from \in Nat, NEW to \in Nat, 12 <= from, to <= 12 + Len(b), Without(field, b, from, to)
  PROVE  Without(field, c, from, to)
<1>1. Len(b) <= Len(c) /\ \A i \in 1 .. Len(b) : c[i] = b[i]
  BY DEF Extends
<1>2. ASSUME NEW o \in from .. to - 1 PROVE field \notin DOMAIN c[o - 11]
  <2>1. o - 11 \in 1 .. Len(b)
    OBVIOUS
  <2>2. c[o - 11] = b[o - 11]
    BY <2>1, <1>1
  <2>3. field \notin DOMAIN b[o - 11]
    BY DEF Without
  <2> QED BY <2>2, <2>3
<1> QED BY <1>2 DEF Without

LEMMA WithoutJoined ==
  ASSUME NEW field, NEW b, NEW from \in Nat, NEW via \in Nat, NEW to \in Nat,
         Without(field, b, from, via), Without(field, b, via, to)
  PROVE  Without(field, b, from, to)
<1>1. ASSUME NEW o \in from .. to - 1 PROVE field \notin DOMAIN b[o - 11]
  <2>1. o \in from .. via - 1 \/ o \in via .. to - 1
    OBVIOUS
  <2> QED BY <2>1 DEF Without
<1> QED BY <1>1 DEF Without

\* The known names remain, whatever octets other than those of names follow.
LEMMA KnownKept ==
  ASSUME NEW b \in Seq(DnsOctet), NEW c \in Seq(DnsOctet), NEW known, NEW ends,
         Extends(c, known, ends, b, known, ends), Known(b, known, ends),
         \A i \in Len(b) + 1 .. Len(c) : "label" \notin DOMAIN c[i] /\ "pointer" \notin DOMAIN c[i]
  PROVE  Known(c, known, ends)
<1>1. Len(b) <= Len(c) /\ \A i \in 1 .. Len(b) : c[i] = b[i]
  BY DEF Extends
<1>2. Len(b) \in Nat /\ Len(c) \in Nat
  OBVIOUS
<1>3. /\ known \in SUBSET ((12 .. 11 + Len(c)) \X (Seq(Labels) \ {<< >>}))
      /\ ends \in [known -> Nat]
  <2>1. 12 .. 11 + Len(b) \subseteq 12 .. 11 + Len(c)
    BY <1>1, <1>2
  <2> QED BY <2>1 DEF Known
<1>4. ASSUME NEW s \in known PROVE LabelAt(c, known, ends, s)
  <2>1. /\ s[1] \in 12 .. 11 + Len(b) /\ s[2] \in Seq(Labels) /\ s[2] # << >>
    BY DEF Known
  <2>2. LabelAt(b, known, ends, s)
    BY DEF Known
  <2>3. PICK o \in Nat : o = s[1] + 1 + LabelOctets[s[2][1]] /\ 12 <= o
    <3>1. s[2][1] \in Labels
      BY <2>1
    <3>2. LabelOctets[s[2][1]] \in Nat
      BY <3>1, LabelSizes
    <3> QED BY SMTT(30), <2>1, <3>2
  <2>4. NameAt(b, known, ends, o, Tail(s[2]), ends[s])
    BY <2>2, <2>3 DEF LabelAt
  <2>5. NameAt(c, known, ends, o, Tail(s[2]), ends[s])
    BY <2>3, <2>4, NameKept
  <2>6. c[s[1] - 11] = b[s[1] - 11]
    <3>1. s[1] - 11 \in 1 .. Len(b)
      BY <2>1, <1>2
    <3> QED BY <3>1, <1>1
  <2>7. ends[s] \in Nat
    BY <1>3
  <2>8. ends[s] <= 12 + Len(c)
    <3>1. ends[s] <= 12 + Len(b)
      BY <2>2 DEF LabelAt
    <3> QED BY <3>1, <2>7, <1>1, <1>2
  <2>9. Without("pointer", c, s[1], o)
    <3>1. Without("pointer", b, s[1], o) /\ s[1] \in Nat /\ 12 <= s[1] /\ o <= 12 + Len(b)
      <4>1. Without("pointer", b, s[1], o) /\ o < ends[s] /\ ends[s] <= 12 + Len(b)
        BY <2>2, <2>3 DEF LabelAt
      <4>2. o <= 12 + Len(b)
        BY <4>1, <2>7, <1>2
      <4> QED BY <4>1, <4>2, <2>1
    <3> QED BY <3>1, WithoutKept
  <2> QED BY <2>2, <2>3, <2>5, <2>6, <2>8, <2>9 DEF LabelAt
<1>5. ASSUME NEW o \in 12 .. 11 + Len(c)
      PROVE  /\ "label" \in DOMAIN c[o - 11] => \E name : <<o, name>> \in known
             /\ "pointer" \in DOMAIN c[o - 11] => \E name : <<c[o - 11].pointer, name>> \in known
  <2>1. PICK i \in 1 .. Len(c) : i = o - 11
    BY <1>2
  <2>2. CASE i <= Len(b)
    <3>1. o \in 12 .. 11 + Len(b) /\ c[o - 11] = b[o - 11]
      BY <1>1, <1>2, <2>1, <2>2
    <3> QED BY <3>1 DEF Known
  <2>3. CASE i > Len(b)
    BY <1>2, <2>1, <2>3
  <2>4. i <= Len(b) \/ i > Len(b)
    BY <1>2
  <2> QED BY <2>2, <2>3, <2>4
<1> QED BY <1>3, <1>4, <1>5 DEF Known

\* What is known once name is written at the end of b.
Learned(b, known, ends, w) ==
  [s \in known \cup w.learned |-> IF s \in known THEN ends[s] ELSE 12 + Len(b) + Len(w.octets)]

NameIsWritten(b, known, ends, name, w) ==
  LET c == b \o w.octets
      more == known \cup w.learned
      goOn == Learned(b, known, ends, w)
  IN /\ c \in Seq(DnsOctet) /\ Len(c) = Len(b) + Len(w.octets)
     /\ Extends(c, more, goOn, b, known, ends) /\ Known(c, more, goOn)
     /\ NameAt(c, more, goOn, 12 + Len(b), name, 12 + Len(c))
     /\ w.octets \in Seq(DnsOctet) /\ Len(w.octets) \in Nat \ {0}
     /\ \A o \in 12 + Len(b) .. 11 + Len(c) : "type" \notin DOMAIN c[o - 11]
     /\ "pointer" \notin DOMAIN c[Len(c)]

LEMMA NameWritten ==
  ASSUME NEW b \in Seq(DnsOctet), NEW known, NEW ends, Known(b, known, ends),
         NEW name \in Seq(Labels), NEW w \in Dns!Writings(name, 12 + Len(b), known)
  PROVE  NameIsWritten(b, known, ends, name, w)
<1> DEFINE c == b \o w.octets
           more == known \cup w.learned
           goOn == Learned(b, known, ends, w)
<1>1. PICK n \in Nat, off \in Nat : n = Len(name) /\ off = 12 + Len(b)
  OBVIOUS
<1>2. known \in SUBSET (Nat \X Seq(Labels)) /\ ends \in [known -> Nat]
      /\ \A s \in known : s[1] \in 12 .. off - 1 /\ ends[s] <= off
  <2>1. known \in SUBSET ((12 .. 11 + Len(b)) \X (Seq(Labels) \ {<< >>})) /\ ends \in [known -> Nat]
    BY DEF Known
  <2>2. \A s \in known : ends[s] <= 12 + Len(b)
    BY DEF Known, LabelAt
  <2> QED BY <1>1, <2>1, <2>2
<1>3. PICK k : Wrote(w, name, off, known, k)
  BY <1>1, <1>2, WritingsAre
<1>4. PICK at : Dns!LabelsOf(name) \in Seq(DnsOctet) /\ LabelsAt(at, name)
  BY LabelsLaidOut
<1> DEFINE flat == Dns!LabelsOf(name)
<1>5. k \in 0 .. n /\ at \in [0 .. n -> Nat] /\ at[0] = 0 /\ at[k] \in Nat
  BY <1>1, <1>3, <1>4 DEF Wrote, LabelsAt
<1>6. /\ \A i \in 0 .. n : Dns!LabelsOf(SubSeq(name, 1, i)) = SubSeq(flat, 1, at[i])
                           /\ Len(Dns!LabelsOf(SubSeq(name, 1, i))) = at[i]
      /\ \A i \in 1 .. n : /\ at[i] = at[i - 1] + 1 + LabelOctets[name[i]]
                           /\ flat[at[i - 1] + 1] = [label |-> name[i]]
      /\ \A p \in 1 .. Len(flat) :
           \/ flat[p] = Inside
           \/ \E i \in 1 .. n : p = at[i - 1] + 1 /\ flat[p] = [label |-> name[i]]
  BY <1>1, <1>4 DEF LabelsAt
<1>7. PICK tail : /\ \/ k = n /\ tail = Field([root |-> TRUE], 1)
                     \/ \E old \in known : /\ tail = Field([pointer |-> old[1]], 2)
                                           /\ old[2] = SubSeq(name, k + 1, n)
                  /\ w.octets = Dns!LabelsOf(SubSeq(name, 1, k)) \o tail
  BY <1>1, <1>3 DEF Wrote
<1>8. tail \in Seq(DnsOctet)
      /\ \/ k = n /\ Len(tail) = 1 /\ tail[1] = [root |-> TRUE]
         \/ \E old \in known : /\ Len(tail) = 2 /\ tail[1] = [pointer |-> old[1]] /\ tail[2] = Inside
                              /\ old[2] = SubSeq(name, k + 1, n)
  <2>1. Inside \in DnsOctet /\ [root |-> TRUE] \in DnsOctet /\ \A o \in Nat : [pointer |-> o] \in DnsOctet
    BY DEF DnsOctet
  <2>2. CASE k = n /\ tail = Field([root |-> TRUE], 1)
    BY <2>1, <2>2, FieldOfOne
  <2>3. CASE \E old \in known : tail = Field([pointer |-> old[1]], 2) /\ old[2] = SubSeq(name, k + 1, n)
    <3>1. PICK old \in known : tail = Field([pointer |-> old[1]], 2) /\ old[2] = SubSeq(name, k + 1, n)
      BY <2>3
    <3>2. old[1] \in Nat
      BY <1>2
    <3>3. [pointer |-> old[1]] \in DnsOctet
      BY <2>1, <3>2
    <3>4. /\ tail \in Seq(DnsOctet) /\ Len(tail) = 2
          /\ tail[1] = [pointer |-> old[1]] /\ tail[2] = Inside
      BY <2>1, <3>1, <3>3, FieldOfTwo, Zenon
    <3> QED BY <3>1, <3>4
  <2> QED BY <1>7, <2>2, <2>3
<1>9. /\ Len(tail) \in 1 .. 2
      /\ \A j \in 1 .. Len(tail) :
           /\ "label" \notin DOMAIN tail[j] /\ "type" \notin DOMAIN tail[j]
           /\ "pointer" \in DOMAIN tail[j] => \E old \in known : tail[j] = [pointer |-> old[1]]
  <2>1. "label" \notin DOMAIN Inside /\ "type" \notin DOMAIN Inside /\ "pointer" \notin DOMAIN Inside
    BY DEF Inside
  <2>2. CASE Len(tail) = 1 /\ tail[1] = [root |-> TRUE]
    BY <2>2
  <2>3. CASE \E old \in known : Len(tail) = 2 /\ tail[1] = [pointer |-> old[1]] /\ tail[2] = Inside
    <3>1. PICK old \in known : Len(tail) = 2 /\ tail[1] = [pointer |-> old[1]] /\ tail[2] = Inside
      BY <2>3
    <3>2. ASSUME NEW j \in 1 .. Len(tail)
          PROVE  /\ "label" \notin DOMAIN tail[j] /\ "type" \notin DOMAIN tail[j]
                 /\ "pointer" \in DOMAIN tail[j] => \E x \in known : tail[j] = [pointer |-> x[1]]
      <4>1. CASE j = 1
        BY <4>1, <3>1
      <4>2. CASE j = 2
        BY <4>2, <3>1, <2>1, Zenon
      <4> QED BY <4>1, <4>2, <3>1
    <3> QED BY <3>1, <3>2
  <2> QED BY <1>8, <2>2, <2>3
<1> HIDE DEF flat
\* The octets of w.
<1>10. PICK u \in Seq(DnsOctet) : u = Dns!LabelsOf(SubSeq(name, 1, k)) /\ Len(u) = at[k]
  <2>1. SubSeq(name, 1, k) \in Seq(Labels)
    BY <1>1, <1>5
  <2>2. Dns!LabelsOf(SubSeq(name, 1, k)) \in Seq(DnsOctet)
    BY <2>1, LabelsLaidOut
  <2> QED BY <2>2, <1>5, <1>6
<1>11. PICK m \in Nat : m = Len(w.octets) /\ m = at[k] + Len(tail) /\ w.octets \in Seq(DnsOctet)
       /\ (\A j \in 1 .. at[k] : w.octets[j] = u[j])
       /\ (\A j \in 1 .. Len(tail) : w.octets[at[k] + j] = tail[j])
  <2>1. u \o tail \in Seq(DnsOctet) /\ Len(u \o tail) = Len(u) + Len(tail)
        /\ (\A j \in 1 .. Len(u) : (u \o tail)[j] = u[j])
        /\ (\A j \in 1 .. Len(tail) : (u \o tail)[Len(u) + j] = tail[j])
    BY <1>8, Concatenation
  <2>2. w.octets = u \o tail
    BY <1>7, <1>10
  <2>3. at[k] + Len(tail) \in Nat
    BY <1>5, <1>9
  <2> QED BY <2>1, <2>2, <2>3, <1>10
<1>12. \A i, j \in 0 .. n : i <= j => at[i] <= at[j]
  BY <1>1, <1>4 DEF LabelsAt
<1>13. at[n] = Len(flat) /\ at[k] <= Len(flat)
  <2>1. at[n] = Len(flat)
    BY <1>1, <1>4 DEF LabelsAt, flat
  <2> QED BY <2>1, <1>1, <1>5, <1>12
<1>14. u = SubSeq(flat, 1, at[k]) /\ (\A j \in 1 .. at[k] : u[j] = flat[j])
  <2>1. flat \in Seq(DnsOctet)
    BY <1>4 DEF flat
  <2>2. u = SubSeq(flat, 1, at[k])
    BY <1>5, <1>6, <1>10
  <2> QED BY <2>1, <2>2, <1>5, <1>13
<1>15. ASSUME NEW j \in 1 .. m
       PROVE  \/ w.octets[j] = Inside
              \/ \E i \in 1 .. k : j = at[i - 1] + 1 /\ w.octets[j] = [label |-> name[i]]
              \/ \E i \in 1 .. Len(tail) : w.octets[j] = tail[i]
  <2>1. CASE j > at[k]
    <3>1. PICK i \in 1 .. Len(tail) : at[k] + i = j
      <4>1. j - at[k] \in 1 .. Len(tail) /\ at[k] + (j - at[k]) = j
        BY SMTT(30), <2>1, <1>5, <1>9, <1>11
      <4> QED BY <4>1
    <3>2. w.octets[at[k] + i] = tail[i]
      BY <1>11
    <3> QED BY <3>1, <3>2
  <2>2. CASE j <= at[k]
    <3>1. w.octets[j] = flat[j] /\ j \in 1 .. Len(flat)
      BY <2>2, <1>5, <1>11, <1>13, <1>14
    <3>2. CASE \E i \in 1 .. n : j = at[i - 1] + 1 /\ flat[j] = [label |-> name[i]]
      <4>1. PICK i \in 1 .. n : j = at[i - 1] + 1 /\ flat[j] = [label |-> name[i]]
        BY <3>2
      <4>2. PICK e \in 0 .. n : e = i - 1 /\ at[e] \in Nat
        BY <1>5
      <4>3. ~ k <= e
        <5>1. k <= e => at[k] <= at[e]
          BY <1>5, <1>12
        <5>2. ~ at[k] <= at[e]
          BY <2>2, <4>1, <4>2, <1>5
        <5> QED BY <5>1, <5>2
      <4>4. i \in 1 .. k
        BY <4>2, <4>3, <1>5
      <4> QED BY <3>1, <4>1, <4>4
    <3> QED BY <3>1, <3>2, <1>6 DEF flat
  <2>3. j > at[k] \/ j <= at[k]
    BY <1>5
  <2> QED BY <2>1, <2>2, <2>3
\* What the first k labels and the tail say, at their places in c.
<1>16. /\ c \in Seq(DnsOctet) /\ Len(c) = Len(b) + m
       /\ \A i \in 1 .. Len(b) : c[i] = b[i]
       /\ \A j \in 1 .. m : c[Len(b) + j] = w.octets[j]
  <2>1. PICK q \in Seq(DnsOctet) : q = w.octets /\ Len(q) = m
    BY <1>11
  <2>2. /\ b \o q \in Seq(DnsOctet) /\ Len(b \o q) = Len(b) + Len(q)
        /\ \A i \in 1 .. Len(b) : (b \o q)[i] = b[i]
        /\ \A j \in 1 .. Len(q) : (b \o q)[Len(b) + j] = q[j]
    BY Concatenation
  <2>3. c = b \o q
    BY <2>1
  <2> HIDE DEF c
  <2> QED BY <2>1, <2>2, <2>3
<1> HIDE DEF c, goOn
<1>0. PICK x \in Nat, y \in 1 .. 2, l \in Nat : x = at[k] /\ y = Len(tail) /\ l = Len(b)
  BY <1>5, <1>9
<1>28. off = 12 + l /\ m = x + y
  BY <1>0, <1>1, <1>11
<1>29. Len(c) = l + m
  BY <1>0, <1>16
<1>17. /\ \A s \in w.learned : \E i \in 1 .. k : s = <<off + at[i - 1], SubSeq(name, i, n)>>
       /\ \A i \in 1 .. k : <<off + at[i - 1], SubSeq(name, i, n)>> \in w.learned
  <2>1. w.learned = {<<off + Len(Dns!LabelsOf(SubSeq(name, 1, i - 1))), SubSeq(name, i, n)>> : i \in 1 .. k}
    BY <1>1, <1>3 DEF Wrote
  <2>2. \A i \in 1 .. k : Len(Dns!LabelsOf(SubSeq(name, 1, i - 1))) = at[i - 1]
    <3>1. \A i \in 1 .. k : i - 1 \in 0 .. n
      BY <1>5
    <3> QED BY <3>1, <1>6
  <2> QED BY <2>1, <2>2
<1>18. ASSUME NEW s \in w.learned
       PROVE  \E i \in 1 .. k : \E e \in 0 .. k :
                /\ e = i - 1 /\ s = <<off + at[e], SubSeq(name, i, n)>> /\ at[e] \in Nat /\ at[e] <= at[k]
  <2>1. PICK i \in 1 .. k : s = <<off + at[i - 1], SubSeq(name, i, n)>>
    BY <1>17
  <2>2. PICK e \in 0 .. k : e = i - 1
    BY <1>5
  <2>3. e \in 0 .. n /\ k \in 0 .. n /\ e <= k
    BY <1>5
  <2> QED BY <2>1, <2>2, <2>3, <1>5, <1>12
<1>19. more \in SUBSET ((12 .. 11 + Len(c)) \X (Seq(Labels) \ {<< >>}))
  <2>1. ASSUME NEW s \in known PROVE s \in (12 .. 11 + Len(c)) \X (Seq(Labels) \ {<< >>})
    <3>1. s \in (12 .. 11 + Len(b)) \X (Seq(Labels) \ {<< >>})
      BY DEF Known
    <3> QED BY <3>1, <1>16
  <2>2. ASSUME NEW s \in w.learned PROVE s \in (12 .. 11 + Len(c)) \X (Seq(Labels) \ {<< >>})
    <3>1. PICK i \in 1 .. k, e \in 0 .. k :
            e = i - 1 /\ s = <<off + at[e], SubSeq(name, i, n)>> /\ at[e] \in Nat /\ at[e] <= at[k]
      BY <1>18
    <3>2. SubSeq(name, i, n) \in Seq(Labels) /\ SubSeq(name, i, n) # << >>
      <4>1. e \in Nat /\ e <= n /\ n - e # 0 /\ e + 1 = i /\ n <= Len(name)
        BY <3>1, <1>1, <1>5
      <4>2. SubSeq(name, e + 1, n) \in Seq(Labels) /\ Len(SubSeq(name, e + 1, n)) = n - e
        BY <4>1, Slice
      <4>3. Len(SubSeq(name, i, n)) # 0
        BY <4>1, <4>2
      <4> QED BY <4>1, <4>2, <4>3
    <3>3. off + at[e] \in 12 .. 11 + Len(c)
      <4>1. PICK z \in Nat : z = at[e] /\ z <= x
        BY <3>1, <1>0
      <4>2. z <= x
        BY <4>1
      <4>3. off + z \in 12 .. 11 + (l + m)
        BY <4>2, <1>28
      <4> QED BY <4>1, <4>3, <1>29
    <3> QED BY <3>1, <3>2, <3>3
  <2> QED BY <2>1, <2>2
<1>20. /\ goOn \in [more -> Nat]
       /\ \A s \in known : goOn[s] = ends[s] /\ ends[s] \in Nat
       /\ \A s \in w.learned : s \notin known /\ goOn[s] = 12 + Len(c)
  <2>1. \A s \in w.learned : s \notin known
    <3>1. ASSUME NEW s \in w.learned PROVE s[1] \in Nat /\ s[1] >= off
      <4>1. PICK i \in 1 .. k, e \in 0 .. k :
              e = i - 1 /\ s = <<off + at[e], SubSeq(name, i, n)>> /\ at[e] \in Nat /\ at[e] <= at[k]
        BY <1>18
      <4> QED BY <4>1
    <3>2. \A s \in known : s[1] \in 12 .. off - 1
      BY <1>2
    <3> QED BY <3>1, <3>2
  <2>2. goOn = [s \in more |-> IF s \in known THEN ends[s] ELSE 12 + Len(c)]
    <3>1. 12 + Len(b) + Len(w.octets) = 12 + Len(c)
      BY <1>11, <1>16
    <3> QED BY <3>1 DEF goOn, Learned
  <2>3. 12 + Len(c) \in Nat /\ \A s \in known : ends[s] \in Nat
    BY <1>2, <1>16
  <2> QED BY <2>1, <2>2, <2>3
<1>21. Extends(c, more, goOn, b, known, ends)
  BY <1>16, <1>20 DEF Extends
<1> HIDE DEF more
<1>22. known \subseteq more /\ w.learned \subseteq more
  BY DEF more
<1>23. ASSUME NEW i \in 0 .. k
       PROVE  NameAt(c, more, goOn, off + at[i], SubSeq(name, i + 1, n), 12 + Len(c))
  <2>1. CASE i # k
    <3>1. PICK j \in 1 .. k : j = i + 1 /\ j - 1 = i
      BY <2>1, <1>5
    <3>2. <<off + at[i], SubSeq(name, i + 1, n)>> \in w.learned
      BY <3>1, <1>17
    <3> QED BY <3>2, <1>20, <1>22 DEF NameAt
  <2>2. CASE i = k
    <3>1. PICK o \in Nat : o = off + x
      OBVIOUS
    <3>6. o = off + at[k]
      BY <3>1, <1>0
    <3>2. c[o - 11] = tail[1]
      <4>1. 1 \in 1 .. Len(tail) /\ at[k] + 1 \in 1 .. m /\ o - 11 = Len(b) + (at[k] + 1)
        <5>1. 1 \in 1 .. y /\ x + 1 \in 1 .. m /\ o - 11 = l + (x + 1)
          BY <3>1, <1>28
        <5> QED BY <5>1, <1>0
      <4>2. w.octets[at[k] + 1] = tail[1]
        BY <4>1, <1>11
      <4> QED BY <4>1, <4>2, <1>16
    <3>3. 12 + Len(c) = o + Len(tail)
      <4>1. 12 + (l + m) = o + y
        BY <3>1, <1>28
      <4> QED BY <4>1, <1>0, <1>29
    <3>4. CASE k = n /\ Len(tail) = 1 /\ tail[1] = [root |-> TRUE]
      <4>1. SubSeq(name, i + 1, n) = << >>
        BY <2>2, <3>4, <1>1
      <4> QED BY <4>1, <3>1, <3>2, <3>3, <3>4, <3>6, <2>2 DEF NameAt
    <3>5. CASE \E old \in known : /\ Len(tail) = 2 /\ tail[1] = [pointer |-> old[1]] /\ tail[2] = Inside
                              /\ old[2] = SubSeq(name, k + 1, n)
      <4>1. PICK old \in known : /\ Len(tail) = 2 /\ tail[1] = [pointer |-> old[1]] /\ tail[2] = Inside
                              /\ old[2] = SubSeq(name, k + 1, n)
        BY <3>5
      <4>2. goOn[old] <= o /\ old \in more
        <5>1. ends[old] <= off /\ ends[old] \in Nat /\ goOn[old] = ends[old]
          BY <1>2, <1>20
        <5> QED BY <5>1, <3>1, <1>5, <1>22
      <4>3. 12 + Len(c) <= 12 + Len(c)
        BY <1>16
      <4> QED BY <4>1, <4>2, <4>3, <3>1, <3>2, <3>3, <3>6, <2>2 DEF NameAt
    <3> QED BY <3>4, <3>5, <1>8
  <2> QED BY <2>1, <2>2
<1>24. ASSUME NEW s \in more PROVE LabelAt(c, more, goOn, s)
  <2>1. CASE s \in known
    <3>1. /\ s[1] \in 12 .. 11 + Len(b) /\ s[2] \in Seq(Labels) /\ s[2] # << >>
          /\ LabelAt(b, known, ends, s)
      BY <2>1 DEF Known
    <3>2. PICK o \in Nat : o = s[1] + 1 + LabelOctets[s[2][1]] /\ 12 <= o
      <4>1. s[2][1] \in Labels
        BY <3>1
      <4>2. LabelOctets[s[2][1]] \in Nat
        BY <4>1, LabelSizes
      <4> QED BY SMTT(30), <3>1, <4>2
    <3>3. NameAt(b, known, ends, o, Tail(s[2]), ends[s]) /\ o < ends[s] /\ ends[s] <= 12 + Len(b)
      BY <3>1, <3>2 DEF LabelAt
    <3>4. NameAt(c, more, goOn, o, Tail(s[2]), ends[s])
      BY <3>2, <3>3, <1>16, <1>21, NameKept
    <3>5. ends[s] = goOn[s] /\ ends[s] \in Nat
      BY <2>1, <1>20
    <3>6. ends[s] <= 12 + Len(c)
      <4>1. 12 + l <= 12 + (l + m)
        OBVIOUS
      <4> QED BY <4>1, <3>3, <3>5, <1>0, <1>29
    <3>7. c[s[1] - 11] = [label |-> s[2][1]]
      <4>1. PICK i \in 1 .. Len(b) : i = s[1] - 11
        BY <3>1
      <4>2. c[i] = b[i]
        BY <1>16
      <4> QED BY <4>1, <4>2, <3>1 DEF LabelAt
    <3>8. Without("pointer", c, s[1], o)
      <4>1. Without("pointer", b, s[1], o) /\ s[1] \in Nat /\ 12 <= s[1]
        BY <3>1, <3>2 DEF LabelAt
      <4>2. o <= 12 + Len(b)
        BY <3>3, <3>5
      <4> QED BY <4>1, <4>2, <1>16, <1>21, WithoutKept
    <3> QED BY <3>2, <3>3, <3>4, <3>5, <3>6, <3>7, <3>8 DEF LabelAt
  <2>2. CASE s \in w.learned
    <3>1. PICK i \in 1 .. k, e \in 0 .. k :
            e = i - 1 /\ s = <<off + at[e], SubSeq(name, i, n)>> /\ at[e] \in Nat /\ at[e] <= at[k]
      BY <2>2, <1>18
    <3>2. i \in 1 .. n /\ at[i] = at[e] + 1 + LabelOctets[name[i]] /\ name[i] \in Labels
      <4>1. i \in 1 .. n
        BY <1>5
      <4>2. at[i] = at[i - 1] + 1 + LabelOctets[name[i]]
        BY <4>1, <1>6
      <4>3. name[i] \in Labels
        BY <4>1, <1>1
      <4> QED BY <4>1, <4>2, <4>3, <3>1
    <3>3. s[2][1] = name[i] /\ Tail(s[2]) = SubSeq(name, i + 1, n)
      <4>1. SubSeq(name, i, n)[1] = name[i] /\ Tail(SubSeq(name, i, n)) = SubSeq(name, i + 1, n)
        <5>1. i \in 1 .. Len(name) /\ n = Len(name)
          BY <3>2, <1>1
        <5> QED BY ONLY name \in Seq(Labels), n \in Nat, <5>1, SliceTail
      <4> QED BY <4>1, <3>1
    <3>4. LabelOctets[name[i]] \in Nat /\ at[i] \in Nat /\ at[i] <= at[k]
      BY <3>2, <1>5, <1>12, LabelSizes
    <3>5. s[1] + 1 + LabelOctets[s[2][1]] = off + at[i]
      <4>1. s[1] = off + at[e]
        BY <3>1
      <4>2. PICK v \in Nat : v = LabelOctets[name[i]]
        BY <3>4
      <4>3. PICK z \in Nat : z = at[e]
        BY <3>1
      <4>4. at[i] = z + 1 + v
        BY <4>2, <4>3, <3>2
      <4>5. (off + z) + 1 + v = off + (z + 1 + v)
        OBVIOUS
      <4> QED BY <4>1, <4>2, <4>3, <4>4, <4>5, <3>3
    <3>6. NameAt(c, more, goOn, off + at[i], SubSeq(name, i + 1, n), 12 + Len(c))
      <4>1. i \in 0 .. k
        OBVIOUS
      <4> QED BY <4>1, <1>23
    <3>7. goOn[s] = 12 + Len(c)
      BY <2>2, <1>20
    <3>8. off + at[i] < 12 + Len(c) /\ 12 + Len(c) <= 12 + Len(c)
      <4>1. PICK z \in Nat : z = at[i] /\ z <= x
        BY <3>4, <1>0
      <4>2. z <= x
        BY <4>1
      <4>3. off + z < 12 + (l + m)
        BY <4>2, <1>28
      <4> QED BY SMTT(30), <4>1, <4>3, <1>16, <1>29
    <3>9. c[s[1] - 11] = [label |-> s[2][1]]
      <4>1. PICK z \in Nat : z = at[e]
        BY <3>1
      <4>2. PICK v \in Nat : v = LabelOctets[name[i]]
        BY <3>4
      <4>3. z + 1 + v <= x
        BY <4>1, <4>2, <3>2, <3>4, <1>0
      <4>4. z + 1 \in 1 .. x /\ z + 1 \in 1 .. m /\ (off + z) - 11 = l + (z + 1)
        BY <4>3, <1>28
      <4>5. c[l + (z + 1)] = w.octets[z + 1]
        BY <4>4, <1>0, <1>16
      <4>6. w.octets[z + 1] = u[z + 1] /\ u[z + 1] = flat[z + 1]
        BY <4>4, <1>0, <1>11, <1>14
      <4>7. flat[z + 1] = [label |-> name[i]]
        BY <4>1, <3>1, <3>2, <1>6 DEF flat
      <4>8. s[1] - 11 = l + (z + 1)
        BY <4>1, <4>4, <3>1
      <4> QED BY <4>5, <4>6, <4>7, <4>8, <3>3
    <3>10. Without("pointer", c, off + at[e], off + at[i])
      <4>1. PICK z \in Nat : z = at[e]
        BY <3>1
      <4>2. PICK y1 \in Nat : y1 = at[i]
        BY <3>4
      <4>3. y1 <= x
        BY <4>2, <3>4, <1>0
      <4>4. ASSUME NEW p \in off + z .. (off + y1) - 1 PROVE "pointer" \notin DOMAIN c[p - 11]
        <5>1. PICK j \in 1 .. x : p - 11 = l + j
          <6>1. (p - 11) - l \in 1 .. x /\ p - 11 = l + ((p - 11) - l)
            BY <4>3, <1>28
          <6> QED BY <6>1
        <5>2. j \in 1 .. m
          BY <1>28
        <5>3. c[l + j] = w.octets[j]
          BY <5>2, <1>0, <1>16
        <5>4. w.octets[j] = flat[j] /\ j \in 1 .. Len(flat)
          BY <1>0, <1>11, <1>13, <1>14, SMTT(30)
        <5>5. flat[j] = Inside \/ \E q \in 1 .. n : flat[j] = [label |-> name[q]]
          BY <5>4, <1>6
        <5>6. "pointer" \notin DOMAIN Inside
          BY DEF Inside
        <5>7. "pointer" \notin DOMAIN flat[j]
          <6>1. CASE flat[j] = Inside
            BY <6>1, <5>6
          <6>2. CASE \E q \in 1 .. n : flat[j] = [label |-> name[q]]
            BY <6>2
          <6> QED BY <6>1, <6>2, <5>5
        <5>8. c[p - 11] = flat[j]
          BY <5>1, <5>3, <5>4
        <5> QED BY <5>7, <5>8
      <4>5. Without("pointer", c, off + z, off + y1)
        BY <4>4 DEF Without
      <4> QED BY <4>1, <4>2, <4>5
    <3>11. Without("pointer", c, s[1], off + at[i])
      BY <3>1, <3>10
    <3> QED BY <3>3, <3>5, <3>6, <3>7, <3>8, <3>9, <3>11 DEF LabelAt
  <2> QED BY <2>1, <2>2 DEF more
<1>25. ASSUME NEW o \in 12 .. 11 + Len(c)
       PROVE  /\ "label" \in DOMAIN c[o - 11] => \E some : <<o, some>> \in more
              /\ "pointer" \in DOMAIN c[o - 11] => \E some : <<c[o - 11].pointer, some>> \in more
  <2>1. CASE o < off
    <3>1. o \in 12 .. 11 + Len(b) /\ o - 11 \in 1 .. Len(b)
      BY <2>1, <1>1
    <3>2. c[o - 11] = b[o - 11]
      BY <3>1, <1>16
    <3>3. /\ "label" \in DOMAIN b[o - 11] => \E some : <<o, some>> \in known
          /\ "pointer" \in DOMAIN b[o - 11] => \E some : <<b[o - 11].pointer, some>> \in known
      BY <3>1 DEF Known
    <3> QED BY <3>2, <3>3, <1>22
  <2>2. CASE ~ o < off
    <3>1. PICK j \in 1 .. m : o - 11 = l + j /\ o = off + (j - 1)
      <4>1. o \in 12 .. 11 + (l + m)
        BY <1>29
      <4>2. o - 11 - l \in 1 .. m
        BY <4>1, <2>2, <1>28
      <4>3. o - 11 = l + (o - 11 - l) /\ o = off + ((o - 11 - l) - 1)
        BY <4>1, <1>28
      <4> QED BY <4>2, <4>3
    <3>2. c[o - 11] = w.octets[j]
      BY <3>1, <1>0, <1>16
    <3>3. CASE w.octets[j] = Inside
      BY <3>2, <3>3 DEF Inside
    <3>4. CASE \E i \in 1 .. k : j = at[i - 1] + 1 /\ w.octets[j] = [label |-> name[i]]
      <4>1. PICK i \in 1 .. k : j = at[i - 1] + 1 /\ w.octets[j] = [label |-> name[i]]
        BY <3>4
      <4>2. <<off + at[i - 1], SubSeq(name, i, n)>> \in more
        BY <1>17, <1>22
      <4>3. off + at[i - 1] = o
        <5>1. i - 1 \in 0 .. n
          BY <1>5
        <5>2. at[i - 1] \in Nat
          BY <5>1, <1>5
        <5>3. j - 1 = at[i - 1]
          BY SMTT(30), <4>1, <5>2
        <5> QED BY <5>3, <3>1
      <4>4. "pointer" \notin DOMAIN c[o - 11]
        BY <3>2, <4>1
      <4> QED BY <4>2, <4>3, <4>4
    <3>5. CASE \E i \in 1 .. Len(tail) : w.octets[j] = tail[i]
      <4>1. PICK i \in 1 .. Len(tail) : c[o - 11] = tail[i]
        BY <3>2, <3>5
      <4>2. /\ "label" \notin DOMAIN c[o - 11]
            /\ "pointer" \in DOMAIN c[o - 11] => \E old \in known : c[o - 11] = [pointer |-> old[1]]
        BY <4>1, <1>9
      <4>3. ASSUME NEW old \in known, c[o - 11] = [pointer |-> old[1]]
            PROVE  \E some : <<c[o - 11].pointer, some>> \in more
        <5>1. old = <<old[1], old[2]>> /\ c[o - 11].pointer = old[1]
          BY <4>3, <1>2
        <5>2. <<old[1], old[2]>> \in more
          BY <5>1, <1>22
        <5> QED BY <5>1, <5>2
      <4> QED BY <4>2, <4>3
    <3> QED BY <3>3, <3>4, <3>5, <1>15
  <2> QED BY <2>1, <2>2
<1>26. Known(c, more, goOn)
  BY <1>19, <1>20, <1>24, <1>25 DEF Known
<1>27. NameAt(c, more, goOn, 12 + Len(b), name, 12 + Len(c))
  <2>1. off + at[0] = 12 + Len(b) /\ SubSeq(name, 0 + 1, n) = name
    BY <1>1, <1>5
  <2>2. 0 \in 0 .. k
    BY <1>5
  <2>3. NameAt(c, more, goOn, off + at[0], SubSeq(name, 0 + 1, n), 12 + Len(c))
    BY <2>2, <1>23
  <2> QED BY <2>1, <2>3
<1>30. ASSUME NEW o \in 12 + Len(b) .. 11 + Len(c) PROVE "type" \notin DOMAIN c[o - 11]
  <2>1. PICK j \in 1 .. m : o - 11 = l + j
    <3>1. o \in 12 + l .. 11 + (l + m)
      BY <1>0, <1>29
    <3>2. o - 11 - l \in 1 .. m /\ o - 11 = l + (o - 11 - l)
      BY <3>1
    <3> QED BY <3>2
  <2>2. c[o - 11] = w.octets[j]
    BY <2>1, <1>0, <1>16
  <2>3. CASE w.octets[j] = Inside
    BY <2>2, <2>3 DEF Inside
  <2>4. CASE \E i \in 1 .. k : w.octets[j] = [label |-> name[i]]
    BY <2>2, <2>4
  <2>5. CASE \E i \in 1 .. Len(tail) : w.octets[j] = tail[i]
    BY <2>2, <2>5, <1>9
  <2> QED BY <2>3, <2>4, <2>5, <1>15
<1>31. m # 0
  BY <1>28
<1>32. "pointer" \notin DOMAIN c[Len(c)]
  <2>1. y \in 1 .. y /\ x + y = m /\ Len(tail) = y /\ at[k] = x
    BY <1>0, <1>28
  <2>2. w.octets[m] = tail[Len(tail)]
    <3>1. \A j \in 1 .. y : w.octets[x + j] = tail[j]
      BY <2>1, <1>11
    <3> QED BY <2>1, <3>1
  <2>3. c[Len(c)] = tail[Len(tail)]
    <3>1. m \in 1 .. m /\ Len(c) = Len(b) + m
      BY <1>16, <1>31
    <3>2. c[Len(b) + m] = w.octets[m]
      BY <3>1, <1>16
    <3> QED BY <3>1, <3>2, <2>2
  <2>4. "pointer" \notin DOMAIN Inside
    BY DEF Inside
  <2>5. "pointer" \notin DOMAIN tail[Len(tail)]
    <3>1. CASE Len(tail) = 1 /\ tail[1] = [root |-> TRUE]
      BY <3>1
    <3>2. CASE Len(tail) = 2 /\ tail[2] = Inside
      BY <2>4, <3>2
    <3> QED BY <3>1, <3>2, <1>8
  <2> QED BY <2>3, <2>5
<1> QED BY <1>11, <1>16, <1>21, <1>26, <1>27, <1>30, <1>31, <1>32 DEF NameIsWritten, c, more, goOn

QuestionAt(b, known, ends, name, o, next) ==
  \E e \in Nat : /\ NameAt(b, known, ends, o, name, e) /\ o < e
                 /\ next = e + 4 /\ next <= 12 + Len(b)
                 /\ Without("type", b, o, next) /\ Without("pointer", b, e - 1, next)

\* Data about name, of length octets from o on.
DataAt(b, known, ends, type, name, o, length) ==
  \/ type = "A" /\ length = 4 /\ b[o - 11] = [address |-> name]
  \/ type = "AAAA" /\ length = 16 /\ b[o - 11] = [address |-> name]
  \/ type \in {"CNAME", "PTR"} /\ NameAt(b, known, ends, o, name, o + length)
  \/ type = "MX" /\ length >= 2 /\ NameAt(b, known, ends, o + 2, name, o + length)
  \/ /\ type = "SOA" /\ length >= 20
     /\ \E e \in o .. o + length : NameAt(b, known, ends, o, name, e)
                                   /\ NameAt(b, known, ends, e, name, o + length - 20)
  \/ /\ type = "TXT" /\ length = 6
     /\ b[o - 11] = [text |-> name, size |-> 3] /\ b[(o + 4) - 11] = [text |-> name, size |-> 1]
     /\ Without("text", b, o + 1, o + 4) /\ Without("text", b, o + 5, o + 6)
  \/ type = "other" /\ length = 3 /\ b[o - 11] = [opaque |-> name]

RecordAt(b, known, ends, record, o, next) ==
  \E e \in Nat : \E length \in Nat \ {0} : \E name \in Names :
    /\ NameAt(b, known, ends, o, record.name, e) /\ o < e
    /\ b[e - 11] = [type |-> record.type, length |-> length]
    /\ next = (e + 10) + length /\ next <= 12 + Len(b)
    /\ record.data = Dns!Says(record.type, name)
    /\ DataAt(b, known, ends, record.type, name, e + 10, length)
    /\ Without("type", b, o, e) /\ Without("type", b, e + 1, next)
    /\ Without("pointer", b, e - 1, e + 10)

\* One behind the other.
Place == {p \in Nat : p >= 12}
QuestionsAt(b, known, ends, list, from, to) ==
  \E at \in [0 .. Len(list) -> Place] :
    /\ at[0] = from /\ at[Len(list)] = to
    /\ \A i \in 1 .. Len(list) : QuestionAt(b, known, ends, list[i], at[i - 1], at[i])
RecordsAt(b, known, ends, list, from, to) ==
  \E at \in [0 .. Len(list) -> Place] :
    /\ at[0] = from /\ at[Len(list)] = to
    /\ \A i \in 1 .. Len(list) : RecordAt(b, known, ends, list[i], at[i - 1], at[i])

LEMMA DataKept ==
  ASSUME NEW b \in Seq(DnsOctet), NEW c \in Seq(DnsOctet), NEW known, NEW more, NEW ends, NEW goOn,
         Extends(c, more, goOn, b, known, ends),
         NEW type, NEW name, NEW o \in Nat, 12 <= o, NEW length \in Nat, length > 0, o + length <= 12 + Len(b),
         DataAt(b, known, ends, type, name, o, length)
  PROVE  DataAt(c, more, goOn, type, name, o, length)
<1>1. Len(b) <= Len(c) /\ \A i \in 1 .. Len(b) : c[i] = b[i]
  BY DEF Extends
<1>2. \A p \in o .. (o + length) - 1 : c[p - 11] = b[p - 11]
  <2>1. TAKE p \in o .. (o + length) - 1
  <2>2. p - 11 \in 1 .. Len(b)
    OBVIOUS
  <2> QED BY <2>2, <1>1
<1>3. \A p \in Nat : \A end : 12 <= p /\ NameAt(b, known, ends, p, name, end) => NameAt(c, more, goOn, p, name, end)
  BY NameKept
<1>4. c[o - 11] = b[o - 11]
  BY <1>2
<1>5. CASE type \in {"A", "AAAA", "other"}
  BY <1>4, <1>5 DEF DataAt
<1>6. CASE type \in {"CNAME", "PTR"}
  <2>1. NameAt(b, known, ends, o, name, o + length)
    BY <1>6 DEF DataAt
  <2> QED BY <2>1, <1>3, <1>6 DEF DataAt
<1>7. CASE type = "MX"
  <2>1. length >= 2 /\ NameAt(b, known, ends, o + 2, name, o + length)
    BY <1>7 DEF DataAt
  <2>2. o + 2 \in Nat /\ 12 <= o + 2
    OBVIOUS
  <2>3. NameAt(c, more, goOn, o + 2, name, o + length)
    BY <2>1, <2>2, NameKept
  <2> QED BY <2>1, <2>3, <1>7 DEF DataAt
<1>8. CASE type = "SOA"
  <2>1. PICK e \in o .. o + length : NameAt(b, known, ends, o, name, e)
                                     /\ NameAt(b, known, ends, e, name, o + length - 20)
    BY <1>8 DEF DataAt
  <2>2. e \in Nat /\ 12 <= e
    OBVIOUS
  <2>3. NameAt(c, more, goOn, o, name, e)
    BY <2>1, NameKept
  <2>4. NameAt(c, more, goOn, e, name, o + length - 20)
    BY <2>1, <2>2, NameKept
  <2>5. length >= 20
    BY <1>8 DEF DataAt
  <2> QED BY <2>3, <2>4, <2>5, <1>8 DEF DataAt
<1>9. CASE type = "TXT"
  <2>1. length = 6 /\ o + 4 \in o .. (o + length) - 1
    BY SMTT(30), <1>9 DEF DataAt
  <2>2. c[(o + 4) - 11] = b[(o + 4) - 11]
    BY <2>1, <1>2
  <2>3. Without("text", b, o + 1, o + 4) /\ Without("text", b, o + 5, o + 6)
    BY <1>9 DEF DataAt
  <2>4. Without("text", c, o + 1, o + 4)
    <3>1. o + 1 \in Nat /\ o + 4 \in Nat /\ 12 <= o + 1 /\ o + 4 <= 12 + Len(b)
      BY <2>1
    <3> QED BY <3>1, <2>3, WithoutKept
  <2>5. Without("text", c, o + 5, o + 6)
    <3>1. o + 5 \in Nat /\ o + 6 \in Nat /\ 12 <= o + 5 /\ o + 6 <= 12 + Len(b)
      BY <2>1
    <3> QED BY <3>1, <2>3, WithoutKept
  <2>6. b[o - 11] = [text |-> name, size |-> 3] /\ b[(o + 4) - 11] = [text |-> name, size |-> 1]
    BY <1>9 DEF DataAt
  <2> QED BY <2>1, <2>2, <2>4, <2>5, <2>6, <1>4, <1>9 DEF DataAt
<1> QED BY <1>5, <1>6, <1>7, <1>8, <1>9 DEF DataAt

LEMMA QuestionKept ==
  ASSUME NEW b \in Seq(DnsOctet), NEW c \in Seq(DnsOctet), NEW known, NEW more, NEW ends, NEW goOn,
         Extends(c, more, goOn, b, known, ends),
         NEW name, NEW o \in Nat, 12 <= o, NEW next, QuestionAt(b, known, ends, name, o, next)
  PROVE  QuestionAt(c, more, goOn, name, o, next)
<1>1. PICK e \in Nat : /\ NameAt(b, known, ends, o, name, e) /\ o < e
                       /\ next = e + 4 /\ next <= 12 + Len(b)
                       /\ Without("type", b, o, next) /\ Without("pointer", b, e - 1, next)
  BY DEF QuestionAt
<1>2. NameAt(c, more, goOn, o, name, e)
  BY <1>1, NameKept
<1>3. Without("type", c, o, next) /\ Without("pointer", c, e - 1, next)
  <2>1. next \in Nat /\ e - 1 \in Nat /\ 12 <= e - 1
    BY <1>1
  <2>2. Without("type", c, o, next)
    BY <1>1, <2>1, WithoutKept
  <2>3. Without("pointer", c, e - 1, next)
    BY <1>1, <2>1, WithoutKept
  <2> QED BY <2>2, <2>3
<1>4. next <= 12 + Len(c)
  <2>1. Len(b) <= Len(c)
    BY DEF Extends
  <2> QED BY <1>1, <2>1
<1> QED BY <1>1, <1>2, <1>3, <1>4 DEF QuestionAt

LEMMA RecordKept ==
  ASSUME NEW b \in Seq(DnsOctet), NEW c \in Seq(DnsOctet), NEW known, NEW more, NEW ends, NEW goOn,
         Extends(c, more, goOn, b, known, ends),
         NEW record, NEW o \in Nat, 12 <= o, NEW next, RecordAt(b, known, ends, record, o, next)
  PROVE  RecordAt(c, more, goOn, record, o, next)
<1>1. PICK e \in Nat, length \in Nat \ {0}, name \in Names :
    /\ NameAt(b, known, ends, o, record.name, e) /\ o < e
    /\ b[e - 11] = [type |-> record.type, length |-> length]
    /\ next = (e + 10) + length /\ next <= 12 + Len(b)
    /\ record.data = Dns!Says(record.type, name)
    /\ DataAt(b, known, ends, record.type, name, e + 10, length)
    /\ Without("type", b, o, e) /\ Without("type", b, e + 1, next)
    /\ Without("pointer", b, e - 1, e + 10)
  BY DEF RecordAt
<1>2. NameAt(c, more, goOn, o, record.name, e)
  BY <1>1, NameKept
<1>3. Len(b) <= Len(c) /\ \A i \in 1 .. Len(b) : c[i] = b[i]
  BY DEF Extends
<1>4. PICK p \in Nat : p = e + 10 /\ 12 <= p /\ p + length <= 12 + Len(b)
  BY <1>1
<1>5. DataAt(c, more, goOn, record.type, name, e + 10, length)
  <2>1. DataAt(b, known, ends, record.type, name, p, length)
    BY <1>1, <1>4
  <2>2. DataAt(c, more, goOn, record.type, name, p, length)
    BY <1>4, <2>1, DataKept
  <2> QED BY <1>4, <2>2
<1>6. c[e - 11] = b[e - 11]
  <2>1. e - 11 \in 1 .. Len(b)
    BY SMTT(30), <1>1
  <2> QED BY <2>1, <1>3
<1>7. /\ Without("type", c, o, e) /\ Without("type", c, e + 1, next)
      /\ Without("pointer", c, e - 1, e + 10)
  <2>1. e <= 12 + Len(b) /\ next \in Nat /\ e + 1 \in Nat /\ 12 <= e + 1
    BY <1>1
  <2>2. Without("type", c, o, e)
    BY <1>1, <2>1, WithoutKept
  <2>3. Without("type", c, e + 1, next)
    BY <1>1, <2>1, WithoutKept
  <2>4. e - 1 \in Nat /\ 12 <= e - 1 /\ e + 10 \in Nat /\ e + 10 <= 12 + Len(b)
    BY <1>1
  <2>5. Without("pointer", c, e - 1, e + 10)
    BY <1>1, <2>4, WithoutKept
  <2> QED BY <2>2, <2>3, <2>5
<1>8. next <= 12 + Len(c)
  BY <1>1, <1>3
<1> QED BY <1>1, <1>2, <1>5, <1>6, <1>7, <1>8 DEF RecordAt
LEMMA QuestionsKept ==
  ASSUME NEW b \in Seq(DnsOctet), NEW c \in Seq(DnsOctet), NEW known, NEW more, NEW ends, NEW goOn,
         Extends(c, more, goOn, b, known, ends),
         NEW S, NEW list \in Seq(S), NEW from, NEW to, QuestionsAt(b, known, ends, list, from, to)
  PROVE  QuestionsAt(c, more, goOn, list, from, to)
<1>1. PICK at \in [0 .. Len(list) -> Place] :
    /\ at[0] = from /\ at[Len(list)] = to
    /\ \A i \in 1 .. Len(list) : QuestionAt(b, known, ends, list[i], at[i - 1], at[i])
  BY DEF QuestionsAt
<1>2. ASSUME NEW i \in 1 .. Len(list) PROVE QuestionAt(c, more, goOn, list[i], at[i - 1], at[i])
  <2>1. i - 1 \in 0 .. Len(list)
    OBVIOUS
  <2>2. PICK o \in Nat : o = at[i - 1] /\ 12 <= o
    BY <1>1, <2>1 DEF Place
  <2>3. QuestionAt(b, known, ends, list[i], o, at[i])
    BY <1>1, <2>2
  <2>4. QuestionAt(c, more, goOn, list[i], o, at[i])
    BY <2>2, <2>3, QuestionKept
  <2> QED BY <2>2, <2>4
<1> QED BY <1>1, <1>2 DEF QuestionsAt

LEMMA QuestionsAppend ==
  ASSUME NEW b, NEW known, NEW ends, NEW S, NEW list \in Seq(S), NEW x \in S,
         NEW from, NEW to, QuestionsAt(b, known, ends, list, from, to),
         NEW next \in Place, QuestionAt(b, known, ends, x, to, next)
  PROVE  QuestionsAt(b, known, ends, Append(list, x), from, next)
<1>1. PICK n \in Nat : n = Len(list)
  OBVIOUS
<1>2. PICK at \in [0 .. n -> Place] :
    /\ at[0] = from /\ at[n] = to
    /\ \A i \in 1 .. n : QuestionAt(b, known, ends, list[i], at[i - 1], at[i])
  BY <1>1 DEF QuestionsAt
<1> DEFINE new == [i \in 0 .. n + 1 |-> IF i <= n THEN at[i] ELSE next]
<1>3. /\ Len(Append(list, x)) = n + 1 /\ Append(list, x)[n + 1] = x
      /\ \A i \in 1 .. n : Append(list, x)[i] = list[i]
  BY <1>1
<1>4. new \in [0 .. n + 1 -> Place] /\ new[0] = from /\ new[n + 1] = next
  BY <1>2
<1>5. ASSUME NEW i \in 1 .. n + 1 PROVE QuestionAt(b, known, ends, Append(list, x)[i], new[i - 1], new[i])
  <2>1. CASE i = n + 1
    <3>1. new[i - 1] = to /\ new[i] = next
      <4>1. i - 1 = n /\ n \in 0 .. n + 1 /\ n <= n /\ ~ i <= n /\ i \in 0 .. n + 1
        BY <2>1
      <4> QED BY <4>1, <1>2
    <3> QED BY <2>1, <3>1, <1>3
  <2>2. CASE i # n + 1
    <3>1. i \in 1 .. n /\ i <= n /\ i - 1 <= n /\ i \in 0 .. n + 1 /\ i - 1 \in 0 .. n + 1
      BY <2>2
    <3>2. new[i - 1] = at[i - 1] /\ new[i] = at[i]
      BY <3>1
    <3> QED BY <3>1, <3>2, <1>2, <1>3
  <2> QED BY <2>1, <2>2
<1> HIDE DEF new
<1>6. new \in [0 .. Len(Append(list, x)) -> Place] /\ new[Len(Append(list, x))] = next
  BY <1>3, <1>4
<1> QED BY <1>3, <1>4, <1>5, <1>6 DEF QuestionsAt

LEMMA NoQuestions ==
  ASSUME NEW b, NEW known, NEW ends, NEW o \in Place
  PROVE  /\ QuestionsAt(b, known, ends, << >>, o, o)
         /\ \A from, to : QuestionsAt(b, known, ends, << >>, from, to) => from = to /\ from \in Place
<1>1. [i \in 0 .. 0 |-> o] \in [0 .. Len(<< >>) -> Place]
  OBVIOUS
<1>2. Len(<< >>) = 0 /\ 1 .. 0 = {}
  OBVIOUS
<1>3. QuestionsAt(b, known, ends, << >>, o, o)
  <2>1. [i \in 0 .. 0 |-> o][0] = o
    OBVIOUS
  <2>2. [i \in 0 .. 0 |-> o][Len(<< >>)] = o
    BY <2>1, <1>2
  <2>3. \A i \in 1 .. Len(<< >>) : FALSE
    BY <1>2
  <2> QED BY <1>1, <2>1, <2>2, <2>3 DEF QuestionsAt
<1>4. ASSUME NEW from, NEW to, QuestionsAt(b, known, ends, << >>, from, to) PROVE from = to /\ from \in Place
  <2>1. PICK at \in [0 .. Len(<< >>) -> Place] : at[0] = from /\ at[Len(<< >>)] = to
    BY <1>4 DEF QuestionsAt
  <2>2. at \in [0 .. 0 -> Place] /\ at[0] = to
    BY <2>1, <1>2
  <2> QED BY <2>1, <2>2
<1> QED BY <1>3, <1>4

LEMMA RecordsKept ==
  ASSUME NEW b \in Seq(DnsOctet), NEW c \in Seq(DnsOctet), NEW known, NEW more, NEW ends, NEW goOn,
         Extends(c, more, goOn, b, known, ends),
         NEW S, NEW list \in Seq(S), NEW from, NEW to, RecordsAt(b, known, ends, list, from, to)
  PROVE  RecordsAt(c, more, goOn, list, from, to)
<1>1. PICK at \in [0 .. Len(list) -> Place] :
    /\ at[0] = from /\ at[Len(list)] = to
    /\ \A i \in 1 .. Len(list) : RecordAt(b, known, ends, list[i], at[i - 1], at[i])
  BY DEF RecordsAt
<1>2. ASSUME NEW i \in 1 .. Len(list) PROVE RecordAt(c, more, goOn, list[i], at[i - 1], at[i])
  <2>1. i - 1 \in 0 .. Len(list)
    OBVIOUS
  <2>2. PICK o \in Nat : o = at[i - 1] /\ 12 <= o
    BY <1>1, <2>1 DEF Place
  <2>3. RecordAt(b, known, ends, list[i], o, at[i])
    BY <1>1, <2>2
  <2>4. RecordAt(c, more, goOn, list[i], o, at[i])
    BY <2>2, <2>3, RecordKept
  <2> QED BY <2>2, <2>4
<1> QED BY <1>1, <1>2 DEF RecordsAt

LEMMA RecordsAppend ==
  ASSUME NEW b, NEW known, NEW ends, NEW S, NEW list \in Seq(S), NEW x \in S,
         NEW from, NEW to, RecordsAt(b, known, ends, list, from, to),
         NEW next \in Place, RecordAt(b, known, ends, x, to, next)
  PROVE  RecordsAt(b, known, ends, Append(list, x), from, next)
<1>1. PICK n \in Nat : n = Len(list)
  OBVIOUS
<1>2. PICK at \in [0 .. n -> Place] :
    /\ at[0] = from /\ at[n] = to
    /\ \A i \in 1 .. n : RecordAt(b, known, ends, list[i], at[i - 1], at[i])
  BY <1>1 DEF RecordsAt
<1> DEFINE new == [i \in 0 .. n + 1 |-> IF i <= n THEN at[i] ELSE next]
<1>3. /\ Len(Append(list, x)) = n + 1 /\ Append(list, x)[n + 1] = x
      /\ \A i \in 1 .. n : Append(list, x)[i] = list[i]
  BY <1>1
<1>4. new \in [0 .. n + 1 -> Place] /\ new[0] = from /\ new[n + 1] = next
  BY <1>2
<1>5. ASSUME NEW i \in 1 .. n + 1 PROVE RecordAt(b, known, ends, Append(list, x)[i], new[i - 1], new[i])
  <2>1. CASE i = n + 1
    <3>1. new[i - 1] = to /\ new[i] = next
      <4>1. i - 1 = n /\ n \in 0 .. n + 1 /\ n <= n /\ ~ i <= n /\ i \in 0 .. n + 1
        BY <2>1
      <4> QED BY <4>1, <1>2
    <3> QED BY <2>1, <3>1, <1>3
  <2>2. CASE i # n + 1
    <3>1. i \in 1 .. n /\ i <= n /\ i - 1 <= n /\ i \in 0 .. n + 1 /\ i - 1 \in 0 .. n + 1
      BY <2>2
    <3>2. new[i - 1] = at[i - 1] /\ new[i] = at[i]
      BY <3>1
    <3> QED BY <3>1, <3>2, <1>2, <1>3
  <2> QED BY <2>1, <2>2
<1> HIDE DEF new
<1>6. new \in [0 .. Len(Append(list, x)) -> Place] /\ new[Len(Append(list, x))] = next
  BY <1>3, <1>4
<1> QED BY <1>3, <1>4, <1>5, <1>6 DEF RecordsAt

LEMMA NoRecords ==
  ASSUME NEW b, NEW known, NEW ends, NEW o \in Place
  PROVE  /\ RecordsAt(b, known, ends, << >>, o, o)
         /\ \A from, to : RecordsAt(b, known, ends, << >>, from, to) => from = to /\ from \in Place
<1>1. [i \in 0 .. 0 |-> o] \in [0 .. Len(<< >>) -> Place]
  OBVIOUS
<1>2. Len(<< >>) = 0 /\ 1 .. 0 = {}
  OBVIOUS
<1>3. RecordsAt(b, known, ends, << >>, o, o)
  <2>1. [i \in 0 .. 0 |-> o][0] = o
    OBVIOUS
  <2>2. [i \in 0 .. 0 |-> o][Len(<< >>)] = o
    BY <2>1, <1>2
  <2>3. \A i \in 1 .. Len(<< >>) : FALSE
    BY <1>2
  <2> QED BY <1>1, <2>1, <2>2, <2>3 DEF RecordsAt
<1>4. ASSUME NEW from, NEW to, RecordsAt(b, known, ends, << >>, from, to) PROVE from = to /\ from \in Place
  <2>1. PICK at \in [0 .. Len(<< >>) -> Place] : at[0] = from /\ at[Len(<< >>)] = to
    BY <1>4 DEF RecordsAt
  <2>2. at \in [0 .. 0 -> Place] /\ at[0] = to
    BY <2>1, <1>2
  <2> QED BY <2>1, <2>2
<1> QED BY <1>3, <1>4

\* Octets behind those of b that belong to no name.
LEMMA OthersAppended ==
  ASSUME NEW b \in Seq(DnsOctet), NEW x \in Seq(DnsOctet), NEW known, NEW ends, Known(b, known, ends),
         \A j \in 1 .. Len(x) : "label" \notin DOMAIN x[j] /\ "pointer" \notin DOMAIN x[j]
  PROVE  /\ b \o x \in Seq(DnsOctet) /\ Len(b \o x) = Len(b) + Len(x)
         /\ \A j \in 1 .. Len(x) : (b \o x)[Len(b) + j] = x[j]
         /\ Extends(b \o x, known, ends, b, known, ends) /\ Known(b \o x, known, ends)
<1> DEFINE c == b \o x
<1>1. /\ c \in Seq(DnsOctet) /\ Len(c) = Len(b) + Len(x)
      /\ \A j \in 1 .. Len(b) : c[j] = b[j]
      /\ \A j \in 1 .. Len(x) : c[Len(b) + j] = x[j]
  BY Concatenation
<1> HIDE DEF c
<1>2. Len(b) \in Nat /\ Len(x) \in Nat /\ Len(b) <= Len(c)
  BY <1>1
<1>3. Extends(c, known, ends, b, known, ends)
  BY <1>1, <1>2 DEF Extends
<1>4. ASSUME NEW i \in Len(b) + 1 .. Len(c) PROVE "label" \notin DOMAIN c[i] /\ "pointer" \notin DOMAIN c[i]
  <2>1. PICK j \in 1 .. Len(x) : i = Len(b) + j
    <3>1. i - Len(b) \in 1 .. Len(x) /\ i = Len(b) + (i - Len(b))
      BY <1>1, <1>2
    <3> QED BY <3>1
  <2> QED BY <2>1, <1>1
<1>5. Known(c, known, ends)
  BY <1>1, <1>3, <1>4, KnownKept
<1> QED BY <1>1, <1>3, <1>5 DEF c

LEMMA ExtendsFurther ==
  ASSUME NEW b \in Seq(DnsOctet), NEW c \in Seq(DnsOctet), NEW d \in Seq(DnsOctet),
         NEW known, NEW ends, NEW more, NEW goOn, NEW most, NEW last,
         Extends(c, more, goOn, b, known, ends), Extends(d, most, last, c, more, goOn)
  PROVE  Extends(d, most, last, b, known, ends)
<1>1. Len(b) \in Nat /\ Len(c) \in Nat /\ Len(d) \in Nat
  OBVIOUS
<1>2. Len(b) <= Len(c) /\ Len(c) <= Len(d)
  BY DEF Extends
<1>3. \A i \in 1 .. Len(b) : d[i] = b[i]
  BY <1>1, <1>2 DEF Extends
<1> QED BY <1>1, <1>2, <1>3 DEF Extends

\* A field that is no name, written at the end of b.
FieldIsWritten(b, known, ends, first, size) ==
  LET c == b \o Field(first, size) IN
  /\ Field(first, size) \in Seq(DnsOctet) /\ Len(Field(first, size)) = size
  /\ c \in Seq(DnsOctet) /\ Len(c) = Len(b) + size /\ c[Len(b) + 1] = first
  /\ Extends(c, known, ends, b, known, ends) /\ Known(c, known, ends)
  /\ Without("type", c, 13 + Len(b), 12 + Len(c))
  /\ Without("text", c, 13 + Len(b), 12 + Len(c))
  /\ "type" \notin DOMAIN first => Without("type", c, 12 + Len(b), 12 + Len(c))
  /\ Without("pointer", c, 12 + Len(b), 12 + Len(c))

LEMMA FieldWritten ==
  ASSUME NEW b \in Seq(DnsOctet), NEW known, NEW ends, Known(b, known, ends),
         NEW first \in DnsOctet, "label" \notin DOMAIN first, "pointer" \notin DOMAIN first,
         NEW size \in Nat \ {0}
  PROVE  FieldIsWritten(b, known, ends, first, size)
<1> DEFINE x == Field(first, size)
           c == b \o x
<1>1. Inside \in DnsOctet /\ DOMAIN Inside = {"inside"}
  BY DEF DnsOctet, Inside
<1>2. /\ x \in Seq(DnsOctet) /\ Len(x) = size
      /\ \A j \in 1 .. size : x[j] = IF j = 1 THEN first ELSE Inside
  BY <1>1, Fields, ZenonT(30)
<1> HIDE DEF x
<1>3. \A j \in 1 .. Len(x) : "label" \notin DOMAIN x[j] /\ "pointer" \notin DOMAIN x[j]
  BY <1>1, <1>2
<1>4. /\ c \in Seq(DnsOctet) /\ Len(c) = Len(b) + Len(x)
      /\ \A j \in 1 .. Len(x) : c[Len(b) + j] = x[j]
      /\ Extends(c, known, ends, b, known, ends) /\ Known(c, known, ends)
  BY <1>2, <1>3, OthersAppended
<1> HIDE DEF c
<1>5. c[Len(b) + 1] = first
  <2>1. 1 \in 1 .. size
    OBVIOUS
  <2> QED BY <2>1, <1>2, <1>4
<1>6. PICK l \in Nat : l = Len(b)
  OBVIOUS
<1>7. Len(c) = l + size
  BY <1>2, <1>4, <1>6
<1>8. ASSUME NEW o \in 12 + l .. 11 + (l + size)
      PROVE  \E j \in 1 .. size : c[o - 11] = x[j] /\ (o # 12 + l => j # 1) /\ (o = 12 + l => j = 1)
  <2>1. PICK j \in 1 .. size : o - 11 = l + j /\ (o # 12 + l => j # 1) /\ (o = 12 + l => j = 1)
    <3>1. (o - 11) - l \in 1 .. size /\ o - 11 = l + ((o - 11) - l)
          /\ (o # 12 + l => (o - 11) - l # 1) /\ (o = 12 + l => (o - 11) - l = 1)
      OBVIOUS
    <3> QED BY <3>1
  <2>2. c[l + j] = x[j]
    BY <1>2, <1>4, <1>6
  <2> QED BY <2>1, <2>2
<1>9. ASSUME NEW o \in 13 + l .. 11 + (l + size)
      PROVE  "type" \notin DOMAIN c[o - 11] /\ "text" \notin DOMAIN c[o - 11]
  <2>1. o \in 12 + l .. 11 + (l + size) /\ o # 12 + l
    OBVIOUS
  <2>2. PICK j \in 1 .. size : c[o - 11] = x[j] /\ j # 1
    BY <2>1, <1>8
  <2> QED BY <2>2, <1>1, <1>2
<1>10. ASSUME "type" \notin DOMAIN first, NEW o \in 12 + l .. 11 + (l + size)
       PROVE  "type" \notin DOMAIN c[o - 11]
  <2>1. PICK j \in 1 .. size : c[o - 11] = x[j]
    BY <1>8
  <2> QED BY <2>1, <1>1, <1>2, <1>10
<1>11. Without("type", c, 13 + Len(b), 12 + Len(c)) /\ Without("text", c, 13 + Len(b), 12 + Len(c))
  <2>1. (12 + Len(c)) - 1 = 11 + (l + size) /\ 13 + Len(b) = 13 + l
    BY <1>6, <1>7
  <2> QED BY <2>1, <1>9 DEF Without
<1>12. "type" \notin DOMAIN first => Without("type", c, 12 + Len(b), 12 + Len(c))
  <2>1. (12 + Len(c)) - 1 = 11 + (l + size) /\ 12 + Len(b) = 12 + l
    BY <1>6, <1>7
  <2> QED BY <2>1, <1>10 DEF Without
<1>13. Without("pointer", c, 12 + Len(b), 12 + Len(c))
  <2>1. (12 + Len(c)) - 1 = 11 + (l + size) /\ 12 + Len(b) = 12 + l
    BY <1>6, <1>7
  <2>2. ASSUME NEW o \in 12 + l .. 11 + (l + size) PROVE "pointer" \notin DOMAIN c[o - 11]
    <3>1. PICK j \in 1 .. size : c[o - 11] = x[j]
      BY <1>8
    <3> QED BY <3>1, <1>2, <1>3
  <2> QED BY <2>1, <2>2 DEF Without
<1> QED BY <1>2, <1>4, <1>5, <1>7, <1>6, <1>11, <1>12, <1>13 DEF FieldIsWritten, c, x

LEMMA MoreWritings ==
  ASSUME NEW name, NEW offset, NEW known, NEW more, known \subseteq more,
         NEW w \in Dns!Writings(name, offset, known)
  PROVE  w \in Dns!Writings(name, offset, more)
BY DEF Dns!Writings

DataIsWritten(b, known, ends, type, name, d) ==
  LET c == b \o d.octets
      more == known \cup d.learned
  IN /\ d.octets \in Seq(DnsOctet) /\ Len(d.octets) \in Nat \ {0}
     /\ c \in Seq(DnsOctet) /\ Len(c) = Len(b) + Len(d.octets)
     /\ \E goOn : /\ Extends(c, more, goOn, b, known, ends) /\ Known(c, more, goOn)
                  /\ DataAt(c, more, goOn, type, name, 12 + Len(b), Len(d.octets))
     /\ Without("type", c, 12 + Len(b), 12 + Len(c))

LEMMA DataWritten ==
  ASSUME NEW b \in Seq(DnsOctet), NEW known, NEW ends, Known(b, known, ends),
         NEW type \in Dns!Type, NEW name \in Names,
         NEW d \in Dns!DataWritings(type, name, 12 + Len(b), known)
  PROVE  DataIsWritten(b, known, ends, type, name, d)
<1>1. PICK off \in Nat, l \in Nat : l = Len(b) /\ off = 12 + l
  OBVIOUS
<1>2. name \in Seq(Labels)
  BY DnsAssumption
<1>3. ASSUME NEW first \in DnsOctet, "label" \notin DOMAIN first, "pointer" \notin DOMAIN first,
             "type" \notin DOMAIN first,
             NEW size \in Nat \ {0}, d.octets = Field(first, size), d.learned = {},
             \A c : c[l + 1] = first => DataAt(c, known, ends, type, name, off, size)
      PROVE  DataIsWritten(b, known, ends, type, name, d)
  <2>1. FieldIsWritten(b, known, ends, first, size)
    BY <1>3, FieldWritten
  <2>2. known \cup d.learned = known
    BY <1>3
  <2>3. DataAt(b \o d.octets, known, ends, type, name, 12 + Len(b), Len(d.octets))
    BY <2>1, <1>1, <1>3 DEF FieldIsWritten
  <2> QED BY <2>1, <2>2, <2>3, <1>3 DEF FieldIsWritten, DataIsWritten
<1>4. CASE type = "A"
  <2> DEFINE first == [address |-> name]
  <2>1. d.octets = Field(first, 4) /\ d.learned = {}
    BY <1>4, DnsOctets DEF Dns!DataWritings
  <2>2. first \in DnsOctet /\ DOMAIN first = {"address"}
    BY DEF DnsOctet
  <2>3. \A c : c[l + 1] = first => DataAt(c, known, ends, type, name, off, 4)
    <3>1. off - 11 = l + 1
      BY <1>1
    <3> QED BY <3>1, <1>4 DEF DataAt
  <2> HIDE DEF first
  <2>4. 4 \in Nat \ {0}
    OBVIOUS
  <2> QED BY <2>1, <2>2, <2>3, <2>4, <1>3
<1>5. CASE type = "AAAA"
  <2> DEFINE first == [address |-> name]
  <2>1. d.octets = Field(first, 16) /\ d.learned = {}
    BY <1>5, DnsOctets DEF Dns!DataWritings
  <2>2. first \in DnsOctet /\ DOMAIN first = {"address"}
    BY DEF DnsOctet
  <2>3. \A c : c[l + 1] = first => DataAt(c, known, ends, type, name, off, 16)
    <3>1. off - 11 = l + 1
      BY <1>1
    <3> QED BY <3>1, <1>5 DEF DataAt
  <2> HIDE DEF first
  <2>4. 16 \in Nat \ {0}
    OBVIOUS
  <2> QED BY <2>1, <2>2, <2>3, <2>4, <1>3
<1>6. CASE type = "other"
  <2> DEFINE first == [opaque |-> name]
  <2>1. d.octets = Field(first, 3) /\ d.learned = {}
    BY <1>6, DnsOctets DEF Dns!DataWritings
  <2>2. first \in DnsOctet /\ DOMAIN first = {"opaque"}
    BY DEF DnsOctet
  <2>3. \A c : c[l + 1] = first => DataAt(c, known, ends, type, name, off, 3)
    <3>1. off - 11 = l + 1
      BY <1>1
    <3> QED BY <3>1, <1>6 DEF DataAt
  <2> HIDE DEF first
  <2>4. 3 \in Nat \ {0}
    OBVIOUS
  <2> QED BY <2>1, <2>2, <2>3, <2>4, <1>3
<1>7. CASE type = "TXT"
  <2> DEFINE first == [text |-> name, size |-> 3]
             second == [text |-> name, size |-> 1]
             x == Field(first, 4)
             y == Field(second, 2)
             c == b \o x
  <2>1. d.octets = x \o y /\ d.learned = {}
    <3>1. 1 + 3 = 4 /\ 1 + 1 = 2
      OBVIOUS
    <3>2. Dns!String(name, 3) = x /\ Dns!String(name, 1) = y
      BY <3>1, DnsOctets DEF Dns!String
    <3> HIDE DEF x, y
    <3>3. d \in {[octets |-> Dns!String(name, 3) \o Dns!String(name, 1), learned |-> {}]}
      BY <1>7 DEF Dns!DataWritings
    <3> QED BY <3>2, <3>3
  <2>2. /\ first \in DnsOctet /\ DOMAIN first = {"text", "size"}
        /\ second \in DnsOctet /\ DOMAIN second = {"text", "size"}
    BY DEF DnsOctet
  <2> HIDE DEF first, second
  <2>3. FieldIsWritten(b, known, ends, first, 4)
    <3>1. 4 \in Nat \ {0}
      OBVIOUS
    <3> QED BY <3>1, <2>2, FieldWritten
  <2>4. /\ x \in Seq(DnsOctet) /\ Len(x) = 4 /\ c \in Seq(DnsOctet) /\ Len(c) = l + 4 /\ c[l + 1] = first
        /\ Extends(c, known, ends, b, known, ends) /\ Known(c, known, ends)
        /\ Without("type", c, 12 + l, 12 + Len(c)) /\ Without("text", c, 13 + l, 12 + Len(c))
    BY <2>2, <2>3, <1>1 DEF FieldIsWritten
  <2> HIDE DEF c
  <2>5. FieldIsWritten(c, known, ends, second, 2)
    <3>1. 2 \in Nat \ {0}
      OBVIOUS
    <3> QED BY <3>1, <2>2, <2>4, FieldWritten
  <2> DEFINE e == c \o y
  <2>6. /\ y \in Seq(DnsOctet) /\ Len(y) = 2 /\ e \in Seq(DnsOctet) /\ Len(e) = Len(c) + 2 /\ e[Len(c) + 1] = second
        /\ Extends(e, known, ends, c, known, ends) /\ Known(e, known, ends)
        /\ Without("type", e, 12 + Len(c), 12 + Len(e)) /\ Without("text", e, 13 + Len(c), 12 + Len(e))
    BY <2>2, <2>5 DEF FieldIsWritten
  <2> HIDE DEF e, x, y
  <2>7. b \o d.octets = e
    <3>1. (b \o x) \o y = b \o (x \o y)
      <4>1. x \in Seq(DnsOctet) /\ y \in Seq(DnsOctet)
        BY <2>4, <2>6
      <4> QED BY <4>1
    <3> QED BY <3>1, <2>1 DEF c, e
  <2>8. d.octets \in Seq(DnsOctet) /\ Len(d.octets) = 6
    <3>1. x \o y \in Seq(DnsOctet) /\ Len(x \o y) = Len(x) + Len(y)
      BY <2>4, <2>6, Concatenation
    <3> QED BY <3>1, <2>1, <2>4, <2>6
  <2>9. Extends(e, known, ends, b, known, ends)
    BY <2>4, <2>6, ExtendsFurther
  <2>10. Without("type", e, 12 + Len(b), 12 + Len(e))
    <3>1. Without("type", e, 12 + l, 12 + Len(c))
      <4>1. 12 + l \in Nat /\ 12 + Len(c) \in Nat /\ 12 <= 12 + l /\ 12 + Len(c) <= 12 + Len(c)
        BY <2>4
      <4> QED BY <4>1, <2>4, <2>6, WithoutKept
    <3>2. 12 + l \in Nat /\ 12 + Len(c) \in Nat /\ 12 + Len(e) \in Nat
      BY <2>4, <2>6
    <3> QED BY <3>1, <3>2, <2>6, <1>1, WithoutJoined
  <2>11. DataAt(e, known, ends, type, name, 12 + Len(b), 6)
    <3>1. e[l + 1] = first
      <4>1. l + 1 \in 1 .. Len(c)
        BY <2>4
      <4> QED BY <4>1, <2>4, <2>6 DEF Extends
    <3>2. e[l + 5] = second
      BY <2>4, <2>6
    <3>3. off - 11 = l + 1 /\ (off + 4) - 11 = l + 5 /\ 12 + Len(b) = off
      BY <1>1
    <3>4. Without("text", e, off + 1, off + 4)
      <4>1. /\ 13 + l = off + 1 /\ 12 + Len(c) = off + 4 /\ 13 + l \in Nat /\ 12 + Len(c) \in Nat
            /\ 12 <= 13 + l /\ 12 + Len(c) <= 12 + Len(c)
        BY <2>4, <1>1
      <4>2. Without("text", e, 13 + l, 12 + Len(c))
        BY <4>1, <2>4, <2>6, WithoutKept
      <4> QED BY <4>1, <4>2
    <3>5. Without("text", e, off + 5, off + 6)
      <4>1. 13 + Len(c) = off + 5 /\ 12 + Len(e) = off + 6
        BY <2>4, <2>6, <1>1
      <4> QED BY <4>1, <2>6
    <3> QED BY <3>1, <3>2, <3>3, <3>4, <3>5, <1>7 DEF DataAt, first, second
  <2>12. known \cup d.learned = known
    BY <2>1
  <2>13. Len(e) = Len(b) + 6
    BY <2>4, <2>6, <1>1
  <2>14. Len(d.octets) \in Nat \ {0} /\ Len(e) = Len(b) + Len(d.octets)
    BY <2>8, <2>13
  <2>15. DataAt(e, known, ends, type, name, 12 + Len(b), Len(d.octets))
    BY <2>8, <2>11
  <2> HIDE DEF e
  <2> QED BY <2>6, <2>7, <2>8, <2>9, <2>10, <2>12, <2>14, <2>15 DEF DataIsWritten
<1>8. CASE type \in {"CNAME", "PTR"}
  <2>1. PICK w \in Dns!Writings(name, off, known) : d.octets = w.octets /\ d.learned = w.learned
    <3>1. PICK w \in Dns!Writings(name, off + Len(<< >>), known) : d.octets = << >> \o w.octets /\ d.learned = w.learned
      BY <1>1, <1>8 DEF Dns!DataWritings
    <3>2. off + Len(<< >>) = off
      OBVIOUS
    <3>3. NameIsWritten(b, known, ends, name, w)
      BY <3>1, <3>2, <1>1, <1>2, NameWritten
    <3>4. w.octets \in Seq(DnsOctet)
      BY <3>3 DEF NameIsWritten
    <3>5. << >> \o w.octets = w.octets
      BY <3>4
    <3> QED BY <3>1, <3>2, <3>5
  <2>2. NameIsWritten(b, known, ends, name, w)
    BY <2>1, <1>1, <1>2, NameWritten
  <2> DEFINE c == b \o w.octets
             more == known \cup w.learned
             goOn == Learned(b, known, ends, w)
  <2>3. /\ c \in Seq(DnsOctet) /\ Len(c) = Len(b) + Len(w.octets)
        /\ Extends(c, more, goOn, b, known, ends) /\ Known(c, more, goOn)
        /\ NameAt(c, more, goOn, 12 + Len(b), name, 12 + Len(c))
        /\ w.octets \in Seq(DnsOctet) /\ Len(w.octets) \in Nat \ {0}
        /\ Without("type", c, 12 + Len(b), 12 + Len(c))
    <3>1. \A o \in 12 + Len(b) .. 11 + Len(c) : "type" \notin DOMAIN c[o - 11]
      BY <2>2 DEF NameIsWritten
    <3>2. Len(c) = Len(b) + Len(w.octets) /\ Len(w.octets) \in Nat
      BY <2>2 DEF NameIsWritten
    <3>3. (12 + Len(c)) - 1 = 11 + Len(c)
      BY <3>2
    <3>4. Without("type", c, 12 + Len(b), 12 + Len(c))
      BY <3>1, <3>3 DEF Without
    <3> QED BY <2>2, <3>4 DEF NameIsWritten
  <2> HIDE DEF c, more, goOn
  <2>4. DataAt(c, more, goOn, type, name, 12 + Len(b), Len(d.octets))
    <3>1. (12 + Len(b)) + Len(d.octets) = 12 + Len(c)
      <4>1. PICK p \in Nat : p = Len(w.octets)
        BY <2>3
      <4>2. Len(c) = l + p /\ Len(d.octets) = p /\ Len(b) = l
        BY <4>1, <2>1, <2>3, <1>1
      <4> QED BY <4>2
    <3> QED BY <3>1, <2>3, <1>8 DEF DataAt
  <2> QED BY <2>1, <2>3, <2>4 DEF DataIsWritten, c, more
<1>9. CASE type = "MX"
  <2> DEFINE first == [preference |-> 1]
             x == Field(first, 2)
             a == b \o x
  <2>1. PICK w \in Dns!Writings(name, off + Len(x), known) : d.octets = x \o w.octets /\ d.learned = w.learned
    <3>1. Dns!Field([preference |-> 1], 2) = x
      BY DnsOctets
    <3> QED BY <3>1, <1>1, <1>9 DEF Dns!DataWritings
  <2>2. first \in DnsOctet /\ DOMAIN first = {"preference"}
    BY DEF DnsOctet
  <2> HIDE DEF first
  <2>3. FieldIsWritten(b, known, ends, first, 2)
    <3>1. 2 \in Nat \ {0}
      OBVIOUS
    <3> QED BY <3>1, <2>2, FieldWritten
  <2>4. /\ x \in Seq(DnsOctet) /\ Len(x) = 2 /\ a \in Seq(DnsOctet) /\ Len(a) = l + 2
        /\ Extends(a, known, ends, b, known, ends) /\ Known(a, known, ends)
        /\ Without("type", a, 12 + l, 12 + Len(a))
    BY <2>2, <2>3, <1>1 DEF FieldIsWritten
  <2> HIDE DEF a, x
  <2>5. NameIsWritten(a, known, ends, name, w)
    <3>1. off + Len(x) = 12 + Len(a)
      BY <2>4, <1>1
    <3> QED BY <3>1, <2>1, <2>4, <1>2, NameWritten
  <2> DEFINE c == a \o w.octets
             more == known \cup w.learned
             goOn == Learned(a, known, ends, w)
  <2>6. /\ c \in Seq(DnsOctet) /\ Len(c) = Len(a) + Len(w.octets)
        /\ Extends(c, more, goOn, a, known, ends) /\ Known(c, more, goOn)
        /\ NameAt(c, more, goOn, 12 + Len(a), name, 12 + Len(c))
        /\ w.octets \in Seq(DnsOctet) /\ Len(w.octets) \in Nat \ {0}
        /\ Without("type", c, 12 + Len(a), 12 + Len(c))
    <3>1. \A o \in 12 + Len(a) .. 11 + Len(c) : "type" \notin DOMAIN c[o - 11]
      BY <2>5 DEF NameIsWritten
    <3>2. Len(c) = Len(a) + Len(w.octets) /\ Len(w.octets) \in Nat
      BY <2>5 DEF NameIsWritten
    <3>3. (12 + Len(c)) - 1 = 11 + Len(c)
      <4>1. c \in Seq(DnsOctet)
        BY <2>5 DEF NameIsWritten
      <4> HIDE DEF c
      <4>2. Len(c) \in Nat
        BY <4>1
      <4> QED BY <4>2
    <3>4. Without("type", c, 12 + Len(a), 12 + Len(c))
      BY <3>1, <3>3 DEF Without
    <3> QED BY <2>5, <3>4 DEF NameIsWritten
  <2> HIDE DEF c, more, goOn
  <2>7. b \o d.octets = c
    <3>1. (b \o x) \o w.octets = b \o (x \o w.octets)
      <4>1. x \in Seq(DnsOctet) /\ w.octets \in Seq(DnsOctet)
        BY <2>4, <2>6
      <4>2. PICK q \in Seq(DnsOctet) : q = w.octets
        BY <4>1
      <4>3. (b \o x) \o q = b \o (x \o q)
        BY SMTT(30), <4>1
      <4> QED BY <4>2, <4>3
    <3> QED BY <3>1, <2>1 DEF a, c
  <2>14. PICK p \in Nat \ {0} : p = Len(w.octets)
    BY <2>6
  <2>8. d.octets \in Seq(DnsOctet) /\ Len(d.octets) = 2 + p
    <3>1. x \o w.octets \in Seq(DnsOctet) /\ Len(x \o w.octets) = Len(x) + Len(w.octets)
      <4>1. PICK q \in Seq(DnsOctet) : q = w.octets
        BY <2>6
      <4>2. x \o q \in Seq(DnsOctet) /\ Len(x \o q) = Len(x) + Len(q)
        BY <2>4, Concatenation
      <4> QED BY <4>1, <4>2
    <3> QED BY <3>1, <2>1, <2>4, <2>14
  <2>13. Len(a) = l + 2 /\ Len(c) = (l + 2) + p /\ Len(b) = l
    BY <2>4, <2>6, <2>14, <1>1
  <2>9. Extends(c, more, goOn, b, known, ends)
    BY <2>4, <2>6, ExtendsFurther
  <2>10. Without("type", c, 12 + Len(b), 12 + Len(c))
    <3>1. Without("type", c, 12 + l, 12 + Len(a))
      <4>1. 12 + l \in Nat /\ 12 + Len(a) \in Nat /\ 12 <= 12 + l /\ 12 + Len(a) <= 12 + Len(a)
        BY <2>4
      <4> QED BY <4>1, <2>4, <2>6, WithoutKept
    <3>2. 12 + l \in Nat /\ 12 + Len(a) \in Nat /\ 12 + Len(c) \in Nat
      <4>1. Len(c) \in Nat /\ Len(a) \in Nat
        BY <2>13
      <4> QED BY <4>1
    <3> QED BY <3>1, <3>2, <2>6, <1>1, WithoutJoined
  <2>11. DataAt(c, more, goOn, type, name, 12 + Len(b), Len(d.octets))
    <3>1. /\ (12 + Len(b)) + 2 = 12 + Len(a) /\ (12 + Len(b)) + Len(d.octets) = 12 + Len(c)
          /\ Len(d.octets) >= 2
      BY <2>8, <2>13
    <3> QED BY <3>1, <2>6, <1>9 DEF DataAt
  <2>12. Len(c) = Len(b) + Len(d.octets) /\ Len(d.octets) \in Nat \ {0}
    BY <2>8, <2>13
  <2> QED BY <2>1, <2>6, <2>7, <2>8, <2>9, <2>10, <2>11, <2>12 DEF DataIsWritten, more
<1>10. CASE type = "SOA"
  <2> DEFINE first == [numbers |-> 5]
             x == Field(first, 20)
  <2>22. PICK w \in Dns!Writings(name, off, known) :
           \E v \in Dns!Writings(name, off + Len(w.octets), known) :
             d.octets = (w.octets \o v.octets) \o x /\ d.learned = w.learned \cup v.learned
    <3>1. Dns!Field([numbers |-> 5], 20) = x /\ 12 + Len(b) = off
      BY DnsOctets, <1>1
    <3> DEFINE Both(w, v) == [octets |-> (w.octets \o v.octets) \o Dns!Field([numbers |-> 5], 20),
                              learned |-> w.learned \cup v.learned]
    <3>2. d \in UNION {{Both(w, v) :
                           v \in Dns!Writings(name, (12 + Len(b)) + Len(w.octets), known)} :
                       w \in Dns!Writings(name, 12 + Len(b), known)}
      BY <1>10, Zenon DEF Dns!DataWritings
    <3>3. PICK w \in Dns!Writings(name, 12 + Len(b), known) :
            \E v \in Dns!Writings(name, (12 + Len(b)) + Len(w.octets), known) : d = Both(w, v)
      <4> HIDE DEF Both
      <4> QED BY <3>2
    <3>4. PICK v \in Dns!Writings(name, (12 + Len(b)) + Len(w.octets), known) : d = Both(w, v)
      BY <3>3
    <3>6. w \in Dns!Writings(name, off, known)
          /\ v \in Dns!Writings(name, off + Len(w.octets), known)
      BY <3>1, <3>3, <3>4
    <3>5. d.octets = (w.octets \o v.octets) \o Dns!Field([numbers |-> 5], 20)
          /\ d.learned = w.learned \cup v.learned
      BY <3>4
    <3> HIDE DEF x
    <3> QED BY <3>1, <3>5, <3>6
  <2>1. PICK v \in Dns!Writings(name, off + Len(w.octets), known) :
          d.octets = (w.octets \o v.octets) \o x /\ d.learned = w.learned \cup v.learned
    BY <2>22
  <2>2. NameIsWritten(b, known, ends, name, w)
    BY <1>1, <1>2, NameWritten
  <2> DEFINE a == b \o w.octets
             some == known \cup w.learned
             goOn == Learned(b, known, ends, w)
  <2>3. /\ a \in Seq(DnsOctet) /\ Len(a) = Len(b) + Len(w.octets)
        /\ Extends(a, some, goOn, b, known, ends) /\ Known(a, some, goOn)
        /\ NameAt(a, some, goOn, 12 + Len(b), name, 12 + Len(a))
        /\ w.octets \in Seq(DnsOctet) /\ Len(w.octets) \in Nat \ {0}
        /\ \A o \in 12 + Len(b) .. 11 + Len(a) : "type" \notin DOMAIN a[o - 11]
    BY <2>2 DEF NameIsWritten
  <2> HIDE DEF a, some, goOn
  <2>4. PICK m \in Nat \ {0} : m = Len(w.octets)
    BY <2>3
  <2>5. Len(a) = l + m
    BY <2>3, <2>4, <1>1
  <2>6. v \in Dns!Writings(name, 12 + Len(a), some)
    <3>1. off + Len(w.octets) = 12 + Len(a)
      <4>1. off + m = 12 + Len(a)
        BY <2>5, <1>1
      <4> QED BY <4>1, <2>4
    <3>2. known \subseteq some
      BY DEF some
    <3> QED BY <3>1, <3>2, <2>1, MoreWritings
  <2>7. NameIsWritten(a, some, goOn, name, v)
    BY <2>3, <2>6, <1>2, NameWritten
  <2> DEFINE c == a \o v.octets
             more == some \cup v.learned
             then == Learned(a, some, goOn, v)
  <2>8. /\ c \in Seq(DnsOctet) /\ Len(c) = Len(a) + Len(v.octets)
        /\ Extends(c, more, then, a, some, goOn) /\ Known(c, more, then)
        /\ NameAt(c, more, then, 12 + Len(a), name, 12 + Len(c))
        /\ v.octets \in Seq(DnsOctet) /\ Len(v.octets) \in Nat \ {0}
        /\ \A o \in 12 + Len(a) .. 11 + Len(c) : "type" \notin DOMAIN c[o - 11]
    BY <2>7 DEF NameIsWritten
  <2> HIDE DEF c, more, then
  <2>9. PICK n \in Nat \ {0} : n = Len(v.octets)
    BY <2>8
  <2>10. Len(c) = (l + m) + n
    BY <2>5, <2>8, <2>9
  <2>11. first \in DnsOctet /\ DOMAIN first = {"numbers"}
    BY DEF DnsOctet
  <2> HIDE DEF first
  <2>12. FieldIsWritten(c, more, then, first, 20)
    <3>1. 20 \in Nat \ {0}
      OBVIOUS
    <3> QED BY <3>1, <2>8, <2>11, FieldWritten
  <2> DEFINE e == c \o x
  <2>13. /\ x \in Seq(DnsOctet) /\ Len(x) = 20 /\ e \in Seq(DnsOctet) /\ Len(e) = Len(c) + 20
         /\ Extends(e, more, then, c, more, then) /\ Known(e, more, then)
         /\ Without("type", e, 12 + Len(c), 12 + Len(e))
    BY <2>11, <2>12 DEF FieldIsWritten
  <2> HIDE DEF e, x
  <2>14. Len(e) = ((l + m) + n) + 20
    BY <2>10, <2>13
  <2>15. b \o d.octets = e
    <3>1. PICK q \in Seq(DnsOctet), r \in Seq(DnsOctet) : q = w.octets /\ r = v.octets
      BY <2>3, <2>8
    <3>2. x \in Seq(DnsOctet)
      BY <2>13
    <3>3. (b \o q) \o r = b \o (q \o r)
      OBVIOUS
    <3>4. q \o r \in Seq(DnsOctet)
      OBVIOUS
    <3>5. PICK t \in Seq(DnsOctet) : t = q \o r
      BY <3>4
    <3>6. (b \o t) \o x = b \o (t \o x)
      BY SMTT(30), <3>2
    <3>7. e = ((b \o q) \o r) \o x
      BY <3>1 DEF a, c, e
    <3>8. d.octets = t \o x
      BY <2>1, <3>1, <3>5
    <3> QED BY <3>3, <3>5, <3>6, <3>7, <3>8
  <2>16. d.octets \in Seq(DnsOctet) /\ Len(d.octets) = (m + n) + 20
    <3>1. PICK q \in Seq(DnsOctet), r \in Seq(DnsOctet) : q = w.octets /\ r = v.octets
      BY <2>3, <2>8
    <3>2. q \o r \in Seq(DnsOctet) /\ Len(q \o r) = Len(q) + Len(r)
      BY Concatenation
    <3>3. PICK t \in Seq(DnsOctet) : t = q \o r
      BY <3>2
    <3>4. t \o x \in Seq(DnsOctet) /\ Len(t \o x) = Len(t) + Len(x)
      <4>1. x \in Seq(DnsOctet)
        BY <2>13
      <4> QED BY <4>1, Concatenation
    <3>5. d.octets = t \o x
      BY <2>1, <3>1, <3>3
    <3>6. Len(q) = m /\ Len(r) = n
      BY <2>4, <2>9, <3>1
    <3>7. Len(t) = m + n
      BY <3>2, <3>3, <3>6
    <3> QED BY <2>13, <3>4, <3>5, <3>7
  <2>17. Extends(c, more, then, b, known, ends) /\ Extends(e, more, then, b, known, ends)
    <3>1. Extends(c, more, then, b, known, ends)
      BY <2>3, <2>8, ExtendsFurther
    <3> QED BY <3>1, <2>8, <2>13, ExtendsFurther
  <2>18. Without("type", e, 12 + Len(b), 12 + Len(e))
    <3>1. Without("type", a, 12 + l, (12 + l) + m) /\ Without("type", c, (12 + l) + m, ((12 + l) + m) + n)
      <4>1. 12 + Len(b) = 12 + l /\ 11 + Len(a) = ((12 + l) + m) - 1
            /\ 12 + Len(a) = (12 + l) + m /\ 11 + Len(c) = (((12 + l) + m) + n) - 1
        BY <2>5, <2>10, <1>1
      <4> QED BY <4>1, <2>3, <2>8 DEF Without
    <3>2. Without("type", e, ((12 + l) + m) + n, (((12 + l) + m) + n) + 20)
      <4>1. 12 + Len(c) = ((12 + l) + m) + n /\ 12 + Len(e) = (((12 + l) + m) + n) + 20
        BY <2>10, <2>14
      <4> QED BY <4>1, <2>13
    <3>3. Without("type", c, 12 + l, (12 + l) + m)
      <4>1. 12 + l \in Nat /\ (12 + l) + m \in Nat /\ 12 <= 12 + l /\ (12 + l) + m <= 12 + Len(a)
        BY <2>5
      <4> QED BY <3>1, <4>1, <2>3, <2>8, WithoutKept
    <3>4. Without("type", c, 12 + l, ((12 + l) + m) + n)
      <4>1. 12 + l \in Nat /\ (12 + l) + m \in Nat /\ ((12 + l) + m) + n \in Nat
        OBVIOUS
      <4> QED BY <3>1, <3>3, <4>1, WithoutJoined
    <3>5. Without("type", e, 12 + l, ((12 + l) + m) + n)
      <4>1. 12 + l \in Nat /\ ((12 + l) + m) + n \in Nat /\ 12 <= 12 + l
            /\ ((12 + l) + m) + n <= 12 + Len(c)
        BY <2>10
      <4> QED BY <3>4, <4>1, <2>8, <2>13, WithoutKept
    <3>6. Without("type", e, 12 + l, (((12 + l) + m) + n) + 20)
      <4>1. 12 + l \in Nat /\ ((12 + l) + m) + n \in Nat /\ (((12 + l) + m) + n) + 20 \in Nat
        OBVIOUS
      <4> QED BY <3>2, <3>5, <4>1, WithoutJoined
    <3>7. 12 + Len(b) = 12 + l /\ 12 + Len(e) = (((12 + l) + m) + n) + 20
      BY <2>14, <1>1
    <3> QED BY <3>6, <3>7
  <2>19. DataAt(e, more, then, type, name, 12 + Len(b), Len(d.octets))
    <3>1. PICK p \in Nat : p = off + m
      OBVIOUS
    <3>2. NameAt(c, more, then, off, name, p)
      <4>1. NameAt(a, some, goOn, off, name, p)
        <5>1. 12 + Len(b) = off /\ 12 + Len(a) = p
          BY <2>5, <3>1, <1>1
        <5> QED BY <5>1, <2>3
      <4>2. 12 <= off
        BY <1>1
      <4> QED BY <4>1, <4>2, <2>3, <2>8, NameKept
    <3>3. NameAt(e, more, then, off, name, p)
      <4>2. 12 <= off
        BY <1>1
      <4> QED BY <3>2, <4>2, <2>8, <2>13, NameKept
    <3>4. NameAt(e, more, then, p, name, p + n)
      <4>1. NameAt(c, more, then, p, name, p + n)
        <5>1. 12 + Len(a) = p /\ 12 + Len(c) = p + n
          BY <2>5, <2>10, <3>1, <1>1
        <5> QED BY <5>1, <2>8
      <4>2. 12 <= p
        BY <3>1, <1>1
      <4> QED BY <4>1, <4>2, <2>8, <2>13, NameKept
    <3>5. /\ 12 + Len(b) = off /\ Len(d.octets) >= 20 /\ p \in off .. off + Len(d.octets)
          /\ off + Len(d.octets) - 20 = p + n
      BY <2>16, <3>1, <1>1
    <3> QED BY <3>3, <3>4, <3>5, <1>10 DEF DataAt
  <2>20. known \cup d.learned = more
    BY <2>1 DEF some, more
  <2>21. Len(e) = Len(b) + Len(d.octets) /\ Len(d.octets) \in Nat \ {0}
    BY <2>14, <2>16, <1>1
  <2> QED BY <2>13, <2>15, <2>16, <2>17, <2>18, <2>19, <2>20, <2>21 DEF DataIsWritten
<1> QED BY <1>4, <1>5, <1>6, <1>7, <1>8, <1>9, <1>10 DEF Dns!Type

\* A question, or a record, stands at the end of b, and nothing else has changed.
ThingIsWritten(b, known, ends, c, more, goOn) ==
  /\ c \in Seq(DnsOctet) /\ Len(b) <= Len(c)
  /\ Extends(c, more, goOn, b, known, ends) /\ Known(c, more, goOn)

IsUnion(some, known, learned) == some = known \cup learned
IsRecord(record, owner, type, name) ==
  record = [name |-> owner, type |-> type, data |-> Dns!Says(type, name)]
\* What they write: more octets, and more known names.
AddsQuestion(b, known, w, c, more) ==
  c = (b \o w.octets) \o Dns!QuestionTail /\ more = known \cup w.learned
AddsRecord(b, some, type, w, d, c, more) ==
  /\ c = ((b \o w.octets) \o Dns!RecordHead(type, Len(d.octets))) \o d.octets
  /\ more = some \cup d.learned

\* What follows a name that ends in no pointer.
LEMMA NoPointerBefore ==
  ASSUME NEW a \in Seq(DnsOctet), NEW c \in Seq(DnsOctet), NEW some, NEW more, NEW ends, NEW goOn,
         Extends(c, more, goOn, a, some, ends),
         "pointer" \notin DOMAIN a[Len(a)], NEW l \in Nat, l < Len(a),
         NEW e \in Nat, e = 12 + Len(a), NEW to \in Nat, Without("pointer", c, 12 + Len(a), to)
  PROVE  Without("pointer", c, e - 1, to)
<1>1. PICK m \in Nat \ {0} : m = Len(a) /\ e = 12 + m
  OBVIOUS
<1>2. c[m] = a[m]
  <2>1. m \in 1 .. Len(a)
    BY <1>1
  <2> QED BY <2>1 DEF Extends
<1>3. ASSUME NEW o \in e - 1 .. to - 1 PROVE "pointer" \notin DOMAIN c[o - 11]
  <2>1. CASE o = 11 + m
    <3>1. o - 11 = m
      BY <2>1, <1>1
    <3> QED BY <3>1, <1>1, <1>2
  <2>2. CASE o # 11 + m
    <3>1. o \in 12 + m .. to - 1
      BY <2>2, <1>1
    <3> QED BY <3>1, <1>1 DEF Without
  <2> QED BY <2>1, <2>2
<1> QED BY <1>3 DEF Without

LEMMA QuestionWritten ==
  ASSUME NEW b \in Seq(DnsOctet), NEW known, NEW ends, Known(b, known, ends),
         NEW name \in Names, NEW w \in Dns!Writings(name, 12 + Len(b), known),
         NEW c, NEW more, AddsQuestion(b, known, w, c, more)
  PROVE  \E goOn : /\ ThingIsWritten(b, known, ends, c, more, goOn)
                   /\ QuestionAt(c, more, goOn, name, 12 + Len(b), 12 + Len(c))
<1> DEFINE a == b \o w.octets
           goOn == Learned(b, known, ends, w)
           tail == Field([question |-> TRUE], 4)
<1>1. name \in Seq(Labels)
  BY DnsAssumption
<1>2. NameIsWritten(b, known, ends, name, w)
  BY <1>1, NameWritten
<1>3. /\ a \in Seq(DnsOctet) /\ Len(a) = Len(b) + Len(w.octets)
      /\ Extends(a, more, goOn, b, known, ends) /\ Known(a, more, goOn)
      /\ NameAt(a, more, goOn, 12 + Len(b), name, 12 + Len(a))
      /\ Len(w.octets) \in Nat \ {0}
      /\ \A o \in 12 + Len(b) .. 11 + Len(a) : "type" \notin DOMAIN a[o - 11]
      /\ "pointer" \notin DOMAIN a[Len(a)]
  BY <1>2 DEF NameIsWritten, AddsQuestion
<1>4. c = a \o tail
  BY DnsOctets DEF Dns!QuestionTail, AddsQuestion
<1> HIDE DEF a, goOn
<1>5. FieldIsWritten(a, more, goOn, [question |-> TRUE], 4)
  <2>1. [question |-> TRUE] \in DnsOctet
    BY DEF DnsOctet
  <2>2. "label" \notin DOMAIN [question |-> TRUE] /\ "pointer" \notin DOMAIN [question |-> TRUE]
    OBVIOUS
  <2>3. 4 \in Nat \ {0}
    OBVIOUS
  <2> QED BY <1>3, <2>1, <2>2, <2>3, FieldWritten
<1>6. /\ c \in Seq(DnsOctet) /\ Len(c) = Len(a) + 4
      /\ Extends(c, more, goOn, a, more, goOn) /\ Known(c, more, goOn)
      /\ Without("type", c, 12 + Len(a), 12 + Len(c))
      /\ Without("pointer", c, 12 + Len(a), 12 + Len(c))
  <2>1. "type" \notin DOMAIN [question |-> TRUE]
    OBVIOUS
  <2> QED BY <1>4, <1>5, <2>1 DEF FieldIsWritten
<1>7. Extends(c, more, goOn, b, known, ends)
  BY <1>3, <1>6, ExtendsFurther
<1>8. PICK l \in Nat : l = Len(b)
  OBVIOUS
<1>9. PICK m \in Nat : m = Len(a)
  BY <1>3
<1>10. l < m /\ 12 + l \in Nat /\ 12 + m \in Nat /\ 12 <= 12 + l
  <2>1. PICK k \in Nat \ {0} : k = Len(w.octets)
    BY <1>3
  <2>2. m = l + k
    BY <2>1, <1>3, <1>8, <1>9
  <2> QED BY <2>2
<1>11. NameAt(c, more, goOn, 12 + Len(b), name, 12 + Len(a))
  <2>1. 12 + Len(b) \in Nat /\ 12 <= 12 + Len(b)
    BY <1>8, <1>10
  <2> QED BY <2>1, <1>3, <1>6, NameKept
<1>12. Without("type", c, 12 + Len(b), 12 + Len(c))
  <2>1. Without("type", a, 12 + Len(b), 12 + Len(a))
    <3>1. (12 + Len(a)) - 1 = 11 + Len(a)
      BY <1>9
    <3> QED BY <3>1, <1>3 DEF Without
  <2>2. /\ 12 + Len(b) \in Nat /\ 12 + Len(a) \in Nat /\ 12 <= 12 + Len(b)
        /\ 12 + Len(a) <= 12 + Len(a)
    BY <1>8, <1>9, <1>10
  <2>3. Without("type", c, 12 + Len(b), 12 + Len(a))
    BY <2>1, <2>2, <1>3, <1>6, WithoutKept
  <2>4. 12 + Len(c) \in Nat
    BY <1>6, <1>9
  <2> QED BY <2>2, <2>3, <2>4, <1>6, WithoutJoined
<1>13. QuestionAt(c, more, goOn, name, 12 + Len(b), 12 + Len(c))
  <2>1. PICK e \in Nat : e = 12 + Len(a)
    BY <1>9
  <2>2. 12 + Len(b) < e /\ 12 + Len(c) = e + 4 /\ 12 + Len(c) <= 12 + Len(c)
    BY <2>1, <1>6, <1>8, <1>9, <1>10
  <2>3. Without("pointer", c, e - 1, 12 + Len(c))
    <3>1. Without("pointer", c, 12 + Len(a), 12 + Len(c)) /\ 12 + Len(c) \in Nat /\ l < Len(a)
      BY <1>6, <1>9, <1>10
    <3> QED BY <2>1, <3>1, <1>3, <1>6, NoPointerBefore
  <2> QED BY <2>1, <2>2, <2>3, <1>11, <1>12 DEF QuestionAt
<1>14. Len(b) <= Len(c)
  BY <1>6, <1>8, <1>9, <1>10
<1> QED BY <1>6, <1>7, <1>13, <1>14 DEF ThingIsWritten

LEMMA RecordWritten ==
  ASSUME NEW b \in Seq(DnsOctet), NEW known, NEW ends, Known(b, known, ends),
         NEW owner \in Names, NEW type \in Dns!Type, NEW name \in Names,
         NEW w \in Dns!Writings(owner, 12 + Len(b), known),
         NEW some, IsUnion(some, known, w.learned),
         NEW d \in Dns!DataWritings(type, name, ((12 + Len(b)) + Len(w.octets)) + 10, some),
         NEW c, NEW more, AddsRecord(b, some, type, w, d, c, more),
         NEW record, IsRecord(record, owner, type, name)
  PROVE  \E last : /\ ThingIsWritten(b, known, ends, c, more, last)
                   /\ RecordAt(c, more, last, record, 12 + Len(b), 12 + Len(c))
<1> DEFINE a == b \o w.octets
           goOn == Learned(b, known, ends, w)
<1>1. owner \in Seq(Labels)
  BY DnsAssumption
<1>2. NameIsWritten(b, known, ends, owner, w)
  BY <1>1, NameWritten
<1>3. /\ a \in Seq(DnsOctet) /\ Len(a) = Len(b) + Len(w.octets)
      /\ Extends(a, some, goOn, b, known, ends) /\ Known(a, some, goOn)
      /\ NameAt(a, some, goOn, 12 + Len(b), owner, 12 + Len(a))
      /\ Len(w.octets) \in Nat \ {0}
      /\ \A o \in 12 + Len(b) .. 11 + Len(a) : "type" \notin DOMAIN a[o - 11]
      /\ "pointer" \notin DOMAIN a[Len(a)]
  BY <1>2 DEF NameIsWritten, IsUnion
<1> HIDE DEF a, goOn
<1>4. PICK l \in Nat : l = Len(b)
  OBVIOUS
<1>5. PICK m \in Nat : m = Len(a)
  BY <1>3
<1>6. l < m
  <2>1. PICK k \in Nat \ {0} : k = Len(w.octets)
    BY <1>3
  <2>2. m = l + k
    BY <2>1, <1>3, <1>4, <1>5
  <2> QED BY <2>2
<1>7. ((12 + Len(b)) + Len(w.octets)) + 10 = 12 + (m + 10)
  <2>1. PICK k \in Nat \ {0} : k = Len(w.octets)
    BY <1>3
  <2>2. m = l + k
    BY <2>1, <1>3, <1>4, <1>5
  <2>3. ((12 + l) + k) + 10 = 12 + (m + 10)
    BY <2>2
  <2> QED BY <2>1, <2>3, <1>4
\* The head of the record.
<1> DEFINE H(first) == a \o Field(first, 10)
           first == [type |-> type, length |-> Len(d.octets)]
           h == H(first)
<1>8. ASSUME NEW n \in Nat
      PROVE  FieldIsWritten(a, some, goOn, [type |-> type, length |-> n], 10)
  <2>1. [type |-> type, length |-> n] \in DnsOctet
    BY DEF DnsOctet
  <2>2. /\ "label" \notin DOMAIN [type |-> type, length |-> n]
        /\ "pointer" \notin DOMAIN [type |-> type, length |-> n]
    OBVIOUS
  <2>3. 10 \in Nat \ {0}
    OBVIOUS
  <2> QED BY <1>3, <2>1, <2>2, <2>3, FieldWritten
<1>9. ASSUME NEW n \in Nat, NEW g, g = a \o Field([type |-> type, length |-> n], 10)
      PROVE  /\ g \in Seq(DnsOctet) /\ Len(g) = Len(a) + 10
             /\ g[Len(a) + 1] = [type |-> type, length |-> n]
             /\ Extends(g, some, goOn, a, some, goOn) /\ Known(g, some, goOn)
             /\ Without("type", g, 13 + Len(a), 12 + Len(g))
             /\ Without("pointer", g, 12 + Len(a), 12 + Len(g))
  BY <1>8, <1>9 DEF FieldIsWritten
\* Its data does not depend on the length in the head.
<1>10. Len(d.octets) \in Nat \ {0}
  <2> DEFINE g == a \o Field([type |-> type, length |-> 0], 10)
  <2>1. g \in Seq(DnsOctet) /\ Len(g) = Len(a) + 10 /\ Known(g, some, goOn)
    BY <1>9
  <2> HIDE DEF g
  <2>2. ((12 + Len(b)) + Len(w.octets)) + 10 = 12 + Len(g)
    BY <2>1, <1>5, <1>7
  <2>3. d \in Dns!DataWritings(type, name, 12 + Len(g), some)
    BY <2>2
  <2>4. DataIsWritten(g, some, goOn, type, name, d)
    BY <2>1, <2>3, DataWritten
  <2> QED BY <2>4 DEF DataIsWritten
<1>11. /\ h \in Seq(DnsOctet) /\ Len(h) = Len(a) + 10 /\ h[Len(a) + 1] = first
       /\ Extends(h, some, goOn, a, some, goOn) /\ Known(h, some, goOn)
       /\ Without("type", h, 13 + Len(a), 12 + Len(h))
       /\ Without("pointer", h, 12 + Len(a), 12 + Len(h))
  BY <1>9, <1>10
<1>12. c = h \o d.octets
  BY DnsOctets DEF Dns!RecordHead, a, AddsRecord
<1> HIDE DEF h
<1>13. DataIsWritten(h, some, goOn, type, name, d)
  <2>1. ((12 + Len(b)) + Len(w.octets)) + 10 = 12 + Len(h)
    BY <1>5, <1>7, <1>11
  <2>2. d \in Dns!DataWritings(type, name, 12 + Len(h), some)
    BY <2>1
  <2> QED BY <1>11, <2>2, DataWritten
<1>14. /\ c \in Seq(DnsOctet) /\ Len(c) = Len(h) + Len(d.octets)
       /\ Without("type", c, 12 + Len(h), 12 + Len(c))
       /\ \E last : /\ Extends(c, more, last, h, some, goOn) /\ Known(c, more, last)
                    /\ DataAt(c, more, last, type, name, 12 + Len(h), Len(d.octets))
  BY <1>12, <1>13 DEF DataIsWritten, AddsRecord
<1>15. PICK last : /\ Extends(c, more, last, h, some, goOn) /\ Known(c, more, last)
                   /\ DataAt(c, more, last, type, name, 12 + Len(h), Len(d.octets))
  BY <1>14
<1>16. PICK n \in Nat \ {0} : n = Len(d.octets)
  BY <1>10
<1>17. Len(c) = (m + 10) + n /\ Len(h) = m + 10
  BY <1>5, <1>11, <1>14, <1>16
<1>18. Extends(c, more, last, a, some, goOn)
  BY <1>3, <1>11, <1>14, <1>15, ExtendsFurther
<1>19. Extends(c, more, last, b, known, ends)
  BY <1>3, <1>14, <1>18, ExtendsFurther
<1>20. NameAt(c, more, last, 12 + Len(b), owner, 12 + Len(a))
  <2>1. 12 + Len(b) \in Nat /\ 12 <= 12 + Len(b)
    BY <1>4
  <2> QED BY <2>1, <1>3, <1>14, <1>18, NameKept
<1>21. Without("type", c, 12 + Len(b), 12 + Len(a))
  <2>1. Without("type", a, 12 + Len(b), 12 + Len(a))
    <3>1. (12 + Len(a)) - 1 = 11 + Len(a)
      BY <1>5
    <3> QED BY <3>1, <1>3 DEF Without
  <2>2. /\ 12 + Len(b) \in Nat /\ 12 + Len(a) \in Nat /\ 12 <= 12 + Len(b)
        /\ 12 + Len(a) <= 12 + Len(a)
    BY <1>4, <1>5
  <2> QED BY <2>1, <2>2, <1>3, <1>14, <1>18, WithoutKept
<1>22. Without("type", c, 13 + Len(a), 12 + Len(c))
  <2>1. /\ 13 + Len(a) \in Nat /\ 12 + Len(h) \in Nat /\ 12 <= 13 + Len(a)
        /\ 12 + Len(h) <= 12 + Len(h) /\ 12 + Len(c) \in Nat
    BY <1>5, <1>17
  <2>2. Without("type", c, 13 + Len(a), 12 + Len(h))
    BY <2>1, <1>11, <1>14, <1>15, WithoutKept
  <2> QED BY <2>1, <2>2, <1>14, WithoutJoined
<1>27. Without("pointer", c, 12 + Len(a), 12 + Len(h))
  <2>1. /\ 12 + Len(a) \in Nat /\ 12 + Len(h) \in Nat /\ 12 <= 12 + Len(a)
        /\ 12 + Len(h) <= 12 + Len(h)
    BY <1>5, <1>17
  <2> QED BY <2>1, <1>11, <1>14, <1>15, WithoutKept
<1>23. c[(12 + Len(a)) - 11] = first
  <2>1. (12 + Len(a)) - 11 = Len(a) + 1 /\ Len(a) + 1 \in 1 .. Len(h)
    BY <1>5, <1>17
  <2>2. \A i \in 1 .. Len(h) : c[i] = h[i]
    BY <1>15 DEF Extends
  <2> QED BY <2>1, <2>2, <1>11
<1>24. PICK e \in Nat : e = 12 + Len(a)
  BY <1>5
<1>25. /\ 12 + Len(b) < e /\ 12 + Len(h) = e + 10 /\ 13 + Len(a) = e + 1
       /\ 12 + Len(c) = (e + 10) + n /\ 12 + Len(c) <= 12 + Len(c) /\ Len(b) <= Len(c)
  BY <1>4, <1>5, <1>6, <1>17, <1>24
<1>26. RecordAt(c, more, last, record, 12 + Len(b), 12 + Len(c))
  <2>1. /\ record.name = owner /\ record.type = type /\ record.data = Dns!Says(type, name)
    BY DEF IsRecord
  <2>2. NameAt(c, more, last, 12 + Len(b), record.name, e)
    BY <2>1, <1>20, <1>24
  <2>3. c[e - 11] = [type |-> record.type, length |-> n]
    BY <2>1, <1>16, <1>23, <1>24
  <2>4. DataAt(c, more, last, record.type, name, e + 10, n)
    BY <2>1, <1>15, <1>16, <1>25
  <2>5. /\ Without("type", c, 12 + Len(b), e) /\ Without("type", c, e + 1, 12 + Len(c))
        /\ Without("pointer", c, e - 1, e + 10)
    <3>1. Without("pointer", c, e - 1, 12 + Len(h))
      <4>1. 12 + Len(h) \in Nat /\ l < Len(a)
        BY <1>5, <1>6, <1>17
      <4> QED BY <4>1, <1>3, <1>14, <1>18, <1>24, <1>27, NoPointerBefore
    <3> QED BY <3>1, <1>21, <1>22, <1>24, <1>25
  <2>6. record.data = Dns!Says(record.type, name)
    BY <2>1
  <2> HIDE DEF first
  <2> QED BY <2>2, <2>3, <2>4, <2>5, <2>6, <1>25 DEF RecordAt
<1> QED BY <1>14, <1>15, <1>19, <1>25, <1>26 DEF ThingIsWritten

\* What a message says stands in it, and it is all that stands in it.
Record == [name : Names, type : Dns!Type, data : Seq(Names)]
Said(b, known, ends, asked, recs) ==
  \E at \in [0 .. 3 -> Place] :
    /\ QuestionsAt(b, known, ends, asked, 12, at[0])
    /\ \A s \in 1 .. 3 : RecordsAt(b, known, ends, recs[s], at[s - 1], at[s])
    /\ at[3] = 12 + Len(b)

IsSaid(b, known, asked, recs) ==
  /\ asked \in Seq(Names) /\ recs \in [1 .. 3 -> Seq(Record)]
  /\ b \in Seq(DnsOctet) /\ 12 + Len(b) <= MaxOctets
  /\ \E ends : Known(b, known, ends) /\ Said(b, known, ends, asked, recs)

DnsInv == IsSaid(body, suffixes, questions, records)

LEMMA ThreeSections == DOMAIN Dns!Sections = 1 .. 3
BY DEF Dns!Sections

LEMMA DnsStarts == Dns!Init => DnsInv
<1> SUFFICES ASSUME Dns!Init PROVE DnsInv
  OBVIOUS
<1>1. questions = << >> /\ records = [s \in 1 .. 3 |-> << >>] /\ body = << >> /\ suffixes = {}
  BY ThreeSections DEF Dns!Init
<1>2. questions \in Seq(Names) /\ records \in [1 .. 3 -> Seq(Record)] /\ body \in Seq(DnsOctet)
      /\ Len(body) = 0
  BY <1>1
<1>3. 12 + Len(body) <= MaxOctets
  BY <1>2, DnsAssumption
<1> DEFINE none == [s \in {} |-> 0]
           at == [i \in 0 .. 3 |-> 12]
<1>4. Known(body, suffixes, none)
  BY <1>1, <1>2 DEF Known
<1>5. 12 \in Place
  BY DEF Place
<1>6. at \in [0 .. 3 -> Place] /\ at[3] = 12 + Len(body)
  BY <1>2, <1>5
<1>7. QuestionsAt(body, suffixes, none, questions, 12, at[0])
  <2>1. at[0] = 12
    OBVIOUS
  <2> HIDE DEF none, at
  <2> QED BY <2>1, <1>1, <1>5, NoQuestions
<1>8. ASSUME NEW s \in 1 .. 3
      PROVE  RecordsAt(body, suffixes, none, records[s], at[s - 1], at[s])
  <2>1. at[s - 1] = 12 /\ at[s] = 12 /\ records[s] = << >>
    BY <1>1
  <2> HIDE DEF none, at
  <2> QED BY <2>1, <1>5, NoRecords
<1> HIDE DEF none, at
<1>9. Said(body, suffixes, none, questions, records)
  BY <1>6, <1>7, <1>8 DEF Said
<1> QED BY <1>2, <1>3, <1>4, <1>9 DEF DnsInv, IsSaid

\* The last sections are empty when the end of an earlier one is that of all.
SectionsAt(b, known, ends, recs, at) ==
  \A s \in 1 .. 3 : RecordsAt(b, known, ends, recs[s], at[s - 1], at[s])
EmptyAfter(recs, s) == \A later \in 1 .. 3 : later > s => recs[later] = << >>

LEMMA EmptySections ==
  ASSUME NEW b, NEW known, NEW ends, NEW recs, NEW at, SectionsAt(b, known, ends, recs, at),
         NEW s \in 0 .. 3, EmptyAfter(recs, s)
  PROVE  at[s] = at[3]
<1>1. 12 \in Place
  BY DEF Place
<1>2. ASSUME NEW t \in 1 .. 3, recs[t] = << >> PROVE at[t - 1] = at[t]
  <2>1. RecordsAt(b, known, ends, << >>, at[t - 1], at[t])
    BY <1>2 DEF SectionsAt
  <2>2. \A from, to : RecordsAt(b, known, ends, << >>, from, to) => from = to
    BY <1>1, NoRecords
  <2> QED BY <2>1, <2>2
<1>8. \A t \in 1 .. 3 : t > s => at[t - 1] = at[t]
  BY <1>2 DEF EmptyAfter
<1>3. s = 0 \/ s = 1 \/ s = 2 \/ s = 3
  OBVIOUS
<1>4. CASE s = 3
  BY <1>4
<1>5. CASE s = 2
  <2>1. at[3 - 1] = at[3]
    BY <1>8, <1>5
  <2>2. 3 - 1 = 2
    OBVIOUS
  <2> QED BY <2>1, <2>2, <1>5
<1>6. CASE s = 1
  <2>1. at[3 - 1] = at[3] /\ at[2 - 1] = at[2]
    BY <1>8, <1>6
  <2>2. 3 - 1 = 2 /\ 2 - 1 = 1
    OBVIOUS
  <2> QED BY <2>1, <2>2, <1>6
<1>7. CASE s = 0
  <2>1. at[3 - 1] = at[3] /\ at[2 - 1] = at[2] /\ at[1 - 1] = at[1]
    BY <1>8, <1>7
  <2>2. 3 - 1 = 2 /\ 2 - 1 = 1 /\ 1 - 1 = 0
    OBVIOUS
  <2> QED BY <2>1, <2>2, <1>7
<1> QED BY <1>3, <1>4, <1>5, <1>6, <1>7

LEMMA Asked ==
  ASSUME NEW b, NEW known, NEW asked, NEW recs, IsSaid(b, known, asked, recs),
         NEW name \in Names, NEW w \in Dns!Writings(name, 12 + Len(b), known),
         NEW c, NEW more, AddsQuestion(b, known, w, c, more),
         \A s \in 1 .. 3 : recs[s] = << >>, 12 + Len(c) <= MaxOctets
  PROVE  IsSaid(c, more, Append(asked, name), recs)
<1>1. /\ asked \in Seq(Names) /\ recs \in [1 .. 3 -> Seq(Record)]
      /\ b \in Seq(DnsOctet)
  BY DEF IsSaid
<1>2. PICK ends : Known(b, known, ends) /\ Said(b, known, ends, asked, recs)
  BY DEF IsSaid
<1>3. PICK at \in [0 .. 3 -> Place] :
        /\ QuestionsAt(b, known, ends, asked, 12, at[0])
        /\ \A s \in 1 .. 3 : RecordsAt(b, known, ends, recs[s], at[s - 1], at[s])
        /\ at[3] = 12 + Len(b)
  BY <1>2 DEF Said
<1>4. at[0] = 12 + Len(b)
  <2>1. at[0] = at[3]
    <3>1. 0 \in 0 .. 3 /\ EmptyAfter(recs, 0)
      BY DEF EmptyAfter
    <3>2. SectionsAt(b, known, ends, recs, at)
      BY <1>3 DEF SectionsAt
    <3> QED BY <3>1, <3>2, EmptySections
  <2> QED BY <2>1, <1>3
<1>5. PICK goOn : /\ ThingIsWritten(b, known, ends, c, more, goOn)
                  /\ QuestionAt(c, more, goOn, name, 12 + Len(b), 12 + Len(c))
  <2>1. \E goOn : /\ ThingIsWritten(b, known, ends, c, more, goOn)
                  /\ QuestionAt(c, more, goOn, name, 12 + Len(b), 12 + Len(c))
    BY <1>1, <1>2, QuestionWritten
  <2> QED BY <2>1
<1>6. /\ c \in Seq(DnsOctet) /\ Extends(c, more, goOn, b, known, ends) /\ Known(c, more, goOn)
  BY <1>5 DEF ThingIsWritten
<1>7. QuestionsAt(c, more, goOn, asked, 12, 12 + Len(b))
  <2>1. QuestionsAt(b, known, ends, asked, 12, 12 + Len(b))
    BY <1>3, <1>4
  <2> QED BY <2>1, <1>1, <1>6, QuestionsKept
<1>8. 12 + Len(c) \in Place
  BY <1>6 DEF Place
<1>9. QuestionsAt(c, more, goOn, Append(asked, name), 12, 12 + Len(c))
  BY <1>1, <1>5, <1>7, <1>8, QuestionsAppend
<1> DEFINE to == [i \in 0 .. 3 |-> 12 + Len(c)]
<1>10. to \in [0 .. 3 -> Place] /\ to[0] = 12 + Len(c) /\ to[3] = 12 + Len(c)
       /\ \A s \in 1 .. 3 : to[s - 1] = 12 + Len(c) /\ to[s] = 12 + Len(c)
  BY <1>8
<1> HIDE DEF to
<1>11. RecordsAt(c, more, goOn, << >>, 12 + Len(c), 12 + Len(c))
  BY <1>8, NoRecords
<1>12. ASSUME NEW s \in 1 .. 3
       PROVE  RecordsAt(c, more, goOn, recs[s], to[s - 1], to[s])
  <2>1. recs[s] = << >>
    OBVIOUS
  <2> QED BY <2>1, <1>10, <1>11
<1>13. Said(c, more, goOn, Append(asked, name), recs)
  BY <1>9, <1>10, <1>12 DEF Said
<1>14. Append(asked, name) \in Seq(Names)
  BY <1>1
<1> QED BY <1>1, <1>6, <1>13, <1>14 DEF IsSaid

LEMMA Served ==
  ASSUME NEW b, NEW known, NEW asked, NEW recs, IsSaid(b, known, asked, recs),
         NEW owner \in Names, NEW type \in Dns!Type, NEW name \in Names,
         NEW w \in Dns!Writings(owner, 12 + Len(b), known),
         NEW some, IsUnion(some, known, w.learned),
         NEW d \in Dns!DataWritings(type, name, ((12 + Len(b)) + Len(w.octets)) + 10, some),
         NEW c, NEW more, AddsRecord(b, some, type, w, d, c, more),
         NEW s \in 1 .. 3, \A later \in 1 .. 3 : later > s => recs[later] = << >>,
         NEW record, IsRecord(record, owner, type, name), 12 + Len(c) <= MaxOctets
  PROVE  IsSaid(c, more, asked, [recs EXCEPT ![s] = Append(@, record)])
<1>1. /\ asked \in Seq(Names) /\ recs \in [1 .. 3 -> Seq(Record)]
      /\ b \in Seq(DnsOctet)
  BY DEF IsSaid
<1>2. PICK ends : Known(b, known, ends) /\ Said(b, known, ends, asked, recs)
  BY DEF IsSaid
<1>3. PICK at \in [0 .. 3 -> Place] :
        /\ QuestionsAt(b, known, ends, asked, 12, at[0])
        /\ \A t \in 1 .. 3 : RecordsAt(b, known, ends, recs[t], at[t - 1], at[t])
        /\ at[3] = 12 + Len(b)
  BY <1>2 DEF Said
<1>4. at[s] = 12 + Len(b)
  <2>1. at[s] = at[3]
    <3>1. s \in 0 .. 3 /\ EmptyAfter(recs, s)
      BY DEF EmptyAfter
    <3>2. SectionsAt(b, known, ends, recs, at)
      BY <1>3 DEF SectionsAt
    <3> QED BY <3>1, <3>2, EmptySections
  <2> QED BY <2>1, <1>3
<1>5. PICK goOn : /\ ThingIsWritten(b, known, ends, c, more, goOn)
                  /\ RecordAt(c, more, goOn, record, 12 + Len(b), 12 + Len(c))
  <2>1. \E goOn : /\ ThingIsWritten(b, known, ends, c, more, goOn)
                  /\ RecordAt(c, more, goOn, record, 12 + Len(b), 12 + Len(c))
    BY <1>1, <1>2, RecordWritten
  <2> QED BY <2>1
<1>6. /\ c \in Seq(DnsOctet) /\ Extends(c, more, goOn, b, known, ends) /\ Known(c, more, goOn)
  BY <1>5 DEF ThingIsWritten
<1>7. QuestionsAt(c, more, goOn, asked, 12, at[0])
  BY <1>1, <1>3, <1>6, QuestionsKept
<1>8. ASSUME NEW t \in 1 .. 3 PROVE RecordsAt(c, more, goOn, recs[t], at[t - 1], at[t])
  <2>1. recs[t] \in Seq(Record) /\ RecordsAt(b, known, ends, recs[t], at[t - 1], at[t])
    BY <1>1, <1>3
  <2> QED BY <2>1, <1>1, <1>6, RecordsKept
<1>9. record \in Record
  <2>1. Dns!Says(type, name) \in Seq(Names)
    <3>1. <<name>> \in Seq(Names) /\ <<name, name>> \in Seq(Names)
      OBVIOUS
    <3> QED BY <3>1 DEF Dns!Says
  <2> QED BY <2>1 DEF IsRecord, Record
<1>10. 12 + Len(c) \in Place
  BY <1>6 DEF Place
<1> DEFINE to == [i \in 0 .. 3 |-> IF i < s THEN at[i] ELSE 12 + Len(c)]
           added == [recs EXCEPT ![s] = Append(@, record)]
<1>11. added \in [1 .. 3 -> Seq(Record)]
  BY <1>1, <1>9
<1>12. to \in [0 .. 3 -> Place] /\ to[0] = at[0] /\ to[3] = 12 + Len(c)
  BY <1>10
<1>13. ASSUME NEW t \in 1 .. 3
       PROVE  RecordsAt(c, more, goOn, added[t], to[t - 1], to[t])
  <2>1. CASE t < s
    <3>1. to[t - 1] = at[t - 1] /\ to[t] = at[t] /\ added[t] = recs[t]
      BY <2>1, <1>1
    <3> HIDE DEF to, added
    <3> QED BY <3>1, <1>8
  <2>2. CASE t = s
    <3>1. RecordsAt(c, more, goOn, recs[s], at[s - 1], 12 + Len(b)) /\ recs[s] \in Seq(Record)
      BY <1>1, <1>4, <1>8
    <3>2. RecordsAt(c, more, goOn, Append(recs[s], record), at[s - 1], 12 + Len(c))
      BY <3>1, <1>5, <1>9, <1>10, RecordsAppend
    <3>3. to[t - 1] = at[s - 1] /\ to[t] = 12 + Len(c) /\ added[t] = Append(recs[s], record)
      BY <2>2, <1>1
    <3> HIDE DEF to, added
    <3> QED BY <3>2, <3>3
  <2>3. CASE t > s
    <3>1. to[t - 1] = 12 + Len(c) /\ to[t] = 12 + Len(c) /\ added[t] = << >>
      BY <2>3, <1>1
    <3> HIDE DEF to, added
    <3> QED BY <3>1, <1>10, NoRecords
  <2>4. t < s \/ t = s \/ t > s
    OBVIOUS
  <2> QED BY <2>1, <2>2, <2>3, <2>4
<1> HIDE DEF to, added
<1>14. QuestionsAt(c, more, goOn, asked, 12, to[0])
  BY <1>7, <1>12
<1>15. Said(c, more, goOn, asked, added)
  BY <1>12, <1>13, <1>14 DEF Said
<1>16. IsSaid(c, more, asked, added)
  BY <1>1, <1>6, <1>11, <1>15 DEF IsSaid
<1> QED BY <1>16 DEF added

LEMMA DnsGoesOn == ASSUME DnsInv PROVE Dns!Next => DnsInv'
<1> USE DEF DnsInv
<1>1. ASSUME NEW name \in Names, Dns!Ask(name) PROVE DnsInv'
  <2>1. PICK w \in Dns!Writings(name, 12 + Len(body), suffixes) :
          /\ body' = (body \o w.octets) \o Dns!QuestionTail
          /\ 12 + Len(body') <= MaxOctets /\ suffixes' = suffixes \cup w.learned
    BY <1>1 DEF Dns!Ask, Dns!Offset
  <2>2. AddsQuestion(body, suffixes, w, body', suffixes')
    BY <2>1 DEF AddsQuestion
  <2>3. DOMAIN records = 1 .. 3
    BY DEF IsSaid
  <2>4. /\ \A s \in 1 .. 3 : records[s] = << >>
        /\ questions' = Append(questions, name) /\ records' = records
    BY <1>1, <2>3 DEF Dns!Ask
  <2>5. 12 + Len(body') <= MaxOctets
    BY <2>1
  <2>6. IsSaid(body', suffixes', Append(questions, name), records)
    BY <2>2, <2>4, <2>5, Asked
  <2> QED BY <2>4, <2>6
<1>2. ASSUME NEW s \in 1 .. 3, NEW owner \in Names, NEW name \in Names, NEW type \in Dns!Type,
             Dns!Serve(s, owner, type, name)
      PROVE  DnsInv'
  <2>1. PICK w \in Dns!Writings(owner, 12 + Len(body), suffixes) :
          \E d \in Dns!DataWritings(type, name, ((12 + Len(body)) + Len(w.octets)) + 10,
                                    suffixes \cup w.learned) :
            /\ body' = ((body \o w.octets) \o Dns!RecordHead(type, Len(d.octets))) \o d.octets
            /\ 12 + Len(body') <= MaxOctets /\ suffixes' = (suffixes \cup w.learned) \cup d.learned
    BY <1>2 DEF Dns!Serve, Dns!Offset
  <2>2. PICK some : IsUnion(some, suffixes, w.learned)
    BY DEF IsUnion
  <2>3. PICK d \in Dns!DataWritings(type, name, ((12 + Len(body)) + Len(w.octets)) + 10, some) :
            /\ body' = ((body \o w.octets) \o Dns!RecordHead(type, Len(d.octets))) \o d.octets
            /\ 12 + Len(body') <= MaxOctets /\ suffixes' = some \cup d.learned
    BY <2>1, <2>2 DEF IsUnion
  <2>4. AddsRecord(body, some, type, w, d, body', suffixes') /\ 12 + Len(body') <= MaxOctets
    BY <2>3 DEF AddsRecord
  <2>5. DOMAIN records = 1 .. 3
    BY DEF IsSaid
  <2> DEFINE record == [name |-> owner, type |-> type, data |-> Dns!Says(type, name)]
  <2>6. /\ \A later \in 1 .. 3 : later > s => records[later] = << >>
        /\ records' = [records EXCEPT ![s] = Append(@, record)] /\ questions' = questions
    BY <1>2, <2>5 DEF Dns!Serve
  <2>7. IsRecord(record, owner, type, name)
    BY DEF IsRecord
  <2> HIDE DEF record, DnsInv
  <2>8. IsSaid(body, suffixes, questions, records)
    BY DEF DnsInv
  <2>9. IsSaid(body', suffixes', questions, [records EXCEPT ![s] = Append(@, record)])
    BY <2>2, <2>4, <2>6, <2>7, <2>8, Served
  <2> QED BY <2>6, <2>9 DEF DnsInv
<1> QED BY <1>1, <1>2, ThreeSections DEF Dns!Next

LEMMA DnsTyped == ASSUME DnsInv PROVE Dns!TypeOK
<1>1. /\ questions \in Seq(Names) /\ records \in [1 .. 3 -> Seq(Record)]
      /\ body \in Seq(DnsOctet) /\ 12 + Len(body) <= MaxOctets
  BY DEF DnsInv, IsSaid
<1>2. PICK ends : Known(body, suffixes, ends)
  BY DEF DnsInv, IsSaid
<1>3. ASSUME NEW old \in suffixes
      PROVE  old[1] \in 12 .. (12 + Len(body)) - 1 /\ old[2] \in Seq(Labels)
  <2>1. old \in (12 .. 11 + Len(body)) \X (Seq(Labels) \ {<< >>})
    BY <1>2 DEF Known
  <2>2. 11 + Len(body) = (12 + Len(body)) - 1
    BY <1>1
  <2> QED BY <2>1, <2>2
<1>4. Len(Dns!Message) = 12 + Len(body)
  <2> DEFINE head == [questions |-> Len(questions),
                      records |-> [s \in DOMAIN records |-> Len(records[s])]]
  <2>1. PICK S : head \in S /\ Inside \in S /\ DnsOctet \subseteq S
    <3>1. head \in DnsOctet \cup {head, Inside} /\ Inside \in DnsOctet \cup {head, Inside}
      OBVIOUS
    <3> QED BY <3>1, Zenon
  <2>2. Dns!Message = Field(head, 12) \o body
    BY DnsOctets DEF Dns!Message
  <2> HIDE DEF head
  <2>3. Field(head, 12) \in Seq(S) /\ Len(Field(head, 12)) = 12
    <3>1. head \in S /\ Inside \in S
      BY <2>1
    <3>2. \A i \in 1 .. 12 : (IF i = 1 THEN head ELSE Inside) \in S
      BY <3>1
    <3> QED BY <3>2 DEF Field
  <2>4. body \in Seq(S)
    BY <2>1, <1>1
  <2>5. Len(Field(head, 12) \o body) = Len(Field(head, 12)) + Len(body)
    BY <2>3, <2>4, Concatenation
  <2> QED BY <2>2, <2>3, <2>5
<1> QED BY <1>1, <1>3, <1>4, ThreeSections DEF Dns!TypeOK, Dns!Offset

(***************************************************************************)
(* Text.                                                                   *)
(***************************************************************************)
LEMMA MinIs ==
  ASSUME NEW T \in SUBSET Nat, NEW x \in T, \A y \in T : x <= y
  PROVE  Min(T) = x
<1>1. Min(T) \in T /\ \A y \in T : Min(T) <= y
  BY DEF Min
<1>2. Min(T) <= x /\ x <= Min(T) /\ Min(T) \in Nat
  BY <1>1
<1> QED BY <1>2

LEMMA MaxIs ==
  ASSUME NEW T \in SUBSET Nat, NEW x \in T, \A y \in T : x >= y
  PROVE  Max(T) = x
<1>1. Max(T) \in T /\ \A y \in T : Max(T) >= y
  BY DEF Max
<1>2. Max(T) <= x /\ x <= Max(T) /\ Max(T) \in Nat
  BY <1>1
<1> QED BY <1>2

LEMMA MinOf ==
  ASSUME NEW T \in SUBSET Nat, T # {}
  PROVE  Min(T) \in T /\ \A y \in T : Min(T) <= y
<1>1. PICK x \in T : \A y \in T : x <= y
  BY LeastNumber
<1> QED BY <1>1, MinIs

LEMMA MaxOf ==
  ASSUME NEW N \in Nat, NEW T \in SUBSET (0 .. N), T # {}
  PROVE  Max(T) \in T /\ \A y \in T : y <= Max(T)
<1> DEFINE D == {d \in Nat : \E y \in T : d = N - y}
<1>1. PICK y \in T : TRUE
  OBVIOUS
<1>2. D \in SUBSET Nat /\ D # {}
  <2>1. N - y \in D
    BY <1>1
  <2> QED BY <2>1
<1>3. PICK d \in D : \A e \in D : d <= e
  <2> HIDE DEF D
  <2> QED BY <1>2, LeastNumber
<1>4. PICK x \in T : d = N - x
  BY <1>3
<1>5. \A z \in T : x >= z
  <2>1. TAKE z \in T
  <2>2. N - z \in D
    OBVIOUS
  <2>3. d <= N - z
    BY <2>2, <1>3
  <2> QED BY <2>3, <1>4
<1>6. T \in SUBSET Nat
  OBVIOUS
<1>7. Max(T) = x
  BY <1>5, <1>6, MaxIs
<1> QED BY <1>5, <1>7

\* Where the marks are, and what is made of the string from place i on, f being
\* what is made of it further on.
MarksFrom(s, mark, i) == {j \in i .. Len(s) : s[j] = mark[1]}
SplitStep(s, mark, f, i) ==
  IF MarksFrom(s, mark, i) = {} THEN <<SubSeq(s, i, Len(s))>>
  ELSE <<SubSeq(s, i, Min(MarksFrom(s, mark, i)) - 1)>> \o f[Min(MarksFrom(s, mark, i)) + 1]
Splitter(s, mark) == CHOOSE f : f = [i \in 1 .. Len(s) + 1 |-> SplitStep(s, mark, f, i)]

LEMMA SplitIs == ASSUME NEW s, NEW mark PROVE Split(s, mark) = Splitter(s, mark)[1]
BY DEF Split, Splitter, SplitStep, MarksFrom

\* The pieces of s from each place on.
Splits(f, S, s, mark) ==
  \A i \in 1 .. Len(s) + 1 : f[i] \in Seq(Seq(S)) /\ f[i] = SplitStep(s, mark, f, i)

LEMMA NextMark ==
  ASSUME NEW S, NEW s \in Seq(S), NEW mark, NEW i \in 1 .. Len(s) + 1, MarksFrom(s, mark, i) # {}
  PROVE  /\ Min(MarksFrom(s, mark, i)) \in i .. Len(s)
         /\ s[Min(MarksFrom(s, mark, i))] = mark[1]
         /\ \A j \in i .. Min(MarksFrom(s, mark, i)) - 1 : s[j] # mark[1]
<1> DEFINE T == MarksFrom(s, mark, i)
<1>1. PICK n \in Nat : n = Len(s)
  OBVIOUS
<1>2. T \in SUBSET Nat /\ \A j : j \in T <=> j \in i .. n /\ s[j] = mark[1]
  BY <1>1 DEF MarksFrom
<1>3. T # {}
  OBVIOUS
<1> HIDE DEF T
<1>4. Min(T) \in T /\ \A y \in T : Min(T) <= y
  BY <1>2, <1>3, MinOf
<1>5. PICK m \in Nat : m = Min(T)
  BY <1>2, <1>4
<1>6. m \in i .. n /\ s[m] = mark[1]
  BY <1>2, <1>4, <1>5
<1>7. ASSUME NEW j \in i .. m - 1 PROVE s[j] # mark[1]
  <2>1. j \in i .. n /\ ~ (m <= j)
    BY <1>6
  <2> QED BY <2>1, <1>2, <1>4, <1>5
<1> QED BY <1>1, <1>5, <1>6, <1>7 DEF T

LEMMA SubSeqTyped ==
  ASSUME NEW S, NEW s \in Seq(S), NEW i \in 1 .. Len(s) + 1, NEW m \in 0 .. Len(s), i <= m + 1
  PROVE  SubSeq(s, i, m) \in Seq(S) /\ Len(SubSeq(s, i, m)) = (m + 1) - i
         /\ \A p \in 1 .. (m + 1) - i : SubSeq(s, i, m)[p] = s[(i - 1) + p]
<1>1. PICK w \in Nat : w = i - 1 /\ w + 1 = i /\ w <= m /\ m \in Nat /\ m <= Len(s) /\ m - w = (m + 1) - i
  OBVIOUS
<1>2. /\ SubSeq(s, w + 1, m) \in Seq(S) /\ Len(SubSeq(s, w + 1, m)) = m - w
      /\ \A p \in 1 .. m - w : SubSeq(s, w + 1, m)[p] = s[w + p]
  BY <1>1, Slice
<1> QED BY <1>1, <1>2

LEMMA SplitSolved ==
  ASSUME NEW S, NEW s \in Seq(S), NEW mark
  PROVE  \E f : f = [i \in 1 .. Len(s) + 1 |-> SplitStep(s, mark, f, i)]
<1>1. PICK n \in Nat : n = Len(s)
  OBVIOUS
<1> DEFINE R == 1 .. n + 1
           V == Seq(Seq(S))
           Stop == {i \in R : MarksFrom(s, mark, i) = {}}
           at(i) == Min(MarksFrom(s, mark, i))
           base == [i \in R |-> <<SubSeq(s, i, n)>>]
           nx == [i \in R |-> IF i \in Stop THEN i ELSE at(i) + 1]
           front == [i \in R |-> IF i \in Stop THEN << >> ELSE SubSeq(s, i, at(i) - 1)]
           step == [i \in R |-> [v \in V |-> <<front[i]>> \o v]]
           rank == [i \in R |-> (n + 1) - i]
<1>2. ASSUME NEW i \in R, i \notin Stop PROVE at(i) \in i .. n /\ at(i) - 1 \in 0 .. n /\ i <= (at(i) - 1) + 1
  <2>1. MarksFrom(s, mark, i) # {}
    BY <1>2
  <2>2. at(i) \in i .. n
    BY <2>1, <1>1, NextMark
  <2> QED BY <2>2
<1>3. base \in [R -> V]
  <2>1. ASSUME NEW i \in R PROVE <<SubSeq(s, i, n)>> \in V
    <3>1. SubSeq(s, i, n) \in Seq(S)
      <4>1. i \in 1 .. Len(s) + 1 /\ n \in 0 .. Len(s) /\ i <= n + 1
        BY <1>1
      <4> QED BY <4>1, SubSeqTyped
    <3> QED BY <3>1
  <2> QED BY <2>1
<1>4. nx \in [R -> R]
  <2>1. ASSUME NEW i \in R PROVE (IF i \in Stop THEN i ELSE at(i) + 1) \in R
    BY <1>2
  <2> HIDE DEF Stop, at
  <2> QED BY <2>1
<1>5. \A i \in R : front[i] \in Seq(S)
  <2>1. ASSUME NEW i \in R, i \notin Stop PROVE SubSeq(s, i, at(i) - 1) \in Seq(S)
    <3>1. at(i) - 1 \in 0 .. Len(s) /\ i <= (at(i) - 1) + 1 /\ i \in 1 .. Len(s) + 1
      BY <2>1, <1>1, <1>2
    <3> HIDE DEF at
    <3> QED BY <3>1, SubSeqTyped
  <2> HIDE DEF Stop, at
  <2> QED BY <2>1
<1>6. step \in [R -> [V -> V]]
  <2>1. ASSUME NEW i \in R, NEW v \in V PROVE <<front[i]>> \o v \in V
    <3>1. <<front[i]>> \in V
      <4>1. front[i] \in Seq(S)
        BY <1>5
      <4> HIDE DEF front
      <4> QED BY <4>1
    <3> HIDE DEF front
    <3> QED BY <3>1
  <2> HIDE DEF front
  <2> QED BY <2>1
<1>7. rank \in [R -> Nat]
  OBVIOUS
<1>8. \A i \in R \ Stop : rank[nx[i]] < rank[i]
  <2>1. ASSUME NEW i \in R \ Stop PROVE rank[nx[i]] < rank[i]
    <3>1. nx[i] = at(i) + 1 /\ at(i) \in i .. n
      BY <1>2
    <3> HIDE DEF nx, at
    <3> QED BY <3>1
  <2> QED BY <2>1
<1>9. PICK f \in [R -> V] : Solves(f, R, Stop, base, nx, step)
  <2> HIDE DEF R, V, Stop, base, nx, step, rank
  <2> QED BY <1>3, <1>4, <1>6, <1>7, <1>8, RankedRecursion
<1>10. ASSUME NEW i \in R PROVE f[i] = SplitStep(s, mark, f, i)
  <2>1. f[i] = IF i \in Stop THEN base[i] ELSE step[i][f[nx[i]]]
    BY <1>9 DEF Solves
  <2>2. CASE i \in Stop
    <3>1. f[i] = <<SubSeq(s, i, n)>>
      BY <2>1, <2>2
    <3>2. MarksFrom(s, mark, i) = {}
      BY <2>2
    <3> QED BY <3>1, <3>2, <1>1 DEF SplitStep
  <2>3. CASE i \notin Stop
    <3>1. nx[i] \in R /\ nx[i] = at(i) + 1 /\ front[i] = SubSeq(s, i, at(i) - 1)
      BY <2>3, <1>4
    <3>2. f[nx[i]] \in V
      BY <3>1
    <3>3. f[i] = <<front[i]>> \o f[nx[i]]
      <4> HIDE DEF front, nx
      <4> QED BY <2>1, <2>3, <3>2
    <3>4. MarksFrom(s, mark, i) # {}
      BY <2>3
    <3> HIDE DEF front, nx, Stop
    <3> QED BY <3>1, <3>3, <3>4 DEF SplitStep
  <2> QED BY <2>2, <2>3
<1>11. f = [i \in R |-> SplitStep(s, mark, f, i)]
  BY <1>10
<1> QED BY <1>1, <1>11

LEMMA SplitterSplits ==
  ASSUME NEW S, NEW s \in Seq(S), NEW mark
  PROVE  Splits(Splitter(s, mark), S, s, mark)
<1> DEFINE f == Splitter(s, mark)
<1>1. PICK n \in Nat : n = Len(s)
  OBVIOUS
<1>2. f = [i \in 1 .. n + 1 |-> SplitStep(s, mark, f, i)]
  <2>1. \E g : g = [i \in 1 .. n + 1 |-> SplitStep(s, mark, g, i)]
    BY <1>1, SplitSolved
  <2> QED BY <2>1, <1>1 DEF Splitter
<1> HIDE DEF f
<1>3. \A i \in 1 .. n + 1 : f[i] = SplitStep(s, mark, f, i)
  BY <1>2
<1> DEFINE T == {k \in Nat : \A i \in 1 .. n + 1 : (n + 1) - i = k => f[i] \in Seq(Seq(S))}
<1>4. ASSUME NEW k \in Nat, \A m \in Nat : m < k => m \in T PROVE k \in T
  <2> SUFFICES ASSUME NEW i \in 1 .. n + 1, (n + 1) - i = k PROVE f[i] \in Seq(Seq(S))
    OBVIOUS
  <2>1. CASE MarksFrom(s, mark, i) = {}
    <3>1. SubSeq(s, i, n) \in Seq(S)
      <4>1. i \in 1 .. Len(s) + 1 /\ n \in 0 .. Len(s) /\ i <= n + 1
        BY <1>1
      <4> QED BY <4>1, SubSeqTyped
    <3>2. f[i] = <<SubSeq(s, i, n)>>
      BY <2>1, <1>1, <1>3 DEF SplitStep
    <3> QED BY <3>1, <3>2
  <2>2. CASE MarksFrom(s, mark, i) # {}
    <3> DEFINE m == Min(MarksFrom(s, mark, i))
    <3>1. m \in i .. n
      BY <2>2, <1>1, NextMark
    <3>2. f[i] = <<SubSeq(s, i, m - 1)>> \o f[m + 1]
      BY <2>2, <1>3 DEF SplitStep
    <3> HIDE DEF m
    <3>3. m + 1 \in 1 .. n + 1 /\ (n + 1) - (m + 1) \in Nat /\ (n + 1) - (m + 1) < k
      BY <3>1
    <3>4. f[m + 1] \in Seq(Seq(S))
      BY <3>3, <1>4
    <3>5. SubSeq(s, i, m - 1) \in Seq(S)
      <4>1. i \in 1 .. Len(s) + 1 /\ m - 1 \in 0 .. Len(s) /\ i <= (m - 1) + 1
        BY <1>1, <3>1
      <4> QED BY <4>1, SubSeqTyped
    <3>6. <<SubSeq(s, i, m - 1)>> \in Seq(Seq(S))
      BY <3>5
    <3> QED BY <3>2, <3>4, <3>6, Concatenation
  <2> QED BY <2>1, <2>2
<1> HIDE DEF T
<1>5. \A k \in Nat : k \in T
  BY <1>4, StrongInduction
<1>6. ASSUME NEW i \in 1 .. n + 1 PROVE f[i] \in Seq(Seq(S))
  <2>1. (n + 1) - i \in T
    BY <1>5
  <2> QED BY <2>1 DEF T
<1> QED BY <1>1, <1>3, <1>6 DEF Splits, f

\* The first piece ends before the first mark, or with the string.
LEMMA FirstPiece ==
  ASSUME NEW S, NEW s \in Seq(S), NEW mark, NEW m \in 0 .. Len(s),
         \A j \in 1 .. m : s[j] # mark[1], m < Len(s) => s[m + 1] = mark[1]
  PROVE  Split(s, mark)[1] = SubSeq(s, 1, m)
<1> DEFINE f == Splitter(s, mark)
           T == MarksFrom(s, mark, 1)
<1>1. PICK n \in Nat : n = Len(s)
  OBVIOUS
<1>2. Splits(f, S, s, mark)
  BY SplitterSplits
<1>3. Split(s, mark) = f[1]
  BY SplitIs
<1> HIDE DEF f
<1>4. 1 \in 1 .. n + 1 /\ f[1] = SplitStep(s, mark, f, 1)
  <2>1. 1 \in 1 .. Len(s) + 1
    BY <1>1
  <2> QED BY <2>1, <1>1, <1>2 DEF Splits
<1>5. CASE m = n
  <2>1. T = {}
    BY <1>1, <1>5 DEF MarksFrom
  <2> HIDE DEF T
  <2>2. f[1] = <<SubSeq(s, 1, n)>>
    BY <2>1, <1>1, <1>4 DEF SplitStep, T
  <2> QED BY <2>2, <1>3, <1>5
<1>6. CASE m # n
  <2>1. m + 1 \in 1 .. n /\ s[m + 1] = mark[1]
    BY <1>1, <1>6
  <2>2. T \in SUBSET Nat /\ m + 1 \in T
    BY <2>1, <1>1 DEF MarksFrom
  <2>3. ASSUME NEW y \in T PROVE m + 1 <= y
    <3>1. y \in 1 .. n /\ s[y] = mark[1]
      BY <1>1 DEF MarksFrom
    <3> QED BY <3>1, <1>1
  <2>4. T # {}
    BY <2>2
  <2> HIDE DEF T
  <2>5. Min(T) = m + 1
    BY <2>2, <2>3, MinIs
  <2>6. f[1] = <<SubSeq(s, 1, m)>> \o f[m + 2]
    <3>1. f[1] = <<SubSeq(s, 1, Min(T) - 1)>> \o f[Min(T) + 1]
      BY <1>4, <2>4 DEF SplitStep, T
    <3>2. Min(T) - 1 = m /\ Min(T) + 1 = m + 2
      BY <2>5
    <3> QED BY <3>1, <3>2
  <2>7. f[m + 2] \in Seq(Seq(S))
    <3>1. m + 2 \in 1 .. Len(s) + 1
      BY <2>1, <1>1
    <3> QED BY <3>1, <1>2 DEF Splits
  <2>8. SubSeq(s, 1, m) \in Seq(S)
    OBVIOUS
  <2> DEFINE a == SubSeq(s, 1, m)
             g == f[m + 2]
  <2> HIDE DEF a, g
  <2>9. (<<a>> \o g)[1] = a
    BY <2>7, <2>8 DEF a, g
  <2> QED BY <2>6, <2>9, <1>3 DEF a, g
<1> QED BY <1>5, <1>6

\* White space.
Blank(x) == x = [mark |-> " "] \/ x = [mark |-> "CR"]

LEMMA Marks ==
  /\ Space = <<[mark |-> " "]>> /\ LF = <<[mark |-> "LF"]>> /\ Colon = <<[mark |-> ":"]>>
  /\ Mark("CR") = <<[mark |-> "CR"]>> /\ NewLine = <<[mark |-> "CR"], [mark |-> "LF"]>>
<1>1. ASSUME NEW m PROVE Mark(m) = <<[mark |-> m]>>
  BY DEF Mark, Field
<1>2. Space = <<[mark |-> " "]>> /\ LF = <<[mark |-> "LF"]>> /\ Colon = <<[mark |-> ":"]>>
  BY <1>1, Zenon DEF Space, LF, Colon
<1>3. Mark("CR") = <<[mark |-> "CR"]>>
  BY <1>1
<1>4. ASSUME NEW x, NEW y PROVE <<x>> \o <<y>> = <<x, y>>
  <2>1. <<x>> \in Seq({x, y}) /\ <<y>> \in Seq({x, y})
    OBVIOUS
  <2>2. /\ Len(<<x>> \o <<y>>) = 2 /\ <<x>> \o <<y>> \in Seq({x, y})
        /\ (<<x>> \o <<y>>)[1] = x /\ (<<x>> \o <<y>>)[2] = y
    BY <2>1
  <2> DEFINE s == <<x>> \o <<y>>
             t == <<x, y>>
  <2>3. t \in Seq({x, y}) /\ Len(t) = 2 /\ t[1] = x /\ t[2] = y
    OBVIOUS
  <2> HIDE DEF s, t
  <2>4. s \in Seq({x, y}) /\ Len(s) = 2 /\ s[1] = x /\ s[2] = y
    BY <2>2 DEF s
  <2>5. \A i \in 1 .. 2 : s[i] = t[i]
    BY <2>3, <2>4
  <2>6. s = t
    BY <2>3, <2>4, <2>5, SeqEqual
  <2> QED BY <2>6 DEF s, t
<1>5. NewLine = <<[mark |-> "CR"]>> \o <<[mark |-> "LF"]>>
  BY <1>2, <1>3, Zenon DEF NewLine
<1>6. NewLine = <<[mark |-> "CR"], [mark |-> "LF"]>>
  BY <1>4, <1>5
<1> QED BY <1>2, <1>3, <1>6, Zenon

LEMMA Blanks == \A x : <<x>> \notin {Space, Mark("CR")} <=> ~ Blank(x)
<1>1. ASSUME NEW x PROVE <<x>> \notin {Space, Mark("CR")} <=> ~ Blank(x)
  <2> DEFINE b == [mark |-> " "]
             r == [mark |-> "CR"]
  <2>1. Space = <<b>> /\ Mark("CR") = <<r>>
    BY Marks, Zenon
  <2>2. Blank(x) <=> x = b \/ x = r
    BY DEF Blank
  <2> HIDE DEF b, r
  <2>3. (<<x>> = <<b>> <=> x = b) /\ (<<x>> = <<r>> <=> x = r)
    OBVIOUS
  <2> QED BY <2>1, <2>2, <2>3
<1> QED BY <1>1

LEMMA TrimKeeps ==
  ASSUME NEW S, NEW s \in Seq(S), NEW a \in 1 .. Len(s), NEW z \in 1 .. Len(s),
         ~ Blank(s[a]), ~ Blank(s[z]),
         \A i \in 1 .. a - 1 : Blank(s[i]), \A i \in z + 1 .. Len(s) : Blank(s[i])
  PROVE  Trim(s) = SubSeq(s, a, z)
<1>1. PICK n \in Nat : n = Len(s) /\ DOMAIN s = 1 .. n
  OBVIOUS
<1> DEFINE solid == {i \in DOMAIN s : <<s[i]>> \notin {Space, Mark("CR")}}
<1>2. solid = {i \in 1 .. n : ~ Blank(s[i])}
  BY <1>1, Blanks
<1>3. Trim(s) = IF solid = {} THEN << >> ELSE SubSeq(s, Min(solid), Max(solid))
  BY DEF Trim
<1> HIDE DEF solid
<1>4. solid \in SUBSET Nat /\ a \in solid /\ z \in solid
  BY <1>1, <1>2
<1>5. Min(solid) = a
  <2>1. ASSUME NEW y \in solid PROVE a <= y
    <3>1. y \in 1 .. n /\ ~ Blank(s[y])
      BY <1>2
    <3> QED BY <3>1, <1>1
  <2> QED BY <2>1, <1>4, MinIs
<1>6. Max(solid) = z
  <2>1. ASSUME NEW y \in solid PROVE z >= y
    <3>1. y \in 1 .. n /\ ~ Blank(s[y])
      BY <1>2
    <3> QED BY <3>1, <1>1
  <2> QED BY <2>1, <1>4, MaxIs
<1> QED BY <1>3, <1>4, <1>5, <1>6

LEMMA TrimEmpties ==
  ASSUME NEW S, NEW s \in Seq(S), \A i \in 1 .. Len(s) : Blank(s[i])
  PROVE  Trim(s) = << >>
<1> DEFINE solid == {i \in DOMAIN s : <<s[i]>> \notin {Space, Mark("CR")}}
<1>1. solid = {}
  BY Blanks
<1>2. Trim(s) = IF solid = {} THEN << >> ELSE SubSeq(s, Min(solid), Max(solid))
  BY DEF Trim
<1> HIDE DEF solid
<1> QED BY <1>1, <1>2


\* The octets of a line, and those of the characters that follow.
CharOctet == {[word |-> "a"], [lead |-> 2], Continuation}
FtpChar == CharOctet \cup {[digits |-> 1], Space[1]}
FtpOctet == CharOctet \cup {Inside} \cup [digits : Codes \cup {1}] \cup [word : Verbs]
              \cup [mark : {" ", "CR", "LF"}]
Inked(x) == ~ Blank(x) /\ x # Space[1] /\ x # LF[1]

LEMMA Unmarked == ASSUME NEW x, "mark" \notin DOMAIN x PROVE Inked(x)
<1>1. \A m : x # [mark |-> m]
  OBVIOUS
<1> QED BY <1>1, Marks, Zenon DEF Inked, Blank

LEMMA CharOctets ==
  /\ \A x \in CharOctet : Inked(x) /\ "digits" \notin DOMAIN x
  /\ CharOctet \subseteq FtpOctet
  /\ "lead" \notin DOMAIN Continuation /\ "lead" \notin DOMAIN [word |-> "a"]
  /\ Continuation # [lead |-> 2] /\ Continuation # [word |-> "a"]
<1>1. ASSUME NEW x \in CharOctet PROVE "mark" \notin DOMAIN x /\ "digits" \notin DOMAIN x
  BY DEF CharOctet, Continuation
<1>2. CharOctet \subseteq FtpOctet
  BY Zenon DEF FtpOctet
<1>3. /\ "lead" \notin DOMAIN Continuation /\ "lead" \notin DOMAIN [word |-> "a"]
      /\ Continuation # [lead |-> 2] /\ Continuation # [word |-> "a"]
  BY DEF Continuation
<1> QED BY <1>1, <1>2, <1>3, Unmarked

LEMMA FtpChars == FtpChar \subseteq FtpOctet /\ \A x \in FtpChar : x # LF[1]
<1>1. Space[1] = [mark |-> " "] /\ LF[1] = [mark |-> "LF"]
  BY Marks, Zenon
<1>2. [mark |-> " "] # [mark |-> "LF"]
  <2>1. [mark |-> " "].mark = " " /\ [mark |-> "LF"].mark = "LF"
    OBVIOUS
  <2> QED BY <2>1
<1> DEFINE d == [digits |-> 1]
<1>3. d \in [digits : Codes \cup {1}] /\ "mark" \notin DOMAIN d
  OBVIOUS
<1> HIDE DEF d
<1>4. d \in FtpOctet /\ Inked(d)
  BY <1>3, Unmarked, Zenon DEF FtpOctet
<1>5. Space[1] \in FtpOctet
  <2>1. [mark |-> " "] \in [mark : {" ", "CR", "LF"}]
    OBVIOUS
  <2> QED BY <2>1, <1>1, Zenon DEF FtpOctet
<1>6. \A x \in FtpChar : x \in CharOctet \/ x = d \/ x = Space[1]
  BY Zenon DEF FtpChar, d
<1>7. ASSUME NEW x \in FtpChar PROVE x \in FtpOctet /\ x # LF[1]
  <2>1. CASE x \in CharOctet
    BY <2>1, CharOctets DEF Inked
  <2>2. CASE x = d
    BY <2>2, <1>4 DEF Inked
  <2>3. CASE x = Space[1]
    <3>1. Space[1] # LF[1]
      BY <1>1, <1>2
    <3> QED BY <2>3, <3>1, <1>5
  <2> QED BY <2>1, <2>2, <2>3, <1>6
<1> QED BY <1>7

IsJoin(t, S, s, u) ==
  /\ t \in Seq(S) /\ Len(t) = Len(s) + Len(u)
  /\ \A j \in 1 .. Len(s) : t[j] = s[j]
  /\ \A j \in 1 .. Len(u) : t[Len(s) + j] = u[j]

LEMMA Joined ==
  ASSUME NEW S, NEW s \in Seq(S), NEW u \in Seq(S)
  PROVE  IsJoin(s \o u, S, s, u)
BY Concatenation DEF IsJoin

LEMMA PrefixOf ==
  ASSUME NEW S, NEW c \in Seq(S), NEW k \in 0 .. Len(c)
  PROVE  IsPrefix(SubSeq(c, 1, k), c)
<1> DEFINE x == SubSeq(c, 1, k)
<1>1. x \in Seq(S) /\ Len(x) = k /\ \A i \in 1 .. k : x[i] = c[i]
  OBVIOUS
<1>2. SubSeq(x, 1, Len(x)) = SubSeq(c, 1, Len(x)) /\ Len(x) <= Len(c)
  <2>1. SubSeq(c, 1, Len(x)) = x
    BY <1>1
  <2> HIDE DEF x
  <2> QED BY <1>1, <2>1
<1> HIDE DEF x
<1>3. IsPrefix(x, c)
  BY <1>2 DEF IsPrefix
<1> QED BY <1>3 DEF x

LEMMA Beginning ==
  ASSUME NEW S, NEW s \in Seq(S), NEW n \in Nat, n <= Len(s)
  PROVE  /\ SubSeq(s, 1, n) \in Seq(S) /\ Len(SubSeq(s, 1, n)) = n
         /\ \A p \in 1 .. n : SubSeq(s, 1, n)[p] = s[p]
OBVIOUS

LEMMA SameSeq ==
  ASSUME NEW S, NEW s \in Seq(S), NEW t \in Seq(S), Len(s) = Len(t), \A j \in 1 .. Len(s) : s[j] = t[j]
  PROVE  s = t
  OBVIOUS

LEMMA PrefixedBy ==
  ASSUME NEW S, NEW v \in Seq(S), NEW t \in Seq(S), Len(t) <= Len(v), \A j \in 1 .. Len(t) : t[j] = v[j]
  PROVE  IsPrefix(t, v) /\ (Len(t) = Len(v) => t = v)
<1>1. PICK n \in Nat, k \in Nat : n = Len(v) /\ k = Len(t) /\ k <= n
  OBVIOUS
<1> DEFINE q == SubSeq(v, 1, k)
<1>2. q \in Seq(S) /\ Len(q) = k /\ \A p \in 1 .. k : q[p] = v[p]
  BY <1>1, Beginning
<1> HIDE DEF q
<1>3. t = q
  BY <1>1, <1>2, SameSeq
<1>4. Len(t) = Len(v) => t = v
  BY <1>1, SameSeq
<1>5. SubSeq(t, 1, Len(t)) = t
  OBVIOUS
<1>6. IsPrefix(t, v)
  <2>1. SubSeq(t, 1, Len(t)) = SubSeq(v, 1, Len(t))
    BY <1>1, <1>3, <1>5 DEF q
  <2> QED BY <2>1 DEF IsPrefix
<1> QED BY <1>4, <1>6

LEMMA ConcatParts ==
  ASSUME NEW S, NEW s \in Seq(S), NEW t \in Seq(S)
  PROVE  /\ SubSeq(s \o t, 1, Len(s)) = s
         /\ SubSeq(s \o t, Len(s) + 1, Len(s) + Len(t)) = t
<1>0. PICK m \in Nat, n \in Nat : m = Len(s) /\ n = Len(t)
  OBVIOUS
<1> DEFINE u == s \o t
<1>1. u \in Seq(S) /\ Len(u) = m + n
      /\ (\A j \in 1 .. m : u[j] = s[j]) /\ \A j \in 1 .. n : u[m + j] = t[j]
  BY <1>0, Concatenation
<1> HIDE DEF u
<1> DEFINE a == SubSeq(u, 1, m)
           b == SubSeq(u, m + 1, m + n)
<1>2. a \in Seq(S) /\ Len(a) = m /\ \A p \in 1 .. m : a[p] = u[p]
  BY <1>1, Beginning
<1>3. b \in Seq(S) /\ Len(b) = (m + n) - m /\ \A p \in 1 .. (m + n) - m : b[p] = u[m + p]
  <2>1. PICK l \in Nat : l = m + n /\ m <= l /\ l <= Len(u)
    BY <1>1
  <2>2. u \in Seq(S)
    BY <1>1
  <2>3. /\ SubSeq(u, m + 1, l) \in Seq(S) /\ Len(SubSeq(u, m + 1, l)) = l - m
        /\ \A p \in 1 .. l - m : SubSeq(u, m + 1, l)[p] = u[m + p]
    BY <2>1, <2>2, Slice
  <2> QED BY <2>1, <2>3
<1> HIDE DEF a, b
<1>4. Len(a) = Len(s) /\ (\A p \in 1 .. Len(a) : a[p] = s[p])
  BY <1>0, <1>1, <1>2
<1>5. Len(b) = Len(t) /\ (\A p \in 1 .. Len(b) : b[p] = t[p])
  BY <1>0, <1>1, <1>3
<1>6. a = s
  BY <1>2, <1>4, SeqEqual
<1>7. b = t
  BY <1>3, <1>5, SeqEqual
<1> QED BY <1>0, <1>6, <1>7 DEF a, b, u

LEMMA Adjacent ==
  ASSUME NEW S, NEW s \in Seq(S), NEW a \in Nat, NEW n \in Nat, a <= n, n <= Len(s)
  PROVE  SubSeq(s, 1, a) \o SubSeq(s, a + 1, n) = SubSeq(s, 1, n)
<1>1. 1 \in 1 .. Len(s) + 1 /\ a \in 1 - 1 .. Len(s) /\ n \in a .. Len(s)
  BY SMTT(30)
<1> QED BY <1>1, ConcatAdjacentSubSeq

\* Joining what was joined.
LEMMA FlattenConcat ==
  ASSUME NEW S, NEW p \in Seq(Seq(S)), NEW q \in Seq(Seq(S))
  PROVE  FlattenSeq(p \o q) = FlattenSeq(p) \o FlattenSeq(q)
<1>1. PICK m \in Nat, n \in Nat : m = Len(p) /\ n = Len(q)
  OBVIOUS
<1>14. SubSeq(p \o q, 1, m) = p /\ SubSeq(p \o q, m + 1, m + n) = q
  BY <1>1, ConcatParts
<1> DEFINE pieces == p \o q
           flat == FlattenSeq(pieces)
<1>2. pieces \in Seq(Seq(S)) /\ Len(pieces) = m + n
  BY <1>1
<1>3. SubSeq(pieces, 1, m) = p /\ SubSeq(pieces, m + 1, m + n) = q
  BY <1>14
<1> HIDE DEF pieces
<1>4. flat \in Seq(S) /\ \E at : PiecesAt(at, pieces, flat)
  BY <1>2, FlattenPieces
<1>5. PICK at : PiecesAt(at, pieces, flat)
  BY <1>4
<1>0. PICK N \in Nat : N = m + n /\ N = Len(pieces) /\ 0 \in 0 .. N /\ m \in 0 .. N /\ N \in 0 .. N /\ m <= N
  BY <1>2
<1>6. at \in [0 .. N -> Nat] /\ at[0] = 0 /\ at[N] = Len(flat)
  BY <1>0, <1>5 DEF PiecesAt
<1>7. FlattenSeq(SubSeq(pieces, 0 + 1, m)) = SubSeq(flat, at[0] + 1, at[m])
  <2>1. 0 \in 0 .. N /\ m \in 0 .. N /\ 0 <= m
    BY <1>0
  <2> QED BY <2>1, <1>0, <1>2, <1>5, <1>6, FlattenSlice
<1>8. FlattenSeq(SubSeq(pieces, m + 1, N)) = SubSeq(flat, at[m] + 1, at[N])
  BY <1>0, <1>2, <1>5, <1>6, FlattenSlice
<1> HIDE DEF flat
<1>9. PICK a \in Nat : a = at[m] /\ a <= Len(flat)
  <2>1. at[m] <= at[N]
    BY <1>0, <1>2, <1>4, <1>5, PiecesInOrder
  <2> QED BY <2>1, <1>0, <1>6
<1>10. FlattenSeq(p) = SubSeq(flat, 1, a) /\ FlattenSeq(q) = SubSeq(flat, a + 1, Len(flat))
  <2>1. at[0] + 1 = 1 /\ 0 + 1 = 1
    BY <1>6
  <2>2. SubSeq(pieces, 0 + 1, m) = p /\ SubSeq(pieces, m + 1, N) = q
    BY <2>1, <1>0, <1>3
  <2>3. FlattenSeq(p) = SubSeq(flat, at[0] + 1, at[m])
    BY <2>2, <1>7
  <2>4. FlattenSeq(q) = SubSeq(flat, at[m] + 1, at[N])
    BY <2>2, <1>8
  <2> QED BY <2>1, <2>3, <2>4, <1>6, <1>9
<1>11. SubSeq(flat, 1, a) \o SubSeq(flat, a + 1, Len(flat)) = SubSeq(flat, 1, Len(flat))
  <2>1. Len(flat) \in Nat /\ Len(flat) <= Len(flat)
    BY <1>4
  <2> QED BY <2>1, <1>4, <1>9, Adjacent
<1>12. SubSeq(flat, 1, Len(flat)) = flat
  BY <1>4
<1> QED BY <1>10, <1>11, <1>12, Zenon DEF flat, pieces

LEMMA FlattenOne == ASSUME NEW S, NEW x \in Seq(S) PROVE FlattenSeq(<<x>>) = x
<1>1. <<x>> \in [1 .. 1 -> Seq(S)]
  OBVIOUS
<1>2. PICK f \in [1 .. 1 -> Seq(S)] : FlattenSeq(<<x>>) = f[1] /\ Joins(f, 1, <<x>>)
  <2>1. PICK one \in Nat \ {0} : one = 1
    OBVIOUS
  <2> QED BY <2>1, <1>1, FlattenEquation
<1> QED BY <1>2 DEF Joins

LEMMA FlattenNone == FlattenSeq(<< >>) = << >>
<1> DEFINE none == << >>
<1>1. none \in Seq(Seq({0})) /\ Len(none) = 0
  OBVIOUS
<1> HIDE DEF none
<1>2. FlattenSeq(none) \in Seq({0}) /\ \E at : PiecesAt(at, none, FlattenSeq(none))
  BY <1>1, FlattenPieces
<1>3. Len(FlattenSeq(none)) = 0
  BY <1>1, <1>2 DEF PiecesAt
<1> QED BY <1>2, <1>3 DEF none

LEMMA FlattenAppended ==
  ASSUME NEW S, NEW p \in Seq(Seq(S)), NEW x \in Seq(S)
  PROVE  FlattenSeq(Append(p, x)) = FlattenSeq(p) \o x
<1>1. Append(p, x) = p \o <<x>> /\ <<x>> \in Seq(Seq(S))
  BY AppendIsConcat
<1>2. FlattenSeq(p \o <<x>>) = FlattenSeq(p) \o FlattenSeq(<<x>>)
  BY <1>1, FlattenConcat
<1>3. FlattenSeq(<<x>>) = x
  BY FlattenOne
<1> QED BY <1>1, <1>2, <1>3

LEMMA FlattenTyped == ASSUME NEW S, NEW p \in Seq(Seq(S)) PROVE FlattenSeq(p) \in Seq(S)
BY FlattenPieces

\* The octets of the pieces after the first b, up to the n-th.
SliceIs(pieces, at, b, n) ==
  FlattenSeq(SubSeq(pieces, b + 1, n)) = SubSeq(FlattenSeq(pieces), at[b] + 1, at[n])
LEMMA SlicesIs ==
  ASSUME NEW S, NEW pieces \in Seq(Seq(S)), NEW N \in Nat, N = Len(pieces),
         NEW at \in [0 .. N -> Nat], PiecesAt(at, pieces, FlattenSeq(pieces)),
         NEW b \in 0 .. N, NEW n \in 0 .. N, b <= n
  PROVE  SliceIs(pieces, at, b, n)
BY FlattenSlice, Zenon DEF SliceIs

\* The first n octets end within a piece.
CutsAt(pieces, n, k, p) ==
  /\ k \in Nat /\ k < Len(pieces) /\ p \in Nat /\ p < Len(pieces[k + 1])
  /\ SubSeq(FlattenSeq(pieces), 1, n) = FlattenSeq(SubSeq(pieces, 1, k)) \o SubSeq(pieces[k + 1], 1, p)

LEMMA FlattenCut ==
  ASSUME NEW S, NEW pieces \in Seq(Seq(S)), NEW n \in Nat, n < Len(FlattenSeq(pieces))
  PROVE  \E k, p : CutsAt(pieces, n, k, p)
<1> DEFINE flat == FlattenSeq(pieces)
<1>1. PICK N \in Nat : N = Len(pieces)
  OBVIOUS
<1>2. flat \in Seq(S) /\ \E at : PiecesAt(at, pieces, flat)
  BY FlattenPieces
<1>3. PICK at : PiecesAt(at, pieces, flat)
  BY <1>2
<1>4. PICK l \in Nat : l = Len(flat) /\ n < l
  BY <1>2
<1> HIDE DEF flat
<1>5. /\ at \in [0 .. N -> Nat] /\ at[0] = 0 /\ at[N] = l
      /\ \A k \in 1 .. N : at[k] = at[k - 1] + Len(pieces[k])
      /\ \A k \in 1 .. N : \A j \in 1 .. Len(pieces[k]) : flat[at[k - 1] + j] = pieces[k][j]
  BY <1>1, <1>3, <1>4 DEF PiecesAt
<1> DEFINE T == {j \in 0 .. N : n < at[j]}
<1>6. T \in SUBSET Nat /\ N \in T
  BY <1>4, <1>5
<1>7. PICK j \in T : \A y \in T : j <= y
  BY <1>6, LeastNumber
<1>8. j # 0
  BY <1>5, <1>7
<1>9. PICK k \in Nat : k = j - 1 /\ k + 1 = j /\ k + 1 \in 1 .. N /\ k \in 0 .. N /\ k < N
  BY <1>7, <1>8
<1>10. k \notin T
  BY <1>7, <1>9
<1>11. PICK a \in Nat, e \in Nat : a = at[k] /\ a <= n /\ e = at[k + 1] /\ n < e /\ e <= l
  <2>1. at[k + 1] <= at[N]
    <3>1. k + 1 \in 0 .. Len(pieces) /\ N \in 0 .. Len(pieces) /\ k + 1 <= N
      BY <1>1, <1>9
    <3> QED BY <3>1, <1>2, <1>3, PiecesInOrder
  <2> QED BY <2>1, <1>5, <1>7, <1>9, <1>10
<1> HIDE DEF T
<1>12. PICK x \in Seq(S) : x = pieces[k + 1]
  BY <1>1, <1>9
<1>13. PICK z \in Nat : z = Len(x) /\ e = a + z
  <2>1. (k + 1) - 1 = k
    BY <1>9
  <2>2. at[k + 1] = at[k] + Len(pieces[k + 1])
    BY <1>5, <1>9, <2>1
  <2> QED BY <2>2, <1>11, <1>12
<1>14. \A i \in 1 .. z : flat[a + i] = x[i]
  <2>1. (k + 1) - 1 = k
    BY <1>9
  <2>2. \A i \in 1 .. Len(pieces[k + 1]) : flat[at[k] + i] = pieces[k + 1][i]
    BY <1>5, <1>9, <2>1
  <2> QED BY <2>2, <1>11, <1>12, <1>13
<1>15. PICK p \in Nat : p = n - a /\ n = a + p /\ p < z
  <2>1. n - a \in Nat /\ n - a < z
    BY SMTT(30), <1>11, <1>13
  <2> QED BY <2>1
<1>16. FlattenSeq(SubSeq(pieces, 0 + 1, k)) = SubSeq(flat, at[0] + 1, at[k])
  <2>1. PiecesAt(at, pieces, FlattenSeq(pieces))
    BY <1>3 DEF flat
  <2>2. 0 \in 0 .. N /\ 0 <= k
    BY <1>9
  <2>3. FlattenSeq(SubSeq(pieces, 0 + 1, k)) = SubSeq(FlattenSeq(pieces), at[0] + 1, at[k])
    <3>1. N = Len(pieces) /\ N \in Nat /\ at \in [0 .. N -> Nat] /\ k \in 0 .. N
      BY <1>1, <1>5, <1>9
    <3>2. PICK zero \in 0 .. N : zero = 0 /\ zero <= k
      BY <2>2
    <3>3. SliceIs(pieces, at, zero, k)
      BY <2>1, <3>1, <3>2, SlicesIs
    <3> QED BY <3>2, <3>3 DEF SliceIs
  <2> QED BY <2>3 DEF flat
<1>17. SubSeq(flat, a + 1, n) = SubSeq(x, 1, p)
  <2> DEFINE c == SubSeq(flat, a + 1, n)
             d == SubSeq(x, 1, p)
  <2>1. c \in Seq(S) /\ Len(c) = n - a /\ \A i \in 1 .. n - a : c[i] = flat[a + i]
    <3>1. n <= Len(flat)
      BY <1>4
    <3>2. a \in Nat /\ n \in Nat /\ a <= n
      BY <1>11
    <3> QED BY SMTT(30), <3>1, <3>2, <1>2, Slice
  <2>2. d \in Seq(S) /\ Len(d) = p /\ \A i \in 1 .. p : d[i] = x[i]
    BY <1>13, <1>15, Beginning
  <2> HIDE DEF c, d
  <2>3. Len(c) = p /\ Len(d) = p /\ \A i \in 1 .. p : c[i] = d[i]
    BY <2>1, <2>2, <1>14, <1>15
  <2>4. c = d
    BY <2>1, <2>2, <2>3, SeqEqual
  <2> QED BY <2>4 DEF c, d
<1>18. SubSeq(flat, 1, a) \o SubSeq(flat, a + 1, n) = SubSeq(flat, 1, n)
  <2>1. n <= Len(flat)
    BY <1>4
  <2> QED BY <2>1, <1>2, <1>11, Adjacent
<1>19. SubSeq(flat, 1, n) = FlattenSeq(SubSeq(pieces, 1, k)) \o SubSeq(pieces[k + 1], 1, p)
  <2>1. FlattenSeq(SubSeq(pieces, 1, k)) = SubSeq(flat, 1, a)
    BY <1>5, <1>11, <1>16
  <2> QED BY <2>1, <1>12, <1>17, <1>18
<1>20. CutsAt(pieces, n, k, p)
  <2>1. k < Len(pieces) /\ p < Len(pieces[k + 1])
    BY <1>1, <1>9, <1>12, <1>13, <1>15
  <2> QED BY <2>1, <1>19 DEF CutsAt, flat
<1> QED BY <1>20

\* The marks of s stand at at[1], ..., at[N - 1].
Parted(s, mark, at, N) ==
  /\ N \in Nat /\ N # 0 /\ at \in [0 .. N -> Nat] /\ at[0] = 0 /\ at[N] = Len(s) + 1
  /\ \A k \in 1 .. N : at[k - 1] < at[k] /\ at[k] <= Len(s) + 1
  /\ \A k \in 1 .. N - 1 : s[at[k]] = mark[1]
  /\ \A k \in 1 .. N : \A j \in at[k - 1] + 1 .. at[k] - 1 : s[j] # mark[1]

Piece(s, at, k) == SubSeq(s, at[k - 1] + 1, at[k] - 1)

\* t is the pieces of s from the k-th on, c of them and one.
PiecesFrom(t, s, at, k, c) ==
  Len(t) = c + 1 /\ \A i \in 1 .. c + 1 : t[i] = Piece(s, at, (k - 1) + i)

LEMMA PieceFollows ==
  ASSUME NEW S, NEW s \in Seq(S), NEW at, NEW k \in Nat \ {0}, NEW c \in Nat,
         NEW p \in Seq(S), p = Piece(s, at, k), NEW t \in Seq(Seq(S)), PiecesFrom(t, s, at, k + 1, c)
  PROVE  PiecesFrom(<<p>> \o t, s, at, k, c + 1)
<1> DEFINE u == <<p>> \o t
<1>1. Len(t) = c + 1 /\ \A i \in 1 .. c + 1 : t[i] = Piece(s, at, ((k + 1) - 1) + i)
  BY DEF PiecesFrom
<1>2. <<p>> \in Seq(Seq(S)) /\ Len(<<p>>) = 1 /\ <<p>>[1] = p
  OBVIOUS
<1>3. Len(u) = 1 + Len(t) /\ u[1] = p /\ \A j \in 1 .. Len(t) : u[1 + j] = t[j]
  BY <1>2, Concatenation
<1> HIDE DEF u
<1>4. ASSUME NEW i \in 1 .. (c + 1) + 1 PROVE u[i] = Piece(s, at, (k - 1) + i)
  <2>1. CASE i = 1
    <3>1. (k - 1) + i = k
      BY <2>1
    <3> QED BY <3>1, <2>1, <1>3
  <2>2. CASE i # 1
    <3>1. PICK j \in 1 .. c + 1 : i = 1 + j /\ ((k + 1) - 1) + j = (k - 1) + i
      <4>1. i - 1 \in 1 .. c + 1 /\ i = 1 + (i - 1) /\ ((k + 1) - 1) + (i - 1) = (k - 1) + i
        BY <2>2
      <4> QED BY <4>1
    <3>2. u[1 + j] = t[j]
      BY <3>1, <1>1, <1>3
    <3> QED BY <3>1, <3>2, <1>1
  <2> QED BY <2>1, <2>2
<1>5. Len(u) = (c + 1) + 1
  BY <1>1, <1>3
<1> QED BY <1>4, <1>5 DEF PiecesFrom, u

LEMMA SplitFrom ==
  ASSUME NEW S, NEW s \in Seq(S), NEW mark, NEW at, NEW N, Parted(s, mark, at, N),
         NEW f, Splits(f, S, s, mark), NEW k \in 1 .. N
  PROVE  PiecesFrom(f[at[k - 1] + 1], s, at, k, N - k)
<1>1. PICK n \in Nat : n = Len(s)
  OBVIOUS
<1>2. /\ N \in Nat /\ N # 0 /\ at \in [0 .. N -> Nat] /\ at[0] = 0 /\ at[N] = n + 1
      /\ \A j \in 1 .. N : at[j - 1] < at[j] /\ at[j] <= n + 1
      /\ \A j \in 1 .. N - 1 : s[at[j]] = mark[1]
      /\ \A m \in 1 .. N : \A j \in at[m - 1] + 1 .. at[m] - 1 : s[j] # mark[1]
  BY <1>1 DEF Parted
<1>3. \A i \in 1 .. n + 1 : f[i] \in Seq(Seq(S)) /\ f[i] = SplitStep(s, mark, f, i)
  BY <1>1 DEF Splits
<1> DEFINE T == {c \in Nat : \A m \in 1 .. N : m + c = N => PiecesFrom(f[at[m - 1] + 1], s, at, m, c)}
<1>4. ASSUME NEW m \in 1 .. N
      PROVE  \E a, z \in Nat : /\ a = at[m - 1] /\ z = at[m] /\ a < z /\ z <= n + 1
                               /\ \A j \in a + 1 .. z - 1 : s[j] # mark[1]
  <2>1. m - 1 \in 0 .. N /\ m \in 0 .. N
    BY <1>2
  <2>2. at[m - 1] \in Nat /\ at[m] \in Nat /\ at[m - 1] < at[m] /\ at[m] <= n + 1
    BY <2>1, <1>2
  <2>3. \A j \in at[m - 1] + 1 .. at[m] - 1 : s[j] # mark[1]
    BY <1>2
  <2> HIDE DEF T
  <2> QED BY <2>2, <2>3
<1>5. 0 \in T
  <2> SUFFICES ASSUME NEW m \in 1 .. N, m + 0 = N PROVE PiecesFrom(f[at[m - 1] + 1], s, at, m, 0)
    BY DEF T
  <2>1. PICK a \in Nat, z \in Nat : /\ a = at[m - 1] /\ z = at[m] /\ a < z /\ z <= n + 1
                                    /\ \A j \in a + 1 .. z - 1 : s[j] # mark[1]
    BY <1>4
  <2>2. m = N /\ z = n + 1 /\ z - 1 = n
    BY <2>1, <1>2
  <2>3. MarksFrom(s, mark, a + 1) = {}
    BY <2>1, <2>2, <1>1 DEF MarksFrom
  <2>4. f[a + 1] = <<SubSeq(s, a + 1, n)>>
    <3>1. a + 1 \in 1 .. n + 1
      BY <2>1, <2>2
    <3>2. f[a + 1] = SplitStep(s, mark, f, a + 1)
      BY <3>1, <1>3
    <3> QED BY <3>2, <2>3, <1>1 DEF SplitStep
  <2>5. SubSeq(s, a + 1, n) = Piece(s, at, m)
    BY <2>1, <2>2 DEF Piece
  <2>6. (m - 1) + 1 = m
    OBVIOUS
  <2> DEFINE p == SubSeq(s, a + 1, n)
  <2> HIDE DEF p
  <2>7. PiecesFrom(<<p>>, s, at, m, 0)
    <3>1. Len(<<p>>) = 0 + 1 /\ <<p>>[1] = p
      OBVIOUS
    <3> QED BY <3>1, <2>5, <2>6 DEF PiecesFrom, p
  <2> QED BY <2>1, <2>4, <2>7 DEF p
<1>6. ASSUME NEW c \in Nat, c \in T PROVE c + 1 \in T
  <2> SUFFICES ASSUME NEW m \in 1 .. N, m + (c + 1) = N
               PROVE  PiecesFrom(f[at[m - 1] + 1], s, at, m, c + 1)
    BY DEF T
  <2>1. PICK a \in Nat, z \in Nat : /\ a = at[m - 1] /\ z = at[m] /\ a < z /\ z <= n + 1
                                    /\ \A j \in a + 1 .. z - 1 : s[j] # mark[1]
    BY <1>4
  <2>2. m + 1 \in 1 .. N /\ (m + 1) + c = N /\ (m + 1) - 1 = m /\ m \in 1 .. N - 1 /\ m \in Nat \ {0}
    BY <1>2
  <2>3. PiecesFrom(f[z + 1], s, at, m + 1, c)
    BY <2>1, <2>2, <1>6 DEF T
  <2>4. s[z] = mark[1] /\ z <= n
    <3>1. at[(m + 1) - 1] < at[m + 1] /\ at[m + 1] <= n + 1
      BY <2>2, <1>2
    <3>2. m + 1 \in 0 .. N
      BY <2>2
    <3>3. at[m + 1] \in Nat
      BY <3>2, <1>2
    <3> QED BY <3>1, <3>3, <2>1, <2>2, <1>2
  <2> DEFINE M == MarksFrom(s, mark, a + 1)
  <2>5. M \in SUBSET Nat /\ z \in M /\ \A y \in M : z <= y
    <3>1. \A y : y \in M <=> y \in a + 1 .. n /\ s[y] = mark[1]
      BY <1>1 DEF MarksFrom
    <3>2. M \in SUBSET Nat /\ z \in M
      BY <3>1, <2>1, <2>4, SMTT(30)
    <3>3. ASSUME NEW y \in M PROVE z <= y
      <4>1. y \in a + 1 .. n /\ y \notin a + 1 .. z - 1
        BY <3>1, <2>1
      <4> QED BY <4>1
    <3> QED BY <3>2, <3>3
  <2> HIDE DEF M
  <2>6. Min(M) = z /\ M # {}
    BY <2>5, MinIs
  <2>7. f[a + 1] = <<SubSeq(s, a + 1, z - 1)>> \o f[z + 1]
    <3>1. a + 1 \in 1 .. n + 1
      BY <2>1
    <3>2. f[a + 1] = <<SubSeq(s, a + 1, Min(M) - 1)>> \o f[Min(M) + 1]
      BY <3>1, <2>6, <1>3 DEF SplitStep, M
    <3> QED BY <3>2, <2>6
  <2>8. f[z + 1] \in Seq(Seq(S))
    BY <2>4, <1>3
  <2> DEFINE p == SubSeq(s, a + 1, z - 1)
  <2>9. p \in Seq(S)
    <3>1. a \in Nat /\ z - 1 \in Nat /\ a <= z - 1 /\ z - 1 <= Len(s)
      BY SMTT(30), <2>1, <2>4, <1>1
    <3> QED BY <3>1, Slice
  <2>10. p = Piece(s, at, m)
    BY <2>1 DEF Piece
  <2> HIDE DEF p
  <2>11. PiecesFrom(<<p>> \o f[z + 1], s, at, m, c + 1)
    BY <2>2, <2>3, <2>8, <2>9, <2>10, PieceFollows
  <2> QED BY <2>1, <2>7, <2>11 DEF p
<1> HIDE DEF T
<1>7. \A c \in Nat : c \in T
  BY <1>5, <1>6, Induction
<1>8. N - k \in Nat /\ k + (N - k) = N
  BY <1>2
<1> QED BY <1>7, <1>8 DEF T

LEMMA SplitParted ==
  ASSUME NEW S, NEW s \in Seq(S), NEW mark, NEW at, NEW N, Parted(s, mark, at, N)
  PROVE  /\ Len(Split(s, mark)) = N /\ Split(s, mark) \in Seq(Seq(S))
         /\ \A k \in 1 .. N : Split(s, mark)[k] = Piece(s, at, k)
<1> DEFINE f == Splitter(s, mark)
<1>1. Splits(f, S, s, mark)
  BY SplitterSplits
<1>2. Split(s, mark) = f[1]
  BY SplitIs
<1> HIDE DEF f
<1>3. N \in Nat /\ N # 0 /\ at[0] = 0 /\ 1 \in 1 .. N
  BY DEF Parted
<1>4. PiecesFrom(f[at[1 - 1] + 1], s, at, 1, N - 1)
  BY <1>1, <1>3, SplitFrom
<1>5. PiecesFrom(f[1], s, at, 1, N - 1)
  <2>1. at[1 - 1] + 1 = 1
    BY <1>3
  <2> QED BY <2>1, <1>4
<1>6. Len(f[1]) = N /\ \A i \in 1 .. N : f[1][i] = Piece(s, at, i)
  <2>1. (N - 1) + 1 = N /\ \A i \in 1 .. N : (1 - 1) + i = i
    BY <1>3
  <2> QED BY <2>1, <1>5 DEF PiecesFrom
<1>7. f[1] \in Seq(Seq(S))
  BY <1>1 DEF Splits
<1> QED BY <1>2, <1>6, <1>7

(***************************************************************************)
(* Lines.                                                                  *)
(***************************************************************************)
CR == [mark |-> "CR"]
Feed == [mark |-> "LF"]

\* Rows that each end in a separator, and what follows the last.
Ended(rows, sep) == [k \in 1 .. Len(rows) |-> rows[k] \o sep]
Lined(rows, sep, tail) == FlattenSeq(Ended(rows, sep)) \o tail

Chomped(row) == IF IsSuffix(Mark("CR"), row) THEN Front(row) ELSE row
LinesIn(pieces) ==
  [k \in 1 .. Len(pieces) - 1 |-> Chomped(pieces[k])]
    \o IF Last(pieces) = << >> THEN << >> ELSE <<Last(pieces)>>

LEMMA LinesIs == ASSUME NEW s PROVE LinesOf(s) = LinesIn(Split(s, LF))
BY DEF LinesOf, LinesIn, Chomped

LEMMA Followed ==
  ASSUME NEW S, NEW r \in Seq(S), NEW x \in S
  PROVE  /\ r \o <<x>> \in Seq(S) /\ Len(r \o <<x>>) = Len(r) + 1
         /\ (\A j \in 1 .. Len(r) : (r \o <<x>>)[j] = r[j]) /\ (r \o <<x>>)[Len(r) + 1] = x
<1>1. <<x>> \in Seq(S) /\ Len(<<x>>) = 1 /\ <<x>>[1] = x /\ 1 \in 1 .. 1
  OBVIOUS
<1> DEFINE s == r \o <<x>>
<1>2. /\ s \in Seq(S) /\ Len(s) = Len(r) + Len(<<x>>) /\ (\A j \in 1 .. Len(r) : s[j] = r[j])
      /\ \A j \in 1 .. Len(<<x>>) : s[Len(r) + j] = <<x>>[j]
  BY <1>1, Concatenation
<1> HIDE DEF s
<1>3. Len(s) = Len(r) + 1 /\ s[Len(r) + 1] = x
  BY <1>1, <1>2
<1> QED BY <1>2, <1>3 DEF s

\* A row and the CR of its line break.
LEMMA ChompedRow ==
  ASSUME NEW S, CR \in S, NEW r \in Seq(S)
  PROVE  Chomped(r \o <<CR>>) = r
<1>1. PICK n \in Nat : n = Len(r)
  OBVIOUS
<1> DEFINE s == r \o <<CR>>
<1>2. <<CR>> \in Seq(S) /\ Len(<<CR>>) = 1 /\ <<CR>>[1] = CR
  OBVIOUS
<1>3. /\ s \in Seq(S) /\ Len(s) = n + 1 /\ s[n + 1] = CR
      /\ \A j \in 1 .. n : s[j] = r[j]
  BY <1>1, Followed
<1> HIDE DEF s
<1>4. IsSuffix(Mark("CR"), s)
  <2>1. Mark("CR") = <<CR>>
    BY Marks, Zenon DEF CR
  <2>2. Reverse(<<CR>>) = <<CR>>
    BY <1>2 DEF Reverse
  <2>3. Len(Reverse(s)) = n + 1 /\ Reverse(s)[1] = CR /\ Reverse(s) \in Seq(S)
    <3>1. Reverse(s) = [i \in 1 .. n + 1 |-> s[((n + 1) - i) + 1]]
      BY <1>3 DEF Reverse
    <3>2. \A i \in 1 .. n + 1 : s[((n + 1) - i) + 1] \in S
      <4>1. \A i \in 1 .. n + 1 : ((n + 1) - i) + 1 \in 1 .. Len(s)
        BY <1>3
      <4> QED BY <4>1, <1>3
    <3>3. ((n + 1) - 1) + 1 = n + 1
      OBVIOUS
    <3> QED BY <3>1, <3>2, <3>3, <1>3
  <2> DEFINE b == Reverse(s)
  <2> HIDE DEF b
  <2>4. b \in Seq(S) /\ Len(b) = n + 1 /\ b[1] = CR
    BY <2>3 DEF b
  <2>5. ASSUME NEW c \in Seq(S), 1 <= Len(c), c[1] = CR PROVE SubSeq(c, 1, 1) = <<CR>>
    <3> DEFINE d == SubSeq(c, 1, 1)
    <3>1. d \in Seq(S) /\ Len(d) = 1 /\ \A j \in 1 .. 1 : d[j] = c[j]
      BY <2>5, Beginning
    <3> HIDE DEF d
    <3>2. Len(d) = Len(<<CR>>) /\ \A j \in 1 .. Len(d) : d[j] = <<CR>>[j]
      BY <3>1, <2>5, <1>2
    <3>3. d = <<CR>>
      BY <3>1, <3>2, <1>2, SeqEqual
    <3> QED BY <3>3 DEF d
  <2>7. SubSeq(b, 1, 1) = <<CR>> /\ SubSeq(<<CR>>, 1, 1) = <<CR>>
    <3>1. 1 <= Len(b) /\ 1 <= Len(<<CR>>)
      BY <2>4, <1>2
    <3>2. SubSeq(b, 1, 1) = <<CR>>
      BY <3>1, <2>4, <2>5
    <3>3. SubSeq(<<CR>>, 1, 1) = <<CR>>
      BY <3>1, <1>2, <2>5
    <3> QED BY <3>2, <3>3
  <2>6. IsPrefix(<<CR>>, b)
    BY <2>4, <2>7, <1>2 DEF IsPrefix
  <2> QED BY <2>1, <2>2, <2>6 DEF IsSuffix, b
<1>5. Front(s) = r
  <2> DEFINE f == SubSeq(s, 1, n)
  <2>1. f \in Seq(S) /\ Len(f) = n /\ \A j \in 1 .. n : f[j] = s[j]
    BY <1>3, Beginning
  <2>2. Front(s) = f
    BY <1>3 DEF Front
  <2> HIDE DEF f
  <2>3. f = r
    BY <2>1, <1>1, <1>3, SeqEqual
  <2> QED BY <2>2, <2>3
<1> QED BY <1>4, <1>5 DEF Chomped, s

SplitInRows(w, S, rows, rest) ==
  /\ w \in Seq(S)
  /\ Len(Split(w, LF)) = Len(rows) + 1 /\ Split(w, LF) \in Seq(Seq(S))
  /\ \A k \in 1 .. Len(rows) : Split(w, LF)[k] = rows[k] \o <<CR>>
  /\ Split(w, LF)[Len(rows) + 1] = rest

RowAt(w, to, n, row, k, a, l) ==
  /\ a \in Nat /\ l \in Nat /\ a = to[k - 1] /\ l = Len(row)
  /\ to[k] = a + (l + 2) /\ a + (l + 2) <= n
  /\ \A j \in 1 .. l : w[a + j] = row[j]
  /\ w[a + (l + 1)] = CR /\ w[a + (l + 2)] = Feed

\* The k-th piece of w between line breaks is the k-th row and a CR.
LEMMA RowPieces ==
  ASSUME NEW S, NEW R \in SUBSET S, Feed \notin R, Feed \in S, CR \in S,
         NEW rows \in Seq(Seq(R)), NEW rest \in Seq(R)
  PROVE  SplitInRows(Lined(rows, NewLine, rest), S, rows, rest)
<1> DEFINE w == Lined(rows, NewLine, rest)
<1>1. PICK M \in Nat : M = Len(rows)
  OBVIOUS
<1>2. NewLine \in Seq(S) /\ Len(NewLine) = 2 /\ NewLine[1] = CR /\ NewLine[2] = Feed
      /\ LF[1] = Feed /\ CR # Feed
  <2>1. NewLine = <<CR, Feed>> /\ LF = <<Feed>>
    BY Marks, Zenon DEF CR, Feed
  <2>2. CR # Feed
    BY DEF CR, Feed
  <2>3. <<CR, Feed>> \in Seq(S) /\ Len(<<CR, Feed>>) = 2
    OBVIOUS
  <2> QED BY <2>1, <2>2, <2>3
<1>3. \A k \in 1 .. M : rows[k] \in Seq(R) /\ rows[k] \in Seq(S)
  BY <1>1
<1>4. rest \in Seq(S)
  OBVIOUS
<1> DEFINE parts == Ended(rows, NewLine)
           pieces == Append(parts, rest)
<1>5. parts \in Seq(Seq(S)) /\ Len(parts) = M /\ \A k \in 1 .. M : parts[k] = rows[k] \o NewLine
  BY <1>1, <1>2, <1>3 DEF Ended
<1> HIDE DEF parts
<1>6. /\ pieces \in Seq(Seq(S)) /\ Len(pieces) = M + 1 /\ pieces[M + 1] = rest
      /\ \A k \in 1 .. M : pieces[k] = rows[k] \o NewLine
  BY <1>4, <1>5
<1>7. FlattenSeq(pieces) = w
  <2>1. FlattenSeq(pieces) = FlattenSeq(parts) \o rest
    BY <1>4, <1>5, FlattenAppended
  <2> QED BY <2>1 DEF Lined, parts
<1> HIDE DEF pieces, w
<1>8. w \in Seq(S) /\ \E at : PiecesAt(at, pieces, w)
  BY <1>6, <1>7, FlattenPieces
<1>9. PICK at : PiecesAt(at, pieces, w)
  BY <1>8
<1>10. PICK n \in Nat : n = Len(w)
  BY <1>8
<1> DEFINE N == M + 1
<1>11. /\ at \in [0 .. N -> Nat] /\ at[0] = 0 /\ at[N] = n
       /\ \A k \in 1 .. N : at[k] = at[k - 1] + Len(pieces[k])
       /\ \A k \in 1 .. N : \A j \in 1 .. Len(pieces[k]) : w[at[k - 1] + j] = pieces[k][j]
  BY <1>6, <1>9, <1>10 DEF PiecesAt
<1>12. \A i, j \in 0 .. N : i <= j => at[i] <= at[j]
  BY <1>6, <1>8, <1>9, PiecesInOrder
<1>13. N \in Nat /\ N # 0 /\ N - 1 = M
  OBVIOUS
<1> HIDE DEF N
<1> DEFINE to == [k \in 0 .. N |-> IF k = N THEN n + 1 ELSE at[k]]
<1>14. to \in [0 .. N -> Nat] /\ to[0] = 0 /\ to[N] = n + 1 /\ \A k \in 0 .. M : to[k] = at[k]
  BY <1>11, <1>13
<1> HIDE DEF to
<1>15. ASSUME NEW k \in 1 .. M PROVE \E b, l : RowAt(w, to, n, rows[k], k, b, l)
  <2>1. k \in 1 .. N /\ k \in 0 .. N /\ k - 1 \in 0 .. N /\ k - 1 \in 0 .. M /\ k \in 0 .. M /\ N \in 0 .. N /\ k <= N
    BY <1>13
  <2>2. PICK r \in Seq(S) : r = rows[k]
    BY <1>3
  <2>3. at[k - 1] \in Nat /\ Len(r) \in Nat
    <3>1. k - 1 \in 0 .. N /\ at \in [0 .. N -> Nat]
      BY <2>1, <1>11
    <3>2. at[k - 1] \in Nat
      BY <3>1
    <3> QED BY <3>2
  <2>4. PICK b \in Nat, l \in Nat : b = at[k - 1] /\ l = Len(r)
    BY <2>3
  <2> DEFINE p == r \o NewLine
  <2>5. /\ Len(p) = l + 2 /\ (\A j \in 1 .. l : p[j] = r[j]) /\ p[l + 1] = CR /\ p[l + 2] = Feed
    <3>1. Len(p) = l + 2 /\ (\A j \in 1 .. l : p[j] = r[j]) /\ \A j \in 1 .. 2 : p[l + j] = NewLine[j]
      <4>1. NewLine \in Seq(S)
        BY <1>2
      <4>2. IsJoin(p, S, r, NewLine)
        BY <4>1, Joined
      <4>3. Len(NewLine) = 2 /\ Len(r) = l
        BY <2>4, <1>2
      <4> HIDE DEF p
      <4>4. Len(p) = Len(r) + Len(NewLine)
        BY <4>2 DEF IsJoin
      <4>5. (\A j \in 1 .. Len(r) : p[j] = r[j]) /\ (\A j \in 1 .. Len(NewLine) : p[Len(r) + j] = NewLine[j])
        BY <4>2 DEF IsJoin
      <4> QED BY <4>3, <4>4, <4>5
    <3> HIDE DEF p
    <3> QED BY <3>1, <1>2
  <2>6. pieces[k] = p
    BY <2>2, <1>6
  <2> HIDE DEF p
  <2>7. at[k] = b + (l + 2)
    BY <2>1, <2>4, <2>5, <2>6, <1>11
  <2>8. \A j \in 1 .. l + 2 : w[b + j] = p[j]
    BY <2>1, <2>4, <2>5, <2>6, <1>11
  <2>9. at[k] <= n
    BY <2>1, <1>11, <1>12
  <2>10. b = to[k - 1] /\ to[k] = b + (l + 2) /\ b + (l + 2) <= n
    <3>1. to[k - 1] = at[k - 1] /\ to[k] = at[k]
      BY <2>1, <1>14
    <3> QED BY <3>1, <2>4, <2>7, <2>9
  <2>11. \A j \in 1 .. l : w[b + j] = r[j]
    BY <2>5, <2>8
  <2>12. w[b + (l + 1)] = CR /\ w[b + (l + 2)] = Feed
    <3>1. l + 1 \in 1 .. l + 2 /\ l + 2 \in 1 .. l + 2
      OBVIOUS
    <3> QED BY <3>1, <2>5, <2>8
  <2>13. RowAt(w, to, n, r, k, b, l)
    BY <2>4, <2>10, <2>11, <2>12 DEF RowAt
  <2> QED BY <2>2, <2>13
<1>16. to[M] <= n /\ to[M] \in Nat
  <2>1. M \in 0 .. N /\ N \in 0 .. N /\ M \in 0 .. M /\ M <= N
    BY <1>13
  <2> QED BY <2>1, <1>11, <1>12, <1>14
<1>17. PICK a \in Nat : a = to[M] /\ a + Len(rest) = n /\ \A j \in 1 .. Len(rest) : w[a + j] = rest[j]
  <2>1. N \in 1 .. N /\ M \in 0 .. M
    BY <1>13
  <2>2. at[N] = at[M] + Len(pieces[N]) /\ \A j \in 1 .. Len(pieces[N]) : w[at[M] + j] = pieces[N][j]
    BY <2>1, <1>11, <1>13
  <2>3. pieces[N] = rest
    BY <1>6 DEF N
  <2> QED BY <2>1, <2>2, <2>3, <1>11, <1>14, <1>16, ZenonT(30)
<1>18. Parted(w, LF, to, N)
  <2>1. ASSUME NEW k \in 1 .. N PROVE to[k - 1] < to[k] /\ to[k] <= n + 1
    <3>1. CASE k \in 1 .. M
      <4>1. PICK b, l : RowAt(w, to, n, rows[k], k, b, l)
        BY <3>1, <1>15
      <4> QED BY SMTT(30), <4>1 DEF RowAt
    <3>2. CASE k = N
      BY <3>2, <1>13, <1>14, <1>16
    <3> QED BY <3>1, <3>2, <1>13
  <2>2. ASSUME NEW k \in 1 .. N - 1 PROVE w[to[k]] = LF[1]
    <3>1. k \in 1 .. M
      BY <1>13
    <3>2. PICK b, l : RowAt(w, to, n, rows[k], k, b, l)
      BY <3>1, <1>15
    <3> QED BY <3>2, <1>2 DEF RowAt
  <2>3. ASSUME NEW k \in 1 .. N, NEW j \in to[k - 1] + 1 .. to[k] - 1 PROVE w[j] # LF[1]
    <3>1. CASE k \in 1 .. M
      <4>0. PICK b, l : RowAt(w, to, n, rows[k], k, b, l)
        BY <3>1, <1>15
      <4>1. /\ b \in Nat /\ l \in Nat /\ b = to[k - 1] /\ l = Len(rows[k]) /\ to[k] = b + (l + 2)
            /\ \A i \in 1 .. l : w[b + i] = rows[k][i]
            /\ w[b + (l + 1)] = CR
        BY <4>0 DEF RowAt
      <4>2. j \in b + 1 .. b + (l + 1)
        BY SMTT(30), <4>1
      <4>3. CASE j = b + (l + 1)
        BY <4>1, <4>3, <1>2
      <4>4. CASE j # b + (l + 1)
        <5>1. PICK i \in 1 .. l : j = b + i
          <6>1. j - b \in 1 .. l /\ j = b + (j - b)
            <7>1. b \in Nat /\ l \in Nat
              BY <4>1
            <7> QED BY <7>1, <4>2, <4>4
          <6> QED BY <6>1
        <5>2. rows[k][i] \in R
          BY <5>1, <4>1, <3>1, <1>3
        <5> QED BY <5>1, <5>2, <4>1, <1>2
      <4> QED BY <4>3, <4>4
    <3>2. CASE k = N
      <4>1. j \in a + 1 .. n
        BY <3>2, <1>13, <1>14, <1>17
      <4>2. PICK i \in 1 .. Len(rest) : j = a + i
        <5>1. j - a \in 1 .. Len(rest) /\ j = a + (j - a)
          BY <4>1, <1>17, SMTT(30)
        <5> QED BY <5>1
      <4>3. rest[i] \in R
        BY <4>2
      <4> QED BY <4>2, <4>3, <1>2, <1>17
    <3> QED BY <3>1, <3>2, <1>13
  <2> QED BY <2>1, <2>2, <2>3, <1>10, <1>13, <1>14 DEF Parted
<1>19. Len(Split(w, LF)) = N /\ \A k \in 1 .. N : Split(w, LF)[k] = Piece(w, to, k)
  BY <1>8, <1>18, SplitParted
<1>20. ASSUME NEW k \in 1 .. M PROVE Piece(w, to, k) = rows[k] \o <<CR>>
  <2>0. PICK b, l : RowAt(w, to, n, rows[k], k, b, l)
    BY <1>15
  <2>1. /\ b \in Nat /\ l \in Nat /\ b = to[k - 1] /\ l = Len(rows[k]) /\ to[k] = b + (l + 2) /\ b + (l + 2) <= n
        /\ \A i \in 1 .. l : w[b + i] = rows[k][i]
        /\ w[b + (l + 1)] = CR
    BY <2>0 DEF RowAt
  <2>2. PICK r \in Seq(S) : r = rows[k] /\ Len(r) = l
    BY <2>1, <1>3
  <2>3. PICK z \in Nat : z = b + (l + 1) /\ b <= z /\ z <= n /\ z - b = l + 1 /\ to[k] - 1 = z
    <3>1. b \in Nat /\ l \in Nat /\ b + (l + 2) <= n /\ to[k] = b + (l + 2)
      BY <2>1
    <3> QED BY <3>1
  <2> DEFINE p == SubSeq(w, b + 1, z)
             q == r \o <<CR>>
  <2>4. Piece(w, to, k) = p
    BY <2>1, <2>3 DEF Piece
  <2>5. p \in Seq(S) /\ Len(p) = z - b /\ \A i \in 1 .. z - b : p[i] = w[b + i]
    <3>1. b \in Nat /\ z <= Len(w)
      BY <2>1, <2>3, <1>10
    <3> QED BY SMTT(30), <3>1, <2>3, <1>8, Slice
  <2>6. q \in Seq(S) /\ Len(q) = l + 1 /\ (\A i \in 1 .. l : q[i] = r[i]) /\ q[l + 1] = CR
    BY <2>2, Followed
  <2> HIDE DEF p, q
  <2>7. ASSUME NEW i \in 1 .. l + 1 PROVE p[i] = q[i]
    <3>1. p[i] = w[b + i]
      BY <2>3, <2>5
    <3>2. CASE i = l + 1
      BY <3>1, <3>2, <2>1, <2>6
    <3>3. CASE i # l + 1
      <4>1. i \in 1 .. l
        BY <3>3, <2>1, SMTT(30)
      <4> QED BY <3>1, <4>1, <2>1, <2>2, <2>6
    <3> QED BY <3>2, <3>3
  <2>8. Len(p) = Len(q) /\ \A i \in 1 .. Len(p) : p[i] = q[i]
    BY <2>3, <2>5, <2>6, <2>7
  <2>9. p = q
    BY <2>5, <2>6, <2>8, SeqEqual
  <2> QED BY <2>2, <2>4, <2>9 DEF q
<1>21. Piece(w, to, N) = rest
  <2> DEFINE p == SubSeq(w, a + 1, n)
  <2>1. Piece(w, to, N) = p
    <3>1. to[N] - 1 = n /\ to[N - 1] = a
      BY <1>13, <1>14, <1>17
    <3> QED BY <3>1 DEF Piece
  <2>2. p \in Seq(S) /\ Len(p) = n - a /\ \A i \in 1 .. n - a : p[i] = w[a + i]
    <3>1. a <= n /\ n <= Len(w)
      BY <1>10, <1>17
    <3> QED BY <3>1, <1>8, Slice
  <2> HIDE DEF p
  <2>3. Len(p) = Len(rest) /\ \A i \in 1 .. Len(p) : p[i] = rest[i]
    BY SMTT(30), <2>2, <1>17
  <2>4. p = rest
    BY <2>2, <2>3, <1>4, SeqEqual
  <2> QED BY <2>1, <2>4
<1>22. \A k \in 1 .. M : Split(w, LF)[k] = rows[k] \o <<CR>>
  <2>1. \A k \in 1 .. M : k \in 1 .. N
    BY <1>13
  <2> QED BY <2>1, <1>19, <1>20
<1>23. Split(w, LF)[N] = rest /\ Len(Split(w, LF)) = M + 1
  BY <1>13, <1>19, <1>21
<1>24. Split(w, LF) \in Seq(Seq(S))
  BY <1>8, <1>18, SplitParted
<1>25. SplitInRows(w, S, rows, rest)
  BY <1>1, <1>8, <1>22, <1>23, <1>24 DEF N, SplitInRows
<1> QED BY <1>25 DEF w

\* What str::lines makes of rows with line breaks.
LEMMA LinesAre ==
  ASSUME NEW S, NEW R \in SUBSET S, Feed \notin R, Feed \in S, CR \in S,
         NEW rows \in Seq(Seq(R)), NEW rest \in Seq(R)
  PROVE  LinesOf(Lined(rows, NewLine, rest)) = IF rest = << >> THEN rows ELSE Append(rows, rest)
<1> DEFINE w == Lined(rows, NewLine, rest)
           pieces == Split(w, LF)
<1>1. PICK M \in Nat : M = Len(rows)
  OBVIOUS
<1>2. SplitInRows(w, S, rows, rest)
  BY RowPieces
<1> HIDE DEF w
<1>3. /\ Len(pieces) = M + 1 /\ pieces \in Seq(Seq(S)) /\ pieces[M + 1] = rest
      /\ \A k \in 1 .. M : pieces[k] = rows[k] \o <<CR>>
  BY <1>1, <1>2 DEF SplitInRows
<1>4. LinesOf(w) = LinesIn(pieces)
  BY LinesIs
<1> HIDE DEF pieces
<1>5. ASSUME NEW k \in 1 .. M PROVE Chomped(pieces[k]) = rows[k]
  <2>1. rows[k] \in Seq(S)
    BY <1>1
  <2> QED BY <2>1, <1>3, ChompedRow
<1> DEFINE front == [k \in 1 .. Len(pieces) - 1 |-> Chomped(pieces[k])]
<1>6. front = rows
  <2>1. front = [k \in 1 .. M |-> rows[k]]
    BY <1>3, <1>5
  <2>2. rows = [k \in 1 .. M |-> rows[k]]
    BY <1>1
  <2> QED BY <2>1, <2>2
<1>7. Last(pieces) = rest
  BY <1>3 DEF Last
<1>8. LinesIn(pieces) = rows \o IF rest = << >> THEN << >> ELSE <<rest>>
  BY <1>6, <1>7 DEF LinesIn
<1>9. CASE rest = << >>
  <2>1. rows \o << >> = rows
    OBVIOUS
  <2> QED BY <2>1, <1>4, <1>8, <1>9 DEF w
<1>10. CASE rest # << >>
  <2>1. rows \o <<rest>> = Append(rows, rest)
    BY AppendIsConcat
  <2> QED BY <2>1, <1>4, <1>8, <1>10 DEF w
<1> QED BY <1>9, <1>10

LEMMA SeqInduction ==
  ASSUME NEW S, NEW T, << >> \in T, \A s \in Seq(S) : \A x \in S : s \in T => Append(s, x) \in T
  PROVE  \A s \in Seq(S) : s \in T
<1> DEFINE U == {n \in Nat : \A s \in Seq(S) : Len(s) = n => s \in T}
<1>1. 0 \in U
  <2>1. \A s \in Seq(S) : Len(s) = 0 => s = << >>
    OBVIOUS
  <2> QED BY <2>1
<1>2. ASSUME NEW n \in Nat, n \in U PROVE n + 1 \in U
  <2> SUFFICES ASSUME NEW s \in Seq(S), Len(s) = n + 1 PROVE s \in T
    OBVIOUS
  <2>1. s # << >>
    OBVIOUS
  <2>2. PICK r \in Seq(S), x \in S : s = Append(r, x)
    BY <2>1, SequenceEmptyOrAppend
  <2>3. Len(r) = n
    <3>1. Len(Append(r, x)) = Len(r) + 1 /\ Len(r) \in Nat
      OBVIOUS
    <3> QED BY <3>1, <2>2
  <2>4. r \in T
    BY <2>3, <1>2
  <2> QED BY <2>2, <2>4
<1> HIDE DEF U
<1>3. \A n \in Nat : n \in U
  BY <1>1, <1>2, Induction
<1>4. ASSUME NEW s \in Seq(S) PROVE s \in T
  <2>1. Len(s) \in U
    BY <1>3
  <2> QED BY <2>1 DEF U
<1> QED BY <1>4

LEMMA EndedTyped ==
  ASSUME NEW S, NEW rows \in Seq(Seq(S)), NEW sep \in Seq(S)
  PROVE  /\ Ended(rows, sep) \in Seq(Seq(S)) /\ Len(Ended(rows, sep)) = Len(rows)
         /\ \A k \in 1 .. Len(rows) : Ended(rows, sep)[k] = rows[k] \o sep
<1>1. PICK n \in Nat : n = Len(rows) /\ rows \in [1 .. n -> Seq(S)]
  OBVIOUS
<1>2. ASSUME NEW k \in 1 .. n PROVE rows[k] \o sep \in Seq(S)
  <2>1. rows[k] \in Seq(S)
    BY <1>1
  <2> QED BY <2>1
<1> QED BY <1>1, <1>2 DEF Ended

LEMMA EndedConcat ==
  ASSUME NEW S, NEW a \in Seq(Seq(S)), NEW b \in Seq(Seq(S)), NEW sep \in Seq(S)
  PROVE  Ended(a \o b, sep) = Ended(a, sep) \o Ended(b, sep)
<1> DEFINE c == a \o b
           x == Ended(c, sep)
           ea == Ended(a, sep)
           eb == Ended(b, sep)
           y == ea \o eb
<1>1. PICK m \in Nat, n \in Nat : m = Len(a) /\ n = Len(b)
  OBVIOUS
<1>2. /\ c \in Seq(Seq(S)) /\ Len(c) = m + n
      /\ (\A k \in 1 .. m : c[k] = a[k]) /\ (\A k \in 1 .. n : c[m + k] = b[k])
  <2>1. IsJoin(c, Seq(S), a, b)
    BY Joined
  <2> HIDE DEF c
  <2> QED BY <2>1, <1>1 DEF IsJoin
<1> HIDE DEF c
<1>3. x \in Seq(Seq(S)) /\ Len(x) = m + n /\ \A k \in 1 .. m + n : x[k] = c[k] \o sep
  BY <1>2, EndedTyped, ZenonT(40)
<1>4. ea \in Seq(Seq(S)) /\ Len(ea) = m /\ \A k \in 1 .. m : ea[k] = a[k] \o sep
  BY <1>1, EndedTyped
<1>5. eb \in Seq(Seq(S)) /\ Len(eb) = n /\ \A k \in 1 .. n : eb[k] = b[k] \o sep
  BY <1>1, EndedTyped
<1> HIDE DEF x, ea, eb
<1>6. /\ y \in Seq(Seq(S)) /\ Len(y) = m + n
      /\ (\A k \in 1 .. m : y[k] = ea[k]) /\ (\A k \in 1 .. n : y[m + k] = eb[k])
  <2>1. IsJoin(y, Seq(S), ea, eb)
    BY <1>4, <1>5, Joined
  <2> HIDE DEF y
  <2> QED BY <2>1, <1>4, <1>5 DEF IsJoin
<1> HIDE DEF y
<1>7. ASSUME NEW k \in 1 .. m + n PROVE x[k] = y[k]
  <2>1. CASE k \in 1 .. m
    BY <2>1, <1>2, <1>3, <1>4, <1>6, ZenonT(30)
  <2>2. CASE k \notin 1 .. m
    <3>1. PICK j \in 1 .. n : k = m + j
      <4>1. k - m \in 1 .. n /\ k = m + (k - m)
        BY <2>2
      <4> QED BY <4>1
    <3> QED BY <3>1, <1>2, <1>3, <1>5, <1>6
  <2> QED BY <2>1, <2>2
<1>8. x = y
  BY <1>3, <1>6, <1>7, SeqEqual
<1> QED BY <1>8 DEF x, y, c, ea, eb

LEMMA EndedOne ==
  ASSUME NEW S, NEW r \in Seq(S), NEW sep \in Seq(S)
  PROVE  Ended(<<r>>, sep) = <<r \o sep>>
<1> DEFINE one == <<r>>
           x == Ended(one, sep)
           e == r \o sep
<1>1. one \in Seq(Seq(S)) /\ Len(one) = 1 /\ one[1] = r /\ 1 \in 1 .. 1
  OBVIOUS
<1> HIDE DEF one
<1>2. x \in Seq(Seq(S)) /\ Len(x) = Len(one) /\ \A k \in 1 .. Len(one) : x[k] = one[k] \o sep
  BY <1>1, EndedTyped
<1>3. x \in Seq(Seq(S)) /\ Len(x) = 1 /\ x[1] = e
  BY <1>1, <1>2
<1> HIDE DEF x, e
<1>4. x = <<e>>
  BY <1>3
<1> QED BY <1>4 DEF x, e, one

LEMMA EndedNone == ASSUME NEW sep PROVE Ended(<< >>, sep) = << >>
BY DEF Ended

LEMMA LinedTyped ==
  ASSUME NEW S, NEW rows \in Seq(Seq(S)), NEW sep \in Seq(S), NEW t \in Seq(S)
  PROVE  /\ FlattenSeq(Ended(rows, sep)) \in Seq(S) /\ Lined(rows, sep, t) \in Seq(S)
<1> DEFINE f == FlattenSeq(Ended(rows, sep))
<1>1. f \in Seq(S)
  BY EndedTyped, FlattenTyped
<1> HIDE DEF f
<1>2. f \o t \in Seq(S)
  BY <1>1
<1> QED BY <1>1, <1>2 DEF Lined, f

LinedOfTwo(a, b, sep, t) == Lined(a \o b, sep, t) = FlattenSeq(Ended(a, sep)) \o Lined(b, sep, t)

LEMMA LinedConcat ==
  ASSUME NEW S, NEW a \in Seq(Seq(S)), NEW b \in Seq(Seq(S)), NEW sep \in Seq(S), NEW t \in Seq(S)
  PROVE  LinedOfTwo(a, b, sep, t)
<1> DEFINE ea == Ended(a, sep)
           eb == Ended(b, sep)
           fa == FlattenSeq(ea)
           fb == FlattenSeq(eb)
<1>1. ea \in Seq(Seq(S)) /\ eb \in Seq(Seq(S))
  BY EndedTyped
<1>2. Ended(a \o b, sep) = ea \o eb
  BY EndedConcat
<1> HIDE DEF ea, eb
<1>3. FlattenSeq(ea \o eb) = fa \o fb /\ fa \in Seq(S) /\ fb \in Seq(S)
  BY <1>1, FlattenConcat, FlattenTyped
<1> HIDE DEF fa, fb
<1>4. (fa \o fb) \o t = fa \o (fb \o t)
  BY SMTT(30), <1>3, ConcatAssociative
<1>5. Lined(a \o b, sep, t) = (fa \o fb) \o t
  BY <1>2, <1>3 DEF Lined
<1>6. Lined(b, sep, t) = fb \o t
  BY DEF Lined, fb, eb
<1> QED BY <1>4, <1>5, <1>6 DEF fa, ea, LinedOfTwo

LEMMA LinedNone ==
  ASSUME NEW S, NEW sep, NEW t \in Seq(S) PROVE Lined(<< >>, sep, t) = t
<1>1. << >> \o t = t
  OBVIOUS
<1> QED BY <1>1, EndedNone, FlattenNone DEF Lined

\* A further row, and further octets of the last line.
FurtherRow(rows, r, sep, t) == Lined(Append(rows, r), sep, t) = Lined(rows, sep, r) \o (sep \o t)

LEMMA LinedRow ==
  ASSUME NEW S, NEW rows \in Seq(Seq(S)), NEW r \in Seq(S), NEW sep \in Seq(S), NEW t \in Seq(S)
  PROVE  FurtherRow(rows, r, sep, t)
<1> DEFINE f == FlattenSeq(Ended(rows, sep))
           one == <<r>>
<1>1. Append(rows, r) = rows \o one
  BY AppendIsConcat
<1>a. one \in Seq(Seq(S))
  OBVIOUS
<1> HIDE DEF one
<1>2. Lined(rows \o one, sep, t) = f \o Lined(one, sep, t)
  <2>1. LinedOfTwo(rows, one, sep, t)
    BY <1>a, LinedConcat
  <2> QED BY <2>1 DEF LinedOfTwo
<1> USE DEF one
<1>3. Lined(<<r>>, sep, t) = (r \o sep) \o t
  <2>1. r \o sep \in Seq(S)
    OBVIOUS
  <2>2. FlattenSeq(<<r \o sep>>) = r \o sep
    BY <2>1, FlattenOne
  <2> QED BY <2>2, EndedOne DEF Lined
<1>4. f \in Seq(S)
  BY LinedTyped
<1>5. (r \o sep) \o t = r \o (sep \o t) /\ sep \o t \in Seq(S)
  BY ConcatAssociative
<1> HIDE DEF f
<1>6. (f \o r) \o (sep \o t) = f \o (r \o (sep \o t))
  BY <1>4, <1>5, ConcatAssociative, SMTT(30)
<1>7. Lined(rows, sep, r) = f \o r
  BY DEF Lined, f
<1> QED BY <1>1, <1>2, <1>3, <1>5, <1>6, <1>7 DEF FurtherRow

FurtherOctets(rows, sep, t, u) == Lined(rows, sep, t \o u) = Lined(rows, sep, t) \o u

LEMMA LinedMore ==
  ASSUME NEW S, NEW rows \in Seq(Seq(S)), NEW sep \in Seq(S), NEW t \in Seq(S), NEW u \in Seq(S)
  PROVE  FurtherOctets(rows, sep, t, u)
<1> DEFINE f == FlattenSeq(Ended(rows, sep))
<1>1. f \in Seq(S)
  BY LinedTyped
<1> HIDE DEF f
<1>2. (f \o t) \o u = f \o (t \o u)
  BY <1>1, ConcatAssociative
<1> QED BY <1>2 DEF Lined, f, FurtherOctets

Led(lines, sep) == [i \in 1 .. Len(lines) |-> sep \o lines[i]]

LEMMA LedRow ==
  ASSUME NEW S, NEW rows \in Seq(Seq(S)), NEW r \in Seq(S), NEW sep \in Seq(S)
  PROVE  Led(Append(rows, r), sep) = Append(Led(rows, sep), sep \o r) /\ Led(rows, sep) \in Seq(Seq(S))
<1>1. PICK n \in Nat : n = Len(rows) /\ rows \in [1 .. n -> Seq(S)]
  OBVIOUS
<1>2. ASSUME NEW k \in 1 .. n PROVE sep \o rows[k] \in Seq(S)
  <2>1. rows[k] \in Seq(S)
    BY <1>1
  <2> QED BY <2>1
<1> DEFINE a == Led(rows, sep)
           e == sep \o r
           c == Append(rows, r)
           x == Led(c, sep)
           y == Append(a, e)
<1>3. a \in Seq(Seq(S)) /\ Len(a) = n /\ \A k \in 1 .. n : a[k] = sep \o rows[k]
  BY <1>1, <1>2 DEF Led
<1>4. e \in Seq(S)
  OBVIOUS
<1>5. Len(c) = n + 1 /\ (\A k \in 1 .. n : c[k] = rows[k]) /\ c[n + 1] = r
  BY <1>1
<1> HIDE DEF a, c
<1>6. x = [k \in 1 .. n + 1 |-> sep \o c[k]]
  BY <1>5 DEF Led
<1>7. ASSUME NEW k \in 1 .. n + 1 PROVE sep \o c[k] = IF k = n + 1 THEN e ELSE a[k]
  <2>1. CASE k = n + 1
    BY <2>1, <1>5
  <2>2. CASE k # n + 1
    <3>1. k \in 1 .. n
      BY <2>2
    <3> QED BY <3>1, <2>2, <1>3, <1>5
  <2> QED BY <2>1, <2>2
<1> HIDE DEF e
<1>8. y \in Seq(Seq(S)) /\ Len(y) = n + 1 /\ (\A k \in 1 .. n : y[k] = a[k]) /\ y[n + 1] = e
  <2>1. Len(a) = n
    BY <1>3
  <2> QED BY <2>1, <1>3, <1>4, AppendProperties
<1>10. \A k \in 1 .. n + 1 : (IF k = n + 1 THEN e ELSE a[k]) \in Seq(S)
  BY <1>3, <1>4
<1>11. x = [k \in 1 .. n + 1 |-> IF k = n + 1 THEN e ELSE a[k]]
  BY <1>6, <1>7
<1> HIDE DEF y, x
<1>12. x \in Seq(Seq(S)) /\ Len(x) = n + 1 /\ \A k \in 1 .. n + 1 : x[k] = IF k = n + 1 THEN e ELSE a[k]
  BY <1>10, <1>11
<1>13. \A k \in 1 .. n + 1 : x[k] = y[k]
  BY <1>8, <1>12, SMTT(30)
<1>9. x = y
  BY <1>8, <1>12, <1>13, SeqEqual
<1> QED BY <1>3, <1>9 DEF x, y, c, e, a

\* Lines that each follow a separator, and lines with separators in between.
LEMMA LedLines ==
  ASSUME NEW S, NEW sep \in Seq(S)
  PROVE  \A rows \in Seq(Seq(S)) : \A t \in Seq(S) :
           FlattenSeq(Led(Append(rows, t), sep)) = sep \o Lined(rows, sep, t)
<1> DEFINE T == {rows \in Seq(Seq(S)) :
                   \A t \in Seq(S) : FlattenSeq(Led(Append(rows, t), sep)) = sep \o Lined(rows, sep, t)}
<1>1. << >> \in T
  <2> SUFFICES ASSUME NEW t \in Seq(S)
               PROVE  FlattenSeq(Led(Append(<< >>, t), sep)) = sep \o Lined(<< >>, sep, t)
    OBVIOUS
  <2>1. Led(Append(<< >>, t), sep) = Append(Led(<< >>, sep), sep \o t)
    <3> DEFINE none == << >>
    <3>1. none \in Seq(Seq(S))
      OBVIOUS
    <3> HIDE DEF none
    <3>2. Led(Append(none, t), sep) = Append(Led(none, sep), sep \o t)
      BY <3>1, LedRow
    <3> QED BY <3>2 DEF none
  <2>2. Led(<< >>, sep) = << >>
    BY DEF Led
  <2>3. Append(<< >>, sep \o t) = <<sep \o t>>
    OBVIOUS
  <2>4. sep \o t \in Seq(S)
    OBVIOUS
  <2> QED BY <2>1, <2>2, <2>3, <2>4, FlattenOne, LinedNone, ZenonT(30)
<1>2. ASSUME NEW rows \in Seq(Seq(S)), NEW r \in Seq(S), rows \in T PROVE Append(rows, r) \in T
  <2>0. Append(rows, r) \in Seq(Seq(S))
    OBVIOUS
  <2> SUFFICES ASSUME NEW t \in Seq(S)
               PROVE  FlattenSeq(Led(Append(Append(rows, r), t), sep)) = sep \o Lined(Append(rows, r), sep, t)
    BY <2>0
  <2>7. Lined(Append(rows, r), sep, t) = Lined(rows, sep, r) \o (sep \o t)
    <3>1. FurtherRow(rows, r, sep, t)
      BY LinedRow
    <3> QED BY <3>1 DEF FurtherRow
  <2> DEFINE c == Append(rows, r)
             e == sep \o t
             a == Lined(rows, sep, r)
  <2>1. c \in Seq(Seq(S)) /\ e \in Seq(S) /\ a \in Seq(S)
    <3>1. c \in Seq(Seq(S))
      OBVIOUS
    <3>2. e \in Seq(S)
      OBVIOUS
    <3>3. Lined(rows, sep, r) \in Seq(S)
      BY LinedTyped
    <3> QED BY <3>1, <3>2, <3>3
  <2>2. FlattenSeq(Led(c, sep)) = sep \o a
    BY <1>2
  <2>3. Lined(c, sep, t) = a \o e
    BY <2>7
  <2> HIDE DEF a, c
  <2>4. Led(Append(c, t), sep) = Append(Led(c, sep), e) /\ Led(c, sep) \in Seq(Seq(S))
    BY <2>1, LedRow
  <2> HIDE DEF e
  <2>5. FlattenSeq(Append(Led(c, sep), e)) = FlattenSeq(Led(c, sep)) \o e
    BY <2>1, <2>4, FlattenAppended
  <2>6. (sep \o a) \o e = sep \o (a \o e)
    BY SMTT(30), <2>1, ConcatAssociative
  <2> QED BY <2>2, <2>3, <2>4, <2>5, <2>6 DEF c
<1>3. \A rows \in Seq(Seq(S)) : rows \in T
  <2> HIDE DEF T
  <2> QED BY <1>1, <1>2, SeqInduction
<1> QED BY <1>3

EndedParts(parts, sep) == [i \in 1 .. Len(parts) |-> FlattenSeq(Ended(parts[i], sep))]
EndedIn(parts, sep) == FlattenSeq(Ended(FlattenSeq(parts), sep)) = FlattenSeq(EndedParts(parts, sep))

LEMMA EndedPart ==
  ASSUME NEW S, NEW parts \in Seq(Seq(Seq(S))), NEW x \in Seq(Seq(S)), NEW sep \in Seq(S)
  PROVE  /\ EndedParts(Append(parts, x), sep) = Append(EndedParts(parts, sep), FlattenSeq(Ended(x, sep)))
         /\ EndedParts(parts, sep) \in Seq(Seq(S)) /\ Len(EndedParts(parts, sep)) = Len(parts)
<1>1. PICK n \in Nat : n = Len(parts) /\ parts \in [1 .. n -> Seq(Seq(S))]
  OBVIOUS
<1>2. ASSUME NEW k \in 1 .. n PROVE FlattenSeq(Ended(parts[k], sep)) \in Seq(S)
  <2>1. PICK p \in Seq(Seq(S)) : p = parts[k]
    BY <1>1
  <2>2. FlattenSeq(Ended(p, sep)) \in Seq(S)
    BY EndedTyped, FlattenTyped
  <2> QED BY <2>1, <2>2
<1> DEFINE a == EndedParts(parts, sep)
           e == FlattenSeq(Ended(x, sep))
           c == Append(parts, x)
           u == EndedParts(c, sep)
           v == Append(a, e)
<1>3. a \in Seq(Seq(S)) /\ Len(a) = n /\ \A k \in 1 .. n : a[k] = FlattenSeq(Ended(parts[k], sep))
  <2>1. a = [i \in 1 .. n |-> FlattenSeq(Ended(parts[i], sep))]
    BY <1>1 DEF EndedParts
  <2> HIDE DEF a
  <2> QED BY <2>1, <1>2
<1>4. e \in Seq(S)
  BY EndedTyped, FlattenTyped
<1>5. Len(c) = n + 1 /\ (\A k \in 1 .. n : c[k] = parts[k]) /\ c[n + 1] = x
  BY <1>1
<1> HIDE DEF a, c
<1>6. u = [k \in 1 .. n + 1 |-> FlattenSeq(Ended(c[k], sep))]
  BY <1>5 DEF EndedParts
<1>7. ASSUME NEW k \in 1 .. n + 1
      PROVE  FlattenSeq(Ended(c[k], sep)) = (IF k = n + 1 THEN e ELSE a[k])
             /\ (IF k = n + 1 THEN e ELSE a[k]) \in Seq(S)
  <2>1. CASE k = n + 1
    BY <2>1, <1>4, <1>5
  <2>2. CASE k # n + 1
    <3>1. k \in 1 .. n
      BY <2>2
    <3>2. c[k] = parts[k]
      BY <3>1, <1>5
    <3> QED BY <3>1, <3>2, <2>2, <1>3
  <2> QED BY <2>1, <2>2
<1> HIDE DEF e
<1>8. v \in Seq(Seq(S)) /\ Len(v) = n + 1 /\ (\A k \in 1 .. n : v[k] = a[k]) /\ v[n + 1] = e
  <2>1. Len(a) = n
    BY <1>3
  <2> QED BY <2>1, <1>3, <1>4, AppendProperties
<1>9. u = [k \in 1 .. n + 1 |-> IF k = n + 1 THEN e ELSE a[k]]
  BY <1>6, <1>7
<1> HIDE DEF u, v
<1>10. u \in Seq(Seq(S)) /\ Len(u) = n + 1 /\ \A k \in 1 .. n + 1 : u[k] = IF k = n + 1 THEN e ELSE a[k]
  BY <1>7, <1>9
<1>11. ASSUME NEW k \in 1 .. n + 1 PROVE u[k] = v[k]
  <2>1. CASE k = n + 1
    BY <2>1, <1>8, <1>10
  <2>2. CASE k # n + 1
    <3>1. k \in 1 .. n
      BY <2>2
    <3> QED BY <3>1, <2>2, <1>8, <1>10
  <2> QED BY <2>1, <2>2
<1>12. u = v
  BY <1>8, <1>10, <1>11, SeqEqual
<1> QED BY <1>1, <1>3, <1>12 DEF u, v, c, e, a

\* The rows of several parts, each ended.
LEMMA EndedFlatten ==
  ASSUME NEW S, NEW sep \in Seq(S)
  PROVE  \A parts \in Seq(Seq(Seq(S))) : EndedIn(parts, sep)
<1> DEFINE T == {parts \in Seq(Seq(Seq(S))) : EndedIn(parts, sep)}
<1>1. << >> \in T
  <2>1. EndedParts(<< >>, sep) = << >>
    BY DEF EndedParts
  <2>2. EndedIn(<< >>, sep)
    BY <2>1, FlattenNone, EndedNone DEF EndedIn
  <2> QED BY <2>2
<1>2. ASSUME NEW parts \in Seq(Seq(Seq(S))), NEW x \in Seq(Seq(S)), parts \in T
      PROVE  Append(parts, x) \in T
  <2> DEFINE f == FlattenSeq(parts)
             ef == Ended(f, sep)
             ex == Ended(x, sep)
             ep == EndedParts(parts, sep)
  <2>1. Append(parts, x) \in Seq(Seq(Seq(S)))
    OBVIOUS
  <2>2. EndedIn(parts, sep)
    BY <1>2
  <2> HIDE DEF T
  <2>3. FlattenSeq(Append(parts, x)) = f \o x
    BY FlattenAppended
  <2>4. f \in Seq(Seq(S))
    BY FlattenTyped
  <2> HIDE DEF f
  <2>5. Ended(f \o x, sep) = ef \o ex
    BY <2>4, EndedConcat
  <2>6. ef \in Seq(Seq(S)) /\ ex \in Seq(Seq(S))
    BY <2>4, EndedTyped
  <2> HIDE DEF ef, ex
  <2>7. FlattenSeq(ef \o ex) = FlattenSeq(ef) \o FlattenSeq(ex)
    BY <2>6, FlattenConcat
  <2>8. EndedParts(Append(parts, x), sep) = Append(ep, FlattenSeq(ex)) /\ ep \in Seq(Seq(S))
    BY EndedPart DEF ex
  <2>9. FlattenSeq(ex) \in Seq(S)
    BY <2>6, FlattenTyped
  <2> HIDE DEF ep
  <2> DEFINE fx == FlattenSeq(ex)
  <2> HIDE DEF fx
  <2>10. FlattenSeq(Append(ep, fx)) = FlattenSeq(ep) \o fx
    BY <2>8, <2>9, FlattenAppended DEF fx
  <2>11. FlattenSeq(ef) = FlattenSeq(ep)
    BY <2>2 DEF EndedIn, ef, f, ep
  <2>12. EndedIn(Append(parts, x), sep)
    BY <2>3, <2>5, <2>7, <2>8, <2>10, <2>11 DEF EndedIn, fx
  <2> QED BY <2>1, <2>12 DEF T
<1>3. \A parts \in Seq(Seq(Seq(S))) : parts \in T
  <2> HIDE DEF T
  <2> QED BY SMTT(30), <1>1, <1>2, SeqInduction
<1> QED BY <1>3

\* The first octets of a row, a CR and a row that is not ended.
RowCut(rows, tail, k, rest) ==
  /\ k \in 0 .. Len(rows)
  /\ k < Len(rows) => \E p \in 0 .. Len(rows[k + 1]) + 1 : rest = SubSeq(rows[k + 1] \o <<CR>>, 1, p)
  /\ k = Len(rows) => \E p \in 0 .. Len(tail) - 1 : rest = SubSeq(tail, 1, p)
CutIs(data, rows, tail, k, rest) ==
  RowCut(rows, tail, k, rest) /\ data = Lined(SubSeq(rows, 1, k), NewLine, rest)

LEMMA EndedBeginning ==
  ASSUME NEW S, NEW rows \in Seq(Seq(S)), NEW sep \in Seq(S), NEW k \in 0 .. Len(rows), NEW t \in Seq(S)
  PROVE  SubSeq(Append(Ended(rows, sep), t), 1, k) = Ended(SubSeq(rows, 1, k), sep)
<1> DEFINE e == Ended(rows, sep)
           front == SubSeq(rows, 1, k)
           x == SubSeq(Append(e, t), 1, k)
           y == Ended(front, sep)
<1>1. PICK n \in Nat : n = Len(rows) /\ k <= n /\ k \in Nat
  OBVIOUS
<1>2. e \in Seq(Seq(S)) /\ Len(e) = n /\ \A j \in 1 .. n : e[j] = rows[j] \o sep
  BY <1>1, EndedTyped
<1>3. front \in Seq(Seq(S)) /\ Len(front) = k /\ \A j \in 1 .. k : front[j] = rows[j]
  <2>1. rows \in Seq(Seq(S)) /\ k \in Nat /\ k <= Len(rows)
    BY <1>1
  <2> QED BY <2>1, Beginning
<1> HIDE DEF e, front
<1>4. y \in Seq(Seq(S)) /\ Len(y) = k /\ \A j \in 1 .. k : y[j] = front[j] \o sep
  BY <1>3, EndedTyped
<1> HIDE DEF y
<1>5. x \in Seq(Seq(S)) /\ Len(x) = k /\ \A j \in 1 .. k : x[j] = e[j]
  <2> DEFINE a == Append(e, t)
  <2>1. a \in Seq(Seq(S)) /\ Len(a) = n + 1 /\ \A j \in 1 .. n : a[j] = e[j]
    BY <1>2
  <2> DEFINE z == SubSeq(a, 1, k)
  <2>4. x = z
    OBVIOUS
  <2> HIDE DEF a, x
  <2>5. z \in Seq(Seq(S)) /\ Len(z) = k /\ \A j \in 1 .. k : z[j] = a[j]
    <3>1. k \in Nat /\ k <= Len(a)
      BY <2>1, <1>1
    <3> QED BY <3>1, <2>1, Beginning
  <2> HIDE DEF z
  <2>2. x \in Seq(Seq(S)) /\ Len(x) = k /\ \A j \in 1 .. k : x[j] = a[j]
    BY <2>4, <2>5
  <2>3. \A j \in 1 .. k : j \in 1 .. n
    BY <1>1
  <2> QED BY <2>1, <2>2, <2>3
<1> HIDE DEF x
<1>6. ASSUME NEW j \in 1 .. k PROVE x[j] = y[j]
  <2>1. j \in 1 .. n
    BY <1>1
  <2> QED BY <2>1, <1>2, <1>3, <1>4, <1>5
<1>7. x = y
  BY <1>4, <1>5, <1>6, SeqEqual
<1> QED BY <1>7 DEF x, y, e, front

LEMMA LinedCut ==
  ASSUME NEW S, CR \in S, Feed \in S, NEW rows \in Seq(Seq(S)), NEW tail \in Seq(S),
         NEW n \in Nat, n < Len(Lined(rows, NewLine, tail))
  PROVE  \E k, rest : CutIs(SubSeq(Lined(rows, NewLine, tail), 1, n), rows, tail, k, rest)
<1> DEFINE e == Ended(rows, NewLine)
           pieces == Append(e, tail)
           w == Lined(rows, NewLine, tail)
<1>0. NewLine \in Seq(S) /\ NewLine = <<CR, Feed>>
  <2>1. NewLine = <<CR, Feed>>
    BY Marks, Zenon DEF CR, Feed
  <2>2. <<CR, Feed>> \in Seq(S)
    OBVIOUS
  <2> QED BY <2>1, <2>2
<1>1. PICK M \in Nat : M = Len(rows)
  OBVIOUS
<1>2. e \in Seq(Seq(S)) /\ Len(e) = M /\ \A k \in 1 .. M : e[k] = rows[k] \o NewLine
  BY <1>0, <1>1, EndedTyped
<1> HIDE DEF e
<1>3. pieces \in Seq(Seq(S)) /\ Len(pieces) = M + 1 /\ pieces[M + 1] = tail
      /\ \A k \in 1 .. M : pieces[k] = rows[k] \o NewLine
  <2>1. pieces \in Seq(Seq(S)) /\ Len(pieces) = M + 1 /\ pieces[M + 1] = tail
        /\ \A k \in 1 .. M : pieces[k] = e[k]
    BY <1>2
  <2> HIDE DEF pieces
  <2> QED BY <2>1, <1>2
<1>4. FlattenSeq(pieces) = w
  <2>1. FlattenSeq(pieces) = FlattenSeq(e) \o tail
    BY <1>2, FlattenAppended
  <2> QED BY <2>1 DEF Lined, e
<1>5. \A k \in 0 .. M : SubSeq(pieces, 1, k) = Ended(SubSeq(rows, 1, k), NewLine)
  BY <1>0, <1>1, EndedBeginning DEF e
<1> HIDE DEF pieces, w
<1>6. PICK k, p : CutsAt(pieces, n, k, p)
  <2>1. n < Len(FlattenSeq(pieces))
    BY <1>4 DEF w
  <2> QED BY <2>1, <1>3, FlattenCut
<1> DEFINE rest == SubSeq(pieces[k + 1], 1, p)
<1>7. /\ k \in Nat /\ k <= M /\ p \in Nat /\ p < Len(pieces[k + 1])
      /\ SubSeq(w, 1, n) = FlattenSeq(SubSeq(pieces, 1, k)) \o rest
  <2>1. k \in Nat /\ k < Len(pieces) /\ p \in Nat /\ p < Len(pieces[k + 1])
    BY <1>6 DEF CutsAt
  <2>2. Len(pieces) = M + 1
    BY <1>3
  <2>3. k <= M
    BY <2>1, <2>2
  <2>4. SubSeq(FlattenSeq(pieces), 1, n) = FlattenSeq(SubSeq(pieces, 1, k)) \o SubSeq(pieces[k + 1], 1, p)
    BY <1>6 DEF CutsAt
  <2> QED BY <2>1, <2>3, <2>4, <1>4
<1>8. SubSeq(w, 1, n) = Lined(SubSeq(rows, 1, k), NewLine, rest)
  <2> HIDE DEF rest
  <2>1. k \in 0 .. M
    BY <1>7
  <2> QED BY <2>1, <1>5, <1>7 DEF Lined
<1>9. ASSUME k < M PROVE \E q \in 0 .. Len(rows[k + 1]) + 1 : rest = SubSeq(rows[k + 1] \o <<CR>>, 1, q)
  <2>1. k + 1 \in 1 .. M
    BY <1>7, <1>9
  <2>2. PICK r \in Seq(S) : r = rows[k + 1]
    BY <2>1, <1>1
  <2>3. PICK l \in Nat : l = Len(r)
    OBVIOUS
  <2> DEFINE a == r \o NewLine
             b == r \o <<CR>>
             y == SubSeq(b, 1, p)
             x == SubSeq(a, 1, p)
  <2>4. pieces[k + 1] = a
    BY <2>1, <2>2, <1>3
  <2>5. a \in Seq(S) /\ Len(a) = l + 2 /\ (\A j \in 1 .. l : a[j] = r[j]) /\ a[l + 1] = CR
    <3>1. IsJoin(a, S, r, NewLine)
      BY <1>0, Joined
    <3>2. Len(NewLine) = 2 /\ NewLine[1] = CR /\ 1 \in 1 .. 2
      BY <1>0
    <3> HIDE DEF a
    <3> QED BY <3>1, <3>2, <2>3 DEF IsJoin
  <2>6. b \in Seq(S) /\ Len(b) = l + 1 /\ (\A j \in 1 .. l : b[j] = r[j]) /\ b[l + 1] = CR
    BY <2>3, Followed
  <2> HIDE DEF a, b
  <2>7. p <= l + 1 /\ p \in Nat
    BY <2>4, <2>5, <1>7
  <2>8. x \in Seq(S) /\ Len(x) = p /\ \A j \in 1 .. p : x[j] = a[j]
    <3>1. p <= Len(a)
      BY <2>5, <2>7
    <3> QED BY <3>1, <2>5, <2>7, Beginning
  <2>9. y \in Seq(S) /\ Len(y) = p /\ \A j \in 1 .. p : y[j] = b[j]
    <3>1. p <= Len(b)
      BY <2>6, <2>7
    <3> QED BY <3>1, <2>6, <2>7, Beginning
  <2> HIDE DEF x, y
  <2>10. ASSUME NEW j \in 1 .. p PROVE x[j] = y[j]
    <3>1. j \in 1 .. l \/ j = l + 1
      BY <2>7
    <3> QED BY <3>1, <2>5, <2>6, <2>8, <2>9
  <2>11. x = y
    BY <2>8, <2>9, <2>10, SeqEqual
  <2>12. rest = y
    BY <2>4, <2>11 DEF x
  <2>13. p \in 0 .. Len(rows[k + 1]) + 1
    BY <2>2, <2>3, <2>7
  <2> QED BY <2>2, <2>12, <2>13 DEF y, b
<1>10. ASSUME k = M PROVE \E q \in 0 .. Len(tail) - 1 : rest = SubSeq(tail, 1, q)
  <2>1. pieces[k + 1] = tail
    BY <1>3, <1>10
  <2>2. p \in 0 .. Len(tail) - 1
    BY <2>1, <1>7
  <2> QED BY <2>1, <2>2
<1> HIDE DEF rest
<1>11. RowCut(rows, tail, k, rest)
  BY SMTT(30), <1>1, <1>7, <1>9, <1>10 DEF RowCut
<1>12. CutIs(SubSeq(w, 1, n), rows, tail, k, rest)
  BY <1>8, <1>11 DEF CutIs
<1> QED BY <1>12 DEF w

\* Strings with no mark, one mark and two.
LEMMA SplitOne ==
  ASSUME NEW S, NEW s \in Seq(S), NEW mark, \A j \in 1 .. Len(s) : s[j] # mark[1]
  PROVE  Len(Split(s, mark)) = 1 /\ Split(s, mark)[1] = s
<1>1. PICK n \in Nat : n = Len(s)
  OBVIOUS
<1> DEFINE at == [k \in 0 .. 1 |-> IF k = 0 THEN 0 ELSE n + 1]
<1>2. at \in [0 .. 1 -> Nat] /\ at[0] = 0 /\ at[1] = n + 1
  OBVIOUS
<1> HIDE DEF at
<1>3. \A k \in 1 .. 1 : k = 1 /\ k - 1 = 0
  OBVIOUS
<1>4. Parted(s, mark, at, 1)
  <2>1. \A j \in 0 + 1 .. (n + 1) - 1 : j \in 1 .. n
    OBVIOUS
  <2>2. 1 .. 1 - 1 = {}
    OBVIOUS
  <2> QED BY <1>1, <1>2, <1>3, <2>1, <2>2 DEF Parted
<1>5. Len(Split(s, mark)) = 1 /\ \A k \in 1 .. 1 : Split(s, mark)[k] = Piece(s, at, k)
  <2>1. PICK N \in Nat : N = 1
    OBVIOUS
  <2>2. Parted(s, mark, at, N)
    BY <2>1, <1>4
  <2>3. Len(Split(s, mark)) = N /\ \A k \in 1 .. N : Split(s, mark)[k] = Piece(s, at, k)
    BY <2>2, SplitParted
  <2> QED BY <2>1, <2>3
<1>6. Piece(s, at, 1) = SubSeq(s, 1, n)
  <2>1. at[1 - 1] + 1 = 1 /\ at[1] - 1 = n
    BY <1>2
  <2> QED BY <2>1 DEF Piece
<1>7. SubSeq(s, 1, n) = s
  BY <1>1
<1> QED BY <1>5, <1>6, <1>7

LEMMA SplitTwo ==
  ASSUME NEW S, NEW s \in Seq(S), NEW mark, NEW a \in 1 .. Len(s), s[a] = mark[1],
         \A j \in 1 .. Len(s) : j # a => s[j] # mark[1]
  PROVE  /\ Len(Split(s, mark)) = 2 /\ Split(s, mark)[1] = SubSeq(s, 1, a - 1)
         /\ Split(s, mark)[2] = SubSeq(s, a + 1, Len(s))
<1>1. PICK n \in Nat : n = Len(s) /\ a \in 1 .. n
  OBVIOUS
<1> DEFINE at == [k \in 0 .. 2 |-> IF k = 0 THEN 0 ELSE IF k = 1 THEN a ELSE n + 1]
<1>2. at \in [0 .. 2 -> Nat] /\ at[0] = 0 /\ at[1] = a /\ at[2] = n + 1
  BY <1>1
<1> HIDE DEF at
<1>3. \A k \in 1 .. 2 : (k = 1 /\ k - 1 = 0) \/ (k = 2 /\ k - 1 = 1)
  OBVIOUS
<1>4. Parted(s, mark, at, 2)
  <2>1. \A k \in 1 .. 2 : at[k - 1] < at[k] /\ at[k] <= n + 1
    BY <1>1, <1>2, <1>3
  <2>2. \A k \in 1 .. 2 - 1 : s[at[k]] = mark[1]
    <3>1. \A k \in 1 .. 2 - 1 : k = 1
      OBVIOUS
    <3> QED BY <3>1, <1>2
  <2>3. ASSUME NEW k \in 1 .. 2, NEW j \in at[k - 1] + 1 .. at[k] - 1 PROVE s[j] # mark[1]
    <3>1. j \in 1 .. n /\ j # a
      <4>1. CASE k = 1
        <5>1. j \in 0 + 1 .. a - 1
          BY <4>1, <1>2
        <5> QED BY <5>1, <1>1
      <4>2. CASE k = 2
        <5>1. j \in a + 1 .. (n + 1) - 1
          BY <4>2, <1>2
        <5> QED BY <5>1, <1>1
      <4> QED BY <4>1, <4>2, <1>3
    <3> QED BY <3>1, <1>1
  <2> QED BY <1>1, <1>2, <2>1, <2>2, <2>3 DEF Parted
<1>5. Len(Split(s, mark)) = 2 /\ \A k \in 1 .. 2 : Split(s, mark)[k] = Piece(s, at, k)
  <2>1. PICK N \in Nat : N = 2
    OBVIOUS
  <2>2. Parted(s, mark, at, N)
    BY <2>1, <1>4
  <2>3. Len(Split(s, mark)) = N /\ \A k \in 1 .. N : Split(s, mark)[k] = Piece(s, at, k)
    BY <2>2, SplitParted
  <2> QED BY <2>1, <2>3
<1>6. Piece(s, at, 1) = SubSeq(s, 1, a - 1)
  <2>1. at[1 - 1] + 1 = 1 /\ at[1] = a
    BY <1>2
  <2> QED BY <2>1 DEF Piece
<1>7. Piece(s, at, 2) = SubSeq(s, a + 1, n)
  <2>1. at[2 - 1] = a /\ at[2] - 1 = n
    BY <1>2
  <2> QED BY <2>1 DEF Piece
<1> QED BY <1>1, <1>5, <1>6, <1>7

MarkedTwice(s, mark, a, b) ==
  /\ a \in 1 .. Len(s) /\ b \in 1 .. Len(s) /\ a < b /\ s[a] = mark[1] /\ s[b] = mark[1]
  /\ \A j \in 1 .. Len(s) : j # a /\ j # b => s[j] # mark[1]
ThreeParts(parts, s, a, b) ==
  /\ Len(parts) = 3 /\ parts[1] = SubSeq(s, 1, a - 1)
  /\ parts[2] = SubSeq(s, a + 1, b - 1) /\ parts[3] = SubSeq(s, b + 1, Len(s))
LEMMA SplitThree ==
  ASSUME NEW S, NEW s \in Seq(S), NEW mark, NEW a, NEW b, MarkedTwice(s, mark, a, b)
  PROVE  ThreeParts(Split(s, mark), s, a, b)
<1>0. /\ a \in 1 .. Len(s) /\ b \in 1 .. Len(s) /\ a < b /\ s[a] = mark[1] /\ s[b] = mark[1]
      /\ \A j \in 1 .. Len(s) : j # a /\ j # b => s[j] # mark[1]
  BY DEF MarkedTwice
<1>1. PICK n \in Nat : n = Len(s) /\ a \in 1 .. n /\ b \in 1 .. n
  BY <1>0
<1> DEFINE at == [k \in 0 .. 3 |-> IF k = 0 THEN 0 ELSE IF k = 1 THEN a ELSE IF k = 2 THEN b ELSE n + 1]
<1>2. at \in [0 .. 3 -> Nat] /\ at[0] = 0 /\ at[1] = a /\ at[2] = b /\ at[3] = n + 1
  BY <1>1
<1> HIDE DEF at
<1>3. \A k \in 1 .. 3 : (k = 1 /\ k - 1 = 0) \/ (k = 2 /\ k - 1 = 1) \/ (k = 3 /\ k - 1 = 2)
  OBVIOUS
<1>4. Parted(s, mark, at, 3)
  <2>1. \A k \in 1 .. 3 : at[k - 1] < at[k] /\ at[k] <= n + 1
    BY <1>0, <1>1, <1>2, <1>3
  <2>2. \A k \in 1 .. 3 - 1 : s[at[k]] = mark[1]
    <3>1. \A k \in 1 .. 3 - 1 : k = 1 \/ k = 2
      OBVIOUS
    <3> QED BY <3>1, <1>0, <1>2
  <2>3. ASSUME NEW k \in 1 .. 3, NEW j \in at[k - 1] + 1 .. at[k] - 1 PROVE s[j] # mark[1]
    <3>1. j \in 1 .. n /\ j # a /\ j # b
      <4>1. CASE k = 1
        <5>1. j \in 0 + 1 .. a - 1
          BY <4>1, <1>2
        <5> QED BY <5>1, <1>0, <1>1
      <4>2. CASE k = 2
        <5>1. j \in a + 1 .. b - 1
          BY <4>2, <1>2
        <5> QED BY <5>1, <1>0, <1>1
      <4>3. CASE k = 3
        <5>1. j \in b + 1 .. (n + 1) - 1
          BY <4>3, <1>2
        <5> QED BY <5>1, <1>0, <1>1
      <4> QED BY <4>1, <4>2, <4>3, <1>3
    <3> QED BY <3>1, <1>0, <1>1
  <2> QED BY <1>1, <1>2, <2>1, <2>2, <2>3 DEF Parted
<1>5. Len(Split(s, mark)) = 3 /\ \A k \in 1 .. 3 : Split(s, mark)[k] = Piece(s, at, k)
  <2>1. PICK N \in Nat : N = 3
    OBVIOUS
  <2>2. Parted(s, mark, at, N)
    BY <2>1, <1>4
  <2>3. Len(Split(s, mark)) = N /\ \A k \in 1 .. N : Split(s, mark)[k] = Piece(s, at, k)
    BY <2>2, SplitParted
  <2> QED BY <2>1, <2>3
<1>6. Piece(s, at, 1) = SubSeq(s, 1, a - 1)
  <2>1. at[1 - 1] + 1 = 1 /\ at[1] = a
    BY <1>2
  <2> QED BY <2>1 DEF Piece
<1>7. Piece(s, at, 2) = SubSeq(s, a + 1, b - 1)
  <2>1. at[2 - 1] = a /\ at[2] = b
    BY <1>2
  <2> QED BY <2>1 DEF Piece
<1>8. Piece(s, at, 3) = SubSeq(s, b + 1, n)
  <2>1. at[3 - 1] = b /\ at[3] - 1 = n
    BY <1>2
  <2> QED BY <2>1 DEF Piece
<1> QED BY <1>1, <1>5, <1>6, <1>7, <1>8 DEF ThreeParts

(***************************************************************************)
(* What FTP clients and servers write.                                     *)
(***************************************************************************)
LEMMA FtpOctets ==
  /\ Ftp!Inside = Inside /\ Ftp!Err = Err /\ Ftp!Panic = Panic
  /\ Ftp!Space = Space /\ Ftp!LF = LF /\ Ftp!NewLine = NewLine
  /\ Ftp!Wide = Wide /\ Ftp!Continuation = Continuation
  /\ \A first, size : Ftp!Field(first, size) = Field(first, size)
  /\ \A w, size : Ftp!Word(w, size) = Field([word |-> w], size)
  /\ \A value, next : Ftp!Parsed(value, next) = Parsed(value, next)
  /\ \A seqs : Ftp!FlattenSeq(seqs) = FlattenSeq(seqs)
<1>1. /\ Ftp!Inside = Inside /\ Ftp!Err = Err /\ Ftp!Panic = Panic
      /\ \A value, next : Ftp!Parsed(value, next) = Parsed(value, next)
  BY DEF Ftp!Inside, Inside, Ftp!Err, Err, Ftp!Panic, Panic, Ftp!Parsed, Parsed
<1>2. \A first, size : Ftp!Field(first, size) = Field(first, size)
  BY <1>1 DEF Ftp!Field, Field
<1>3. \A w, size : Ftp!Word(w, size) = Field([word |-> w], size)
  BY <1>2 DEF Ftp!Word
<1>4. \A m : Ftp!Mark(m) = Mark(m)
  BY <1>2 DEF Ftp!Mark, Mark
<1>5. Ftp!Space = Space /\ Ftp!LF = LF
  BY <1>4, Zenon DEF Ftp!Space, Space, Ftp!LF, LF
<1>6. Ftp!NewLine = NewLine
  BY <1>4, <1>5 DEF Ftp!NewLine, NewLine
<1>7. Ftp!Continuation = Continuation
  BY DEF Ftp!Continuation, Continuation
<1>8. Ftp!Wide = Wide
  BY <1>7 DEF Ftp!Wide, Wide
<1>9. \A seqs : Ftp!FlattenSeq(seqs) = FlattenSeq(seqs)
  BY DEF Ftp!FlattenSeq, FlattenSeq
<1> QED BY <1>1, <1>2, <1>3, <1>5, <1>6, <1>7, <1>8, <1>9

LEMMA FtpStrings ==
  /\ \A s, mark : Ftp!Split(s, mark) = Split(s, mark)
  /\ \A s : Ftp!Trim(s) = Trim(s)
  /\ \A s : Ftp!IsText(s) = IsText(s)
  /\ \A s : Ftp!AllDigits(s) = AllDigits(s)
  /\ \A s, n : Ftp!IsBoundary(s, n) = IsBoundary(s, n)
  /\ \A s, t : Ftp!IsPrefix(s, t) = IsPrefix(s, t)
  /\ \A s : Ftp!Min(s) = Min(s)
<1>1. (\A s : Ftp!Min(s) = Min(s)) /\ (\A s : Ftp!Max(s) = Max(s))
  BY DEF Ftp!Min, Min, Ftp!Max, Max
<1>2. \A s, mark : Ftp!Split(s, mark) = Split(s, mark)
  BY DEF Ftp!Split, Split, Ftp!Min, Min
<1>3. \A m : Ftp!Mark(m) = Mark(m)
  BY FtpOctets DEF Ftp!Mark, Mark
<1>4. \A s : Ftp!Trim(s) = Trim(s)
  BY <1>1, <1>3, FtpOctets, Zenon DEF Ftp!Trim, Trim
<1>5. \A data, offset, field : Ftp!Has(data, offset, field) = Has(data, offset, field)
  BY DEF Ftp!Has, Has
<1>6. \A s : Ftp!IsText(s) = IsText(s)
  BY <1>5, FtpOctets DEF Ftp!IsText, IsText
<1>7. \A s : Ftp!AllDigits(s) = AllDigits(s)
  BY <1>5, FtpOctets DEF Ftp!AllDigits, AllDigits
<1>8. \A s, n : Ftp!IsBoundary(s, n) = IsBoundary(s, n)
  BY FtpOctets DEF Ftp!IsBoundary, IsBoundary
<1>9. \A s, t : Ftp!IsPrefix(s, t) = IsPrefix(s, t)
  BY DEF Ftp!IsPrefix, IsPrefix
<1> QED BY <1>1, <1>2, <1>4, <1>6, <1>7, <1>8, <1>9

FtpHead == IF Ftp!IsReply THEN [digits |-> line.code] ELSE [word |-> line.verb]

\* An octet that ends no piece, and no character.
Plain(x) == "mark" \notin DOMAIN x /\ "lead" \notin DOMAIN x /\ x # Continuation

LEMMA PlainOctets ==
  ASSUME Ftp!TypeOK
  PROVE  /\ Plain(FtpHead) /\ Inked(FtpHead) /\ FtpHead \in FtpOctet
         /\ "digits" \in DOMAIN FtpHead <=> Ftp!IsReply
         /\ Plain(Inside) /\ Inked(Inside) /\ Inside \in FtpOctet
         /\ \A m \in {" ", "CR", "LF"} :
              /\ "lead" \notin DOMAIN [mark |-> m] /\ [mark |-> m] # Continuation
              /\ [mark |-> m] \in FtpOctet
<1>1. CASE Ftp!IsReply
  <2>1. line \in [code : Codes]
    <3>1. \A l \in [verb : Verbs] : "code" \notin DOMAIN l
      OBVIOUS
    <3> QED BY <3>1, <1>1 DEF Ftp!TypeOK, Ftp!IsReply
  <2>2. FtpHead = [digits |-> line.code] /\ line.code \in Codes
    BY <1>1, <2>1 DEF FtpHead
  <2> QED BY <2>2, <1>1, Unmarked, Zenon DEF Plain, Continuation, FtpOctet, Inside
<1>2. CASE ~ Ftp!IsReply
  <2>1. line \in [verb : Verbs]
    <3>1. \A l \in [code : Codes] : "code" \in DOMAIN l
      OBVIOUS
    <3> QED BY <3>1, <1>2 DEF Ftp!TypeOK, Ftp!IsReply
  <2>2. FtpHead = [word |-> line.verb] /\ line.verb \in Verbs
    BY <1>2, <2>1 DEF FtpHead
  <2> QED BY <2>2, <1>2, Unmarked, Zenon DEF Plain, Continuation, FtpOctet, Inside
<1> QED BY <1>1, <1>2, Zenon

\* The octets of characters.
CharPiece(char) ==
  CASE char = "ascii" -> Field([word |-> "a"], 1)
    [] char = "wide"  -> Wide
    [] char = "digit" -> Field([digits |-> 1], 1)
    [] char = "space" -> Space
CharPieces(chars) == [i \in DOMAIN chars |-> CharPiece(chars[i])]

LEMMA CharPieceTyped == ASSUME NEW char \in Ftp!Character PROVE CharPiece(char) \in Seq(FtpChar)
<1>1. ASSUME NEW x \in FtpChar PROVE Field(x, 1) \in Seq(FtpChar)
  <2>1. \A i \in 1 .. 1 : i = 1
    OBVIOUS
  <2> QED BY <2>1 DEF Field
<1>2. /\ [word |-> "a"] \in FtpChar /\ [digits |-> 1] \in FtpChar /\ Space[1] \in FtpChar
      /\ [lead |-> 2] \in FtpChar /\ Continuation \in FtpChar
  BY Zenon DEF FtpChar, CharOctet
<1>3. Wide \in Seq(FtpChar)
  <2> DEFINE l == [lead |-> 2]
  <2>1. Wide = <<l, Continuation>> /\ l \in FtpChar /\ Continuation \in FtpChar
    BY <1>2, Zenon DEF Wide
  <2> HIDE DEF l
  <2> QED BY <2>1
<1>4. Space \in Seq(FtpChar)
  <2> DEFINE b == [mark |-> " "]
  <2>1. Space = <<b>> /\ Space[1] = b
    BY Marks, Zenon
  <2>2. b \in FtpChar
    BY <2>1, <1>2, Zenon
  <2> HIDE DEF b
  <2> QED BY <2>1, <2>2
<1>5. Field([word |-> "a"], 1) \in Seq(FtpChar) /\ Field([digits |-> 1], 1) \in Seq(FtpChar)
  BY <1>1, <1>2, Zenon
<1>6. char = "ascii" \/ char = "wide" \/ char = "digit" \/ char = "space"
  BY DEF Ftp!Character
<1>7. /\ char = "ascii" => CharPiece(char) = Field([word |-> "a"], 1)
      /\ char = "wide"  => CharPiece(char) = Wide
      /\ char = "digit" => CharPiece(char) = Field([digits |-> 1], 1)
      /\ char = "space" => CharPiece(char) = Space
  BY DEF CharPiece
<1> QED BY <1>3, <1>4, <1>5, <1>6, <1>7, Zenon

LEMMA CharactersWritten ==
  ASSUME NEW chars \in Seq(Ftp!Character)
  PROVE  /\ CharPieces(chars) \in Seq(Seq(FtpChar))
         /\ Ftp!OctetsOf(chars) = FlattenSeq(CharPieces(chars))
<1> DEFINE pieces == CharPieces(chars)
<1>1. PICK n \in Nat : n = Len(chars) /\ DOMAIN chars = 1 .. n
  OBVIOUS
<1>2. ASSUME NEW i \in 1 .. n PROVE pieces[i] \in Seq(FtpChar)
  <2>1. chars[i] \in Ftp!Character
    BY <1>1
  <2>2. CharPiece(chars[i]) \in Seq(FtpChar)
    BY <2>1, CharPieceTyped
  <2> QED BY <2>2, <1>1 DEF CharPieces
<1>3. pieces \in Seq(Seq(FtpChar))
  <2>1. DOMAIN pieces = 1 .. n /\ pieces = [i \in 1 .. n |-> pieces[i]]
    BY <1>1 DEF CharPieces
  <2> HIDE DEF pieces
  <2>2. pieces \in [1 .. n -> Seq(FtpChar)]
    BY <2>1, <1>2
  <2> QED BY <2>2
<1>4. Ftp!OctetsOf(chars) = FlattenSeq(pieces)
  <2>1. /\ Ftp!Word("a", 1) = Field([word |-> "a"], 1) /\ Ftp!Wide = Wide
        /\ Ftp!Field([digits |-> 1], 1) = Field([digits |-> 1], 1) /\ Ftp!Space = Space
        /\ Ftp!FlattenSeq(pieces) = FlattenSeq(pieces)
    BY FtpOctets
  <2> DEFINE e(i) == CASE chars[i] = "ascii" -> Ftp!Word("a", 1)
                       [] chars[i] = "wide"  -> Ftp!Wide
                       [] chars[i] = "digit" -> Ftp!Field([digits |-> 1], 1)
                       [] chars[i] = "space" -> Ftp!Space
  <2>2. Ftp!OctetsOf(chars) = Ftp!FlattenSeq([i \in DOMAIN chars |-> e(i)])
    BY Zenon DEF Ftp!OctetsOf
  <2>3. ASSUME NEW i \in 1 .. n PROVE e(i) = CharPiece(chars[i])
    <3>1. /\ chars[i] = "ascii" => e(i) = Ftp!Word("a", 1)
          /\ chars[i] = "wide"  => e(i) = Ftp!Wide
          /\ chars[i] = "digit" => e(i) = Ftp!Field([digits |-> 1], 1)
          /\ chars[i] = "space" => e(i) = Ftp!Space
      OBVIOUS
    <3>2. /\ chars[i] = "ascii" => CharPiece(chars[i]) = Field([word |-> "a"], 1)
          /\ chars[i] = "wide"  => CharPiece(chars[i]) = Wide
          /\ chars[i] = "digit" => CharPiece(chars[i]) = Field([digits |-> 1], 1)
          /\ chars[i] = "space" => CharPiece(chars[i]) = Space
      BY DEF CharPiece
    <3>3. chars[i] = "ascii" \/ chars[i] = "wide" \/ chars[i] = "digit" \/ chars[i] = "space"
      BY <1>1 DEF Ftp!Character
    <3> HIDE DEF e
    <3> QED BY <2>1, <3>1, <3>2, <3>3, Zenon
  <2> HIDE DEF e
  <2>4. [i \in DOMAIN chars |-> e(i)] = [i \in DOMAIN chars |-> CharPiece(chars[i])]
    BY <1>1, <2>3
  <2>5. pieces = [i \in DOMAIN chars |-> CharPiece(chars[i])]
    BY Zenon DEF CharPieces
  <2> HIDE DEF pieces
  <2> QED BY <2>1, <2>2, <2>4, <2>5
<1> QED BY <1>3, <1>4

\* The octets c behind offset o of w.
Holds(w, o, c) == \A i \in 1 .. Len(c) : w[o + i] = c[i]

\* The octets of the line, of which the characters are c and the line break comes
\* after the first q.
LineIs(w, c, q) ==
  /\ w \in Seq(FtpOctet) /\ c \in Seq(FtpChar) /\ q \in Nat /\ Len(w) = q + 2
  /\ w[1] = FtpHead /\ w[2] = Inside /\ w[3] = Inside
  /\ text = << >> => q = 3 /\ c = << >>
  /\ text # << >> => q = 4 + Len(c) /\ w[4] = [mark |-> " "] /\ Holds(w, 4, c)
  /\ w[q + 1] = [mark |-> "CR"] /\ w[q + 2] = [mark |-> "LF"]

LEMMA LineWritten ==
  ASSUME Ftp!TypeOK
  PROVE  \E q : LineIs(Ftp!Written, Ftp!Characters, q)
<1> DEFINE c == Ftp!Characters
           f == Field(FtpHead, 3)
           space == <<[mark |-> " "]>>
           nl == <<[mark |-> "CR"], [mark |-> "LF"]>>
           mid == IF text = << >> THEN << >> ELSE space \o c
           s == f \o mid
           w == s \o nl
<1>1. Ftp!Head3 = f
  BY FtpOctets DEF Ftp!Head3, FtpHead
<1>2. Ftp!Written = w
  BY <1>1, FtpOctets, Marks, Zenon DEF Ftp!Written
<1>3. /\ f \in Seq(FtpOctet) /\ Len(f) = 3 /\ f[1] = FtpHead /\ f[2] = Inside /\ f[3] = Inside
  <2>1. FtpHead \in FtpOctet /\ Inside \in FtpOctet
    BY PlainOctets, Zenon
  <2>2. \A i \in 1 .. 3 : (IF i = 1 THEN FtpHead ELSE Inside) \in FtpOctet
    BY <2>1
  <2> QED BY <2>2 DEF Field
<1>4. /\ space \in Seq(FtpOctet) /\ Len(space) = 1 /\ space[1] = [mark |-> " "]
      /\ nl \in Seq(FtpOctet) /\ Len(nl) = 2 /\ nl[1] = [mark |-> "CR"] /\ nl[2] = [mark |-> "LF"]
  <2> DEFINE b == [mark |-> " "]
             r == [mark |-> "CR"]
             l == [mark |-> "LF"]
  <2>1. b \in FtpOctet /\ r \in FtpOctet /\ l \in FtpOctet
    BY DEF FtpOctet
  <2> HIDE DEF b, r, l
  <2>2. /\ <<b>> \in Seq(FtpOctet) /\ Len(<<b>>) = 1 /\ <<b>>[1] = b
        /\ <<r, l>> \in Seq(FtpOctet) /\ Len(<<r, l>>) = 2 /\ <<r, l>>[1] = r /\ <<r, l>>[2] = l
    BY <2>1
  <2> QED BY <2>2, Zenon DEF b, r, l
<1>5. c \in Seq(FtpChar)
  <2>1. text \in Seq(Ftp!Character)
    BY DEF Ftp!TypeOK
  <2>2. CharPieces(text) \in Seq(Seq(FtpChar)) /\ c = FlattenSeq(CharPieces(text))
    BY <2>1, CharactersWritten DEF Ftp!Characters
  <2> HIDE DEF c
  <2> QED BY <2>2, FlattenPieces
<1>6. c \in Seq(FtpOctet)
  BY <1>5, FtpChars
<1>7. text = << >> => c = << >>
  <2>1. ASSUME text = << >> PROVE c = << >>
    <3>1. DOMAIN text = {} /\ Len(text) = 0
      BY <2>1
    <3>2. CharPieces(text) = << >>
      BY <3>1 DEF CharPieces
    <3>3. c = FlattenSeq(<< >>)
      <4>1. text \in Seq(Ftp!Character)
        BY DEF Ftp!TypeOK
      <4> QED BY <3>2, <4>1, CharactersWritten DEF Ftp!Characters
    <3> QED BY <3>3 DEF FlattenSeq
  <2> QED BY <2>1
<1> HIDE DEF c, f, space, nl
<1>8. /\ mid \in Seq(FtpOctet)
      /\ text = << >> => Len(mid) = 0
      /\ text # << >> => Len(mid) = 1 + Len(c) /\ mid[1] = [mark |-> " "] /\ Holds(mid, 1, c)
  <2>1. CASE text = << >>
    BY <2>1
  <2>2. CASE text # << >>
    <3>1. space \in Seq(FtpOctet)
      BY <1>4, Zenon
    <3>2. mid = space \o c
      BY <2>2
    <3> HIDE DEF mid
    <3>3. IsJoin(space \o c, FtpOctet, space, c)
      BY <3>1, <1>6, Joined
    <3>4. IsJoin(mid, FtpOctet, space, c) /\ Len(space) = 1
      BY <3>2, <3>3, <1>4, Zenon
    <3>5. mid \in Seq(FtpOctet) /\ Len(mid) = 1 + Len(c)
      BY <3>4 DEF IsJoin
    <3>6. mid[1] = [mark |-> " "]
      <4>1. 1 \in 1 .. Len(space)
        BY <3>4
      <4>2. mid[1] = space[1]
        BY <4>1, <3>4 DEF IsJoin
      <4> QED BY <4>2, <1>4, Zenon
    <3>7. Holds(mid, 1, c)
      BY <3>4 DEF IsJoin, Holds
    <3> QED BY <2>2, <3>5, <3>6, <3>7, Zenon
  <2> QED BY <2>1, <2>2, Zenon
<1> HIDE DEF mid
<1>9. PICK k \in Nat : k = Len(mid)
  <2>1. mid \in Seq(FtpOctet)
    BY <1>8, Zenon
  <2> QED BY <2>1
<1>10. /\ s \in Seq(FtpOctet) /\ Len(s) = 3 + k
       /\ \A j \in 1 .. 3 : s[j] = f[j]
       /\ \A j \in 1 .. k : s[3 + j] = mid[j]
  <2>1. f \in Seq(FtpOctet) /\ mid \in Seq(FtpOctet) /\ Len(f) = 3
    BY <1>3, <1>8, Zenon
  <2>2. IsJoin(f \o mid, FtpOctet, f, mid)
    BY <2>1, Joined
  <2> HIDE DEF s
  <2>3. IsJoin(s, FtpOctet, f, mid)
    BY <2>2 DEF s
  <2> QED BY <2>1, <2>3, <1>9 DEF IsJoin
<1> HIDE DEF s
<1>11. /\ w \in Seq(FtpOctet) /\ Len(w) = (3 + k) + 2
       /\ \A j \in 1 .. 3 + k : w[j] = s[j]
       /\ \A j \in 1 .. 2 : w[(3 + k) + j] = nl[j]
  <2>1. s \in Seq(FtpOctet) /\ nl \in Seq(FtpOctet) /\ Len(nl) = 2 /\ Len(s) = 3 + k
    BY <1>4, <1>10, Zenon
  <2>2. IsJoin(s \o nl, FtpOctet, s, nl)
    BY <2>1, Joined
  <2> HIDE DEF w
  <2>3. IsJoin(w, FtpOctet, s, nl)
    BY <2>2 DEF w
  <2> QED BY <2>1, <2>3 DEF IsJoin
<1> HIDE DEF w
<1>12. w[1] = FtpHead /\ w[2] = Inside /\ w[3] = Inside
  <2>1. 1 \in 1 .. 3 /\ 2 \in 1 .. 3 /\ 3 \in 1 .. 3 /\ 1 \in 1 .. 3 + k /\ 2 \in 1 .. 3 + k /\ 3 \in 1 .. 3 + k
    OBVIOUS
  <2> QED BY <2>1, <1>3, <1>10, <1>11
<1>13. \A j \in 1 .. k : w[3 + j] = mid[j]
  <2>1. \A j \in 1 .. k : 3 + j \in 1 .. 3 + k
    OBVIOUS
  <2> QED BY <2>1, <1>10, <1>11
<1>14. w[(3 + k) + 1] = [mark |-> "CR"] /\ w[(3 + k) + 2] = [mark |-> "LF"]
  <2>1. w[(3 + k) + 1] = nl[1] /\ w[(3 + k) + 2] = nl[2]
    <3>1. 1 \in 1 .. 2 /\ 2 \in 1 .. 2
      OBVIOUS
    <3> QED BY <3>1, <1>11
  <2> QED BY <2>1, <1>4, Zenon
<1>15. ASSUME text = << >> PROVE 3 + k = 3
  BY <1>8, <1>9, <1>15
<1>16. ASSUME text # << >> PROVE 3 + k = 4 + Len(c) /\ w[4] = [mark |-> " "] /\ Holds(w, 4, c)
  <2>0. Len(c) \in Nat
    BY <1>6
  <2>1. k = 1 + Len(c)
    BY <1>8, <1>9, <1>16, Zenon
  <2>2. w[4] = [mark |-> " "]
    <3>1. 1 \in 1 .. k /\ 3 + 1 = 4
      BY <2>1
    <3>2. w[3 + 1] = mid[1]
      BY <3>1, <1>13
    <3> QED BY <3>1, <3>2, <1>8, <1>16, Zenon
  <2>3. ASSUME NEW i \in 1 .. Len(c) PROVE w[4 + i] = c[i]
    <3>1. PICK j \in 1 .. k : j = 1 + i /\ 3 + j = 4 + i
      BY <2>0, <2>1
    <3>2. w[3 + j] = mid[1 + i]
      BY <3>1, <1>13
    <3>3. mid[1 + i] = c[i]
      BY <1>8, <1>16, Zenon DEF Holds
    <3> QED BY <3>1, <3>2, <3>3
  <2>4. Holds(w, 4, c)
    BY <2>3 DEF Holds
  <2>5. 3 + k = 4 + Len(c)
    BY <2>0, <2>1
  <2> QED BY <2>2, <2>4, <2>5, Zenon
<1>17. LineIs(w, c, 3 + k)
  <2>1. 3 + k \in Nat /\ w \in Seq(FtpOctet) /\ Len(w) = (3 + k) + 2
    BY <1>11
  <2> DEFINE q == 3 + k
  <2> HIDE DEF q
  <2>2. /\ w[q + 1] = [mark |-> "CR"] /\ w[q + 2] = [mark |-> "LF"]
        /\ text = << >> => q = 3
        /\ text # << >> => q = 4 + Len(c) /\ w[4] = [mark |-> " "] /\ Holds(w, 4, c)
        /\ q \in Nat /\ w \in Seq(FtpOctet) /\ Len(w) = q + 2
    BY <2>1, <1>14, <1>15, <1>16, Zenon DEF q
  <2>3. LineIs(w, c, q)
    BY <2>2, <1>5, <1>7, <1>12, Zenon DEF LineIs
  <2> QED BY <2>3 DEF q
<1> QED BY <1>2, <1>17 DEF c

(***************************************************************************)
(* The types of what the programs write.                                   *)
(***************************************************************************)
\* A client names at most one server.
OneName(list) == \A i, j \in DOMAIN list : list[i] # Tls!Other /\ list[j] # Tls!Other => i = j
TlsInv == Tls!TypeOK /\ OneName(extensions)

LEMMA TlsStarts == Tls!Init => TlsInv
<1> SUFFICES ASSUME Tls!Init PROVE TlsInv
  OBVIOUS
<1>1. session_id \in SessionIds /\ extensions = << >>
  BY DEF Tls!Init
<1>2. /\ extensions \in Seq({Tls!Other} \cup {Tls!ServerName(h) : h \in Hosts})
      /\ Len(extensions) = 0 /\ DOMAIN extensions = {}
  BY <1>1
<1>3. Len(extensions) <= MaxExtensions
  BY <1>2, TlsAssumption
<1> QED BY <1>1, <1>2, <1>3 DEF TlsInv, Tls!TypeOK, OneName

LEMMA TlsGoesOn == ASSUME TlsInv PROVE Tls!Next => TlsInv'
<1> DEFINE E == {Tls!Other} \cup {Tls!ServerName(h) : h \in Hosts}
<1>1. session_id \in SessionIds /\ extensions \in Seq(E) /\ Len(extensions) <= MaxExtensions
  BY DEF TlsInv, Tls!TypeOK
<1>2. OneName(extensions)
  BY DEF TlsInv
<1>3. ASSUME NEW e \in E, Tls!Extend(e) PROVE TlsInv'
  <2>1. /\ Len(extensions) < MaxExtensions /\ session_id' = session_id
        /\ e # Tls!Other => \A i \in DOMAIN extensions : extensions[i] = Tls!Other
        /\ extensions' = Append(extensions, e)
    BY <1>3 DEF Tls!Extend
  <2> HIDE DEF E
  <2>2. PICK n \in Nat : n = Len(extensions) /\ DOMAIN extensions = 1 .. n
    BY <1>1
  <2>3. /\ extensions' \in Seq(E) /\ Len(extensions') = n + 1 /\ DOMAIN extensions' = 1 .. n + 1
        /\ extensions'[n + 1] = e /\ \A i \in 1 .. n : extensions'[i] = extensions[i]
    BY <1>1, <2>1, <2>2
  <2>4. Len(extensions') <= MaxExtensions
    BY <2>1, <2>2, <2>3, TlsAssumption
  <2>5. ASSUME NEW i \in 1 .. n + 1, NEW j \in 1 .. n + 1,
               extensions'[i] # Tls!Other, extensions'[j] # Tls!Other
        PROVE  i = j
    <3>1. CASE i \in 1 .. n /\ j \in 1 .. n
      <4>1. extensions[i] # Tls!Other /\ extensions[j] # Tls!Other
        BY <3>1, <2>3, <2>5
      <4> QED BY <4>1, <3>1, <1>2, <2>2 DEF OneName
    <3>2. CASE i = n + 1 /\ j \in 1 .. n
      <4>1. e # Tls!Other /\ extensions[j] # Tls!Other
        BY <3>2, <2>3, <2>5
      <4> QED BY <4>1, <3>2, <2>1, <2>2
    <3>3. CASE j = n + 1 /\ i \in 1 .. n
      <4>1. e # Tls!Other /\ extensions[i] # Tls!Other
        BY <3>3, <2>3, <2>5
      <4> QED BY <4>1, <3>3, <2>1, <2>2
    <3>4. CASE i = n + 1 /\ j = n + 1
      BY <3>4
    <3>5. (i \in 1 .. n \/ i = n + 1) /\ (j \in 1 .. n \/ j = n + 1)
      OBVIOUS
    <3> QED BY <3>1, <3>2, <3>3, <3>4, <3>5
  <2>6. OneName(extensions)'
    BY <2>3, <2>5 DEF OneName
  <2>7. Tls!TypeOK'
    BY <1>1, <2>1, <2>3, <2>4 DEF Tls!TypeOK, E
  <2> QED BY <2>6, <2>7 DEF TlsInv
<1>4. Tls!Other \in E /\ \A h \in Hosts : Tls!ServerName(h) \in E
  OBVIOUS
<1> HIDE DEF E
<1> QED BY <1>3, <1>4 DEF Tls!Next

LEMMA HttpTyped == (Http!Init => Http!TypeOK) /\ (Http!TypeOK /\ Http!Next => Http!TypeOK')
<1> USE DEF Http!TypeOK
<1>1. MaxLines \in Nat /\ MaxPieces \in Nat
  BY HttpAssumption
<1>2. Http!Init => Http!TypeOK
  BY <1>1 DEF Http!Init
<1>3. ASSUME Http!TypeOK, NEW line_ \in Lines, Http!AddHeader(line_) PROVE Http!TypeOK'
  BY <1>1, <1>3 DEF Http!AddHeader
<1>4. ASSUME Http!TypeOK, NEW piece \in Http!Piece, Http!AddBody(piece)
      PROVE  Http!TypeOK'
  BY <1>1, <1>4 DEF Http!AddBody
<1> QED BY <1>2, <1>3, <1>4 DEF Http!Next

LEMMA FtpTyped == (Ftp!Init => Ftp!TypeOK) /\ (Ftp!TypeOK /\ Ftp!Next => Ftp!TypeOK')
<1> USE DEF Ftp!TypeOK
<1>1. Ftp!Init => Ftp!TypeOK
  BY FtpAssumption DEF Ftp!Init
<1>2. ASSUME Ftp!TypeOK, NEW char \in Ftp!Character, Ftp!Write(char) PROVE Ftp!TypeOK'
  BY <1>2, FtpAssumption DEF Ftp!Write
<1> QED BY <1>1, <1>2 DEF Ftp!Next

Inv ==
  /\ protocol \in {"DNS", "TLS", "HTTP", "FTP"}
  /\ protocol = "DNS"  => DnsInv
  /\ protocol = "TLS"  => TlsInv
  /\ protocol = "HTTP" => Http!TypeOK
  /\ protocol = "FTP"  => Ftp!TypeOK

LEMMA Started == Init => Inv
BY DnsStarts, TlsStarts, HttpTyped, FtpTyped DEF Init, Inv

LEMMA WentOn == ASSUME Inv, [Next]_vars PROVE Inv'
<1>1. CASE WriteDns
  <2>1. DnsInv'
    BY <1>1, DnsGoesOn DEF WriteDns, Inv
  <2> QED BY <1>1, <2>1 DEF WriteDns, Inv
<1>2. CASE WriteTls
  <2>1. TlsInv'
    BY <1>2, TlsGoesOn DEF WriteTls, Inv
  <2> QED BY <1>2, <2>1 DEF WriteTls, Inv
<1>3. CASE WriteHttp
  <2>1. Http!TypeOK'
    BY <1>3, HttpTyped DEF WriteHttp, Inv
  <2> QED BY <1>3, <2>1 DEF WriteHttp, Inv
<1>4. CASE WriteFtp
  <2>1. Ftp!TypeOK'
    BY <1>4, FtpTyped DEF WriteFtp, Inv
  <2> QED BY <1>4, <2>1 DEF WriteFtp, Inv
<1>5. CASE UNCHANGED vars
  <2>1. /\ protocol' = protocol /\ questions' = questions /\ records' = records /\ body' = body
        /\ suffixes' = suffixes /\ session_id' = session_id /\ extensions' = extensions
        /\ start' = start /\ headers' = headers /\ content' = content
        /\ line' = line /\ text' = text
    BY <1>5 DEF vars, dnsVars, tlsVars, httpVars, ftpVars
  <2>2. DnsInv' = DnsInv
    BY <2>1 DEF DnsInv
  <2>3. TlsInv' = TlsInv
    BY <2>1 DEF TlsInv, Tls!TypeOK
  <2>4. Http!TypeOK' = Http!TypeOK /\ Ftp!TypeOK' = Ftp!TypeOK
    BY <2>1 DEF Http!TypeOK, Ftp!TypeOK
  <2> QED BY <2>1, <2>2, <2>3, <2>4 DEF Inv
<1> QED BY <1>1, <1>2, <1>3, <1>4, <1>5 DEF Next

\* What the programs have written is always a message of their protocol.
THEOREM TypeCorrect == Spec => []TypeOK
<1>1. Inv => TypeOK
  BY DnsTyped DEF Inv, TypeOK, TlsInv
<1> QED BY <1>1, Started, WentOn, PTL DEF Spec
================================================================================
