--------------------------- MODULE ContentProofs ----------------------------
(* Proofs about the readers of uploads' content: JsonReader, for uploads   *)
(* and chunks of any size, and GeoJson with Coordinates, for values of any *)
(* size and nesting.                                                       *)
(*                                                                         *)
(* What is true of every value is proved along the length of its text:     *)
(* there is no shortest value of which it is false.                        *)
EXTENDS JsonText, GeoJson, SequenceTheorems, WellFoundedInduction, TLAPS

IsSeq(s) == s \in Seq({s[i] : i \in DOMAIN s})

\* What the bound rests on: the file and the call stack are sequences of what
\* they should be, and the outermost call has not returned.
ReaderInv ==
  /\ document \in Seq(Unit)
  /\ rest \in Seq(Unit) /\ Len(rest) <= Len(document)
  /\ IsSeq(buffer)
  /\ stack \in Seq(Frame) /\ stack # <<>>
  /\ BufferIsBounded

---------------------------------------------------------------------------
(* Sequences *)

LEMMA EmptyHasNoLength == Len(<<>>) = 0
OBVIOUS

LEMMA NothingBehindTheEnd ==
  ASSUME NEW S, NEW s \in Seq(S)
  PROVE  SubSeq(s, Len(s) + 1, Len(s)) = <<>>
OBVIOUS

LEMMA LastAlone ==
  ASSUME NEW S, NEW s \in Seq(S), s # <<>>
  PROVE  SubSeq(s, Len(s), Len(s)) = <<s[Len(s)]>>
<1> DEFINE t == SubSeq(s, Len(s), Len(s))
<1>1. t \in Seq(S) /\ Len(t) = 1 /\ t[1] = s[Len(s)]
  OBVIOUS
<1> HIDE DEF t
<1>2. t = <<t[1]>>
  BY <1>1
<1>3. t = <<s[Len(s)]>>
  BY <1>1, <1>2
<1>. QED  BY <1>3 DEF t

---------------------------------------------------------------------------
(* Induction and recursion along a length *)

LEMMA SomeNumberIsLeast ==
  ASSUME NEW S \in SUBSET Nat, S # {}
  PROVE  Min(S) \in S /\ \A n \in S : Min(S) <= n
<1> DEFINE below == {ss \in Nat \X Nat : ss[1] < ss[2]}
<1>1. IsWellFoundedOn(below, Nat)
  BY NatLessThanWellFounded DEF OpToRel
<1>2. \E m \in S : \A n \in S : ~ (<<n, m>> \in below)
  <2> HIDE DEF below
  <2>. QED  BY <1>1, WFMin
<1>3. PICK m \in S : \A n \in S : ~ (<<n, m>> \in below)
  BY <1>2
<1>4. ASSUME NEW n \in S
      PROVE  m <= n
  <2>1. ~ (n < m)
    BY <1>3
  <2>. QED  BY <2>1
<1>. QED  BY <1>4, Zenon DEF Min

\* Of some things, one is no longer than the others.
LEMMA LeastLength ==
  ASSUME NEW V, NEW L \in [V -> Nat], NEW S \in SUBSET V, S # {}
  PROVE  \E v \in S : \A x \in V : L[x] < L[v] => x \notin S
<1> DEFINE N == {L[v] : v \in S}
<1>1. N \in SUBSET Nat /\ N # {}
  OBVIOUS
<1>2. Min(N) \in N /\ \A n \in N : Min(N) <= n
  <2> HIDE DEF N
  <2>. QED  BY <1>1, SomeNumberIsLeast
<1>3. PICK v \in S : L[v] = Min(N)
  BY <1>2
<1>4. ASSUME NEW x \in V, L[x] < L[v], x \in S
      PROVE  FALSE
  <2>1. L[x] \in N /\ L[x] \in Nat /\ L[v] \in Nat
    BY <1>4
  <2> HIDE DEF N
  <2>. QED  BY <1>2, <1>3, <1>4, <2>1
<1>. QED  BY <1>4

\* Among values, one has none of the others inside: what is true of a value
\* when it is true of all shorter ones is true of every value.
LEMMA Shortest ==
  ASSUME NEW S \in SUBSET Value, S # {}
  PROVE  \E v \in S : \A x \in Value : Length[x] < Length[v] => x \notin S
BY ValueAssumption, LeastLength

Solves(f, D, Inside, Step) ==
  \A v \in D : Inside[v] \subseteq D /\ f[v] = Step[v][[x \in Inside[v] |-> f[x]]]

\* A function can be defined from what it is for shorter arguments.
LEMMA Recursion ==
  ASSUME NEW V, NEW L \in [V -> Nat], NEW Inside \in [V -> SUBSET V], NEW R, NEW Step,
         \A v \in V : \A x \in Inside[v] : L[x] < L[v],
         \A v \in V : \A h \in [Inside[v] -> R] : Step[v][h] \in R
  PROVE  \E f \in [V -> R] : Solves(f, V, Inside, Step)
<1>2. ASSUME NEW S \in SUBSET V, S # {}
      PROVE  \E v \in S : \A x \in Inside[v] : x \notin S
  BY <1>2, LeastLength
<1>3. ASSUME NEW D \in SUBSET V, NEW E \in SUBSET V, NEW f \in [D -> R], NEW g \in [E -> R],
             Solves(f, D, Inside, Step), Solves(g, E, Inside, Step)
      PROVE  \A v \in D \cap E : f[v] = g[v]
  <2> DEFINE S == {v \in D \cap E : f[v] # g[v]}
  <2>1. SUFFICES ASSUME S # {} PROVE FALSE
    OBVIOUS
  <2>2. PICK v \in S : \A x \in Inside[v] : x \notin S
    <3>1. S \in SUBSET V
      OBVIOUS
    <3> HIDE DEF S
    <3>. QED  BY <1>2, <2>1, <3>1
  <2>3. v \in D /\ v \in E /\ f[v] # g[v] /\ Inside[v] \subseteq D /\ Inside[v] \subseteq E
    BY <1>3 DEF Solves
  <2>4. \A x \in Inside[v] : f[x] = g[x]
    BY <2>2, <2>3
  <2>5. [x \in Inside[v] |-> f[x]] = [x \in Inside[v] |-> g[x]]
    BY <2>4
  <2>6. f[v] = Step[v][[x \in Inside[v] |-> f[x]]] /\ g[v] = Step[v][[x \in Inside[v] |-> g[x]]]
    BY <1>3, <2>3 DEF Solves
  <2>. QED  BY <2>3, <2>5, <2>6
<1> DEFINE Known(D, f, v) == D \in SUBSET V /\ f \in [D -> R] /\ v \in D /\ Solves(f, D, Inside, Step)
           All == {v \in V : \E D, f : Known(D, f, v)}
           g == [v \in All |-> CHOOSE r \in R : \E D, f : Known(D, f, v) /\ r = f[v]]
<1>4. ASSUME NEW D, NEW f, NEW v, Known(D, f, v)
      PROVE  v \in All /\ g[v] = f[v]
  <2>1. v \in All
    BY <1>4
  <2>2. \A E, h : Known(E, h, v) => h[v] = f[v]
    BY <1>3, <1>4
  <2>3. f[v] \in R
    BY <1>4
  <2>4. g[v] = CHOOSE r \in R : \E E, h : Known(E, h, v) /\ r = h[v]
    BY <2>1
  <2> DEFINE P(r) == \E E, h : Known(E, h, v) /\ r = h[v]
  <2>5. P(f[v]) /\ \A r \in R : P(r) => r = f[v]
    BY <1>4, <2>2
  <2> HIDE DEF P, Known, All
  <2>6. (CHOOSE r \in R : P(r)) = f[v]
    BY <2>3, <2>5
  <2>7. g[v] = CHOOSE r \in R : P(r)
    BY <2>4 DEF P
  <2>. QED  BY <2>1, <2>6, <2>7
<1>5. All \in SUBSET V /\ g \in [All -> R]
  <2>1. ASSUME NEW v \in All PROVE g[v] \in R
    <3>1. PICK D, f : Known(D, f, v)
      BY Zenon
    <3>2. f[v] \in R
      BY <3>1
    <3> HIDE DEF Known, g, All
    <3>3. g[v] = f[v]
      BY <1>4, <3>1
    <3>. QED  BY <3>2, <3>3
  <2>. QED  BY <2>1
<1>6. Solves(g, All, Inside, Step)
  <2>1. ASSUME NEW v \in All
        PROVE  Inside[v] \subseteq All /\ g[v] = Step[v][[x \in Inside[v] |-> g[x]]]
    <3>1. PICK D, f : Known(D, f, v)
      BY Zenon
    <3>2. Inside[v] \subseteq D /\ f[v] = Step[v][[x \in Inside[v] |-> f[x]]]
      BY <3>1 DEF Solves
    <3>3. \A x \in Inside[v] : Known(D, f, x)
      BY <3>1, <3>2
    <3> HIDE DEF Known, g, All
    <3>4. g[v] = f[v] /\ \A x \in Inside[v] : x \in All /\ g[x] = f[x]
      BY <1>4, <3>1, <3>3
    <3>5. [x \in Inside[v] |-> g[x]] = [x \in Inside[v] |-> f[x]]
      BY <3>4
    <3>. QED  BY <3>2, <3>4, <3>5
  <2>. QED  BY <2>1 DEF Solves
<1>7. All = V
  <2> DEFINE S == V \ All
  <2>1. SUFFICES ASSUME S # {} PROVE FALSE
    BY <1>5
  <2>2. PICK v \in S : \A x \in Inside[v] : x \notin S
    <3>1. S \in SUBSET V
      OBVIOUS
    <3> HIDE DEF S
    <3>. QED  BY <1>2, <2>1, <3>1
  <2> DEFINE inner == [x \in Inside[v] |-> g[x]]
             D == All \cup {v}
             f == [x \in D |-> IF x \in All THEN g[x] ELSE Step[v][inner]]
  <2>3. v \in V /\ v \notin All /\ Inside[v] \subseteq All
    BY <2>2
  <2> HIDE DEF All, g
  <2>4. inner \in [Inside[v] -> R]
    BY <1>5, <2>3
  <2>5. Step[v][inner] \in R
    BY <2>3, <2>4
  <2>6. D \in SUBSET V /\ f \in [D -> R] /\ v \in D
    BY <1>5, <2>3, <2>5
  <2>7. ASSUME NEW w \in D
        PROVE  Inside[w] \subseteq D /\ f[w] = Step[w][[x \in Inside[w] |-> f[x]]]
    <3>1. Inside[w] \subseteq All
      BY <1>6, <2>3 DEF Solves
    <3>2. \A x \in Inside[w] : f[x] = g[x]
      BY <3>1
    <3>3. [x \in Inside[w] |-> f[x]] = [x \in Inside[w] |-> g[x]]
      BY <3>2
    <3>4. CASE w = v
      BY <2>3, <3>1, <3>3, <3>4
    <3>5. CASE w \in All
      BY <1>6, <3>1, <3>3, <3>5 DEF Solves
    <3>. QED  BY <3>4, <3>5
  <2>8. Known(D, f, v)
    BY <2>6, <2>7 DEF Solves
  <2>. QED  BY <1>4, <2>3, <2>8
<1> HIDE DEF g, All
<1>8. g \in [V -> R] /\ Solves(g, V, Inside, Step)
  BY <1>5, <1>6, <1>7
<1>. QED  BY <1>8

---------------------------------------------------------------------------
(* The decoder *)

Shown(u) == IF u = ByteOne THEN Character ELSE u

\* What one more byte makes of the characters before it.
Extended(chars, u) == IF u = ByteTwo THEN chars ELSE Append(chars, Shown(u))

CharsOf(s, before) == IF s = <<>> THEN <<>> ELSE Extended(before[Front(s)], Last(s))

Text == Seq(Unit \cup {Character})

LEMMA FrontIsShorter ==
  ASSUME NEW S, NEW s \in Seq(S), s # <<>>
  PROVE  /\ Front(s) \in Seq(S) /\ Last(s) \in S /\ Len(s) \in Nat \ {0}
         /\ Len(Front(s)) = Len(s) - 1
         /\ \A i \in 1..(Len(s) - 1) : Front(s)[i] = s[i]
         /\ s = Append(Front(s), Last(s))
<1> DEFINE f == Front(s)
           u == Last(s)
<1>1. f = SubSeq(s, 1, Len(s) - 1) /\ u = s[Len(s)]
  BY DEF Front, Last
<1>2. Len(s) \in Nat \ {0} /\ u \in S
  BY <1>1
<1>3. f \in Seq(S) /\ Len(f) = Len(s) - 1 /\ \A i \in 1..(Len(s) - 1) : f[i] = s[i]
  <2> DEFINE n == Len(s) - 1
  <2>1. n \in 0..Len(s) /\ n \in Nat
    BY <1>2
  <2> HIDE DEF n, f
  <2>2. f = SubSeq(s, 1, n)
    BY <1>1 DEF n
  <2>3. f \in Seq(S) /\ Len(f) = n /\ \A i \in 1..n : f[i] = s[i]
    BY <2>1, <2>2
  <2>. QED  BY <2>3 DEF n
<1> HIDE DEF f, u
<1>4. s = Append(f, u)
  <2> DEFINE t == Append(f, u)
  <2>1. t \in Seq(S) /\ Len(t) = Len(s) /\ \A i \in 1..Len(s) : t[i] = s[i]
    BY <1>1, <1>2, <1>3
  <2> HIDE DEF t
  <2>2. t = s
    BY <2>1
  <2>. QED  BY <2>2 DEF t
<1>. QED  BY <1>2, <1>3, <1>4 DEF f, u

LEMMA AppendBehind ==
  ASSUME NEW S, NEW s \in Seq(S), NEW t \in Seq(S), NEW u \in S
  PROVE  s \o Append(t, u) = Append(s \o t, u)
OBVIOUS

LEMMA ShortestSequence ==
  ASSUME NEW A, NEW S \in SUBSET Seq(A), S # {}
  PROVE  \E s \in S : \A t \in Seq(A) : Len(t) < Len(s) => t \notin S
<1> DEFINE V == Seq(A)
           L == [t \in V |-> Len(t)]
<1>1. L \in [V -> Nat] /\ \A t \in V : L[t] = Len(t)
  OBVIOUS
<1> HIDE DEF L
<1>2. \E s \in S : \A t \in V : L[t] < L[s] => t \notin S
  BY <1>1, LeastLength
<1>. QED  BY <1>1, <1>2

LEMMA CharactersIsDefined ==
  /\ Characters \in [Seq(Unit) -> Text]
  /\ \A s \in Seq(Unit) : Characters[s] = CharsOf(s, Characters)
<1> DEFINE V == Seq(Unit)
           L == [s \in V |-> Len(s)]
           Inside == [s \in V |-> IF s = <<>> THEN {} ELSE {Front(s)}]
           Step == [s \in V |-> [h \in [Inside[s] -> Text] |-> CharsOf(s, h)]]
<1>1. L \in [V -> Nat] /\ \A s \in V : L[s] = Len(s)
  OBVIOUS
<1>2. ASSUME NEW s \in V
      PROVE  /\ s = <<>> => Inside[s] = {}
             /\ s # <<>> => Inside[s] = {Front(s)} /\ Front(s) \in V /\ L[Front(s)] < L[s]
  <2>1. s = <<>> => Inside[s] = {}
    OBVIOUS
  <2>2. s # <<>> => Inside[s] = {Front(s)}
    OBVIOUS
  <2>3. s # <<>> => Front(s) \in V /\ Len(Front(s)) < Len(s)
    BY FrontIsShorter
  <2> HIDE DEF L, Inside
  <2>. QED  BY <1>1, <2>1, <2>2, <2>3
<1>3. Inside \in [V -> SUBSET V] /\ \A s \in V : \A x \in Inside[s] : L[x] < L[s]
  BY <1>2
<1>4. ASSUME NEW s \in V, NEW h, s = <<>> \/ h[Front(s)] \in Text
      PROVE  CharsOf(s, h) \in Text
  <2>1. CASE s = <<>>
    BY <2>1 DEF CharsOf, Text
  <2>2. CASE s # <<>>
    <3>1. Last(s) \in Unit /\ h[Front(s)] \in Seq(Unit \cup {Character})
      BY <1>4, <2>2, FrontIsShorter DEF Text
    <3>2. Shown(Last(s)) \in Unit \cup {Character}
      BY <3>1 DEF Shown
    <3>3. Append(h[Front(s)], Shown(Last(s))) \in Seq(Unit \cup {Character})
      BY <3>1, <3>2
    <3>. QED  BY <2>2, <3>1, <3>3 DEF CharsOf, Extended, Text
  <2>. QED  BY <2>1, <2>2
<1>5. \A s \in V : \A h \in [Inside[s] -> Text] : Step[s][h] = CharsOf(s, h) /\ Step[s][h] \in Text
  <2>. SUFFICES ASSUME NEW s \in V, NEW h \in [Inside[s] -> Text]
                PROVE  Step[s][h] = CharsOf(s, h) /\ CharsOf(s, h) \in Text
    OBVIOUS
  <2>1. s = <<>> \/ h[Front(s)] \in Text
    <3> HIDE DEF Inside
    <3>. QED  BY <1>2
  <2>. QED  BY <1>4, <2>1
<1> HIDE DEF Inside, Step, L, V
<1>6. PICK f \in [V -> Text] : \A s \in V : f[s] = Step[s][[x \in Inside[s] |-> f[x]]]
  <2>1. \A s \in V : \A h \in [Inside[s] -> Text] : Step[s][h] \in Text
    BY <1>5
  <2>2. \E f \in [V -> Text] : Solves(f, V, Inside, Step)
    BY <1>1, <1>3, <2>1, Recursion
  <2>. QED  BY <2>2, Zenon DEF Solves
<1>7. ASSUME NEW s \in V
      PROVE  f[s] = CharsOf(s, f)
  <2> DEFINE h == [x \in Inside[s] |-> f[x]]
  <2>1. h \in [Inside[s] -> Text]
    BY <1>3
  <2>2. f[s] = CharsOf(s, h)
    BY <1>5, <1>6, <2>1
  <2>3. s # <<>> => h[Front(s)] = f[Front(s)]
    BY <1>2
  <2> HIDE DEF h
  <2>. QED  BY <2>2, <2>3 DEF CharsOf
<1>8. f = [s \in V |-> CharsOf(s, f)]
  BY <1>6, <1>7
<1>9. \A g : CharsOf(<<>>, g) = <<>>
  BY DEF CharsOf
<1>10. Characters = CHOOSE g : g = [s \in V |-> CharsOf(s, g)]
  BY Zenon DEF Characters, CharsOf, Extended, Shown, V
<1>11. Characters = [s \in V |-> CharsOf(s, Characters)]
  BY <1>8, <1>10, Zenon
<1>12. \A s \in V : Characters[s] = CharsOf(s, Characters)
  BY <1>11, Zenon
<1>13. \A s \in V : Characters[s] \in Text
  <2> DEFINE S == {s \in V : Characters[s] \notin Text}
  <2>1. SUFFICES ASSUME S # {} PROVE FALSE
    OBVIOUS
  <2>2. PICK s \in S : \A x \in V : L[x] < L[s] => x \notin S
    <3>1. S \in SUBSET V
      OBVIOUS
    <3> HIDE DEF S
    <3>. QED  BY <1>1, <2>1, <3>1, LeastLength
  <2>3. s = <<>> \/ Characters[Front(s)] \in Text
    BY <1>2, <2>2
  <2>. QED  BY <1>4, <1>12, <2>2, <2>3
<1>. QED  BY <1>11, <1>12, <1>13 DEF V

\* Byte by byte, and so piece by piece: what bytes mean does not depend on
\* what comes after them.
LEMMA NextByte ==
  ASSUME NEW s \in Seq(Unit), NEW u \in Unit
  PROVE  Characters[Append(s, u)] = Extended(Characters[s], u)
<1> DEFINE t == Append(s, u)
<1>1. t \in Seq(Unit) /\ t # <<>> /\ Front(t) = s /\ Last(t) = u
  BY DEF Front, Last
<1>2. Characters[t] = CharsOf(t, Characters)
  BY <1>1, CharactersIsDefined
<1> HIDE DEF t
<1>. QED  BY <1>1, <1>2 DEF CharsOf, t

LEMMA NoBytes == Characters[<<>>] = <<>>
<1>1. <<>> \in Seq(Unit)
  OBVIOUS
<1>2. Characters[<<>>] = CharsOf(<<>>, Characters)
  BY <1>1, CharactersIsDefined
<1>. QED  BY <1>2 DEF CharsOf

LEMMA ExtendedBehind ==
  ASSUME NEW a \in Text, NEW b \in Text, NEW u \in Unit
  PROVE  Extended(a \o b, u) = a \o Extended(b, u)
<1> DEFINE U == Unit \cup {Character}
           v == Shown(u)
<1>1. a \in Seq(U) /\ b \in Seq(U) /\ v \in U
  BY DEF Text, Shown
<1> HIDE DEF U, v
<1>2. a \o Append(b, v) = Append(a \o b, v)
  BY <1>1, AppendBehind
<1>. QED  BY <1>2 DEF Extended, v

LEMMA Joins ==
  ASSUME NEW s \in Seq(Unit), NEW t \in Seq(Unit)
  PROVE  Characters[s \o t] = Characters[s] \o Characters[t]
<1> DEFINE V == Seq(Unit)
           S == {x \in V : Characters[s \o x] # Characters[s] \o Characters[x]}
<1>1. SUFFICES ASSUME S # {} PROVE FALSE
  OBVIOUS
<1>2. PICK x \in S : \A y \in V : Len(y) < Len(x) => y \notin S
  <2>1. S \in SUBSET Seq(Unit)
    OBVIOUS
  <2> HIDE DEF S
  <2>. QED  BY <1>1, <2>1, ShortestSequence
<1>3. Characters[s] \in Text /\ \A y \in V : Characters[y] \in Text
  BY CharactersIsDefined
<1>4. CASE x = <<>>
  <2>1. s \o x = s /\ Characters[s] \o <<>> = Characters[s]
    BY <1>3, <1>4 DEF Text
  <2>. QED  BY <1>2, <1>4, <2>1, NoBytes
<1>5. CASE x # <<>>
  <2> DEFINE f == Front(x)
             u == Last(x)
  <2>1. f \in V /\ u \in Unit /\ x = Append(f, u) /\ Len(f) < Len(x)
    <3>1. x \in Seq(Unit)
      BY <1>2
    <3>2. /\ f \in Seq(Unit) /\ u \in Unit /\ Len(x) \in Nat \ {0}
          /\ Len(f) = Len(x) - 1 /\ x = Append(f, u)
      BY <1>5, <3>1, FrontIsShorter, Zenon
    <3> HIDE DEF f, u
    <3>. QED  BY <3>2
  <2> HIDE DEF f, u
  <2>2. s \o f \in V /\ s \o x = Append(s \o f, u)
    BY <2>1, AppendBehind
  <2>3. Characters[s \o f] = Characters[s] \o Characters[f]
    BY <1>2, <2>1
  <2>4. Characters[s \o x] = Extended(Characters[s] \o Characters[f], u)
    BY <2>1, <2>2, <2>3, NextByte
  <2>5. Characters[x] = Extended(Characters[f], u)
    BY <2>1, NextByte
  <2>6. Characters[s \o x] = Characters[s] \o Characters[x]
    <3>1. Extended(Characters[s] \o Characters[f], u) = Characters[s] \o Extended(Characters[f], u)
      BY <1>3, <2>1, ExtendedBehind
    <3>. QED  BY <2>4, <2>5, <3>1
  <2>. QED  BY <1>2, <2>6
<1>. QED  BY <1>4, <1>5

\* Bytes are no fewer than characters; fewer are those with a second byte.
LEMMA BytesAreMore ==
  ASSUME NEW s \in Seq(Unit)
  PROVE  /\ Len(Characters[s]) \in Nat /\ Len(Characters[s]) <= Len(s)
         /\ (\E i \in DOMAIN s : s[i] = ByteTwo) => Len(Characters[s]) < Len(s)
<1> DEFINE V == Seq(Unit)
           Less(x) == /\ Len(Characters[x]) <= Len(x)
                      /\ (\E i \in DOMAIN x : x[i] = ByteTwo) => Len(Characters[x]) < Len(x)
           S == {x \in V : ~ Less(x)}
<1>1. \A y \in V : Characters[y] \in Text /\ Len(Characters[y]) \in Nat
  BY CharactersIsDefined DEF Text
<1>2. SUFFICES ASSUME S # {} PROVE FALSE
  BY <1>1
<1>3. PICK x \in S : \A y \in V : Len(y) < Len(x) => y \notin S
  <2>1. S \in SUBSET Seq(Unit)
    OBVIOUS
  <2> HIDE DEF S
  <2>. QED  BY <1>2, <2>1, ShortestSequence
<1>4. CASE x = <<>>
  BY <1>3, <1>4, NoBytes
<1>5. CASE x # <<>>
  <2> DEFINE f == Front(x)
             u == Last(x)
  <2>1. /\ f \in V /\ u \in Unit /\ x = Append(f, u) /\ Len(f) < Len(x)
        /\ Len(x) \in Nat /\ Len(f) = Len(x) - 1 /\ \A i \in 1..(Len(x) - 1) : f[i] = x[i]
        /\ u = x[Len(x)]
    BY <1>3, <1>5, FrontIsShorter DEF Last
  <2> HIDE DEF f, u
  <2>2. Less(f)
    BY <1>3, <2>1
  <2>3. Characters[x] = Extended(Characters[f], u)
    BY <2>1, NextByte
  <2>4. Len(Characters[x]) = IF u = ByteTwo THEN Len(Characters[f]) ELSE Len(Characters[f]) + 1
    <3>1. Characters[f] \in Seq(Unit \cup {Character}) /\ Shown(u) \in Unit \cup {Character}
      BY <1>1, <2>1 DEF Shown, Text
    <3>2. Len(Append(Characters[f], Shown(u))) = Len(Characters[f]) + 1
      BY <3>1
    <3>. QED  BY <2>3, <3>2 DEF Extended
  <2>5. (\E i \in DOMAIN x : x[i] = ByteTwo) => u = ByteTwo \/ \E i \in DOMAIN f : f[i] = ByteTwo
    BY <2>1
  <2>6. Less(x)
    BY <1>1, <2>1, <2>2, <2>4, <2>5
  <2>. QED  BY <1>3, <2>6
<1>. QED  BY <1>4, <1>5

LEMMA SomethingAppended == ASSUME NEW S, NEW s \in Seq(S), NEW u \in S PROVE Append(s, u) # <<>>
<1> DEFINE t == Append(s, u)
<1>1. Len(t) = Len(s) + 1 /\ Len(s) \in Nat
  OBVIOUS
<1> HIDE DEF t
<1>2. t # <<>>
  BY <1>1, EmptyHasNoLength
<1>. QED  BY <1>2 DEF t

\* Units in a row.
LEMMA InARow ==
  ASSUME NEW S, NEW s \in Seq(S), NEW t \in Seq(S)
  PROVE  /\ s \o t \in Seq(S) /\ Len(s) \in Nat /\ Len(t) \in Nat /\ Len(s \o t) = Len(s) + Len(t)
         /\ \A i \in 1..Len(s) : (s \o t)[i] = s[i]
         /\ \A i \in 1..Len(t) : (s \o t)[Len(s) + i] = t[i]
OBVIOUS

LEMMA PiecesAreWellEncoded ==
  ASSUME NEW s \in Seq(Unit), NEW t \in Seq(Unit), s = <<>> \/ s[Len(s)] # ByteOne,
         WellEncoded(s \o t)
  PROVE  WellEncoded(s) /\ WellEncoded(t)
<1> DEFINE a == s \o t
<1>1. /\ Len(s) \in Nat /\ Len(t) \in Nat /\ Len(a) = Len(s) + Len(t)
      /\ DOMAIN a = 1..Len(a) /\ DOMAIN s = 1..Len(s) /\ DOMAIN t = 1..Len(t)
      /\ \A i \in 1..Len(s) : a[i] = s[i]
      /\ \A i \in 1..Len(t) : a[Len(s) + i] = t[i]
  BY InARow
<1>2. \A i \in 1..Len(a) : /\ a[i] = ByteOne => i < Len(a) /\ a[i + 1] = ByteTwo
                           /\ a[i] = ByteTwo => i > 1 /\ a[i - 1] = ByteOne
  BY <1>1 DEF WellEncoded
<1>3. Len(s) = 0 \/ s[Len(s)] # ByteOne
  BY <1>1
<1> HIDE DEF a
<1>4. ASSUME NEW i \in 1..Len(s)
      PROVE  /\ s[i] = ByteOne => i < Len(s) /\ s[i + 1] = ByteTwo
             /\ s[i] = ByteTwo => i > 1 /\ s[i - 1] = ByteOne
  <2>1. i \in 1..Len(a) /\ a[i] = s[i]
    BY <1>1
  <2>2. s[i] = ByteOne => i < Len(s) /\ i + 1 \in 1..Len(s)
    BY <1>1, <1>3
  <2>3. i > 1 => i - 1 \in 1..Len(s)
    BY <1>1
  <2>. QED  BY <1>1, <1>2, <2>1, <2>2, <2>3
<1>5. ASSUME NEW i \in 1..Len(t)
      PROVE  /\ t[i] = ByteOne => i < Len(t) /\ t[i + 1] = ByteTwo
             /\ t[i] = ByteTwo => i > 1 /\ t[i - 1] = ByteOne
  <2> DEFINE k == Len(s) + i
  <2>1. k \in 1..Len(a) /\ a[k] = t[i]
    BY <1>1
  <2>2. t[i] = ByteOne => k < Len(a) /\ a[k + 1] = ByteTwo
    BY <1>2, <2>1
  <2>3. k < Len(a) => i < Len(t) /\ i + 1 \in 1..Len(t) /\ k + 1 = Len(s) + (i + 1)
    BY <1>1
  <2>4. t[i] = ByteTwo => k > 1 /\ a[k - 1] = ByteOne
    BY <1>2, <2>1
  <2>5. i > 1 => i - 1 \in 1..Len(t) /\ k - 1 = Len(s) + (i - 1)
    BY <1>1
  <2>6. i = 1 => k - 1 = Len(s)
    BY <1>1
  <2>7. i = 1 /\ k > 1 => a[k - 1] # ByteOne
    BY <1>1, <1>3, <2>6
  <2> HIDE DEF k
  <2>8. t[i] = ByteOne => i < Len(t) /\ t[i + 1] = ByteTwo
    BY <1>1, <2>2, <2>3
  <2>9. t[i] = ByteTwo => i > 1 /\ t[i - 1] = ByteOne
    BY <1>1, <2>4, <2>5, <2>7
  <2>. QED  BY <2>8, <2>9
<1>. QED  BY <1>1, <1>4, <1>5 DEF WellEncoded

LEMMA TogetherWellEncoded ==
  ASSUME NEW s \in Seq(Unit), NEW t \in Seq(Unit), WellEncoded(s), WellEncoded(t)
  PROVE  WellEncoded(s \o t)
<1> DEFINE a == s \o t
<1>1. /\ Len(s) \in Nat /\ Len(t) \in Nat /\ Len(a) = Len(s) + Len(t)
      /\ DOMAIN a = 1..Len(a) /\ DOMAIN s = 1..Len(s) /\ DOMAIN t = 1..Len(t)
      /\ \A i \in 1..Len(s) : a[i] = s[i]
      /\ \A i \in 1..Len(t) : a[Len(s) + i] = t[i]
  BY InARow
<1>2. /\ \A i \in 1..Len(s) : /\ s[i] = ByteOne => i < Len(s) /\ s[i + 1] = ByteTwo
                              /\ s[i] = ByteTwo => i > 1 /\ s[i - 1] = ByteOne
      /\ \A i \in 1..Len(t) : /\ t[i] = ByteOne => i < Len(t) /\ t[i + 1] = ByteTwo
                              /\ t[i] = ByteTwo => i > 1 /\ t[i - 1] = ByteOne
  BY <1>1 DEF WellEncoded
<1> HIDE DEF a
<1>3. ASSUME NEW k \in 1..Len(a)
      PROVE  /\ a[k] = ByteOne => k < Len(a) /\ a[k + 1] = ByteTwo
             /\ a[k] = ByteTwo => k > 1 /\ a[k - 1] = ByteOne
  <2>1. CASE k \in 1..Len(s)
    <3>1. k < Len(s) => k + 1 \in 1..Len(s) /\ k < Len(a)
      BY <1>1, <2>1
    <3>2. k > 1 => k - 1 \in 1..Len(s)
      BY <1>1, <2>1
    <3>. QED  BY <1>1, <1>2, <2>1, <3>1, <3>2
  <2>2. CASE ~ (k \in 1..Len(s))
    <3> DEFINE i == k - Len(s)
    <3>1. i \in 1..Len(t) /\ k = Len(s) + i
      BY <1>1, <2>2
    <3>2. i < Len(t) => i + 1 \in 1..Len(t) /\ k + 1 = Len(s) + (i + 1) /\ k < Len(a)
      BY <1>1, <3>1
    <3>3. i > 1 => i - 1 \in 1..Len(t) /\ k - 1 = Len(s) + (i - 1) /\ k > 1
      BY <1>1, <3>1
    <3> HIDE DEF i
    <3>. QED  BY <1>1, <1>2, <3>1, <3>2, <3>3
  <2>. QED  BY <2>1, <2>2
<1>. QED  BY <1>1, <1>3 DEF WellEncoded, a

\* No character is shown by no byte only.
LEMMA NothingIsNothing ==
  ASSUME NEW s \in Seq(Unit), WellEncoded(s), Characters[s] = <<>>
  PROVE  s = <<>>
<1>. SUFFICES ASSUME s # <<>> PROVE FALSE
  OBVIOUS
<1>1. ASSUME NEW t \in Seq(Unit), t # <<>>, t[Len(t)] # ByteTwo
      PROVE  Characters[t] # <<>>
  <2>1. Front(t) \in Seq(Unit) /\ Last(t) \in Unit /\ t = Append(Front(t), Last(t)) /\ Last(t) # ByteTwo
    BY <1>1, FrontIsShorter DEF Last
  <2>2. Characters[t] = Append(Characters[Front(t)], Shown(Last(t)))
    BY <2>1, NextByte DEF Extended
  <2> DEFINE U == Unit \cup {Character}
             c == Characters[Front(t)]
             v == Shown(Last(t))
  <2>3. c \in Seq(U) /\ v \in U
    BY <2>1, CharactersIsDefined DEF Text, Shown
  <2> HIDE DEF U, c, v
  <2>5. Append(c, v) # <<>>
    BY <2>3, SomethingAppended
  <2>. QED  BY <2>2, <2>5 DEF c, v
<1> DEFINE f == Front(s)
<1>2. /\ f \in Seq(Unit) /\ Last(s) \in Unit /\ s = Append(f, Last(s)) /\ Len(s) \in Nat \ {0}
      /\ Len(f) = Len(s) - 1 /\ \A i \in 1..(Len(s) - 1) : f[i] = s[i]
  BY FrontIsShorter, Zenon
<1>3. CASE s[Len(s)] # ByteTwo
  BY <1>1, <1>3
<1>4. CASE s[Len(s)] = ByteTwo
  <2>1. Len(s) > 1 /\ s[Len(s) - 1] = ByteOne
    BY <1>2, <1>4 DEF WellEncoded
  <2>2. Last(s) = ByteTwo
    BY <1>4 DEF Last
  <2>3. f # <<>> /\ f[Len(f)] # ByteTwo
    <3>1. ByteOne # ByteTwo
      BY DEF ByteOne, ByteTwo
    <3>2. Len(f) \in 1..(Len(s) - 1)
      BY <1>2, <2>1
    <3>. QED  BY <1>2, <2>1, <3>1, <3>2
  <2>4. Characters[f] # <<>>
    BY <1>1, <1>2, <2>3
  <2>5. Characters[s] = Characters[f]
    BY <1>2, <2>2, NextByte DEF Extended
  <2>. QED  BY <2>4, <2>5
<1>. QED  BY <1>3, <1>4

\* What the decoder makes of a chunk: the characters of all bytes but one at
\* the end that begins a character.
LEMMA ChunkIsDecoded ==
  ASSUME NEW before \in {<<>>, <<ByteOne>>}, NEW bytes \in Seq(Unit), bytes # <<>>
  PROVE  LET d == Decoded(before, bytes) IN
         /\ before \in Seq(Unit) /\ d.partial \in {<<>>, <<ByteOne>>} /\ d.partial \in Seq(Unit)
         /\ \E whole \in Seq(Unit) :
              /\ before \o bytes = whole \o d.partial
              /\ d.chars = Characters[whole] /\ d.bad = ~ WellEncoded(whole)
              /\ whole # <<>> /\ whole[Len(whole)] = ByteOne => d.partial = <<ByteOne>>
<1> DEFINE all == before \o bytes
           whole == IF all # <<>> /\ Last(all) = ByteOne THEN Front(all) ELSE all
           d == Decoded(before, bytes)
<1>0. ByteOne \in Unit
  BY Zenon DEF Unit
<1>1. before \in Seq(Unit)
  <2>2. CASE before = <<>>
    BY <2>2
  <2>3. CASE before = <<ByteOne>>
    BY <1>0, <2>3
  <2>. QED  BY <2>2, <2>3
<1>2. all \in Seq(Unit) /\ all # <<>> /\ Len(all) \in Nat \ {0}
  BY <1>1
<1>3. /\ d.partial = SubSeq(all, Len(whole) + 1, Len(all)) /\ d.bad = ~ WellEncoded(whole)
      /\ d.chars = Characters[whole]
  BY DEF Decoded, all
<1> DEFINE Right(w) == /\ all = w \o d.partial
                       /\ d.chars = Characters[w] /\ d.bad = ~ WellEncoded(w)
                       /\ w # <<>> /\ w[Len(w)] = ByteOne => d.partial = <<ByteOne>>
<1>. SUFFICES /\ d.partial \in {<<>>, <<ByteOne>>} /\ d.partial \in Seq(Unit)
              /\ \E w \in Seq(Unit) : Right(w)
  BY <1>1
<1> HIDE DEF all, d
<1>4. CASE Last(all) = ByteOne
  <2>1. whole = Front(all)
    BY <1>2, <1>4
  <2>0. d.partial = SubSeq(all, Len(whole) + 1, Len(all)) /\ d.bad = ~ WellEncoded(whole)
        /\ d.chars = Characters[whole]
    BY <1>3
  <2> HIDE DEF whole
  <2>2. whole \in Seq(Unit) /\ Len(whole) = Len(all) - 1 /\ all = Append(whole, ByteOne)
    BY <1>2, <1>4, <2>1, FrontIsShorter
  <2>3. d.partial = <<ByteOne>>
    <3>1. SubSeq(all, Len(all), Len(all)) = <<ByteOne>>
      BY <1>2, <1>4, LastAlone DEF Last
    <3>2. Len(whole) + 1 = Len(all)
      BY <1>2, <2>2
    <3>. QED  BY <2>0, <3>1, <3>2
  <2>4. all = whole \o d.partial
    BY <1>0, <2>2, <2>3
  <2>5. Right(whole)
    BY <2>0, <2>3, <2>4
  <2>6. d.partial \in {<<>>, <<ByteOne>>} /\ d.partial \in Seq(Unit)
    BY <1>0, <2>3
  <2> HIDE DEF Right
  <2>. QED  BY <2>2, <2>5, <2>6
<1>5. CASE Last(all) # ByteOne
  <2>1. whole = all
    BY <1>5
  <2>0. d.partial = SubSeq(all, Len(whole) + 1, Len(all)) /\ d.bad = ~ WellEncoded(whole)
        /\ d.chars = Characters[whole]
    BY <1>3
  <2> HIDE DEF whole
  <2>2. d.partial = <<>>
    BY <1>2, <2>0, <2>1, NothingBehindTheEnd
  <2>3. all = whole \o d.partial
    BY <1>2, <2>1, <2>2
  <2>4. whole[Len(whole)] # ByteOne
    BY <1>5, <2>1 DEF Last
  <2>5. whole \in Seq(Unit) /\ Right(whole)
    BY <1>2, <2>0, <2>1, <2>3, <2>4
  <2>6. d.partial \in {<<>>, <<ByteOne>>} /\ d.partial \in Seq(Unit)
    BY <2>2
  <2> HIDE DEF Right
  <2>. QED  BY <2>5, <2>6
<1>. QED  BY <1>4, <1>5

\* However the bytes of a chunk fall, the characters they complete are no more
\* than they are: the byte that was held back begins none of its own.
LEMMA DecodedIsShort ==
  ASSUME NEW before \in {<<>>, <<ByteOne>>}, NEW bytes \in Seq(Unit), bytes # <<>>
  PROVE  LET d == Decoded(before, bytes) IN
         /\ d.partial \in {<<>>, <<ByteOne>>}
         /\ IsSeq(d.chars) /\ Len(d.chars) \in Nat
         /\ ~ d.bad => Len(d.chars) <= Len(bytes)
<1> DEFINE d == Decoded(before, bytes)
<1>1. before \in Seq(Unit) /\ d.partial \in {<<>>, <<ByteOne>>} /\ d.partial \in Seq(Unit)
  BY ChunkIsDecoded
<1>2. PICK whole \in Seq(Unit) :
        /\ before \o bytes = whole \o d.partial
        /\ d.chars = Characters[whole] /\ d.bad = ~ WellEncoded(whole)
  BY ChunkIsDecoded
<1> HIDE DEF d
<1>3. Characters[whole] \in Text /\ Len(Characters[whole]) \in Nat /\ Len(Characters[whole]) <= Len(whole)
  BY BytesAreMore, CharactersIsDefined
<1>4. IsSeq(d.chars)
  <2> DEFINE U == Unit \cup {Character}
  <2>1. d.chars \in Seq(U)
    BY <1>2, <1>3 DEF Text
  <2> HIDE DEF U
  <2>. QED  BY <2>1 DEF IsSeq
<1>5. /\ Len(before) + Len(bytes) = Len(whole) + Len(d.partial)
      /\ Len(bytes) \in Nat /\ Len(whole) \in Nat /\ Len(d.partial) \in {0, 1}
  BY <1>1, <1>2, InARow
<1>6. ASSUME before = <<ByteOne>>, ~ d.bad
      PROVE  Len(Characters[whole]) <= Len(bytes)
  <2>1. Len(before) = 1 /\ before[1] = ByteOne
    BY <1>6
  <2>2. CASE whole = <<>>
    BY <1>3, <1>5, <2>2
  <2>3. CASE whole # <<>>
    <3>1. whole[1] = ByteOne
      <4>1. (before \o bytes)[1] = ByteOne /\ (whole \o d.partial)[1] = whole[1]
        BY <1>1, <2>1, <2>3, InARow
      <4>. QED  BY <1>2, <4>1
    <3>2. 2 \in DOMAIN whole /\ whole[2] = ByteTwo
      <4>1. WellEncoded(whole)
        BY <1>2, <1>6, Zenon
      <4>2. Len(whole) \in Nat \ {0} /\ DOMAIN whole = 1..Len(whole) /\ 1 \in DOMAIN whole
        BY <2>3
      <4>3. 1 < Len(whole) /\ whole[1 + 1] = ByteTwo
        BY <3>1, <4>1, <4>2 DEF WellEncoded
      <4>. QED  BY <4>2, <4>3
    <3>3. Len(Characters[whole]) < Len(whole)
      BY <3>2, BytesAreMore
    <3>. QED  BY <1>3, <1>5, <2>1, <3>3
  <2>. QED  BY <2>2, <2>3
<1>7. ASSUME before = <<>>
      PROVE  Len(Characters[whole]) <= Len(bytes)
  BY <1>3, <1>5, <1>7
<1>. QED  BY <1>1, <1>2, <1>3, <1>4, <1>6, <1>7 DEF d

---------------------------------------------------------------------------
(* The parts of a step *)

\* The reader is asked for three characters at most.
LEMMA NullIsTwo == Len(Null) = 2
BY DEF Null

LEMMA WantsIsSmall == ASSUME NEW p PROVE Wants(p) \in 1..(Len(Null) + 1)
<1>1. Wants(p) \in {1, Len(Null), Len(Null) + 1}
  BY DEF Wants
<1>. QED  BY <1>1, NullIsTwo

\* What a step reads of the buffer leaves less of it, and no step but Fill
\* reads the file.
Shorter ==
  /\ IsSeq(buffer') /\ Len(buffer') \in Nat /\ Len(buffer') <= Len(buffer)
  /\ UNCHANGED <<rest, partial>>

LEMMA DropShortens ==
  ASSUME IsSeq(buffer), NEW n \in Nat, Drop(n)
  PROVE  Shorter /\ UNCHANGED eof
<1> DEFINE S == {buffer[i] : i \in DOMAIN buffer}
<1>1. buffer \in Seq(S) /\ Len(buffer) \in Nat
  BY DEF IsSeq
<1>2. buffer' = SubSeq(buffer, n + 1, Len(buffer)) /\ UNCHANGED <<rest, partial, eof>>
  BY DEF Drop
<1> HIDE DEF S
<1>3. buffer' \in Seq(S) /\ Len(buffer') \in Nat /\ Len(buffer') <= Len(buffer)
  BY <1>1, <1>2
<1>4. buffer' \in Seq({buffer'[i] : i \in DOMAIN buffer'})
  BY <1>3
<1>. QED  BY <1>2, <1>3, <1>4 DEF Shorter, IsSeq

LEMMA SameIsShorter == ASSUME IsSeq(buffer), UNCHANGED reader PROVE Shorter /\ UNCHANGED eof
<1>1. Len(buffer) \in Nat
  BY DEF IsSeq
<1>. QED  BY <1>1 DEF Shorter, reader, IsSeq

\* Calls and places: whatever a step does to the stack, it stays one.
StackOK == stack \in Seq(Frame) /\ stack # <<>>

LEMMA GotoKeeps == ASSUME StackOK, NEW p \in Point, Goto(p) PROVE StackOK'
<1>1. Head(stack) \in Frame /\ Tail(stack) \in Seq(Frame)
  BY DEF StackOK
<1>2. [Head(stack) EXCEPT !.point = p] \in Frame
  BY <1>1 DEF Frame
<1>. QED  BY <1>1, <1>2 DEF StackOK, Goto

LEMMA GotoStringKeeps == ASSUME StackOK, NEW t \in {"colon", "after", "uri"}, GotoString(t) PROVE StackOK'
<1>1. Head(stack) \in Frame /\ Tail(stack) \in Seq(Frame)
  BY DEF StackOK
<1>2. [Head(stack) EXCEPT !.point = "string", !.then = t] \in Frame
  BY <1>1 DEF Frame, Point
<1>. QED  BY <1>1, <1>2 DEF StackOK, GotoString

LEMMA PushKeeps == ASSUME StackOK, NEW k \in Object \cup Array, Push(k) PROVE StackOK'
<1>1. Head(stack) \in Frame /\ Tail(stack) \in Seq(Frame)
  BY DEF StackOK
<1>2. [Head(stack) EXCEPT !.point = "after"] \in Frame
  BY <1>1 DEF Frame, Point
<1>3. Call(k) \in Frame
  BY DEF Call, Frame, Point
<1> DEFINE frames == <<Call(k), [Head(stack) EXCEPT !.point = "after"]>>
<1>4. frames \in Seq(Frame) /\ Len(frames) = 2
  BY <1>2, <1>3
<1>5. stack' = frames \o Tail(stack)
  BY DEF Push
<1> HIDE DEF frames
<1>. QED  BY <1>1, <1>4, <1>5 DEF StackOK

---------------------------------------------------------------------------
(* The steps *)

\* A step that reads no chunk.
Quiet ==
  /\ UNCHANGED <<document, size>> /\ Shorter /\ StackOK'
  /\ uri' \in {uri, <<>>, <<token>>}
  /\ eof' \in BOOLEAN /\ asset' \in BOOLEAN
  /\ verdict' \in {"reading", "accepted", "refused"}

LEMMA QuietKeeps == ASSUME ReaderInv, Quiet PROVE ReaderInv'
<1>1. /\ UNCHANGED <<document, size, rest, partial>> /\ IsSeq(buffer')
      /\ Len(buffer') \in Nat /\ Len(buffer') <= Len(buffer)
  BY DEF Quiet, Shorter
<1>2. stack' \in Seq(Frame) /\ stack' # <<>>
  BY DEF Quiet, StackOK
<1>3. Len(uri') <= 1
  <2>1. Len(uri) <= 1
    BY DEF ReaderInv, BufferIsBounded, ReaderTypeOK
  <2>2. uri' = uri \/ uri' = <<>> \/ uri' = <<token>>
    BY DEF Quiet
  <2>. QED  BY <2>1, <2>2
<1>4. \A i \in DOMAIN stack' : stack'[i] \in Frame
  BY <1>2
<1>5. ReaderTypeOK'
  BY <1>1, <1>3, <1>4 DEF Quiet, ReaderInv, BufferIsBounded, ReaderTypeOK
<1>6. Len(buffer') <= size' + Len(Null)
  <2>1. IsSeq(buffer) /\ size \in ChunkSize /\ Len(buffer) <= size + Len(Null)
    BY DEF ReaderInv, BufferIsBounded, ReaderTypeOK
  <2>2. Len(buffer) \in Nat /\ size \in Nat
    BY <2>1, InputAssumption DEF IsSeq
  <2>. QED  BY <1>1, <2>1, <2>2, NullIsTwo
<1>. QED  BY <1>1, <1>2, <1>5, <1>6 DEF ReaderInv, BufferIsBounded

\* The places the grammar goes to are places of the code.
LEMMA GrammarIsQuiet == ASSUME ReaderInv, Grammar PROVE Quiet
<1>1. /\ StackOK /\ IsSeq(buffer) /\ eof \in BOOLEAN /\ asset \in BOOLEAN
      /\ verdict = "reading" /\ UNCHANGED <<document, size>>
  BY DEF ReaderInv, StackOK, BufferIsBounded, ReaderTypeOK, Grammar, Decides, Sees, Reading, input
<1>2. Head(stack) \in Frame
  BY <1>1 DEF StackOK
<1>3. Len(Null) \in Nat
  BY NullIsTwo
<1>. USE <1>1
<1>4. CASE Open
  <2>1. Drop(1) /\ Goto("first") /\ UNCHANGED <<found, verdict>>
    BY <1>4 DEF Open
  <2>. QED  BY <2>1, DropShortens, GotoKeeps DEF Quiet, Point, found
<1>5. CASE First \/ Next1
  <2>1. Item \in Point /\ Goto(Item) /\ UNCHANGED <<reader, found, verdict>>
    BY <1>5 DEF First, Next1, Item, Point
  <2>. QED  BY <2>1, SameIsShorter, GotoKeeps DEF Quiet, found
<1>6. CASE Comma
  <2>1. Drop(1) /\ Goto("next") /\ UNCHANGED <<found, verdict>>
    BY <1>6 DEF Comma
  <2>. QED  BY <2>1, DropShortens, GotoKeeps DEF Quiet, Point, found
<1>7. CASE Close
  <2>1. Drop(1) /\ uri' \in {<<>>, uri} /\ UNCHANGED <<asset, verdict>>
    BY <1>7 DEF Close
  <2>2. StackOK'
    <3>1. CASE Len(stack) = 1
      BY <1>7, <3>1, GotoKeeps DEF Close, Point
    <3>2. CASE Len(stack) # 1
      <4>1. stack' = Tail(stack)
        BY <1>7, <3>2 DEF Close
      <4>2. stack \in Seq(Frame) /\ Len(stack) \in Nat \ {0, 1}
        BY <3>2 DEF StackOK
      <4>3. Tail(stack) \in Seq(Frame) /\ Len(Tail(stack)) \in Nat \ {0}
        BY <4>2
      <4>4. Tail(stack) # <<>>
        BY <4>3, EmptyHasNoLength
      <4>. QED  BY <4>1, <4>3, <4>4 DEF StackOK
    <3>. QED  BY <3>1, <3>2
  <2>. QED  BY <2>1, <2>2, DropShortens DEF Quiet
<1>8. CASE ReadKey
  <2>1. Drop(1) /\ GotoString("colon") /\ UNCHANGED <<uri, asset, verdict>>
    BY <1>8 DEF ReadKey
  <2>. QED  BY <2>1, DropShortens, GotoStringKeeps DEF Quiet
<1>9. CASE Colon
  <2>1. Drop(1) /\ UNCHANGED <<found, verdict>>
        /\ (Goto("asset") \/ Push("resources") \/ Goto("uri") \/ Goto("item"))
    BY <1>9 DEF Colon
  <2>2. StackOK'
    BY <2>1, GotoKeeps, PushKeeps DEF Point, Array
  <2>. QED  BY <2>1, <2>2, DropShortens DEF Quiet, found
<1>10. CASE Asset
  <2>1. Push("object") /\ asset' = TRUE /\ UNCHANGED <<reader, uri, verdict>>
    BY <1>10 DEF Asset
  <2>. QED  BY <2>1, SameIsShorter, PushKeeps DEF Quiet, Object
<1>11. CASE ItemValue
  <2>1. UNCHANGED <<uri, asset, verdict>> /\ (Drop(1) \/ UNCHANGED reader)
        /\ (Push("resource") \/ Push("object") \/ Push("array") \/ GotoString("after") \/ Goto("scalar"))
    BY <1>11 DEF ItemValue
  <2>2. StackOK'
    BY <2>1, GotoKeeps, GotoStringKeeps, PushKeeps DEF Point, Array, Object
  <2>3. Shorter /\ UNCHANGED eof
    BY <2>1, DropShortens, SameIsShorter
  <2>. QED  BY <2>1, <2>2, <2>3 DEF Quiet
<1>12. CASE Uri
  <2>1. UNCHANGED <<uri, asset, verdict>>
        /\ \/ Drop(Len(Null)) /\ Goto("after")
           \/ Drop(1) /\ GotoString("uri")
    BY <1>12 DEF Uri
  <2>2. StackOK'
    BY <2>1, GotoKeeps, GotoStringKeeps DEF Point
  <2>3. Shorter /\ UNCHANGED eof
    BY <1>3, <2>1, DropShortens
  <2>. QED  BY <2>1, <2>2, <2>3 DEF Quiet
<1>13. CASE StringChar
  <2>1. Drop(1) /\ UNCHANGED <<uri, asset, verdict>> /\ (Goto("string") \/ Goto("escape"))
    BY <1>13 DEF StringChar
  <2>2. StackOK'
    BY <2>1, GotoKeeps DEF Point
  <2>. QED  BY <2>1, <2>2, DropShortens DEF Quiet
<1>14. CASE StringEnds
  <2>1. Drop(1) /\ uri' \in {uri, <<token>>} /\ UNCHANGED <<asset, verdict>>
        /\ (Goto("after") \/ Goto(Head(stack).then))
    BY <1>14 DEF StringEnds
  <2>2. Head(stack).then \in Point
    BY <1>2 DEF Frame, Point
  <2>3. StackOK'
    BY <2>1, <2>2, GotoKeeps DEF Point
  <2>. QED  BY <2>1, <2>3, DropShortens DEF Quiet
<1>15. CASE ScalarChar
  <2>1. Drop(1) /\ UNCHANGED <<stack, uri, asset, verdict>>
    BY <1>15 DEF ScalarChar
  <2>. QED  BY <2>1, DropShortens DEF Quiet, StackOK
<1>16. CASE ScalarEnds
  <2>1. Goto("after") /\ UNCHANGED <<reader, found, verdict>>
    BY <1>16 DEF ScalarEnds
  <2>. QED  BY <2>1, SameIsShorter, GotoKeeps DEF Quiet, Point, found
<1>17. CASE Accept
  <2>1. verdict' = "accepted" /\ UNCHANGED <<reader, stack, found>>
    BY <1>17 DEF Accept
  <2>. QED  BY <2>1, SameIsShorter DEF Quiet, StackOK, found
<1>. QED  BY <1>4, <1>5, <1>6, <1>7, <1>8, <1>9, <1>10, <1>11, <1>12, <1>13, <1>14, <1>15, <1>16, <1>17 DEF Grammar

LEMMA OthersAreQuiet ==
  ASSUME ReaderInv, FillAtEnd \/ Unreadable \/ Blank \/ Unfit \/ UNCHANGED vars
  PROVE  Quiet \/ ReaderInv'
<1>1. /\ StackOK /\ IsSeq(buffer) /\ eof \in BOOLEAN /\ asset \in BOOLEAN
  BY DEF ReaderInv, StackOK, BufferIsBounded, ReaderTypeOK
<1>. USE <1>1
<1>2. CASE FillAtEnd
  <2>1. /\ eof' \in BOOLEAN /\ verdict = "reading"
        /\ UNCHANGED <<document, size, rest, partial, buffer, stack, found, verdict>>
    BY <1>2 DEF FillAtEnd, EndNoted, Short, Reading, input
  <2>2. Shorter
    BY <2>1 DEF Shorter, IsSeq
  <2>. QED  BY <2>1, <2>2 DEF Quiet, StackOK, found
<1>3. CASE Unreadable \/ Unfit
  <2>1. verdict' = "refused" /\ UNCHANGED <<document, size, reader, stack, found>>
    BY <1>3 DEF Unreadable, Unfit, Refuse, input
  <2>. QED  BY <2>1, SameIsShorter DEF Quiet, StackOK, found
<1>4. CASE Blank
  <2>1. Drop(1) /\ verdict = "reading" /\ UNCHANGED <<document, size, stack, found, verdict>>
    BY <1>4 DEF Blank, Sees, Reading, input
  <2>. QED  BY <2>1, DropShortens DEF Quiet, StackOK, found
<1>5. CASE UNCHANGED vars
  BY <1>5 DEF vars, input, reader, found, ReaderInv, BufferIsBounded, ReaderTypeOK, IsSeq
<1>. QED  BY <1>2, <1>3, <1>4, <1>5

\* A chunk is read only when the code asks for more than the buffer holds.
LEMMA FillKeeps == ASSUME ReaderInv, Fill PROVE ReaderInv'
<1> DEFINE d == DecodedChunk(Chunk)
           n == Len(Chunk)
<1>1. /\ document \in Seq(Unit) /\ rest \in Seq(Unit) /\ Len(rest) <= Len(document)
      /\ IsSeq(buffer) /\ partial \in {<<>>, <<ByteOne>>} /\ size \in ChunkSize
      /\ \A i \in DOMAIN rest : rest[i] = document[Len(document) - Len(rest) + i]
  BY DEF ReaderInv, BufferIsBounded, ReaderTypeOK
<1>2. /\ rest # <<>> /\ ~ d.bad /\ Len(buffer) < Wants(At)
      /\ rest' = SubSeq(rest, n + 1, Len(rest)) /\ partial' = d.partial /\ buffer' = buffer \o d.chars
      /\ verdict' \in {"crashed", "reading"}
      /\ UNCHANGED <<document, size, eof, stack, uri, asset>>
  BY DEF Fill, Short, input, found
<1>3. size \in Nat \ {0, 1}
  BY <1>1, InputAssumption
<1>4. Chunk \in Seq(Unit) /\ Chunk # <<>> /\ n \in 1..Len(rest) /\ n <= size
  <2> DEFINE m == IF size < Len(rest) THEN size ELSE Len(rest)
  <2>1. m \in 1..Len(rest) /\ m <= size
    BY <1>1, <1>2, <1>3
  <2> HIDE DEF m
  <2>2. Chunk = SubSeq(rest, 1, m)
    BY DEF Chunk, m
  <2>3. Chunk \in Seq(Unit) /\ Len(Chunk) = m
    BY <1>1, <2>1, <2>2
  <2>. QED  BY <1>1, <2>1, <2>3
<1>5. d.partial \in {<<>>, <<ByteOne>>} /\ IsSeq(d.chars) /\ Len(d.chars) \in Nat /\ Len(d.chars) <= n
  BY <1>1, <1>2, <1>4, DecodedIsShort DEF DecodedChunk
<1> HIDE DEF d, n
<1>6. /\ rest' \in Seq(Unit) /\ Len(rest') = Len(rest) - n
      /\ \A i \in DOMAIN rest' : rest'[i] = rest[n + i] /\ n + i \in DOMAIN rest
  BY <1>1, <1>2, <1>4
<1>7. \A i \in DOMAIN rest' : rest'[i] = document[Len(document) - Len(rest') + i]
  BY <1>1, <1>4, <1>6
<1>8. IsSeq(buffer') /\ Len(buffer') = Len(buffer) + Len(d.chars)
  <2> DEFINE S == {buffer[i] : i \in DOMAIN buffer} \cup {d.chars[i] : i \in DOMAIN d.chars}
  <2>1. buffer \in Seq(S) /\ d.chars \in Seq(S)
    BY <1>1, <1>5 DEF IsSeq
  <2> HIDE DEF S
  <2>2. buffer' \in Seq(S) /\ Len(buffer') = Len(buffer) + Len(d.chars)
    BY <1>2, <2>1
  <2>3. buffer' \in Seq({buffer'[i] : i \in DOMAIN buffer'})
    BY <2>2
  <2>. QED  BY <2>2, <2>3 DEF IsSeq
<1>9. Len(buffer') <= size + Len(Null)
  <2>1. Len(buffer) \in Nat
    BY <1>1 DEF IsSeq
  <2>2. Wants(At) \in 1..3 /\ Len(Null) = 2
    BY WantsIsSmall, NullIsTwo
  <2>3. n \in Nat
    BY <1>1, <1>4
  <2>. QED  BY <1>2, <1>3, <1>4, <1>5, <1>8, <2>1, <2>2, <2>3
<1>10. ReaderTypeOK'
  BY <1>2, <1>5, <1>7 DEF ReaderInv, BufferIsBounded, ReaderTypeOK
<1>11. Len(rest') <= Len(document')
  BY <1>1, <1>2, <1>4, <1>6
<1>. QED  BY <1>2, <1>6, <1>8, <1>9, <1>10, <1>11 DEF ReaderInv, BufferIsBounded

---------------------------------------------------------------------------

LEMMA ReaderInit == Init => ReaderInv
<1>. SUFFICES ASSUME Init PROVE ReaderInv
  OBVIOUS
<1>1. /\ document \in Seq(Unit) /\ size \in Nat \ {0, 1} /\ size \in ChunkSize
      /\ rest = document /\ partial = <<>> /\ buffer = <<>> /\ eof = FALSE
      /\ uri = <<>> /\ asset = FALSE /\ verdict = "reading"
  BY InputAssumption DEF Init
<1>2. stack = <<Call("gltf")>> /\ Call("gltf") \in Frame
  BY DEF Init, Call, Frame, Object, Point
<1>3. stack \in Seq(Frame) /\ stack # <<>>
  BY <1>2
<1>4. \A i \in DOMAIN rest : rest[i] = document[Len(document) - Len(rest) + i]
  BY <1>1
<1>5. ReaderTypeOK
  <2>1. Len(uri) <= 1
    BY <1>1, EmptyHasNoLength
  <2>2. \A i \in DOMAIN stack : stack[i] \in Frame
    BY <1>3
  <2>3. {eof, asset} \subseteq BOOLEAN
    BY <1>1
  <2>. QED  BY <1>1, <1>4, <2>1, <2>2, <2>3 DEF ReaderTypeOK
<1>6. IsSeq(buffer) /\ Len(buffer) <= size + Len(Null)
  BY <1>1, NullIsTwo DEF IsSeq
<1>. QED  BY <1>1, <1>3, <1>5, <1>6 DEF ReaderInv, BufferIsBounded

\* Whatever the size of an upload, what is kept of it is a chunk and the word
\* that is looked for: the memory of a request does not grow with the file.
THEOREM BufferStaysBounded == Spec => []BufferIsBounded
<1>1. ReaderInv /\ [Next]_vars => ReaderInv'
  <2>. SUFFICES ASSUME ReaderInv, [Next]_vars PROVE ReaderInv'
    OBVIOUS
  <2>. QED  BY FillKeeps, GrammarIsQuiet, OthersAreQuiet, QuietKeeps DEF Next
<1>2. ReaderInv => BufferIsBounded
  BY DEF ReaderInv
<1>. QED  BY ReaderInit, <1>1, <1>2, PTL DEF Spec

---------------------------------------------------------------------------
(* The chunks *)

\* The file is what was decoded, what the decoder holds and what is left, and
\* what was decoded is well encoded; at its end nothing is left.
TextInv ==
  /\ ReaderInv
  /\ buffer \in Text
  /\ eof => rest = <<>> /\ partial = <<>>
  /\ verdict = "accepted" => eof
  /\ \E done \in Seq(Unit) : document = done \o (partial \o rest) /\ WellEncoded(done)

LEMMA ConcatEmpty ==
  ASSUME NEW S, NEW s \in Seq(S), NEW t \in Seq(S), s \o t = <<>>
  PROVE  t = <<>>
<1>1. Len(s \o t) = Len(s) + Len(t) /\ Len(s) \in Nat /\ Len(t) \in Nat
  OBVIOUS
<1>2. Len(t) = 0
  BY <1>1, EmptyHasNoLength
<1>. QED  BY <1>2

LEMMA Regrouped == \A a, b, c \in Seq(Unit) : (a \o b) \o c = a \o (b \o c)
BY ConcatAssociative

LEMMA CutInTwo ==
  ASSUME NEW S, NEW s \in Seq(S), NEW n \in 0..Len(s)
  PROVE  s = SubSeq(s, 1, n) \o SubSeq(s, n + 1, Len(s))
<1> DEFINE a == SubSeq(s, 1, n)
           b == SubSeq(s, n + 1, Len(s))
           t == a \o b
<1>1. /\ Len(s) \in Nat /\ n \in Nat
      /\ a \in Seq(S) /\ Len(a) = n /\ \A i \in 1..n : a[i] = s[i]
      /\ b \in Seq(S) /\ Len(b) = Len(s) - n /\ \A i \in 1..(Len(s) - n) : b[i] = s[n + i]
  OBVIOUS
<1> HIDE DEF a, b
<1>2. t \in Seq(S) /\ Len(t) = Len(s)
  BY <1>1
<1>3. ASSUME NEW i \in 1..Len(s)
      PROVE  t[i] = s[i]
  <2>1. CASE i \in 1..n
    BY <1>1, <2>1
  <2>2. CASE ~ (i \in 1..n)
    <3>1. i - n \in 1..(Len(s) - n) /\ i = n + (i - n)
      BY <1>1, <2>2
    <3>2. t[n + (i - n)] = b[i - n]
      BY <1>1, <3>1
    <3>. QED  BY <1>1, <3>1, <3>2
  <2>. QED  BY <2>1, <2>2
<1> HIDE DEF t
<1>4. t = s
  BY <1>2, <1>3
<1>. QED  BY <1>4 DEF t, a, b

LEMMA PartialIsBytes == ASSUME NEW p \in {<<>>, <<ByteOne>>} PROVE p \in Seq(Unit)
<1>1. ByteOne \in Unit
  BY Zenon DEF Unit
<1>2. CASE p = <<>>
  BY <1>2
<1>3. CASE p = <<ByteOne>>
  BY <1>1, <1>3
<1>. QED  BY <1>2, <1>3

LEMMA RemainderIsWellEncoded ==
  ASSUME NEW s \in Seq(Unit), NEW t \in Seq(Unit), WellEncoded(s), WellEncoded(s \o t)
  PROVE  WellEncoded(t)
<1>1. s = <<>> \/ s[Len(s)] # ByteOne
  <2>. SUFFICES ASSUME s # <<>> PROVE s[Len(s)] # ByteOne
    OBVIOUS
  <2>1. Len(s) \in DOMAIN s /\ ~ (Len(s) < Len(s))
    OBVIOUS
  <2>. QED  BY <2>1 DEF WellEncoded
<1>. QED  BY <1>1, PiecesAreWellEncoded

LEMMA RestIsWellEncoded ==
  ASSUME TextInv, WellEncoded(document)
  PROVE  WellEncoded(partial \o rest)
<1>1. partial \in Seq(Unit) /\ rest \in Seq(Unit)
  BY PartialIsBytes DEF TextInv, ReaderInv, BufferIsBounded, ReaderTypeOK
<1>2. PICK done \in Seq(Unit) : document = done \o (partial \o rest) /\ WellEncoded(done)
  BY DEF TextInv
<1> DEFINE left == partial \o rest
<1>3. left \in Seq(Unit)
  BY <1>1, InARow
<1> HIDE DEF left
<1>4. WellEncoded(done \o left)
  BY <1>2 DEF left
<1>5. WellEncoded(left)
  BY <1>2, <1>3, <1>4, RemainderIsWellEncoded
<1>. QED  BY <1>5 DEF left

\* A chunk moves bytes from the file to the buffer, and the text stays the
\* same; only a file cut off within a character can leave the buffer empty.
LEMMA FillKeepsText ==
  ASSUME TextInv, Fill
  PROVE  /\ TextInv' /\ text' = text
         /\ WellEncoded(document) => verdict' = verdict
<1> DEFINE d == DecodedChunk(Chunk)
           n == IF size < Len(rest) THEN size ELSE Len(rest)
<1>1. /\ ReaderInv /\ buffer \in Text /\ rest \in Seq(Unit) /\ size \in Nat \ {0, 1}
      /\ partial \in {<<>>, <<ByteOne>>} /\ verdict = "reading"
      /\ document \in Seq(Unit)
  BY InputAssumption DEF TextInv, ReaderInv, BufferIsBounded, ReaderTypeOK, Fill, Short, Reading
<1>2. /\ rest # <<>> /\ ~ d.bad /\ rest' = SubSeq(rest, Len(Chunk) + 1, Len(rest))
      /\ partial' = d.partial /\ buffer' = buffer \o d.chars
      /\ verdict' = IF InString /\ buffer' = <<>> THEN "crashed" ELSE "reading"
      /\ ~ eof /\ UNCHANGED <<document, eof>>
  BY DEF Fill, Short, input
<1>3. n \in 1..Len(rest) /\ Len(rest) \in Nat
  BY <1>1, <1>2
<1>4. Chunk \in Seq(Unit) /\ Len(Chunk) = n /\ Chunk # <<>> /\ rest' \in Seq(Unit) /\ rest = Chunk \o rest'
  <2> HIDE DEF n
  <2>1. Chunk = SubSeq(rest, 1, n)
    BY DEF Chunk, n
  <2>0. Chunk \in Seq(Unit) /\ Len(Chunk) = n
    BY <1>1, <1>3, <2>1
  <2>2. Chunk \in Seq(Unit) /\ Len(Chunk) = n /\ Chunk # <<>>
    BY <1>3, <2>0, EmptyHasNoLength
  <2>3. rest' = SubSeq(rest, n + 1, Len(rest))
    BY <1>2, <2>2
  <2>4. rest' \in Seq(Unit)
    BY <1>1, <1>3, <2>3
  <2>5. n \in 0..Len(rest)
    BY <1>3
  <2>6. rest = SubSeq(rest, 1, n) \o SubSeq(rest, n + 1, Len(rest))
    BY <1>1, <2>5, CutInTwo
  <2>. QED  BY <2>1, <2>2, <2>3, <2>4, <2>6
<1>5. /\ partial \in Seq(Unit) /\ partial' \in {<<>>, <<ByteOne>>} /\ partial' \in Seq(Unit)
      /\ \E whole \in Seq(Unit) :
           /\ partial \o Chunk = whole \o partial'
           /\ d.chars = Characters[whole] /\ d.bad = ~ WellEncoded(whole)
  BY <1>1, <1>2, <1>4, ChunkIsDecoded DEF DecodedChunk
<1>6. PICK whole \in Seq(Unit) :
        /\ partial \o Chunk = whole \o partial'
        /\ d.chars = Characters[whole] /\ d.bad = ~ WellEncoded(whole)
  BY <1>5
<1>7. WellEncoded(whole)
  BY <1>2, <1>6, Zenon
<1> HIDE DEF d, n
<1>8. Characters[whole] \in Text /\ buffer' = buffer \o Characters[whole]
  BY <1>2, <1>6, CharactersIsDefined
<1>9. partial' \o rest' \in Seq(Unit) /\ partial \o rest = whole \o (partial' \o rest')
  <2>0. partial \in Seq(Unit) /\ Chunk \in Seq(Unit) /\ rest' \in Seq(Unit) /\ partial' \in Seq(Unit)
    BY <1>4, <1>5
  <2>1. (partial \o Chunk) \o rest' = partial \o (Chunk \o rest')
    BY <2>0, Regrouped, Zenon
  <2>2. (whole \o partial') \o rest' = whole \o (partial' \o rest')
    BY <2>0, Regrouped, Zenon
  <2>. QED  BY <1>4, <1>5, <1>6, <2>1, <2>2, InARow
<1>10. text' = text
  <2> DEFINE left == partial' \o rest'
             U == Unit \cup {Character}
  <2>1. text' = buffer' \o Characters[left]
    BY DEF text
  <2>2. text = buffer \o Characters[whole \o left]
    BY <1>9 DEF text
  <2>3. left \in Seq(Unit)
    BY <1>9
  <2> HIDE DEF left
  <2>4. Characters[whole \o left] = Characters[whole] \o Characters[left] /\ Characters[left] \in Text
    BY <1>6, <2>3, Joins, CharactersIsDefined
  <2>5. buffer \in Seq(U) /\ Characters[whole] \in Seq(U) /\ Characters[left] \in Seq(U)
    BY <1>1, <1>8, <2>4 DEF Text
  <2> HIDE DEF U
  <2>6. \A a, b, c \in Seq(U) : (a \o b) \o c = a \o (b \o c)
    BY ConcatAssociative
  <2>9. (buffer \o Characters[whole]) \o Characters[left] = buffer \o (Characters[whole] \o Characters[left])
    BY <2>5, <2>6, Zenon
  <2>7. text' = (buffer \o Characters[whole]) \o Characters[left]
    BY <1>8, <2>1
  <2>8. text = buffer \o (Characters[whole] \o Characters[left])
    BY <2>2, <2>4
  <2>. QED  BY <2>7, <2>8, <2>9, Zenon
<1>11. TextInv'
  <2>1. ReaderInv'
    BY <1>1, FillKeeps
  <2>2. buffer' \in Text
    <3> DEFINE U == Unit \cup {Character}
    <3>1. buffer \in Seq(U) /\ Characters[whole] \in Seq(U)
      BY <1>1, <1>8 DEF Text
    <3> HIDE DEF U
    <3>2. buffer' \in Seq(U)
      BY <1>8, <3>1, InARow
    <3>. QED  BY <3>2 DEF U, Text
  <2>3. PICK done \in Seq(Unit) : document = done \o (partial \o rest) /\ WellEncoded(done)
    BY DEF TextInv
  <2>4. done \o whole \in Seq(Unit) /\ WellEncoded(done \o whole)
    BY <1>6, <1>7, <2>3, TogetherWellEncoded, InARow
  <2>5. document' = (done \o whole) \o (partial' \o rest')
    <3> DEFINE left == partial' \o rest'
    <3>1. left \in Seq(Unit) /\ document = done \o (whole \o left)
      BY <1>9, <2>3
    <3> HIDE DEF left
    <3>2. (done \o whole) \o left = done \o (whole \o left)
      BY <3>1, Regrouped, Zenon
    <3>. QED  BY <1>2, <3>1, <3>2 DEF left
  <2>6. verdict' # "accepted"
    BY <1>2
  <2>. QED  BY <1>2, <2>1, <2>2, <2>4, <2>5, <2>6 DEF TextInv
<1>12. ASSUME WellEncoded(document)
       PROVE  buffer' # <<>>
  <2>. SUFFICES ASSUME buffer' = <<>> PROVE FALSE
    OBVIOUS
  <2>1. Characters[whole] = <<>>
    <3> DEFINE U == Unit \cup {Character}
               c == Characters[whole]
    <3>1. buffer \in Seq(U) /\ c \in Seq(U) /\ buffer \o c = <<>>
      BY <1>1, <1>8 DEF Text
    <3> HIDE DEF U, c
    <3>2. c = <<>>
      BY <3>1, ConcatEmpty
    <3>. QED  BY <3>2 DEF c
  <2>2. whole = <<>>
    BY <1>6, <1>7, <2>1, NothingIsNothing
  <2>3. partial \o Chunk = partial'
    BY <1>5, <1>6, <2>2
  <2>4. Len(Chunk) = 1 /\ partial' = <<ByteOne>>
    <3>1. Len(partial') = Len(partial) + Len(Chunk) /\ Len(partial) \in Nat /\ Len(Chunk) \in Nat
      BY <1>4, <1>5, <2>3, InARow
    <3>2. Len(Chunk) # 0
      BY <1>3, <1>4
    <3>3. partial' = <<>> => Len(partial') = 0
      BY EmptyHasNoLength
    <3>4. partial' = <<ByteOne>>
      BY <1>5, <3>1, <3>2, <3>3
    <3>5. Len(partial') = 1
      BY <3>4
    <3>6. Len(Chunk) = 1
      <4>1. \A a, b \in Nat : a + b = 1 /\ b # 0 => b = 1
        OBVIOUS
      <4>2. Len(partial) + Len(Chunk) = 1
        BY <3>1, <3>5, Zenon
      <4>. QED  BY <3>1, <3>2, <4>1, <4>2, Zenon
    <3>. QED  BY <3>4, <3>6
  <2>5. Len(rest) = 1
    BY <1>1, <1>3, <1>4, <2>4 DEF n
  <2>6. rest' = <<>>
    BY <1>2, <1>4, <2>4, <2>5, NothingBehindTheEnd, <1>1
  <2>7. partial' \o rest' = <<ByteOne>>
    BY <1>5, <2>4, <2>6
  <2>8. WellEncoded(partial' \o rest')
    <3> DEFINE left == partial' \o rest'
    <3>1. WellEncoded(whole \o left)
      BY <1>9, <1>12, RestIsWellEncoded
    <3>2. left \in Seq(Unit)
      BY <1>9
    <3> HIDE DEF left
    <3>3. WellEncoded(left)
      BY <1>6, <1>7, <3>1, <3>2, RemainderIsWellEncoded
    <3>. QED  BY <3>3 DEF left
  <2>. QED  BY <2>7, <2>8 DEF WellEncoded
<1>. QED  BY <1>1, <1>2, <1>10, <1>11, <1>12

\* All other steps leave the file alone and take from the front of the buffer.
LessText == buffer' \in Text /\ UNCHANGED <<rest, partial, eof>>

LEMMA TextIsText == TextInv => text \in Text /\ buffer \in Text /\ Characters[partial \o rest] \in Text
<1>. SUFFICES ASSUME TextInv PROVE text \in Text /\ buffer \in Text /\ Characters[partial \o rest] \in Text
  OBVIOUS
<1>1. partial \in Seq(Unit) /\ rest \in Seq(Unit) /\ buffer \in Text
  BY PartialIsBytes DEF TextInv, ReaderInv, BufferIsBounded, ReaderTypeOK
<1>2. partial \o rest \in Seq(Unit)
  BY <1>1, InARow
<1>3. Characters[partial \o rest] \in Text
  BY <1>2, CharactersIsDefined
<1>. QED  BY <1>1, <1>3, InARow DEF text, Text

LEMMA DropsText ==
  ASSUME TextInv, NEW n \in Nat, Drop(n)
  PROVE  LessText
<1> DEFINE U == Unit \cup {Character}
<1>1. buffer \in Seq(U) /\ Len(buffer) \in Nat
  BY DEF TextInv, Text
<1> HIDE DEF U
<1>2. SubSeq(buffer, n + 1, Len(buffer)) \in Seq(U)
  BY <1>1
<1>. QED  BY <1>2 DEF Drop, LessText, Text, U

LEMMA SubSeqBefore ==
  ASSUME NEW S, NEW s \in Seq(S), NEW t \in Seq(S), NEW n \in 0..Len(s)
  PROVE  SubSeq(s \o t, n + 1, Len(s \o t)) = SubSeq(s, n + 1, Len(s)) \o t
<1> DEFINE a == SubSeq(s \o t, n + 1, Len(s \o t))
           c == SubSeq(s, n + 1, Len(s))
           b == c \o t
           m == Len(s) + Len(t) - n
<1>1. /\ s \o t \in Seq(S) /\ Len(s) \in Nat /\ Len(t) \in Nat /\ n \in Nat /\ Len(s \o t) = Len(s) + Len(t)
      /\ \A i \in 1..Len(s) : (s \o t)[i] = s[i]
      /\ \A i \in 1..Len(t) : (s \o t)[Len(s) + i] = t[i]
  BY InARow
<1>2. a \in Seq(S) /\ Len(a) = m /\ \A i \in 1..m : a[i] = (s \o t)[n + i]
  BY <1>1
<1>3. c \in Seq(S) /\ Len(c) = Len(s) - n /\ \A i \in 1..(Len(s) - n) : c[i] = s[n + i]
  BY <1>1
<1> HIDE DEF a, c
<1>4. /\ b \in Seq(S) /\ Len(b) = m
      /\ \A i \in 1..(Len(s) - n) : b[i] = c[i]
      /\ \A i \in 1..Len(t) : b[(Len(s) - n) + i] = t[i]
  <2>1. c \in Seq(S)
    BY <1>3
  <2>2. /\ c \o t \in Seq(S) /\ Len(c \o t) = Len(c) + Len(t)
        /\ \A i \in 1..Len(c) : (c \o t)[i] = c[i]
        /\ \A i \in 1..Len(t) : (c \o t)[Len(c) + i] = t[i]
    BY <2>1, InARow
  <2>3. m = Len(c) + Len(t) /\ Len(c) = Len(s) - n
    BY <1>1, <1>3
  <2> HIDE DEF m
  <2>. QED  BY <2>2, <2>3
<1> HIDE DEF b
<1>5. ASSUME NEW i \in 1..m
      PROVE  a[i] = b[i]
  <2>1. CASE i \in 1..(Len(s) - n)
    <3>1. n + i \in 1..Len(s)
      BY <1>1, <2>1
    <3>. QED  BY <1>1, <1>2, <1>3, <1>4, <2>1, <3>1
  <2>2. CASE ~ (i \in 1..(Len(s) - n))
    <3> DEFINE k == i - (Len(s) - n)
    <3>1. k \in 1..Len(t) /\ i = (Len(s) - n) + k /\ n + i = Len(s) + k
      BY <1>1, <2>2
    <3> HIDE DEF k
    <3>2. a[i] = (s \o t)[Len(s) + k]
      BY <1>2, <3>1
    <3>3. a[i] = t[k]
      BY <1>1, <3>1, <3>2
    <3>4. b[i] = t[k]
      BY <1>4, <3>1
    <3>. QED  BY <3>3, <3>4
  <2>. QED  BY <2>1, <2>2
<1>6. a = b
  <2>1. m \in Nat
    BY <1>1
  <2> HIDE DEF m
  <2>. QED  BY <1>2, <1>4, <1>5, <2>1
<1>. QED  BY <1>6 DEF a, b, c

\* What is dropped from the buffer is dropped from the text.
LEMMA DropsTheText ==
  ASSUME TextInv, NEW n \in 0..Len(buffer), Drop(n)
  PROVE  Whole!Drop(n)
<1> DEFINE U == Unit \cup {Character}
           c == Characters[partial \o rest]
<1>1. buffer \in Seq(U) /\ c \in Seq(U)
  BY TextIsText DEF Text
<1>2. buffer' = SubSeq(buffer, n + 1, Len(buffer)) /\ text = buffer \o c /\ text' = buffer' \o c
  BY DEF Drop, text
<1> HIDE DEF U, c
<1>3. SubSeq(buffer \o c, n + 1, Len(buffer \o c)) = SubSeq(buffer, n + 1, Len(buffer)) \o c
  BY <1>1, SubSeqBefore
<1>4. text' = SubSeq(text, n + 1, Len(text))
  BY <1>2, <1>3
<1>. QED  BY <1>4 DEF Whole!Drop

LEMMA SameText == ASSUME UNCHANGED reader PROVE UNCHANGED Whole!reader
BY DEF reader, Whole!reader, text

\* What is looked at, in any text.
FirstOf(b) == IF b = <<>> THEN "" ELSE Head(b)
NullIn(b) == IsPrefix(Null, b) /\ (Len(b) > Len(Null) => b[Len(Null) + 1] \in Delimiter)
BlankIn(b) == b # <<>> /\ Head(b) = " "

LEMMA NullAgain == Whole!Null = Null
BY DEF Null, Whole!Null

LEMMA LooksAlike ==
  /\ Char = FirstOf(buffer) /\ Whole!Char = FirstOf(text)
  /\ IsNull <=> NullIn(buffer)
  /\ Whole!IsNull <=> NullIn(text)
<1>1. Char = FirstOf(buffer) /\ Whole!Char = FirstOf(text)
  BY Zenon DEF Char, Whole!Char, FirstOf
<1>2. IsNull <=> NullIn(buffer)
  BY Zenon DEF IsNull, NullIn
<1>3. Whole!IsPrefix(Null, text) <=> IsPrefix(Null, text)
  BY Zenon DEF Whole!IsPrefix, IsPrefix
<1>4. Whole!Delimiter = Delimiter
  BY Zenon DEF Delimiter, Whole!Delimiter
<1>5. Whole!IsNull <=> NullIn(text)
  BY <1>3, <1>4, NullAgain, Zenon DEF Whole!IsNull, NullIn
<1>. QED  BY <1>1, <1>2, <1>5

LEMMA NullStandsFirst ==
  ASSUME NEW b \in Text
  PROVE  IsPrefix(Null, b) <=> Len(b) >= 2 /\ b[1] = "nu" /\ b[2] = "ll"
<1> DEFINE U == Unit \cup {Character}
<1>1. b \in Seq(U)
  BY DEF Text
<1> HIDE DEF U
<1>2. Len(Null) = 2 /\ Null[1] = "nu" /\ Null[2] = "ll" /\ Null \in Seq({"nu", "ll"})
  BY DEF Null
<1>3. IsPrefix(Null, b) <=> Len(Null) <= Len(b) /\ SubSeq(Null, 1, Len(Null)) = SubSeq(b, 1, Len(Null))
  BY Zenon DEF IsPrefix
<1> DEFINE x == SubSeq(Null, 1, 2)
           y == SubSeq(b, 1, 2)
           V == {"nu", "ll"}
<1>4. x \in Seq(V) /\ Len(x) = 2 /\ x[1] = "nu" /\ x[2] = "ll"
  BY <1>2
<1>5. ASSUME Len(b) >= 2
      PROVE  y \in Seq(U) /\ Len(y) = 2 /\ y[1] = b[1] /\ y[2] = b[2]
  BY <1>1, <1>5
<1> HIDE DEF x, y, V
<1>6. ASSUME Len(b) >= 2, b[1] = "nu", b[2] = "ll"
      PROVE  x = y
  <2>1. \A i \in 1..2 : x[i] = y[i]
    BY <1>4, <1>5, <1>6
  <2>. QED  BY <1>4, <1>5, <1>6, <2>1
<1>7. Len(b) >= 2 => (x = y <=> b[1] = "nu" /\ b[2] = "ll")
  BY <1>4, <1>5, <1>6
<1>. QED  BY <1>1, <1>2, <1>3, <1>7 DEF x, y

\* consume("null") asks for as many characters as its answer takes.
LEMMA UriWants ==
  ASSUME buffer # <<>>, ~ BlankIn(buffer)
  PROVE  Wants("uri") = IF IsPrefix(Null, buffer) THEN Len(Null) + 1 ELSE Len(Null)
<1>1. ~ (Head(buffer) = " ")
  BY Zenon DEF BlankIn
<1>2. ~ ("uri" # "uri" \/ buffer = <<>> \/ (buffer # <<>> /\ Head(buffer) = " "))
  BY <1>1, Zenon
<1>. QED  BY <1>2, Zenon DEF Wants

\* A word that stands before enough characters is the same word before all of
\* them.
LEMMA NullIsSeen ==
  ASSUME NEW b \in Text, NEW c \in Text, b # <<>>,
         BlankIn(b) \/ Len(b) >= IF IsPrefix(Null, b) THEN Len(Null) + 1 ELSE Len(Null)
  PROVE  NullIn(b \o c) <=> NullIn(b)
<1> DEFINE a == b \o c
<1>1. a \in Text /\ Len(a) \in Nat /\ Len(b) \in Nat \ {0} /\ Len(b) <= Len(a) /\ \A i \in 1..Len(b) : a[i] = b[i]
  BY InARow DEF Text
<1> HIDE DEF a
<1>2. CASE BlankIn(b)
  <2>1. Head(b) = b[1] /\ a[1] = b[1]
    BY <1>1
  <2>2. b[1] # "nu"
    BY <1>2, <2>1, Zenon DEF BlankIn
  <2>3. ~ IsPrefix(Null, b) /\ ~ IsPrefix(Null, a)
    BY <1>1, <2>1, <2>2, NullStandsFirst
  <2>. QED  BY <2>3, Zenon DEF NullIn, a
<1>3. CASE ~ BlankIn(b) /\ IsPrefix(Null, b)
  <2>1. Len(b) >= 3 /\ Len(Null) = 2
    BY <1>3, NullIsTwo
  <2>2. IsPrefix(Null, a) /\ Len(b) > Len(Null) /\ Len(a) > Len(Null) /\ a[Len(Null) + 1] = b[Len(Null) + 1]
    BY <1>1, <1>3, <2>1, NullStandsFirst
  <2>. QED  BY <1>3, <2>2, Zenon DEF NullIn, a
<1>4. CASE ~ BlankIn(b) /\ ~ IsPrefix(Null, b)
  <2>1. Len(b) >= 2
    BY <1>4, NullIsTwo
  <2>2. ~ IsPrefix(Null, a)
    BY <1>1, <1>4, <2>1, NullStandsFirst
  <2>. QED  BY <1>4, <2>2, Zenon DEF NullIn, a
<1>. QED  BY <1>2, <1>3, <1>4

\* What the code looks at is in the buffer, once it looks.
LEMMA SeesTheText ==
  ASSUME TextInv, Sees
  PROVE  /\ Char # FirstOf(<<>>) => 1 \in 0..Len(buffer)
         /\ Whole!Char = Char
         /\ At = "uri" => (Whole!IsNull <=> IsNull)
<1> DEFINE c == Characters[partial \o rest]
<1>1. buffer \in Text /\ c \in Text /\ text = buffer \o c
  BY TextIsText DEF text
<1>2. eof => text = buffer
  <2>1. <<>> \o <<>> = <<>>
    OBVIOUS
  <2>2. eof => c = <<>>
    BY <2>1, NoBytes DEF TextInv
  <2>3. buffer \o <<>> = buffer
    BY <1>1 DEF Text
  <2> HIDE DEF c
  <2>. QED  BY <1>1, <2>2, <2>3
<1> HIDE DEF c
<1>3. eof \/ Len(buffer) >= Wants(At)
  BY Zenon DEF Sees
<1>4. buffer = <<>> => eof
  BY <1>3, WantsIsSmall, NullIsTwo, EmptyHasNoLength
<1>5. buffer # <<>> => text # <<>> /\ Head(text) = Head(buffer) /\ 1 \in 0..Len(buffer)
  BY <1>1 DEF Text
<1>6. Whole!Char = Char
  <2>1. CASE buffer = <<>>
    BY <1>2, <1>4, <2>1, LooksAlike
  <2>2. CASE buffer # <<>>
    BY <1>5, <2>2, LooksAlike, Zenon DEF FirstOf
  <2>. QED  BY <2>1, <2>2
<1>7. Char # FirstOf(<<>>) => 1 \in 0..Len(buffer)
  BY <1>5, LooksAlike
<1>8. ASSUME At = "uri"
      PROVE  Whole!IsNull <=> IsNull
  <2>1. CASE eof
    BY <1>2, <2>1, LooksAlike
  <2>2. CASE ~ eof
    <3>1. Len(buffer) >= Wants("uri") /\ buffer # <<>>
      BY <1>3, <1>4, <1>8, <2>2
    <3>2. BlankIn(buffer) \/ Len(buffer) >= IF IsPrefix(Null, buffer) THEN Len(Null) + 1 ELSE Len(Null)
      BY <3>1, UriWants
    <3>. QED  BY <1>1, <3>1, <3>2, LooksAlike, NullIsSeen
  <2>. QED  BY <2>1, <2>2
<1>. QED  BY <1>6, <1>7, <1>8

\* Where the reader is has nothing to do with the text.
LEMMA SamePlace ==
  /\ Whole!At = At /\ Whole!Kind = Kind /\ Whole!Opener = Opener /\ Whole!Closer = Closer
  /\ Whole!Item = Item /\ Whole!input = input /\ Whole!found = found /\ Whole!Delimiter = Delimiter
  /\ \A p : Whole!Goto(p) <=> Goto(p)
  /\ \A p : Whole!GotoString(p) <=> GotoString(p)
  /\ \A k : Whole!Push(k) <=> Push(k)
  /\ \A k : Whole!AssetThere(k) <=> AssetThere(k)
  /\ \A k : Whole!Collected(k) = Collected(k)
  /\ \A p : Whole!SkipsBlanks(p) <=> SkipsBlanks(p)
  /\ \A t : Whole!IsScalar(t) <=> IsScalar(t)
<1>1. Whole!At = At /\ Whole!Kind = Kind
  BY Zenon DEF At, Whole!At, Kind, Whole!Kind
<1>2. Whole!Opener = Opener /\ Whole!Closer = Closer /\ Whole!Item = Item
  BY <1>1, Zenon DEF Opener, Whole!Opener, Closer, Whole!Closer, Item, Whole!Item, Object, Whole!Object
<1>3. Whole!input = input /\ Whole!found = found /\ Whole!Delimiter = Delimiter
  BY Zenon DEF input, Whole!input, found, Whole!found, Delimiter, Whole!Delimiter
<1>4. /\ \A p : Whole!Goto(p) <=> Goto(p)
      /\ \A p : Whole!GotoString(p) <=> GotoString(p)
      /\ \A k : Whole!Push(k) <=> Push(k)
  BY Zenon DEF Goto, Whole!Goto, GotoString, Whole!GotoString, Push, Whole!Push, Call, Whole!Call
<1>5. /\ \A k : Whole!AssetThere(k) <=> AssetThere(k)
      /\ \A k : Whole!Collected(k) = Collected(k)
      /\ \A p : Whole!SkipsBlanks(p) <=> SkipsBlanks(p)
  BY Zenon DEF AssetThere, Whole!AssetThere, Collected, Whole!Collected, SkipsBlanks, Whole!SkipsBlanks
<1>6. \A t : Whole!IsScalar(t) <=> IsScalar(t)
  BY NullAgain, Zenon DEF IsScalar, Whole!IsScalar
<1>. QED  BY <1>1, <1>2, <1>3, <1>4, <1>5, <1>6, Zenon

LEMMA EndsAlike ==
  ASSUME Whole!Char = Char
  PROVE  \A p : Whole!Ends(p) <=> Ends(p)
BY SamePlace, Zenon DEF Ends, Whole!Ends

\* The same characters are refused.
LEMMA FitsTheText ==
  ASSUME TextInv, Sees
  PROVE  Whole!Sees /\ (Whole!Fits <=> Fits) /\ (Whole!Decides <=> Decides)
<1>1. Whole!Char = Char /\ (At = "uri" => (Whole!IsNull <=> IsNull))
  BY SeesTheText
<1>2. \A p : Whole!Ends(p) <=> Ends(p)
  BY <1>1, EndsAlike
<1>3. Whole!Sees
  BY Zenon DEF Sees, Whole!Sees, Reading, Whole!Reading
<1>4. Whole!Decides <=> Decides
  BY <1>1, <1>3, SamePlace, Zenon DEF Decides, Whole!Decides
<1>5. CASE At = "uri"
  <2>1. Fits <=> (IsNull \/ Char = Quote)
    BY <1>5, Zenon DEF Fits
  <2>2. Whole!Fits <=> (Whole!IsNull \/ Whole!Char = Quote)
    BY <1>5, SamePlace, Zenon DEF Whole!Fits, Whole!Quote, Quote
  <2>. QED  BY <1>1, <1>3, <1>4, <1>5, <2>1, <2>2
<1>6. CASE At # "uri"
  <2>1. At \in Point
    <3>1. Head(stack) \in Frame
      BY DEF TextInv, ReaderInv
    <3>. QED  BY <3>1 DEF Frame, At
  <2>. USE <1>1, <1>2, <1>3, <1>4, SamePlace
  <2>2. CASE At = "open"
    BY <2>2, Zenon DEF Fits, Whole!Fits, Quote, Whole!Quote
  <2>3. CASE At = "first"
    BY <2>3, Zenon DEF Fits, Whole!Fits, Quote, Whole!Quote
  <2>4. CASE At = "key"
    BY <2>4, Zenon DEF Fits, Whole!Fits, Quote, Whole!Quote
  <2>5. CASE At = "item"
    BY <2>5, Zenon DEF Fits, Whole!Fits, Quote, Whole!Quote
  <2>6. CASE At = "colon"
    BY <2>6, Zenon DEF Fits, Whole!Fits, Quote, Whole!Quote
  <2>7. CASE At = "asset"
    BY <2>7, Zenon DEF Fits, Whole!Fits, Quote, Whole!Quote
  <2>8. CASE At = "string"
    BY <2>8, Zenon DEF Fits, Whole!Fits, Quote, Whole!Quote
  <2>9. CASE At = "escape"
    BY <2>9, Zenon DEF Fits, Whole!Fits, Quote, Whole!Quote
  <2>10. CASE At = "scalar"
    BY <2>10, Zenon DEF Fits, Whole!Fits, Quote, Whole!Quote
  <2>11. CASE At = "after"
    BY <2>11, Zenon DEF Fits, Whole!Fits, Quote, Whole!Quote
  <2>12. CASE At = "next"
    BY <2>12, Zenon DEF Fits, Whole!Fits, Quote, Whole!Quote
  <2>13. CASE At = "end"
    BY <2>13, Zenon DEF Fits, Whole!Fits, Quote, Whole!Quote
  <2>. QED  BY <1>3, <1>4, <1>6, <2>1, <2>2, <2>3, <2>4, <2>5, <2>6, <2>7, <2>8, <2>9, <2>10, <2>11, <2>12, <2>13, Zenon DEF Point
<1>. QED  BY <1>5, <1>6

\* A character that is there is dropped from the text as well.
LEMMA CharIsDropped ==
  ASSUME TextInv, Sees, Char # FirstOf(<<>>), Drop(1)
  PROVE  Whole!Drop(1) /\ LessText
BY SeesTheText, DropsTheText, DropsText

LEMMA CharIsThere ==
  ASSUME Char \in {Opener, Closer, Quote, ":", "{", ",", "\\", " "} \/ Char \notin Delimiter
  PROVE  Char # FirstOf(<<>>)
BY Zenon DEF FirstOf, Opener, Closer, Quote, Delimiter

\* The end of the text is the end of the file: no character is empty.
LEMMA NoCharIsTheEnd ==
  ASSUME TextInv, Sees, Char = FirstOf(<<>>)
  PROVE  eof
<1>. SUFFICES ASSUME ~ eof PROVE FALSE
  OBVIOUS
<1> DEFINE U == Unit \cup {Character}
<1>1. buffer # <<>>
  <2>1. Len(buffer) >= Wants(At)
    BY Zenon DEF Sees
  <2>. QED  BY <2>1, WantsIsSmall, NullIsTwo, EmptyHasNoLength
<1>2. buffer \in Seq(U)
  BY DEF TextInv, Text
<1> HIDE DEF U
<1>3. Head(buffer) \in U
  BY <1>1, <1>2
<1>4. Head(buffer) = ""
  BY <1>1, LooksAlike, Zenon DEF FirstOf
<1>. QED  BY <1>3, <1>4, Zenon DEF U, Unit, Structure, Key, Quote, ByteOne, ByteTwo, Character

\* A step of the grammar is the same step of it with the whole text.
LEMMA GrammarReadsText ==
  ASSUME TextInv, Grammar
  PROVE  Whole!Grammar /\ LessText /\ (verdict' = "accepted" => eof)
<1>0. Decides /\ Fits /\ UNCHANGED input /\ Sees /\ verdict = "reading"
  BY Zenon DEF Grammar, Decides, Sees, Reading
<1>1. Whole!Decides /\ Whole!Fits /\ UNCHANGED Whole!input
  BY <1>0, FitsTheText, Zenon DEF input, Whole!input
<1>2. /\ Whole!Char = Char /\ (At = "uri" => (Whole!IsNull <=> IsNull))
      /\ \A p : Whole!Ends(p) <=> Ends(p)
  BY <1>0, SeesTheText, EndsAlike
<1>3. Drop(1) /\ Char # FirstOf(<<>>) => Whole!Drop(1) /\ LessText
  BY <1>0, CharIsDropped
<1>4. UNCHANGED reader => UNCHANGED Whole!reader /\ LessText
  BY SameText DEF reader, LessText, TextInv
<1> DEFINE Done == Whole!Grammar /\ LessText /\ (verdict' = "accepted" => eof)
<1>5. ASSUME \/ Whole!Open \/ Whole!First \/ Whole!Comma \/ Whole!Next1 \/ Whole!Close \/ Whole!ReadKey
             \/ Whole!Colon \/ Whole!Asset \/ Whole!ItemValue \/ Whole!Uri \/ Whole!StringChar
             \/ Whole!StringEnds \/ Whole!ScalarChar \/ Whole!ScalarEnds \/ Whole!Accept
      PROVE  Whole!Grammar
  BY <1>1, <1>5, Zenon DEF Whole!Grammar
<1>6. UNCHANGED verdict => (verdict' = "accepted" => eof)
  BY <1>0
<1>7. UNCHANGED found => UNCHANGED Whole!found
  BY DEF found, Whole!found
<1>. USE <1>2, SamePlace
<1>8. CASE Open
  <2>1. At = "open" /\ Char = Opener /\ Drop(1) /\ Goto("first") /\ UNCHANGED <<found, verdict>>
    BY <1>0, <1>8, Zenon DEF Open, Fits
  <2>2. Whole!Open
    BY <1>3, <1>7, <2>1, CharIsThere, Zenon DEF Whole!Open
  <2>. QED  BY <1>3, <1>5, <1>6, <2>1, <2>2, CharIsThere, Zenon
<1>9. CASE First \/ Next1 \/ ScalarEnds
  <2>1. Whole!First \/ Whole!Next1 \/ Whole!ScalarEnds
    BY <1>4, <1>7, <1>9, Zenon DEF First, Whole!First, Next1, Whole!Next1, ScalarEnds, Whole!ScalarEnds
  <2>2. UNCHANGED <<reader, verdict>>
    BY <1>9, Zenon DEF First, Next1, ScalarEnds
  <2>. QED  BY <1>4, <1>5, <1>6, <2>1, <2>2, Zenon
<1>10. CASE Comma
  <2>1. At = "after" /\ ~ Ends(At) /\ Char = "," /\ Drop(1) /\ Goto("next") /\ UNCHANGED <<found, verdict>>
    BY <1>0, <1>10, Zenon DEF Comma, Fits
  <2>2. Whole!Comma
    BY <1>3, <1>7, <2>1, CharIsThere, Zenon DEF Whole!Comma
  <2>. QED  BY <1>3, <1>5, <1>6, <2>1, <2>2, CharIsThere, Zenon
<1>11. CASE Close
  <2>1. Ends(At) /\ Char = Closer /\ Drop(1) /\ UNCHANGED <<token, asset, verdict>>
    BY <1>11, Zenon DEF Close, Ends
  <2>2. Whole!Close
    BY <1>3, <1>11, <2>1, CharIsThere, Zenon DEF Close, Whole!Close
  <2>. QED  BY <1>3, <1>5, <1>6, <2>1, <2>2, CharIsThere, Zenon
<1>12. CASE ReadKey
  <2>1. Char = Quote /\ Drop(1) /\ UNCHANGED verdict
    BY <1>0, <1>12, Zenon DEF ReadKey, Fits
  <2>2. Whole!ReadKey
    BY <1>3, <1>12, <2>1, CharIsThere, Zenon DEF ReadKey, Whole!ReadKey
  <2>. QED  BY <1>3, <1>5, <1>6, <2>1, <2>2, CharIsThere, Zenon
<1>13. CASE Colon
  <2>1. Char = ":" /\ Drop(1) /\ UNCHANGED <<found, verdict>>
    BY <1>0, <1>13, Zenon DEF Colon, Fits
  <2>2. Whole!Colon
    BY <1>3, <1>7, <1>13, <2>1, CharIsThere, Zenon
    DEF Colon, Whole!Colon, IsAsset, Whole!IsAsset, IsResources, Whole!IsResources, IsUri, Whole!IsUri
  <2>. QED  BY <1>3, <1>5, <1>6, <2>1, <2>2, CharIsThere, Zenon
<1>14. CASE Asset
  <2>1. UNCHANGED <<reader, verdict>>
    BY <1>14, Zenon DEF Asset
  <2>2. Whole!Asset
    BY <1>4, <1>14, Zenon DEF Asset, Whole!Asset
  <2>. QED  BY <1>4, <1>5, <1>6, <2>1, <2>2, Zenon
<1>15. CASE ItemValue
  <2>1. UNCHANGED verdict
    BY <1>15, Zenon DEF ItemValue
  <2>2. UNCHANGED reader \/ (Char = Quote /\ Drop(1))
    BY <1>15, Zenon DEF ItemValue
  <2>3. Whole!ItemValue
    BY <1>3, <1>4, <1>15, CharIsThere, Zenon DEF ItemValue, Whole!ItemValue, Quote, Whole!Quote
  <2>. QED  BY <1>3, <1>4, <1>5, <1>6, <2>1, <2>2, <2>3, CharIsThere, Zenon
<1>16. CASE Uri
  <2>1. At = "uri" /\ UNCHANGED verdict
    BY <1>16, Zenon DEF Uri
  <2>2. IsNull => Drop(Len(Null)) /\ Len(Null) \in 0..Len(buffer)
    <3>1. IsNull => Drop(Len(Null))
      BY <1>16, Zenon DEF Uri
    <3>2. IsNull => IsPrefix(Null, buffer)
      BY Zenon DEF IsNull
    <3>3. buffer \in Text /\ Len(buffer) \in Nat
      BY DEF TextInv, Text
    <3>4. IsPrefix(Null, buffer) => Len(Null) \in 0..Len(buffer)
      BY <3>3, NullStandsFirst, NullIsTwo
    <3>. QED  BY <3>1, <3>2, <3>4, Zenon
  <2>3. ~ IsNull => Char = Quote /\ Drop(1)
    BY <1>0, <1>16, <2>1, Zenon DEF Uri, Fits
  <2>4. IsNull => Whole!Drop(Len(Null)) /\ LessText
    <3>1. Len(Null) \in Nat
      BY NullIsTwo
    <3>. QED  BY <2>2, <3>1, DropsTheText, DropsText, Zenon
  <2>5. Whole!Uri
    BY <1>3, <1>16, <2>1, <2>3, <2>4, CharIsThere, NullAgain, Zenon DEF Uri, Whole!Uri
  <2>. QED  BY <1>3, <1>5, <1>6, <2>1, <2>3, <2>4, <2>5, CharIsThere, Zenon
<1>17. CASE StringChar
  <2>1. Drop(1) /\ UNCHANGED verdict /\ At \in {"string", "escape"}
    BY <1>17, Zenon DEF StringChar
  <2>2. Char # FirstOf(<<>>)
    <3>1. CASE At = "string"
      BY <1>0, <3>1, Zenon DEF Fits, FirstOf
    <3>2. CASE At = "escape"
      BY <1>0, <3>2, CharIsThere, Zenon DEF Fits
    <3>. QED  BY <2>1, <3>1, <3>2
  <2>3. Whole!StringChar
    BY <1>3, <1>17, <2>1, <2>2, Zenon DEF StringChar, Whole!StringChar, Quote, Whole!Quote
  <2>. QED  BY <1>3, <1>5, <1>6, <2>1, <2>2, <2>3, Zenon
<1>18. CASE StringEnds
  <2>1. Char = Quote /\ Drop(1) /\ UNCHANGED verdict
    BY <1>18, Zenon DEF StringEnds
  <2>2. Whole!StringEnds
    BY <1>3, <1>18, <2>1, CharIsThere, Zenon DEF StringEnds, Whole!StringEnds, Quote, Whole!Quote
  <2>. QED  BY <1>3, <1>5, <1>6, <2>1, <2>2, CharIsThere, Zenon
<1>19. CASE ScalarChar
  <2>1. Char \notin Delimiter /\ Drop(1) /\ UNCHANGED verdict
    BY <1>19, Zenon DEF ScalarChar
  <2>2. Whole!ScalarChar
    BY <1>3, <1>19, <2>1, CharIsThere, Zenon DEF ScalarChar, Whole!ScalarChar
  <2>. QED  BY <1>3, <1>5, <1>6, <2>1, <2>2, CharIsThere, Zenon
<1>20. CASE Accept
  <2>1. Char = FirstOf(<<>>) /\ UNCHANGED reader
    BY <1>0, <1>20, Zenon DEF Accept, Fits, FirstOf
  <2>2. Whole!Accept
    BY <1>4, <1>7, <1>20, Zenon DEF Accept, Whole!Accept
  <2>. QED  BY <1>0, <1>4, <1>5, <2>1, <2>2, NoCharIsTheEnd, Zenon
<1>. QED
  BY <1>8, <1>9, <1>10, <1>11, <1>12, <1>13, <1>14, <1>15, <1>16, <1>17, <1>18, <1>19, <1>20, Zenon DEF Grammar

\* So is a blank, and so is a character that is not allowed there.
LEMMA BlankReadsText ==
  ASSUME TextInv, Blank
  PROVE  Whole!Blank /\ LessText
<1>1. Sees /\ Char = " " /\ Drop(1) /\ UNCHANGED <<input, stack, found, verdict>>
  BY Zenon DEF Blank
<1>2. Whole!Drop(1) /\ LessText
  BY <1>1, CharIsDropped, CharIsThere, Zenon
<1>3. Whole!Sees /\ Whole!Char = Char
  BY <1>1, FitsTheText, SeesTheText, Zenon
<1>. QED  BY <1>1, <1>2, <1>3, SamePlace, Zenon DEF Blank, Whole!Blank, input, Whole!input, found, Whole!found

LEMMA RefusedAlike == ASSUME Refuse PROVE Whole!Refuse
<1>1. UNCHANGED reader
  BY Zenon DEF Refuse
<1>2. UNCHANGED Whole!reader
  BY <1>1, SameText
<1>. QED  BY <1>2, Zenon DEF Refuse, Whole!Refuse, input, Whole!input, found, Whole!found

LEMMA UnfitReadsText ==
  ASSUME TextInv, Unfit
  PROVE  Whole!Unfit
<1>1. Decides /\ ~ Fits /\ Refuse /\ Sees
  BY Zenon DEF Unfit, Decides
<1>. QED  BY <1>1, FitsTheText, RefusedAlike, Zenon DEF Whole!Unfit

\* A well encoded file is unreadable only where a string does not end, which
\* the whole text shows as well.
LEMMA ChunksAreReadable ==
  ASSUME TextInv, WellEncoded(document), rest # <<>>
  PROVE  ~ DecodedChunk(Chunk).bad
<1> DEFINE d == DecodedChunk(Chunk)
           n == IF size < Len(rest) THEN size ELSE Len(rest)
           left == SubSeq(rest, n + 1, Len(rest))
<1>1. /\ rest \in Seq(Unit) /\ size \in Nat \ {0, 1} /\ partial \in {<<>>, <<ByteOne>>}
      /\ partial \in Seq(Unit)
  BY InputAssumption, PartialIsBytes DEF TextInv, ReaderInv, BufferIsBounded, ReaderTypeOK
<1>2. n \in 0..Len(rest) /\ n \in 1..Len(rest) /\ Len(rest) \in Nat
  BY <1>1
<1>3. Chunk = SubSeq(rest, 1, n)
  BY DEF Chunk
<1> HIDE DEF n
<1>4. Chunk \in Seq(Unit) /\ left \in Seq(Unit) /\ rest = Chunk \o left
  BY <1>1, <1>2, <1>3, CutInTwo
<1>5. Chunk # <<>>
  <2>1. Len(Chunk) = n
    BY <1>1, <1>2, <1>3
  <2>. QED  BY <1>2, <2>1, EmptyHasNoLength
<1>6. d.partial \in {<<>>, <<ByteOne>>} /\ d.partial \in Seq(Unit)
  BY <1>1, <1>4, <1>5, ChunkIsDecoded DEF DecodedChunk
<1>7. PICK whole \in Seq(Unit) :
        /\ partial \o Chunk = whole \o d.partial /\ d.bad = ~ WellEncoded(whole)
        /\ whole # <<>> /\ whole[Len(whole)] = ByteOne => d.partial = <<ByteOne>>
  BY <1>1, <1>4, <1>5, ChunkIsDecoded DEF DecodedChunk
<1> HIDE DEF d, left
<1>8. d.partial \o left \in Seq(Unit) /\ partial \o rest = whole \o (d.partial \o left)
  <2>1. (partial \o Chunk) \o left = partial \o (Chunk \o left)
    BY <1>1, <1>4, Regrouped, Zenon
  <2>2. (whole \o d.partial) \o left = whole \o (d.partial \o left)
    BY <1>4, <1>6, Regrouped, Zenon
  <2>. QED  BY <1>4, <1>6, <1>7, <2>1, <2>2, InARow
<1> DEFINE tail == d.partial \o left
<1>9. tail \in Seq(Unit) /\ WellEncoded(whole \o tail)
  BY <1>8, RestIsWellEncoded
<1>10. whole = <<>> \/ whole[Len(whole)] # ByteOne
  <2>. SUFFICES ASSUME whole # <<>>, whole[Len(whole)] = ByteOne PROVE FALSE
    OBVIOUS
  <2>1. d.partial = <<ByteOne>>
    BY <1>7
  <2>2. Len(tail) \in Nat \ {0} /\ tail[1] = ByteOne
    BY <1>4, <1>6, <2>1, InARow
  <2> HIDE DEF tail
  <2> DEFINE a == whole \o tail
             k == Len(whole)
  <2>3. /\ k \in Nat \ {0} /\ DOMAIN a = 1..Len(a) /\ Len(a) = k + Len(tail)
        /\ a[k] = ByteOne /\ a[k + 1] = ByteOne
    BY <1>9, <2>2, InARow
  <2>4. k \in DOMAIN a
    BY <2>2, <2>3
  <2>5. a[k + 1] = ByteTwo
    BY <1>9, <2>3, <2>4 DEF WellEncoded
  <2>6. ByteOne # ByteTwo
    BY Zenon DEF ByteOne, ByteTwo
  <2>. QED  BY <2>3, <2>5, <2>6
<1> HIDE DEF tail
<1>11. WellEncoded(whole)
  BY <1>9, <1>10, PiecesAreWellEncoded
<1>. QED  BY <1>7, <1>11, Zenon DEF d

LEMMA UnreadableReadsText ==
  ASSUME TextInv, WellEncoded(document), Unreadable
  PROVE  Whole!Unfit
<1>1. rest = <<>>
  BY ChunksAreReadable, Zenon DEF Unreadable
<1>2. partial = <<>>
  <2>. SUFFICES ASSUME partial # <<>> PROVE FALSE
    OBVIOUS
  <2>1. partial = <<ByteOne>>
    BY DEF TextInv, ReaderInv, BufferIsBounded, ReaderTypeOK
  <2>2. ByteOne \in Unit
    BY Zenon DEF Unit
  <2>3. partial \o rest = <<ByteOne>>
    BY <1>1, <2>1, <2>2
  <2>4. WellEncoded(<<ByteOne>>)
    BY <2>3, RestIsWellEncoded
  <2>. QED  BY <2>4 DEF WellEncoded
<1>3. InString /\ Short /\ Refuse
  BY <1>1, <1>2, Zenon DEF Unreadable
<1>4. text = buffer
  <2>1. partial \o rest = <<>>
    BY <1>1, <1>2
  <2>2. buffer \o <<>> = buffer
    BY DEF TextInv, Text
  <2>. QED  BY <2>1, <2>2, NoBytes DEF text
<1>5. buffer = <<>>
  <2>1. At # "uri"
    BY <1>3 DEF InString
  <2>2. Wants(At) = 1
    BY <2>1, Zenon DEF Wants
  <2>3. Len(buffer) \in Nat /\ IsSeq(buffer)
    BY DEF TextInv, Text, ReaderInv
  <2>4. Len(buffer) < 1
    BY <1>3, <2>2 DEF Short
  <2>. QED  BY <2>3, <2>4 DEF TextInv, Text
<1>6. Whole!Char = ""
  BY <1>4, <1>5, LooksAlike, Zenon DEF FirstOf
<1>7. ~ Whole!Fits
  <2>1. CASE At = "string"
    BY <1>6, <2>1, SamePlace, Zenon DEF Whole!Fits
  <2>2. CASE At = "escape"
    BY <1>6, <2>2, SamePlace, Zenon DEF Whole!Fits, Whole!Quote
  <2>. QED  BY <1>3, <2>1, <2>2, Zenon DEF InString
<1>8. Whole!Decides
  BY <1>3, <1>6, Zenon DEF Whole!Decides, Whole!Sees, Whole!Reading, Short, Reading
<1>. QED  BY <1>3, <1>7, <1>8, RefusedAlike, Zenon DEF Whole!Unfit

\* A step with a chunk in the buffer is the same step with the whole text
\* there; reading a chunk is no step at all.
LEMMA StepReadsText ==
  ASSUME TextInv, [Next]_vars
  PROVE  /\ TextInv'
         /\ WellEncoded(document) => Whole!Next \/ UNCHANGED Whole!vars
<1> DEFINE Same == Whole!Next \/ UNCHANGED Whole!vars
<1>0. ReaderInv /\ buffer \in Text /\ eof \in BOOLEAN
  BY DEF TextInv, ReaderInv, BufferIsBounded, ReaderTypeOK
<1>1. ReaderInv'
  BY <1>0, FillKeeps, GrammarIsQuiet, OthersAreQuiet, QuietKeeps DEF Next
<1>2. ASSUME LessText, UNCHANGED document, verdict' = "accepted" => eof
      PROVE  TextInv'
  <2>1. /\ buffer' \in Text /\ UNCHANGED <<rest, partial, eof, document>>
    BY <1>2 DEF LessText
  <2>. QED  BY <1>1, <1>2, <2>1 DEF TextInv
<1>3. UNCHANGED reader => LessText
  BY <1>0 DEF reader, LessText
<1>4. CASE Fill
  <2>1. TextInv' /\ text' = text /\ (WellEncoded(document) => verdict' = verdict)
    BY <1>4, FillKeepsText
  <2>2. UNCHANGED <<input, stack, found>>
    BY <1>4, Zenon DEF Fill
  <2>. QED  BY <2>1, <2>2, Zenon DEF Whole!vars, Whole!input, Whole!reader, Whole!found, input, found
<1>5. CASE FillAtEnd
  <2>1. /\ rest = <<>> /\ partial = <<>> /\ verdict = "reading"
        /\ UNCHANGED <<input, rest, partial, buffer, stack, found, verdict>>
    BY <1>5, Zenon DEF FillAtEnd, Short, Reading
  <2>2. UNCHANGED <<document, size, token, uri, asset, references>>
    BY <2>1 DEF input, found
  <2>3. TextInv'
    BY <1>0, <1>1, <2>1, <2>2 DEF TextInv
  <2>4. text' = text
    BY <2>1 DEF text
  <2>. QED  BY <2>1, <2>2, <2>3, <2>4 DEF Whole!vars, Whole!input, Whole!reader, Whole!found
<1>6. CASE Unreadable
  <2>1. verdict' = "refused" /\ UNCHANGED <<document, reader>>
    BY <1>6 DEF Unreadable, Refuse, input
  <2>2. TextInv'
    BY <1>2, <1>3, <2>1
  <2>. QED  BY <1>6, <2>2, UnreadableReadsText, Zenon DEF Whole!Next
<1>7. CASE Unfit
  <2>1. verdict' = "refused" /\ UNCHANGED <<document, reader>>
    BY <1>7 DEF Unfit, Refuse, input
  <2>2. TextInv'
    BY <1>2, <1>3, <2>1
  <2>. QED  BY <1>7, <2>2, UnfitReadsText, Zenon DEF Whole!Next
<1>8. CASE Blank
  <2>1. verdict = "reading" /\ UNCHANGED <<document, verdict>>
    BY <1>8, Zenon DEF Blank, input, Sees, Reading
  <2>2. Whole!Blank /\ LessText
    BY <1>8, BlankReadsText
  <2>3. TextInv'
    BY <1>2, <2>1, <2>2
  <2>. QED  BY <2>2, <2>3, Zenon DEF Whole!Next
<1>9. CASE Grammar
  <2>1. UNCHANGED document
    BY <1>9, Zenon DEF Grammar, input
  <2>2. Whole!Grammar /\ LessText /\ (verdict' = "accepted" => eof)
    BY <1>9, GrammarReadsText
  <2>3. TextInv'
    BY <1>2, <2>1, <2>2
  <2>. QED  BY <2>2, <2>3, Zenon DEF Whole!Next
<1>10. CASE UNCHANGED vars
  <2>1. UNCHANGED <<document, size, rest, partial, buffer, eof, stack, token, uri, asset, references, verdict>>
    BY <1>10 DEF vars, input, reader, found
  <2>2. TextInv'
    BY <1>1, <2>1 DEF TextInv
  <2>. QED  BY <2>1, <2>2 DEF Whole!vars, Whole!input, Whole!reader, Whole!found, text
<1>. QED  BY <1>4, <1>5, <1>6, <1>7, <1>8, <1>9, <1>10 DEF Next

LEMMA TextInit == Init => TextInv
<1>. SUFFICES ASSUME Init PROVE TextInv
  OBVIOUS
<1>1. ReaderInv
  BY ReaderInit
<1>2. /\ document \in Seq(Unit) /\ rest = document /\ partial = <<>> /\ buffer = <<>>
      /\ eof = FALSE /\ verdict = "reading"
  BY InputAssumption DEF Init
<1>3. document = <<>> \o (partial \o rest)
  BY <1>2
<1>4. <<>> \in Seq(Unit) /\ WellEncoded(<<>>)
  BY DEF WellEncoded
<1>5. buffer \in Text
  BY <1>2 DEF Text
<1>6. verdict # "accepted" /\ ~ eof
  BY <1>2
<1>. QED  BY <1>1, <1>3, <1>4, <1>5, <1>6 DEF TextInv

\* Wherever the chunks of a well encoded upload end, the reader does what it
\* would do with the whole of it.
THEOREM ChunksDoNotMatter == Spec => ReadsAsWhole
<1>1. TextInv /\ [Next]_vars => TextInv'
  BY StepReadsText
<1>2. TextInv /\ [Next]_vars => [WellEncoded(document) => Whole!Next \/ UNCHANGED Whole!vars]_vars
  BY StepReadsText
<1>. QED  BY TextInit, <1>1, <1>2, PTL DEF Spec, ReadsAsWhole

\* What is accepted is text: every byte of the file was decoded.
THEOREM AcceptedIsText == Spec => [](verdict = "accepted" => WellEncoded(document))
<1>1. TextInv /\ [Next]_vars => TextInv'
  BY StepReadsText
<1>2. TextInv => (verdict = "accepted" => WellEncoded(document))
  <2>. SUFFICES ASSUME TextInv, verdict = "accepted" PROVE WellEncoded(document)
    OBVIOUS
  <2>1. rest = <<>> /\ partial = <<>>
    BY DEF TextInv
  <2>2. PICK done \in Seq(Unit) : document = done \o (partial \o rest) /\ WellEncoded(done)
    BY DEF TextInv
  <2>3. document = done
    BY <2>1, <2>2
  <2>. QED  BY <2>2, <2>3
<1>. QED  BY TextInit, <1>1, <1>2, PTL DEF Spec

---------------------------------------------------------------------------
(* The summary of coordinates *)

Summaries ==
  {s \in [ok : BOOLEAN, depth : Nat, first : Seq(Int), last : Seq(Int),
          counts : Seq(Nat), closed : Seq(BOOLEAN)] :
     s.ok => s.depth = Len(s.counts) /\ Len(s.closed) = Len(s.counts)}

\* The parts have the same m levels.
Fit(parts, n, m) == \A i \in 1..n : parts[i].ok /\ Len(parts[i].counts) = m

\* s says of each level what is true of all n parts.
SumsUp(s, parts, n, m) ==
  /\ s.ok /\ Len(s.counts) = m + 1
  /\ s.first = parts[1].first /\ s.last = parts[n].last
  /\ s.counts[1] = n
  /\ s.closed[1] <=> parts[1].first = parts[n].last
  /\ \A l \in 1..m, k \in Nat : s.counts[l + 1] >= k <=> \A i \in 1..n : parts[i].counts[l] >= k
  /\ \A l \in 1..m : s.closed[l + 1] <=> \A i \in 1..n : parts[i].closed[l]

LEMMA RefusedIsSummary == Refused \in Summaries /\ ~ Refused.ok
BY DEF Refused, Summaries

LEMMA NestedSummary ==
  ASSUME NEW n \in Nat \ {0}, NEW parts, DOMAIN parts = 1..n, Len(parts) = n,
         \A i \in 1..n : parts[i] \in Summaries
  PROVE  /\ Nested(parts) \in Summaries
         /\ Len(parts[1].counts) \in Nat
         /\ Nested(parts).ok => Fit(parts, n, Len(parts[1].counts))
         /\ Fit(parts, n, Len(parts[1].counts)) => SumsUp(Nested(parts), parts, n, Len(parts[1].counts))
<1> DEFINE s == Nested(parts)
           m == Len(parts[1].counts)
           first == parts[1].first
           last == parts[n].last
           least == [l \in 1..m |-> MinimumCount(parts, l)]
           all == [l \in 1..m |-> AllClosed(parts, l)]
<1>1. 1 \in 1..n /\ n \in 1..n
  OBVIOUS
<1>2. /\ \A i \in 1..n : parts[i].counts \in Seq(Nat) /\ parts[i].closed \in Seq(BOOLEAN)
      /\ \A i \in 1..n : parts[i].ok => /\ parts[i].depth = Len(parts[i].counts)
                                        /\ Len(parts[i].closed) = Len(parts[i].counts)
      /\ m \in Nat /\ first \in Seq(Int) /\ last \in Seq(Int)
  BY <1>1 DEF Summaries
<1> HIDE DEF m, first, last
<1>3. CASE ~ Fit(parts, n, m)
  <2>1. ~ (\A i \in 1..n : parts[i].ok) \/ ~ SameShape(parts)
    BY <1>1, <1>2, <1>3 DEF SameShape, Fit, m
  <2>2. s = Refused
    BY <2>1 DEF Nested
  <2>. QED  BY <1>2, <1>3, <2>2, RefusedIsSummary DEF m
<1>4. CASE Fit(parts, n, m)
  <2>1. \A i \in 1..n : parts[i].ok /\ Len(parts[i].counts) = m /\ Len(parts[i].closed) = m /\ parts[i].depth = m
    BY <1>2, <1>4 DEF Fit
  <2>2. s = [ok |-> TRUE, depth |-> m + 1, first |-> first, last |-> last,
             counts |-> <<n>> \o least, closed |-> <<first = last>> \o all]
    <3>1. (\A i \in DOMAIN parts : parts[i].ok) /\ SameShape(parts)
      BY <1>1, <2>1 DEF SameShape
    <3>2. parts[1].depth = m
      BY <1>1, <2>1
    <3>. QED  BY <3>1, <3>2 DEF Nested, Count, m, first, last
  <2>3. ASSUME NEW l \in 1..m
        PROVE  /\ MinimumCount(parts, l) \in Nat
               /\ \A k \in Nat : MinimumCount(parts, l) >= k <=> \A i \in 1..n : parts[i].counts[l] >= k
    <3> DEFINE S == {parts[i].counts[l] : i \in DOMAIN parts}
    <3>1. \A i \in 1..n : parts[i].counts[l] \in Nat
      BY <1>2, <2>1
    <3>2. S \in SUBSET Nat /\ S # {}
      BY <1>1, <3>1
    <3>3. Min(S) \in S /\ \A x \in S : Min(S) <= x
      <4> HIDE DEF S
      <4>. QED  BY <3>2, SomeNumberIsLeast
    <3> DEFINE least1 == Min(S)
    <3>4. least1 \in S /\ (\A i \in 1..n : least1 <= parts[i].counts[l]) /\ least1 \in Nat
      BY <3>2, <3>3
    <3>5. PICK j \in 1..n : least1 = parts[j].counts[l]
      BY <3>4
    <3>6. MinimumCount(parts, l) = least1
      BY DEF MinimumCount
    <3> HIDE DEF least1
    <3>. QED  BY <3>1, <3>4, <3>5, <3>6
  <2>4. least \in Seq(Nat) /\ Len(least) = m /\ all \in Seq(BOOLEAN) /\ Len(all) = m
    <3>1. least \in [1..m -> Nat] /\ all \in [1..m -> BOOLEAN]
      BY <2>3 DEF AllClosed
    <3> HIDE DEF least, all
    <3>. QED  BY <1>2, <3>1
  <2>5. /\ s.counts \in Seq(Nat) /\ Len(s.counts) = m + 1 /\ s.counts[1] = n
        /\ \A l \in 1..m : s.counts[l + 1] = least[l]
    <3> HIDE DEF least, all
    <3>1. s.counts = <<n>> \o least
      BY <2>2
    <3> HIDE DEF s
    <3>. QED  BY <1>2, <2>4, <3>1
  <2>6. /\ s.closed \in Seq(BOOLEAN) /\ Len(s.closed) = m + 1 /\ s.closed[1] = (first = last)
        /\ \A l \in 1..m : s.closed[l + 1] = all[l]
    <3> HIDE DEF least, all
    <3>1. s.closed = <<first = last>> \o all
      BY <2>2
    <3> DEFINE b == (first = last)
    <3>2. b \in BOOLEAN
      OBVIOUS
    <3> HIDE DEF b, s
    <3>3. s.closed = <<b>> \o all
      BY <3>1 DEF b
    <3>. QED  BY <1>2, <2>4, <3>2, <3>3 DEF b
  <2>7. s \in Summaries
    <3> DEFINE c == s.counts
               d == s.closed
    <3>1. s = [ok |-> TRUE, depth |-> m + 1, first |-> first, last |-> last, counts |-> c, closed |-> d]
      BY <2>2
    <3>2. c \in Seq(Nat) /\ Len(c) = m + 1 /\ d \in Seq(BOOLEAN) /\ Len(d) = m + 1
      BY <2>5, <2>6
    <3> HIDE DEF s, c, d
    <3>. QED  BY <1>2, <3>1, <3>2 DEF Summaries
  <2>8. \A l \in 1..m : s.closed[l + 1] <=> \A i \in 1..n : parts[i].closed[l]
    BY <2>1, <2>6 DEF AllClosed
  <2>9. \A l \in 1..m, k \in Nat : s.counts[l + 1] >= k <=> \A i \in 1..n : parts[i].counts[l] >= k
    BY <2>3, <2>5
  <2>10. s.ok /\ s.first = first /\ s.last = last
    BY <2>2
  <2>11. SumsUp(s, parts, n, m)
    <3> HIDE DEF s
    <3>. QED  BY <2>5, <2>6, <2>8, <2>9, <2>10, Zenon DEF SumsUp, first, last
  <2>. QED  BY <1>2, <1>4, <2>7, <2>11 DEF m
<1>. QED  BY <1>3, <1>4

\* A position, whether brackets are around it or not.
LEMMA PositionSummary ==
  ASSUME NEW p \in Seq(Int)
  PROVE  /\ Position(p) \in Summaries /\ Position(p).counts = <<>>
         /\ Nested(<<Position(p)>>) \in Summaries
         /\ Nested(<<Position(p)>>).ok <=> InRange(p)
         /\ Nested(<<Position(p)>>).ok =>
              /\ Len(Nested(<<Position(p)>>).counts) = 1
              /\ Nested(<<Position(p)>>).first = p /\ Nested(<<Position(p)>>).last = p
<1> DEFINE one == <<Position(p)>>
           s == Nested(one)
           q == Position(p)
<1>1. q = [ok |-> InRange(p), depth |-> 0, first |-> IF InRange(p) THEN p ELSE <<>>,
           last |-> IF InRange(p) THEN p ELSE <<>>, counts |-> <<>>, closed |-> <<>>]
  BY DEF Position, Refused, InRange
<1>2. InRange(p) \in BOOLEAN
  BY DEF InRange
<1>3. q \in Summaries /\ q.counts = <<>> /\ Len(q.counts) = 0
  BY <1>1, <1>2 DEF Summaries
<1>4. DOMAIN one = 1..1 /\ Len(one) = 1 /\ one[1] = q
  OBVIOUS
<1> HIDE DEF one
<1>5. \A i \in 1..1 : one[i] \in Summaries /\ Len(one[i].counts) = 0
  BY <1>3, <1>4
<1>6. /\ s \in Summaries
      /\ s.ok => q.ok
      /\ q.ok => s.ok /\ Len(s.counts) = 1 /\ s.first = q.first /\ s.last = q.last
  <2>1. 1 \in Nat \ {0} /\ 0 + 1 = 1
    OBVIOUS
  <2>2. Len(one[1].counts) = 0
    BY <1>5
  <2>3. /\ s \in Summaries
        /\ s.ok => Fit(one, 1, 0)
        /\ Fit(one, 1, 0) => SumsUp(s, one, 1, 0)
    BY <1>4, <1>5, <2>1, <2>2, NestedSummary
  <2> HIDE DEF s
  <2>. QED  BY <1>4, <1>5, <2>1, <2>3 DEF Fit, SumsUp
<1>7. /\ s.ok <=> InRange(p)
      /\ s.ok => Len(s.counts) = 1 /\ s.first = p /\ s.last = p
  <2> HIDE DEF s
  <2>. QED  BY <1>1, <1>6
<1>. QED  BY <1>3, <1>6, <1>7 DEF one

\* What an array and its elements are.
LEMMA ArrayOfValues ==
  ASSUME NEW v \in Value, Tag(v) = "array"
  PROVE  /\ Of(v) \in Seq(Value) /\ Len(Of(v)) \in Nat /\ DOMAIN Of(v) = 1..Len(Of(v))
         /\ \A i \in 1..Len(Of(v)) : /\ Of(v)[i] \in Value /\ Of(v)[i] \in Elements(v)
                                     /\ Of(v)[i] \in Inner(v) /\ Tag(Of(v)[i]) \in Tags(Of(v))
         /\ \A x \in Elements(v) : \E i \in 1..Len(Of(v)) : x = Of(v)[i]
         /\ Len(Of(v)) = 0 => Tags(Of(v)) = {}
         /\ Tags(Of(v)) = {"number"} =>
              /\ Numbers(Of(v)) \in Seq(Int) /\ Len(Numbers(Of(v))) = Len(Of(v))
              /\ \A i \in 1..Len(Of(v)) : Numbers(Of(v))[i] = Of(Of(v)[i])
<1>1. Of(v) \in Seq(Value)
  BY ValueAssumption DEF Content
<1>2. /\ Len(Of(v)) \in Nat /\ DOMAIN Of(v) = 1..Len(Of(v))
      /\ \A i \in 1..Len(Of(v)) : Of(v)[i] \in Value
  BY <1>1
<1>3. \A i \in 1..Len(Of(v)) : Of(v)[i] \in Elements(v) /\ Of(v)[i] \in Inner(v) /\ Tag(Of(v)[i]) \in Tags(Of(v))
  BY <1>2 DEF Elements, Inner, Tags
<1>4. \A x \in Elements(v) : \E i \in 1..Len(Of(v)) : x = Of(v)[i]
  BY <1>2 DEF Elements
<1>5. Len(Of(v)) = 0 => Tags(Of(v)) = {}
  BY <1>2 DEF Tags
<1>6. ASSUME Tags(Of(v)) = {"number"}
      PROVE  /\ Numbers(Of(v)) \in Seq(Int) /\ Len(Numbers(Of(v))) = Len(Of(v))
             /\ \A i \in 1..Len(Of(v)) : Numbers(Of(v))[i] = Of(Of(v)[i])
  <2> DEFINE n == Len(Of(v))
             numbers == Numbers(Of(v))
  <2>1. \A i \in 1..n : Of(Of(v)[i]) \in Int
    BY <1>2, <1>3, <1>6, ValueAssumption DEF Content
  <2>2. numbers \in [1..n -> Int] /\ \A i \in 1..n : numbers[i] = Of(Of(v)[i])
    BY <1>2, <2>1 DEF Numbers
  <2> HIDE DEF numbers, n
  <2>3. n \in Nat
    BY <1>2 DEF n
  <2>4. numbers \in Seq(Int) /\ Len(numbers) = n
    BY <2>2, <2>3
  <2>. QED  BY <2>2, <2>4 DEF n, numbers
<1>. QED  BY <1>1, <1>2, <1>3, <1>4, <1>5, <1>6

\* The summaries of the elements of an array.
PartsOf(v, summary) == [i \in DOMAIN Of(v) |-> summary[Of(v)[i]]]

LEMMA PartsOfArray ==
  ASSUME NEW v \in Value, Tag(v) = "array", NEW summary, \A x \in Inner(v) : summary[x] \in Summaries
  PROVE  /\ DOMAIN PartsOf(v, summary) = 1..Len(Of(v)) /\ Len(PartsOf(v, summary)) = Len(Of(v))
         /\ \A i \in 1..Len(Of(v)) : /\ PartsOf(v, summary)[i] = summary[Of(v)[i]]
                                     /\ PartsOf(v, summary)[i] \in Summaries
<1> DEFINE n == Len(Of(v))
           parts == PartsOf(v, summary)
<1>1. n \in Nat /\ DOMAIN Of(v) = 1..n /\ \A i \in 1..n : Of(v)[i] \in Inner(v)
  BY ArrayOfValues
<1>2. /\ DOMAIN parts = 1..n /\ \A i \in 1..n : parts[i] = summary[Of(v)[i]] /\ parts[i] \in Summaries
      /\ parts = [i \in DOMAIN parts |-> parts[i]]
  BY <1>1 DEF PartsOf
<1> HIDE DEF parts, n
<1>3. parts \in [1..n -> Summaries]
  BY <1>2
<1>4. Len(parts) = n
  BY <1>1, <1>3
<1>. QED  BY <1>2, <1>4 DEF n, parts

LEMMA SummaryOfIsSummary ==
  ASSUME NEW v \in Value, NEW summary, \A x \in Inner(v) : summary[x] \in Summaries
  PROVE  SummaryOf(v, summary) \in Summaries
<1>1. CASE Tag(v) = "bare"
  <2>1. Of(v) \in Seq(Int)
    BY <1>1, ValueAssumption DEF Content
  <2>. QED  BY <1>1, <2>1, PositionSummary DEF SummaryOf
<1>2. CASE Tag(v) = "array" /\ Tags(Of(v)) = {"number"}
  <2>1. Tag(v) # "bare" /\ Tag(v) = "array"
    BY <1>2
  <2>2. Numbers(Of(v)) \in Seq(Int)
    BY <1>2, <2>1, ArrayOfValues
  <2>. QED  BY <1>2, <2>1, <2>2, PositionSummary DEF SummaryOf
<1>3. CASE Tag(v) = "array" /\ Tags(Of(v)) = {"array"}
  <2> DEFINE n == Len(Of(v))
             parts == PartsOf(v, summary)
  <2>1. Tag(v) # "bare" /\ Tag(v) = "array" /\ Tags(Of(v)) # {"number"} /\ Tags(Of(v)) # {}
    BY <1>3
  <2>2. n \in Nat \ {0}
    BY <2>1, ArrayOfValues
  <2>3. DOMAIN parts = 1..n /\ Len(parts) = n /\ \A i \in 1..n : parts[i] \in Summaries
    BY <2>1, PartsOfArray
  <2> HIDE DEF parts, n
  <2>4. Nested(parts) \in Summaries
    BY <2>2, <2>3, NestedSummary
  <2>. QED  BY <1>3, <2>1, <2>4 DEF SummaryOf, parts, PartsOf
<1>4. CASE Tag(v) # "bare" /\ ~ (Tag(v) = "array" /\ Tags(Of(v)) \in {{"number"}, {"array"}})
  <2>1. SummaryOf(v, summary) = Refused
    BY <1>4 DEF SummaryOf
  <2>. QED  BY <2>1, RefusedIsSummary
<1>. QED  BY <1>1, <1>2, <1>3, <1>4

LEMMA InnerIsShorter ==
  ASSUME NEW v \in Value
  PROVE  /\ Inner(v) \in SUBSET Value
         /\ \A x \in Inner(v) : Length[x] < Length[v]
<1>1. \A x \in Inner(v) : Length[x] < Length[v]
  BY ValueAssumption
<1>2. CASE Tag(v) = "array"
  BY <1>1, <1>2, ArrayOfValues DEF Inner
<1>3. CASE Tag(v) = "object"
  <2>1. Of(v) \in Seq(STRING \X Value)
    BY <1>3, ValueAssumption DEF Content
  <2>2. \A i \in DOMAIN Of(v) : Of(v)[i] \in STRING \X Value
    BY <2>1
  <2>3. \A i \in DOMAIN Of(v) : Of(v)[i][2] \in Value
    BY <2>2
  <2>. QED  BY <1>1, <1>3, <2>3 DEF Inner
<1>4. CASE Tag(v) \notin {"array", "object"}
  BY <1>4 DEF Inner
<1>. QED  BY <1>1, <1>2, <1>3, <1>4

\* Every value has a summary, which comes from those inside.
LEMMA SummaryIsDefined ==
  /\ Summary \in [Value -> Summaries]
  /\ \A v \in Value : Summary[v] = SummaryOf(v, [x \in Inner(v) |-> Summary[x]])
<1> DEFINE Inside == [v \in Value |-> Inner(v)]
           Step == [v \in Value |-> [h \in [Inner(v) -> Summaries] |-> SummaryOf(v, h)]]
<1>1. Inside \in [Value -> SUBSET Value] /\ \A v \in Value : Inside[v] = Inner(v)
  BY InnerIsShorter
<1>2. \A v \in Value : \A x \in Inside[v] : Length[x] < Length[v]
  BY <1>1, InnerIsShorter
<1>3. \A v \in Value : \A h \in [Inner(v) -> Summaries] : Step[v][h] = SummaryOf(v, h) /\ Step[v][h] \in Summaries
  BY SummaryOfIsSummary
<1> HIDE DEF Inside, Step
<1>4. \A v \in Value : \A h \in [Inside[v] -> Summaries] : Step[v][h] \in Summaries
  BY <1>1, <1>3
<1>5. PICK f \in [Value -> Summaries] : \A v \in Value : f[v] = Step[v][[x \in Inside[v] |-> f[x]]]
  <2>1. \E f \in [Value -> Summaries] : Solves(f, Value, Inside, Step)
    BY <1>1, <1>2, <1>4, ValueAssumption, Recursion
  <2>. QED  BY <2>1, Zenon DEF Solves
<1>6. ASSUME NEW v \in Value
      PROVE  f[v] = SummaryOf(v, [x \in Inner(v) |-> f[x]])
  <2>1. [x \in Inner(v) |-> f[x]] \in [Inner(v) -> Summaries]
    BY InnerIsShorter
  <2>2. f[v] = Step[v][[x \in Inner(v) |-> f[x]]]
    BY <1>1, <1>5
  <2>. QED  BY <1>3, <2>1, <2>2
<1>7. f = [v \in Value |-> SummaryOf(v, [x \in Inner(v) |-> f[x]])]
  BY <1>5, <1>6
<1>8. Summary = [v \in Value |-> SummaryOf(v, [x \in Inner(v) |-> Summary[x]])]
  BY <1>7, Zenon DEF Summary
<1>9. \A v \in Value : Summary[v] = SummaryOf(v, [x \in Inner(v) |-> Summary[x]])
  BY <1>8, Zenon
<1>10. \A v \in Value : Summary[v] \in Summaries
  <2> DEFINE S == {v \in Value : Summary[v] \notin Summaries}
  <2>1. SUFFICES ASSUME S # {} PROVE FALSE
    OBVIOUS
  <2>2. PICK v \in S : \A x \in Value : Length[x] < Length[v] => x \notin S
    <3>1. S \in SUBSET Value
      OBVIOUS
    <3> HIDE DEF S
    <3>. QED  BY <2>1, <3>1, Shortest
  <2>3. \A x \in Inner(v) : x \in Value /\ Length[x] < Length[v]
    BY InnerIsShorter
  <2>4. \A x \in Inner(v) : [y \in Inner(v) |-> Summary[y]][x] \in Summaries
    <3>1. \A x \in Inner(v) : x \notin S
      BY <2>2, <2>3
    <3>. QED  BY <2>3, <3>1
  <2>5. Summary[v] \in Summaries
    BY <1>9, <2>4, SummaryOfIsSummary
  <2>. QED  BY <2>5
<1>. QED  BY <1>8, <1>9, <1>10

LEMMA SummaryOfArray ==
  ASSUME NEW v \in Value, Tag(v) = "array"
  PROVE  /\ Tags(Of(v)) = {"array"} => Summary[v] = Nested(PartsOf(v, Summary))
         /\ Tags(Of(v)) = {"number"} => Summary[v] = Nested(<<Position(Numbers(Of(v)))>>)
         /\ Tags(Of(v)) \notin {{"array"}, {"number"}} => Summary[v] = Refused
         /\ \A i \in 1..Len(Of(v)) : PartsOf(v, Summary)[i] = Summary[Of(v)[i]]
<1> DEFINE inner == [x \in Inner(v) |-> Summary[x]]
<1>1. Summary[v] = SummaryOf(v, inner)
  BY SummaryIsDefined
<1>2. /\ \A i \in DOMAIN Of(v) : inner[Of(v)[i]] = Summary[Of(v)[i]]
      /\ DOMAIN Of(v) = 1..Len(Of(v))
  BY ArrayOfValues
<1>3. PartsOf(v, inner) = PartsOf(v, Summary)
  BY <1>2 DEF PartsOf
<1>4. "array" # "number" /\ "array" # "bare" /\ {"array"} # {"number"}
  OBVIOUS
<1> HIDE DEF inner
<1>5. Tags(Of(v)) = {"array"} => SummaryOf(v, inner) = Nested(PartsOf(v, inner))
  BY <1>4 DEF SummaryOf, PartsOf
<1>6. /\ Tags(Of(v)) = {"number"} => SummaryOf(v, inner) = Nested(<<Position(Numbers(Of(v)))>>)
      /\ Tags(Of(v)) \notin {{"array"}, {"number"}} => SummaryOf(v, inner) = Refused
  BY <1>4 DEF SummaryOf
<1>. QED  BY <1>1, <1>2, <1>3, <1>5, <1>6 DEF PartsOf

\* The summary of arrays in an array, said of the elements.
LEMMA ArraysAreCounted ==
  ASSUME NEW v \in Value, Tag(v) = "array", Tags(Of(v)) = {"array"}
  PROVE  \E n \in Nat \ {0}, m \in Nat :
           /\ n = Len(Of(v))
           /\ \A i \in 1..n : /\ Of(v)[i] \in Value /\ Tag(Of(v)[i]) = "array"
                               /\ PartsOf(v, Summary)[i] = Summary[Of(v)[i]]
           /\ Summary[v].ok => Fit(PartsOf(v, Summary), n, m)
           /\ Fit(PartsOf(v, Summary), n, m) => SumsUp(Summary[v], PartsOf(v, Summary), n, m)
           /\ m = Len(PartsOf(v, Summary)[1].counts)
<1> DEFINE n == Len(Of(v))
           parts == PartsOf(v, Summary)
           m == Len(parts[1].counts)
<1>1. /\ n \in Nat /\ \A i \in 1..n : Of(v)[i] \in Value
      /\ \A i \in 1..n : parts[i] = Summary[Of(v)[i]]
      /\ DOMAIN parts = 1..n /\ Len(parts) = n /\ Summary[v] = Nested(parts)
      /\ n # 0 /\ \A i \in 1..n : Tag(Of(v)[i]) = "array"
  <2>1. Tags(Of(v)) = {"array"} /\ Tags(Of(v)) # {}
    OBVIOUS
  <2>2. \A x \in Inner(v) : Summary[x] \in Summaries
    BY SummaryIsDefined, InnerIsShorter
  <2>3. /\ n \in Nat /\ \A i \in 1..n : Of(v)[i] \in Value /\ Tag(Of(v)[i]) \in Tags(Of(v))
        /\ n = 0 => Tags(Of(v)) = {}
    BY ArrayOfValues
  <2>4. DOMAIN parts = 1..n /\ Len(parts) = n /\ \A i \in 1..n : parts[i] = Summary[Of(v)[i]]
    BY <2>2, PartsOfArray
  <2>5. Summary[v] = Nested(parts)
    BY SummaryOfArray
  <2>. QED  BY <2>1, <2>3, <2>4, <2>5
<1> HIDE DEF parts, n
<1>2. n \in Nat \ {0} /\ \A i \in 1..n : Tag(Of(v)[i]) = "array"
  BY <1>1
<1>3. \A i \in 1..n : parts[i] \in Summaries
  BY <1>1, SummaryIsDefined
<1>4. m \in Nat /\ (Summary[v].ok => Fit(parts, n, m)) /\ (Fit(parts, n, m) => SumsUp(Summary[v], parts, n, m))
  BY <1>1, <1>2, <1>3, NestedSummary
<1>. QED  BY <1>1, <1>2, <1>4 DEF n, parts

\* The summary tells a position, and brackets from none.
LEMMA PositionsAreTold ==
  ASSUME NEW v \in Value
  PROVE  /\ Tag(v) = "array" /\ Summary[v].ok => Len(Summary[v].counts) >= 1
         /\ Tag(v) # "array" /\ Summary[v].ok => Len(Summary[v].counts) = 0
         /\ Summary[v].ok /\ Len(Summary[v].counts) = 1 <=> IsPosition(v)
         /\ IsPosition(v) => Summary[v].first = Numbers(Of(v)) /\ Summary[v].last = Numbers(Of(v))
<1> DEFINE n == Len(Of(v))
<1>1. ~ Refused.ok
  BY DEF Refused
<1>2. CASE Tag(v) # "array"
  <2>1. (Tag(v) = "bare" /\ Summary[v] = Position(Of(v))) \/ Summary[v] = Refused
    BY <1>2, SummaryIsDefined DEF SummaryOf
  <2>2. Len(<<>>) = 0 /\ 0 # 1
    OBVIOUS
  <2>3. Tag(v) = "bare" => Of(v) \in Seq(Int)
    BY ValueAssumption DEF Content
  <2>. QED  BY <1>1, <1>2, <2>1, <2>2, <2>3, PositionSummary DEF IsPosition
<1>3. ASSUME NEW x \in Value, Summary[x].ok, Tag(x) = "array"
      PROVE  /\ Len(Summary[x].counts) \in Nat \ {0}
             /\ Tags(Of(x)) = {"number"} \/ Len(Summary[x].counts) # 1
  <2>1. ASSUME NEW y \in Value, Summary[y].ok, Tag(y) = "array"
        PROVE  \/ Tags(Of(y)) = {"number"} /\ Len(Summary[y].counts) = 1
               \/ /\ Tags(Of(y)) = {"array"}
                  /\ \E m \in Nat, z \in Value : /\ Summary[z].ok /\ Tag(z) = "array"
                                                 /\ Len(Summary[z].counts) = m
                                                 /\ Len(Summary[y].counts) = m + 1
    <3>1. /\ Tags(Of(y)) = {"number"} => Summary[y] = Nested(<<Position(Numbers(Of(y)))>>)
          /\ Tags(Of(y)) \notin {{"array"}, {"number"}} => Summary[y] = Refused
      BY <2>1, SummaryOfArray
    <3>2. CASE Tags(Of(y)) = {"array"}
      <4>1. PICK ny \in Nat \ {0}, m \in Nat :
              /\ \A i \in 1..ny : /\ Of(y)[i] \in Value /\ Tag(Of(y)[i]) = "array"
                                   /\ PartsOf(y, Summary)[i] = Summary[Of(y)[i]]
              /\ Fit(PartsOf(y, Summary), ny, m)
              /\ SumsUp(Summary[y], PartsOf(y, Summary), ny, m)
        BY <2>1, <3>2, ArraysAreCounted
      <4>2. 1 \in 1..ny
        OBVIOUS
      <4>. QED  BY <3>2, <4>1, <4>2 DEF Fit, SumsUp
    <3>3. CASE Tags(Of(y)) # {"array"}
      <4>1. Tags(Of(y)) = {"number"} => Numbers(Of(y)) \in Seq(Int)
        BY <2>1, ArrayOfValues
      <4>. QED  BY <1>1, <2>1, <3>1, <3>3, <4>1, PositionSummary
    <3>. QED  BY <3>2, <3>3
  <2>2. ASSUME NEW y \in Value, Summary[y].ok, Tag(y) = "array"
        PROVE  Len(Summary[y].counts) >= 1 /\ Len(Summary[y].counts) \in Nat
    <3>1. CASE Len(Summary[y].counts) = 1
      BY <3>1
    <3>2. ASSUME NEW m \in Nat, Len(Summary[y].counts) = m + 1
          PROVE  Len(Summary[y].counts) >= 1 /\ Len(Summary[y].counts) \in Nat
      BY <3>2
    <3>. QED  BY <2>1, <2>2, <3>1, <3>2
  <2>3. ASSUME Tags(Of(x)) # {"number"}
        PROVE  Len(Summary[x].counts) # 1
    <3>1. PICK m \in Nat, z \in Value : /\ Summary[z].ok /\ Tag(z) = "array"
                                        /\ Len(Summary[z].counts) = m
                                        /\ Len(Summary[x].counts) = m + 1
      BY <1>3, <2>1, <2>3
    <3>2. m >= 1
      BY <2>2, <3>1
    <3>. QED  BY <3>1, <3>2
  <2>. QED  BY <1>3, <2>2, <2>3
<1>4. ASSUME Tag(v) = "array", Tags(Of(v)) = {"number"}
      PROVE  /\ Summary[v].ok /\ Len(Summary[v].counts) = 1 <=> IsPosition(v)
             /\ IsPosition(v) => Summary[v].first = Numbers(Of(v)) /\ Summary[v].last = Numbers(Of(v))
  <2>1. Summary[v] = Nested(<<Position(Numbers(Of(v)))>>)
    BY <1>4, SummaryOfArray
  <2>2. /\ n \in Nat /\ Elements(v) = {Of(v)[i] : i \in 1..n}
        /\ DOMAIN Of(v) = 1..n /\ \A i \in 1..n : Of(v)[i] \in Value
    <3>1. DOMAIN Of(v) = 1..n
      BY <1>4, ArrayOfValues
    <3>. QED  BY <1>4, <3>1, ArrayOfValues DEF Elements
  <2>3. \A i \in 1..n : Tag(Of(v)[i]) = "number"
    BY <1>4, <2>2 DEF Tags
  <2>4. /\ Numbers(Of(v)) \in Seq(Int) /\ Len(Numbers(Of(v))) = n
        /\ \A i \in 1..n : Numbers(Of(v))[i] = Of(Of(v)[i])
    BY <1>4, ArrayOfValues
  <2>7. n >= 2 => 1 \in 1..n /\ 2 \in 1..n
    BY <2>2
  <2>8. \A x \in Elements(v) : Tag(x) = "number"
    BY <2>2, <2>3
  <2>9. InRange(Numbers(Of(v))) <=> IsPosition(v)
    BY <1>4, <2>4, <2>7, <2>8 DEF InRange, IsPosition
  <2>. QED  BY <2>1, <2>4, <2>9, PositionSummary
<1>5. ASSUME Tag(v) = "array", Tags(Of(v)) # {"number"}
      PROVE  ~ IsPosition(v) /\ ~ (Summary[v].ok /\ Len(Summary[v].counts) = 1)
  <2>1. ASSUME IsPosition(v) PROVE FALSE
    <3>1. /\ n >= 2 /\ Of(v) \in Seq(Value)
          /\ \A i \in DOMAIN Of(v) : Tag(Of(v)[i]) = "number"
      BY <1>5, <2>1, ArrayOfValues DEF IsPosition
    <3>2. 1 \in DOMAIN Of(v)
      BY <3>1
    <3>. QED  BY <1>5, <3>1, <3>2 DEF Tags
  <2>. QED  BY <1>3, <1>5, <2>1
<1>. QED  BY <1>2, <1>3, <1>4, <1>5

\* The summary of the value has m levels.
HasLevels(v, m) == Summary[v].ok /\ Len(Summary[v].counts) = m

\* Above the m levels of the elements, a summary says of each what holds for all.
SaysOfElements(v, m) ==
  /\ \A x \in Elements(v) : x \in Value
  /\ Of(v)[1] \in Elements(v) /\ Of(v)[Len(Of(v))] \in Elements(v)
  /\ Summary[v].counts[1] = Len(Of(v))
  /\ Summary[v].closed[1] <=> Summary[Of(v)[1]].first = Summary[Of(v)[Len(Of(v))]].last
  /\ \A l \in 1..m, k \in Nat :
       Summary[v].counts[l + 1] >= k <=> \A x \in Elements(v) : Summary[x].counts[l] >= k
  /\ \A l \in 1..m : Summary[v].closed[l + 1] <=> \A x \in Elements(v) : Summary[x].closed[l]

LEMMA LevelsAreTold ==
  ASSUME NEW v \in Value, NEW m \in Nat \ {0}
  PROVE  /\ HasLevels(v, m + 1) <=>
              Tag(v) = "array" /\ Len(Of(v)) >= 1 /\ \A x \in Elements(v) : HasLevels(x, m)
         /\ HasLevels(v, m + 1) => SaysOfElements(v, m)
<1> DEFINE n == Len(Of(v))
           parts == PartsOf(v, Summary)
<1>1. ~ Refused.ok
  BY DEF Refused
<1>2. ASSUME Tag(v) = "array"
      PROVE  /\ n \in Nat /\ \A i \in 1..n : Of(v)[i] \in Value
             /\ \A i \in 1..n : parts[i] = Summary[Of(v)[i]]
             /\ \A i \in 1..n : Of(v)[i] \in Elements(v) /\ Tag(Of(v)[i]) \in Tags(Of(v))
             /\ \A x \in Elements(v) : \E i \in 1..n : x = Of(v)[i]
             /\ Tags(Of(v)) = {"number"} => Summary[v] = Nested(<<Position(Numbers(Of(v)))>>)
             /\ Tags(Of(v)) \notin {{"array"}, {"number"}} => Summary[v] = Refused
  <2>. QED  BY <1>2, ArrayOfValues, SummaryOfArray
<1>3. ASSUME HasLevels(v, m + 1)
      PROVE  Tag(v) = "array" /\ Tags(Of(v)) = {"array"} /\ Fit(parts, n, m)
  <2>1. Tag(v) = "array"
    BY <1>3, PositionsAreTold DEF HasLevels
  <2>2. Tags(Of(v)) = {"array"}
    <3>1. CASE Tags(Of(v)) = {"number"}
      <4>1. Summary[v].ok /\ Len(Summary[v].counts) = m + 1 /\ m + 1 # 1
        BY <1>3 DEF HasLevels
      <4>2. Summary[v] = Nested(<<Position(Numbers(Of(v)))>>)
        BY <1>2, <2>1, <3>1
      <4>3. Len(Summary[v].counts) = 1
        <5>1. Numbers(Of(v)) \in Seq(Int)
          BY <2>1, <3>1, ArrayOfValues
        <5>. QED  BY <4>1, <4>2, <5>1, PositionSummary
      <4>. QED  BY <4>1, <4>3
    <3>2. CASE Tags(Of(v)) \notin {{"array"}, {"number"}}
      BY <1>1, <1>2, <1>3, <2>1, <3>2 DEF HasLevels
    <3>. QED  BY <3>1, <3>2
  <2>3. PICK n1 \in Nat \ {0}, m1 \in Nat :
          n1 = Len(Of(v)) /\ Fit(parts, n1, m1) /\ SumsUp(Summary[v], parts, n1, m1)
    BY <1>3, <2>1, <2>2, ArraysAreCounted DEF HasLevels
  <2>4. m1 = m
    BY <1>3, <2>3 DEF HasLevels, SumsUp
  <2>. QED  BY <2>1, <2>2, <2>3, <2>4
<1>4. ASSUME Tag(v) = "array", n >= 1, \A x \in Elements(v) : HasLevels(x, m)
      PROVE  Tags(Of(v)) = {"array"} /\ Fit(parts, n, m)
  <2>1. 1 \in 1..n /\ Of(v)[1] \in Value /\ Of(v)[1] \in Elements(v)
    BY <1>2, <1>4
  <2>2. \A i \in 1..n : Tag(Of(v)[i]) = "array"
    BY <1>2, <1>4, PositionsAreTold DEF HasLevels
  <2>3. Tags(Of(v)) = {"array"}
    <3>1. DOMAIN Of(v) = 1..n
      BY <1>4, ArrayOfValues
    <3> HIDE DEF n
    <3>. QED  BY <2>1, <2>2, <3>1 DEF Tags
  <2>. QED  BY <1>2, <1>4, <2>3 DEF Fit, HasLevels
<1>5. ASSUME Tag(v) = "array", Tags(Of(v)) = {"array"}, Fit(parts, n, m)
      PROVE  n >= 1 /\ SumsUp(Summary[v], parts, n, m)
  <2>1. PICK n1 \in Nat \ {0}, m1 \in Nat :
          /\ n1 = Len(Of(v)) /\ m1 = Len(parts[1].counts)
          /\ Fit(parts, n1, m1) => SumsUp(Summary[v], parts, n1, m1)
    BY <1>5, ArraysAreCounted
  <2>2. n >= 1 /\ 1 \in 1..n
    BY <2>1
  <2>3. m1 = m
    BY <1>5, <2>1, <2>2 DEF Fit
  <2>. QED  BY <1>5, <2>1, <2>2, <2>3
<1>6. HasLevels(v, m + 1) <=>
        Tag(v) = "array" /\ n >= 1 /\ \A x \in Elements(v) : HasLevels(x, m)
  <2>1. ASSUME HasLevels(v, m + 1)
        PROVE  Tag(v) = "array" /\ n >= 1 /\ \A x \in Elements(v) : HasLevels(x, m)
    BY <1>2, <1>3, <1>5, <2>1 DEF Fit, HasLevels
  <2>2. ASSUME Tag(v) = "array", n >= 1, \A x \in Elements(v) : HasLevels(x, m)
        PROVE  HasLevels(v, m + 1)
    BY <1>4, <1>5, <2>2 DEF HasLevels, SumsUp
  <2>. QED  BY <2>1, <2>2
<1>7. ASSUME HasLevels(v, m + 1)
      PROVE  /\ \A x \in Elements(v) : x \in Value
             /\ Of(v)[1] \in Elements(v) /\ Of(v)[n] \in Elements(v)
             /\ Summary[v].counts[1] = n
             /\ Summary[v].closed[1] <=> Summary[Of(v)[1]].first = Summary[Of(v)[n]].last
             /\ \A l \in 1..m, k \in Nat :
                  Summary[v].counts[l + 1] >= k <=> \A x \in Elements(v) : Summary[x].counts[l] >= k
             /\ \A l \in 1..m : Summary[v].closed[l + 1] <=> \A x \in Elements(v) : Summary[x].closed[l]
  <2> HIDE DEF n
  <2>1. /\ n \in Nat /\ \A i \in 1..n : Of(v)[i] \in Value
        /\ \A i \in 1..n : parts[i] = Summary[Of(v)[i]]
        /\ \A i \in 1..n : Of(v)[i] \in Elements(v)
        /\ \A x \in Elements(v) : \E i \in 1..n : x = Of(v)[i]
        /\ n >= 1 /\ SumsUp(Summary[v], parts, n, m)
    BY <1>2, <1>3, <1>5, <1>7
  <2> HIDE DEF parts
  <2>2. 1 \in 1..n /\ n \in 1..n
    BY <2>1
  <2>3. /\ Summary[v].counts[1] = n
        /\ Summary[v].closed[1] <=> parts[1].first = parts[n].last
        /\ \A l \in 1..m, k \in Nat :
             Summary[v].counts[l + 1] >= k <=> \A i \in 1..n : parts[i].counts[l] >= k
        /\ \A l \in 1..m : Summary[v].closed[l + 1] <=> \A i \in 1..n : parts[i].closed[l]
    BY <2>1 DEF SumsUp
  <2>4. ASSUME NEW l \in 1..m, NEW k \in Nat
        PROVE  Summary[v].counts[l + 1] >= k <=> \A x \in Elements(v) : Summary[x].counts[l] >= k
    <3>1. (\A i \in 1..n : parts[i].counts[l] >= k) <=> \A x \in Elements(v) : Summary[x].counts[l] >= k
      BY <2>1
    <3>. QED  BY <2>3, <3>1
  <2>5. ASSUME NEW l \in 1..m
        PROVE  Summary[v].closed[l + 1] <=> \A x \in Elements(v) : Summary[x].closed[l]
    <3>1. (\A i \in 1..n : parts[i].closed[l]) <=> \A x \in Elements(v) : Summary[x].closed[l]
      BY <2>1
    <3>. QED  BY <2>3, <3>1
  <2>6. parts[1] = Summary[Of(v)[1]] /\ parts[n] = Summary[Of(v)[n]]
    BY <2>1, <2>2
  <2>. QED  BY <2>1, <2>2, <2>3, <2>4, <2>5, <2>6
<1>. QED  BY <1>6, <1>7 DEF SaysOfElements

\* Different positions have different numbers.
LEMMA NumbersTellPositions ==
  ASSUME NEW x \in Value, NEW y \in Value, IsPosition(x), IsPosition(y)
  PROVE  Numbers(Of(x)) = Numbers(Of(y)) <=> x = y
<1>1. SUFFICES ASSUME Numbers(Of(x)) = Numbers(Of(y)) PROVE x = y
  OBVIOUS
<1>2. /\ Of(x) \in Seq(Value) /\ Of(y) \in Seq(Value)
      /\ \A i \in DOMAIN Of(x) : Tag(Of(x)[i]) = "number"
      /\ \A i \in DOMAIN Of(y) : Tag(Of(y)[i]) = "number"
      /\ Tag(x) = "array" /\ Tag(y) = "array"
  <2>1. Tag(x) = "array" /\ Tag(y) = "array"
    BY DEF IsPosition
  <2>2. /\ DOMAIN Of(x) = 1..Len(Of(x)) /\ DOMAIN Of(y) = 1..Len(Of(y))
        /\ Of(x) \in Seq(Value) /\ Of(y) \in Seq(Value)
        /\ \A i \in 1..Len(Of(x)) : Of(x)[i] \in Elements(x)
        /\ \A i \in 1..Len(Of(y)) : Of(y)[i] \in Elements(y)
    BY <2>1, ArrayOfValues
  <2>. QED  BY <2>1, <2>2 DEF IsPosition
<1>3. DOMAIN Of(x) = DOMAIN Of(y) /\ \A i \in DOMAIN Of(x) : Of(Of(x)[i]) = Of(Of(y)[i])
  <2>1. DOMAIN Numbers(Of(x)) = DOMAIN Of(x) /\ DOMAIN Numbers(Of(y)) = DOMAIN Of(y)
    BY DEF Numbers
  <2>2. /\ \A i \in DOMAIN Of(x) : Numbers(Of(x))[i] = Of(Of(x)[i])
        /\ \A i \in DOMAIN Of(y) : Numbers(Of(y))[i] = Of(Of(y)[i])
    BY DEF Numbers
  <2>. QED  BY <1>1, <2>1, <2>2
<1>4. ASSUME NEW i \in DOMAIN Of(x)
      PROVE  Of(x)[i] = Of(y)[i]
  <2> DEFINE a == Of(x)[i]
             b == Of(y)[i]
  <2>1. a \in Value /\ b \in Value
    BY <1>2, <1>3
  <2>2. Tag(a) = Tag(b) /\ Of(a) = Of(b)
    BY <1>2, <1>3
  <2>3. a = <<Tag(a), Of(a)>> /\ b = <<Tag(b), Of(b)>>
    BY <2>1, ValueAssumption
  <2> HIDE DEF a, b
  <2>4. a = b
    BY <2>2, <2>3
  <2>. QED  BY <2>4 DEF a, b
<1>5. Of(x) = Of(y)
  BY <1>2, <1>3, <1>4
<1>6. x = <<Tag(x), Of(x)>> /\ y = <<Tag(y), Of(y)>>
  BY ValueAssumption
<1>7. <<Tag(x), Of(x)>> = <<Tag(y), Of(y)>>
  BY <1>2, <1>5
<1>. QED  BY <1>6, <1>7

LEMMA LinesAreTold ==
  ASSUME NEW v \in Value
  PROVE  /\ HasLevels(v, 1) <=> IsPosition(v)
         /\ HasLevels(v, 2) <=> ListOf(v, 1, IsPosition)
         /\ HasLevels(v, 2) =>
              /\ Summary[v].counts[1] = Len(Of(v)) /\ Len(Of(v)) \in Nat
              /\ Summary[v].closed[1] <=> Of(v)[1] = Of(v)[Len(Of(v))]
<1>1. \A x \in Value : HasLevels(x, 1) <=> IsPosition(x)
  BY PositionsAreTold DEF HasLevels
<1>2. 1 \in Nat \ {0} /\ 1 + 1 = 2
  OBVIOUS
<1>4. Tag(v) = "array" => Len(Of(v)) \in Nat /\ \A x \in Elements(v) : x \in Value
  BY ArrayOfValues
<1>5. HasLevels(v, 1 + 1) <=>
        Tag(v) = "array" /\ Len(Of(v)) >= 1 /\ \A x \in Elements(v) : HasLevels(x, 1)
  BY <1>2, LevelsAreTold
<1>6. HasLevels(v, 2) <=> ListOf(v, 1, IsPosition)
  BY <1>1, <1>2, <1>4, <1>5 DEF ListOf
<1>7. ASSUME HasLevels(v, 2)
      PROVE  /\ Summary[v].counts[1] = Len(Of(v)) /\ Len(Of(v)) \in Nat
             /\ Summary[v].closed[1] <=> Of(v)[1] = Of(v)[Len(Of(v))]
  <2> DEFINE a == Of(v)[1]
             b == Of(v)[Len(Of(v))]
  <2>1. /\ a \in Elements(v) /\ b \in Elements(v) /\ Summary[v].counts[1] = Len(Of(v))
        /\ Summary[v].closed[1] <=> Summary[a].first = Summary[b].last
    <3>1. HasLevels(v, 1 + 1)
      BY <1>2, <1>7
    <3>2. SaysOfElements(v, 1)
      BY <1>2, <3>1, LevelsAreTold
    <3>. QED  BY <3>2 DEF SaysOfElements
  <2>2. a \in Value /\ b \in Value /\ IsPosition(a) /\ IsPosition(b)
    BY <1>1, <1>2, <1>4, <1>5, <1>7, <2>1
  <2> HIDE DEF a, b
  <2>3. Summary[a].first = Numbers(Of(a)) /\ Summary[b].last = Numbers(Of(b))
    BY <2>2, PositionsAreTold
  <2>4. Summary[v].closed[1] <=> a = b
    BY <2>1, <2>2, <2>3, NumbersTellPositions
  <2>5. Len(Of(v)) \in Nat
    BY <1>2, <1>4, <1>5, <1>7
  <2>. QED  BY <2>1, <2>4, <2>5 DEF a, b
<1>. QED  BY <1>1, <1>6, <1>7

\* For every type of geometry and values of any size, the summary that the
\* validator keeps suits the type exactly for what the type's coordinates
\* are: nothing it forgets of the arrays matters (content.py:519-584).
THEOREM SummaryIsExact ==
  ASSUME NEW type \in DOMAIN Depth, NEW v \in Value
  PROVE  Summary[v].ok /\ Suits(Summary[v], type) <=> IsCoordinates(type, v)
<1> DEFINE s == Summary[v]
<1>1. /\ type \in {"Point", "MultiPoint", "LineString", "MultiLineString", "Polygon", "MultiPolygon"}
      /\ Depth["Point"] = 1 /\ Depth["MultiPoint"] = 2 /\ Depth["LineString"] = 2
      /\ Depth["MultiLineString"] = 3 /\ Depth["Polygon"] = 3 /\ Depth["MultiPolygon"] = 4
  BY DEF Depth
<1>2. s.ok /\ Suits(s, type) <=>
        /\ HasLevels(v, Depth[type])
        /\ type \in {"LineString", "MultiLineString"} => s.counts[Depth[type] - 1] >= 2
        /\ type \in {"Polygon", "MultiPolygon"} => s.counts[Depth[type] - 1] >= 4 /\ s.closed[Depth[type] - 1]
  BY DEF Suits, HasLevels
<1>3. \A x \in Value : HasLevels(x, 1) <=> IsPosition(x)
  BY LinesAreTold
<1>4. \A x \in Value :
        /\ HasLevels(x, 2) <=> ListOf(x, 1, IsPosition)
        /\ IsLine(x) <=> HasLevels(x, 2) /\ Summary[x].counts[1] >= 2
        /\ IsRing(x) <=> HasLevels(x, 2) /\ Summary[x].counts[1] >= 4 /\ Summary[x].closed[1]
  <2>1. ASSUME NEW x \in Value
        PROVE  /\ HasLevels(x, 2) <=> ListOf(x, 1, IsPosition)
               /\ IsLine(x) <=> HasLevels(x, 2) /\ Summary[x].counts[1] >= 2
               /\ IsRing(x) <=> HasLevels(x, 2) /\ Summary[x].counts[1] >= 4 /\ Summary[x].closed[1]
    <3>1. Tag(x) = "array" => Len(Of(x)) \in Nat
      BY ArrayOfValues
    <3>. QED  BY <3>1, LinesAreTold DEF IsLine, IsRing, ListOf
  <2>. QED  BY <2>1
<1>5. \A x \in Value, m \in 1..3 :
        /\ HasLevels(x, m + 1) <=>
             Tag(x) = "array" /\ Len(Of(x)) >= 1 /\ \A y \in Elements(x) : HasLevels(y, m)
        /\ HasLevels(x, m + 1) => SaysOfElements(x, m)
  BY LevelsAreTold
<1>6. \A x \in Value : Tag(x) = "array" => \A y \in Elements(x) : y \in Value
  BY ArrayOfValues
<1>7. \A x \in Value :
        /\ HasLevels(x, 3) <=>
             Tag(x) = "array" /\ Len(Of(x)) >= 1 /\ \A y \in Elements(x) : HasLevels(y, 2)
        /\ HasLevels(x, 3) =>
             /\ \A k \in Nat : Summary[x].counts[2] >= k <=> \A y \in Elements(x) : Summary[y].counts[1] >= k
             /\ Summary[x].closed[2] <=> \A y \in Elements(x) : Summary[y].closed[1]
  <2>1. 2 \in 1..3 /\ 1 \in 1..2 /\ 2 + 1 = 3 /\ 1 + 1 = 2
    OBVIOUS
  <2>. QED  BY <1>5, <2>1 DEF SaysOfElements
<1>8. /\ HasLevels(v, 4) <=>
           Tag(v) = "array" /\ Len(Of(v)) >= 1 /\ \A y \in Elements(v) : HasLevels(y, 3)
      /\ HasLevels(v, 4) =>
           /\ \A k \in Nat : s.counts[3] >= k <=> \A y \in Elements(v) : Summary[y].counts[2] >= k
           /\ s.closed[3] <=> \A y \in Elements(v) : Summary[y].closed[2]
  <2>1. 3 \in 1..3 /\ 2 \in 1..3 /\ 3 + 1 = 4 /\ 2 + 1 = 3
    OBVIOUS
  <2>. QED  BY <1>5, <2>1 DEF SaysOfElements
<1>9. \A x \in Value :
        /\ ListOf(x, 1, IsLine) <=> HasLevels(x, 3) /\ Summary[x].counts[2] >= 2
        /\ IsPolygon(x) <=>
             HasLevels(x, 3) /\ Summary[x].counts[2] >= 4 /\ Summary[x].closed[2]
  BY <1>4, <1>6, <1>7 DEF ListOf, IsPolygon
<1>10. ListOf(v, 1, IsPolygon) <=> HasLevels(v, 4) /\ s.counts[3] >= 4 /\ s.closed[3]
  BY <1>6, <1>8, <1>9 DEF ListOf
<1> HIDE DEF s
<1>11. CASE type = "Point"
  BY <1>1, <1>2, <1>3, <1>11 DEF IsCoordinates, s
<1>12. CASE type = "MultiPoint"
  BY <1>1, <1>2, <1>4, <1>12 DEF IsCoordinates, s
<1>13. CASE type = "LineString"
  BY <1>1, <1>2, <1>4, <1>13 DEF IsCoordinates, s
<1>14. CASE type = "MultiLineString"
  BY <1>1, <1>2, <1>9, <1>14 DEF IsCoordinates, s
<1>15. CASE type = "Polygon"
  BY <1>1, <1>2, <1>9, <1>15 DEF IsCoordinates, s
<1>16. CASE type = "MultiPolygon"
  BY <1>1, <1>2, <1>10, <1>16 DEF IsCoordinates, s
<1>. QED  BY <1>1, <1>11, <1>12, <1>13, <1>14, <1>15, <1>16

---------------------------------------------------------------------------
(* The objects *)

\* The fields of an object.
LEMMA FieldsOfObject ==
  ASSUME NEW v \in Value, Tag(v) = "object"
  PROVE  /\ Of(v) \in Seq(STRING \X Value) /\ Len(Of(v)) \in Nat /\ DOMAIN Of(v) = 1..Len(Of(v))
         /\ \A i \in DOMAIN Of(v) : /\ Of(v)[i][1] \in STRING /\ Of(v)[i][2] \in Value
                                    /\ Of(v)[i][2] \in Inner(v)
<1>1. Of(v) \in Seq(STRING \X Value)
  BY ValueAssumption DEF Content
<1>2. \A i \in DOMAIN Of(v) : Of(v)[i] \in STRING \X Value
  BY <1>1
<1>3. \A i \in DOMAIN Of(v) : Of(v)[i][2] \in Inner(v)
  BY DEF Inner
<1>. QED  BY <1>1, <1>2, <1>3

LEMMA WithinIsShorter ==
  ASSUME NEW v \in Value
  PROVE  /\ Within(v) \in SUBSET Value /\ Inner(v) \subseteq Within(v)
         /\ \A x \in Inner(v) : Inner(x) \subseteq Within(v)
         /\ \A x \in Within(v) : Length[x] < Length[v]
<1>1. \A x \in Inner(v) : x \in Value /\ Length[x] < Length[v]
  BY InnerIsShorter
<1>2. ASSUME NEW x \in Inner(v), NEW y \in Inner(x)
      PROVE  y \in Value /\ Length[y] < Length[v]
  <2>1. x \in Value /\ Length[x] < Length[v]
    BY <1>1
  <2>2. y \in Value /\ Length[y] < Length[x]
    BY <2>1, InnerIsShorter
  <2>3. Length[x] \in Nat /\ Length[y] \in Nat /\ Length[v] \in Nat
    BY <2>1, <2>2, ValueAssumption
  <2>. QED  BY <2>1, <2>2, <2>3
<1>. QED  BY <1>1, <1>2 DEF Within

LEMMA TypeOfIsType ==
  ASSUME NEW v, NEW types
  PROVE  TypeOf(v, types) \in Types \cup {""}
BY DEF TypeOf

\* The types only have to be right for the values inside.
LEMMA TypeOfLooksWithin ==
  ASSUME NEW v \in Value, NEW f, NEW g, \A x \in Within(v) : f[x] = g[x]
  PROVE  TypeOf(v, f) = TypeOf(v, g)
<1>1. ASSUME Tag(v) = "object", NEW i \in DOMAIN Of(v)
      PROVE  ReadsField(Of(v), i, f) <=> ReadsField(Of(v), i, g)
  <2> DEFINE x == Of(v)[i][2]
  <2>1. x \in Inner(v) /\ x \in Value
    BY <1>1, FieldsOfObject
  <2>2. f[x] = g[x]
    BY <2>1, WithinIsShorter
  <2>3. Tag(x) = "array" => \A j \in DOMAIN Of(x) : f[Of(x)[j]] = g[Of(x)[j]]
    <3>1. Tag(x) = "array" => \A j \in DOMAIN Of(x) : Of(x)[j] \in Inner(x)
      BY DEF Inner
    <3>2. Inner(x) \subseteq Within(v)
      BY <2>1, WithinIsShorter
    <3>. QED  BY <3>1, <3>2
  <2>4. \A expected : ObjectArray(x, expected, f) <=> ObjectArray(x, expected, g)
    BY <2>3 DEF ObjectArray
  <2>. QED  BY <2>2, <2>4 DEF ReadsField
<1>2. Tag(v) = "object" =>
        ((\A i \in DOMAIN Of(v) : ReadsField(Of(v), i, f)) <=> \A i \in DOMAIN Of(v) : ReadsField(Of(v), i, g))
  BY <1>1
<1>. QED  BY <1>2, Zenon DEF TypeOf

\* Every value has a type, if only "", which comes from the values inside.
LEMMA ObjectTypeIsDefined ==
  /\ ObjectType \in [Value -> Types \cup {""}]
  /\ \A v \in Value : ObjectType[v] = TypeOf(v, ObjectType)
<1> DEFINE R == Types \cup {""}
           Inside == [v \in Value |-> Within(v)]
           Step == [v \in Value |-> [h \in [Within(v) -> R] |-> TypeOf(v, h)]]
<1>1. Inside \in [Value -> SUBSET Value] /\ \A v \in Value : Inside[v] = Within(v)
  BY WithinIsShorter
<1>2. \A v \in Value : \A x \in Inside[v] : Length[x] < Length[v]
  BY <1>1, WithinIsShorter
<1>3. \A v \in Value : \A h \in [Within(v) -> R] : Step[v][h] = TypeOf(v, h) /\ Step[v][h] \in R
  BY TypeOfIsType
<1> HIDE DEF Inside, Step, R
<1>4. \A v \in Value : \A h \in [Inside[v] -> R] : Step[v][h] \in R
  BY <1>1, <1>3
<1>5. PICK f \in [Value -> R] : \A v \in Value : f[v] = Step[v][[x \in Inside[v] |-> f[x]]]
  <2>1. \E f \in [Value -> R] : Solves(f, Value, Inside, Step)
    BY <1>1, <1>2, <1>4, ValueAssumption, Recursion
  <2>. QED  BY <2>1, Zenon DEF Solves
<1>6. ASSUME NEW v \in Value
      PROVE  f[v] = TypeOf(v, [x \in Within(v) |-> f[x]])
  <2>1. [x \in Within(v) |-> f[x]] \in [Within(v) -> R]
    BY WithinIsShorter
  <2>2. f[v] = Step[v][[x \in Within(v) |-> f[x]]]
    BY <1>1, <1>5
  <2>. QED  BY <1>3, <2>1, <2>2
<1>7. f = [v \in Value |-> TypeOf(v, [x \in Within(v) |-> f[x]])]
  BY <1>5, <1>6
<1>8. ObjectType = [v \in Value |-> TypeOf(v, [x \in Within(v) |-> ObjectType[x]])]
  BY <1>7, Zenon DEF ObjectType
<1>9. ASSUME NEW v \in Value
      PROVE  ObjectType[v] \in R /\ ObjectType[v] = TypeOf(v, ObjectType)
  <2> DEFINE within == [x \in Within(v) |-> ObjectType[x]]
  <2>1. ObjectType[v] = TypeOf(v, within)
    BY <1>8, Zenon
  <2>2. \A x \in Within(v) : within[x] = ObjectType[x]
    OBVIOUS
  <2> HIDE DEF within
  <2>3. TypeOf(v, within) = TypeOf(v, ObjectType)
    BY <2>2, TypeOfLooksWithin
  <2>. QED  BY <2>1, <2>3, TypeOfIsType DEF R
<1>10. ObjectType = [v \in Value |-> ObjectType[v]]
  BY <1>8, Zenon
<1>11. ObjectType \in [Value -> R]
  <2> DEFINE h == ObjectType
  <2>1. h = [v \in Value |-> h[v]] /\ \A v \in Value : h[v] \in R
    BY <1>9, <1>10
  <2> HIDE DEF h
  <2>2. h \in [Value -> R]
    BY <2>1
  <2>. QED  BY <2>2 DEF h
<1>. QED  BY <1>9, <1>11 DEF R

LEMMA MembersAreWithin ==
  ASSUME NEW v \in Value
  PROVE  /\ Members(v) \in SUBSET Value
         /\ \A y \in Members(v) : Length[y] < Length[v] /\ Tag(y) = "object"
<1>1. ASSUME NEW y \in Members(v)
      PROVE  y \in Within(v) /\ Tag(y) = "object"
  <2>1. Tag(v) = "object"
    BY DEF Members
  <2>2. PICK i \in DOMAIN Of(v) : y \in Listed(Of(v)[i][2]) /\ Tag(y) = "object"
    BY DEF Members, Values
  <2> DEFINE x == Of(v)[i][2]
  <2>3. x \in Inner(v)
    BY <2>1, FieldsOfObject
  <2>4. CASE Tag(x) = "array"
    <3>1. y \in Inner(x)
      BY <2>2, <2>4 DEF Listed, Elements, Inner
    <3>. QED  BY <2>2, <2>3, <3>1, WithinIsShorter
  <2>5. CASE Tag(x) # "array"
    <3>1. y = x
      BY <2>2, <2>5 DEF Listed
    <3>. QED  BY <2>2, <2>3, <3>1, WithinIsShorter
  <2>. QED  BY <2>4, <2>5
<1>. QED  BY <1>1, WithinIsShorter

\* A value consists of itself and of what its members consist of.
LEMMA PartsIsDefined ==
  /\ \A v \in Value : Parts[v] = {v} \cup UNION {Parts[y] : y \in Members(v)}
  /\ \A v \in Value : Parts[v] \subseteq Value
<1> DEFINE R == SUBSET Value
           StepOf(v, h) == {v} \cup UNION {h[y] : y \in Members(v)}
           Inside == [v \in Value |-> Members(v)]
           Step == [v \in Value |-> [h \in [Members(v) -> R] |-> StepOf(v, h)]]
<1>1. Inside \in [Value -> SUBSET Value] /\ \A v \in Value : Inside[v] = Members(v)
  BY MembersAreWithin
<1>2. \A v \in Value : \A x \in Inside[v] : Length[x] < Length[v]
  BY <1>1, MembersAreWithin
<1>3. \A v \in Value : \A h \in [Members(v) -> R] : Step[v][h] = StepOf(v, h) /\ StepOf(v, h) \in R
  OBVIOUS
<1>4. \A v \in Value : \A h \in [Inside[v] -> R] : Step[v][h] \in R
  <2> HIDE DEF Inside, Step, R, StepOf
  <2>. QED  BY <1>1, <1>3
<1>5. PICK f \in [Value -> R] : \A v \in Value : f[v] = Step[v][[x \in Inside[v] |-> f[x]]]
  <2> HIDE DEF Inside, Step, R, StepOf
  <2>1. \E f \in [Value -> R] : Solves(f, Value, Inside, Step)
    BY <1>1, <1>2, <1>4, ValueAssumption, Recursion
  <2>. QED  BY <2>1, Zenon DEF Solves
<1>6. ASSUME NEW v \in Value
      PROVE  f[v] = {v} \cup UNION {f[y] : y \in Members(v)}
  <2> DEFINE h == [x \in Members(v) |-> f[x]]
  <2>1. h \in [Members(v) -> R] /\ \A y \in Members(v) : h[y] = f[y]
    BY MembersAreWithin
  <2>2. f[v] = Step[v][h]
    <3> HIDE DEF Inside, Step, R
    <3>. QED  BY <1>1, <1>5
  <2>3. f[v] = StepOf(v, h)
    <3> HIDE DEF h, Step, R, StepOf
    <3>. QED  BY <1>3, <2>1, <2>2
  <2> HIDE DEF h
  <2>. QED  BY <2>1, <2>3
<1>7. f = [v \in Value |-> {v} \cup UNION {f[y] : y \in Members(v)}]
  <2> HIDE DEF R, Inside, Step
  <2>. QED  BY <1>5, <1>6
<1>8. Parts = [v \in Value |-> {v} \cup UNION {Parts[y] : y \in Members(v)}]
  BY <1>7, Zenon DEF Parts
<1>9. \A v \in Value : Parts[v] = {v} \cup UNION {Parts[y] : y \in Members(v)}
  BY <1>8, Zenon
<1>10. \A v \in Value : Parts[v] \subseteq Value
  <2> DEFINE S == {v \in Value : ~ (Parts[v] \subseteq Value)}
  <2>1. SUFFICES ASSUME S # {} PROVE FALSE
    OBVIOUS
  <2>2. PICK v \in S : \A x \in Value : Length[x] < Length[v] => x \notin S
    <3>1. S \in SUBSET Value
      OBVIOUS
    <3> HIDE DEF S
    <3>. QED  BY <2>1, <3>1, Shortest
  <2>3. \A y \in Members(v) : y \in Value /\ Length[y] < Length[v]
    BY MembersAreWithin
  <2>4. \A y \in Members(v) : y \notin S
    BY <2>2, <2>3
  <2>5. \A y \in Members(v) : Parts[y] \subseteq Value
    BY <2>3, <2>4
  <2>. QED  BY <1>9, <2>5
<1>. QED  BY <1>9, <1>10

\* With every key once, the readers of a field agree on its value.
LEMMA KeyHasOneValue ==
  ASSUME NEW v, KeysDiffer(Of(v)), NEW i \in DOMAIN Of(v)
  PROVE  /\ Values(v, Of(v)[i][1]) = {Of(v)[i][2]} /\ Has(Of(v), Of(v)[i][1])
         /\ Get(Of(v), Of(v)[i][1]) = Of(v)[i][2]
<1> DEFINE key == Of(v)[i][1]
<1>1. \A j \in DOMAIN Of(v) : Of(v)[j][1] = key => j = i
  BY DEF KeysDiffer
<1>2. {j \in DOMAIN Of(v) : Of(v)[j][1] = key} = {i}
  BY <1>1
<1>3. Values(v, key) = {Of(v)[i][2]}
  BY <1>2 DEF Values
<1>4. (CHOOSE j \in DOMAIN Of(v) : Of(v)[j][1] = key) = i
  BY <1>1
<1>5. Get(Of(v), key) = Of(v)[i][2]
  BY <1>4, Zenon DEF Get
<1>. QED  BY <1>3, <1>5 DEF Has, Keys

LEMMA MissingKey ==
  ASSUME NEW v, NEW key
  PROVE  /\ Has(Of(v), key) <=> \E i \in DOMAIN Of(v) : Of(v)[i][1] = key
         /\ Has(Of(v), key) <=> Values(v, key) # {}
BY DEF Has, Keys, Values

\* The field that belongs to a type.
FieldOf(type) ==
  CASE type = "Feature"            -> "geometry"
    [] type = "FeatureCollection"  -> "features"
    [] type = "GeometryCollection" -> "geometries"
    [] OTHER                       -> "coordinates"

\* The object gives this one type.
Gives(v, type) ==
  /\ Tag(v) = "object" /\ KeysDiffer(Of(v))
  /\ \E i \in DOMAIN Of(v) : Of(v)[i][1] = "type" /\ Tag(Of(v)[i][2]) = "string" /\ Of(Of(v)[i][2]) = type

LEMMA OneType ==
  ASSUME NEW v, NEW type, Gives(v, type)
  PROVE  /\ \A types : TypeIs(v, types) <=> type \in types
         /\ Defining(v) = FieldOf(type)
         /\ Has(Of(v), "type") /\ Of(Get(Of(v), "type")) = type
<1>1. PICK i \in DOMAIN Of(v) :
        Of(v)[i][1] = "type" /\ Tag(Of(v)[i][2]) = "string" /\ Of(Of(v)[i][2]) = type
  BY DEF Gives
<1>2. /\ Values(v, "type") = {Of(v)[i][2]} /\ Has(Of(v), "type")
      /\ Get(Of(v), "type") = Of(v)[i][2]
  <2>1. KeysDiffer(Of(v))
    BY DEF Gives
  <2>. QED  BY <1>1, <2>1, KeyHasOneValue
<1>3. ASSUME NEW types
      PROVE  TypeIs(v, types) <=> type \in types
  BY <1>1, <1>2 DEF TypeIs, Gives
<1>4. Defining(v) = FieldOf(type)
  BY <1>3 DEF Defining, FieldOf
<1>. QED  BY <1>1, <1>2, <1>3, <1>4

\* What the validator has seen of an object it did not refuse.
LEMMA ObjectIsRead ==
  ASSUME NEW v \in Value, ObjectType[v] # ""
  PROVE  /\ Gives(v, ObjectType[v]) /\ ObjectType[v] \in Types
         /\ \A i \in DOMAIN Of(v) : ReadsField(Of(v), i, ObjectType)
         /\ Complete(Of(v), ObjectType[v])
<1> DEFINE type == Of(Get(Of(v), "type"))
<1>1. /\ Tag(v) = "object" /\ KeysDiffer(Of(v))
      /\ \A i \in DOMAIN Of(v) : ReadsField(Of(v), i, ObjectType)
      /\ Has(Of(v), "type") /\ type \in Types /\ Complete(Of(v), type)
      /\ ObjectType[v] = type
  <2>1. ObjectType[v] = TypeOf(v, ObjectType)
    BY ObjectTypeIsDefined
  <2>. QED  BY <2>1, Zenon DEF TypeOf
<1>2. PICK i \in DOMAIN Of(v) : Of(v)[i][1] = "type"
  BY <1>1, MissingKey
<1>3. Get(Of(v), "type") = Of(v)[i][2]
  BY <1>1, <1>2, KeyHasOneValue
<1>4. Tag(Of(v)[i][2]) = "string"
  BY <1>1, <1>2 DEF ReadsField
<1>. QED  BY <1>1, <1>2, <1>3, <1>4 DEF Gives

LEMMA ReferenceTypes ==
  /\ "" \notin Types /\ "Feature" \in Types /\ GeometryTypes \subseteq Types /\ DOMAIN Depth \subseteq Types
  /\ \A type \in Types : FieldOf(type) = "coordinates" <=> type \in DOMAIN Depth
  /\ \A type \in DOMAIN Depth : type \notin {"Feature", "FeatureCollection", "GeometryCollection"}
BY DEF Types, Depth, GeometryTypes, FieldOf

\* The members of an object were not refused, if it was not.
LEMMA MembersAreRead ==
  ASSUME NEW v \in Value, ObjectType[v] # "", NEW y \in Members(v)
  PROVE  ObjectType[y] # ""
<1> DEFINE type == ObjectType[v]
<1>1. Gives(v, type) /\ \A i \in DOMAIN Of(v) : ReadsField(Of(v), i, ObjectType)
  BY ObjectIsRead
<1>2. Defining(v) = FieldOf(type)
  BY <1>1, OneType
<1>3. FieldOf(type) # "coordinates"
  BY <1>2 DEF Members
<1>4. PICK i \in DOMAIN Of(v) : Of(v)[i][1] = FieldOf(type) /\ y \in Listed(Of(v)[i][2]) /\ Tag(y) = "object"
  BY <1>2 DEF Members, Values
<1> DEFINE x == Of(v)[i][2]
<1>5. ReadsField(Of(v), i, ObjectType) /\ x \in Value /\ y \in Value
  BY <1>1, <1>4, FieldsOfObject, MembersAreWithin DEF Gives
<1>6. CASE FieldOf(type) = "geometry"
  <2>1. Tag(x) = "null" \/ ObjectType[x] # ""
    BY <1>4, <1>5, <1>6 DEF ReadsField
  <2>2. Tag(x) # "array"
    BY <1>5, <2>1, ObjectIsRead DEF Gives
  <2>3. y = x
    BY <1>4, <2>2 DEF Listed
  <2>. QED  BY <1>4, <2>1, <2>3
<1>7. ASSUME NEW expected, expected \subseteq Types, ObjectArray(x, expected, ObjectType)
      PROVE  ObjectType[y] # ""
  <2>1. Tag(x) = "array" /\ \A j \in DOMAIN Of(x) : ObjectType[Of(x)[j]] \in expected
    BY <1>7 DEF ObjectArray, IsExpected
  <2>2. \E j \in DOMAIN Of(x) : y = Of(x)[j]
    BY <1>4, <2>1 DEF Listed, Elements
  <2>. QED  BY <1>7, <2>1, <2>2, ReferenceTypes
<1>8. CASE FieldOf(type) = "features"
  <2>1. ObjectArray(x, {"Feature"}, ObjectType)
    BY <1>4, <1>5, <1>8 DEF ReadsField
  <2>. QED  BY <1>7, <2>1, ReferenceTypes
<1>9. CASE FieldOf(type) = "geometries"
  <2>1. ObjectArray(x, Types, ObjectType)
    BY <1>4, <1>5, <1>9 DEF ReadsField
  <2>. QED  BY <1>7, <2>1
<1>. QED  BY <1>3, <1>6, <1>8, <1>9 DEF FieldOf

LEMMA PartsAreRead ==
  ASSUME NEW v \in Value, ObjectType[v] # ""
  PROVE  \A p \in Parts[v] : p \in Value /\ ObjectType[p] # ""
<1> DEFINE Good(x) == ObjectType[x] # "" => \A p \in Parts[x] : ObjectType[p] # ""
           S == {x \in Value : ~ Good(x)}
<1>1. S = {}
  <2>1. SUFFICES ASSUME S # {} PROVE FALSE
    OBVIOUS
  <2>2. PICK x \in S : \A y \in Value : Length[y] < Length[x] => y \notin S
    <3>1. S \in SUBSET Value
      OBVIOUS
    <3> HIDE DEF S
    <3>. QED  BY <2>1, <3>1, Shortest
  <2>3. x \in Value /\ ObjectType[x] # "" /\ ~ Good(x)
    BY <2>2
  <2>4. ASSUME NEW y \in Members(x)
        PROVE  \A p \in Parts[y] : ObjectType[p] # ""
    <3>1. y \in Value /\ Length[y] < Length[x]
      BY <2>3, MembersAreWithin
    <3>2. y \notin S
      <4> HIDE DEF S
      <4>. QED  BY <2>2, <3>1
    <3>3. ObjectType[y] # ""
      BY <2>3, MembersAreRead
    <3>. QED  BY <3>1, <3>2, <3>3
  <2>5. Parts[x] = {x} \cup UNION {Parts[y] : y \in Members(x)}
    BY <2>3, PartsIsDefined
  <2>6. Good(x)
    BY <2>3, <2>4, <2>5
  <2>. QED  BY <2>3, <2>6
<1>2. Good(v)
  BY <1>1
<1>3. Parts[v] \subseteq Value
  BY PartsIsDefined
<1>. QED  BY <1>2, <1>3

\* What was read of an object is what it must be.
LEMMA ReadObjectIsSound ==
  ASSUME NEW v \in Value, ObjectType[v] # ""
  PROVE  /\ TypeIs(v, Types) /\ Values(v, Defining(v)) # {} /\ KeyOnce(v)
         /\ \A t \in DOMAIN Depth :
              TypeIs(v, {t}) => \A c \in Values(v, "coordinates") : IsCoordinates(t, c)
         /\ TypeIs(v, {"FeatureCollection"}) =>
              \A x \in Values(v, "features") : \A y \in Elements(x) : TypeIs(y, {"Feature"})
<1> DEFINE type == ObjectType[v]
<1>1. /\ Gives(v, type) /\ type \in Types /\ Complete(Of(v), type)
      /\ \A i \in DOMAIN Of(v) : ReadsField(Of(v), i, ObjectType)
  BY ObjectIsRead
<1>2. (\A types : TypeIs(v, types) <=> type \in types) /\ Defining(v) = FieldOf(type)
  BY <1>1, OneType
<1>3. Has(Of(v), FieldOf(type))
  BY <1>1, ReferenceTypes DEF Complete, FieldOf
<1>4. Tag(v) = "object" /\ KeysDiffer(Of(v))
  BY <1>1 DEF Gives
<1>5. KeyOnce(v)
  BY <1>4 DEF KeysDiffer, KeyOnce
<1>6. ASSUME NEW t \in DOMAIN Depth, TypeIs(v, {t}), NEW c \in Values(v, "coordinates")
      PROVE  IsCoordinates(t, c)
  <2>1. type = t
    BY <1>2, <1>6
  <2>2. PICK i \in DOMAIN Of(v) : Of(v)[i][1] = "coordinates" /\ c = Of(v)[i][2]
    BY DEF Values
  <2>3. Get(Of(v), "coordinates") = c
    BY <1>4, <2>2, KeyHasOneValue
  <2>4. Summary[c].ok
    BY <1>1, <2>2 DEF ReadsField
  <2>5. Suits(Summary[c], t)
    BY <1>1, <2>1, <2>3, ReferenceTypes DEF Complete
  <2>6. c \in Value
    BY <1>4, <2>2, FieldsOfObject
  <2>. QED  BY <2>4, <2>5, <2>6, SummaryIsExact
<1>7. ASSUME NEW x \in Values(v, "features"), NEW y \in Elements(x)
      PROVE  TypeIs(y, {"Feature"})
  <2>1. PICK i \in DOMAIN Of(v) : Of(v)[i][1] = "features" /\ x = Of(v)[i][2]
    BY DEF Values
  <2>2. Tag(x) = "array" /\ \A j \in DOMAIN Of(x) : ObjectType[Of(x)[j]] = "Feature"
    <3>1. ObjectArray(x, {"Feature"}, ObjectType)
      BY <1>1, <2>1 DEF ReadsField
    <3>. QED  BY <3>1 DEF ObjectArray, IsExpected
  <2>3. x \in Value
    BY <1>4, <2>1, FieldsOfObject
  <2>4. y \in Value /\ ObjectType[y] = "Feature"
    <3>1. \E j \in 1..Len(Of(x)) : y = Of(x)[j]
      BY <2>2, <2>3, ArrayOfValues
    <3>2. DOMAIN Of(x) = 1..Len(Of(x)) /\ \A j \in 1..Len(Of(x)) : Of(x)[j] \in Value
      BY <2>2, <2>3, ArrayOfValues
    <3>. QED  BY <2>2, <3>1, <3>2
  <2>5. Gives(y, "Feature")
    BY <2>4, ObjectIsRead
  <2>. QED  BY <2>5, OneType
<1>. QED  BY <1>1, <1>2, <1>3, <1>5, <1>6, <1>7, MissingKey

\* GeoJSON is not refused: the readers of all the fields are content.
LEMMA ObjectIsAccepted ==
  ASSUME NEW v \in Value, IsObject(v),
         \A y \in Members(v) : ObjectType[y] # ""
  PROVE  ObjectType[v] # ""
<1>1. /\ Tag(v) = "object" /\ KeysDiffer(Of(v)) /\ TypeIs(v, Types)
      /\ \A i \in DOMAIN Of(v) : /\ Of(v)[i][1] \in {"type", Defining(v), "properties"}
                                 /\ Tag(Of(v)[i][2]) # "bare"
  BY DEF IsObject, TypeIs, KeyOnce, KeysDiffer, NothingElse
<1>2. PICK k \in DOMAIN Of(v) : Of(v)[k][1] = "type"
  BY <1>1 DEF TypeIs, Values
<1> DEFINE type == Of(Of(v)[k][2])
<1>3. Tag(Of(v)[k][2]) = "string" /\ type \in Types
  BY <1>1, <1>2 DEF TypeIs, Values
<1>4. Gives(v, type)
  BY <1>1, <1>2, <1>3 DEF Gives
<1>5. /\ \A types : TypeIs(v, types) <=> type \in types
      /\ Defining(v) = FieldOf(type) /\ Has(Of(v), "type") /\ Of(Get(Of(v), "type")) = type
  BY <1>4, OneType
<1>6. PICK d \in DOMAIN Of(v) : Of(v)[d][1] = FieldOf(type) /\ MayHold(v, Of(v)[d][2])
  BY <1>5 DEF IsObject, Values
<1> DEFINE x == Of(v)[d][2]
<1>7. /\ x \in Value /\ Get(Of(v), FieldOf(type)) = x /\ Has(Of(v), FieldOf(type))
      /\ \A i \in DOMAIN Of(v) : Of(v)[i][1] = FieldOf(type) => i = d
      /\ Tag(x) # "bare"
  <2>1. x \in Value /\ Tag(x) # "bare"
    BY <1>1, <1>6, FieldsOfObject
  <2>2. Get(Of(v), FieldOf(type)) = x /\ Has(Of(v), FieldOf(type))
    BY <1>1, <1>6, KeyHasOneValue
  <2>3. \A i \in DOMAIN Of(v) : Of(v)[i][1] = FieldOf(type) => i = d
    BY <1>1, <1>6 DEF KeysDiffer
  <2>. QED  BY <2>1, <2>2, <2>3
<1>8. ASSUME FieldOf(type) # "coordinates", NEW y \in Listed(x), Tag(y) = "object"
      PROVE  ObjectType[y] # "" /\ y \in Value /\ Gives(y, ObjectType[y])
  <2>1. y \in Members(v)
    BY <1>1, <1>5, <1>6, <1>8 DEF Members, Values
  <2>. QED  BY <2>1, MembersAreWithin, ObjectIsRead
<1>9. ASSUME Tag(x) = "array", FieldOf(type) # "coordinates", NEW expected,
             \A y \in Elements(x) : TypeIs(y, expected)
      PROVE  ObjectArray(x, expected, ObjectType)
  <2>1. ASSUME NEW j \in DOMAIN Of(x)
        PROVE  ObjectType[Of(x)[j]] \in expected
    <3>1. Of(x)[j] \in Listed(x) /\ TypeIs(Of(x)[j], expected)
      BY <1>9 DEF Listed, Elements
    <3>2. Tag(Of(x)[j]) = "object"
      BY <3>1 DEF TypeIs
    <3>3. Gives(Of(x)[j], ObjectType[Of(x)[j]])
      BY <1>8, <1>9, <3>1, <3>2
    <3>. QED  BY <3>1, <3>3, OneType
  <2>. QED  BY <1>9, <2>1 DEF ObjectArray, IsExpected
<1>10. ReadsField(Of(v), d, ObjectType) /\ Complete(Of(v), type)
  <2>1. CASE type = "Feature"
    <3>1. FieldOf(type) = "geometry"
      BY <2>1 DEF FieldOf
    <3>2. Tag(x) = "null" \/ TypeIs(x, GeometryTypes)
      BY <1>5, <1>6, <2>1 DEF MayHold
    <3>3. TypeIs(x, GeometryTypes) => Tag(x) = "object" /\ x \in Listed(x)
      BY DEF TypeIs, Listed
    <3>4. Tag(x) = "null" \/ ObjectType[x] # ""
      BY <1>8, <3>1, <3>2, <3>3
    <3>. QED  BY <1>6, <1>7, <2>1, <3>1, <3>4 DEF ReadsField, Complete
  <2>2. CASE type = "FeatureCollection"
    <3>1. FieldOf(type) = "features"
      BY <2>2 DEF FieldOf
    <3>2. Tag(x) = "array" /\ \A y \in Elements(x) : TypeIs(y, {"Feature"})
      BY <1>5, <1>6, <2>2 DEF MayHold
    <3>3. ObjectArray(x, {"Feature"}, ObjectType)
      BY <1>9, <3>1, <3>2
    <3>. QED  BY <1>6, <1>7, <2>2, <3>1, <3>3 DEF ReadsField, Complete
  <2>3. CASE type = "GeometryCollection"
    <3>1. FieldOf(type) = "geometries"
      BY <2>3 DEF FieldOf
    <3>2. Tag(x) = "array" /\ \A y \in Elements(x) : TypeIs(y, GeometryTypes)
      BY <1>5, <1>6, <2>3 DEF MayHold
    <3>3. ObjectArray(x, GeometryTypes, ObjectType)
      BY <1>9, <3>1, <3>2
    <3>4. ObjectArray(x, Types, ObjectType)
      BY <3>3, ReferenceTypes DEF ObjectArray, IsExpected
    <3>. QED  BY <1>6, <1>7, <2>3, <3>1, <3>4 DEF ReadsField, Complete
  <2>4. CASE type \notin {"Feature", "FeatureCollection", "GeometryCollection"}
    <3>1. FieldOf(type) = "coordinates" /\ type \in DOMAIN Depth
      BY <1>3, <2>4, ReferenceTypes DEF FieldOf
    <3>2. \A t \in DOMAIN Depth : TypeIs(v, {t}) => IsCoordinates(t, x)
      BY <1>5, <1>6, <2>4 DEF MayHold
    <3>3. IsCoordinates(type, x)
      BY <1>5, <3>1, <3>2
    <3>4. Summary[x].ok /\ Suits(Summary[x], type)
      BY <1>7, <3>1, <3>3, SummaryIsExact
    <3>. QED  BY <1>6, <1>7, <2>4, <3>1, <3>4 DEF ReadsField, Complete
  <2>. QED  BY <2>1, <2>2, <2>3, <2>4
<1>11. ASSUME NEW i \in DOMAIN Of(v)
       PROVE  ReadsField(Of(v), i, ObjectType)
  <2>1. Of(v)[i][1] \in {"type", FieldOf(type), "properties"} /\ Tag(Of(v)[i][2]) # "bare"
    BY <1>1, <1>5
  <2>2. CASE Of(v)[i][1] = "type"
    <3>1. i = k
      BY <1>1, <1>2, <2>2 DEF KeysDiffer
    <3>. QED  BY <1>3, <2>2, <3>1 DEF ReadsField
  <2>3. CASE Of(v)[i][1] = FieldOf(type)
    BY <1>7, <1>10, <2>3
  <2>4. CASE Of(v)[i][1] = "properties"
    BY <2>1, <2>4 DEF ReadsField
  <2>. QED  BY <2>1, <2>2, <2>3, <2>4
<1>12. ObjectType[v] = TypeOf(v, ObjectType)
  BY ObjectTypeIsDefined
<1>13. TypeOf(v, ObjectType) = type
  <2>1. \A i \in DOMAIN Of(v) : ReadsField(Of(v), i, ObjectType)
    BY <1>11
  <2> HIDE DEF x
  <2>2. Of(Get(Of(v), "type")) = type /\ Has(Of(v), "type") /\ type \in Types
    BY <1>3, <1>5
  <2> HIDE DEF type
  <2>. QED  BY <1>1, <1>10, <2>1, <2>2 DEF TypeOf
<1>. QED  BY <1>3, <1>12, <1>13, ReferenceTypes

LEMMA GeoJsonIsRead ==
  ASSUME NEW v \in Value, IsGeoJson(v)
  PROVE  ObjectType[v] # ""
<1> DEFINE Bad(x) == IsGeoJson(x) /\ ObjectType[x] = ""
           S == {x \in Value : Bad(x)}
<1>1. SUFFICES ASSUME S # {} PROVE FALSE
  OBVIOUS
<1>2. PICK x \in S : \A y \in Value : Length[y] < Length[x] => y \notin S
  <2>1. S \in SUBSET Value
    OBVIOUS
  <2> HIDE DEF S
  <2>. QED  BY <1>1, <2>1, Shortest
<1>3. x \in Value /\ IsGeoJson(x) /\ ObjectType[x] = ""
  BY <1>2
<1>4. Parts[x] = {x} \cup UNION {Parts[y] : y \in Members(x)}
  BY <1>3, PartsIsDefined
<1>5. IsObject(x)
  BY <1>3, <1>4 DEF IsGeoJson
<1>6. ASSUME NEW y \in Members(x)
      PROVE  ObjectType[y] # ""
  <2>1. y \in Value /\ Length[y] < Length[x]
    BY <1>3, MembersAreWithin
  <2>2. y \notin S
    <3> HIDE DEF S
    <3>. QED  BY <1>2, <2>1
  <2>3. IsGeoJson(y)
    BY <1>3, <1>4 DEF IsGeoJson
  <2>. QED  BY <2>1, <2>2, <2>3
<1>. QED  BY <1>3, <1>5, <1>6, ObjectIsAccepted

---------------------------------------------------------------------------

AnswerIsRight ==
  /\ upload \in Value
  /\ answer = "accepted" => ObjectType[upload] # ""
  /\ answer = "refused" => ObjectType[upload] = ""

LEMMA AnswerIsAlwaysRight == GeoJsonSpec => []AnswerIsRight
<1>1. GeoJsonInit => AnswerIsRight
  BY DEF GeoJsonInit, AnswerIsRight
<1>2. AnswerIsRight /\ [GeoJsonNext]_geoJsonVars => AnswerIsRight'
  BY DEF AnswerIsRight, GeoJsonNext, Validate, geoJsonVars
<1>. QED  BY <1>1, <1>2, PTL DEF GeoJsonSpec

\* An accepted upload, of any size and however deeply nested, has sound
\* geometries, all that its types promise, and no key twice: what the validator
\* keeps of what it has read is enough (content.py:450-584).
THEOREM AcceptedCorrect == GeoJsonSpec => []AcceptedIsSound
<1>1. AnswerIsRight => AcceptedIsSound
  <2>1. SUFFICES ASSUME AnswerIsRight, answer = "accepted", NEW p \in Parts[upload]
                 PROVE  p \in Value /\ ObjectType[p] # ""
    BY ReadObjectIsSound
       DEF AcceptedIsSound, GeometriesAreSound, FeaturesAreFeatures, KeysAreUnique
  <2>. QED  BY <2>1, PartsAreRead DEF AnswerIsRight
<1>. QED  BY <1>1, AnswerIsAlwaysRight, PTL

\* And no GeoJSON is refused (content.py:450-497).
THEOREM GeoJsonCorrect == GeoJsonSpec => []GeoJsonIsAccepted
<1>1. AnswerIsRight => GeoJsonIsAccepted
  BY GeoJsonIsRead DEF AnswerIsRight, GeoJsonIsAccepted
<1>. QED  BY <1>1, AnswerIsAlwaysRight, PTL

=============================================================================
