------------------------------- MODULE TextProofs -------------------------------
(***************************************************************************)
(* What the operators of TokenVault do to a text, for every text, every    *)
(* vault and every system of numerals: str.replace, the order of sorted,   *)
(* the numerals of a token, the extractor, detokenize.                     *)
(*                                                                         *)
(* Their functions are recursive.  RecursionExists says once that such a   *)
(* function is defined; what it does is then shown by induction on the     *)
(* length of a text (TextInduction).                                       *)
(***************************************************************************)
EXTENDS TokenVault, SequenceTheorems, FiniteSetTheorems, TLAPS

\* Induction on the naturals, for the members of a set.
LEMMA SetInduction ==
  ASSUME NEW S, \A n \in Nat : (\A m \in Nat : m < n => m \in S) => n \in S
  PROVE  \A n \in Nat : n \in S
<1> DEFINE T == {n \in Nat : n \notin S}
<1> SUFFICES ASSUME T # {}
             PROVE  FALSE
  OBVIOUS
<1>1. PICK x \in T : \A y \in T : ~ (<<y, x>> \in OpToRel(<, Nat))
  <2>1. T \subseteq Nat /\ T # {}
    OBVIOUS
  <2> HIDE DEF T
  <2> QED
    BY <2>1, NatLessThanWellFounded, WFMin, Zenon
<1>2. \A m \in Nat : m < x => m \in S
  <2> SUFFICES ASSUME NEW m \in Nat, m < x, m \notin S
               PROVE  FALSE
    OBVIOUS
  <2>1. m \in T /\ x \in Nat
    OBVIOUS
  <2>2. <<m, x>> \in OpToRel(<, Nat)
    BY <2>1 DEF OpToRel
  <2> QED
    BY <1>1, <2>1, <2>2
<1> QED
  BY <1>2

\* A set of numbers has a least one.
LEMMA LeastOf ==
  ASSUME NEW S \in SUBSET Nat, S # {}
  PROVE  \E x \in S : \A y \in S : x <= y
<1> DEFINE T == {n \in Nat : n \notin S}
<1> SUFFICES ASSUME \A x \in S : \E y \in S : y < x
             PROVE  FALSE
  OBVIOUS
<1>1. \A n \in Nat : (\A m \in Nat : m < n => m \in T) => n \in T
  OBVIOUS
<1>2. \A n \in Nat : n \in T
  <2> HIDE DEF T
  <2> QED
    BY <1>1, SetInduction
<1> QED
  BY <1>2

\* Induction on what a function measures.
LEMMA RankInduction ==
  ASSUME NEW D, NEW rank \in [D -> Nat], NEW S,
         \A x \in D : (\A y \in D : rank[y] < rank[x] => y \in S) => x \in S
  PROVE  \A x \in D : x \in S
<1> DEFINE N == {n \in Nat : \A x \in D : rank[x] = n => x \in S}
<1>1. \A n \in Nat : (\A m \in Nat : m < n => m \in N) => n \in N
  <2> SUFFICES ASSUME NEW n \in Nat, \A m \in Nat : m < n => m \in N,
                      NEW x \in D, rank[x] = n
               PROVE  x \in S
    OBVIOUS
  <2>1. ASSUME NEW y \in D, rank[y] < rank[x]
        PROVE  y \in S
    BY <2>1
  <2> QED
    BY <2>1
<1>2. \A n \in Nat : n \in N
  <2> HIDE DEF N
  <2> QED
    BY <1>1, SetInduction
<1> QED
  BY <1>2

\* A function from D to V is defined from itself, at what has a smaller rank.
LooksBack(Phi, D, V, rank) ==
  /\ rank \in [D -> Nat]
  /\ Phi \in [[D -> V] -> [D -> V]]
  /\ \A f, g \in [D -> V] : \A x \in D :
       (\A y \in D : rank[y] < rank[x] => f[y] = g[y]) => Phi[f][x] = Phi[g][x]

\* The function that Phi defines.
IsDefined(Phi, D, V) == \E f \in [D -> V] : f = Phi[f]

\* Such a function exists.
LEMMA RecursionExists ==
  ASSUME NEW D, NEW V, V # {}, NEW rank, NEW Phi, LooksBack(Phi, D, V, rank)
  PROVE  IsDefined(Phi, D, V)
<1> USE DEF LooksBack
<1> DEFINE F == [D -> V]
           Good(f, n) == \A x \in D : rank[x] < n => f[x] = Phi[f][x]
<1>1. ASSUME NEW n \in Nat, NEW f \in F, NEW g \in F, Good(f, n), Good(g, n)
      PROVE  \A x \in D : rank[x] < n => f[x] = g[x]
  <2> DEFINE S == {x \in D : rank[x] < n => f[x] = g[x]}
  <2>1. \A x \in D : (\A y \in D : rank[y] < rank[x] => y \in S) => x \in S
    <3> SUFFICES ASSUME NEW x \in D, \A y \in D : rank[y] < rank[x] => y \in S, rank[x] < n
                 PROVE  f[x] = g[x]
      OBVIOUS
    <3>1. \A y \in D : rank[y] < rank[x] => f[y] = g[y]
      OBVIOUS
    <3>2. f[x] = Phi[f][x] /\ g[x] = Phi[g][x]
      BY <1>1
    <3> QED
      BY <3>1, <3>2
  <2>2. \A x \in D : x \in S
    <3> HIDE DEF S
    <3> QED
      BY <2>1, RankInduction
  <2> QED
    BY <2>2
<1>2. \A n \in Nat : \E f \in F : Good(f, n)
  <2> DEFINE N == {n \in Nat : \E f \in F : Good(f, n)}
  <2>1. \A n \in Nat : (\A m \in Nat : m < n => m \in N) => n \in N
    <3> SUFFICES ASSUME NEW n \in Nat, \A m \in Nat : m < n => m \in N
                 PROVE  \E f \in F : Good(f, n)
      OBVIOUS
    <3>1. CASE n = 0
      <4>1. PICK v \in V : TRUE
        OBVIOUS
      <4> DEFINE any == [x \in D |-> v]
      <4>2. any \in F
        OBVIOUS
      <4> HIDE DEF any
      <4> QED
        BY <3>1, <4>2
    <3>2. CASE n > 0
      <4>1. n - 1 \in N
        BY <3>2
      <4>2. PICK f \in F : Good(f, n - 1)
        BY <4>1
      <4>3. Phi[f] \in F
        OBVIOUS
      <4>4. ASSUME NEW x \in D, rank[x] < n
            PROVE  Phi[f][x] = Phi[Phi[f]][x]
        <5>1. \A y \in D : rank[y] < rank[x] => f[y] = Phi[f][y]
          BY <4>2, <4>4
        <5> QED
          BY <4>3, <5>1
      <4> QED
        BY <4>3, <4>4
    <3> QED
      BY <3>1, <3>2
  <2>2. \A n \in Nat : n \in N
    <3> HIDE DEF N
    <3> QED
      BY <2>1, SetInduction
  <2> QED
    BY <2>2
<1> DEFINE G(n) == CHOOSE f \in F : Good(f, n)
           h == [x \in D |-> G(rank[x] + 1)[x]]
<1>3. \A n \in Nat : G(n) \in F /\ Good(G(n), n)
  <2> HIDE DEF Good, F
  <2> QED
    BY <1>2
<1> HIDE DEF G
<1>4. h \in F
  BY <1>3
<1>5. ASSUME NEW x \in D
      PROVE  h[x] = Phi[h][x]
  <2>1. rank[x] \in Nat /\ rank[x] + 1 \in Nat
    OBVIOUS
  <2>2. ASSUME NEW y \in D, rank[y] < rank[x]
        PROVE  h[y] = G(rank[x] + 1)[y]
    <3>1. rank[y] + 1 \in Nat /\ rank[y] < rank[y] + 1
      OBVIOUS
    <3>2. Good(G(rank[x] + 1), rank[y] + 1)
      BY <1>3, <2>1, <2>2
    <3> QED
      BY <1>1, <1>3, <2>1, <3>1, <3>2
  <2>3. h[x] = G(rank[x] + 1)[x]
    OBVIOUS
  <2>4. G(rank[x] + 1)[x] = Phi[G(rank[x] + 1)][x] /\ G(rank[x] + 1) \in F
    BY <1>3, <2>1
  <2> QED
    BY <1>4, <2>2, <2>3, <2>4
<1> QED
  <2>1. Phi[h] \in F
    BY <1>4
  <2> HIDE DEF h
  <2>2. h = Phi[h]
    BY <1>4, <1>5, <2>1
  <2> QED
    BY <1>4, <2>2 DEF IsDefined

\* Induction on the length of a text.
LEMMA TextInduction ==
  ASSUME NEW S, <<>> \in S,
         \A t \in Text : (\A u \in Text : Len(u) < Len(t) => u \in S) => t \in S
  PROVE  \A t \in Text : t \in S
<1> DEFINE rank == [t \in Text |-> Len(t)]
<1>1. rank \in [Text -> Nat]
  BY DEF Text
<1>2. \A t \in Text : (\A u \in Text : rank[u] < rank[t] => u \in S) => t \in S
  OBVIOUS
<1> QED
  BY <1>1, <1>2, RankInduction

\* The rest of a text after its first n characters.
Rest(t, n) == SubSeq(t, n + 1, Len(t))

\* Its length and its characters.
LEMMA RestFacts ==
  ASSUME NEW t \in Text, NEW n \in 0 .. Len(t)
  PROVE  /\ Rest(t, n) \in Text
         /\ Len(Rest(t, n)) = Len(t) - n
         /\ \A i \in 1 .. Len(t) - n : Rest(t, n)[i] = t[n + i]
  BY SubSeqProperties DEF Rest, Text

\* What replace does to the texts.
LEMMA ReplaceDef ==
  ASSUME NEW old \in Text, old # <<>>, NEW new \in Text
  PROVE  /\ \A t \in Text : Replace(t, old, new) \in Text
         /\ Replace(<<>>, old, new) = <<>>
         /\ \A t \in Text : t # <<>> /\ Occurs(t, 1, old) =>
              Replace(t, old, new) = new \o Replace(Rest(t, Len(old)), old, new)
         /\ \A t \in Text : t # <<>> /\ ~Occurs(t, 1, old) =>
              Replace(t, old, new) = <<Head(t)>> \o Replace(Tail(t), old, new)
<1> DEFINE Step(f, t) == IF t = <<>> THEN <<>>
                         ELSE IF Occurs(t, 1, old) THEN new \o f[SubSeq(t, Len(old) + 1, Len(t))]
                         ELSE <<Head(t)>> \o f[Tail(t)]
           Phi == [f \in [Text -> Text] |-> [t \in Text |-> Step(f, t)]]
           rank == [t \in Text |-> Len(t)]
<1>1. \A t \in Text : Len(t) \in Nat
  BY DEF Text
<1>2. Len(old) \in Nat \ {0}
  BY DEF Text
<1>3. ASSUME NEW t \in Text, t # <<>>, Occurs(t, 1, old)
      PROVE  Rest(t, Len(old)) \in Text /\ Len(Rest(t, Len(old))) < Len(t)
  <2>1. Len(old) \in 0 .. Len(t)
    BY <1>1, <1>2, <1>3 DEF Occurs
  <2> QED
    BY <1>1, <1>2, <2>1, RestFacts
<1>4. ASSUME NEW t \in Text, t # <<>>
      PROVE  Tail(t) \in Text /\ Len(Tail(t)) < Len(t) /\ <<Head(t)>> \in Text
  BY <1>4 DEF Text
<1>5. ASSUME NEW f, NEW t \in Text, \A u \in Text : Len(u) < Len(t) => f[u] \in Text
      PROVE  Step(f, t) \in Text
  <2>1. CASE t = <<>>
    BY <2>1 DEF Text
  <2>2. CASE t # <<>> /\ Occurs(t, 1, old)
    <3>1. f[Rest(t, Len(old))] \in Text
      BY <1>3, <1>5, <2>2
    <3>2. new \o f[Rest(t, Len(old))] \in Text
      BY <3>1 DEF Text
    <3> QED
      BY <2>2, <3>2 DEF Rest
  <2>3. CASE t # <<>> /\ ~Occurs(t, 1, old)
    <3>1. f[Tail(t)] \in Text
      BY <1>4, <1>5, <2>3
    <3>2. <<Head(t)>> \o f[Tail(t)] \in Text
      BY <3>1, <1>4, <2>3 DEF Text
    <3> QED
      BY <2>3, <3>2
  <2> QED
    BY <2>1, <2>2, <2>3
<1>6. \E f \in [Text -> Text] : f = Phi[f]
  <2>1. Phi \in [[Text -> Text] -> [Text -> Text]]
    BY <1>5
  <2>2. rank \in [Text -> Nat]
    BY <1>1
  <2>3. ASSUME NEW f \in [Text -> Text], NEW g \in [Text -> Text], NEW t \in Text,
               \A u \in Text : rank[u] < rank[t] => f[u] = g[u]
        PROVE  Phi[f][t] = Phi[g][t]
    <3>1. \A u \in Text : Len(u) < Len(t) => f[u] = g[u]
      BY <2>3
    <3>2. Step(f, t) = Step(g, t)
      BY <3>1, <1>3, <1>4 DEF Rest
    <3> HIDE DEF Step
    <3> QED
      BY <3>2
  <2>4. LooksBack(Phi, Text, Text, rank)
    BY <2>1, <2>2, <2>3 DEF LooksBack
  <2>5. Text # {}
    BY DEF Text
  <2>6. IsDefined(Phi, Text, Text)
    BY <2>4, <2>5, RecursionExists
  <2> QED
    BY <2>6 DEF IsDefined
<1> DEFINE R == CHOOSE f : f = [t \in Text |-> Step(f, t)]
<1>7. R = [t \in Text |-> Step(R, t)] /\ R \in [Text -> Text]
  <2>1. PICK f \in [Text -> Text] : f = Phi[f]
    BY <1>6
  <2>2. f = [t \in Text |-> Step(f, t)]
    BY <2>1
  <2>3. R = [t \in Text |-> Step(R, t)]
    <3> HIDE DEF Step
    <3> QED
      BY <2>2
  <2>4. \A t \in Text : R[t] = Step(R, t)
    <3> HIDE DEF Step, R
    <3> QED
      BY <2>3
  <2> DEFINE S == {t \in Text : R[t] \in Text}
  <2>5. \A t \in Text : (\A u \in Text : Len(u) < Len(t) => u \in S) => t \in S
    <3> HIDE DEF Step, R
    <3> QED
      BY <1>5, <2>4
  <2>6. \A t \in Text : t \in S
    <3>1. <<>> \in S
      <4>1. <<>> \in Text
        BY DEF Text
      <4>2. \A u \in Text : ~(Len(u) < Len(<<>>))
        BY <1>1
      <4> HIDE DEF S
      <4> QED
        BY <2>5, <4>1, <4>2
    <3> HIDE DEF S
    <3> QED
      BY <2>5, <3>1, TextInduction
  <2> HIDE DEF R, Step
  <2> QED
    BY <2>3, <2>6
<1>8. \A t \in Text : Replace(t, old, new) = R[t]
  BY DEF Replace
<1> HIDE DEF R
<1>9. \A t \in Text : Replace(t, old, new) \in Text
  BY <1>7, <1>8
<1>10. \A t \in Text : R[t] = Step(R, t)
  <2> HIDE DEF Step
  <2> QED
    BY <1>7
<1>11. <<>> \in Text /\ Replace(<<>>, old, new) = <<>>
  <2>1. <<>> \in Text
    BY DEF Text
  <2> QED
    BY <2>1, <1>8, <1>10
<1>12. ASSUME NEW t \in Text, t # <<>>, Occurs(t, 1, old)
       PROVE  Replace(t, old, new) = new \o Replace(Rest(t, Len(old)), old, new)
  BY <1>3, <1>8, <1>10, <1>12 DEF Rest
<1>13. ASSUME NEW t \in Text, t # <<>>, ~Occurs(t, 1, old)
       PROVE  Replace(t, old, new) = <<Head(t)>> \o Replace(Tail(t), old, new)
  BY <1>4, <1>8, <1>10, <1>13
<1> QED
  BY <1>9, <1>11, <1>12, <1>13

\* The word is in the text at i, character by character.
LEMMA OccursDef ==
  ASSUME NEW s \in Text, NEW word \in Text, NEW i \in Nat, i > 0
  PROVE  Occurs(s, i, word) <=>
           /\ i + Len(word) - 1 <= Len(s)
           /\ \A k \in 1 .. Len(word) : s[i + k - 1] = word[k]
<1> DEFINE part == SubSeq(s, i, i + Len(word) - 1)
<1>1. Len(s) \in Nat /\ Len(word) \in Nat
  BY DEF Text
<1>2. ASSUME i + Len(word) - 1 <= Len(s)
      PROVE  part = word <=> \A k \in 1 .. Len(word) : s[i + k - 1] = word[k]
  <2>1. \A k \in i .. i + Len(word) - 1 : s[k] \in Char
    BY <1>1, <1>2 DEF Text
  <2>2. /\ part \in Seq(Char)
        /\ Len(part) = IF i <= i + Len(word) - 1 THEN i + Len(word) - 1 - i + 1 ELSE 0
        /\ \A k \in 1 .. i + Len(word) - 1 - i + 1 : part[k] = s[i + k - 1]
    <3> HIDE DEF part
    <3>1. i \in Int /\ i + Len(word) - 1 \in Int
      BY <1>1
    <3> QED
      BY <1>1, <2>1, <3>1, SubSeqProperties DEF part
  <2>3. /\ Len(part) = Len(word)
        /\ \A k \in 1 .. Len(word) : part[k] = s[i + k - 1]
    BY <1>1, <2>2
  <2>4. word \in Seq(Char)
    BY DEF Text
  <2> HIDE DEF part
  <2> QED
    BY <2>2, <2>3, <2>4, SeqEqual
<1> QED
  BY <1>2 DEF Occurs

\* Two texts, one after the other.
LEMMA ConcatFacts ==
  ASSUME NEW s \in Text, NEW t \in Text
  PROVE  /\ s \o t \in Text
         /\ Len(s \o t) = Len(s) + Len(t)
         /\ \A i \in 1 .. Len(s) : (s \o t)[i] = s[i]
         /\ \A i \in 1 .. Len(t) : (s \o t)[Len(s) + i] = t[i]
         /\ Len(s) \in Nat /\ Len(t) \in Nat
BY ConcatProperties DEF Text

\* What follows a text is in the two at the same places, moved.
LEMMA OccursAfter ==
  ASSUME NEW s \in Text, NEW t \in Text, NEW word \in Text, NEW i \in Nat, i > 0
  PROVE  Occurs(t, i, word) <=> Occurs(s \o t, Len(s) + i, word)
<1> DEFINE m == Len(s)
           u == s \o t
           j == m + i
<1>1. /\ u \in Text
      /\ Len(u) = m + Len(t)
      /\ \A k \in 1 .. Len(t) : u[m + k] = t[k]
      /\ m \in Nat /\ Len(t) \in Nat
  BY ConcatFacts
<1>2. Len(word) \in Nat
  BY DEF Text
<1> HIDE DEF m, u
<1>3. j \in Nat /\ j > 0
  BY <1>1
<1>4. Occurs(u, j, word) <=>
           /\ j + Len(word) - 1 <= Len(u)
           /\ \A k \in 1 .. Len(word) : u[j + k - 1] = word[k]
  <2> HIDE DEF j
  <2> QED
    BY <1>1, <1>3, OccursDef
<1>5. Occurs(t, i, word) <=>
           /\ i + Len(word) - 1 <= Len(t)
           /\ \A k \in 1 .. Len(word) : t[i + k - 1] = word[k]
  BY OccursDef
<1>6. ASSUME i + Len(word) - 1 <= Len(t), NEW k \in 1 .. Len(word)
      PROVE  u[j + k - 1] = t[i + k - 1]
  <2>1. i + k - 1 \in 1 .. Len(t) /\ m + (i + k - 1) = j + k - 1
    BY <1>1, <1>2, <1>6
  <2> QED
    BY <1>1, <2>1
<1>7. j + Len(word) - 1 <= Len(u) <=> i + Len(word) - 1 <= Len(t)
  BY <1>1, <1>2
<1>8. Occurs(t, i, word) <=> Occurs(u, j, word)
  <2> HIDE DEF j
  <2> QED
    BY <1>4, <1>5, <1>6, <1>7
<1> QED
  BY <1>8 DEF u, m


\* A word in a text comes from one of the two it is made of, or from both.
LEMMA OccursConcat ==
  ASSUME NEW s \in Text, NEW t \in Text, NEW word \in Text, NEW i \in Nat, i > Len(s),
         Occurs(s \o t, i, word)
  PROVE  i - Len(s) \in Nat /\ i - Len(s) > 0 /\ Occurs(t, i - Len(s), word)
<1>1. i - Len(s) \in Nat /\ i - Len(s) > 0 /\ Len(s) + (i - Len(s)) = i
  BY DEF Text
<1> QED
  BY <1>1, OccursAfter

\* Within, over positions.
LEMMA WithinDef ==
  ASSUME NEW s \in Text, NEW word \in Text, word # <<>>
  PROVE  Within(word, s) <=> \E i \in Nat : i > 0 /\ Occurs(s, i, word)
<1>1. DOMAIN s = 1 .. Len(s) /\ Len(s) \in Nat /\ Len(word) \in Nat \ {0}
  BY DEF Text
<1>2. \A i \in Nat : i > 0 /\ Occurs(s, i, word) => i \in 1 .. Len(s)
  BY <1>1 DEF Occurs
<1> QED
  BY <1>1, <1>2 DEF Within

\* A text that begins with another is the other and the rest.
LEMMA Split ==
  ASSUME NEW s \in Text, NEW word \in Text, Occurs(s, 1, word)
  PROVE  /\ Len(word) \in 0 .. Len(s)
         /\ Rest(s, Len(word)) \in Text
         /\ s = word \o Rest(s, Len(word))
<1>1. Len(word) \in 0 .. Len(s) /\ Len(s) \in Nat
  BY DEF Text, Occurs
<1>2. \A k \in 1 .. Len(word) : s[k] = word[k]
  <2>1. \A k \in 1 .. Len(word) : s[1 + k - 1] = word[k]
    BY OccursDef
  <2> QED
    BY <1>1, <2>1
<1> DEFINE r == Rest(s, Len(word))
           u == word \o r
<1>3. /\ r \in Text /\ Len(r) = Len(s) - Len(word)
      /\ \A i \in 1 .. Len(s) - Len(word) : r[i] = s[Len(word) + i]
  BY <1>1, RestFacts
<1> HIDE DEF r
<1>4. /\ u \in Text /\ Len(u) = Len(word) + Len(r)
      /\ \A i \in 1 .. Len(word) : u[i] = word[i]
      /\ \A i \in 1 .. Len(r) : u[Len(word) + i] = r[i]
  BY <1>3, ConcatFacts
<1> HIDE DEF u
<1>5. \A i \in 1 .. Len(s) : u[i] = s[i]
  <2> SUFFICES ASSUME NEW i \in 1 .. Len(s)
               PROVE  u[i] = s[i]
    OBVIOUS
  <2>1. CASE i <= Len(word)
    BY <1>1, <1>2, <1>4, <2>1
  <2>2. CASE i > Len(word)
    <3>1. i - Len(word) \in 1 .. Len(s) - Len(word) /\ Len(word) + (i - Len(word)) = i
      BY <1>1, <2>2
    <3> QED
      BY <1>3, <1>4, <3>1
  <2> QED
    BY <1>1, <2>1, <2>2
<1>6. Len(u) = Len(s)
  BY <1>1, <1>3, <1>4
<1>7. u = s
  BY <1>4, <1>5, <1>6, SeqEqual DEF Text
<1> QED
  BY <1>1, <1>3, <1>7 DEF u, r

\* So is any text its first character and the rest.
LEMMA HeadTail ==
  ASSUME NEW s \in Text, s # <<>>
  PROVE  /\ Head(s) \in Char /\ Head(s) = s[1] /\ <<Head(s)>> \in Text
         /\ Tail(s) \in Text /\ Len(Tail(s)) = Len(s) - 1
         /\ s = <<Head(s)>> \o Tail(s)
         /\ Len(<<Head(s)>>) = 1 /\ <<Head(s)>>[1] = s[1]
<1>1. /\ Head(s) \in Char /\ Head(s) = s[1] /\ <<Head(s)>> \in Text
      /\ Tail(s) \in Text /\ Len(Tail(s)) = Len(s) - 1
  BY DEF Text
<1>2. s = <<Head(s)>> \o Tail(s)
  BY DEF Text
<1> QED
  BY <1>1, <1>2


\* A word begins a text when its first character and its rest do.
LEMMA OccursFirst ==
  ASSUME NEW s \in Text, NEW word \in Text, s # <<>>, word # <<>>
  PROVE  Occurs(s, 1, word) <=> s[1] = word[1] /\ Occurs(Tail(s), 1, Tail(word))
<1>1. /\ Tail(s) \in Text /\ Len(Tail(s)) = Len(s) - 1 /\ Len(s) \in Nat
      /\ \A k \in 1 .. Len(s) - 1 : Tail(s)[k] = s[k + 1]
  BY DEF Text
<1>2. /\ Tail(word) \in Text /\ Len(Tail(word)) = Len(word) - 1
      /\ Len(word) \in Nat /\ Len(word) > 0
      /\ \A k \in 1 .. Len(word) - 1 : Tail(word)[k] = word[k + 1]
  BY DEF Text
<1> DEFINE t == Tail(s)
           w == Tail(word)
<1> HIDE DEF t, w
<1>3. Occurs(t, 1, w) <=> /\ 1 + Len(w) - 1 <= Len(t)
                          /\ \A k \in 1 .. Len(w) : t[1 + k - 1] = w[k]
  <2>1. t \in Text /\ w \in Text
    BY <1>1, <1>2 DEF t, w
  <2> QED
    BY <2>1, OccursDef
<1>4. Occurs(s, 1, word) <=> /\ 1 + Len(word) - 1 <= Len(s)
                             /\ \A k \in 1 .. Len(word) : s[1 + k - 1] = word[k]
  BY OccursDef
<1>5. Occurs(t, 1, w) <=> /\ Len(word) <= Len(s)
                          /\ \A k \in 1 .. Len(word) - 1 : s[k + 1] = word[k + 1]
  BY <1>1, <1>2, <1>3 DEF t, w
<1>6. Occurs(s, 1, word) <=> /\ Len(word) <= Len(s)
                             /\ \A k \in 1 .. Len(word) : s[k] = word[k]
  BY <1>1, <1>2, <1>4
<1>7. (\A k \in 1 .. Len(word) : s[k] = word[k]) <=>
        s[1] = word[1] /\ \A k \in 1 .. Len(word) - 1 : s[k + 1] = word[k + 1]
  <2>1. ASSUME s[1] = word[1], \A k \in 1 .. Len(word) - 1 : s[k + 1] = word[k + 1],
               NEW k \in 1 .. Len(word)
        PROVE  s[k] = word[k]
    <3>1. CASE k = 1
      BY <2>1, <3>1
    <3>2. CASE k # 1
      <4>1. k - 1 \in 1 .. Len(word) - 1 /\ (k - 1) + 1 = k
        BY <1>2, <3>2
      <4> QED
        BY <2>1, <4>1
    <3> QED
      BY <3>1, <3>2
  <2>2. ASSUME \A k \in 1 .. Len(word) : s[k] = word[k], NEW k \in 1 .. Len(word) - 1
        PROVE  s[k + 1] = word[k + 1]
    BY <1>2, <2>2
  <2>3. 1 \in 1 .. Len(word)
    BY <1>2
  <2> QED
    BY <2>1, <2>2, <2>3
<1> QED
  BY <1>5, <1>6, <1>7 DEF t, w

-----------------------------------------------------------------------------
\* The words that begin with a letter and go on with numerals: the addresses
\* and the tokens.
Lettered(c) == {w \in Text : /\ Len(w) >= 2 /\ w[1] = c
                             /\ \A k \in 2 .. Len(w) : w[k] \in Numeral}
Address == Lettered("h")
TokenText == Lettered("T") \cup Lettered("P")

\* The numbers, and all that the extractor finds.
Number == {w \in Text : w # <<>> /\ \A k \in 1 .. Len(w) : w[k] \in Numeral}
RealValue == Address \cup Number

\* The words of which no character but the first is a letter.
Word == {w \in Text : w # <<>> /\ \A k \in 2 .. Len(w) : w[k] \in Numeral}

\* A value has no label in it, and a token no address.
LEMMA LetteredFacts ==
  /\ Numeral \subseteq Char /\ "h" \in Char /\ Labels \subseteq Char
  /\ "h" \notin Numeral /\ "h" \notin Labels /\ \A c \in Labels : c \notin Numeral
  /\ "." \notin Numeral /\ " " \notin Numeral /\ ":" \notin Numeral
  /\ \A v \in RealValue : /\ v \in Text /\ v # <<>> /\ v \in Word
                          /\ \A k \in 1 .. Len(v) : v[k] \notin Labels
  /\ \A t \in TokenText : /\ t \in Text /\ t # <<>> /\ t \in Word /\ t[1] \in Labels
                          /\ \A k \in 1 .. Len(t) : t[k] # "h"
<1>1. /\ Numeral \subseteq Char /\ "h" \in Char /\ Labels \subseteq Char
      /\ "h" \notin Numeral /\ "h" \notin Labels /\ \A c \in Labels : c \notin Numeral
      /\ "." \notin Numeral /\ " " \notin Numeral /\ ":" \notin Numeral
  BY NumeralsAssumption DEF Char, AddressChar, Labels
<1>2. ASSUME NEW c, NEW d, c # d, d \notin Numeral, NEW w \in Lettered(c)
      PROVE  w \in Text /\ w # <<>> /\ w \in Word /\ \A k \in 1 .. Len(w) : w[k] # d
  BY <1>2 DEF Lettered, Text, Word
<1>3. ASSUME NEW v \in Address
      PROVE  v \in Text /\ v # <<>> /\ v \in Word /\ \A k \in 1 .. Len(v) : v[k] \notin Labels
  BY <1>1, <1>2 DEF Address, Labels
<1>4. ASSUME NEW v \in Number
      PROVE  v \in Text /\ v # <<>> /\ v \in Word /\ \A k \in 1 .. Len(v) : v[k] \notin Labels
  <2>1. v \in Text /\ v # <<>> /\ Len(v) \in Nat /\ \A k \in 1 .. Len(v) : v[k] \in Numeral
    BY DEF Number, Text
  <2>2. v \in Word
    BY <2>1 DEF Word
  <2> QED
    BY <1>1, <2>1, <2>2
<1>5. ASSUME NEW v \in TokenText
      PROVE  /\ v \in Text /\ v # <<>> /\ v \in Word /\ v[1] \in Labels
             /\ \A k \in 1 .. Len(v) : v[k] # "h"
  <2>1. PICK c \in Labels : v \in Lettered(c)
    BY DEF TokenText, Labels
  <2>2. v[1] = c
    BY <2>1 DEF Lettered
  <2> QED
    BY <1>1, <1>2, <2>1, <2>2
<1> QED
  BY <1>1, <1>3, <1>4, <1>5 DEF RealValue

\* The label of a value is that of its first character.
LEMMA LabelFacts ==
  ASSUME NEW v \in RealValue
  PROVE  /\ LabelOf(v) \in Labels
         /\ v \in Address <=> LabelOf(v) = "T"
<1>1. CASE v \in Address
  BY <1>1 DEF LabelOf, Labels, Address, Lettered
<1>2. CASE v \in Number
  <2>1. v[1] \in Numeral /\ v[1] # "h"
    <3>1. 1 \in 1 .. Len(v)
      BY <1>2 DEF Number, Text
    <3>2. \A k \in 1 .. Len(v) : v[k] \in Numeral
      BY <1>2 DEF Number
    <3> QED
      BY <3>1, <3>2, LetteredFacts
  <2> QED
    BY <2>1 DEF LabelOf, Labels, Address, Lettered
<1> QED
  BY <1>1, <1>2 DEF RealValue

\* All of such a word but its letter is numerals.
LEMMA TailOfLettered ==
  ASSUME NEW c, NEW w \in Lettered(c)
  PROVE  Tail(w) \in Seq(Numeral)
<1>1. w \in Seq(Char) /\ Len(w) >= 2 /\ \A k \in 2 .. Len(w) : w[k] \in Numeral
  BY DEF Lettered, Text
<1> DEFINE t == Tail(w)
<1>2. /\ t \in Seq(Char) /\ Len(t) = Len(w) - 1 /\ Len(w) \in Nat
      /\ \A k \in 1 .. Len(w) - 1 : t[k] = w[k + 1]
  BY <1>1
<1> HIDE DEF t
<1>3. \A k \in 1 .. Len(t) : t[k] \in Numeral
  <2>1. \A k \in 1 .. Len(t) : k + 1 \in 2 .. Len(w) /\ t[k] = w[k + 1]
    BY <1>2
  <2> QED
    BY <1>1, <2>1
<1>4. t \in Seq(Numeral)
  BY <1>2, <1>3, SeqDef
<1> QED
  BY <1>4 DEF t

\* The numerals at the beginning of what a replacement makes were there.
LEMMA NumeralsStay ==
  ASSUME NEW old \in Text, old # <<>>, NEW new \in Text, new # <<>>, new[1] \notin Numeral
  PROVE  \A s \in Text : \A d \in Seq(Numeral) :
           Occurs(Replace(s, old, new), 1, d) => Occurs(s, 1, d)
<1> DEFINE S == {s \in Text : \A d \in Seq(Numeral) :
                   Occurs(Replace(s, old, new), 1, d) => Occurs(s, 1, d)}
<1>1. ASSUME NEW s \in Text, \A u \in Text : Len(u) < Len(s) => u \in S, s # <<>>,
             NEW d \in Seq(Numeral), Occurs(Replace(s, old, new), 1, d), d # <<>>
      PROVE  Occurs(s, 1, d)
  <2>1. d \in Text /\ Len(d) \in Nat /\ Len(d) > 0 /\ Len(s) \in Nat
    <3>1. d \in Text
      BY LetteredFacts, SeqMonotonic DEF Text
    <3> QED
      BY <1>1, <3>1 DEF Text
  <2>2. Replace(s, old, new) \in Text
    BY ReplaceDef
  <2>3. Replace(s, old, new)[1] = d[1]
    <3>1. \A k \in 1 .. Len(d) : Replace(s, old, new)[1 + k - 1] = d[k]
      BY <1>1, <2>1, <2>2, OccursDef
    <3> QED
      BY <2>1, <3>1
  <2>4. d[1] \in Numeral
    BY <2>1
  <2>5. CASE Occurs(s, 1, old)
    <3>1. Replace(s, old, new) = new \o Replace(Rest(s, Len(old)), old, new)
      BY <1>1, <2>5, ReplaceDef
    <3>2. Replace(Rest(s, Len(old)), old, new) \in Text
      BY <2>5, Split, ReplaceDef
    <3>3. Len(new) \in Nat /\ 1 <= Len(new)
      BY DEF Text
    <3>4. Replace(s, old, new)[1] = new[1]
      BY <3>1, <3>2, <3>3, ConcatFacts
    <3> QED
      BY <2>3, <2>4, <3>4
  <2>6. CASE ~Occurs(s, 1, old)
    <3> DEFINE r == Replace(Tail(s), old, new)
               u == Replace(s, old, new)
    <3>1. Tail(s) \in Text /\ Len(Tail(s)) < Len(s) /\ Head(s) = s[1] /\ <<Head(s)>> \in Text
      BY <1>1, <2>1, HeadTail
    <3>2. r \in Text
      BY <3>1, ReplaceDef
    <3>3. u = <<Head(s)>> \o r
      BY <1>1, <2>6, ReplaceDef
    <3> HIDE DEF r, u
    <3>4. u[1] = s[1] /\ Tail(u) = r /\ u # <<>> /\ u \in Text
      BY <3>1, <3>2, <3>3 DEF Text
    <3>5. s[1] = d[1] /\ Occurs(r, 1, Tail(d))
      BY <1>1, <2>1, <3>4, OccursFirst DEF u
    <3>6. Tail(d) \in Seq(Numeral)
      BY <1>1
    <3>7. Occurs(Tail(s), 1, Tail(d))
      BY <1>1, <3>1, <3>5, <3>6 DEF r
    <3> QED
      BY <1>1, <2>1, <3>5, <3>7, OccursFirst
  <2> QED
    BY <2>5, <2>6
<1>2. ASSUME NEW s \in Text, \A u \in Text : Len(u) < Len(s) => u \in S
      PROVE  s \in S
  <2>1. CASE s = <<>>
    BY <2>1, ReplaceDef
  <2>2. ASSUME NEW d \in Seq(Numeral), d = <<>>
        PROVE  Occurs(s, 1, d)
    <3>1. d \in Text /\ Len(d) = 0 /\ Len(s) \in Nat
      BY <2>2 DEF Text
    <3> QED
      BY <3>1, OccursDef
  <2> QED
    BY <1>1, <1>2, <2>1, <2>2
<1>3. <<>> \in S
  BY ReplaceDef DEF Text
<1>4. \A s \in Text : s \in S
  <2> HIDE DEF S
  <2> QED
    BY <1>2, <1>3, TextInduction
<1> QED
  BY <1>4


\* Replacing a word by a token hides it, and makes no address appear.
LEMMA ReplaceHides ==
  ASSUME NEW old \in Text, old # <<>>, NEW new \in TokenText, NEW word \in Address
  PROVE  \A s \in Text : Within(word, Replace(s, old, new)) => Within(word, s) /\ word # old
<1> DEFINE S == {s \in Text :
                   Within(word, Replace(s, old, new)) => Within(word, s) /\ word # old}
<1>1. /\ word \in Text /\ word # <<>>
      /\ new \in Text /\ new # <<>> /\ \A k \in 1 .. Len(new) : new[k] # "h"
  BY LetteredFacts DEF RealValue
<1>2. /\ word[1] = "h" /\ new[1] \notin Numeral
      /\ Len(word) \in Nat /\ Len(word) >= 2 /\ Tail(word) \in Seq(Numeral)
  <2>1. word \in Lettered("h")
    BY DEF Address
  <2>2. word[1] = "h" /\ Len(word) \in Nat /\ Len(word) >= 2
    BY <2>1, <1>1 DEF Lettered, Text
  <2>3. Tail(word) \in Seq(Numeral)
    BY <2>1, TailOfLettered
  <2> QED
    BY <2>2, <2>3, LetteredFacts
<1>3. ASSUME NEW s \in Text, \A u \in Text : Len(u) < Len(s) => u \in S, s # <<>>,
             Within(word, Replace(s, old, new))
      PROVE  Within(word, s) /\ word # old
  <2> DEFINE u == Replace(s, old, new)
  <2>1. u \in Text /\ Len(s) \in Nat /\ Len(old) \in Nat /\ Len(old) > 0 /\ Len(new) \in Nat
    BY <1>1, ReplaceDef DEF Text
  <2>2. PICK i \in Nat : i > 0 /\ Occurs(u, i, word)
    BY <1>1, <1>3, <2>1, WithinDef
  <2>3. u[i] = "h"
    <3>1. \A k \in 1 .. Len(word) : u[i + k - 1] = word[k]
      BY <1>1, <2>1, <2>2, OccursDef
    <3> QED
      BY <1>2, <3>1
  <2>4. ASSUME NEW t \in Text, NEW r \in Text, s = t \o r, Len(t) > 0,
               NEW v \in Text, u = v \o Replace(r, old, new), i > Len(v)
        PROVE  Within(word, s) /\ word # old
    <3> DEFINE w == Replace(r, old, new)
    <3>1. w \in Text
      BY <1>1, ReplaceDef
    <3> HIDE DEF w
    <3>2. i - Len(v) \in Nat /\ i - Len(v) > 0 /\ Occurs(w, i - Len(v), word)
      BY <1>1, <2>2, <2>4, <3>1, OccursConcat DEF w
    <3>3. Within(word, w)
      BY <1>1, <3>1, <3>2, WithinDef
    <3>4. Len(r) < Len(s)
      BY <2>4, ConcatFacts
    <3>5. Within(word, r) /\ word # old
      BY <1>3, <3>3, <3>4 DEF w
    <3>6. PICK j \in Nat : j > 0 /\ Occurs(r, j, word)
      BY <1>1, <3>5, WithinDef
    <3>7. Occurs(s, Len(t) + j, word)
      BY <1>1, <2>4, <3>6, OccursAfter
    <3>8. Len(t) + j \in Nat /\ Len(t) + j > 0
      BY <3>6, ConcatFacts
    <3> QED
      BY <1>1, <3>5, <3>7, <3>8, WithinDef
  <2>5. CASE Occurs(s, 1, old)
    <3> DEFINE r == Rest(s, Len(old))
               w == Replace(r, old, new)
    <3>1. r \in Text /\ s = old \o r /\ w \in Text
      BY <1>1, <2>5, Split, ReplaceDef
    <3>2. u = new \o w
      BY <1>1, <1>3, <2>5, ReplaceDef
    <3>3. i > Len(new)
      <4> SUFFICES ASSUME i \in 1 .. Len(new)
                   PROVE  FALSE
        BY <2>1, <2>2
      <4>1. u[i] = new[i]
        BY <1>1, <3>1, <3>2, ConcatFacts
      <4> QED
        BY <1>1, <2>3, <4>1
    <3> HIDE DEF r, u
    <3> QED
      BY <1>1, <2>1, <2>4, <3>1, <3>2, <3>3
  <2>6. CASE ~Occurs(s, 1, old)
    <3> DEFINE c == <<Head(s)>>
               r == Tail(s)
               w == Replace(r, old, new)
    <3>1. r \in Text /\ c \in Text /\ s = c \o r /\ w \in Text /\ Len(c) = 1 /\ c[1] = s[1]
      BY <1>1, <1>3, HeadTail, ReplaceDef
    <3>2. u = c \o w
      BY <1>1, <1>3, <2>6, ReplaceDef
    <3>3. u # <<>> /\ Tail(u) = w /\ u[1] = s[1]
      BY <3>1, <3>2 DEF Text
    <3>4. CASE i > 1
      <4>1. Len(c) > 0 /\ i > Len(c)
        BY <3>1, <3>4
      <4> HIDE DEF r, u, c
      <4> QED
        BY <2>4, <3>1, <3>2, <4>1
    <3>5. CASE i = 1
      <4> HIDE DEF u, w
      <4>1. s[1] = word[1] /\ Occurs(w, 1, Tail(word))
        BY <1>1, <2>1, <2>2, <3>3, <3>5, OccursFirst
      <4>2. Occurs(r, 1, Tail(word))
        BY <1>1, <1>2, <3>1, <4>1, NumeralsStay DEF w
      <4>3. Occurs(s, 1, word)
        BY <1>1, <1>3, <4>1, <4>2, OccursFirst
      <4> QED
        BY <1>1, <2>6, <4>3, WithinDef
    <3> QED
      BY <2>2, <3>4, <3>5
  <2> QED
    BY <2>5, <2>6
<1>4. <<>> \in S
  BY <1>1, ReplaceDef DEF Text, Within
<1>5. \A s \in Text : s \in S
  <2>1. \A s \in Text : (\A u \in Text : Len(u) < Len(s) => u \in S) => s \in S
    BY <1>3, <1>4
  <2> HIDE DEF S
  <2> QED
    BY <1>4, <2>1, TextInduction
<1> QED
  BY <1>5

\* A text without the word stays as it is.
LEMMA ReplaceAbsent ==
  ASSUME NEW old \in Text, old # <<>>, NEW new \in Text
  PROVE  \A s \in Text : ~Within(old, s) => Replace(s, old, new) = s
<1> DEFINE S == {s \in Text : ~Within(old, s) => Replace(s, old, new) = s}
<1>1. ASSUME NEW s \in Text, \A u \in Text : Len(u) < Len(s) => u \in S, s # <<>>,
             ~Within(old, s)
      PROVE  Replace(s, old, new) = s
  <2> DEFINE c == <<Head(s)>>
             r == Tail(s)
  <2>1. r \in Text /\ c \in Text /\ s = c \o r /\ Len(c) = 1 /\ Len(r) < Len(s)
    <3>1. Len(s) \in Nat
      BY DEF Text
    <3> QED
      BY <1>1, <3>1, HeadTail
  <2>2. ~Occurs(s, 1, old)
    BY <1>1, WithinDef
  <2>3. Replace(s, old, new) = c \o Replace(r, old, new)
    BY <1>1, <2>2, ReplaceDef
  <2> HIDE DEF c, r
  <2>4. ~Within(old, r)
    <3> SUFFICES ASSUME NEW i \in Nat, i > 0, Occurs(r, i, old)
                 PROVE  FALSE
      BY <2>1, WithinDef
    <3>1. Occurs(s, 1 + i, old)
      BY <2>1, OccursAfter
    <3> QED
      BY <1>1, <3>1, WithinDef
  <2> QED
    BY <1>1, <2>1, <2>3, <2>4
<1>2. <<>> \in S
  BY ReplaceDef DEF Text
<1>3. \A s \in Text : s \in S
  <2>1. \A s \in Text : (\A u \in Text : Len(u) < Len(s) => u \in S) => s \in S
    BY <1>1, <1>2
  <2> HIDE DEF S
  <2> QED
    BY <1>2, <2>1, TextInduction
<1> QED
  BY <1>3

\* The word itself becomes the other.
LEMMA ReplaceWhole ==
  ASSUME NEW old \in Text, old # <<>>, NEW new \in Text
  PROVE  Replace(old, old, new) = new
<1>1. Len(old) \in Nat /\ Len(old) > 0
  BY DEF Text
<1>2. Occurs(old, 1, old)
  BY <1>1, OccursDef
<1>3. Rest(old, Len(old)) = <<>>
  BY <1>1, SubSeqEmpty DEF Rest
<1>4. Replace(old, old, new) = new \o Replace(<<>>, old, new)
  BY <1>2, <1>3, ReplaceDef
<1>5. Replace(<<>>, old, new) = <<>>
  BY ReplaceDef
<1> QED
  BY <1>4, <1>5, ConcatEmptySeq DEF Text

-----------------------------------------------------------------------------
\* An order of replacement of a set of words.
IsOrder(order, words) ==
  /\ order \in Seq(words)
  /\ \A w \in words : \E k \in 1 .. Len(order) : order[k] = w
  /\ \A i, j \in 1 .. Len(order) : i < j => /\ order[i] # order[j]
                                            /\ Length(order[i]) >= Length(order[j])

\* A length is a number.
LEMMA LengthFacts ==
  ASSUME NEW v \in Text, v # <<>>
  PROVE  Length(v) \in Nat /\ Length(v) >= Len(v) /\ Len(v) \in Nat
<1>1. Len(v) \in Nat
  BY DEF Text
<1>2. Extra(v[1]) \in Nat
  BY DEF Extra
<1> QED
  BY <1>1, <1>2 DEF Length

\* The order of replacement has every word once, and none before a longer one.
LEMMA LongestFirstFacts ==
  ASSUME NEW words \in SUBSET (Text \ {<<>>}), IsFiniteSet(words), NEW rank,
         \A v \in words : rank[v] \in Nat,
         \A v, w \in words : Length(v) = Length(w) /\ rank[v] = rank[w] => v = w
  PROVE  IsOrder(LongestFirst(words, rank), words)
<1> DEFINE Before(v, w) == \/ Length(v) > Length(w)
                           \/ Length(v) = Length(w) /\ rank[v] < rank[w]
           below(w) == {v \in words : Before(v, w)}
           n == Cardinality(words)
           pos == [w \in words |-> Cardinality(below(w)) + 1]
           order == [k \in 1 .. n |-> CHOOSE w \in words : Cardinality(below(w)) = k - 1]
<1>1. LongestFirst(words, rank) = order
  BY DEF LongestFirst, Sorted
<1>2. /\ \A v \in words : Length(v) \in Nat
      /\ \A v \in words : ~Before(v, v)
      /\ \A v, w \in words : v # w => Before(v, w) \/ Before(w, v)
      /\ \A u, v, w \in words : Before(u, v) /\ Before(v, w) => Before(u, w)
  <2>1. \A v \in words : Length(v) \in Nat
    BY LengthFacts
  <2> QED
    BY <2>1
<1>3. n \in Nat
  BY FS_CardinalityType
<1>4. \A w \in words : /\ IsFiniteSet(below(w)) /\ Cardinality(below(w)) \in Nat
                       /\ Cardinality(below(w)) < n
  <2> SUFFICES ASSUME NEW w \in words
               PROVE  /\ IsFiniteSet(below(w)) /\ Cardinality(below(w)) \in Nat
                      /\ Cardinality(below(w)) < n
    OBVIOUS
  <2>1. below(w) \in SUBSET words /\ below(w) # words
    BY <1>2
  <2> HIDE DEF below
  <2>2. /\ IsFiniteSet(below(w)) /\ Cardinality(below(w)) <= n /\ Cardinality(below(w)) # n
    BY <2>1, FS_Subset
  <2> QED
    BY <1>3, <2>2, FS_CardinalityType
<1>5. \A v, w \in words : Before(v, w) => Cardinality(below(v)) < Cardinality(below(w))
  <2> SUFFICES ASSUME NEW v \in words, NEW w \in words, Before(v, w)
               PROVE  Cardinality(below(v)) < Cardinality(below(w))
    OBVIOUS
  <2>1. below(v) \in SUBSET below(w)
    BY <1>2
  <2>2. v \in below(w) /\ v \notin below(v)
    BY <1>2
  <2> HIDE DEF below
  <2>3. Cardinality(below(v)) <= Cardinality(below(w)) /\ Cardinality(below(v)) # Cardinality(below(w))
    BY <1>4, <2>1, <2>2, FS_Subset
  <2> QED
    BY <1>4, <2>3
<1> HIDE DEF below, Before, n
<1>6. pos \in Injection(words, 1 .. n)
  <2>1. pos \in [words -> 1 .. n]
    BY <1>3, <1>4
  <2>2. ASSUME NEW v \in words, NEW w \in words, pos[v] = pos[w]
        PROVE  v = w
    BY <1>2, <1>4, <1>5, <2>2
  <2> HIDE DEF pos
  <2> QED
    BY <2>1, <2>2 DEF Injection, IsInjective
<1>7. pos \in Surjection(words, 1 .. n)
  <2>1. IsFiniteSet(1 .. n) /\ Cardinality(1 .. n) = n
    BY <1>3, FS_Interval
  <2>2. Cardinality(words) = Cardinality(1 .. n)
    BY <2>1 DEF n
  <2> HIDE DEF pos
  <2> QED
    BY <1>6, <2>1, <2>2, FS_Injection
<1>8. \A k \in 1 .. n : order[k] \in words /\ Cardinality(below(order[k])) = k - 1
  <2> SUFFICES ASSUME NEW k \in 1 .. n
               PROVE  order[k] \in words /\ Cardinality(below(order[k])) = k - 1
    OBVIOUS
  <2>1. PICK w \in words : pos[w] = k
    BY <1>7 DEF Surjection
  <2>2. Cardinality(below(w)) = k - 1
    BY <1>4, <2>1
  <2>3. order[k] = CHOOSE x \in words : Cardinality(below(x)) = k - 1
    OBVIOUS
  <2> HIDE DEF order
  <2> QED
    BY <2>2, <2>3
<1>9. order \in Seq(words) /\ Len(order) = n
  <2>1. order \in [1 .. n -> words]
    BY <1>8
  <2> HIDE DEF order
  <2> QED
    BY <1>3, <2>1
<1> HIDE DEF order
<1>10. \A w \in words : \E k \in 1 .. n : order[k] = w
  <2> SUFFICES ASSUME NEW w \in words
               PROVE  \E k \in 1 .. n : order[k] = w
    OBVIOUS
  <2> DEFINE k == Cardinality(below(w)) + 1
  <2>1. k \in 1 .. n /\ Cardinality(below(w)) = k - 1
    BY <1>3, <1>4
  <2>2. order[k] \in words /\ Cardinality(below(order[k])) = Cardinality(below(w))
    BY <1>8, <2>1
  <2>3. order[k] = w
    <3> HIDE DEF k
    <3> QED
      BY <1>2, <1>4, <1>5, <2>2
  <2> QED
    BY <2>1, <2>3
<1>11. ASSUME NEW i \in 1 .. n, NEW j \in 1 .. n, i < j
       PROVE  order[i] # order[j] /\ Length(order[i]) >= Length(order[j])
  <2>1. /\ order[i] \in words /\ Cardinality(below(order[i])) = i - 1
        /\ order[j] \in words /\ Cardinality(below(order[j])) = j - 1
    BY <1>8
  <2>2. order[i] # order[j]
    BY <1>3, <1>11, <2>1
  <2>3. ~Before(order[j], order[i])
    BY <1>3, <1>5, <1>11, <2>1
  <2>4. Before(order[i], order[j])
    BY <1>2, <2>1, <2>2, <2>3
  <2> QED
    BY <1>2, <2>1, <2>2, <2>4 DEF Before
<1> QED
  BY <1>1, <1>9, <1>10, <1>11 DEF IsOrder

-----------------------------------------------------------------------------
\* Division by the number of numerals.
LEMMA Division ==
  ASSUME NEW b \in Nat, b >= 2, NEW k \in Nat
  PROVE  /\ k \div b \in Nat /\ k % b \in 0 .. b - 1
         /\ k = b * (k \div b) + (k % b)
         /\ k >= b => k \div b < k
<1>1. k \div b \in Nat /\ k % b \in 0 .. b - 1 /\ k = b * (k \div b) + (k % b)
  OBVIOUS
<1>2. ASSUME NEW q \in Nat, NEW r \in Nat, k = b * q + r, q >= k, k >= b
      PROVE  FALSE
  <2>1. b * q >= 2 * q
    BY <1>2
  <2> QED
    BY <1>2, <2>1
<1> QED
  BY <1>1, <1>2

\* A label and a number are one token, and two of them are two.
LEMMA TokenFacts ==
  /\ \A label \in Labels : \A n \in Nat :
       Token(label, n) \in TokenText /\ Token(label, n)[1] = label
  /\ \A k, label \in Labels : \A m, n \in Nat :
       Token(k, m) = Token(label, n) => k = label /\ m = n
<1> DEFINE base == Len(Numerals)
           front(k) == k \div base
           last(k) == k % base
           Step(f, k) == IF k < base THEN <<Numerals[k + 1]>>
                         ELSE f[front(k)] \o <<Numerals[last(k) + 1]>>
           V == Seq(Numeral)
           Phi == [f \in [Nat -> V] |-> [k \in Nat |-> Step(f, k)]]
           rank == [k \in Nat |-> k]
<1>1. /\ base \in Nat /\ base >= 2 /\ DOMAIN Numerals = 1 .. base
      /\ \A i \in 1 .. base : Numerals[i] \in Numeral
      /\ \A i, j \in 1 .. base : Numerals[i] = Numerals[j] => i = j
  <2>1. base \in Nat /\ base >= 2 /\ DOMAIN Numerals = 1 .. base
    BY NumeralsAssumption, LenProperties
  <2> HIDE DEF base
  <2> QED
    BY <2>1, NumeralsAssumption DEF Numeral
<1> HIDE DEF base
<1>2. \A k \in Nat : /\ front(k) \in Nat /\ last(k) \in 0 .. base - 1
                     /\ (k >= base => front(k) < k)
                     /\ k = base * front(k) + last(k)
  BY <1>1, Division
<1> HIDE DEF front, last
<1>b. base \in Nat /\ base >= 2
  BY <1>1
<1>n. \A i \in 1 .. base : Numerals[i] \in Numeral
  BY <1>1
<1>i. \A i, j \in 1 .. base : Numerals[i] = Numerals[j] => i = j
  BY <1>1
<1>f. \A k \in Nat : front(k) \in Nat /\ (k >= base => front(k) < k)
  BY <1>2
<1>l. \A k \in Nat : last(k) + 1 \in 1 .. base
  <2>1. \A k \in Nat : last(k) \in 0 .. base - 1
    BY <1>2
  <2> QED
    BY <1>b, <2>1
<1>s. \A k \in Nat : k < base => k + 1 \in 1 .. base
  BY <1>b
<1>3. \A k \in Nat : /\ k < base => <<Numerals[k + 1]>> \in V
                     /\ <<Numerals[last(k) + 1]>> \in V
  BY <1>n, <1>l, <1>s
<1>4. ASSUME NEW f, NEW k \in Nat, \A m \in Nat : m < k => f[m] \in V
      PROVE  Step(f, k) \in V
  <2>1. CASE k < base
    BY <1>3, <2>1
  <2>2. CASE ~(k < base)
    <3>1. f[front(k)] \in V
      BY <1>b, <1>f, <1>4, <2>2
    <3> QED
      BY <1>3, <2>2, <3>1
  <2> QED
    BY <2>1, <2>2
<1>5. IsDefined(Phi, Nat, V)
  <2>1. Phi \in [[Nat -> V] -> [Nat -> V]]
    BY <1>4
  <2>2. rank \in [Nat -> Nat]
    OBVIOUS
  <2>3. ASSUME NEW f \in [Nat -> V], NEW g \in [Nat -> V], NEW k \in Nat,
               \A m \in Nat : rank[m] < rank[k] => f[m] = g[m]
        PROVE  Phi[f][k] = Phi[g][k]
    <3>1. \A m \in Nat : m < k => f[m] = g[m]
      BY <2>3
    <3>2. Step(f, k) = Step(g, k)
      BY <3>1, <1>b, <1>f
    <3> HIDE DEF Step
    <3> QED
      BY <3>2
  <2>4. LooksBack(Phi, Nat, V, rank)
    <3> HIDE DEF Phi, rank, V
    <3> QED
      BY <2>1, <2>2, <2>3 DEF LooksBack
  <2>5. <<>> \in V
    OBVIOUS
  <2> HIDE DEF V, Phi, rank
  <2> QED
    BY <2>4, <2>5, RecursionExists
<1> DEFINE digits == CHOOSE f : f = [k \in Nat |-> Step(f, k)]
<1>6. /\ \A k \in Nat : digits[k] = Step(digits, k)
      /\ \A k \in Nat : digits[k] \in V
  <2>1. PICK f \in [Nat -> V] : f = Phi[f]
    BY <1>5 DEF IsDefined
  <2>2. f = [k \in Nat |-> Step(f, k)]
    BY <2>1
  <2>3. digits = [k \in Nat |-> Step(digits, k)]
    <3> HIDE DEF Step
    <3> QED
      BY <2>2
  <2>4. \A k \in Nat : digits[k] = Step(digits, k)
    <3> HIDE DEF Step, digits
    <3> QED
      BY <2>3
  <2> DEFINE S == {k \in Nat : digits[k] \in V}
  <2>5. \A k \in Nat : (\A m \in Nat : m < k => m \in S) => k \in S
    <3> HIDE DEF Step, digits
    <3> QED
      BY <1>4, <2>4
  <2>6. \A k \in Nat : k \in S
    <3> HIDE DEF S
    <3> QED
      BY <2>5, SetInduction
  <2> HIDE DEF Step, digits
  <2> QED
    BY <2>4, <2>6
<1>7. \A label : \A n \in Nat : Token(label, n) = <<label>> \o digits[n]
  BY DEF Token, base, front, last
<1> HIDE DEF digits
<1>8. ASSUME NEW k \in Nat, k < base
      PROVE  digits[k] = <<Numerals[k + 1]>> /\ Len(digits[k]) = 1
  <2>1. digits[k] = Step(digits, k)
    <3> HIDE DEF Step
    <3> QED
      BY <1>6
  <2> QED
    BY <1>8, <2>1
<1>9. ASSUME NEW k \in Nat, k >= base
      PROVE  /\ digits[k] = Append(digits[front(k)], Numerals[last(k) + 1])
             /\ Len(digits[k]) = Len(digits[front(k)]) + 1
  <2>1. digits[k] = digits[front(k)] \o <<Numerals[last(k) + 1]>>
    <3>1. digits[k] = Step(digits, k)
      <4> HIDE DEF Step
      <4> QED
        BY <1>6
    <3> QED
      BY <1>b, <1>9, <3>1
  <2>2. digits[front(k)] \in V /\ Numerals[last(k) + 1] \in Numeral
    BY <1>n, <1>l, <1>f, <1>6
  <2> QED
    BY <2>1, <2>2
<1>10. \A k \in Nat : Len(digits[k]) \in Nat /\ Len(digits[k]) > 0
  <2> DEFINE S == {k \in Nat : Len(digits[k]) > 0}
  <2>1. \A k \in Nat : Len(digits[k]) \in Nat
    BY <1>6
  <2>2. \A k \in Nat : (\A m \in Nat : m < k => m \in S) => k \in S
    <3> SUFFICES ASSUME NEW k \in Nat
                 PROVE  Len(digits[k]) > 0
      OBVIOUS
    <3>1. CASE k < base
      BY <1>8, <3>1
    <3>2. CASE k >= base
      BY <1>f, <1>9, <2>1, <3>2
    <3> QED
      BY <1>1, <3>1, <3>2
  <2>3. \A k \in Nat : k \in S
    <3> HIDE DEF S
    <3> QED
      BY <2>2, SetInduction
  <2> QED
    BY <2>1, <2>3
<1>11. \A m, n \in Nat : digits[m] = digits[n] => m = n
  <2> DEFINE S == {n \in Nat : \A m \in Nat : digits[m] = digits[n] => m = n}
  <2>1. ASSUME NEW n \in Nat, \A m \in Nat : m < n => m \in S,
               NEW m \in Nat, digits[m] = digits[n]
        PROVE  m = n
    <3>1. CASE n < base
      <4>1. m < base
        <5> SUFFICES ASSUME m >= base
                     PROVE  FALSE
          BY <1>1
        <5>1. Len(digits[front(m)]) \in Nat /\ Len(digits[front(m)]) > 0
          BY <1>f, <1>10
        <5> QED
          BY <1>8, <1>9, <2>1, <3>1, <5>1
      <4>2. <<Numerals[m + 1]>> = <<Numerals[n + 1]>>
        BY <1>8, <2>1, <3>1, <4>1
      <4>3. Numerals[m + 1] = Numerals[n + 1]
        BY <4>2
      <4>4. m + 1 \in 1 .. base /\ n + 1 \in 1 .. base
        BY <1>1, <3>1, <4>1
      <4>5. m + 1 = n + 1
        BY <1>1, <4>3, <4>4
      <4> QED
        BY <4>5
    <3>2. CASE n >= base
      <4>1. m >= base
        <5> SUFFICES ASSUME m < base
                     PROVE  FALSE
          BY <1>1
        <5>1. Len(digits[front(n)]) \in Nat /\ Len(digits[front(n)]) > 0
          BY <1>f, <1>10
        <5> QED
          BY <1>8, <1>9, <2>1, <3>2, <5>1
      <4>2. last(m) + 1 \in 1 .. base /\ last(n) + 1 \in 1 .. base
        BY <1>l
      <4>3. Append(digits[front(m)], Numerals[last(m) + 1])
            = Append(digits[front(n)], Numerals[last(n) + 1])
        BY <1>9, <2>1, <3>2, <4>1
      <4>4. /\ digits[front(m)] \in Seq(Numeral) /\ digits[front(n)] \in Seq(Numeral)
            /\ Numerals[last(m) + 1] \in Numeral /\ Numerals[last(n) + 1] \in Numeral
        BY <1>n, <1>f, <1>6, <4>2
      <4>5. /\ digits[front(m)] = digits[front(n)]
            /\ Numerals[last(m) + 1] = Numerals[last(n) + 1]
        <5> DEFINE x == digits[front(m)]
                   y == digits[front(n)]
                   a == Numerals[last(m) + 1]
                   b == Numerals[last(n) + 1]
        <5>1. x \in Seq(Numeral) /\ y \in Seq(Numeral) /\ a \in Numeral /\ b \in Numeral
          BY <4>4
        <5>2. Append(x, a) = Append(y, b)
          BY <4>3
        <5> HIDE DEF x, y, a, b
        <5>3. x = y /\ a = b
          BY <5>1, <5>2, AppendInjective
        <5> QED
          BY <5>3 DEF x, y, a, b
      <4>6. front(m) = front(n)
        BY <1>f, <2>1, <3>2, <4>5
      <4>7. last(m) + 1 = last(n) + 1
        BY <1>i, <4>2, <4>5
      <4> QED
        <5>1. last(m) = last(n)
          BY <1>2, <1>b, <4>7
        <5> QED
          BY <1>2, <4>6, <5>1
    <3> QED
      BY <1>1, <3>1, <3>2
  <2>2. \A n \in Nat : n \in S
    <3>1. \A n \in Nat : (\A m \in Nat : m < n => m \in S) => n \in S
      BY <2>1
    <3> HIDE DEF S
    <3> QED
      BY <3>1, SetInduction
  <2> QED
    BY <2>2
<1>12. ASSUME NEW label \in Labels, NEW n \in Nat
       PROVE  Token(label, n) \in TokenText /\ Token(label, n)[1] = label
  <2>1. digits[n] \in Seq(Numeral) /\ Len(digits[n]) \in Nat /\ Len(digits[n]) > 0
    BY <1>6, <1>10
  <2>2. digits[n] \in Text /\ <<label>> \in Text
    <3>1. digits[n] \in Text
      BY <2>1, LetteredFacts, SeqMonotonic DEF Text
    <3>2. label \in Char
      BY LetteredFacts
    <3> QED
      BY <3>1, <3>2 DEF Text
  <2>3. /\ Token(label, n) \in Text /\ Len(Token(label, n)) = 1 + Len(digits[n])
        /\ \A i \in 1 .. Len(digits[n]) : Token(label, n)[1 + i] = digits[n][i]
        /\ Token(label, n)[1] = label
    <3>1. Token(label, n) = <<label>> \o digits[n]
      BY <1>7
    <3>2. Len(<<label>>) = 1 /\ <<label>>[1] = label
      OBVIOUS
    <3> QED
      <4> DEFINE t == <<label>>
                 d == digits[n]
      <4>1. t \in Text /\ Len(t) = 1 /\ t[1] = label /\ Token(label, n) = t \o d /\ d \in Text
        BY <2>2, <3>1, <3>2
      <4> HIDE DEF t, d
      <4>3. /\ t \o d \in Text /\ Len(t \o d) = Len(t) + Len(d)
            /\ \A i \in 1 .. Len(t) : (t \o d)[i] = t[i]
            /\ \A i \in 1 .. Len(d) : (t \o d)[Len(t) + i] = d[i]
        BY <4>1, ConcatFacts
      <4>2. /\ t \o d \in Text /\ Len(t \o d) = 1 + Len(d)
            /\ \A i \in 1 .. Len(d) : (t \o d)[1 + i] = d[i]
            /\ (t \o d)[1] = t[1]
        BY <4>1, <4>3
      <4> QED
        BY <4>1, <4>2 DEF d
  <2>4. ASSUME NEW k \in 2 .. Len(Token(label, n))
        PROVE  Token(label, n)[k] \in Numeral
    <3>1. k - 1 \in 1 .. Len(digits[n]) /\ 1 + (k - 1) = k
      BY <2>1, <2>3
    <3>2. Token(label, n)[k] = digits[n][k - 1]
      BY <2>3, <3>1
    <3> QED
      BY <2>1, <3>1, <3>2
  <2> QED
    <3>1. Token(label, n) \in Lettered(label)
      BY <2>1, <2>3, <2>4 DEF Lettered
    <3> QED
      BY <2>3, <3>1 DEF TokenText, Labels
<1>13. ASSUME NEW k \in Labels, NEW label \in Labels, NEW m \in Nat, NEW n \in Nat,
              Token(k, m) = Token(label, n)
       PROVE  k = label /\ m = n
  <2>0. k = label
    BY <1>12, <1>13
  <2>1. digits[m] \in Seq(Numeral) /\ digits[n] \in Seq(Numeral)
    BY <1>6
  <2>2. digits[m] \in Text /\ digits[n] \in Text /\ <<label>> \in Text
    <3>1. digits[m] \in Text /\ digits[n] \in Text
      BY <2>1, LetteredFacts, SeqMonotonic DEF Text
    <3>2. label \in Char
      BY LetteredFacts
    <3> QED
      BY <3>1, <3>2 DEF Text
  <2>3. <<label>> \o digits[m] = <<label>> \o digits[n]
    BY <1>7, <1>13, <2>0
  <2>4. digits[m] = digits[n]
    BY <2>2, <2>3, ConcatSimplifications DEF Text
  <2> QED
    BY <1>11, <2>0, <2>4
<1> QED
  BY <1>12, <1>13

-----------------------------------------------------------------------------
\* What the extractor finds are addresses and numbers, and the text has them.
LEMMA FoundFacts ==
  ASSUME NEW s \in Text
  PROVE  /\ IsFiniteSet(Spans(s)) /\ IsFiniteSet(Found(s))
         /\ Found(s) \subseteq RealValue
         /\ \A span \in Spans(s) : /\ span[1] \in 1 .. Len(s) /\ span[2] \in 1 .. Len(s)
                                   /\ Value(s, span) \in Text
                                   /\ Len(Value(s, span)) = span[2] - span[1] + 1
                                   /\ Occurs(s, span[1], Value(s, span))
<1>1. Len(s) \in Nat /\ DOMAIN s = 1 .. Len(s) /\ \A i \in 1 .. Len(s) : s[i] \in Char
  BY DEF Text
<1>2. ASSUME NEW span \in Spans(s)
      PROVE  /\ span[1] \in 1 .. Len(s) /\ span[2] \in 1 .. Len(s) /\ span[1] < span[2]
             /\ s[span[1]] = "h" \/ s[span[1]] \in Numeral
             /\ \A k \in span[1] + 1 .. span[2] : s[k] \in Numeral
  BY <1>1 DEF Spans, Addresses, Ports
<1>3. ASSUME NEW span \in Spans(s)
      PROVE  /\ Value(s, span) \in Text
             /\ Len(Value(s, span)) = span[2] - span[1] + 1
             /\ Occurs(s, span[1], Value(s, span))
             /\ Value(s, span) \in RealValue
  <2> DEFINE i == span[1]
             j == span[2]
             v == Value(s, span)
  <2>1. i \in 1 .. Len(s) /\ j \in 1 .. Len(s) /\ i < j
    BY <1>2
  <2>2. (s[i] = "h" \/ s[i] \in Numeral) /\ \A k \in i + 1 .. j : s[k] \in Numeral
    BY <1>2
  <2>3. v = SubSeq(s, i, j)
    BY DEF Value
  <2> HIDE DEF i, j, v
  <2>4. /\ v \in Text /\ Len(v) = j - i + 1
        /\ \A k \in 1 .. j - i + 1 : v[k] = s[i + k - 1]
    <3>1. i \in Int /\ j \in Int /\ \A k \in i .. j : s[k] \in Char
      BY <1>1, <2>1
    <3> QED
      BY <2>1, <2>3, <3>1, SubSeqProperties DEF Text
  <2>5. i + Len(v) - 1 = j
    BY <2>1, <2>4
  <2>6. Occurs(s, i, v)
    BY <2>1, <2>3, <2>5 DEF Occurs
  <2>7. v[1] = "h" \/ v[1] \in Numeral
    BY <2>1, <2>2, <2>4
  <2>8. ASSUME NEW k \in 2 .. Len(v)
        PROVE  v[k] \in Numeral
    <3>1. k \in 1 .. j - i + 1 /\ i + k - 1 \in i + 1 .. j
      BY <2>1, <2>4
    <3> QED
      BY <2>2, <2>4, <3>1
  <2>9. v \in RealValue
    <3>1. CASE v[1] = "h"
      BY <2>1, <2>4, <2>8, <3>1 DEF RealValue, Address, Lettered
    <3>2. CASE v[1] \in Numeral
      <4>1. \A k \in 1 .. Len(v) : v[k] \in Numeral
        BY <2>1, <2>4, <2>8, <3>2
      <4>2. v # <<>>
        BY <2>1, <2>4
      <4> QED
        BY <2>4, <4>1, <4>2 DEF RealValue, Number
    <3> QED
      BY <2>7, <3>1, <3>2
  <2> QED
    BY <2>4, <2>6, <2>9 DEF i, j, v
<1>4. IsFiniteSet(Spans(s))
  <2>1. IsFiniteSet(1 .. Len(s))
    BY <1>1, FS_Interval
  <2>2. IsFiniteSet((1 .. Len(s)) \X (1 .. Len(s)))
    BY <2>1, FS_Product
  <2>3. Spans(s) \in SUBSET ((1 .. Len(s)) \X (1 .. Len(s)))
    BY <1>1 DEF Spans, Addresses, Ports
  <2> QED
    BY <2>2, <2>3, FS_Subset
<1>5. IsFiniteSet(Found(s))
  <2> DEFINE f == [span \in Spans(s) |-> Value(s, span)]
  <2>1. f \in Surjection(Spans(s), Found(s))
    BY DEF Surjection, Found
  <2> HIDE DEF f
  <2> QED
    BY <1>4, <2>1, FS_Surjection
<1>6. Found(s) \subseteq RealValue
  BY <1>3 DEF Found
<1> QED
  BY <1>2, <1>3, <1>4, <1>5, <1>6

\* They are replaced one after the other, none before a longer one.
LEMMA ExtractFacts ==
  ASSUME NEW s \in Text
  PROVE  IsOrder(Extract(s), Found(s))
<1> DEFINE starts == [v \in Found(s) |-> {span[1] : span \in {x \in Spans(s) : Value(s, x) = v}}]
           rank == [v \in Found(s) |-> CHOOSE i \in starts[v] : \A k \in starts[v] : i <= k]
<1>1. Extract(s) = LongestFirst(Found(s), rank)
  BY DEF Extract
<1>2. ASSUME NEW v \in Found(s)
      PROVE  rank[v] \in Nat /\ rank[v] > 0 /\ Occurs(s, rank[v], v)
  <2>1. starts[v] \in SUBSET Nat /\ \A i \in starts[v] : i > 0 /\ Occurs(s, i, v)
    BY FoundFacts
  <2>2. starts[v] # {}
    BY DEF Found
  <2>3. rank[v] = CHOOSE i \in starts[v] : \A k \in starts[v] : i <= k
    OBVIOUS
  <2> HIDE DEF starts, rank
  <2>4. \E i \in starts[v] : \A k \in starts[v] : i <= k
    BY <2>1, <2>2, LeastOf
  <2> QED
    BY <2>1, <2>3, <2>4
<1> HIDE DEF rank
<1>3. \A v \in Found(s) : v \in Text /\ v # <<>>
  BY FoundFacts, LetteredFacts
<1>4. ASSUME NEW v \in Found(s), NEW w \in Found(s), Length(v) = Length(w), rank[v] = rank[w]
      PROVE  v = w
  <2>1. /\ rank[v] \in Nat /\ rank[v] > 0
        /\ Occurs(s, rank[v], v) /\ Occurs(s, rank[v], w)
    BY <1>2, <1>4
  <2>2. v \in Text /\ Len(v) \in Nat /\ Len(v) > 0 /\ w \in Text /\ Len(w) \in Nat /\ Len(w) > 0
    BY <1>3 DEF Text
  <2>3. s[rank[v]] = v[1] /\ s[rank[v]] = w[1]
    <3>1. ASSUME NEW x \in Text, Len(x) \in Nat, Len(x) > 0, Occurs(s, rank[v], x)
          PROVE  s[rank[v]] = x[1]
      <4>1. \A k \in 1 .. Len(x) : s[rank[v] + k - 1] = x[k]
        BY <2>1, <3>1, OccursDef
      <4> QED
        BY <2>1, <3>1, <4>1
    <3> QED
      BY <2>1, <2>2, <3>1
  <2>4. Len(v) = Len(w)
    <3>1. Extra(v[1]) \in Nat
      BY DEF Extra
    <3> QED
      BY <1>4, <2>2, <2>3, <3>1 DEF Length
  <2> QED
    BY <2>1, <2>4 DEF Occurs
<1>5. Found(s) \in SUBSET (Text \ {<<>>}) /\ IsFiniteSet(Found(s))
  BY <1>3, FoundFacts
<1> QED
  <2> DEFINE words == Found(s)
  <2>1. words \in SUBSET (Text \ {<<>>}) /\ IsFiniteSet(words)
    BY <1>5
  <2>2. \A v \in words : rank[v] \in Nat
    BY <1>2
  <2>3. \A v, w \in words : Length(v) = Length(w) /\ rank[v] = rank[w] => v = w
    BY <1>4
  <2> HIDE DEF words
  <2>4. IsOrder(LongestFirst(words, rank), words)
    BY <2>1, <2>2, <2>3, LongestFirstFacts
  <2> QED
    BY <1>1, <2>4 DEF words

-----------------------------------------------------------------------------
\* A word that is in another is shorter, unless it is the other.
LEMMA WithinLonger ==
  ASSUME NEW v \in Text, v # <<>>, NEW w \in Word, Within(v, w), Length(v) >= Length(w)
  PROVE  v = w
<1>1. w \in Text /\ w # <<>> /\ \A k \in 2 .. Len(w) : w[k] \in Numeral
  BY DEF Word
<1>2. PICK i \in Nat : i > 0 /\ Occurs(w, i, v)
  BY <1>1, WithinDef
<1>3. Len(v) \in Nat /\ Len(v) > 0 /\ Len(w) \in Nat
  BY <1>1 DEF Text
<1>4. /\ i + Len(v) - 1 <= Len(w)
      /\ \A k \in 1 .. Len(v) : w[i + k - 1] = v[k]
  BY <1>1, <1>2, OccursDef
<1>5. w[i] = v[1]
  BY <1>2, <1>3, <1>4
<1>6. CASE i = 1
  <2>1. Len(v) = Len(w)
    <3>1. Extra(v[1]) \in Nat
      BY DEF Extra
    <3> QED
      BY <1>3, <1>4, <1>5, <1>6, <3>1 DEF Length
  <2>2. \A k \in 1 .. Len(v) : v[k] = w[k]
    BY <1>3, <1>4, <1>6
  <2> QED
    BY <1>1, <2>1, <2>2, SeqEqual DEF Text
<1>7. CASE i > 1
  <2>1. v[1] \in Numeral
    BY <1>1, <1>3, <1>4, <1>5, <1>7
  <2>2. Length(v) = Len(v)
    <3>1. v[1] # "h" /\ v[1] # "T" /\ v[1] # "P"
      BY <2>1, LetteredFacts DEF Labels
    <3> QED
      BY <1>3, <3>1 DEF Length, Extra
  <2>3. Length(w) >= Len(w)
    BY <1>1, LengthFacts
  <2>4. Length(w) \in Nat
    BY <1>1, LengthFacts
  <2> QED
    BY <1>3, <1>4, <1>7, <2>2, <2>3, <2>4
<1> QED
  BY <1>2, <1>6, <1>7

\* A token is not in a text without a label.
LEMMA WithinLetter ==
  ASSUME NEW t \in TokenText, NEW s \in Text, \A i \in 1 .. Len(s) : s[i] \notin Labels
  PROVE  ~Within(t, s)
<1> SUFFICES ASSUME Within(t, s)
             PROVE  FALSE
  OBVIOUS
<1>1. t \in Text /\ t # <<>> /\ t[1] \in Labels /\ Len(t) > 0 /\ Len(t) \in Nat /\ Len(s) \in Nat
  <2>1. t \in Text /\ t # <<>> /\ t[1] \in Labels
    BY LetteredFacts
  <2> QED
    BY <2>1 DEF Text
<1>2. PICK i \in Nat : i > 0 /\ Occurs(s, i, t)
  BY <1>1, WithinDef
<1>3. i + Len(t) - 1 <= Len(s) /\ \A k \in 1 .. Len(t) : s[i + k - 1] = t[k]
  BY <1>1, <1>2, OccursDef
<1>4. i \in 1 .. Len(s) /\ s[i] = t[1]
  BY <1>1, <1>2, <1>3
<1> QED
  BY <1>1, <1>4

-----------------------------------------------------------------------------
\* A dict from tokens to values.
IsTable(v) ==
  /\ v.tokens \in Seq(TokenText)
  /\ \A m, n \in DOMAIN v.tokens : v.tokens[m] = v.tokens[n] => m = n
  /\ v.to_real \in [DOMAIN v.tokens -> RealValue]

Tokens(v) == {v.tokens[n] : n \in DOMAIN v.tokens}

\* The tokens are replaced one after the other, none before a longer one.
IsDetokenizing(s, v, order, after) ==
  /\ IsOrder(order, Tokens(v))
  /\ after \in [0 .. Len(order) -> Text]
  /\ after[0] = s
  /\ \A k \in 1 .. Len(order) : \E m \in DOMAIN v.tokens :
       order[k] = v.tokens[m] /\ after[k] = Replace(after[k - 1], v.tokens[m], v.to_real[m])

\* What detokenize computes, as the sequence of its replacements.
LEMMA DetokenizeDef ==
  ASSUME NEW v, IsTable(v), NEW s \in Text
  PROVE  \E order, after : /\ IsDetokenizing(s, v, order, after)
                           /\ Detokenize(s, v) = after[Len(order)]
<1> DEFINE D == DOMAIN v.tokens
           place == [t \in {v.tokens[m] : m \in D} |-> Place(v.tokens, t)]
           order == LongestFirst(DOMAIN place, place)
           N == Len(order)
           Step(f, k) == IF k = 0 THEN s
                         ELSE Replace(f[k - 1], order[k], v.to_real[place[order[k]]])
           after == CHOOSE f : f = [k \in 0 .. N |-> Step(f, k)]
<1>1. Detokenize(s, v) = after[N]
  BY DEF Detokenize
<1>2. /\ DOMAIN place = Tokens(v) /\ D = 1 .. Len(v.tokens) /\ Len(v.tokens) \in Nat
      /\ \A m \in D : v.to_real[m] \in Text
  <2>1. v.tokens \in Seq(TokenText) /\ \A m \in D : v.to_real[m] \in RealValue
    BY DEF IsTable
  <2>2. \A m \in D : v.to_real[m] \in Text
    BY <2>1, LetteredFacts
  <2>3. D = 1 .. Len(v.tokens) /\ Len(v.tokens) \in Nat
    BY <2>1
  <2>4. DOMAIN place = Tokens(v)
    BY DEF Tokens
  <2> QED
    BY <2>2, <2>3, <2>4
<1>3. \A m \in D : v.tokens[m] \in Tokens(v) /\ v.tokens[m] \in Text /\ v.tokens[m] # <<>>
  <2>1. \A m \in D : v.tokens[m] \in TokenText
    BY DEF IsTable
  <2> QED
    BY <2>1, LetteredFacts DEF Tokens
<1>4. \A m \in D : place[v.tokens[m]] = m
  <2> SUFFICES ASSUME NEW m \in D
               PROVE  place[v.tokens[m]] = m
    OBVIOUS
  <2>1. place[v.tokens[m]] = CHOOSE n \in D : v.tokens[n] = v.tokens[m]
    BY DEF Place
  <2>2. \A n \in D : v.tokens[n] = v.tokens[m] => n = m
    BY DEF IsTable
  <2> HIDE DEF place
  <2> QED
    BY <2>1, <2>2
<1> HIDE DEF place
<1>5. IsOrder(order, Tokens(v))
  <2> DEFINE words == Tokens(v)
  <2>1. words \in SUBSET (Text \ {<<>>})
    BY <1>3 DEF Tokens
  <2>2. IsFiniteSet(words)
    <3> DEFINE f == [m \in D |-> v.tokens[m]]
    <3>1. f \in Surjection(D, words)
      BY DEF Surjection, Tokens
    <3>2. IsFiniteSet(D)
      BY <1>2, FS_Interval
    <3> HIDE DEF f, words, D
    <3> QED
      BY <3>1, <3>2, FS_Surjection
  <2>3. \A w \in words : place[w] \in Nat
    BY <1>2, <1>4 DEF Tokens
  <2>4. \A u, w \in words : Length(u) = Length(w) /\ place[u] = place[w] => u = w
    BY <1>4 DEF Tokens
  <2> HIDE DEF words
  <2>5. IsOrder(LongestFirst(words, place), words)
    BY <2>1, <2>2, <2>3, <2>4, LongestFirstFacts
  <2> QED
    BY <1>2, <2>5 DEF words
<1> HIDE DEF order
<1>6. N \in Nat /\ \A k \in 1 .. N : order[k] \in Tokens(v)
  BY <1>5 DEF IsOrder
<1>7. \A k \in 1 .. N : \E m \in D :
        order[k] = v.tokens[m] /\ v.to_real[place[order[k]]] = v.to_real[m]
  BY <1>4, <1>6 DEF Tokens
<1>8. \A t \in Text : \A k \in 1 .. N : Replace(t, order[k], v.to_real[place[order[k]]]) \in Text
  BY <1>2, <1>3, <1>7, ReplaceDef
<1> HIDE DEF N, D
<1>9. after = [k \in 0 .. N |-> Step(after, k)] /\ after \in [0 .. N -> Text]
  <2> DEFINE E == 0 .. N
             Phi == [f \in [E -> Text] |-> [k \in E |-> Step(f, k)]]
             rank == [k \in E |-> k]
  <2>1. \A k \in E : k # 0 => k - 1 \in E /\ k \in 1 .. N /\ k - 1 < k
    BY <1>6
  <2>2. Phi \in [[E -> Text] -> [E -> Text]]
    BY <1>8, <2>1
  <2>3. rank \in [E -> Nat]
    BY <1>6
  <2>4. ASSUME NEW f \in [E -> Text], NEW g \in [E -> Text], NEW x \in E,
               \A y \in E : rank[y] < rank[x] => f[y] = g[y]
        PROVE  Phi[f][x] = Phi[g][x]
    BY <2>1, <2>4
  <2>5. LooksBack(Phi, E, Text, rank)
    <3> HIDE DEF Phi, rank, E
    <3> QED
      BY <2>2, <2>3, <2>4 DEF LooksBack
  <2>6. IsDefined(Phi, E, Text)
    <3> HIDE DEF Phi, rank, E
    <3> QED
      BY <2>5, RecursionExists
  <2>7. PICK f \in [E -> Text] : f = Phi[f]
    BY <2>6 DEF IsDefined
  <2>8. f = [k \in E |-> Step(f, k)]
    BY <2>7
  <2>9. after = [k \in E |-> Step(after, k)]
    <3> HIDE DEF Step
    <3> QED
      BY <2>8
  <2>10. \A k \in E : after[k] = Step(after, k)
    <3> HIDE DEF Step, after
    <3> QED
      BY <2>9
  <2> DEFINE S == {k \in Nat : k \in E => after[k] \in Text}
  <2>11. \A k \in Nat : (\A m \in Nat : m < k => m \in S) => k \in S
    <3> HIDE DEF after
    <3> SUFFICES ASSUME NEW k \in E, \A m \in Nat : m < k => m \in S
                 PROVE  after[k] \in Text
      BY <1>6
    <3>1. CASE k = 0
      BY <2>10, <3>1
    <3>2. CASE k # 0
      <4>1. k - 1 \in E /\ k - 1 \in Nat /\ k - 1 < k /\ k \in 1 .. N
        BY <1>6, <2>1, <3>2
      <4>2. after[k - 1] \in Text
        BY <4>1
      <4>3. after[k] = Replace(after[k - 1], order[k], v.to_real[place[order[k]]])
        BY <2>10, <3>2
      <4> QED
        BY <1>8, <4>1, <4>2, <4>3
    <3> QED
      BY <3>1, <3>2
  <2>12. \A k \in Nat : k \in S
    <3> HIDE DEF S
    <3> QED
      BY <2>11, SetInduction
  <2>13. \A k \in E : after[k] \in Text
    <3> HIDE DEF after
    <3> QED
      BY <1>6, <2>12
  <2> HIDE DEF after, Step
  <2> QED
    BY <2>9, <2>13
<1> HIDE DEF after
<1>10. after[0] = s
  BY <1>6, <1>9
<1>11. ASSUME NEW k \in 1 .. N
       PROVE  \E m \in D : order[k] = v.tokens[m]
                           /\ after[k] = Replace(after[k - 1], v.tokens[m], v.to_real[m])
  <2>1. k \in 0 .. N /\ k # 0
    BY <1>6
  <2>2. after[k] = Step(after, k)
    <3> HIDE DEF Step
    <3> QED
      BY <1>9, <2>1
  <2> QED
    BY <1>7, <2>1, <2>2
<1> QED
  BY <1>1, <1>5, <1>9, <1>10, <1>11 DEF IsDetokenizing, N, D


\* A text that is a token becomes the value of that token, even where a shorter
\* token is its beginning.
LEMMA DetokenizeToken ==
  ASSUME NEW v, IsTable(v), NEW m \in DOMAIN v.tokens
  PROVE  Detokenize(v.tokens[m], v) = v.to_real[m]
<1> DEFINE D == DOMAIN v.tokens
           s == v.tokens[m]
           w == v.to_real[m]
<1>1. \A i \in D : v.tokens[i] \in TokenText /\ (v.tokens[i] = s => i = m)
  BY DEF IsTable
<1>3. \A i \in D : v.to_real[i] \in RealValue /\ v.to_real[i] \in Text
  BY LetteredFacts DEF IsTable
<1>2. /\ s \in TokenText /\ s \in Text /\ s # <<>> /\ s \in Word
      /\ w \in Text /\ \A k \in 1 .. Len(w) : w[k] \notin Labels
  BY <1>1, <1>3, LetteredFacts
<1>4. PICK order, after : IsDetokenizing(s, v, order, after) /\ Detokenize(s, v) = after[Len(order)]
  BY <1>2, DetokenizeDef
<1> DEFINE N == Len(order)
<1>5. PICK p \in 1 .. N : order[p] = s
  BY <1>4 DEF IsDetokenizing, IsOrder, Tokens
<1>6. /\ N \in Nat /\ p \in Nat /\ p >= 1 /\ p <= N
      /\ after[0] = s
      /\ \A k \in 1 .. N : \E i \in D :
           order[k] = v.tokens[i] /\ after[k] = Replace(after[k - 1], v.tokens[i], v.to_real[i])
      /\ \A i, j \in 1 .. N : i < j => order[i] # order[j] /\ Length(order[i]) >= Length(order[j])
  <2>1. N \in Nat
    BY <1>4 DEF IsDetokenizing, IsOrder
  <2>2. \A i, j \in 1 .. N : i < j => order[i] # order[j] /\ Length(order[i]) >= Length(order[j])
    BY <1>4 DEF IsDetokenizing, IsOrder
  <2>3. after[0] = s /\ \A k \in 1 .. N : \E i \in D :
          order[k] = v.tokens[i] /\ after[k] = Replace(after[k - 1], v.tokens[i], v.to_real[i])
    BY <1>4 DEF IsDetokenizing
  <2>4. p \in 1 .. N
    BY <1>5
  <2> HIDE DEF N
  <2>5. p \in Nat /\ p >= 1 /\ p <= N
    BY <2>1, <2>4
  <2> QED
    BY <2>1, <2>2, <2>3, <2>5
<1> HIDE DEF s, w, N, D
<1> DEFINE S == {k \in Nat : k <= N => after[k] = IF k < p THEN s ELSE w}
<1>7. ASSUME NEW k \in Nat, k <= N, \A j \in Nat : j < k => j \in S
      PROVE  after[k] = IF k < p THEN s ELSE w
  <2>1. CASE k = 0
    BY <1>6, <2>1
  <2>2. CASE k # 0
    <3>1. k \in 1 .. N /\ k - 1 \in Nat /\ k - 1 < k /\ k - 1 <= N
      BY <1>6, <1>7, <2>2
    <3>2. after[k - 1] = IF k - 1 < p THEN s ELSE w
      BY <1>7, <3>1
    <3>3. PICK i \in D : order[k] = v.tokens[i] /\ after[k] = Replace(after[k - 1], v.tokens[i], v.to_real[i])
      BY <1>6, <3>1
    <3>4. v.tokens[i] \in TokenText /\ v.tokens[i] \in Text /\ v.tokens[i] # <<>> /\ v.to_real[i] \in Text
      BY <1>1, <1>3, LetteredFacts
    <3>5. CASE k < p
      <4>1. v.tokens[i] # s /\ Length(v.tokens[i]) >= Length(s)
        BY <1>5, <1>6, <3>1, <3>3, <3>5
      <4>2. ~Within(v.tokens[i], s)
        BY <1>2, <3>4, <4>1, WithinLonger
      <4>3. Replace(s, v.tokens[i], v.to_real[i]) = s
        BY <1>2, <3>4, <4>2, ReplaceAbsent
      <4>4. after[k - 1] = s
        BY <1>6, <3>1, <3>2, <3>5
      <4> QED
        BY <3>3, <3>5, <4>3, <4>4
    <3>6. CASE k = p
      <4>1. v.tokens[i] = s /\ i = m
        BY <1>1, <1>5, <3>3, <3>6
      <4>2. after[k - 1] = s
        BY <1>6, <3>1, <3>2, <3>6
      <4>3. Replace(s, s, v.to_real[i]) = v.to_real[i]
        BY <1>2, <3>4, ReplaceWhole
      <4>4. after[k] = w
        BY <3>3, <4>1, <4>2, <4>3 DEF w
      <4> QED
        BY <1>6, <3>6, <4>4
    <3>7. CASE k > p
      <4>1. ~Within(v.tokens[i], w)
        BY <1>2, <3>4, WithinLetter
      <4>2. Replace(w, v.tokens[i], v.to_real[i]) = w
        BY <1>2, <3>4, <4>1, ReplaceAbsent
      <4>3. after[k - 1] = w
        BY <1>6, <3>1, <3>2, <3>7
      <4> QED
        BY <1>6, <3>3, <3>7, <4>2, <4>3
    <3> QED
      BY <1>6, <3>5, <3>6, <3>7
  <2> QED
    BY <2>1, <2>2
<1>8. \A k \in Nat : k \in S
  <2>1. \A k \in Nat : (\A j \in Nat : j < k => j \in S) => k \in S
    BY <1>7
  <2> HIDE DEF S
  <2> QED
    BY <2>1, SetInduction
<1>9. after[N] = w
  BY <1>6, <1>8
<1> QED
  BY <1>4, <1>9 DEF s, w, N, D

\* A text read back is a text.
LEMMA DetokenizeType ==
  ASSUME NEW v, IsTable(v), NEW s \in Text
  PROVE  Detokenize(s, v) \in Text
<1>1. PICK order, after : IsDetokenizing(s, v, order, after) /\ Detokenize(s, v) = after[Len(order)]
  BY DetokenizeDef
<1>2. Len(order) \in 0 .. Len(order)
  BY <1>1 DEF IsDetokenizing, IsOrder
<1> QED
  BY <1>1, <1>2 DEF IsDetokenizing
================================================================================
