------------------------------ MODULE ReversalProofs ------------------------------
(***************************************************************************)
(* What is shown of an unambiguous text is read back as the text itself,   *)
(* with the vault of then and with every later one: for every text, every  *)
(* number of tokens and every system of numerals.                          *)
(*                                                                         *)
(* A text is seen as a sequence of atoms (its addresses and numbers, as    *)
(* far as their numerals go) and of other characters.  While it is         *)
(* tokenized, its atoms become tokens and it is otherwise as it was: it is *)
(* a rendering of what was said, for some choice of words for the atoms.   *)
(***************************************************************************)
EXTENDS VaultProofs

\* The addresses and the numbers, with numerals or without.
Atom == {w \in Word : w[1] \in Numeral \cup {"h"}}

\* Other words for the atoms: themselves, or tokens.
Rewording == {f \in [Atom -> Atom \cup TokenText] : \A w \in Atom : f[w] = w \/ f[w] \in TokenText}

\* An atom is at the beginning of a text, n characters of it.
Starts(t) == t[1] \in Numeral \cup {"h"}
IsFirst(t, n) ==
  /\ n \in 1 .. Len(t) /\ \A k \in 2 .. n : t[k] \in Numeral
  /\ n < Len(t) => t[n + 1] \notin Numeral

FirstLen(t) == CHOOSE n \in 1 .. Len(t) : IsFirst(t, n)
First(t) == SubSeq(t, 1, FirstLen(t))

\* The text with other words for its atoms.
Render(s, words) ==
  LET rendered[t \in Text] ==
        IF t = <<>> THEN <<>>
        ELSE IF Starts(t) THEN words[First(t)] \o rendered[Rest(t, FirstLen(t))]
        ELSE <<Head(t)>> \o rendered[Tail(t)]
  IN rendered[s]

\* Nothing in it looks like a token.
NoLabel(s) == \A i \in 1 .. Len(s) : s[i] \notin Labels

-----------------------------------------------------------------------------
\* A text begins with a word.
LEMMA OccursAtStart ==
  ASSUME NEW s \in Text, NEW word \in Text
  PROVE  Occurs(s, 1, word) <=> /\ Len(word) <= Len(s)
                                /\ \A k \in 1 .. Len(word) : s[k] = word[k]
<1>1. Len(s) \in Nat /\ Len(word) \in Nat
  BY DEF Text
<1>2. Occurs(s, 1, word) <=> /\ 1 + Len(word) - 1 <= Len(s)
                             /\ \A k \in 1 .. Len(word) : s[1 + k - 1] = word[k]
  BY OccursDef
<1>3. 1 + Len(word) - 1 = Len(word) /\ \A k \in 1 .. Len(word) : 1 + k - 1 = k
  BY <1>1
<1>4. (\A k \in 1 .. Len(word) : s[1 + k - 1] = word[k])
         <=> \A k \in 1 .. Len(word) : s[k] = word[k]
  BY <1>3
<1> QED
  BY <1>2, <1>3, <1>4

\* What stands for an atom is a word, with a letter first if the atom has one.
LEMMA RewordingFacts ==
  ASSUME NEW words \in Rewording
  PROVE  /\ words \in [Atom -> Word] /\ words \in [Atom -> Text]
         /\ \A w \in Atom : words[w] # <<>> /\ (w[1] \notin Numeral => words[w][1] \notin Numeral)
<1>1. Atom \subseteq Word /\ Word \subseteq Text /\ \A w \in Word : w # <<>>
  BY DEF Atom, Word
<1>2. TokenText \subseteq Word /\ \A t \in TokenText : t[1] \notin Numeral
  BY LetteredFacts
<1>3. /\ words \in [Atom -> Atom \cup TokenText]
      /\ \A w \in Atom : words[w] = w \/ words[w] \in TokenText
  BY DEF Rewording
<1>4. \A w \in Atom : words[w] \in Word
  BY <1>1, <1>2, <1>3
<1> QED
  BY <1>1, <1>2, <1>3, <1>4

\* The atoms of a text, over positions.
LEMMA AtomDef ==
  ASSUME NEW s \in Text
  PROVE  /\ Atoms(s) \subseteq Atom
         /\ \A w \in Atoms(s) : \E i, j \in 1 .. Len(s) : IsAtom(s, i, j) /\ w = SubSeq(s, i, j)
         /\ \A i, j \in 1 .. Len(s) : IsAtom(s, i, j) => SubSeq(s, i, j) \in Atoms(s)
         /\ NoLabel(s) => \A w \in Atoms(s) : NoLabel(w)
<1>1. DOMAIN s = 1 .. Len(s) /\ Len(s) \in Nat
  BY DEF Text
<1>2. ASSUME NEW w \in Atoms(s)
      PROVE  \E i, j \in 1 .. Len(s) : IsAtom(s, i, j) /\ w = SubSeq(s, i, j)
  <2>1. PICK i \in DOMAIN s : w \in {SubSeq(s, i, j) : j \in {j \in DOMAIN s : IsAtom(s, i, j)}}
    BY Zenon DEF Atoms
  <2>2. PICK j \in {j \in DOMAIN s : IsAtom(s, i, j)} : w = SubSeq(s, i, j)
    BY <2>1
  <2> QED
    BY <1>1, <2>2
<1>3. ASSUME NEW i \in 1 .. Len(s), NEW j \in 1 .. Len(s), IsAtom(s, i, j)
      PROVE  SubSeq(s, i, j) \in Atoms(s)
  <2>1. j \in {k \in DOMAIN s : IsAtom(s, i, k)} /\ i \in DOMAIN s
    BY <1>1, <1>3
  <2>2. SubSeq(s, i, j) \in {SubSeq(s, i, k) : k \in {k \in DOMAIN s : IsAtom(s, i, k)}}
    BY <2>1
  <2> QED
    BY <2>1, <2>2, Zenon DEF Atoms
<1>4. ASSUME NEW w \in Atoms(s)
      PROVE  w \in Atom /\ (NoLabel(s) => NoLabel(w))
  <2>1. PICK i \in 1 .. Len(s), j \in 1 .. Len(s) : IsAtom(s, i, j) /\ w = SubSeq(s, i, j)
    BY <1>2
  <2>2. i <= j /\ s[i] \in Numeral \cup {"h"} /\ \A k \in i + 1 .. j : s[k] \in Numeral
    BY <2>1 DEF IsAtom
  <2>3. \A k \in i .. j : s[k] \in Char
    BY <1>1, <2>2 DEF Text
  <2>4. /\ w \in Seq(Char) /\ Len(w) = j - i + 1
        /\ \A k \in 1 .. j - i + 1 : w[k] = s[i + k - 1]
    BY <2>1, <2>2, <2>3, SubSeqProperties
  <2>5. Len(w) >= 1 /\ 1 \in 1 .. j - i + 1 /\ i + 1 - 1 = i
    BY <2>2, <2>4
  <2>6. w[1] = s[i]
    BY <2>4, <2>5
  <2>7. \A k \in 2 .. Len(w) : k \in 1 .. j - i + 1 /\ i + k - 1 \in i + 1 .. j
    BY <2>4
  <2>8. w \in Word
    BY <2>2, <2>4, <2>5, <2>7 DEF Word, Text
  <2>9. \A k \in 1 .. Len(w) : i + k - 1 \in 1 .. Len(s)
    BY <1>1, <2>4
  <2>10. NoLabel(s) => NoLabel(w)
    BY <2>4, <2>9 DEF NoLabel
  <2> QED
    BY <2>2, <2>6, <2>8, <2>10 DEF Atom
<1> QED
  BY <1>2, <1>3, <1>4

\* The atoms of the rest of a text, if none is cut.
LEMMA RestAtoms ==
  ASSUME NEW s \in Text, NEW n \in 1 .. Len(s),
         \/ s[n] \notin Numeral \cup {"h"}
         \/ n < Len(s) => s[n + 1] \notin Numeral
  PROVE  /\ Atoms(Rest(s, n)) \subseteq Atoms(s)
         /\ NoLabel(s) => NoLabel(Rest(s, n))
<1> DEFINE r == Rest(s, n)
           l == Len(s) - n
<1>1. Len(s) \in Nat
  BY DEF Text
<1>2. /\ n \in 0 .. Len(s) /\ n \in Nat /\ n > 0 /\ l \in Nat /\ Len(s) = n + l
  BY <1>1
<1>3. /\ r \in Text /\ Len(r) = l /\ \A k \in 1 .. l : r[k] = s[n + k]
  BY <1>2, RestFacts
<1> HIDE DEF r, l
<1>4. ASSUME NEW w \in Atoms(r)
      PROVE  w \in Atoms(s)
  <2>1. PICK i \in 1 .. Len(r), j \in 1 .. Len(r) : IsAtom(r, i, j) /\ w = SubSeq(r, i, j)
    BY <1>3, AtomDef
  <2>2. /\ i <= j /\ r[i] \in Numeral \cup {"h"} /\ \A k \in i + 1 .. j : r[k] \in Numeral
        /\ j < Len(r) => r[j + 1] \notin Numeral
        /\ r[i] \in Numeral /\ i > 1 => r[i - 1] \notin Numeral \cup {"h"}
    BY <2>1 DEF IsAtom
  <2>3. /\ i \in Nat /\ j \in Nat /\ i > 0 /\ i \in 1 .. l /\ j \in 1 .. l
        /\ n + i \in 1 .. Len(s) /\ n + j \in 1 .. Len(s) /\ n + i <= n + j
    BY <1>2, <1>3, <2>2
  <2>4. s[n + i] \in Numeral \cup {"h"} /\ s[n + i] = r[i]
    BY <1>3, <2>2, <2>3
  <2>5. ASSUME NEW k \in (n + i) + 1 .. n + j
        PROVE  s[k] \in Numeral
    <3>1. k - n \in i + 1 .. j /\ k - n \in 1 .. l /\ n + (k - n) = k
      BY <1>2, <2>3
    <3>2. r[k - n] = s[n + (k - n)]
      BY <1>3, <3>1
    <3> QED
      BY <2>2, <3>1, <3>2
  <2>6. n + j < Len(s) => s[(n + j) + 1] \notin Numeral
    <3> SUFFICES ASSUME n + j < Len(s)
                 PROVE  s[(n + j) + 1] \notin Numeral
      OBVIOUS
    <3>1. j < Len(r) /\ j + 1 \in 1 .. l /\ n + (j + 1) = (n + j) + 1
      BY <1>2, <1>3, <2>3
    <3>2. r[j + 1] = s[n + (j + 1)]
      BY <1>3, <3>1
    <3> QED
      BY <2>2, <3>1, <3>2
  <2>7. s[n + i] \in Numeral /\ n + i > 1 => s[(n + i) - 1] \notin Numeral \cup {"h"}
    <3>1. CASE i > 1
      <4>1. i - 1 \in 1 .. l /\ n + (i - 1) = (n + i) - 1
        BY <1>2, <2>3, <3>1
      <4>2. r[i - 1] = s[n + (i - 1)]
        BY <1>3, <4>1
      <4> QED
        BY <2>2, <2>4, <3>1, <4>1, <4>2
    <3>2. CASE i = 1
      <4>1. (n + i) - 1 = n /\ n + i = n + 1 /\ n < Len(s)
        BY <1>2, <2>3, <3>2
      <4> QED
        BY <2>4, <4>1
    <3> QED
      BY <2>3, <3>1, <3>2
  <2>8. IsAtom(s, n + i, n + j)
    BY <2>3, <2>4, <2>5, <2>6, <2>7 DEF IsAtom
  <2> DEFINE I == n + i
             J == n + j
             u == SubSeq(s, I, J)
  <2>9. I \in 1 .. Len(s) /\ J \in 1 .. Len(s) /\ I <= J /\ J - I + 1 = j - i + 1
    BY <1>2, <2>3
  <2>10. /\ w \in Text /\ Len(w) = j - i + 1
         /\ \A k \in 1 .. j - i + 1 : w[k] = r[i + k - 1]
    <3>1. \A k \in i .. j : r[k] \in Char
      BY <1>3, <2>3 DEF Text
    <3> QED
      BY <2>1, <2>2, <2>3, <3>1, SubSeqProperties DEF Text
  <2>11. /\ u \in Text /\ Len(u) = J - I + 1
         /\ \A k \in 1 .. J - I + 1 : u[k] = s[I + k - 1]
    <3>1. \A k \in I .. J : s[k] \in Char
      BY <2>9 DEF Text
    <3> HIDE DEF I, J
    <3> QED
      BY <2>9, <3>1, SubSeqProperties DEF Text
  <2>12. \A k \in 1 .. j - i + 1 : i + k - 1 \in 1 .. l /\ n + (i + k - 1) = I + k - 1
    BY <1>2, <2>3
  <2>13. \A k \in 1 .. j - i + 1 : w[k] = u[k]
    BY <1>3, <2>9, <2>10, <2>11, <2>12
  <2> HIDE DEF u
  <2>14. w = u
    BY <2>9, <2>10, <2>11, <2>13, SeqEqual DEF Text
  <2> QED
    BY <2>3, <2>8, <2>14, AtomDef DEF u
<1>5. NoLabel(s) => NoLabel(r)
  <2>1. \A k \in 1 .. l : n + k \in 1 .. Len(s)
    BY <1>2
  <2> QED
    BY <1>3, <2>1 DEF NoLabel
<1> QED
  BY <1>4, <1>5 DEF r

\* The atom a text begins with.
LEMMA FirstFacts ==
  ASSUME NEW s \in Text, s # <<>>, Starts(s)
  PROVE  LET r == Rest(s, FirstLen(s)) IN
         /\ FirstLen(s) \in 1 .. Len(s)
         /\ First(s) \in Atom /\ First(s) \in Atoms(s) /\ First(s)[1] = s[1]
         /\ s = First(s) \o r /\ Len(First(s)) = FirstLen(s)
         /\ r \in Text /\ Len(r) < Len(s)
         /\ Atoms(r) \subseteq Atoms(s) /\ (NoLabel(s) => NoLabel(r))
         /\ r # <<>> => r[1] \notin Numeral
<1> DEFINE n == FirstLen(s)
           w == First(s)
<1>1. DOMAIN s = 1 .. Len(s) /\ Len(s) \in Nat /\ Len(s) > 0 /\ 1 \in 1 .. Len(s)
  BY DEF Text
<1>2. \E m \in 1 .. Len(s) : IsFirst(s, m)
  <2> DEFINE S == {m \in 1 .. Len(s) : m < Len(s) => s[m + 1] \notin Numeral}
  <2>1. Len(s) \in S /\ S \in SUBSET Nat
    BY <1>1
  <2>2. PICK m \in S : \A k \in S : m <= k
    BY <2>1, LeastOf
  <2>3. \A k \in 2 .. m : s[k] \in Numeral
    <3> SUFFICES ASSUME NEW k \in 2 .. m, s[k] \notin Numeral
                 PROVE  FALSE
      OBVIOUS
    <3>1. m \in 1 .. Len(s)
      BY <2>2
    <3>2. k - 1 \in 1 .. Len(s) /\ (k - 1) + 1 = k /\ ~(m <= k - 1)
      BY <1>1, <3>1
    <3>3. k - 1 \in S
      BY <3>2
    <3> QED
      BY <2>2, <3>2, <3>3
  <2> QED
    BY <2>2, <2>3 DEF IsFirst
<1>3. n \in 1 .. Len(s) /\ IsFirst(s, n)
  BY <1>2 DEF FirstLen
<1>4. w = SubSeq(s, 1, n)
  BY DEF First
<1> HIDE DEF n, w
<1>5. /\ n \in 1 .. Len(s) /\ n \in Nat /\ n >= 1 /\ n <= Len(s)
      /\ \A k \in 2 .. n : s[k] \in Numeral
      /\ n < Len(s) => s[n + 1] \notin Numeral
  BY <1>1, <1>3 DEF IsFirst
<1>6. w \in Text /\ Len(w) = n /\ \A k \in 1 .. n : w[k] = s[k]
  <2>1. \A k \in 1 .. n : s[k] \in Char
    BY <1>1, <1>5 DEF Text
  <2>2. 1 \in Int /\ n \in Int
    BY <1>5
  <2>3. /\ w \in Seq(Char) /\ Len(w) = n - 1 + 1
        /\ \A k \in 1 .. n - 1 + 1 : w[k] = s[1 + k - 1]
    BY <1>4, <1>5, <2>1, <2>2, SubSeqProperties
  <2> QED
    BY <1>5, <2>3 DEF Text
<1>7. IsAtom(s, 1, n)
  BY <1>1, <1>5 DEF IsAtom, Starts
<1>8. w \in Atoms(s) /\ w \in Atom
  BY <1>1, <1>4, <1>5, <1>7, AtomDef
<1>9. Occurs(s, 1, w)
  BY <1>5, <1>6, OccursAtStart
<1>10. s = w \o Rest(s, n) /\ Rest(s, n) \in Text
  BY <1>6, <1>9, Split
<1>11. n \in 0 .. Len(s)
  BY <1>5
<1>12. /\ Len(Rest(s, n)) = Len(s) - n
       /\ \A i \in 1 .. Len(s) - n : Rest(s, n)[i] = s[n + i]
  BY <1>11, RestFacts
<1>13. Len(Rest(s, n)) < Len(s)
  BY <1>1, <1>5, <1>12
<1>14. Rest(s, n) # <<>> => Rest(s, n)[1] \notin Numeral
  <2>1. Rest(s, n) # <<>> => 1 \in 1 .. Len(s) - n /\ n < Len(s)
    BY <1>1, <1>5, <1>10, <1>12 DEF Text
  <2> QED
    BY <1>5, <1>12, <2>1
<1>15. Atoms(Rest(s, n)) \subseteq Atoms(s) /\ (NoLabel(s) => NoLabel(Rest(s, n)))
  BY <1>5, RestAtoms
<1>16. w[1] = s[1]
  BY <1>5, <1>6
<1> QED
  BY <1>5, <1>6, <1>8, <1>10, <1>13, <1>14, <1>15, <1>16 DEF n, w

\* The rest of a text that does not begin with one.
LEMMA TailFirst ==
  ASSUME NEW s \in Text, s # <<>>, ~Starts(s)
  PROVE  /\ Tail(s) \in Text /\ Len(Tail(s)) < Len(s)
         /\ Atoms(Tail(s)) \subseteq Atoms(s) /\ (NoLabel(s) => NoLabel(Tail(s)))
<1>1. Len(s) \in Nat /\ Len(s) > 0 /\ 1 \in 1 .. Len(s)
  BY DEF Text
<1>2. Tail(s) = Rest(s, 1)
  BY DEF Rest, Text
<1>3. Atoms(Rest(s, 1)) \subseteq Atoms(s) /\ (NoLabel(s) => NoLabel(Rest(s, 1)))
  BY <1>1, RestAtoms DEF Starts
<1>4. Tail(s) \in Text /\ Len(Tail(s)) = Len(s) - 1
  BY HeadTail
<1>5. Len(Tail(s)) < Len(s)
  BY <1>1, <1>4
<1> QED
  BY <1>2, <1>3, <1>4, <1>5

-----------------------------------------------------------------------------
\* What Render does to the texts.
LEMMA RenderDef ==
  ASSUME NEW words \in [Atom -> Text]
  PROVE  /\ \A t \in Text : Render(t, words) \in Text
         /\ Render(<<>>, words) = <<>>
         /\ \A t \in Text : t # <<>> /\ Starts(t) =>
              Render(t, words) = words[First(t)] \o Render(Rest(t, FirstLen(t)), words)
         /\ \A t \in Text : t # <<>> /\ ~Starts(t) =>
              Render(t, words) = <<Head(t)>> \o Render(Tail(t), words)
<1> DEFINE Step(f, t) == IF t = <<>> THEN <<>>
                         ELSE IF Starts(t) THEN words[First(t)] \o f[Rest(t, FirstLen(t))]
                         ELSE <<Head(t)>> \o f[Tail(t)]
           Phi == [f \in [Text -> Text] |-> [t \in Text |-> Step(f, t)]]
           rank == [t \in Text |-> Len(t)]
<1>1. \A t \in Text : Len(t) \in Nat
  BY DEF Text
<1>2. ASSUME NEW t \in Text, t # <<>>, Starts(t)
      PROVE  /\ Rest(t, FirstLen(t)) \in Text /\ Len(Rest(t, FirstLen(t))) < Len(t)
             /\ words[First(t)] \in Text
  BY <1>2, FirstFacts
<1>3. ASSUME NEW t \in Text, t # <<>>
      PROVE  Tail(t) \in Text /\ Len(Tail(t)) < Len(t) /\ <<Head(t)>> \in Text
  BY <1>3 DEF Text
<1>4. ASSUME NEW f, NEW t \in Text, \A u \in Text : Len(u) < Len(t) => f[u] \in Text
      PROVE  Step(f, t) \in Text
  <2>1. CASE t = <<>>
    BY <2>1 DEF Text
  <2>2. CASE t # <<>> /\ Starts(t)
    <3>1. f[Rest(t, FirstLen(t))] \in Text /\ words[First(t)] \in Text
      BY <1>2, <1>4, <2>2
    <3>2. words[First(t)] \o f[Rest(t, FirstLen(t))] \in Text
      BY <3>1, ConcatFacts
    <3> QED
      BY <2>2, <3>2
  <2>3. CASE t # <<>> /\ ~Starts(t)
    <3>1. f[Tail(t)] \in Text
      BY <1>3, <1>4, <2>3
    <3>2. <<Head(t)>> \o f[Tail(t)] \in Text
      BY <3>1, <1>3, <2>3, ConcatFacts
    <3> QED
      BY <2>3, <3>2
  <2> QED
    BY <2>1, <2>2, <2>3
<1>5. \E f \in [Text -> Text] : f = Phi[f]
  <2>1. Phi \in [[Text -> Text] -> [Text -> Text]]
    BY <1>4
  <2>2. rank \in [Text -> Nat]
    BY <1>1
  <2>3. ASSUME NEW f \in [Text -> Text], NEW g \in [Text -> Text], NEW t \in Text,
               \A u \in Text : rank[u] < rank[t] => f[u] = g[u]
        PROVE  Phi[f][t] = Phi[g][t]
    <3>1. \A u \in Text : Len(u) < Len(t) => f[u] = g[u]
      BY <2>3
    <3>2. Step(f, t) = Step(g, t)
      BY <3>1, <1>2, <1>3
    <3> HIDE DEF Step
    <3> QED
      BY <3>2
  <2>4. LooksBack(Phi, Text, Text, rank)
    BY <2>1, <2>2, <2>3 DEF LooksBack
  <2>5. Text # {}
    <3>1. <<>> \in Text
      BY DEF Text
    <3> QED
      BY <3>1
  <2>6. IsDefined(Phi, Text, Text)
    BY <2>4, <2>5, RecursionExists
  <2> QED
    BY <2>6 DEF IsDefined
<1> DEFINE R == CHOOSE f : f = [t \in Text |-> Step(f, t)]
<1>6. R = [t \in Text |-> Step(R, t)] /\ R \in [Text -> Text]
  <2>1. PICK f \in [Text -> Text] : f = Phi[f]
    BY <1>5
  <2>2. f = [t \in Text |-> Step(f, t)]
    BY <2>1
  <2>3. R = [t \in Text |-> Step(R, t)]
    <3> HIDE DEF Step
    <3> QED
      BY <2>2
  <2>4. \A t \in Text : R[t] = Step(R, t)
    <3> HIDE DEF Step, R
    <3> QED
      BY <2>3
  <2> DEFINE S == {t \in Text : R[t] \in Text}
  <2>5. \A t \in Text : (\A u \in Text : Len(u) < Len(t) => u \in S) => t \in S
    <3> HIDE DEF Step, R
    <3> QED
      BY <1>4, <2>4
  <2>6. \A t \in Text : t \in S
    <3>1. <<>> \in S
      <4>1. <<>> \in Text
        BY DEF Text
      <4>2. \A u \in Text : ~(Len(u) < Len(<<>>))
        BY <1>1
      <4> HIDE DEF S
      <4> QED
        BY <2>5, <4>1, <4>2
    <3> HIDE DEF S
    <3> QED
      BY <2>5, <3>1, TextInduction
  <2> HIDE DEF R, Step
  <2> QED
    BY <2>3, <2>6
<1>7. \A t \in Text : Render(t, words) = R[t]
  BY DEF Render
<1> HIDE DEF R
<1>8. \A t \in Text : Render(t, words) \in Text
  BY <1>6, <1>7
<1>9. \A t \in Text : R[t] = Step(R, t)
  <2> HIDE DEF Step
  <2> QED
    BY <1>6
<1>10. <<>> \in Text /\ Render(<<>>, words) = <<>>
  <2>1. <<>> \in Text
    BY DEF Text
  <2> QED
    BY <2>1, <1>7, <1>9
<1>11. ASSUME NEW t \in Text, t # <<>>, Starts(t)
       PROVE  Render(t, words) = words[First(t)] \o Render(Rest(t, FirstLen(t)), words)
  BY <1>2, <1>7, <1>9, <1>11
<1>12. ASSUME NEW t \in Text, t # <<>>, ~Starts(t)
       PROVE  Render(t, words) = <<Head(t)>> \o Render(Tail(t), words)
  BY <1>3, <1>7, <1>9, <1>12
<1> QED
  BY <1>8, <1>10, <1>11, <1>12

\* How the rendering of a text begins.
LEMMA RenderFirst ==
  ASSUME NEW s \in Text, s # <<>>, s[1] \notin Numeral, NEW words \in Rewording
  PROVE  Render(s, words) # <<>> /\ Render(s, words)[1] \notin Numeral
<1>1. /\ words \in [Atom -> Text]
      /\ \A w \in Atom : words[w] # <<>> /\ (w[1] \notin Numeral => words[w][1] \notin Numeral)
  BY RewordingFacts
<1>2. ASSUME NEW u \in Text, NEW X \in Text, u # <<>>, u[1] \notin Numeral
      PROVE  u \o X # <<>> /\ (u \o X)[1] \notin Numeral
  <2>1. /\ Len(u \o X) = Len(u) + Len(X) /\ Len(u) \in Nat /\ Len(X) \in Nat
        /\ \A i \in 1 .. Len(u) : (u \o X)[i] = u[i]
    BY ConcatFacts
  <2>2. Len(u) > 0
    BY <1>2 DEF Text
  <2>3. 1 \in 1 .. Len(u) /\ Len(u \o X) > 0
    BY <2>1, <2>2
  <2> QED
    BY <1>2, <2>1, <2>3
<1>3. CASE Starts(s)
  <2> DEFINE r == Rest(s, FirstLen(s))
             u == words[First(s)]
             X == Render(r, words)
  <2>1. r \in Text /\ First(s) \in Atom /\ First(s)[1] = s[1]
    BY <1>3, FirstFacts
  <2>2. X \in Text /\ u \in Text /\ u # <<>> /\ u[1] \notin Numeral
    BY <1>1, <2>1, RenderDef
  <2>3. Render(s, words) = u \o X
    BY <1>1, <1>3, RenderDef
  <2> HIDE DEF u, X
  <2> QED
    BY <1>2, <2>2, <2>3
<1>4. CASE ~Starts(s)
  <2> DEFINE u == <<Head(s)>>
             X == Render(Tail(s), words)
  <2>1. u \in Text /\ Tail(s) \in Text /\ Len(u) = 1 /\ u[1] = s[1]
    BY HeadTail
  <2>2. X \in Text /\ u # <<>>
    BY <1>1, <2>1, RenderDef
  <2>3. Render(s, words) = u \o X
    BY <1>1, <1>4, RenderDef
  <2> HIDE DEF u, X
  <2> QED
    BY <1>2, <2>1, <2>2, <2>3
<1> QED
  BY <1>3, <1>4

\* Two texts of one after the other: what is left without the first.
LEMMA RestOfConcat ==
  ASSUME NEW s \in Text, NEW t \in Text
  PROVE  /\ Rest(s \o t, Len(s)) = t /\ Len(s) \in 0 .. Len(s \o t)
         /\ Len(s) = 1 => Tail(s \o t) = t /\ Head(s \o t) = s[1]
<1> DEFINE u == s \o t
<1>1. /\ u \in Text /\ Len(u) = Len(s) + Len(t)
      /\ \A i \in 1 .. Len(s) : u[i] = s[i]
      /\ \A i \in 1 .. Len(t) : u[Len(s) + i] = t[i]
      /\ Len(s) \in Nat /\ Len(t) \in Nat
  BY ConcatFacts
<1> HIDE DEF u
<1>2. Len(s) \in 0 .. Len(u) /\ Len(u) - Len(s) = Len(t)
  BY <1>1
<1>3. /\ Rest(u, Len(s)) \in Text /\ Len(Rest(u, Len(s))) = Len(t)
      /\ \A i \in 1 .. Len(t) : Rest(u, Len(s))[i] = u[Len(s) + i]
  BY <1>1, <1>2, RestFacts
<1>4. Rest(u, Len(s)) = t
  BY <1>1, <1>3, SeqEqual DEF Text
<1>5. ASSUME Len(s) = 1
      PROVE  Tail(u) = t /\ Head(u) = s[1]
  <2>1. u # <<>> /\ u \in Seq(Char)
    BY <1>1, <1>5 DEF Text
  <2>2. Tail(u) = Rest(u, 1)
    BY <2>1 DEF Rest
  <2> QED
    BY <1>1, <1>4, <1>5, <2>1, <2>2
<1> QED
  BY <1>2, <1>4, <1>5 DEF u

\* A word that is nowhere at the beginning of a text stays out of it.
LEMMA ReplaceSkips ==
  ASSUME NEW old \in Text, old # <<>>, NEW new \in Text, NEW X \in Text
  PROVE  \A u \in Text : (\A i \in 1 .. Len(u) : ~Occurs(u \o X, i, old)) =>
           Replace(u \o X, old, new) = u \o Replace(X, old, new)
<1> DEFINE S == {u \in Text : (\A i \in 1 .. Len(u) : ~Occurs(u \o X, i, old)) =>
                                Replace(u \o X, old, new) = u \o Replace(X, old, new)}
<1>1. <<>> \in S
  <2>1. <<>> \in Text /\ <<>> \o X = X
    BY DEF Text
  <2>2. Replace(X, old, new) \in Text
    BY ReplaceDef
  <2>3. <<>> \o Replace(X, old, new) = Replace(X, old, new)
    BY <2>2 DEF Text
  <2> QED
    BY <2>1, <2>3
<1>2. ASSUME NEW u \in Text, \A v \in Text : Len(v) < Len(u) => v \in S,
             u # <<>>, \A i \in 1 .. Len(u) : ~Occurs(u \o X, i, old)
      PROVE  Replace(u \o X, old, new) = u \o Replace(X, old, new)
  <2> DEFINE c == <<Head(u)>>
             v == Tail(u)
             Y == v \o X
             Z == Replace(X, old, new)
  <2>1. c \in Text /\ v \in Text /\ Len(c) = 1 /\ u = c \o v /\ Len(v) = Len(u) - 1 /\ Len(u) \in Nat
        /\ Head(u) = u[1] /\ c[1] = Head(u)
    BY <1>2, HeadTail DEF Text
  <2>2. Y \in Text /\ Z \in Text /\ u \o X \in Text
    BY <2>1, ConcatFacts, ReplaceDef
  <2>3. u \o X = c \o Y /\ u \o Z = c \o (v \o Z)
    BY <2>1, <2>2, ConcatAssociative DEF Text
  <2>4. u \o X # <<>>
    <3>1. Len(u \o X) = Len(u) + Len(X) /\ Len(X) \in Nat /\ Len(u) > 0
      BY <1>2, ConcatFacts DEF Text
    <3> QED
      BY <2>1, <3>1
  <2> HIDE DEF c, v, Y, Z
  <2>5. Tail(c \o Y) = Y /\ Head(c \o Y) = Head(u) /\ <<Head(u)>> = c
    BY <2>1, <2>2, RestOfConcat DEF c
  <2>6. Replace(u \o X, old, new) = c \o Replace(Y, old, new)
    <3>1. 1 \in 1 .. Len(u)
      BY <1>2, <2>1 DEF Text
    <3>2. ~Occurs(u \o X, 1, old)
      BY <1>2, <3>1
    <3> DEFINE t == u \o X
    <3>3. t \in Text /\ t # <<>> /\ ~Occurs(t, 1, old) /\ t = c \o Y
      BY <2>2, <2>3, <2>4, <3>2
    <3> HIDE DEF t
    <3>4. Replace(t, old, new) = <<Head(t)>> \o Replace(Tail(t), old, new)
      BY <3>3, ReplaceDef
    <3>5. Head(t) = Head(u) /\ Tail(t) = Y /\ <<Head(t)>> = c
      BY <2>5, <3>3
    <3> QED
      BY <3>4, <3>5 DEF t
  <2>7. \A i \in 1 .. Len(v) : ~Occurs(Y, i, old)
    <3> SUFFICES ASSUME NEW i \in 1 .. Len(v), Occurs(Y, i, old)
                 PROVE  FALSE
      OBVIOUS
    <3>1. i \in Nat /\ i > 0 /\ 1 + i \in 1 .. Len(u)
      BY <2>1
    <3>2. Occurs(c \o Y, Len(c) + i, old)
      BY <2>1, <2>2, <3>1, OccursAfter
    <3> QED
      BY <1>2, <2>1, <2>3, <3>1, <3>2
  <2>8. Len(v) < Len(u)
    BY <2>1
  <2>9. Replace(Y, old, new) = v \o Z
    BY <1>2, <2>1, <2>7, <2>8 DEF Y, Z
  <2> QED
    BY <2>3, <2>6, <2>9 DEF Z
<1>3. \A u \in Text : (\A v \in Text : Len(v) < Len(u) => v \in S) => u \in S
  <2> SUFFICES ASSUME NEW u \in Text, \A v \in Text : Len(v) < Len(u) => v \in S
               PROVE  u \in S
    OBVIOUS
  <2>1. CASE u = <<>>
    BY <1>1, <2>1
  <2>2. CASE u # <<>>
    BY <1>2, <2>2
  <2> QED
    BY <2>1, <2>2
<1> HIDE DEF S
<1>4. \A u \in Text : u \in S
  BY <1>1, <1>3, TextInduction
<1> QED
  BY <1>4 DEF S

-----------------------------------------------------------------------------
\* A text whose atoms stand for themselves is rendered as it is.
LEMMA RenderSame ==
  ASSUME NEW words \in [Atom -> Text]
  PROVE  \A s \in Text : (\A w \in Atoms(s) : words[w] = w) => Render(s, words) = s
<1> DEFINE S == {s \in Text : (\A w \in Atoms(s) : words[w] = w) => Render(s, words) = s}
<1>1. <<>> \in S
  <2>1. <<>> \in Text
    BY DEF Text
  <2> QED
    BY <2>1, RenderDef
<1>2. ASSUME NEW s \in Text, \A u \in Text : Len(u) < Len(s) => u \in S,
             s # <<>>, \A w \in Atoms(s) : words[w] = w
      PROVE  Render(s, words) = s
  <2>1. CASE Starts(s)
    <3> DEFINE r == Rest(s, FirstLen(s))
    <3>1. /\ r \in Text /\ Atoms(r) \subseteq Atoms(s) /\ Len(r) < Len(s)
          /\ First(s) \in Atoms(s) /\ s = First(s) \o r
      BY <1>2, <2>1, FirstFacts
    <3>2. Render(s, words) = words[First(s)] \o Render(r, words)
      BY <1>2, <2>1, RenderDef
    <3> HIDE DEF r
    <3>3. Render(r, words) = r
      BY <1>2, <3>1
    <3> QED
      BY <1>2, <3>1, <3>2, <3>3
  <2>2. CASE ~Starts(s)
    <3> DEFINE r == Tail(s)
    <3>1. r \in Text /\ Atoms(r) \subseteq Atoms(s) /\ Len(r) < Len(s)
      BY <1>2, <2>2, TailFirst
    <3>2. s = <<Head(s)>> \o r
      BY <1>2, HeadTail
    <3>3. Render(s, words) = <<Head(s)>> \o Render(r, words)
      BY <1>2, <2>2, RenderDef
    <3>4. Render(r, words) = r
      BY <1>2, <3>1
    <3> QED
      BY <3>2, <3>3, <3>4
  <2> QED
    BY <2>1, <2>2
<1>3. \A s \in Text : (\A u \in Text : Len(u) < Len(s) => u \in S) => s \in S
  <2> SUFFICES ASSUME NEW s \in Text, \A u \in Text : Len(u) < Len(s) => u \in S
               PROVE  s \in S
    OBVIOUS
  <2>1. CASE s = <<>>
    BY <1>1, <2>1
  <2>2. CASE s # <<>>
    BY <1>2, <2>2
  <2> QED
    BY <2>1, <2>2
<1> HIDE DEF S
<1>4. \A s \in Text : s \in S
  BY <1>1, <1>3, TextInduction
<1> QED
  BY <1>4 DEF S

\* What is replaced: a word no character of which but the first is a letter,
\* and no other.
Replaceable == {w \in Word : w[1] \in Numeral \cup {"h"} \cup Labels}

\* A word becomes another among those that stand for the atoms of a text, and is
\* in no other of them.
Becomes(s, words, old, new, others) ==
  \A w \in Atoms(s) : /\ Within(old, words[w]) => words[w] = old
                      /\ others[w] = IF words[w] = old THEN new ELSE words[w]

\* Replacing it in the rendered text renders the text with the other.
LEMMA RenderReplace ==
  ASSUME NEW old \in Replaceable, NEW new \in Text,
         NEW words \in Rewording, NEW others \in [Atom -> Text]
  PROVE  \A s \in Text : NoLabel(s) /\ Becomes(s, words, old, new, others) =>
                           Replace(Render(s, words), old, new) = Render(s, others)
<1> DEFINE Fits(s) == Becomes(s, words, old, new, others)
           S == {s \in Text : NoLabel(s) /\ Fits(s) =>
                                Replace(Render(s, words), old, new) = Render(s, others)}
<1>1. /\ words \in [Atom -> Text] /\ words \in [Atom -> Word]
      /\ old \in Text /\ old # <<>>
  BY RewordingFacts DEF Replaceable, Word
<1>2. /\ Len(old) \in Nat /\ Len(old) >= 1 /\ old[1] \in Numeral \cup {"h"} \cup Labels
      /\ \A k \in 2 .. Len(old) : old[k] \in Numeral
  BY <1>1 DEF Replaceable, Word, Text
<1>3. <<>> \in S
  <2>1. <<>> \in Text
    BY DEF Text
  <2>2. Render(<<>>, words) = <<>> /\ Render(<<>>, others) = <<>> /\ Replace(<<>>, old, new) = <<>>
    BY <1>1, RenderDef, ReplaceDef
  <2> QED
    BY <2>1, <2>2
\* A word that begins in another ends in it, unless a number follows.
<1>4. ASSUME NEW u \in Text, NEW X \in Text, X # <<>> => X[1] \notin Numeral,
             ~Within(old, u), NEW i \in 1 .. Len(u), Occurs(u \o X, i, old)
      PROVE  FALSE
  <2> DEFINE t == u \o X
             n == Len(u)
             m == Len(old)
  <2>1. /\ t \in Text /\ Len(t) = n + Len(X) /\ n \in Nat /\ Len(X) \in Nat
        /\ \A k \in 1 .. n : t[k] = u[k]
        /\ \A k \in 1 .. Len(X) : t[n + k] = X[k]
    BY ConcatFacts
  <2>2. i \in Nat /\ i > 0 /\ i <= n
    BY <2>1
  <2>3. i + m - 1 <= Len(t) /\ \A k \in 1 .. m : t[i + k - 1] = old[k]
    BY <1>1, <1>4, <2>1, <2>2, OccursDef
  <2>4. i \in 1 .. n /\ m \in Nat
    BY <1>2
  <2> HIDE DEF t, n, m
  <2>5. CASE i + m - 1 <= n
    <3>1. \A k \in 1 .. m : i + k - 1 \in 1 .. n
      BY <2>1, <2>2, <2>4, <2>5
    <3>2. \A k \in 1 .. m : u[i + k - 1] = old[k]
      BY <2>1, <2>3, <3>1
    <3>3. Occurs(u, i, old)
      BY <1>1, <2>2, <2>5, <3>2, OccursDef DEF n, m
    <3> QED
      BY <1>1, <1>4, <2>2, <3>3, WithinDef
  <2>6. CASE i + m - 1 > n
    <3> DEFINE k == n + 2 - i
    <3>1. k \in Nat /\ k >= 2 /\ k <= m /\ i + k - 1 = n + 1 /\ k \in 1 .. m
      BY <2>1, <2>2, <2>4, <2>6
    <3> HIDE DEF k
    <3>2. old[k] \in Numeral
      BY <1>2, <3>1 DEF m
    <3>3. t[n + 1] = old[k]
      BY <2>3, <3>1
    <3>4. 1 \in 1 .. Len(X) /\ X # <<>>
      BY <2>1, <2>2, <2>3, <2>4, <2>6
    <3> QED
      BY <1>4, <2>1, <3>2, <3>3, <3>4
  <2> QED
    BY <2>1, <2>2, <2>4, <2>5, <2>6
<1>5. ASSUME NEW s \in Text, \A u \in Text : Len(u) < Len(s) => u \in S,
             s # <<>>, NoLabel(s), Fits(s)
      PROVE  Replace(Render(s, words), old, new) = Render(s, others)
  <2>1. CASE Starts(s)
    <3> DEFINE r == Rest(s, FirstLen(s))
               w == First(s)
               u == words[w]
               X == Render(r, words)
               Y == Render(r, others)
    <3>1. /\ r \in Text /\ NoLabel(r) /\ Atoms(r) \subseteq Atoms(s)
          /\ r # <<>> => r[1] \notin Numeral
          /\ w \in Atom /\ w \in Atoms(s) /\ Len(r) < Len(s)
      BY <1>5, <2>1, FirstFacts
    <3>2. Render(s, words) = u \o X /\ Render(s, others) = others[w] \o Y
      BY <1>1, <1>5, <2>1, RenderDef
    <3>3. X \in Text /\ u \in Text
      BY <1>1, <3>1, RenderDef
    <3>4. X # <<>> => X[1] \notin Numeral
      <4>1. CASE r = <<>>
        BY <1>1, <4>1, RenderDef
      <4>2. CASE r # <<>>
        BY <3>1, <4>2, RenderFirst
      <4> QED
        BY <4>1, <4>2
    <3>5. Replace(X, old, new) = Y
      <4>1. Fits(r)
        BY <1>5, <3>1 DEF Becomes
      <4> QED
        BY <1>5, <3>1, <4>1
    <3>6. /\ Within(old, u) => u = old
          /\ others[w] = IF u = old THEN new ELSE u
      BY <1>5, <3>1 DEF Becomes
    <3> HIDE DEF u, X, Y
    <3>7. CASE u = old
      <4> DEFINE t == old \o X
      <4>1. t \in Text /\ Rest(t, Len(old)) = X /\ Len(t) = Len(old) + Len(X) /\ Len(X) \in Nat
            /\ \A k \in 1 .. Len(old) : t[k] = old[k]
        BY <1>1, <3>3, ConcatFacts, RestOfConcat
      <4>2. Occurs(t, 1, old)
        <5>1. Len(old) <= Len(t)
          BY <1>2, <4>1
        <5>2. t \in Text /\ old \in Text /\ \A k \in 1 .. Len(old) : t[k] = old[k]
          BY <1>1, <4>1
        <5> HIDE DEF t
        <5> QED
          BY <5>1, <5>2, OccursAtStart
      <4>3. t # <<>>
        BY <1>2, <4>1
      <4> HIDE DEF t
      <4>4. Replace(t, old, new) = new \o Replace(X, old, new)
        BY <1>1, <4>1, <4>2, <4>3, ReplaceDef
      <4> QED
        BY <3>2, <3>5, <3>6, <3>7, <4>4 DEF t
    <3>8. CASE u # old
      <4>1. \A i \in 1 .. Len(u) : ~Occurs(u \o X, i, old)
        BY <1>4, <3>3, <3>4, <3>6, <3>8
      <4>2. Replace(u \o X, old, new) = u \o Replace(X, old, new)
        BY <1>1, <3>3, <4>1, ReplaceSkips
      <4> QED
        BY <3>2, <3>5, <3>6, <3>8, <4>2
    <3> QED
      BY <3>7, <3>8
  <2>2. CASE ~Starts(s)
    <3> DEFINE r == Tail(s)
               u == <<Head(s)>>
               X == Render(r, words)
               Y == Render(r, others)
    <3>1. /\ r \in Text /\ NoLabel(r) /\ Atoms(r) \subseteq Atoms(s) /\ Len(r) < Len(s)
      BY <1>5, <2>2, TailFirst
    <3>2. u \in Text /\ Len(u) = 1 /\ u[1] = s[1] /\ s[1] \notin Numeral \cup {"h"} \cup Labels
      <4>1. 1 \in 1 .. Len(s)
        BY <1>5 DEF Text
      <4> QED
        BY <1>5, <2>2, <4>1, HeadTail DEF Starts, NoLabel
    <3>3. Render(s, words) = u \o X /\ Render(s, others) = u \o Y
      BY <1>1, <1>5, <2>2, RenderDef
    <3>4. X \in Text
      BY <1>1, <3>1, RenderDef
    <3>5. Replace(X, old, new) = Y
      <4>1. Fits(r)
        BY <1>5, <3>1 DEF Becomes
      <4> QED
        BY <1>5, <3>1, <4>1
    <3> HIDE DEF u, X, Y
    <3>6. \A i \in 1 .. Len(u) : ~Occurs(u \o X, i, old)
      <4> SUFFICES ASSUME Occurs(u \o X, 1, old)
                   PROVE  FALSE
        BY <3>2
      <4> DEFINE t == u \o X
      <4>1. t \in Text /\ t[1] = u[1]
        <5>1. 1 \in 1 .. Len(u)
          BY <3>2
        <5> QED
          BY <3>2, <3>4, <5>1, ConcatFacts
      <4> HIDE DEF t
      <4>2. t \in Text /\ Occurs(t, 1, old)
        BY <4>1 DEF t
      <4>3. \A k \in 1 .. Len(old) : t[k] = old[k]
        BY <1>1, <4>2, OccursAtStart
      <4>4. 1 \in 1 .. Len(old)
        BY <1>2
      <4>5. t[1] = old[1]
        BY <4>3, <4>4
      <4> QED
        BY <1>2, <3>2, <4>1, <4>5
    <3>7. Replace(u \o X, old, new) = u \o Replace(X, old, new)
      <4>1. u \in Text
        BY <3>2
      <4> QED
        BY <1>1, <3>4, <3>6, <4>1, ReplaceSkips
    <3> QED
      BY <3>3, <3>5, <3>7
  <2> QED
    BY <2>1, <2>2
<1>6. \A s \in Text : (\A u \in Text : Len(u) < Len(s) => u \in S) => s \in S
  <2> SUFFICES ASSUME NEW s \in Text, \A u \in Text : Len(u) < Len(s) => u \in S
               PROVE  s \in S
    OBVIOUS
  <2>1. CASE s = <<>>
    BY <1>3, <2>1
  <2>2. CASE s # <<>>
    BY <1>5, <2>2
  <2> QED
    BY <2>1, <2>2
<1> HIDE DEF S
<1>7. \A s \in Text : s \in S
  BY <1>3, <1>6, TextInduction
<1> QED
  BY <1>7 DEF S

\* A word for each atom: itself, or a token of the table that stands for it.
Means(s, words, v, tokens) ==
  \A w \in Atoms(s) : \/ words[w] = w
                      \/ \E n \in tokens : v.to_real[n] = w /\ words[w] = v.tokens[n]

\* A text with no label, whose atoms are shown as they are or by their tokens, is
\* read back.
LEMMA DetokenizeRender ==
  ASSUME NEW v, IsTable(v), NEW s \in Text, NoLabel(s), NEW words \in Rewording,
         Means(s, words, v, DOMAIN v.tokens)
  PROVE  Detokenize(Render(s, words), v) = s
<1> DEFINE t == Render(s, words)
           D == DOMAIN v.tokens
<1>1. /\ words \in [Atom -> Text] /\ words \in [Atom -> Word]
      /\ Atom \subseteq Word /\ Word \subseteq Text /\ \A w \in Word : w # <<>>
  BY RewordingFacts DEF Atom, Word
<1>2. t \in Text
  BY <1>1, RenderDef
<1>3. PICK order, after : IsDetokenizing(t, v, order, after) /\ Detokenize(t, v) = after[Len(order)]
  BY <1>2, DetokenizeDef
<1> DEFINE N == Len(order)
           at(k) == [w \in Atom |-> IF \E j \in 1 .. k : order[j] = words[w] THEN w ELSE words[w]]
<1>4. /\ N \in Nat /\ after[0] = t
      /\ \A k \in 1 .. N : \E m \in D :
           order[k] = v.tokens[m] /\ after[k] = Replace(after[k - 1], v.tokens[m], v.to_real[m])
  BY <1>3 DEF IsDetokenizing, IsOrder
<1>5. \A i, j \in 1 .. N : i < j => Length(order[i]) >= Length(order[j])
  BY <1>3 DEF IsDetokenizing, IsOrder
<1>6. \A m \in D : \E k \in 1 .. N : order[k] = v.tokens[m]
  BY <1>3 DEF IsDetokenizing, IsOrder, Tokens
<1>7. /\ \A m \in D : v.tokens[m] \in TokenText /\ v.to_real[m] \in RealValue
      /\ \A m, i \in D : v.tokens[m] = v.tokens[i] => m = i
  BY DEF IsTable
<1>8. /\ TokenText \subseteq Word /\ RealValue \subseteq Word
      /\ \A x \in TokenText : x[1] \in Labels /\ x \in Replaceable
  BY LetteredFacts DEF Replaceable
<1> HIDE DEF N, D
<1>9. \A k : at(k) \in Rewording
  BY DEF Rewording
<1>10. \A w \in Atoms(s) : w \in Atom /\ NoLabel(w)
  BY AtomDef
<1>11. ASSUME NEW k \in 1 .. N, NEW m \in D, order[k] = v.tokens[m]
       PROVE  Replace(Render(s, at(k - 1)), v.tokens[m], v.to_real[m]) = Render(s, at(k))
  <2> DEFINE old == v.tokens[m]
             new == v.to_real[m]
  <2>1. old \in TokenText /\ old \in Text /\ old # <<>> /\ old \in Replaceable /\ new \in Text
    BY <1>1, <1>7, <1>8
  <2>2. ASSUME NEW w \in Atoms(s)
        PROVE  ~Within(old, w) /\ w # old
    <3>1. w \in Text /\ \A i \in 1 .. Len(w) : w[i] \notin Labels
      BY <1>1, <1>10 DEF NoLabel
    <3>2. 1 \in 1 .. Len(old)
      BY <2>1 DEF Text
    <3>3. old[1] \in Labels
      BY <1>8, <2>1
    <3> HIDE DEF old
    <3> QED
      BY <2>1, <3>1, <3>2, <3>3, WithinLetter
  <2>3. ASSUME NEW w \in Atoms(s)
        PROVE  /\ Within(old, at(k - 1)[w]) => at(k - 1)[w] = old
               /\ at(k)[w] = IF at(k - 1)[w] = old THEN new ELSE at(k - 1)[w]
    <3>1. w \in Atom
      BY <1>10
    <3>2. k \in Nat /\ k > 0 /\ 1 .. k = (1 .. k - 1) \cup {k}
      BY <1>4
    <3>3. CASE words[w] = w \/ \E j \in 1 .. k - 1 : order[j] = words[w]
      <4>1. at(k - 1)[w] = w
        BY <3>1, <3>3
      <4>2. at(k)[w] = w
        BY <3>1, <3>2, <3>3
      <4> HIDE DEF at, old
      <4> QED
        BY <2>2, <4>1, <4>2
    <3>4. CASE words[w] # w /\ ~\E j \in 1 .. k - 1 : order[j] = words[w]
      <4>1. at(k - 1)[w] = words[w]
        BY <3>1, <3>4
      <4>2. at(k)[w] = IF words[w] = order[k] THEN w ELSE words[w]
        BY <3>1, <3>2, <3>4
      <4>3. PICK i \in D : v.to_real[i] = w /\ words[w] = v.tokens[i]
        BY <3>4 DEF D, Means
      <4>4. PICK p \in 1 .. N : order[p] = words[w]
        BY <1>6, <4>3
      <4>5. p \notin 1 .. k - 1
        BY <3>4, <4>4
      <4>6. Length(old) >= Length(words[w])
        <5>1. p = k \/ k < p
          BY <1>4, <4>5
        <5>2. CASE p = k
          <6>1. old = words[w]
            BY <1>11, <4>4, <5>2
          <6>2. Length(old) \in Nat
            BY <2>1, LengthFacts
          <6> QED
            BY <6>1, <6>2
        <5>3. CASE k < p
          BY <1>5, <1>11, <4>4, <5>3
        <5> QED
          BY <5>1, <5>2, <5>3
      <4>7. words[w] \in Word
        BY <1>1, <3>1
      <4>8. words[w] = old => new = w
        BY <1>7, <4>3
      <4> HIDE DEF at, old
      <4>9. Within(old, words[w]) => words[w] = old
        BY <2>1, <4>6, <4>7, WithinLonger
      <4>10. order[k] = old
        BY <1>11 DEF old
      <4> QED
        BY <4>1, <4>2, <4>8, <4>9, <4>10
    <3> QED
      BY <3>3, <3>4
  <2> DEFINE f == at(k - 1)
             g == at(k)
  <2>4. f \in Rewording /\ g \in Rewording /\ Becomes(s, f, old, new, g)
    BY <1>9, <2>3 DEF Becomes
  <2> HIDE DEF at, old, new, f, g
  <2>5. g \in [Atom -> Text]
    BY <2>4, RewordingFacts
  <2>6. Replace(Render(s, f), old, new) = Render(s, g)
    BY <2>1, <2>4, <2>5, RenderReplace
  <2> QED
    BY <2>6 DEF old, new, f, g
<1> DEFINE S == {k \in Nat : k <= N => after[k] = Render(s, at(k))}
<1>12. \A k \in Nat : (\A j \in Nat : j < k => j \in S) => k \in S
  <2> SUFFICES ASSUME NEW k \in Nat, \A j \in Nat : j < k => j \in S, k <= N
               PROVE  after[k] = Render(s, at(k))
    OBVIOUS
  <2>1. CASE k = 0
    <3>1. at(0) = words
      <4>1. at(0) = [w \in Atom |-> words[w]]
        OBVIOUS
      <4> QED
        BY <1>1, <4>1
    <3> QED
      BY <1>4, <2>1, <3>1
  <2>2. CASE k # 0
    <3>1. k \in 1 .. N /\ k - 1 \in Nat /\ k - 1 < k /\ k - 1 <= N
      BY <1>4, <2>2
    <3> HIDE DEF at
    <3>2. after[k - 1] = Render(s, at(k - 1))
      BY <3>1
    <3>3. PICK m \in D :
            order[k] = v.tokens[m] /\ after[k] = Replace(after[k - 1], v.tokens[m], v.to_real[m])
      BY <1>4, <3>1
    <3> QED
      BY <1>11, <3>1, <3>2, <3>3
  <2> QED
    BY <2>1, <2>2
<1>13. \A k \in Nat : k \in S
  <2> HIDE DEF S
  <2> QED
    BY <1>12, SetInduction
<1>14. after[N] = Render(s, at(N))
  <2> HIDE DEF at
  <2> QED
    BY <1>4, <1>13
<1>15. Render(s, at(N)) = s
  <2> DEFINE f == at(N)
  <2>1. f \in [Atom -> Text]
    BY <1>9, RewordingFacts
  <2>2. \A w \in Atoms(s) : f[w] = w
    BY <1>6, <1>10 DEF Means, D
  <2> HIDE DEF f, at
  <2>3. Render(s, f) = s
    BY <2>1, <2>2, RenderSame
  <2> QED
    BY <2>3 DEF f
<1> QED
  BY <1>3, <1>14, <1>15 DEF N

-----------------------------------------------------------------------------
(***************************************************************************)
(* The run.                                                                *)
(***************************************************************************)
\* What Unambiguous says, over sets: of the values before a text was tokenized,
\* of all after it, and of the tokens after it.
Clear(s, before, all, tokens) ==
  /\ NoLabel(s)
  /\ \A w \in Atoms(s) : w \in before \/ (Free(w, before) /\ (w \in all \/ Free(w, all)))
  /\ \A t \in tokens : Free(t, all)

\* The first m of a sequence, and a text of the prompt with a table.
Values(f, m) == {f[n] : n \in 1 .. m}
ClearEntry(e, T) ==
  Clear(e.said, Values(T.to_real, e.known), Values(T.to_real, e.issued), Values(T.tokens, e.issued))

LEMMA UnambiguousFacts ==
  ASSUME NEW k \in DOMAIN prompt, Unambiguous(prompt[k])
  PROVE  ClearEntry(prompt[k], Table)
<1> DEFINE e == prompt[k]
<1>1. /\ \A label \in Labels : ~\E i \in 1 .. Len(e.said) : e.said[i] = label
      /\ \A w \in Atoms(e.said) :
           \/ w \in Values(Table.to_real, e.known)
           \/ Free(w, Values(Table.to_real, e.known))
              /\ (w \in Values(Table.to_real, e.issued) \/ Free(w, Values(Table.to_real, e.issued)))
      /\ \A n \in 1 .. e.issued : Free(Table.tokens[n], Values(Table.to_real, e.issued))
  BY DEF Unambiguous, Values, Earlier, Issued, Contains
<1> HIDE DEF e
<1>2. NoLabel(e.said)
  BY <1>1 DEF NoLabel
<1>3. \A t \in Values(Table.tokens, e.issued) : Free(t, Values(Table.to_real, e.issued))
  <2>1. ASSUME NEW t \in Values(Table.tokens, e.issued)
        PROVE  \E n \in 1 .. e.issued : t = Table.tokens[n]
    BY DEF Values
  <2> QED
    BY <1>1, <2>1
<1> QED
  BY <1>1, <1>2, <1>3 DEF ClearEntry, Clear, e

\* What is clear with more values and tokens is so with less, if a value that is
\* no longer among them was not before.
LEMMA ClearLess ==
  ASSUME NEW s, NEW before, NEW all, NEW tokens, NEW fewer, NEW less,
         Clear(s, before, all, tokens),
         fewer \subseteq all, less \subseteq tokens, fewer = all \/ fewer = before
  PROVE  Clear(s, before, fewer, less)
BY DEF Clear, Free

\* The word is in the list, and the values that have a token or are in it.
InList(w, list) == \E k \in DOMAIN list : list[k] = w
All(v, list) == {w \in RealValue : w \in DOMAIN v.to_token \/ InList(w, list)}

\* Every value once, and none before a longer one.
Descending(list) ==
  \A i, j \in 1 .. Len(list) : i < j => list[i] # list[j] /\ Length(list[i]) >= Length(list[j])

\* The token of a value that has one, unless it is still to be replaced and is
\* not one that was replaced before; itself otherwise.
Standing(v, list, kept) ==
  [w \in Atom |-> IF w \in DOMAIN v.to_token /\ (w \in kept \/ ~InList(w, list))
                  THEN TokenOf(v, w) ELSE w]

\* The values that had a token, and those of them that are replaced for good.
Known == Values(vault.to_real, reading.known)
Kept == IF pc = "known" THEN {} ELSE Known

\* A text that is being tokenized is a rendering of what was said, as far as it
\* is replaced.
ReadingOK ==
  pc \in {"known", "tokenizing"} =>
    /\ reading.known <= Len(vault.tokens) /\ (pc = "known" => reading.known = Len(vault.tokens))
    /\ Descending(todo)
    /\ Clear(reading.said, Known, All(vault, todo), Tokens(vault)) =>
         text = Render(reading.said, Standing(vault, todo, Kept))

\* What is shown is what was said, with tokens of its values for some of them.
StandsFor(e, T) ==
  \E words \in Rewording : /\ e.shown = Render(e.said, words)
                           /\ Means(e.said, words, T, 1 .. e.issued)

\* Every clear text of the prompt can be read back.
ShownOK ==
  \A k \in DOMAIN prompt : /\ prompt[k].known <= prompt[k].issued
                           /\ ClearEntry(prompt[k], Table) => StandsFor(prompt[k], Table)

\* The inductive invariant of what is read back.
ReadBackInv == ReadingOK /\ ShownOK

\* The values are atoms, and no tokens.
LEMMA ValueFacts ==
  ASSUME NEW v \in RealValue
  PROVE  /\ v \in Atom /\ v \in Text /\ v # <<>> /\ v \in Replaceable
         /\ \A t \in TokenText : v # t
<1>1. /\ v \in Text /\ v # <<>> /\ v \in Word /\ \A k \in 1 .. Len(v) : v[k] \notin Labels
      /\ \A t \in TokenText : t[1] \in Labels
  BY LetteredFacts
<1>2. 1 \in 1 .. Len(v)
  BY <1>1 DEF Text
<1>3. v[1] \in Numeral \cup {"h"}
  BY <1>2 DEF RealValue, Address, Lettered, Number
<1> QED
  BY <1>1, <1>2, <1>3 DEF Atom, Replaceable

\* Tokens may stand for atoms.
LEMMA StandingFacts ==
  ASSUME NEW v, IsVault(v), NEW list, NEW kept
  PROVE  /\ Standing(v, list, kept) \in Rewording
         /\ \A w \in Atom :
              \/ /\ w \in DOMAIN v.to_token /\ (w \in kept \/ ~InList(w, list))
                 /\ Standing(v, list, kept)[w] = TokenOf(v, w)
                 /\ TokenOf(v, w) \in TokenText
              \/ /\ w \notin DOMAIN v.to_token \/ (w \notin kept /\ InList(w, list))
                 /\ Standing(v, list, kept)[w] = w
<1>1. \A w \in DOMAIN v.to_token : TokenOf(v, w) \in TokenText
  BY InVault
<1>2. \A w \in Atom :
        Standing(v, list, kept)[w] =
          IF w \in DOMAIN v.to_token /\ (w \in kept \/ ~InList(w, list)) THEN TokenOf(v, w) ELSE w
  BY DEF Standing
<1>3. Standing(v, list, kept) \in Rewording
  BY <1>1 DEF Standing, Rewording
<1> QED
  BY <1>1, <1>2, <1>3

\* A text nothing of which is replaced yet.
LEMMA StandingSame ==
  ASSUME NEW v, IsVault(v), NEW list, \A w \in DOMAIN v.to_token : InList(w, list),
         NEW kept, kept = {}, NEW s \in Text
  PROVE  Render(s, Standing(v, list, kept)) = s
<1> DEFINE words == Standing(v, list, kept)
<1>1. words \in Rewording
  BY StandingFacts
<1>2. \A w \in Atoms(s) : words[w] = w
  BY AtomDef, StandingFacts
<1> HIDE DEF words
<1>3. Render(s, words) = s
  BY <1>1, <1>2, RenderSame, RewordingFacts
<1> QED
  BY <1>3 DEF words

\* The first of a list in order, and the others.
LEMMA DescendingFacts ==
  ASSUME NEW list \in Seq(RealValue), list # <<>>, Descending(list)
  PROVE  /\ Head(list) \in RealValue /\ Tail(list) \in Seq(RealValue) /\ Descending(Tail(list))
         /\ InList(Head(list), list) /\ ~InList(Head(list), Tail(list))
         /\ \A w : InList(w, list) => /\ w = Head(list) \/ InList(w, Tail(list))
                                      /\ Length(Head(list)) >= Length(w)
         /\ \A w : InList(w, Tail(list)) => InList(w, list)
<1> DEFINE t == Tail(list)
           N == Len(list)
<1>1. /\ N \in Nat /\ N > 0 /\ DOMAIN list = 1 .. N /\ Head(list) = list[1] /\ list[1] \in RealValue
      /\ t \in Seq(RealValue) /\ Len(t) = N - 1 /\ DOMAIN t = 1 .. N - 1
  OBVIOUS
<1>2. \A k \in 1 .. N - 1 : t[k] = list[k + 1]
  OBVIOUS
<1>3. \A k \in 1 .. N - 1 : k + 1 \in 1 .. N /\ 1 < k + 1
  BY <1>1
<1>4. \A i, j \in 1 .. N : i < j => list[i] # list[j] /\ Length(list[i]) >= Length(list[j])
  BY DEF Descending
<1> HIDE DEF t, N
<1>5. Descending(t)
  <2>1. \A i, j \in 1 .. N - 1 : i < j => i + 1 < j + 1
    BY <1>1
  <2> QED
    BY <1>1, <1>2, <1>3, <1>4, <2>1 DEF Descending
<1>6. 1 \in 1 .. N
  BY <1>1
<1>7. InList(Head(list), list)
  BY <1>1, <1>6 DEF InList
<1>8. ~InList(Head(list), t)
  BY <1>1, <1>2, <1>3, <1>4, <1>6 DEF InList
<1>9. ASSUME NEW k \in 1 .. N
      PROVE  (list[k] = Head(list) \/ InList(list[k], t)) /\ Length(Head(list)) >= Length(list[k])
  <2>1. CASE k = 1
    <3>1. Length(list[1]) \in Nat
      BY <1>1, LengthFacts, ValueFacts
    <3> QED
      BY <1>1, <2>1, <3>1
  <2>2. CASE k # 1
    <3>1. k - 1 \in 1 .. N - 1 /\ (k - 1) + 1 = k /\ 1 < k
      BY <1>1, <2>2
    <3>2. t[k - 1] = list[k]
      BY <1>2, <3>1
    <3> QED
      BY <1>1, <1>4, <1>6, <3>1, <3>2 DEF InList
  <2> QED
    BY <2>1, <2>2
<1>10. \A w : InList(w, t) => InList(w, list)
  BY <1>1, <1>2, <1>3 DEF InList
<1>11. \A w : InList(w, list) => (w = Head(list) \/ InList(w, t)) /\ Length(Head(list)) >= Length(w)
  BY <1>1, <1>9 DEF InList
<1> QED
  BY <1>1, <1>5, <1>7, <1>8, <1>10, <1>11 DEF t

\* v becomes u: it has a token for the word, and the others as before.
Knows(u, v, word) ==
  /\ DOMAIN u.to_token = DOMAIN v.to_token \cup {word}
  /\ \A w \in DOMAIN v.to_token : TokenOf(u, w) = TokenOf(v, w)

\* token_for knows the word, and what the vault knew.
LEMMA TokenForKnows ==
  ASSUME NEW v, IsVault(v), NEW word
  PROVE  LET u == TokenFor(v, word) IN
         /\ Knows(u, v, word) /\ Len(u.tokens) >= Len(v.tokens) /\ Tokens(v) \subseteq Tokens(u)
<1> DEFINE u == TokenFor(v, word)
<1>1. /\ IsVault(u)
      /\ \A n \in DOMAIN v.tokens : /\ n \in DOMAIN u.tokens
                                    /\ u.tokens[n] = v.tokens[n] /\ u.to_real[n] = v.to_real[n]
  BY TokenForFacts
<1>2. /\ DOMAIN u.to_token = DOMAIN v.to_token \cup {word}
      /\ \A w \in DOMAIN v.to_token : u.to_token[w] = v.to_token[w]
  <2>1. CASE word \in DOMAIN v.to_token
    BY <2>1 DEF TokenFor
  <2>2. CASE word \notin DOMAIN v.to_token
    <3> DEFINE N == Place(v.tokens, Token(LabelOf(word), v.counters[LabelOf(word)] + 1))
               w == Issue(v, word)
    <3>2. w.to_token = [x \in DOMAIN v.to_token \cup {word} |-> IF x = word THEN N ELSE v.to_token[x]]
      <4> HIDE DEF N
      <4>1. w.to_token = Put(v.to_token, word, N)
        BY DEF Issue, Vault, N
      <4> HIDE DEF w
      <4> QED
        BY <4>1 DEF Put
    <3>1. u = w
      BY <2>2 DEF TokenFor
    <3> HIDE DEF u, N, w
    <3> QED
      BY <2>2, <3>1, <3>2
  <2> QED
    BY <2>1, <2>2
<1> HIDE DEF u
<1>3. /\ DOMAIN v.tokens = 1 .. Len(v.tokens) /\ DOMAIN u.tokens = 1 .. Len(u.tokens)
      /\ Len(v.tokens) \in Nat /\ Len(u.tokens) \in Nat
  BY <1>1, TokensOfVault
<1>4. Len(u.tokens) >= Len(v.tokens)
  <2>1. CASE Len(v.tokens) = 0
    BY <1>3, <2>1
  <2>2. CASE Len(v.tokens) # 0
    <3>1. Len(v.tokens) \in DOMAIN v.tokens
      BY <1>3, <2>2
    <3> QED
      BY <1>1, <1>3, <3>1
  <2> QED
    BY <2>1, <2>2
<1>5. Tokens(v) \subseteq Tokens(u)
  <2> SUFFICES ASSUME NEW t \in Tokens(v)
               PROVE  t \in Tokens(u)
    OBVIOUS
  <2>1. PICK n \in DOMAIN v.tokens : t = v.tokens[n]
    BY DEF Tokens
  <2> QED
    BY <1>1, <2>1 DEF Tokens
<1>6. \A w \in DOMAIN v.to_token : TokenOf(u, w) = TokenOf(v, w)
  <2> SUFFICES ASSUME NEW w \in DOMAIN v.to_token
               PROVE  TokenOf(u, w) = TokenOf(v, w)
    OBVIOUS
  <2>1. v.to_token[w] \in DOMAIN v.tokens
    BY InVault, TokensOfVault
  <2> QED
    BY <1>1, <1>2, <2>1 DEF TokenOf
<1> QED
  BY <1>2, <1>4, <1>5, <1>6 DEF Knows, u

\* The next value of the list is replaced.  It is in no token, and in no word that
\* stands for itself but those of the list.
LEMMA StandingStep ==
  ASSUME NEW v, IsVault(v), NEW u, IsVault(u), NEW kept,
         NEW list \in Seq(RealValue), list # <<>>, Descending(list),
         Knows(u, v, Head(list)), NEW s \in Text, NoLabel(s),
         Head(list) \in kept => Head(list) \in DOMAIN v.to_token,
         \A w \in DOMAIN v.to_token : ~Within(Head(list), TokenOf(v, w)),
         \A w \in Atoms(s) : Standing(v, list, kept)[w] = w /\ Within(Head(list), w) =>
                               InList(w, list)
  PROVE  Replace(Render(s, Standing(v, list, kept)), Head(list), TokenOf(u, Head(list)))
           = Render(s, Standing(u, Tail(list), kept))
<1> DEFINE old == Head(list)
           new == TokenOf(u, old)
           words == Standing(v, list, kept)
           others == Standing(u, Tail(list), kept)
<1>1. /\ old \in RealValue /\ InList(old, list) /\ ~InList(old, Tail(list))
      /\ \A w : InList(w, list) => (w = old \/ InList(w, Tail(list))) /\ Length(old) >= Length(w)
      /\ \A w : InList(w, Tail(list)) => InList(w, list)
  BY DescendingFacts
<1>2. /\ old \in Text /\ old # <<>> /\ old \in Replaceable /\ \A t \in TokenText : old # t
      /\ Atom \subseteq Word
  BY <1>1, ValueFacts DEF Atom
<1>3. /\ old \in DOMAIN u.to_token
      /\ \A w : w # old => (w \in DOMAIN u.to_token <=> w \in DOMAIN v.to_token)
      /\ \A w \in DOMAIN v.to_token : w \in DOMAIN u.to_token /\ TokenOf(u, w) = TokenOf(v, w)
  BY DEF Knows
<1>4. words \in Rewording /\ others \in Rewording
  BY StandingFacts
<1>5. new \in Text
  BY <1>3, InVault, LetteredFacts
<1>6. ASSUME NEW w \in Atoms(s)
      PROVE  /\ Within(old, words[w]) => words[w] = old
             /\ others[w] = IF words[w] = old THEN new ELSE words[w]
  <2>1. w \in Atom
    BY AtomDef
  <2>2. CASE w \in DOMAIN v.to_token /\ (w \in kept \/ ~InList(w, list))
    <3>1. words[w] = TokenOf(v, w) /\ TokenOf(v, w) \in TokenText
      BY <2>1, <2>2, InVault DEF Standing
    <3>2. ~Within(old, words[w]) /\ words[w] # old
      BY <1>2, <2>2, <3>1
    <3>3. w \in DOMAIN u.to_token /\ (w \in kept \/ ~InList(w, Tail(list)))
      BY <1>1, <1>3, <2>2
    <3>4. others[w] = TokenOf(v, w)
      BY <1>3, <2>1, <2>2, <3>3 DEF Standing
    <3> HIDE DEF words, others, old
    <3> QED
      BY <3>1, <3>2, <3>4
  <2>3. CASE ~(w \in DOMAIN v.to_token /\ (w \in kept \/ ~InList(w, list)))
    <3>1. words[w] = w
      BY <2>1, <2>3 DEF Standing
    <3>2. Within(old, w) => w = old
      <4> SUFFICES ASSUME Within(old, w)
                   PROVE  w = old
        OBVIOUS
      <4>1. InList(w, list)
        BY <3>1
      <4>2. Length(old) >= Length(w) /\ w \in Word
        BY <1>1, <1>2, <2>1, <4>1
      <4> HIDE DEF old
      <4> QED
        BY <1>2, <4>2, WithinLonger
    <3>3. others[w] = IF w = old THEN new ELSE w
      <4>1. CASE w = old
        <5>1. w \in DOMAIN u.to_token /\ ~InList(w, Tail(list))
          BY <1>1, <1>3, <4>1
        <5>2. others[w] = TokenOf(u, w)
          BY <2>1, <5>1 DEF Standing
        <5> QED
          BY <4>1, <5>2
      <4>2. CASE w # old
        <5>1. ~(w \in DOMAIN u.to_token /\ (w \in kept \/ ~InList(w, Tail(list))))
          BY <1>1, <1>3, <2>3, <4>2
        <5> QED
          BY <2>1, <4>2, <5>1 DEF Standing
      <4> QED
        BY <4>1, <4>2
    <3> QED
      BY <3>1, <3>2, <3>3
  <2> QED
    BY <2>2, <2>3
<1> HIDE DEF old, new, words, others
<1>7. Becomes(s, words, old, new, others)
  BY <1>6 DEF Becomes
<1>8. others \in [Atom -> Text]
  BY <1>4, RewordingFacts
<1>9. Replace(Render(s, words), old, new) = Render(s, others)
  BY <1>2, <1>4, <1>5, <1>7, <1>8, RenderReplace
<1> QED
  BY <1>9 DEF old, new, words, others

-----------------------------------------------------------------------------
\* What a table and a larger one have in common for a text of the prompt.
LEMMA EntryStays ==
  ASSUME NEW e \in Entry, NEW T, NEW U, e.known <= e.issued,
         \A n \in 1 .. e.issued : U.tokens[n] = T.tokens[n] /\ U.to_real[n] = T.to_real[n]
  PROVE  /\ ClearEntry(e, U) => ClearEntry(e, T)
         /\ StandsFor(e, T) => StandsFor(e, U)
<1>1. e.known \in Nat /\ e.issued \in Nat
  BY DEF Entry
<1>2. \A n \in 1 .. e.known : n \in 1 .. e.issued
  BY <1>1
<1>3. /\ Values(U.to_real, e.known) = Values(T.to_real, e.known)
      /\ Values(U.to_real, e.issued) = Values(T.to_real, e.issued)
      /\ Values(U.tokens, e.issued) = Values(T.tokens, e.issued)
  BY <1>2 DEF Values
<1>4. ClearEntry(e, U) => ClearEntry(e, T)
  BY <1>3 DEF ClearEntry
<1>5. \A words : Means(e.said, words, T, 1 .. e.issued) => Means(e.said, words, U, 1 .. e.issued)
  BY DEF Means
<1> QED
  BY <1>4, <1>5 DEF StandsFor

\* What stands for a text with one table stands for it with a larger one.
LEMMA ShownStays ==
  ASSUME TextInv, Goes, ShownOK, prompt' = prompt
  PROVE  ShownOK'
<1> SUFFICES ASSUME NEW k \in DOMAIN prompt
             PROVE  /\ prompt[k].known <= prompt[k].issued
                    /\ ClearEntry(prompt[k], Table') => StandsFor(prompt[k], Table')
  BY DEF ShownOK
<1>1. prompt[k] \in Entry
  BY DEF TextInv, TextsOK
<1>2. /\ prompt[k].known <= prompt[k].issued
      /\ ClearEntry(prompt[k], Table) => StandsFor(prompt[k], Table)
  BY DEF ShownOK
<1>3. \A n \in 1 .. prompt[k].issued : n \in DOMAIN Table.tokens
  BY DEF TextInv, PromptOK
<1>4. \A n \in 1 .. prompt[k].issued :
        Table'.tokens[n] = Table.tokens[n] /\ Table'.to_real[n] = Table.to_real[n]
  BY <1>3 DEF Goes
<1> DEFINE e == prompt[k]
           T == Table
           U == Table'
<1>5. /\ e \in Entry /\ e.known <= e.issued
      /\ \A n \in 1 .. e.issued : U.tokens[n] = T.tokens[n] /\ U.to_real[n] = T.to_real[n]
  BY <1>1, <1>2, <1>4
<1> HIDE DEF e, T, U
<1>6. (ClearEntry(e, U) => ClearEntry(e, T)) /\ (StandsFor(e, T) => StandsFor(e, U))
  BY <1>5, EntryStays
<1> QED
  BY <1>2, <1>6 DEF e, T, U

\* Nothing of a request is replaced at first.
LEMMA HandleReads ==
  ASSUME Inv, TextInv, NEW request \in Requests, Handle(request)
  PROVE  ReadingOK'
<1>1. /\ pc = "idle" /\ reading' = [said |-> request, known |-> 0] /\ text' = request
      /\ todo' = Extract(request) /\ pc' = "tokenizing" /\ vault' = vault
  BY DEF Handle, Tokenize
<1>2. request \in Text
  BY TextsAssumption
<1>3. IsVault(vault) /\ Len(vault.tokens) \in Nat /\ DOMAIN vault.to_real = {}
  BY <1>1, TokensOfVault DEF Inv, VaultIsABijection, TextInv, ValuesOK
<1>4. \A w : w \notin DOMAIN vault.to_token
  BY <1>3, InVault
<1>5. IsOrder(todo', Found(request))
  BY <1>1, <1>2, ExtractFacts
<1>6. Descending(todo')
  BY <1>5 DEF IsOrder, Descending
<1>7. \A n \in 1 .. 0 : FALSE
  OBVIOUS
<1>8. Kept' = {}
  BY <1>1, <1>7 DEF Kept, Known, Values
<1>9. Render(request, Standing(vault, todo', Kept')) = request
  BY <1>2, <1>3, <1>4, <1>8, StandingSame
<1> QED
  BY <1>1, <1>3, <1>6, <1>9 DEF ReadingOK

\* Nothing of a result is replaced at first.
LEMMA KnownFirstReads ==
  ASSUME Inv, TextInv, NEW result \in Text, KnownFirst(result), vault' = vault
  PROVE  ReadingOK'
<1>1. /\ reading' = [said |-> result, known |-> Len(vault.tokens)] /\ text' = result
      /\ todo' = LongestFirst(DOMAIN vault.to_token, vault.to_token) /\ pc' = "known"
  BY DEF KnownFirst
<1>2. IsVault(vault) /\ Len(vault.tokens) \in Nat
  BY TokensOfVault DEF Inv, VaultIsABijection
<1>3. IsOrder(todo', DOMAIN vault.to_token)
  BY <1>1, <1>2, KnownFacts DEF TextInv, ValuesOK
<1>4. Descending(todo')
  BY <1>3 DEF IsOrder, Descending
<1>5. \A w \in DOMAIN vault.to_token : InList(w, todo')
  BY <1>3 DEF IsOrder, InList
<1>6. Kept' = {}
  BY <1>1 DEF Kept
<1>7. Render(result, Standing(vault, todo', Kept')) = result
  BY <1>2, <1>5, <1>6, StandingSame
<1> QED
  BY <1>1, <1>2, <1>4, <1>7 DEF ReadingOK

\* The values that had a token have one.
LEMMA KnownHaveTokens ==
  ASSUME Inv, TextInv, reading.known <= Len(vault.tokens)
  PROVE  /\ \A n \in 1 .. reading.known : n \in DOMAIN vault.tokens
         /\ Known \subseteq DOMAIN vault.to_token
         /\ reading.known = Len(vault.tokens) => Known = DOMAIN vault.to_token
<1>1. IsVault(vault)
  BY DEF Inv, VaultIsABijection
<1>2. /\ Len(vault.tokens) \in Nat /\ DOMAIN vault.tokens = 1 .. Len(vault.tokens)
      /\ DOMAIN vault.to_real = DOMAIN vault.tokens
  BY <1>1, TokensOfVault
<1>3. reading.known \in Nat
  BY DEF TextInv, TextsOK
<1>4. \A n \in 1 .. reading.known : n \in DOMAIN vault.tokens
  BY <1>2, <1>3
<1>5. Known \subseteq DOMAIN vault.to_token
  BY <1>1, <1>2, <1>4, InVault DEF Known, Values
<1>6. reading.known = Len(vault.tokens) => DOMAIN vault.to_token \subseteq Known
  BY <1>1, <1>2, InVault DEF Known, Values
<1> QED
  BY <1>4, <1>5, <1>6

\* The next value of the list is in no token.
LEMMA NoToken ==
  ASSUME NEW v, IsVault(v), NEW list \in Seq(RealValue), list # <<>>, Descending(list),
         NEW s, NEW before, Clear(s, before, All(v, list), Tokens(v))
  PROVE  /\ Head(list) \in All(v, list)
         /\ \A w \in DOMAIN v.to_token : ~Within(Head(list), TokenOf(v, w))
<1>1. Head(list) \in All(v, list)
  BY DescendingFacts DEF All
<1>2. \A w \in DOMAIN v.to_token : TokenOf(v, w) \in Tokens(v)
  BY InVault, TokensOfVault DEF TokenOf, Tokens
<1> QED
  BY <1>1, <1>2 DEF Clear, Free

\* An atom that stands for itself has no token, or is still to be replaced.
LEMMA StandsForItself ==
  ASSUME NEW v, IsVault(v), NEW list, NEW kept, NEW s \in Text, NEW w \in Atoms(s),
         Standing(v, list, kept)[w] = w
  PROVE  w \in Atom /\ (w \notin DOMAIN v.to_token \/ InList(w, list))
<1>1. w \in Atom
  BY AtomDef
<1>2. w \notin TokenText
  BY <1>1, LetteredFacts DEF Atom
<1> QED
  BY <1>1, <1>2, StandingFacts

\* tokenize replaces one more value by its token.
LEMMA TokenizeNextReads ==
  ASSUME Inv, TextInv, ReadingOK, TokenizeNext
  PROVE  ReadingOK'
<1> DEFINE word == Head(todo)
           s == reading.said
           v == vault
           u == TokenFor(v, word)
<1>1. /\ pc = "tokenizing" /\ pc' = "tokenizing" /\ todo # <<>> /\ vault' = u
      /\ text' = Replace(text, word, TokenOf(u, word))
      /\ todo' = Tail(todo) /\ reading' = reading
  BY DEF TokenizeNext
<1>2. todo \in Seq(RealValue) /\ s \in Text /\ reading.known \in Nat
  BY DEF TextInv, TextsOK
<1>3. IsVault(v) /\ IsVault(u)
  BY TokenForFacts DEF Inv, VaultIsABijection
<1>4. Knows(u, v, word) /\ Len(u.tokens) >= Len(v.tokens) /\ Tokens(v) \subseteq Tokens(u)
  BY <1>3, TokenForKnows
<1>5. Len(v.tokens) \in Nat /\ Len(u.tokens) \in Nat
  BY <1>3, TokensOfVault
<1>6. reading.known <= Len(v.tokens) /\ Descending(todo)
  BY <1>1 DEF ReadingOK
<1>7. /\ Descending(Tail(todo)) /\ InList(word, todo) /\ word \in RealValue
      /\ \A w : InList(w, todo) => w = word \/ InList(w, Tail(todo))
      /\ \A w : InList(w, Tail(todo)) => InList(w, todo)
  BY <1>1, <1>2, <1>6, DescendingFacts
<1>8. Known' = Known /\ Kept = Known /\ Kept' = Known
  <2>1. \A n \in 1 .. reading.known : n \in DOMAIN v.tokens
    BY <1>6, KnownHaveTokens
  <2>2. \A n \in DOMAIN v.tokens : u.to_real[n] = v.to_real[n]
    BY <1>3, TokenForFacts
  <2> HIDE DEF u
  <2>3. Values(u.to_real, reading.known) = Values(v.to_real, reading.known)
    BY <2>1, <2>2 DEF Values
  <2> QED
    BY <1>1, <2>3 DEF Known, Kept
<1> HIDE DEF u
<1>9. All(u, Tail(todo)) = All(v, todo)
  BY <1>4, <1>7 DEF All, Knows
<1>10. ASSUME Clear(s, Known, All(v, todo), Tokens(u))
       PROVE  text' = Render(s, Standing(u, Tail(todo), Known))
  <2>1. Clear(s, Known, All(v, todo), Tokens(v))
    BY <1>4, <1>10, ClearLess
  <2>2. text = Render(s, Standing(v, todo, Known))
    BY <1>1, <1>8, <2>1 DEF ReadingOK
  <2>3. NoLabel(s)
    BY <2>1 DEF Clear
  <2>4. /\ word \in All(v, todo)
        /\ \A w \in DOMAIN v.to_token : ~Within(word, TokenOf(v, w))
    BY <1>1, <1>2, <1>3, <1>6, <2>1, NoToken
  <2>5. Known \subseteq DOMAIN v.to_token
    BY <1>6, KnownHaveTokens
  <2>6. ASSUME NEW w \in Atoms(s), Standing(v, todo, Known)[w] = w, Within(word, w)
        PROVE  InList(w, todo)
    <3>1. w \notin DOMAIN v.to_token \/ InList(w, todo)
      BY <1>2, <1>3, <2>6, StandsForItself
    <3>2. w \in Known \/ w \in All(v, todo)
      BY <2>1, <2>4, <2>6 DEF Clear, Free
    <3>3. w \in All(v, todo) => w \in DOMAIN v.to_token \/ InList(w, todo)
      BY DEF All
    <3> QED
      BY <2>5, <3>1, <3>2, <3>3
  <2>7. Replace(Render(s, Standing(v, todo, Known)), word, TokenOf(u, word)) =
          Render(s, Standing(u, Tail(todo), Known))
    BY <1>1, <1>2, <1>3, <1>4, <1>6, <2>3, <2>4, <2>5, <2>6, StandingStep
  <2> QED
    BY <1>1, <2>2, <2>7
<1>11. reading.known <= Len(u.tokens)
  BY <1>2, <1>4, <1>5, <1>6
<1> HIDE DEF s, v, word
<1> QED
  BY <1>1, <1>7, <1>8, <1>9, <1>10, <1>11 DEF ReadingOK, s

\* _retokenize replaces one more value that has a token.
LEMMA ReplaceKnownReads ==
  ASSUME Inv, TextInv, ReadingOK, ReplaceKnown
  PROVE  ReadingOK'
<1> DEFINE word == Head(todo)
           s == reading.said
           v == vault
<1>1. /\ pc = "known" /\ pc' = "known" /\ todo # <<>> /\ vault' = v
      /\ text' = Replace(text, word, TokenOf(v, word))
      /\ todo' = Tail(todo) /\ reading' = reading
  BY DEF ReplaceKnown
<1>2. todo \in Seq(RealValue) /\ s \in Text
  BY DEF TextInv, TextsOK
<1>3. IsVault(v)
  BY DEF Inv, VaultIsABijection
<1>4. reading.known = Len(v.tokens) /\ reading.known <= Len(v.tokens) /\ Descending(todo)
  BY <1>1 DEF ReadingOK
<1>5. /\ Descending(Tail(todo)) /\ InList(word, todo) /\ word \in RealValue
      /\ \A w : InList(w, todo) => w = word \/ InList(w, Tail(todo))
      /\ \A w : InList(w, Tail(todo)) => InList(w, todo)
  BY <1>1, <1>2, <1>4, DescendingFacts
<1>6. word \in DOMAIN v.to_token
  BY <1>1, <1>5 DEF TextInv, ValuesOK, InList
<1>7. Known = DOMAIN v.to_token
  BY <1>4, KnownHaveTokens
<1>8. Known' = Known /\ Kept = {} /\ Kept' = {}
  BY <1>1 DEF Known, Kept
<1>9. Knows(v, v, word)
  BY <1>6 DEF Knows
<1>10. All(v, Tail(todo)) = All(v, todo)
  BY <1>5, <1>6 DEF All
<1>11. ASSUME Clear(s, Known, All(v, todo), Tokens(v))
       PROVE  text' = Render(s, Standing(v, Tail(todo), Kept))
  <2>1. text = Render(s, Standing(v, todo, Kept))
    BY <1>1, <1>11 DEF ReadingOK
  <2>2. NoLabel(s)
    BY <1>11 DEF Clear
  <2>3. \A w \in DOMAIN v.to_token : ~Within(word, TokenOf(v, w))
    BY <1>1, <1>2, <1>3, <1>4, <1>11, NoToken
  <2>4. ASSUME NEW w \in Atoms(s), Standing(v, todo, Kept)[w] = w, Within(word, w)
        PROVE  InList(w, todo)
    <3>1. w \notin DOMAIN v.to_token \/ InList(w, todo)
      BY <1>2, <1>3, <2>4, StandsForItself
    <3>2. w \in Known
      BY <1>6, <1>7, <1>11, <2>4 DEF Clear, Free
    <3> QED
      BY <1>7, <3>1, <3>2
  <2>5. word \in Kept => word \in DOMAIN v.to_token
    BY <1>6
  <2>6. Replace(Render(s, Standing(v, todo, Kept)), word, TokenOf(v, word)) =
          Render(s, Standing(v, Tail(todo), Kept))
    BY <1>1, <1>2, <1>3, <1>4, <1>9, <2>2, <2>3, <2>4, <2>5, StandingStep
  <2> QED
    BY <1>1, <2>1, <2>6
<1> HIDE DEF s, v, word
<1> QED
  BY <1>1, <1>4, <1>5, <1>8, <1>10, <1>11 DEF ReadingOK, s

\* When the known values are replaced, those that are new remain.
LEMMA ThenTheOthersReads ==
  ASSUME Inv, TextInv, ReadingOK, ThenTheOthers
  PROVE  ReadingOK'
<1> DEFINE s == reading.said
           v == vault
<1>1. /\ pc = "known" /\ pc' = "tokenizing" /\ todo = <<>> /\ todo' = Extract(text)
      /\ vault' = v /\ text' = text /\ reading' = reading
  BY DEF ThenTheOthers
<1>2. text \in Text
  BY DEF TextInv, TextsOK
<1>3. IsVault(v) /\ v.to_real \in [DOMAIN v.to_real -> RealValue]
  BY DEF Inv, VaultIsABijection, TextInv, ValuesOK
<1>4. reading.known = Len(v.tokens) /\ reading.known <= Len(v.tokens)
  BY <1>1 DEF ReadingOK
<1>5. IsOrder(todo', Found(text))
  BY <1>1, <1>2, ExtractFacts
<1>6. Descending(todo')
  BY <1>5 DEF IsOrder, Descending
<1>7. Known = DOMAIN v.to_token
  BY <1>4, KnownHaveTokens
<1>8. Known' = Known /\ Kept = {} /\ Kept' = Known
  BY <1>1 DEF Known, Kept
<1>9. \A w : ~InList(w, todo)
  BY <1>1 DEF InList
<1>10. Standing(v, todo', Kept') = Standing(v, todo, Kept)
  BY <1>7, <1>8, <1>9 DEF Standing
<1>11. All(v, todo) = Known /\ All(v, todo) \subseteq All(v, todo')
  <2>1. \A w \in DOMAIN v.to_token : w \in RealValue
    BY <1>3, InVault
  <2> QED
    BY <1>7, <1>9, <2>1 DEF All
<1>12. ASSUME Clear(s, Known, All(v, todo'), Tokens(v))
       PROVE  text = Render(s, Standing(v, todo, Kept))
  <2>1. Clear(s, Known, All(v, todo), Tokens(v))
    BY <1>11, <1>12, ClearLess
  <2> QED
    BY <1>1, <2>1 DEF ReadingOK
<1> HIDE DEF s, v
<1> QED
  BY <1>1, <1>4, <1>6, <1>8, <1>10, <1>12 DEF ReadingOK, s

\* What is shown of a clear text is a rendering of it.
LEMMA TokenizedReads ==
  ASSUME Inv, TextInv, ReadBackInv, Tokenized
  PROVE  ShownOK'
<1> DEFINE e == [said |-> reading.said, known |-> reading.known,
                 shown |-> text, issued |-> Len(vault.tokens)]
           v == vault
           words == Standing(v, todo, Kept)
<1>1. /\ pc = "tokenizing" /\ todo = <<>> /\ prompt' = Append(prompt, e)
      /\ vault' = v /\ pc' \in {"proposing", "ended"}
  BY DEF Tokenized
<1>2. /\ prompt \in Seq(Entry) /\ Table = v /\ Table' = v /\ reading.said \in Text
  BY <1>1 DEF TextInv, TextsOK, Table
<1>3. IsVault(v) /\ v.to_real \in [DOMAIN v.to_real -> RealValue]
  BY DEF Inv, VaultIsABijection, TextInv, ValuesOK
<1>4. DOMAIN v.tokens = 1 .. Len(v.tokens) /\ DOMAIN v.to_real = DOMAIN v.tokens
  BY <1>3, TokensOfVault
<1>5. reading.known <= Len(v.tokens)
  BY <1>1 DEF ReadBackInv, ReadingOK
<1>6. /\ Values(v.to_real, Len(v.tokens)) = All(v, todo)
      /\ Values(v.tokens, Len(v.tokens)) = Tokens(v)
  <2>1. \A w : ~InList(w, todo)
    BY <1>1 DEF InList
  <2>2. Values(v.tokens, Len(v.tokens)) = Tokens(v)
    BY <1>4 DEF Values, Tokens
  <2>3. Values(v.to_real, Len(v.tokens)) \subseteq All(v, todo)
    BY <1>3, <1>4, InVault DEF Values, All
  <2>4. All(v, todo) \subseteq Values(v.to_real, Len(v.tokens))
    BY <1>3, <1>4, <2>1, InVault DEF Values, All
  <2> QED
    BY <2>2, <2>3, <2>4
<1>7. words \in Rewording
  BY <1>3, StandingFacts
<1>8. Means(reading.said, words, v, 1 .. Len(v.tokens))
  <2> SUFFICES ASSUME NEW w \in Atoms(reading.said)
               PROVE  \/ words[w] = w
                      \/ \E n \in 1 .. Len(v.tokens) : v.to_real[n] = w /\ words[w] = v.tokens[n]
    BY DEF Means
  <2>1. w \in Atom
    BY <1>2, AtomDef
  <2>2. words[w] = w \/ (w \in DOMAIN v.to_token /\ words[w] = TokenOf(v, w))
    BY <1>3, <2>1, StandingFacts
  <2> HIDE DEF words
  <2> QED
    BY <1>3, <1>4, <2>2, InVault DEF TokenOf
<1>9. Clear(reading.said, Known, All(v, todo), Tokens(v)) => text = Render(reading.said, words)
  BY <1>1 DEF ReadBackInv, ReadingOK
<1> HIDE DEF words
<1>10. /\ e.known <= e.issued
       /\ ClearEntry(e, v) => StandsFor(e, v)
  <2>1. /\ e.said = reading.said /\ e.known = reading.known /\ e.shown = text
        /\ e.issued = Len(v.tokens)
    OBVIOUS
  <2> HIDE DEF e, v
  <2>2. Values(v.to_real, e.known) = Known
    BY <2>1 DEF Known, v
  <2> QED
    BY <1>5, <1>6, <1>7, <1>8, <1>9, <2>1, <2>2 DEF ClearEntry, StandsFor
<1> HIDE DEF e
<1>11. \A k \in DOMAIN prompt' : \/ k \in DOMAIN prompt /\ prompt'[k] = prompt[k]
                                 \/ prompt'[k] = e
  BY <1>1, <1>2
<1> QED
  BY <1>2, <1>10, <1>11 DEF ReadBackInv, ShownOK

\* Every step keeps what is read back.
LEMMA NextReads == Inv /\ TextInv /\ ReadBackInv /\ [Next]_vars => ReadBackInv'
<1> SUFFICES ASSUME Inv, TextInv, ReadBackInv, [Next]_vars
             PROVE  ReadBackInv'
  OBVIOUS
<1>1. Goes /\ ReadingOK /\ ShownOK
  BY NextGoes DEF ReadBackInv
<1>2. ASSUME prompt' = prompt, pc' \notin {"known", "tokenizing"}
      PROVE  ReadBackInv'
  BY <1>1, <1>2, ShownStays DEF ReadBackInv, ReadingOK
<1>3. ASSUME prompt' = prompt, ReadingOK'
      PROVE  ReadBackInv'
  BY <1>1, <1>3, ShownStays DEF ReadBackInv
<1>4. ASSUME NEW request \in Requests, Handle(request)
      PROVE  ReadBackInv'
  <2>1. prompt' = prompt
    BY <1>4 DEF Handle
  <2> QED
    BY <1>3, <1>4, <2>1, HandleReads
<1>5. CASE TokenizeNext
  <2>1. prompt' = prompt
    BY <1>5 DEF TokenizeNext
  <2> QED
    BY <1>1, <1>3, <1>5, <2>1, TokenizeNextReads
<1>6. CASE ReplaceKnown
  <2>1. prompt' = prompt
    BY <1>6 DEF ReplaceKnown
  <2> QED
    BY <1>1, <1>3, <1>6, <2>1, ReplaceKnownReads
<1>7. CASE ThenTheOthers
  <2>1. prompt' = prompt
    BY <1>7 DEF ThenTheOthers
  <2> QED
    BY <1>1, <1>3, <1>7, <2>1, ThenTheOthersReads
<1>8. CASE Tokenized
  <2>1. pc' \notin {"known", "tokenizing"}
    BY <1>8 DEF Tokenized
  <2> QED
    BY <1>8, <2>1, TokenizedReads DEF ReadBackInv, ReadingOK
<1>9. ASSUME NEW word \in Shown, Allow(word) \/ Suspend(word)
      PROVE  ReadBackInv'
  BY <1>2, <1>9 DEF Allow, Suspend
<1>10. CASE Resume \/ End
  BY <1>2, <1>10 DEF Resume, End
<1>11. CASE Execute
  <2> DEFINE real == Detokenize(args, vault)
  <2>1. /\ prompt' = prompt /\ vault' = vault
        /\ \/ \E result \in Results \cup {real} : KnownFirst(result)
           \/ pc' = "ended"
    BY <1>11 DEF Execute
  <2>2. real \in Text
    <3>1. IsTable(vault) /\ args \in Text
      BY VaultIsTable DEF Inv, VaultIsABijection, TextInv, ValuesOK, TextsOK
    <3> QED
      BY <3>1, DetokenizeType
  <2> HIDE DEF real
  <2>3. ASSUME NEW result \in Results \cup {real}, KnownFirst(result)
        PROVE  ReadBackInv'
    <3>1. result \in Text
      BY <2>2, TextsAssumption
    <3> QED
      BY <1>3, <2>1, <2>3, <3>1, KnownFirstReads
  <2>4. CASE pc' = "ended"
    BY <1>2, <2>1, <2>4
  <2> QED
    BY <2>1, <2>3, <2>4
<1>12. CASE UNCHANGED vars
  BY <1>1, <1>12 DEF vars, ReadBackInv, ReadingOK, ShownOK, Table, Known, Kept
<1> QED
  BY <1>4, <1>5, <1>6, <1>7, <1>8, <1>9, <1>10, <1>11, <1>12 DEF Next

\* What is shown of a text that meets the conditions of Unambiguous is the text
\* with some of its values replaced by their tokens, each as a whole address or
\* number, and with no other change, though the values of both labels are
\* replaced in one pass (vault.py:120-126, loop.py:204-211).
THEOREM ReadBackInvariance == Spec => []ReadBackInv
<1>1. Init => ReadBackInv
  BY DEF Init, ReadBackInv, ReadingOK, ShownOK
<1> QED
  BY VaultInvariance, TextInvariance, <1>1, NextReads, PTL DEF Spec

\* detokenize reads back a text with the vault of then and with every later one,
\* for every system of numerals, on these conditions: the text has no label of a
\* token in it; no token has a value in it (as IP_ADDRESS_10 has the port 10); and
\* each of its addresses and numbers either had a token before, or has in it no
\* value that had one (as 9.9.9.12 has 9.9.9.1) and, if it gets no token itself, no
\* value that has one now.  (`Tokenisation reversible', vault.py:2.)  It says
\* nothing of other texts, not all of which are read back.
THEOREM UnambiguousIsReversible == Spec => []UnambiguousTextsAreReversible
<1>1. Inv /\ TextInv /\ ReadBackInv => UnambiguousTextsAreReversible
  <2> SUFFICES ASSUME Inv, TextInv, ReadBackInv,
                      NEW k \in DOMAIN prompt, Unambiguous(prompt[k])
               PROVE  Detokenize(prompt[k].shown, Table) = prompt[k].said
    BY DEF UnambiguousTextsAreReversible
  <2> DEFINE e == prompt[k]
             s == e.said
  <2>1. e \in Entry
    BY DEF TextInv, TextsOK
  <2>2. s \in Text
    BY <2>1 DEF Entry
  <2>3. ClearEntry(e, Table)
    BY UnambiguousFacts
  <2>4. StandsFor(e, Table) /\ NoLabel(s)
    BY <2>3 DEF ReadBackInv, ShownOK, ClearEntry, Clear
  <2>5. PICK words \in Rewording : /\ e.shown = Render(s, words)
                                   /\ Means(s, words, Table, 1 .. e.issued)
    BY <2>4 DEF StandsFor
  <2>6. \A n \in 1 .. e.issued : n \in DOMAIN Table.tokens
    BY DEF TextInv, PromptOK
  <2>7. IsTable(Table)
    <3>1. IsTable(vault)
      BY VaultIsTable DEF Inv, VaultIsABijection, TextInv, ValuesOK
    <3>2. IsTable(Restore(saved))
      BY VaultIsTable DEF Inv, VaultIsABijection, TextInv, ValuesOK, Restore, Vault
    <3>3. IsTable(saved)
      BY <3>2 DEF IsTable, Restore, Vault
    <3> QED
      BY <3>1, <3>3 DEF Table
  <2> HIDE DEF e, s
  <2>8. Means(s, words, Table, DOMAIN Table.tokens)
    BY <2>5, <2>6 DEF Means
  <2>9. Detokenize(Render(s, words), Table) = s
    BY <2>2, <2>4, <2>7, <2>8, DetokenizeRender
  <2> QED
    BY <2>5, <2>9 DEF e, s
<1> QED
  BY VaultInvariance, TextInvariance, ReadBackInvariance, <1>1, PTL
================================================================================
