------------------------------- MODULE VaultProofs -------------------------------
(***************************************************************************)
(* What TokenVault says of tokens holds for every text, result, numeral    *)
(* system and bound: the vault stays a bijection through any number of     *)
(* suspensions, a token keeps its value, no text shows an address that had *)
(* a token, and a token is executed as its value.                          *)
(***************************************************************************)
EXTENDS TextProofs

\* Where the run stands in its steps.
StepsOK ==
  /\ pc \in {"idle", "tokenizing", "known", "proposing", "suspended", "executing", "ended"}
  /\ \E S : prompt \in Seq(S)
  /\ \E S : executed \in Seq(S)
  /\ reading.known \in Nat
  /\ Len(executed) <= MaxSteps
  /\ pc \in {"proposing", "suspended", "executing"} =>
       Len(executed) < MaxSteps /\ Len(prompt) = Len(executed) + 1
  /\ pc \in {"idle", "tokenizing", "known"} => Len(prompt) = Len(executed)
  /\ Len(prompt) \in {Len(executed), Len(executed) + 1}

\* The inductive invariant.
Inv == StepsOK /\ VaultIsABijection

-----------------------------------------------------------------------------
\* The empty vault has one token per value.
LEMMA NewVaultIsOne == IsVault(NewVault)
<1> DEFINE v == NewVault
<1>1. v = Vault(<<>>, <<>>, Empty, Zero, Empty)
  BY DEF NewVault
<1>2. /\ v.tokens = <<>> /\ v.to_real = <<>> /\ v.to_token = Empty
      /\ v.counters = Zero /\ v.meta = Empty
  BY <1>1 DEF Vault
<1> HIDE DEF v
<1>3. DOMAIN v.tokens = {} /\ DOMAIN v.to_real = {} /\ v.tokens \in Seq(Text)
  BY <1>2
<1>4. ASSUME NEW label \in Labels
      PROVE  {v.tokens[n] : n \in {n \in DOMAIN v.tokens : LabelOf(v.to_real[n]) = label}}
               = {Token(label, k) : k \in 1 .. v.counters[label]}
  BY <1>2, <1>3 DEF Zero
<1>5. v.counters \in [Labels -> Nat]
  BY <1>2 DEF Zero
<1>6. DOMAIN v.to_token = {v.to_real[n] : n \in DOMAIN v.tokens}
  BY <1>2, <1>3 DEF Empty
<1>7. v.meta = [n \in {n \in DOMAIN v.tokens : LabelOf(v.to_real[n]) = "T"} |-> Scope(v.to_real[n])]
  BY <1>2, <1>3 DEF Empty
<1> QED
  BY <1>3, <1>4, <1>5, <1>6, <1>7 DEF IsVault, v

\* A token of a vault is one of its label, up to the counter.
LEMMA TokensOfVault ==
  ASSUME NEW v, IsVault(v)
  PROVE  /\ Len(v.tokens) \in Nat /\ DOMAIN v.tokens = 1 .. Len(v.tokens)
         /\ DOMAIN v.to_real = DOMAIN v.tokens
         /\ \A label \in Labels : v.counters[label] \in Nat
         /\ \A n \in DOMAIN v.tokens :
              \E label \in Labels : \E k \in 1 .. v.counters[label] : v.tokens[n] = Token(label, k)
         /\ \A n \in DOMAIN v.tokens : v.tokens[n] \in TokenText
<1>1. /\ Len(v.tokens) \in Nat /\ DOMAIN v.tokens = 1 .. Len(v.tokens)
      /\ DOMAIN v.to_real = DOMAIN v.tokens
      /\ \A label \in Labels : v.counters[label] \in Nat
  BY DEF IsVault
<1>2. ASSUME NEW n \in DOMAIN v.tokens
      PROVE  \E label \in Labels : \E k \in 1 .. v.counters[label] : v.tokens[n] = Token(label, k)
  <2> DEFINE label == LabelOf(v.to_real[n])
  <2>1. label \in Labels
    BY DEF LabelOf, Labels
  <2>2. v.tokens[n] \in {v.tokens[m] : m \in {m \in DOMAIN v.tokens : LabelOf(v.to_real[m]) = label}}
    OBVIOUS
  <2> HIDE DEF label
  <2>3. v.tokens[n] \in {Token(label, k) : k \in 1 .. v.counters[label]}
    BY <2>1, <2>2 DEF IsVault
  <2> QED
    BY <2>1, <2>3
<1>3. \A n \in DOMAIN v.tokens : v.tokens[n] \in TokenText
  <2> SUFFICES ASSUME NEW n \in DOMAIN v.tokens
               PROVE  v.tokens[n] \in TokenText
    OBVIOUS
  <2>1. PICK label \in Labels :
         \E k \in 1 .. v.counters[label] : v.tokens[n] = Token(label, k)
    BY <1>2
  <2> QED
    BY <1>1, <2>1, TokenFacts
<1> QED
  BY <1>1, <1>2, <1>3

\* The next token of a label is new, and is put at the end.
LEMMA NextPlace ==
  ASSUME NEW v, IsVault(v), NEW label \in Labels
  PROVE  /\ \A n \in DOMAIN v.tokens : v.tokens[n] # Token(label, v.counters[label] + 1)
         /\ Place(v.tokens, Token(label, v.counters[label] + 1)) = Len(v.tokens) + 1
<1>1. ASSUME NEW n \in DOMAIN v.tokens, v.tokens[n] = Token(label, v.counters[label] + 1)
      PROVE  FALSE
  <2>0. PICK l \in Labels : \E k \in 1 .. v.counters[l] : v.tokens[n] = Token(l, k)
    BY TokensOfVault
  <2>1. PICK k \in 1 .. v.counters[l] : v.tokens[n] = Token(l, k)
    BY <2>0
  <2>2. k \in Nat /\ v.counters[label] + 1 \in Nat /\ v.counters[label] \in Nat
    BY <2>1, TokensOfVault
  <2>3. l = label /\ k = v.counters[label] + 1
    BY <1>1, <2>1, <2>2, TokenFacts
  <2> QED
    BY <2>1, <2>2, <2>3
<1> QED
  BY <1>1 DEF Place

\* What a vault is after a new token.
LEMMA IssueDef ==
  ASSUME NEW v, IsVault(v), NEW value
  PROVE  LET label == LabelOf(value)
             w == Issue(v, value)
             N == Len(v.tokens) + 1
             n == v.counters[label] + 1
         IN /\ w.tokens = [i \in DOMAIN v.tokens \cup {N} |->
                             IF i = N THEN Token(label, n) ELSE v.tokens[i]]
            /\ w.to_real = [i \in DOMAIN v.tokens \cup {N} |->
                              IF i = N THEN value ELSE v.to_real[i]]
            /\ w.to_token = [x \in DOMAIN v.to_token \cup {value} |->
                               IF x = value THEN N ELSE v.to_token[x]]
            /\ w.counters = [v.counters EXCEPT ![label] = n]
            /\ w.meta = IF label = "T"
                        THEN [i \in DOMAIN v.meta \cup {N} |->
                                IF i = N THEN Scope(value) ELSE v.meta[i]]
                        ELSE v.meta
<1> DEFINE label == LabelOf(value)
           w == Issue(v, value)
           N == Len(v.tokens) + 1
           n == v.counters[label] + 1
           tok == Token(label, n)
<1>1. label \in Labels
  BY DEF LabelOf, Labels
<1>2. Place(v.tokens, tok) = N
  BY <1>1, NextPlace
<1>3. w = Vault(Put(v.tokens, Place(v.tokens, tok), tok), Put(v.to_real, Place(v.tokens, tok), value),
                Put(v.to_token, value, Place(v.tokens, tok)), [v.counters EXCEPT ![label] = n],
                Described(v.meta, Place(v.tokens, tok), value))
  BY DEF Issue
<1> HIDE DEF w, tok, N, n
<1>4. /\ w.tokens = Put(v.tokens, N, tok) /\ w.to_real = Put(v.to_real, N, value)
      /\ w.to_token = Put(v.to_token, value, N) /\ w.counters = [v.counters EXCEPT ![label] = n]
      /\ w.meta = Described(v.meta, N, value)
  BY <1>2, <1>3 DEF Vault
<1>5. DOMAIN v.to_real = DOMAIN v.tokens
  BY DEF IsVault
<1>6. N \notin DOMAIN v.meta
  <2>1. DOMAIN v.meta \subseteq DOMAIN v.tokens
    BY DEF IsVault
  <2>2. N \notin DOMAIN v.tokens
    BY TokensOfVault DEF N
  <2> QED
    BY <2>1, <2>2
<1>7. Described(v.meta, N, value) = IF label = "T" THEN Put(v.meta, N, Scope(value)) ELSE v.meta
  BY <1>6 DEF Described
<1>8. /\ w.tokens = [i \in DOMAIN v.tokens \cup {N} |-> IF i = N THEN tok ELSE v.tokens[i]]
      /\ w.to_real = [i \in DOMAIN v.tokens \cup {N} |-> IF i = N THEN value ELSE v.to_real[i]]
      /\ w.to_token = [x \in DOMAIN v.to_token \cup {value} |-> IF x = value THEN N ELSE v.to_token[x]]
  BY <1>4, <1>5 DEF Put
<1>9. w.meta = IF label = "T"
               THEN [i \in DOMAIN v.meta \cup {N} |-> IF i = N THEN Scope(value) ELSE v.meta[i]]
               ELSE v.meta
  BY <1>4, <1>7 DEF Put
<1> QED
  BY <1>4, <1>8, <1>9 DEF w, tok, N, n

\* A new token leaves the others as they are.
LEMMA IssueFacts ==
  ASSUME NEW v, IsVault(v), NEW value, value \notin DOMAIN v.to_token
  PROVE  /\ IsVault(Issue(v, value))
         /\ DOMAIN Issue(v, value).tokens = DOMAIN v.tokens \cup {Len(v.tokens) + 1}
         /\ \A n \in DOMAIN v.tokens : /\ n \in DOMAIN Issue(v, value).tokens
                                       /\ Issue(v, value).tokens[n] = v.tokens[n]
                                       /\ Issue(v, value).to_real[n] = v.to_real[n]
         /\ Issue(v, value).to_real[Len(v.tokens) + 1] = value
<1> DEFINE label == LabelOf(value)
           w == Issue(v, value)
           D == DOMAIN v.tokens
           N == Len(v.tokens) + 1
           n == v.counters[label] + 1
           tok == Token(label, n)
<1>1. /\ w.tokens = [i \in D \cup {N} |-> IF i = N THEN tok ELSE v.tokens[i]]
      /\ w.to_real = [i \in D \cup {N} |-> IF i = N THEN value ELSE v.to_real[i]]
      /\ w.to_token = [x \in DOMAIN v.to_token \cup {value} |-> IF x = value THEN N ELSE v.to_token[x]]
      /\ w.counters = [v.counters EXCEPT ![label] = n]
      /\ w.meta = IF label = "T"
                  THEN [i \in DOMAIN v.meta \cup {N} |-> IF i = N THEN Scope(value) ELSE v.meta[i]]
                  ELSE v.meta
  BY IssueDef
<1>2. /\ label \in Labels /\ n \in Nat /\ n = v.counters[label] + 1 /\ v.counters[label] \in Nat
      /\ N \in Nat /\ N \notin D /\ D \cup {N} = 1 .. N /\ D \subseteq Nat
  <2>1. label \in Labels
    BY DEF LabelOf, Labels
  <2>2. Len(v.tokens) \in Nat /\ D = 1 .. Len(v.tokens) /\ v.counters[label] \in Nat
    BY <2>1, TokensOfVault
  <2> QED
    BY <2>1, <2>2
<1>3. tok \in Text /\ \A i \in D : v.tokens[i] # tok
  <2>1. tok \in TokenText
    BY <1>2, TokenFacts
  <2>2. tok \in Text
    BY <2>1, LetteredFacts
  <2>3. \A i \in D : v.tokens[i] # tok
    BY <1>2, NextPlace
  <2> QED
    BY <2>2, <2>3
<1> HIDE DEF w, tok
<1>4. /\ DOMAIN w.tokens = D \cup {N} /\ DOMAIN w.to_real = D \cup {N}
      /\ \A i \in D : w.tokens[i] = v.tokens[i] /\ w.to_real[i] = v.to_real[i]
      /\ w.tokens[N] = tok /\ w.to_real[N] = value
  <2> HIDE DEF N, D
  <2> QED
    BY <1>1, <1>2
<1>5. w.tokens \in Seq(Text)
  <2>1. \A i \in D : v.tokens[i] \in Text
    BY DEF IsVault
  <2>2. w.tokens \in [1 .. N -> Text]
    <3> HIDE DEF N, D
    <3> QED
      BY <1>1, <1>2, <1>3, <2>1
  <2> HIDE DEF N
  <2> QED
    BY <1>2, <2>2
<1>6. w.counters \in [Labels -> Nat]
  BY <1>1, <1>2 DEF IsVault
<1> HIDE DEF D, N, n
<1>7. \A i, j \in D \cup {N} : w.tokens[i] = w.tokens[j] => i = j
  <2>1. \A i, j \in D : v.tokens[i] = v.tokens[j] => i = j
    BY DEF IsVault, D
  <2> QED
    BY <1>3, <1>4, <2>1
<1>8. ASSUME NEW l \in Labels
      PROVE  {w.tokens[i] : i \in {i \in D \cup {N} : LabelOf(w.to_real[i]) = l}}
               = {Token(l, k) : k \in 1 .. w.counters[l]}
  <2>1. {v.tokens[i] : i \in {i \in D : LabelOf(v.to_real[i]) = l}}
          = {Token(l, k) : k \in 1 .. v.counters[l]}
    BY DEF IsVault, D
  <2> DEFINE old == {i \in D : LabelOf(v.to_real[i]) = l}
             new == {i \in D \cup {N} : LabelOf(w.to_real[i]) = l}
  <2>2. CASE l = label
    <3>1. new = old \cup {N}
      BY <1>4, <2>2
    <3>2. {w.tokens[i] : i \in new} = {v.tokens[i] : i \in old} \cup {tok}
      <4>1. \A i \in old : w.tokens[i] = v.tokens[i]
        BY <1>4
      <4> HIDE DEF old, new
      <4> QED
        BY <1>4, <3>1, <4>1
    <3>3. w.counters[l] = n /\ n = v.counters[l] + 1 /\ v.counters[l] \in Nat
      BY <1>1, <1>2, <2>2 DEF IsVault
    <3>4. 1 .. w.counters[l] = (1 .. v.counters[l]) \cup {n}
      BY <3>3
    <3>5. tok = Token(l, n)
      BY <2>2 DEF tok
    <3> HIDE DEF old, new
    <3>6. {Token(l, k) : k \in 1 .. w.counters[l]} = {Token(l, k) : k \in 1 .. v.counters[l]} \cup {tok}
      BY <3>4, <3>5
    <3> QED
      BY <2>1, <3>2, <3>6 DEF old, new
  <2>3. CASE l # label
    <3>1. new = old
      BY <1>2, <1>4, <2>3
    <3>2. {w.tokens[i] : i \in new} = {v.tokens[i] : i \in old}
      <4>1. \A i \in old : w.tokens[i] = v.tokens[i]
        BY <1>4
      <4> HIDE DEF old, new
      <4> QED
        BY <3>1, <4>1
    <3>3. w.counters[l] = v.counters[l]
      BY <1>1, <2>3 DEF IsVault
    <3> QED
      BY <2>1, <3>2, <3>3
  <2> QED
    BY <2>2, <2>3
<1>9. /\ DOMAIN w.to_token = {w.to_real[i] : i \in D \cup {N}}
      /\ \A i \in D \cup {N} : w.to_token[w.to_real[i]] = i
  <2>1. /\ DOMAIN v.to_token = {v.to_real[i] : i \in D}
        /\ \A i \in D : v.to_token[v.to_real[i]] = i
    BY DEF IsVault, D
  <2>2. ASSUME NEW i \in D
        PROVE  w.to_token[w.to_real[i]] = i
    BY <1>1, <1>4, <2>1
  <2>3. w.to_token[w.to_real[N]] = N
    BY <1>1, <1>4
  <2>4. DOMAIN w.to_token = {w.to_real[i] : i \in D \cup {N}}
    <3>1. DOMAIN w.to_token = {v.to_real[i] : i \in D} \cup {value}
      BY <1>1, <2>1
    <3>2. {w.to_real[i] : i \in D \cup {N}} = {v.to_real[i] : i \in D} \cup {value}
      BY <1>4
    <3> QED
      BY <3>1, <3>2
  <2> QED
    BY <2>2, <2>3, <2>4
<1>10. w.meta = [i \in {i \in D \cup {N} : LabelOf(w.to_real[i]) = "T"} |-> Scope(w.to_real[i])]
  <2> DEFINE old == {i \in D : LabelOf(v.to_real[i]) = "T"}
             new == {i \in D \cup {N} : LabelOf(w.to_real[i]) = "T"}
  <2>1. v.meta = [i \in old |-> Scope(v.to_real[i])]
    BY DEF IsVault, D
  <2>2. CASE label = "T"
    <3>1. new = old \cup {N}
      BY <1>4, <2>2
    <3>2. \A i \in old : w.to_real[i] = v.to_real[i] /\ i # N
      BY <1>2, <1>4
    <3>3. w.meta = [i \in DOMAIN v.meta \cup {N} |-> IF i = N THEN Scope(value) ELSE v.meta[i]]
      BY <1>1, <2>2
    <3>4. w.to_real[N] = value
      BY <1>4
    <3> HIDE DEF old, new, Scope
    <3>5. DOMAIN v.meta = old /\ \A i \in old : v.meta[i] = Scope(v.to_real[i])
      BY <2>1
    <3>6. w.meta = [i \in new |-> Scope(w.to_real[i])]
      BY <3>1, <3>2, <3>3, <3>4, <3>5
    <3> QED
      BY <3>6 DEF new
  <2>3. CASE label # "T"
    <3>1. new = old
      BY <1>4, <2>3
    <3>2. \A i \in old : w.to_real[i] = v.to_real[i]
      BY <1>4
    <3>3. w.meta = v.meta
      BY <1>1, <2>3
    <3> HIDE DEF old, new, Scope
    <3>4. w.meta = [i \in new |-> Scope(w.to_real[i])]
      BY <2>1, <3>1, <3>2, <3>3
    <3> QED
      BY <3>4 DEF new
  <2> QED
    BY <2>2, <2>3
<1>11. IsVault(w)
  BY <1>4, <1>5, <1>6, <1>7, <1>8, <1>9, <1>10 DEF IsVault
<1> QED
  BY <1>4, <1>11 DEF w, D, N

\* token_for keeps a vault one, and its tokens.
LEMMA TokenForFacts ==
  ASSUME NEW v, IsVault(v), NEW value
  PROVE  /\ IsVault(TokenFor(v, value))
         /\ \A n \in DOMAIN v.tokens : /\ n \in DOMAIN TokenFor(v, value).tokens
                                       /\ TokenFor(v, value).tokens[n] = v.tokens[n]
                                       /\ TokenFor(v, value).to_real[n] = v.to_real[n]
<1>1. CASE value \in DOMAIN v.to_token
  BY <1>1 DEF TokenFor
<1>2. CASE value \notin DOMAIN v.to_token
  BY <1>2, IssueFacts DEF TokenFor
<1> QED
  BY <1>1, <1>2

\* restore(snapshot()) is the vault that was saved.
LEMMA RestoreFacts ==
  ASSUME NEW v, IsVault(v)
  PROVE  IsVault(Restore(Snapshot(v)))
<1> DEFINE w == Restore(Snapshot(v))
           D == DOMAIN v.tokens
<1>1. /\ w.tokens = v.tokens /\ w.to_real = v.to_real /\ w.counters = v.counters /\ w.meta = v.meta
      /\ w.to_token = Inverted(v.to_real)
  BY DEF Restore, Snapshot, Vault
<1>2. DOMAIN v.to_real = D /\ D \subseteq Nat
  BY TokensOfVault
<1>3. \A i, j \in D : v.to_real[i] = v.to_real[j] => i = j
  BY DEF IsVault
<1>4. DOMAIN w.to_token = {w.to_real[n] : n \in D}
  BY <1>1, <1>2 DEF Inverted
<1>5. ASSUME NEW n \in D
      PROVE  Inverted(v.to_real)[v.to_real[n]] = n
  <2> DEFINE P(i) == /\ v.to_real[i] = v.to_real[n]
                     /\ \A k \in DOMAIN v.to_real : v.to_real[k] = v.to_real[n] => k <= i
  <2>1. Inverted(v.to_real)[v.to_real[n]] = CHOOSE i \in DOMAIN v.to_real : P(i)
    BY <1>2 DEF Inverted
  <2>2. n \in DOMAIN v.to_real /\ P(n)
    BY <1>2, <1>3
  <2>3. \A i \in DOMAIN v.to_real : P(i) => i = n
    BY <1>2, <1>3
  <2> HIDE DEF P
  <2> QED
    BY <2>1, <2>2, <2>3
<1> HIDE DEF w
<1>6. /\ w.tokens \in Seq(Text) /\ DOMAIN w.to_real = DOMAIN w.tokens
      /\ w.counters \in [Labels -> Nat]
      /\ \A m, n \in DOMAIN w.tokens : w.tokens[m] = w.tokens[n] => m = n
  BY <1>1 DEF IsVault
<1>7. \A label \in Labels :
        {w.tokens[n] : n \in {n \in DOMAIN w.tokens : LabelOf(w.to_real[n]) = label}}
          = {Token(label, k) : k \in 1 .. w.counters[label]}
  <2>1. \A label \in Labels :
          {v.tokens[n] : n \in {n \in DOMAIN v.tokens : LabelOf(v.to_real[n]) = label}}
            = {Token(label, k) : k \in 1 .. v.counters[label]}
    BY DEF IsVault
  <2> QED
    BY <1>1, <2>1, Zenon
<1>8. /\ DOMAIN w.to_token = {w.to_real[n] : n \in DOMAIN w.tokens}
      /\ \A n \in DOMAIN w.tokens : w.to_token[w.to_real[n]] = n
  BY <1>1, <1>4, <1>5
<1>9. w.meta = [n \in {n \in DOMAIN w.tokens : LabelOf(w.to_real[n]) = "T"} |-> Scope(w.to_real[n])]
  BY <1>1 DEF IsVault
<1>10. IsVault(w)
  BY <1>6, <1>7, <1>8, <1>9 DEF IsVault
<1> QED
  BY <1>10 DEF w

-----------------------------------------------------------------------------
\* The invariant holds at first.
LEMMA InitInv == Init => Inv
<1> SUFFICES ASSUME Init
             PROVE  Inv
  OBVIOUS
<1>1. VaultIsABijection
  BY NewVaultIsOne, RestoreFacts DEF Init, VaultIsABijection
<1>2. prompt \in Seq({}) /\ executed \in Seq({}) /\ Len(prompt) = 0 /\ Len(executed) = 0
  BY DEF Init
<1>3. StepsOK
  BY <1>2, MaxStepsAssumption DEF Init, StepsOK
<1> QED
  BY <1>1, <1>3 DEF Inv

\* What the saved session and the vault in use have in common with the next.
Goes ==
  /\ VaultIsABijection'
  /\ \A n \in DOMAIN Table.tokens :
       /\ n \in DOMAIN Table'.tokens
       /\ Table'.tokens[n] = Table.tokens[n] /\ Table'.to_real[n] = Table.to_real[n]

\* Every step keeps the vaults and what the tokens mean.
LEMMA NextGoes == Inv /\ [Next]_vars => Goes
<1> SUFFICES ASSUME Inv, [Next]_vars
             PROVE  Goes
  OBVIOUS
<1>1. IsVault(vault) /\ IsVault(Restore(saved))
  BY DEF Inv, VaultIsABijection
<1>2. ASSUME UNCHANGED <<vault, saved>>, pc # "suspended", pc' # "suspended"
      PROVE  Goes
  BY <1>1, <1>2 DEF Goes, VaultIsABijection, Table
<1>3. ASSUME NEW request \in Requests, Handle(request)
      PROVE  Goes
  BY <1>2, <1>3 DEF Handle, Tokenize
<1>4. CASE TokenizeNext
  <2>1. vault' = TokenFor(vault, Head(todo)) /\ saved' = saved /\ pc' = pc /\ pc = "tokenizing"
    BY <1>4 DEF TokenizeNext
  <2>2. IsVault(vault') /\ \A n \in DOMAIN vault.tokens :
          /\ n \in DOMAIN vault'.tokens
          /\ vault'.tokens[n] = vault.tokens[n] /\ vault'.to_real[n] = vault.to_real[n]
    BY <1>1, <2>1, TokenForFacts
  <2> QED
    BY <1>1, <2>1, <2>2 DEF Goes, VaultIsABijection, Table
<1>5. CASE Tokenized
  BY <1>2, <1>5 DEF Tokenized
<1>6. CASE ReplaceKnown \/ ThenTheOthers
  BY <1>2, <1>6 DEF ReplaceKnown, ThenTheOthers
<1>7. ASSUME NEW word \in Shown, Allow(word)
      PROVE  Goes
  BY <1>2, <1>7 DEF Allow
<1>8. ASSUME NEW word \in Shown, Suspend(word)
      PROVE  Goes
  <2>1. saved' = Snapshot(vault) /\ vault' = NewVault /\ pc = "proposing" /\ pc' = "suspended"
    BY <1>8 DEF Suspend
  <2>2. IsVault(vault') /\ IsVault(Restore(saved'))
    BY <1>1, <2>1, NewVaultIsOne, RestoreFacts
  <2>3. saved'.to_real = vault.to_real /\ saved'.tokens = vault.tokens
    BY <2>1 DEF Snapshot
  <2> QED
    BY <2>1, <2>2, <2>3 DEF Goes, VaultIsABijection, Table
<1>9. CASE Resume
  <2>1. /\ vault' = Restore(saved) /\ saved' = Snapshot(NewVault)
        /\ pc = "suspended" /\ pc' = "executing"
    BY <1>9 DEF Resume
  <2>2. IsVault(Restore(saved'))
    BY <2>1, NewVaultIsOne, RestoreFacts
  <2>3. vault'.to_real = saved.to_real /\ vault'.tokens = saved.tokens
    BY <2>1 DEF Restore, Vault
  <2> QED
    BY <1>1, <2>1, <2>2, <2>3 DEF Goes, VaultIsABijection, Table
<1>10. CASE End
  BY <1>2, <1>10 DEF End
<1>11. CASE Execute
  BY <1>2, <1>11 DEF Execute, KnownFirst
<1>12. CASE UNCHANGED vars
  BY <1>1, <1>12 DEF vars, Goes, VaultIsABijection, Table
<1> QED
  BY <1>3, <1>4, <1>5, <1>6, <1>7, <1>8, <1>9, <1>10, <1>11, <1>12 DEF Next

\* Every step keeps the order of the steps.
LEMMA NextSteps == Inv /\ [Next]_vars => StepsOK'
<1> SUFFICES ASSUME Inv, [Next]_vars
             PROVE  StepsOK'
  OBVIOUS
<1>1. StepsOK /\ Len(vault.tokens) \in Nat
  BY DEF Inv, VaultIsABijection, IsVault
<1>2. PICK S : prompt \in Seq(S)
  BY <1>1 DEF StepsOK
<1>3. PICK R : executed \in Seq(R)
  BY <1>1 DEF StepsOK
<1>4. Len(prompt) \in Nat /\ Len(executed) \in Nat
  BY <1>2, <1>3
<1>5. ASSUME NEW request \in Requests, Handle(request)
      PROVE  StepsOK'
  BY <1>1, <1>5 DEF Handle, Tokenize, StepsOK
<1>6. CASE TokenizeNext
  BY <1>1, <1>6 DEF TokenizeNext, StepsOK
<1>7. CASE Tokenized
  <2>1. PICK e : prompt' = Append(prompt, e)
    BY <1>7 DEF Tokenized
  <2>2. prompt' \in Seq(S \cup {e}) /\ Len(prompt') = Len(prompt) + 1
    BY <1>2, <2>1
  <2> QED
    BY <1>1, <1>4, <1>7, <2>2, MaxStepsAssumption DEF Tokenized, StepsOK
<1>8. CASE ReplaceKnown \/ ThenTheOthers
  BY <1>1, <1>8 DEF ReplaceKnown, ThenTheOthers, StepsOK
<1>9. ASSUME NEW word \in Shown, Allow(word) \/ Suspend(word)
      PROVE  StepsOK'
  BY <1>1, <1>9 DEF Allow, Suspend, StepsOK
<1>10. CASE Resume \/ End
  BY <1>1, <1>10 DEF Resume, End, StepsOK
<1>11. CASE Execute
  <2>1. PICK e : executed' = Append(executed, e)
    BY <1>11 DEF Execute
  <2>2. executed' \in Seq(R \cup {e}) /\ Len(executed') = Len(executed) + 1
    BY <1>3, <2>1
  <2>3. pc = "executing" /\ prompt' = prompt
    BY <1>11 DEF Execute
  <2>4. \/ pc' = "known" /\ reading'.known = Len(vault.tokens)
        \/ pc' = "ended" /\ reading' = reading
    BY <1>11 DEF Execute, KnownFirst
  <2>5. \E T : executed' \in Seq(T)
    BY <2>2
  <2>6. Len(vault.tokens) \in Nat /\ reading.known \in Nat
    BY <1>1 DEF StepsOK
  <2>7. Len(executed) < MaxSteps /\ Len(prompt) = Len(executed) + 1
    BY <1>1, <2>3 DEF StepsOK
  <2> QED
    BY <1>1, <1>4, <2>2, <2>3, <2>4, <2>5, <2>6, <2>7, MaxStepsAssumption DEF StepsOK
<1>12. CASE UNCHANGED vars
  BY <1>1, <1>12 DEF vars, StepsOK
<1> QED
  BY <1>5, <1>6, <1>7, <1>8, <1>9, <1>10, <1>11, <1>12 DEF Next

\* The invariant is inductive.
THEOREM VaultInvariance == Spec => []Inv
<1>1. Inv /\ [Next]_vars => Inv'
  BY NextGoes, NextSteps DEF Goes, Inv
<1> QED
  BY InitInv, <1>1, PTL DEF Spec

\* Type correctness, with the bound on the steps of the run.
THEOREM VaultTypeCorrect == Spec => []TypeOK
<1>1. Inv => TypeOK
  <2> SUFFICES ASSUME Inv
               PROVE  TypeOK
    OBVIOUS
  <2>1. {vault.counters[label] : label \in Labels} \subseteq Nat
    BY DEF Inv, VaultIsABijection, IsVault
  <2>2. PICK S : executed \in Seq(S)
    BY DEF Inv, StepsOK
  <2>3. Len(executed) \in Nat
    BY <2>2
  <2> QED
    BY <2>1, <2>3, MaxStepsAssumption DEF Inv, StepsOK, TypeOK
<1> QED
  BY VaultInvariance, <1>1, PTL

\* One token per value and one value per token, with its scope, in the vault
\* in use and in the one a session was saved with (vault.py:60-72, 92-112).
THEOREM VaultStaysABijection == Spec => []VaultIsABijection
<1>1. Inv => VaultIsABijection
  BY DEF Inv
<1> QED
  BY VaultInvariance, <1>1, PTL

\* A token keeps its value to the end of the run, over every suspension.
THEOREM TokensAreStable == Spec => TokensKeepTheirMeaning
<1>1. Inv /\ [Next]_vars =>
        [\A n \in DOMAIN Table.tokens :
           /\ n \in DOMAIN Table'.tokens
           /\ Table'.tokens[n] = Table.tokens[n] /\ Table'.to_real[n] = Table.to_real[n]]_vars
  BY NextGoes DEF Goes
<1> QED
  BY VaultInvariance, <1>1, PTL DEF Spec, TokensKeepTheirMeaning

-----------------------------------------------------------------------------
(***************************************************************************)
(* The texts of a run.                                                     *)
(***************************************************************************)
\* A text of the prompt, and a call of an agent.
Entry == [said : Text, known : Nat, shown : Text, issued : Nat]
Call == [args : Text, real : Text, issued : Nat]

\* What the variables hold.
TextsOK ==
  /\ reading \in [said : Text, known : Nat] /\ text \in Text /\ todo \in Seq(RealValue)
  /\ args \in Text
  /\ prompt \in Seq(Entry) /\ executed \in Seq(Call)

\* Only what the extractor finds has a token.
ValuesOK ==
  /\ vault.to_real \in [DOMAIN vault.to_real -> RealValue]
  /\ saved.to_real \in [DOMAIN saved.to_real -> RealValue]
  /\ pc = "idle" => DOMAIN vault.to_real = {}
  /\ pc = "known" => \A k \in DOMAIN todo : todo[k] \in DOMAIN vault.to_token

\* An address with a token that is still in the text is still to be replaced.
HidingOK ==
  pc \in {"known", "tokenizing"} =>
    \A n \in DOMAIN vault.to_real :
      vault.to_real[n] \in Address /\ Within(vault.to_real[n], text) =>
        \E k \in DOMAIN todo : todo[k] = vault.to_real[n]

\* No address with a token is seen in a text of the prompt.
PromptOK ==
  \A k \in DOMAIN prompt : \A n \in 1 .. prompt[k].issued :
    /\ n \in DOMAIN Table.tokens
    /\ Table.to_real[n] \in Address => ~Within(Table.to_real[n], prompt[k].shown)

\* A token alone as an argument was executed as its value.
CallsOK ==
  \A k \in DOMAIN executed : \A n \in 1 .. executed[k].issued :
    /\ n \in DOMAIN Table.tokens
    /\ executed[k].args = Table.tokens[n] => executed[k].real = Table.to_real[n]

\* The inductive invariant of the texts.
TextInv == TextsOK /\ ValuesOK /\ HidingOK /\ PromptOK /\ CallsOK

\* What the proposer writes is a text.
LEMMA ShownFacts ==
  ASSUME prompt \in Seq(Entry)
  PROVE  Shown \subseteq Text
<1> SUFFICES ASSUME NEW word \in Shown
             PROVE  word \in Text
  OBVIOUS
<1>1. PICK k \in DOMAIN prompt : word \in Words(prompt[k].shown)
  BY DEF Shown
<1> DEFINE s == prompt[k].shown
<1>2. s \in Text
  <2>1. prompt[k] \in Entry
    BY <1>1
  <2> QED
    BY <2>1 DEF Entry
<1>3. PICK i \in DOMAIN s, j \in DOMAIN s : word = SubSeq(s, i, j)
  BY <1>1 DEF Words
<1> HIDE DEF s
<1> QED
  BY <1>2, <1>3, SubSeqProperties DEF Text

\* The vault's values, in the order in which a result is searched for them.
LEMMA KnownFacts ==
  ASSUME NEW v, IsVault(v), \A n \in DOMAIN v.to_real : v.to_real[n] \in RealValue
  PROVE  /\ LongestFirst(DOMAIN v.to_token, v.to_token) \in Seq(RealValue)
         /\ IsOrder(LongestFirst(DOMAIN v.to_token, v.to_token), DOMAIN v.to_token)
<1> DEFINE words == DOMAIN v.to_token
           rank == v.to_token
           N == Len(v.tokens)
<1>1. N \in Nat /\ words = {v.to_real[n] : n \in 1 .. N} /\ DOMAIN v.to_real = 1 .. N
      /\ \A n \in 1 .. N : rank[v.to_real[n]] = n
  BY TokensOfVault DEF IsVault
<1> HIDE DEF words, rank, N
<1>2. words \subseteq RealValue /\ words \in SUBSET (Text \ {<<>>})
  <2>1. words \subseteq RealValue
    BY <1>1
  <2>2. \A w \in words : w \in Text /\ w # <<>>
    BY <2>1, LetteredFacts
  <2> QED
    BY <2>1, <2>2
<1>3. IsFiniteSet(words)
  <2> DEFINE f == [n \in 1 .. N |-> v.to_real[n]]
  <2>1. f \in Surjection(1 .. N, words)
    BY <1>1 DEF Surjection
  <2>2. IsFiniteSet(1 .. N)
    BY <1>1, FS_Interval
  <2> HIDE DEF f
  <2> QED
    BY <2>1, <2>2, FS_Surjection
<1>4. \A w \in words : rank[w] \in Nat
  BY <1>1
<1>5. \A w, x \in words : Length(w) = Length(x) /\ rank[w] = rank[x] => w = x
  BY <1>1
<1>6. IsOrder(LongestFirst(words, rank), words)
  BY <1>2, <1>3, <1>4, <1>5, LongestFirstFacts
<1>7. LongestFirst(words, rank) \in Seq(RealValue)
  BY <1>2, <1>6, SeqMonotonic DEF IsOrder
<1> QED
  BY <1>6, <1>7 DEF words, rank

\* What the extractor finds.
LEMMA ExtractType ==
  ASSUME NEW s \in Text
  PROVE  Extract(s) \in Seq(RealValue)
<1>1. Extract(s) \in Seq(Found(s)) /\ Found(s) \subseteq RealValue
  BY ExtractFacts, FoundFacts DEF IsOrder
<1> QED
  BY <1>1, SeqMonotonic

\* The value of a token is among those that are replaced.
LEMMA InVault ==
  ASSUME NEW v, IsVault(v)
  PROVE  /\ \A n \in DOMAIN v.to_real : v.to_real[n] \in DOMAIN v.to_token
         /\ \A x \in DOMAIN v.to_token : /\ v.to_token[x] \in DOMAIN v.to_real
                                         /\ v.to_real[v.to_token[x]] = x
                                         /\ TokenOf(v, x) \in TokenText
<1>1. DOMAIN v.to_real = DOMAIN v.tokens /\ \A n \in DOMAIN v.tokens : v.tokens[n] \in TokenText
  BY TokensOfVault
<1>2. /\ DOMAIN v.to_token = {v.to_real[n] : n \in DOMAIN v.tokens}
      /\ \A n \in DOMAIN v.tokens : v.to_token[v.to_real[n]] = n
  BY DEF IsVault
<1> QED
  BY <1>1, <1>2 DEF TokenOf

\* A vault of the values of a text is a table for detokenize.
LEMMA VaultIsTable ==
  ASSUME NEW v, IsVault(v), v.to_real \in [DOMAIN v.to_real -> RealValue]
  PROVE  IsTable(v)
<1>1. /\ DOMAIN v.to_real = DOMAIN v.tokens /\ Len(v.tokens) \in Nat
      /\ DOMAIN v.tokens = 1 .. Len(v.tokens) /\ \A n \in DOMAIN v.tokens : v.tokens[n] \in TokenText
  BY TokensOfVault
<1>2. v.tokens \in Seq(Text) /\ \A m, n \in DOMAIN v.tokens : v.tokens[m] = v.tokens[n] => m = n
  BY DEF IsVault
<1>3. v.tokens \in Seq(TokenText)
  BY <1>1, <1>2, SeqDef
<1> QED
  BY <1>1, <1>2, <1>3 DEF IsTable

\* The values of a vault after token_for.
LEMMA TokenForValues ==
  ASSUME NEW v, IsVault(v), NEW value
  PROVE  /\ \A S : v.to_real \in [DOMAIN v.to_real -> S] /\ value \in S =>
              TokenFor(v, value).to_real \in [DOMAIN TokenFor(v, value).to_real -> S]
         /\ value \in DOMAIN TokenFor(v, value).to_token
         /\ \A n \in DOMAIN TokenFor(v, value).to_real :
              \/ n \in DOMAIN v.to_real /\ TokenFor(v, value).to_real[n] = v.to_real[n]
              \/ TokenFor(v, value).to_real[n] = value
<1>1. CASE value \in DOMAIN v.to_token
  BY <1>1 DEF TokenFor
<1>2. CASE value \notin DOMAIN v.to_token
  <2> DEFINE w == Issue(v, value)
             N == Place(v.tokens, Token(LabelOf(value), v.counters[LabelOf(value)] + 1))
  <2>1. TokenFor(v, value) = w
    BY <1>2 DEF TokenFor
  <2>2. /\ w.to_real = [i \in DOMAIN v.to_real \cup {N} |-> IF i = N THEN value ELSE v.to_real[i]]
        /\ w.to_token = [x \in DOMAIN v.to_token \cup {value} |-> IF x = value THEN N ELSE v.to_token[x]]
    <3> HIDE DEF N
    <3>1. w.to_real = Put(v.to_real, N, value) /\ w.to_token = Put(v.to_token, value, N)
      BY DEF Issue, Vault, N
    <3> HIDE DEF w
    <3> QED
      BY <3>1 DEF Put
  <2> HIDE DEF w, N
  <2>3. ASSUME NEW S, v.to_real \in [DOMAIN v.to_real -> S], value \in S
        PROVE  w.to_real \in [DOMAIN w.to_real -> S]
    BY <2>2, <2>3
  <2> QED
    BY <2>1, <2>2, <2>3
<1> QED
  BY <1>1, <1>2

\* Tables that only grow keep what a prompt hides and what a call was given.
LEMMA PromptStays ==
  ASSUME TextInv, Goes, prompt' = prompt, executed' = executed
  PROVE  PromptOK' /\ CallsOK'
<1>1. \A n \in DOMAIN Table.tokens :
        /\ n \in DOMAIN Table'.tokens
        /\ Table'.tokens[n] = Table.tokens[n] /\ Table'.to_real[n] = Table.to_real[n]
  BY DEF Goes
<1>2. PromptOK'
  BY <1>1 DEF TextInv, PromptOK
<1>3. CallsOK'
  BY <1>1 DEF TextInv, CallsOK
<1> QED
  BY <1>2, <1>3

\* The text of a step whose vault stays.
LEMMA HandleText ==
  ASSUME Inv, TextInv, Goes, NEW request \in Requests, Handle(request)
  PROVE  TextInv'
<1>1. request \in Text /\ pc = "idle" /\ pc' = "tokenizing"
      /\ reading' = [said |-> request, known |-> 0] /\ text' = request
      /\ todo' = Extract(request) /\ UNCHANGED <<vault, saved, prompt, args, executed>>
  BY TextsAssumption DEF Handle, Tokenize
<1>2. TextsOK'
  <2>1. todo' \in Seq(RealValue)
    BY <1>1, ExtractType
  <2> QED
    BY <1>1, <2>1 DEF TextInv, TextsOK
<1>3. ValuesOK' /\ HidingOK'
  BY <1>1 DEF TextInv, ValuesOK, HidingOK
<1>4. PromptOK' /\ CallsOK'
  BY <1>1, PromptStays
<1> QED
  BY <1>2, <1>3, <1>4 DEF TextInv

\* The first of what is left to be replaced, and the others.
LEMMA NextWord ==
  ASSUME NEW S, NEW s \in Seq(S), s # <<>>
  PROVE  /\ Head(s) \in S /\ Tail(s) \in Seq(S)
         /\ \A k \in DOMAIN s : s[k] # Head(s) => \E j \in DOMAIN Tail(s) : Tail(s)[j] = s[k]
<1>1. Len(s) \in Nat /\ Len(s) > 0 /\ Tail(s) \in Seq(S) /\ DOMAIN Tail(s) = 1 .. Len(s) - 1
      /\ Head(s) = s[1] /\ s[1] \in S /\ DOMAIN s = 1 .. Len(s)
  OBVIOUS
<1>2. \A j \in 1 .. Len(s) - 1 : Tail(s)[j] = s[j + 1]
  OBVIOUS
<1>3. ASSUME NEW k \in DOMAIN s, s[k] # Head(s)
      PROVE  \E j \in DOMAIN Tail(s) : Tail(s)[j] = s[k]
  <2>1. k \in 1 .. Len(s) /\ k # 1
    BY <1>1, <1>3
  <2>2. k - 1 \in 1 .. Len(s) - 1
    BY <1>1, <2>1
  <2>3. Tail(s)[k - 1] = s[k]
    BY <1>1, <1>2, <2>1, <2>2
  <2> QED
    BY <1>1, <2>2, <2>3
<1> QED
  BY <1>1, <1>3

\* The members of a tail are members of the sequence.
LEMMA TailFacts ==
  ASSUME NEW S, NEW s \in Seq(S), s # <<>>
  PROVE  \A k \in DOMAIN Tail(s) : \E j \in DOMAIN s : Tail(s)[k] = s[j]
<1> SUFFICES ASSUME NEW k \in DOMAIN Tail(s)
             PROVE  \E j \in DOMAIN s : Tail(s)[k] = s[j]
  OBVIOUS
<1>1. k \in 1 .. Len(s) - 1 /\ Len(s) \in Nat
  OBVIOUS
<1>2. k + 1 \in DOMAIN s /\ Tail(s)[k] = s[k + 1]
  BY <1>1
<1> QED
  BY <1>2

\* Replacing the first hides it, and hides the others as before.
LEMMA HidesNext ==
  ASSUME TextInv, pc \in {"known", "tokenizing"}, todo # <<>>,
         NEW token \in TokenText, NEW word \in Address,
         Within(word, Replace(text, Head(todo), token)),
         \/ \E n \in DOMAIN vault.to_real : word = vault.to_real[n]
         \/ word = Head(todo)
  PROVE  \E k \in DOMAIN Tail(todo) : Tail(todo)[k] = word
<1>1. text \in Text /\ todo \in Seq(RealValue)
  BY DEF TextInv, TextsOK
<1>2. Head(todo) \in Text /\ Head(todo) # <<>>
  BY <1>1, NextWord, LetteredFacts
<1>3. Within(word, text) /\ word # Head(todo)
  BY <1>1, <1>2, ReplaceHides
<1>4. PICK k \in DOMAIN todo : todo[k] = word
  BY <1>3 DEF TextInv, HidingOK
<1> QED
  BY <1>1, <1>3, <1>4, NextWord

\* The next value of tokenize is replaced.
LEMMA TokenizeNextText ==
  ASSUME Inv, TextInv, Goes, TokenizeNext
  PROVE  TextInv'
<1> DEFINE word == Head(todo)
           v == TokenFor(vault, word)
           token == TokenOf(v, word)
<1>1. /\ pc = "tokenizing" /\ todo # <<>> /\ vault' = v /\ text' = Replace(text, word, token)
      /\ todo' = Tail(todo) /\ UNCHANGED <<pc, saved, reading, prompt, args, executed>>
  BY DEF TokenizeNext
<1>2. text \in Text /\ todo \in Seq(RealValue)
  BY DEF TextInv, TextsOK
<1>3. word \in RealValue /\ word \in Text /\ word # <<>> /\ todo' \in Seq(RealValue)
  BY <1>1, <1>2, NextWord, LetteredFacts
<1>4. IsVault(vault) /\ IsVault(v)
  BY TokenForFacts DEF Inv, VaultIsABijection
<1>5. token \in TokenText /\ token \in Text
  <2>1. word \in DOMAIN v.to_token
    BY <1>4, TokenForValues
  <2> QED
    BY <1>4, <2>1, InVault, LetteredFacts
<1>6. \A n \in DOMAIN v.to_real :
        \/ n \in DOMAIN vault.to_real /\ v.to_real[n] = vault.to_real[n]
        \/ v.to_real[n] = word
  BY <1>4, TokenForValues
<1>11. v.to_real \in [DOMAIN v.to_real -> RealValue]
  BY <1>3, <1>4, TokenForValues DEF TextInv, ValuesOK
<1> HIDE DEF word, v, token
<1>7. TextsOK'
  <2>1. text' \in Text
    BY <1>1, <1>2, <1>3, <1>5, ReplaceDef
  <2> QED
    BY <1>1, <1>3, <2>1 DEF TextInv, TextsOK
<1>8. ValuesOK'
  BY <1>1, <1>11 DEF TextInv, ValuesOK
<1>9. HidingOK'
  <2> SUFFICES ASSUME NEW n \in DOMAIN v.to_real, v.to_real[n] \in Address, Within(v.to_real[n], text')
               PROVE  \E k \in DOMAIN Tail(todo) : Tail(todo)[k] = v.to_real[n]
    BY <1>1 DEF HidingOK
  <2>2. \/ \E m \in DOMAIN vault.to_real : v.to_real[n] = vault.to_real[m]
        \/ v.to_real[n] = Head(todo)
    BY <1>6 DEF word
  <2>3. Within(v.to_real[n], Replace(text, Head(todo), token))
    BY <1>1 DEF word
  <2> QED
    BY <1>1, <1>5, <2>2, <2>3, HidesNext
<1>10. PromptOK' /\ CallsOK'
  BY <1>1, PromptStays
<1> QED
  BY <1>7, <1>8, <1>9, <1>10 DEF TextInv

\* The next value of _retokenize is replaced.
LEMMA ReplaceKnownText ==
  ASSUME Inv, TextInv, Goes, ReplaceKnown
  PROVE  TextInv'
<1> DEFINE word == Head(todo)
           token == TokenOf(vault, word)
<1>1. /\ pc = "known" /\ todo # <<>> /\ text' = Replace(text, word, token)
      /\ todo' = Tail(todo) /\ UNCHANGED <<pc, vault, saved, reading, prompt, args, executed>>
  BY DEF ReplaceKnown
<1>2. text \in Text /\ todo \in Seq(RealValue)
  BY DEF TextInv, TextsOK
<1>3. word \in RealValue /\ word \in Text /\ word # <<>> /\ todo' \in Seq(RealValue)
  BY <1>1, <1>2, NextWord, LetteredFacts
<1>4. IsVault(vault)
  BY DEF Inv, VaultIsABijection
<1>5. token \in TokenText /\ token \in Text
  <2>1. 1 \in DOMAIN todo /\ Head(todo) = todo[1]
    BY <1>1, <1>2
  <2>2. word \in DOMAIN vault.to_token
    BY <1>1, <2>1 DEF TextInv, ValuesOK
  <2> QED
    BY <1>4, <2>2, InVault, LetteredFacts
<1>6. \A k \in DOMAIN todo' : \E j \in DOMAIN todo : todo'[k] = todo[j]
  BY <1>1, <1>2, TailFacts
<1> HIDE DEF word, token
<1>7. TextsOK'
  <2>1. text' \in Text
    BY <1>1, <1>2, <1>3, <1>5, ReplaceDef
  <2> QED
    BY <1>1, <1>3, <2>1 DEF TextInv, TextsOK
<1>8. ValuesOK'
  BY <1>1, <1>6 DEF TextInv, ValuesOK
<1>9. HidingOK'
  <2> SUFFICES ASSUME NEW n \in DOMAIN vault.to_real, vault.to_real[n] \in Address,
                      Within(vault.to_real[n], text')
               PROVE  \E k \in DOMAIN Tail(todo) : Tail(todo)[k] = vault.to_real[n]
    BY <1>1 DEF HidingOK
  <2>2. Within(vault.to_real[n], Replace(text, Head(todo), token))
    BY <1>1 DEF word
  <2> QED
    BY <1>1, <1>5, <2>2, HidesNext
<1>10. PromptOK' /\ CallsOK'
  BY <1>1, PromptStays
<1> QED
  BY <1>7, <1>8, <1>9, <1>10 DEF TextInv

\* The text of an entry of the prompt hides every value with a token.
LEMMA TokenizedText ==
  ASSUME Inv, TextInv, Goes, Tokenized
  PROVE  TextInv'
<1> DEFINE e == [said |-> reading.said, known |-> reading.known,
                 shown |-> text, issued |-> Len(vault.tokens)]
<1>1. /\ pc = "tokenizing" /\ todo = <<>> /\ prompt' = Append(prompt, e)
      /\ pc' \in {"proposing", "ended"}
      /\ UNCHANGED <<vault, saved, reading, text, todo, args, executed>>
  BY DEF Tokenized
<1>2. reading \in [said : Text, known : Nat] /\ text \in Text /\ prompt \in Seq(Entry)
  BY DEF TextInv, TextsOK
<1>3. /\ Len(vault.tokens) \in Nat /\ DOMAIN vault.tokens = 1 .. Len(vault.tokens)
      /\ DOMAIN vault.to_real = DOMAIN vault.tokens
  BY TokensOfVault DEF Inv, VaultIsABijection
<1>4. e \in Entry
  BY <1>2, <1>3 DEF Entry
<1>5. Table = vault /\ Table' = vault
  BY <1>1 DEF Table
<1>6. \A n \in 1 .. e.issued :
        /\ n \in DOMAIN Table.tokens
        /\ Table.to_real[n] \in Address => ~Within(Table.to_real[n], e.shown)
  BY <1>1, <1>3, <1>5 DEF TextInv, HidingOK
<1> HIDE DEF e
<1>7. TextsOK'
  <2>1. prompt' \in Seq(Entry)
    BY <1>1, <1>2, <1>4
  <2> QED
    BY <1>1, <2>1 DEF TextInv, TextsOK
<1>8. ValuesOK' /\ HidingOK'
  BY <1>1 DEF TextInv, ValuesOK, HidingOK
<1>9. PromptOK'
  <2>1. \A k \in DOMAIN prompt' : \/ k \in DOMAIN prompt /\ prompt'[k] = prompt[k]
                                  \/ prompt'[k] = e
    BY <1>1, <1>2
  <2> QED
    BY <1>5, <1>6, <2>1 DEF TextInv, PromptOK
<1>10. CallsOK'
  BY <1>1, <1>5 DEF TextInv, CallsOK
<1> QED
  BY <1>7, <1>8, <1>9, <1>10 DEF TextInv

\* An agent that is called with a token is given its value.
LEMMA ExecuteText ==
  ASSUME Inv, TextInv, Goes, Execute
  PROVE  TextInv'
<1> DEFINE real == Detokenize(args, vault)
           e == [args |-> args, real |-> real, issued |-> Len(vault.tokens)]
<1>1. /\ pc = "executing" /\ executed' = Append(executed, e)
      /\ UNCHANGED <<vault, saved, prompt, args>>
      /\ \/ \E result \in Results \cup {real} : KnownFirst(result)
         \/ pc' = "ended" /\ UNCHANGED <<reading, text, todo>>
  BY DEF Execute
<1>2. args \in Text /\ executed \in Seq(Call)
  BY DEF TextInv, TextsOK
<1>3. /\ IsVault(vault) /\ Len(vault.tokens) \in Nat
      /\ DOMAIN vault.tokens = 1 .. Len(vault.tokens) /\ DOMAIN vault.to_real = DOMAIN vault.tokens
  BY TokensOfVault DEF Inv, VaultIsABijection
<1>4. vault.to_real \in [DOMAIN vault.to_real -> RealValue]
  BY DEF TextInv, ValuesOK
<1>5. IsTable(vault)
  BY <1>3, <1>4, VaultIsTable
<1>6. real \in Text
  BY <1>2, <1>5, DetokenizeType
<1>7. e \in Call
  BY <1>2, <1>3, <1>6 DEF Call
<1>8. Table = vault /\ Table' = vault
  BY <1>1 DEF Table, KnownFirst
<1>9. \A n \in 1 .. e.issued :
        n \in DOMAIN Table.tokens /\ (e.args = Table.tokens[n] => e.real = Table.to_real[n])
  <2>1. \A n \in DOMAIN vault.tokens : Detokenize(vault.tokens[n], vault) = vault.to_real[n]
    BY <1>5, DetokenizeToken
  <2> QED
    BY <1>3, <1>8, <2>1
<1> HIDE DEF e, real
<1>10. CallsOK'
  <2>1. \A k \in DOMAIN executed' : \/ k \in DOMAIN executed /\ executed'[k] = executed[k]
                                    \/ executed'[k] = e
    BY <1>1, <1>2
  <2> QED
    BY <1>8, <1>9, <2>1 DEF TextInv, CallsOK
<1>11. PromptOK'
  BY <1>1, <1>8 DEF TextInv, PromptOK
<1>12. executed' \in Seq(Call)
  BY <1>1, <1>2, <1>7
<1>13. TextsOK' /\ ValuesOK' /\ HidingOK'
  <2>1. CASE pc' = "ended" /\ UNCHANGED <<reading, text, todo>>
    BY <1>1, <1>12, <2>1 DEF TextInv, TextsOK, ValuesOK, HidingOK
  <2>2. ASSUME NEW result \in Results \cup {real}, KnownFirst(result)
        PROVE  TextsOK' /\ ValuesOK' /\ HidingOK'
    <3> DEFINE words == DOMAIN vault.to_token
               order == LongestFirst(words, vault.to_token)
    <3>1. result \in Text
      BY <1>6, TextsAssumption
    <3>2. order \in Seq(RealValue) /\ IsOrder(order, words)
      BY <1>3, <1>4, KnownFacts
    <3>3. /\ reading' = [said |-> result, known |-> Len(vault.tokens)]
          /\ text' = result /\ todo' = order /\ pc' = "known"
      BY <2>2 DEF KnownFirst
    <3> HIDE DEF order
    <3>4. TextsOK'
      BY <1>1, <1>3, <1>12, <3>1, <3>2, <3>3 DEF TextInv, TextsOK
    <3>5. order \in Seq(words) /\ DOMAIN order = 1 .. Len(order)
          /\ \A w \in words : \E k \in 1 .. Len(order) : order[k] = w
      BY <3>2 DEF IsOrder
    <3>6. ValuesOK'
      BY <1>1, <3>3, <3>5 DEF TextInv, ValuesOK
    <3>7. HidingOK'
      <4>1. \A n \in DOMAIN vault.to_real : vault.to_real[n] \in words
        BY <1>3, InVault
      <4> QED
        BY <1>1, <3>3, <3>5, <4>1 DEF HidingOK
    <3> QED
      BY <3>4, <3>6, <3>7
  <2> QED
    BY <1>1, <2>1, <2>2
<1> QED
  BY <1>10, <1>11, <1>13 DEF TextInv

\* Every step keeps what the texts are.
LEMMA NextText == Inv /\ TextInv /\ [Next]_vars => TextInv'
<1> SUFFICES ASSUME Inv, TextInv, [Next]_vars
             PROVE  TextInv'
  OBVIOUS
<1>1. Goes
  BY NextGoes
<1>2. ASSUME NEW request \in Requests, Handle(request)
      PROVE  TextInv'
  BY <1>1, <1>2, HandleText
<1>3. CASE TokenizeNext
  BY <1>1, <1>3, TokenizeNextText
<1>4. CASE Tokenized
  BY <1>1, <1>4, TokenizedText
<1>5. CASE ReplaceKnown
  BY <1>1, <1>5, ReplaceKnownText
<1>6. CASE ThenTheOthers
  <2>1. /\ pc = "known" /\ todo = <<>> /\ todo' = Extract(text) /\ pc' = "tokenizing"
        /\ UNCHANGED <<vault, saved, reading, text, prompt, args, executed>>
    BY <1>6 DEF ThenTheOthers
  <2>2. todo' \in Seq(RealValue)
    BY <2>1, ExtractType DEF TextInv, TextsOK
  <2>3. TextsOK' /\ ValuesOK' /\ HidingOK'
    BY <2>1, <2>2 DEF TextInv, TextsOK, ValuesOK, HidingOK
  <2>4. PromptOK' /\ CallsOK'
    BY <1>1, <2>1, PromptStays
  <2> QED
    BY <2>3, <2>4 DEF TextInv
<1>7. ASSUME NEW word \in Shown, Allow(word) \/ Suspend(word)
      PROVE  TextInv'
  <2>1. word \in Text
    BY ShownFacts DEF TextInv, TextsOK
  <2>2. /\ pc = "proposing" /\ pc' \in {"executing", "suspended"} /\ args' = word
        /\ UNCHANGED <<reading, text, todo, prompt, executed>>
        /\ \/ UNCHANGED <<vault, saved>>
           \/ vault' = NewVault /\ saved' = Snapshot(vault)
    BY <1>7 DEF Allow, Suspend
  <2>3. TextsOK' /\ HidingOK'
    BY <2>1, <2>2 DEF TextInv, TextsOK, HidingOK
  <2>4. ValuesOK'
    <3>1. CASE UNCHANGED <<vault, saved>>
      BY <2>2, <3>1 DEF TextInv, ValuesOK
    <3>2. CASE vault' = NewVault /\ saved' = Snapshot(vault)
      <4>1. vault'.to_real = <<>> /\ saved'.to_real = vault.to_real
        BY <3>2 DEF NewVault, Vault, Snapshot
      <4>2. <<>> \in [DOMAIN <<>> -> RealValue]
        OBVIOUS
      <4> QED
        BY <2>2, <4>1, <4>2 DEF TextInv, ValuesOK
    <3> QED
      BY <2>2, <3>1, <3>2
  <2>5. PromptOK' /\ CallsOK'
    BY <1>1, <2>2, PromptStays
  <2> QED
    BY <2>3, <2>4, <2>5 DEF TextInv
<1>8. CASE Resume
  <2>1. /\ pc = "suspended" /\ pc' = "executing"
        /\ vault' = Restore(saved) /\ saved' = Snapshot(NewVault)
        /\ UNCHANGED <<reading, text, todo, prompt, args, executed>>
    BY <1>8 DEF Resume
  <2>2. vault'.to_real = saved.to_real /\ saved'.to_real = <<>>
    BY <2>1 DEF Restore, Vault, Snapshot, NewVault
  <2>3. TextsOK' /\ ValuesOK' /\ HidingOK'
    BY <2>1, <2>2 DEF TextInv, TextsOK, ValuesOK, HidingOK
  <2>4. PromptOK' /\ CallsOK'
    BY <1>1, <2>1, PromptStays
  <2> QED
    BY <2>3, <2>4 DEF TextInv
<1>9. CASE End
  <2>1. /\ pc = "proposing" /\ pc' = "ended"
        /\ UNCHANGED <<vault, saved, reading, text, todo, prompt, args, executed>>
    BY <1>9 DEF End
  <2>2. TextsOK' /\ ValuesOK' /\ HidingOK'
    BY <2>1 DEF TextInv, TextsOK, ValuesOK, HidingOK
  <2>3. PromptOK' /\ CallsOK'
    BY <1>1, <2>1, PromptStays
  <2> QED
    BY <2>2, <2>3 DEF TextInv
<1>10. CASE Execute
  BY <1>1, <1>10, ExecuteText
<1>11. CASE UNCHANGED vars
  BY <1>11 DEF vars, TextInv, TextsOK, ValuesOK, HidingOK, PromptOK, CallsOK, Table
<1> QED
  BY <1>2, <1>3, <1>4, <1>5, <1>6, <1>7, <1>8, <1>9, <1>10, <1>11 DEF Next

\* And it holds at first.
LEMMA InitText == Init => TextInv
<1> SUFFICES ASSUME Init
             PROVE  TextInv
  OBVIOUS
<1>1. <<>> \in Text /\ <<>> \in Seq(RealValue) /\ <<>> \in Seq(Entry) /\ <<>> \in Seq(Call)
  BY DEF Text
<1>2. TextsOK
  BY <1>1 DEF Init, TextsOK
<1>3. vault.to_real = <<>> /\ saved.to_real = <<>>
  BY DEF Init, NewVault, Vault, Snapshot
<1>4. pc = "idle" /\ prompt = <<>> /\ executed = <<>>
  BY DEF Init
<1>5. ValuesOK /\ HidingOK /\ PromptOK /\ CallsOK
  BY <1>3, <1>4 DEF ValuesOK, HidingOK, PromptOK, CallsOK
<1> QED
  BY <1>2, <1>5 DEF TextInv

\* The texts of a run, at every moment of it.
THEOREM TextInvariance == Spec => []TextInv
BY VaultInvariance, InitText, NextText, PTL DEF Spec

\* A text the proposer sees shows no address that had a token when it was made,
\* whatever the extractor finds in it (loop.py:204-208).
THEOREM KnownValuesStayHidden == Spec => []KnownValuesAreHidden
<1>1. Inv /\ TextInv => KnownValuesAreHidden
  <2> SUFFICES ASSUME Inv, TextInv, NEW k \in DOMAIN prompt, NEW n \in 1 .. prompt[k].issued,
                      LabelOf(Table.to_real[n]) = "T"
               PROVE  ~Within(Table.to_real[n], prompt[k].shown)
    BY DEF KnownValuesAreHidden, Issued
  <2>1. /\ n \in DOMAIN Table.tokens
        /\ Table.to_real[n] \in Address => ~Within(Table.to_real[n], prompt[k].shown)
    BY DEF TextInv, PromptOK
  <2>2. DOMAIN Table.to_real = DOMAIN Table.tokens
    <3>1. DOMAIN saved.to_real = DOMAIN saved.tokens
      <4>1. Restore(saved).to_real = saved.to_real /\ Restore(saved).tokens = saved.tokens
        BY DEF Restore, Vault
      <4> QED
        BY <4>1, TokensOfVault DEF Inv, VaultIsABijection
    <3>2. DOMAIN vault.to_real = DOMAIN vault.tokens
      BY TokensOfVault DEF Inv, VaultIsABijection
    <3> QED
      BY <3>1, <3>2 DEF Table
  <2>3. Table.to_real[n] \in RealValue
    BY <2>1, <2>2 DEF TextInv, ValuesOK, Table
  <2> QED
    BY <2>1, <2>3, LabelFacts
<1> QED
  BY VaultInvariance, TextInvariance, <1>1, PTL

\* An action on a token is executed on its value, even when a shorter token is
\* its beginning (vault.py:135-136).
THEOREM TargetsAreValues == Spec => []TargetsAreTheValuesOfTokens
<1>1. TextInv => TargetsAreTheValuesOfTokens
  BY DEF TextInv, CallsOK, TargetsAreTheValuesOfTokens
<1> QED
  BY TextInvariance, <1>1, PTL
================================================================================
