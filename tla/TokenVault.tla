------------------------------- MODULE TokenVault -------------------------------
(***************************************************************************)
(* The tokens of a run (core/tokens/vault.py) through the gated loop       *)
(* (coordinator/loop.py): the request and the results of the agents are    *)
(* tokenized before the proposer sees them, the arguments it writes are    *)
(* detokenized at execution, and the vault is saved with a suspended run   *)
(* and restored when it goes on.                                           *)
(*                                                                         *)
(* A text is a sequence of characters, of which there are few: "h" is all  *)
(* of an address but its last number (9.9.9.), "T" and "P" the labels of   *)
(* tokens (IP_ADDRESS_, PORT_NUMBER_), " " what is not next to a number or *)
(* an address in a word.  Numbers are written with Numerals.  The          *)
(* extractor (coordinator/extractor.py) has two labels of its seven, the   *)
(* addresses and the ports: the values of a port are numbers, which may be *)
(* in other values and in tokens.  str.replace is what matters here, and   *)
(* is modelled character by character.                                     *)
(***************************************************************************)
EXTENDS Integers, Sequences, SequencesExt, FiniteSets

CONSTANTS
  Numerals,   \* the numerals; ten in the code
  Requests,   \* texts of the client
  Results,    \* results of the agents
  Private,    \* the addresses that classify_ip calls private
  MaxSteps    \* max_steps

ASSUME MaxStepsAssumption == MaxSteps \in Nat

Numeral == {Numerals[k] : k \in DOMAIN Numerals}
Labels == {"T", "P"}
AddressChar == Numeral \cup {"h", ".", ":"}
WordChar == Numeral \cup {"h"} \cup Labels
Char == AddressChar \cup Labels \cup {" "}
Text == Seq(Char)

\* Ten different numerals, or two at least.
ASSUME NumeralsAssumption ==
  /\ Numerals \in Seq(STRING) /\ Len(Numerals) >= 2
  /\ \A i, j \in DOMAIN Numerals : Numerals[i] = Numerals[j] => i = j
  /\ Numeral \cap {"h", "T", "P", ".", ":", " "} = {}

ASSUME TextsAssumption == Requests \cup Results \subseteq Text

VARIABLES
  pc,        \* where the run is
  vault,     \* the Vault of the run, new while it is suspended
  saved,     \* vault_snapshot of the suspended session
  reading,   \* the text being tokenized, and the tokens issued before it
  text,      \* what it has become
  todo,      \* the values still to be replaced in it
  prompt,    \* the request and the history, as tokenized
  args,      \* the argument of the intention
  executed   \* the calls of the agents

vars == <<pc, vault, saved, reading, text, todo, prompt, args, executed>>

(***************************************************************************)
(* Texts.                                                                  *)
(***************************************************************************)
\* The word is in the text at i.
Occurs(s, i, word) ==
  i + Len(word) - 1 <= Len(s) /\ SubSeq(s, i, i + Len(word) - 1) = word

Within(word, s) == \E i \in DOMAIN s : Occurs(s, i, word)

\* s.replace(old, new): from left to right.
Replace(s, old, new) ==
  LET replaced[t \in Text] ==
        IF t = <<>> THEN <<>>
        ELSE IF Occurs(t, 1, old) THEN new \o replaced[SubSeq(t, Len(old) + 1, Len(t))]
        ELSE <<Head(t)>> \o replaced[Tail(t)]
  IN replaced[s]

\* The words from the first to the last of an order.
Sorted(words, Before(_, _)) ==
  [k \in 1 .. Cardinality(words) |->
     CHOOSE w \in words : Cardinality({v \in words : Before(v, w)}) = k - 1]

\* What a character stands for beyond itself: the label of a token, or all of
\* an address but its last number.
Extra(c) == IF c = "h" THEN 5 ELSE IF c = "T" THEN 10 ELSE IF c = "P" THEN 11 ELSE 0

\* The length of a word, of which only the first character may be one of these.
Length(word) == Len(word) + Extra(word[1])

\* Mutant of LongestFirst: in ascending order.
LongestFirst_Ascending(words, rank) ==
  Sorted(words, LAMBDA v, w : \/ Length(v) < Length(w)
                              \/ Length(v) = Length(w) /\ rank[v] < rank[w])

\* sorted(..., key=len, reverse=True), which keeps the order of equal lengths.
LongestFirst(words, rank) ==
  Sorted(words, LAMBDA v, w : \/ Length(v) > Length(w)
                              \/ Length(v) = Length(w) /\ rank[v] < rank[w])

\* Where an address is: not after a number, which would make it another one,
\* and not before a character of an address.  (The lookbehind of the pattern is
\* of its branch for IPv6 alone: an address may follow a dot.)
Addresses(s) ==
  {span \in (DOMAIN s) \X (DOMAIN s) :
     LET i == span[1] j == span[2] IN
     /\ j - i \in 1 .. 3 /\ s[i] = "h" /\ \A k \in i + 1 .. j : s[k] \in Numeral
     /\ i > 1 => s[i - 1] \notin Numeral
     /\ j < Len(s) => s[j + 1] \notin AddressChar}

\* Where a port is: after a colon, two to five numerals and the end of a word.
Ports(s) ==
  {span \in (DOMAIN s) \X (DOMAIN s) :
     LET i == span[1] j == span[2] IN
     /\ j - i \in 1 .. 4 /\ \A k \in i .. j : s[k] \in Numeral
     /\ i > 1 /\ s[i - 1] = ":"
     /\ j < Len(s) => s[j + 1] \notin WordChar}

Spans(s) == Addresses(s) \cup Ports(s)
Value(s, span) == SubSeq(s, span[1], span[2])
Found(s) == {Value(s, span) : span \in Spans(s)}

\* What is to be tokenized, in the order of its replacement: the values of both
\* labels in one pass.  (Of the same length, they are of the same label.)
Extract(s) ==
  LET starts == [v \in Found(s) |-> {span[1] : span \in {x \in Spans(s) : Value(s, x) = v}}]
      rank == [v \in Found(s) |-> CHOOSE i \in starts[v] : \A k \in starts[v] : i <= k]
  IN LongestFirst(Found(s), rank)

\* The label with which a value is extracted.
LabelOf(value) == IF value[1] = "h" THEN "T" ELSE "P"

\* f"{label}_{n}"
Token(label, n) ==
  LET base == Len(Numerals)
      digits[k \in Nat] ==
        IF k < base THEN <<Numerals[k + 1]>>
        ELSE digits[k \div base] \o <<Numerals[(k % base) + 1]>>
  IN <<label>> \o digits[n]

(***************************************************************************)
(* The vault.  The dict from tokens to values is two sequences, in the     *)
(* order of its insertions; a token is named by its place in them.         *)
(***************************************************************************)
Vault(tokens, to_real, to_token, counters, meta) ==
  [tokens |-> tokens, to_real |-> to_real, to_token |-> to_token,
   counters |-> counters, meta |-> meta]

Empty == [x \in {} |-> x]
Zero == [label \in Labels |-> 0]
NewVault == Vault(<<>>, <<>>, Empty, Zero, Empty)

Put(f, x, y) == [z \in DOMAIN f \cup {x} |-> IF z = x THEN y ELSE f[z]]

\* The place of a token in the dict, or the next one if it has none.
Place(tokens, token) ==
  IF \E n \in DOMAIN tokens : tokens[n] = token
  THEN CHOOSE n \in DOMAIN tokens : tokens[n] = token
  ELSE Len(tokens) + 1

\* classify_ip
Scope(value) == IF value \in Private THEN "private" ELSE "public"

\* The meta of a new token, of an address.
Described(meta, place, value) ==
  IF LabelOf(value) = "T" /\ place \notin DOMAIN meta THEN Put(meta, place, Scope(value)) ELSE meta

Issue(v, value) ==
  LET label == LabelOf(value)
      n == v.counters[label] + 1
      place == Place(v.tokens, Token(label, n))
  IN Vault(Put(v.tokens, place, Token(label, n)), Put(v.to_real, place, value),
           Put(v.to_token, value, place), [v.counters EXCEPT ![label] = n],
           Described(v.meta, place, value))

\* The vault after token_for, which gives the token at to_token[value].
TokenFor(v, value) == IF value \in DOMAIN v.to_token THEN v ELSE Issue(v, value)

\* Mutant of Snapshot: of before there were scopes.
Snapshot_NoMeta(v) ==
  [tokens |-> v.tokens, to_real |-> v.to_real, counters |-> v.counters, meta |-> Empty]

Snapshot(v) ==
  [tokens |-> v.tokens, to_real |-> v.to_real, counters |-> v.counters, meta |-> v.meta]

\* {real: tok for tok, real in to_real.items()}
Inverted(to_real) ==
  [value \in {to_real[n] : n \in DOMAIN to_real} |->
     CHOOSE n \in DOMAIN to_real :
       to_real[n] = value /\ \A k \in DOMAIN to_real : to_real[k] = value => k <= n]

\* Mutant of Restore: a snapshot without counters.
Restore_NoCounters(s) == Vault(s.tokens, s.to_real, Inverted(s.to_real), Zero, s.meta)

Restore(s) == Vault(s.tokens, s.to_real, Inverted(s.to_real), s.counters, s.meta)

\* Each token issued, longest first, replaced by its value.
Detokenize(s, v) ==
  LET place == [t \in {v.tokens[n] : n \in DOMAIN v.tokens} |-> Place(v.tokens, t)]
      order == LongestFirst(DOMAIN place, place)
      after[k \in 0 .. Len(order)] ==
        IF k = 0 THEN s ELSE Replace(after[k - 1], order[k], v.to_real[place[order[k]]])
  IN after[Len(order)]

(***************************************************************************)
(* The loop.                                                               *)
(***************************************************************************)
\* tokenize(said): the values found, one after the other.
Tokenize(said, known) ==
  /\ reading' = [said |-> said, known |-> known]
  /\ text' = said
  /\ todo' = Extract(said)
  /\ pc' = "tokenizing"

Handle(request) ==
  /\ pc = "idle"
  /\ Tokenize(request, 0)
  /\ UNCHANGED <<vault, saved, prompt, args, executed>>

\* The token of a value that has one.
TokenOf(v, value) == v.tokens[v.to_token[value]]

\* text = text.replace(value, vault.token_for(label, value))
TokenizeNext ==
  /\ pc = "tokenizing" /\ todo # <<>>
  /\ vault' = TokenFor(vault, Head(todo))
  /\ text' = Replace(text, Head(todo), TokenOf(vault', Head(todo)))
  /\ todo' = Tail(todo)
  /\ UNCHANGED <<pc, saved, reading, prompt, args, executed>>

\* Mutant of Tokenized: the steps are not counted.
Tokenized_NoBound ==
  /\ pc = "tokenizing" /\ todo = <<>>
  /\ prompt' = Append(prompt, [said |-> reading.said, known |-> reading.known,
                               shown |-> text, issued |-> Len(vault.tokens)])
  /\ pc' = "proposing"
  /\ UNCHANGED <<vault, saved, reading, text, todo, args, executed>>

\* The text is the request, or joins the history, of the next prompt.
Tokenized ==
  /\ pc = "tokenizing" /\ todo = <<>>
  /\ prompt' = Append(prompt, [said |-> reading.said, known |-> reading.known,
                               shown |-> text, issued |-> Len(vault.tokens)])
  /\ pc' = IF Len(executed) < MaxSteps THEN "proposing" ELSE "ended"
  /\ UNCHANGED <<vault, saved, reading, text, todo, args, executed>>

\* The proposer writes words it was shown.
IsWord(s, i, j) ==
  /\ i <= j /\ \A k \in i .. j : s[k] # " "
  /\ i > 1 => s[i - 1] = " "
  /\ j < Len(s) => s[j + 1] = " "
Words(s) == UNION {{SubSeq(s, i, j) : j \in {j \in DOMAIN s : IsWord(s, i, j)}} : i \in DOMAIN s}
Shown == UNION {Words(prompt[k].shown) : k \in DOMAIN prompt}

\* The verdict is `allow'.
Allow(word) ==
  /\ pc = "proposing"
  /\ args' = word
  /\ pc' = "executing"
  /\ UNCHANGED <<vault, saved, reading, text, todo, prompt, executed>>

\* The verdict is `approve': the run is saved, and its vault is gone.
Suspend(word) ==
  /\ pc = "proposing"
  /\ args' = word
  /\ saved' = Snapshot(vault)
  /\ vault' = NewVault
  /\ pc' = "suspended"
  /\ UNCHANGED <<reading, text, todo, prompt, executed>>

\* The operator approves.
Resume ==
  /\ pc = "suspended"
  /\ vault' = Restore(saved)
  /\ saved' = Snapshot(NewVault)
  /\ pc' = "executing"
  /\ UNCHANGED <<reading, text, todo, prompt, args, executed>>

\* Finish, `deny', or the proposer fails.  (A run that is rejected, or expires,
\* stays suspended here: what becomes of its session is in GatedLoop.)
End ==
  /\ pc = "proposing"
  /\ pc' = "ended"
  /\ UNCHANGED <<vault, saved, reading, text, todo, prompt, args, executed>>

\* Mutant of KnownFirst: what the extractor finds is tokenized, and no more.
KnownFirst_ExtractorOnly(result) == Tokenize(result, Len(vault.tokens))

\* _retokenize: the values the vault knows, whatever the extractor finds.
KnownFirst(result) ==
  /\ reading' = [said |-> result, known |-> Len(vault.tokens)]
  /\ text' = result
  /\ todo' = LongestFirst(DOMAIN vault.to_token, vault.to_token)
  /\ pc' = "known"

\* The agent is called with the values, and answers; its result may echo them.
Execute ==
  LET real == Detokenize(args, vault) IN
  /\ pc = "executing"
  /\ executed' = Append(executed, [args |-> args, real |-> real, issued |-> Len(vault.tokens)])
  /\ \/ \E result \in Results \cup {real} : KnownFirst(result)
     \/ pc' = "ended" /\ UNCHANGED <<reading, text, todo>>
  /\ UNCHANGED <<vault, saved, prompt, args>>

\* text = text.replace(real, token)
ReplaceKnown ==
  /\ pc = "known" /\ todo # <<>>
  /\ text' = Replace(text, Head(todo), TokenOf(vault, Head(todo)))
  /\ todo' = Tail(todo)
  /\ UNCHANGED <<pc, vault, saved, reading, prompt, args, executed>>

\* Then tokenize(text): the values that are new.
ThenTheOthers ==
  /\ pc = "known" /\ todo = <<>>
  /\ todo' = Extract(text)
  /\ pc' = "tokenizing"
  /\ UNCHANGED <<vault, saved, reading, text, prompt, args, executed>>

Init ==
  /\ pc = "idle"
  /\ vault = NewVault
  /\ saved = Snapshot(NewVault)
  /\ reading = [said |-> <<>>, known |-> 0]
  /\ text = <<>> /\ todo = <<>> /\ prompt = <<>> /\ args = <<>> /\ executed = <<>>

Next ==
  \/ \E request \in Requests : Handle(request)
  \/ TokenizeNext \/ Tokenized \/ ReplaceKnown \/ ThenTheOthers
  \/ \E word \in Shown : Allow(word) \/ Suspend(word)
  \/ Resume \/ End \/ Execute

Spec == Init /\ [][Next]_vars

(***************************************************************************)
(* Properties.                                                             *)
(***************************************************************************)
\* The table of the run, live or saved.
Table == IF pc = "suspended" THEN saved ELSE vault

TypeOK ==
  /\ pc \in {"idle", "tokenizing", "known", "proposing", "suspended", "executing", "ended"}
  /\ {vault.counters[label] : label \in Labels} \subseteq Nat /\ reading.known \in Nat
  /\ Len(prompt) <= MaxSteps + 1 /\ Len(executed) <= MaxSteps

\* A run has one token per value and one value per token, those of each label
\* numbered without a gap, each address with its scope, whether its vault is in
\* use or saved (`Bijection jeton<->valeur pour UNE session', vault.py:51).
IsVault(v) ==
  LET places == DOMAIN v.tokens IN
  /\ v.tokens \in Seq(Text) /\ DOMAIN v.to_real = places /\ v.counters \in [Labels -> Nat]
  /\ \A m, n \in places : v.tokens[m] = v.tokens[n] => m = n
  /\ \A label \in Labels :
       {v.tokens[n] : n \in {n \in places : LabelOf(v.to_real[n]) = label}}
         = {Token(label, k) : k \in 1 .. v.counters[label]}
  /\ DOMAIN v.to_token = {v.to_real[n] : n \in places}
  /\ \A n \in places : v.to_token[v.to_real[n]] = n
  /\ v.meta = [n \in {n \in places : LabelOf(v.to_real[n]) = "T"} |-> Scope(v.to_real[n])]

VaultIsABijection == IsVault(vault) /\ IsVault(Restore(saved))

\* A token means the same value for the whole run, suspended and restored as
\* often as it may be: what the proposer read is what is executed.
TokensKeepTheirMeaning ==
  [][\A n \in DOMAIN Table.tokens :
       /\ n \in DOMAIN Table'.tokens
       /\ Table'.tokens[n] = Table.tokens[n] /\ Table'.to_real[n] = Table.to_real[n]]_vars

\* What had a token when a text was made.
Earlier(entry) == {Table.to_real[n] : n \in 1 .. entry.known}
Issued(entry) == {Table.to_real[n] : n \in 1 .. entry.issued}

\* A text of the prompt shows no address that had a token when it was made, even
\* one the extractor does not find there (loop.py:204-208).  (A port may be
\* seen, where it is in the number of a token.)
KnownValuesAreHidden ==
  \A k \in DOMAIN prompt : \A value \in Issued(prompt[k]) :
    LabelOf(value) = "T" => ~Within(value, prompt[k].shown)

\* An address or a number is in the text from i to j, as far as its numerals go.
IsAtom(s, i, j) ==
  /\ i <= j /\ s[i] \in Numeral \cup {"h"} /\ \A k \in i + 1 .. j : s[k] \in Numeral
  /\ j < Len(s) => s[j + 1] \notin Numeral
  /\ s[i] \in Numeral /\ i > 1 => s[i - 1] \notin Numeral \cup {"h"}
Atoms(s) == UNION {{SubSeq(s, i, j) : j \in {j \in DOMAIN s : IsAtom(s, i, j)}} : i \in DOMAIN s}

\* None of the values is in the word.
Free(word, values) == \A value \in values : ~Within(value, word)

\* A text with no label of a token.  Each of its addresses and numbers had a
\* token before, or has none of the values in it that had one, and then has a
\* token now or none of the values of now in it; and none of these is in one of
\* the tokens, as the port 10 is in IP_ADDRESS_10.
Unambiguous(entry) ==
  /\ \A label \in Labels : ~Contains(entry.said, label)
  /\ \A word \in Atoms(entry.said) :
       \/ word \in Earlier(entry)
       \/ Free(word, Earlier(entry)) /\ (word \in Issued(entry) \/ Free(word, Issued(entry)))
  /\ \A n \in 1 .. entry.issued : Free(Table.tokens[n], Issued(entry))

\* What is shown of such a text stands for the text itself, with the vault of
\* then and with every later one: detokenize reads back what tokenize wrote.
UnambiguousTextsAreReversible ==
  \A k \in DOMAIN prompt :
    Unambiguous(prompt[k]) => Detokenize(prompt[k].shown, Table) = prompt[k].said

\* An action on a token is executed on the value of that token, and not on
\* the one of a token it begins with (vault.py:135-136).
TargetsAreTheValuesOfTokens ==
  \A k \in DOMAIN executed : \A n \in 1 .. executed[k].issued :
    executed[k].args = Table.tokens[n] => executed[k].real = Table.to_real[n]

\* Every text can be read back from what is shown of it: `Tokenisation
\* reversible des valeurs sensibles' (vault.py:2).
TextsAreReversible ==
  \A k \in DOMAIN prompt :
    (\A label \in Labels : ~Contains(prompt[k].said, label)) =>
      Detokenize(prompt[k].shown, Table) = prompt[k].said
================================================================================
