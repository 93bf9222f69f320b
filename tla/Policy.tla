-------------------------------- MODULE Policy --------------------------------
(***************************************************************************)
(* The policy layer: load_policy (core/policy/loading.py) at start-up, and *)
(* decide (core/decision.py) on each intention of the LLM, with the        *)
(* evaluator it calls (core/policy/engine.py) and the check against the    *)
(* catalog (core/policy/catalog.py).                                       *)
(*                                                                         *)
(* Neither awaits, so nothing runs in the middle of them: one action is    *)
(* one turn of their `for' loops, and `rule' is the rule a loop has come   *)
(* to.  A glob is the set of names it matches; an argument dict is a       *)
(* function on all keys, Absent where the dict has no such key; the meta   *)
(* the vault keeps of a token is the one key it ever holds, `scope'.       *)
(***************************************************************************)
EXTENDS Integers, Sequences, FiniteSets

CONSTANTS
  Names,         \* capability names an intention or a glob may cite
  Known,         \* the names of the catalog
  Required,      \* required_args of each known capability
  Keys,          \* the argument names the LLM may write
  AllKeys,       \* the same, with the pseudo-arguments built from them
  ScopeKey,      \* f"{arg}__scope" of each key
  Values,        \* the values of arguments, tokens included
  Scope,         \* the scope the vault keeps of a value that is one of its tokens
  Absent,        \* what dict.get returns of a missing key
  Malformed,     \* a raw rule that Rule.model_validate refuses
  RawPolicies,   \* the rule files an operator may write
  MaxProposals   \* bound of the model: intentions proposed in a run

Effects == {"allow", "approve", "deny"}
Ops == {"eq", "ne", "in", "nin", "present", "absent"}

\* `list' tells a list from a string (the only member of `values') and from None.
Cond == [key : AllKeys, op : Ops, list : BOOLEAN, values : SUBSET Values]
Rule == [covers : SUBSET Names, conds : SUBSET Cond, effect : Effects]
Dict == [AllKeys -> Values \cup {Absent}]
Args == {d \in Dict : \A k \in AllKeys \ Keys : d[k] = Absent}
Intention == [capability : Names, args : Args]
Verdict == [effect : Effects, matched : Nat, intention : Intention]

ASSUME CatalogAssumption == Known \subseteq Names /\ Required \in [Known -> SUBSET Keys]
ASSUME KeysAssumption ==
  /\ Keys \subseteq AllKeys
  /\ ScopeKey \in [Keys -> AllKeys]
  /\ \A a \in Keys : ScopeKey[a] # a
  /\ \A a, b \in Keys : ScopeKey[a] = ScopeKey[b] => a = b
ASSUME ValuesAssumption == Absent \notin Values /\ Scope \in [Values -> Values \cup {Absent}]
ASSUME RulesAssumption ==
  /\ Malformed \notin Rule
  /\ RawPolicies \subseteq Seq(Rule \cup {Malformed})
ASSUME MaxProposalsAssumption == MaxProposals \in Nat

VARIABLES
  pc,        \* where the program is
  raw,       \* the operator's rules, as read
  policy,    \* the rules accepted so far, the policy once all are
  rule,      \* the rule the running loop is at
  proposed,  \* history: the intentions given to decide, in order
  augmented, \* the arguments evaluate sees
  audit      \* the verdicts written to the audit sink

vars == <<pc, raw, policy, rule, proposed, augmented, audit>>

Phases == {"loading", "refused", "serving", "evaluating"}

(***************************************************************************)
(* load_policy: every rule is accepted, or the server does not start.      *)
(***************************************************************************)
Init ==
  /\ pc = "loading"
  /\ raw \in RawPolicies
  /\ policy = <<>>
  /\ rule = 1
  /\ proposed = <<>>
  /\ augmented = [k \in AllKeys |-> Absent]
  /\ audit = <<>>

\* A rule that parses, and whose glob covers a name of the catalog.
Acceptable(r) == r # Malformed /\ r.covers \cap Known # {}

AcceptRule ==
  /\ pc = "loading" /\ rule <= Len(raw)
  /\ Acceptable(raw[rule])
  /\ policy' = Append(policy, raw[rule])
  /\ rule' = rule + 1
  /\ UNCHANGED <<pc, raw, proposed, augmented, audit>>

\* Mutant of RefusePolicy: the offending rule is skipped.
RefusePolicy_SkipsRule ==
  /\ pc = "loading" /\ rule <= Len(raw)
  /\ ~Acceptable(raw[rule])
  /\ rule' = rule + 1
  /\ UNCHANGED <<pc, raw, policy, proposed, augmented, audit>>

\* PolicyError: the lifespan of the application fails.
RefusePolicy ==
  /\ pc = "loading" /\ rule <= Len(raw)
  /\ ~Acceptable(raw[rule])
  /\ pc' = "refused"
  /\ UNCHANGED <<raw, policy, rule, proposed, augmented, audit>>

Serve ==
  /\ pc = "loading" /\ rule > Len(raw)
  /\ pc' = "serving"
  /\ UNCHANGED <<raw, policy, rule, proposed, augmented, audit>>

(***************************************************************************)
(* decide: validate, add the pseudo-arguments, evaluate, audit.            *)
(***************************************************************************)
Valid(i) ==
  /\ i.capability \in Known
  /\ \A k \in Required[i.capability] : i.args[k] # Absent

\* The scope of argument a, when its value is exactly a token of the vault.
ScopeOf(args, a) == IF args[a] = Absent THEN Absent ELSE Scope[args[a]]

\* The scopes written under key k: at most one, f-string being injective.
ScopesAt(args, k) ==
  {ScopeOf(args, a) : a \in {b \in Keys : ScopeKey[b] = k}} \ {Absent}

The(S) == CHOOSE s \in S : TRUE

\* Mutant of Augment: {**synthetic, **intention.args}.
Augment_ArgsWin(args) ==
  [k \in AllKeys |-> IF args[k] # Absent \/ ScopesAt(args, k) = {} THEN args[k]
                     ELSE The(ScopesAt(args, k))]

\* {**intention.args, **synthetic}: on a common key the vault's meta wins.
Augment(args) ==
  [k \in AllKeys |-> IF ScopesAt(args, k) = {} THEN args[k]
                     ELSE The(ScopesAt(args, k))]

\* validate_intention raises: decide returns nothing, and audits nothing.
RaiseInvalid(i) ==
  /\ pc = "serving" /\ Len(proposed) < MaxProposals
  /\ ~Valid(i)
  /\ proposed' = Append(proposed, i)
  /\ UNCHANGED <<pc, raw, policy, rule, augmented, audit>>

BeginEvaluation(i) ==
  /\ pc = "serving" /\ Len(proposed) < MaxProposals
  /\ Valid(i)
  /\ proposed' = Append(proposed, i)
  /\ augmented' = Augment(i.args)
  /\ rule' = 1
  /\ pc' = "evaluating"
  /\ UNCHANGED <<raw, policy, audit>>

Current == proposed[Len(proposed)]

\* Mutant of ArgMatches: `ne' and `nin' hold of an argument that is missing.
ArgMatches_AbsentDiffers(cond, args) ==
  LET val == args[cond.key] IN
  \/ cond.op = "present" /\ val # Absent
  \/ cond.op = "absent" /\ val = Absent
  \/ cond.op = "eq" /\ val # Absent /\ ~cond.list /\ val \in cond.values
  \/ cond.op = "ne" /\ (cond.list \/ val \notin cond.values)
  \/ cond.op = "in" /\ val # Absent /\ cond.list /\ val \in cond.values
  \/ cond.op = "nin" /\ cond.list /\ val \notin cond.values

\* _arg_matches: a string never equals a list, and `in' and `nin' need one.
ArgMatches(cond, args) ==
  LET val == args[cond.key] IN
  \/ cond.op = "present" /\ val # Absent
  \/ cond.op = "absent" /\ val = Absent
  \/ /\ val # Absent
     /\ \/ cond.op = "eq" /\ ~cond.list /\ val \in cond.values
        \/ cond.op = "ne" /\ (cond.list \/ val \notin cond.values)
        \/ cond.op = "in" /\ cond.list /\ val \in cond.values
        \/ cond.op = "nin" /\ cond.list /\ val \notin cond.values

MatchApplies(r, capability, args) ==
  /\ capability \in r.covers
  /\ \A cond \in r.conds : ArgMatches(cond, args)

TryNextRule ==
  /\ pc = "evaluating" /\ rule <= Len(policy)
  /\ ~MatchApplies(policy[rule], Current.capability, augmented)
  /\ rule' = rule + 1
  /\ UNCHANGED <<pc, raw, policy, proposed, augmented, audit>>

\* Mutant of Conclude: the verdict keeps the intention that was evaluated.
Conclude_Augmented(effect, matched) ==
  /\ \/ audit' = Append(audit, [effect |-> effect, matched |-> matched,
          intention |-> [capability |-> Current.capability, args |-> augmented]])
     \/ UNCHANGED audit
  /\ pc' = "serving"
  /\ UNCHANGED <<raw, policy, rule, proposed, augmented>>

\* The verdict on the original intention is audited, or sink.write raises
\* and decide returns nothing.  matched_rule None is rule 0.
Conclude(effect, matched) ==
  /\ \/ audit' = Append(audit, [effect |-> effect, matched |-> matched,
                                intention |-> Current])
     \/ UNCHANGED audit
  /\ pc' = "serving"
  /\ UNCHANGED <<raw, policy, rule, proposed, augmented>>

ReturnMatch ==
  /\ pc = "evaluating" /\ rule <= Len(policy)
  /\ MatchApplies(policy[rule], Current.capability, augmented)
  /\ Conclude(policy[rule].effect, rule)

\* Mutant of DenyByDefault: the loop variable is taken for the matched rule.
DenyByDefault_KeepsIndex ==
  /\ pc = "evaluating" /\ rule > Len(policy)
  /\ Conclude("deny", rule)

DenyByDefault ==
  /\ pc = "evaluating" /\ rule > Len(policy)
  /\ Conclude("deny", 0)

Next ==
  \/ AcceptRule \/ RefusePolicy \/ Serve
  \/ \E i \in Intention : RaiseInvalid(i) \/ BeginEvaluation(i)
  \/ TryNextRule \/ ReturnMatch \/ DenyByDefault

Spec == Init /\ [][Next]_vars

(***************************************************************************)
(* What a policy means, said without its evaluator: the values a condition *)
(* accepts, the value a rule sees under a key, the verdict a rule list     *)
(* warrants.                                                               *)
(***************************************************************************)
Scalar(cond) == IF cond.list THEN {} ELSE cond.values
Listed(cond) == IF cond.list THEN cond.values ELSE {}

Accepted(cond) ==
  {v \in Values \cup {Absent} :
     \/ cond.op = "present" /\ v \in Values
     \/ cond.op = "absent" /\ v \notin Values
     \/ cond.op = "eq" /\ v \in Scalar(cond)
     \/ cond.op = "ne" /\ v \in Values \ Scalar(cond)
     \/ cond.op = "in" /\ v \in Listed(cond)
     \/ cond.op = "nin" /\ cond.list /\ v \in Values \ Listed(cond)}

\* Under f"{a}__scope" a rule sees the vault's scope of a, if there is one.
Sees(args, k, v) ==
  \/ \E a \in Keys : ScopeKey[a] = k /\ ScopeOf(args, a) = v /\ v # Absent
  \/ /\ \A a \in Keys : ScopeKey[a] = k => ScopeOf(args, a) = Absent
     /\ v = args[k]

Covers(r, i) ==
  /\ i.capability \in r.covers
  /\ \A cond \in r.conds : \E v \in Accepted(cond) : Sees(i.args, cond.key, v)

Warranted(v, i) ==
  \/ /\ v.matched \in DOMAIN policy
     /\ Covers(policy[v.matched], i)
     /\ \A k \in 1..(v.matched - 1) : ~Covers(policy[k], i)
     /\ v.effect = policy[v.matched].effect
  \/ /\ v.matched = 0 /\ v.effect = "deny"
     /\ \A k \in DOMAIN policy : ~Covers(policy[k], i)

(***************************************************************************)
(* Properties                                                              *)
(***************************************************************************)

\* The type invariant: the variables of load_policy and decide, and the
\* verdicts of the audit, which cite a rule of the policy or none.
TypeOK ==
  /\ pc \in Phases
  /\ raw \in RawPolicies
  /\ policy \in Seq(Rule)
  /\ rule \in Nat \ {0}
  /\ proposed \in Seq(Intention)
  /\ augmented \in Dict
  /\ audit \in Seq(Verdict)
  /\ \A n \in DOMAIN audit : audit[n].matched \in 0..Len(policy)

\* A policy is served whole or not at all: once intentions are decided, the
\* rules in force are the operator's, each at its place, and each one covers
\* a capability that exists (load_policy raises on the first that does not,
\* it never degrades by leaving a rule out).
ServesWholePolicy ==
  pc \in {"serving", "evaluating"} =>
    policy = raw /\ \A k \in DOMAIN policy : policy[k].covers \cap Known # {}

\* The first rule that covers an intention decides it, at its priority, and
\* an intention no rule covers is denied (evaluate, with decide's arguments):
\* the verdict is compared with what the policy means.
FirstMatchDecides == \A n \in DOMAIN audit : Warranted(audit[n], audit[n].intention)

\* A string that is no token of the vault.
Plain(v) == v = Absent \/ Scope[v] = Absent

WithArgs(i, args) == [capability |-> i.capability, args |-> args]

\* When the vault knows the scope of an argument, what the LLM itself writes
\* under the pseudo-argument of that scope has no effect: the verdict is the
\* one warranted had it written anything else there (the merge of decide).
VaultDecidesScope ==
  \A n \in DOMAIN audit : \A a \in Keys : \A w \in {v \in Values \cup {Absent} : Plain(v)} :
    LET i == audit[n].intention IN
    /\ ScopeOf(i.args, a) # Absent
    /\ ScopeKey[a] \in Keys
    /\ Plain(i.args[ScopeKey[a]])
    => Warranted(audit[n], WithArgs(i, [i.args EXCEPT ![ScopeKey[a]] = w]))

\* The audit and what follows the verdict have the intention as it was
\* proposed: the arguments made up for the evaluation are in no verdict
\* (decide rebuilds the Verdict from the original).
VerdictsKeepProposals ==
  \A n \in DOMAIN audit : \E m \in DOMAIN proposed : audit[n].intention = proposed[m]
===============================================================================
