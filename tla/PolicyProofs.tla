----------------------------- MODULE PolicyProofs -----------------------------
(***************************************************************************)
(* Theorems about Policy, for every catalog, every policy and every number *)
(* of proposals.  The invariant says how far each of the two loops has     *)
(* come; two lemmas then say that the evaluator, on the arguments decide   *)
(* builds for it, computes what the policy means.                          *)
(***************************************************************************)
EXTENDS Policy, TLAPS

Assumptions == CatalogAssumption /\ KeysAssumption /\ ValuesAssumption /\ RulesAssumption

\* What the module assumes of its constants.
LEMMA Assumed == Assumptions
BY CatalogAssumption, KeysAssumption, ValuesAssumption, RulesAssumption DEF Assumptions

Matches(r, i) == MatchApplies(r, i.capability, Augment(i.args))

\* load_policy: what is accepted is a prefix of what was read.
LoadOK ==
  /\ Len(policy) <= Len(raw)
  /\ \A k \in 1..Len(policy) : policy[k] = raw[k] /\ Acceptable(policy[k])
  /\ pc = "loading" => Len(policy) = rule - 1 /\ audit = <<>>
  /\ pc = "refused" => audit = <<>>
  /\ pc \in {"serving", "evaluating"} => Len(policy) = Len(raw)

\* evaluate: no rule before the one the loop is at applies.
EvaluationOK ==
  pc = "evaluating" =>
    /\ Len(proposed) > 0
    /\ augmented = Augment(Current.args)
    /\ rule <= Len(policy) + 1
    /\ \A k \in 1..(rule - 1) : ~Matches(policy[k], Current)

\* A verdict and the intention it is about, in terms of the evaluator.
Follows(v, i) ==
  \/ /\ v.matched \in 1..Len(policy)
     /\ Matches(policy[v.matched], i)
     /\ \A k \in 1..(v.matched - 1) : ~Matches(policy[k], i)
     /\ v.effect = policy[v.matched].effect
  \/ /\ v.matched = 0 /\ v.effect = "deny"
     /\ \A k \in 1..Len(policy) : ~Matches(policy[k], i)

AuditOK ==
  \A n \in 1..Len(audit) :
    /\ Follows(audit[n], audit[n].intention)
    /\ \E m \in 1..Len(proposed) : audit[n].intention = proposed[m]

IInv == TypeOK /\ LoadOK /\ EvaluationOK /\ AuditOK

-----------------------------------------------------------------------------
\* The arguments built for the evaluation are a dict, whatever the vault knows.
LEMMA AugmentIsDict ==
  ASSUME Assumptions, NEW args \in Args
  PROVE  Augment(args) \in Dict
<1>1. ASSUME NEW k \in AllKeys
      PROVE  Augment(args)[k] \in Values \cup {Absent}
  <2>1. CASE ScopesAt(args, k) = {}
    BY <2>1 DEF Augment, Args, Dict
  <2>2. CASE ScopesAt(args, k) # {}
    <3>1. PICK s : s \in ScopesAt(args, k)
      BY <2>2
    <3>2. The(ScopesAt(args, k)) \in ScopesAt(args, k)
      BY <3>1 DEF The
    <3>3. ScopesAt(args, k) \subseteq Values \cup {Absent}
      BY DEF ScopesAt, ScopeOf, Args, Dict, Assumptions, KeysAssumption, ValuesAssumption
    <3>4. Augment(args)[k] = The(ScopesAt(args, k))
      BY <2>2 DEF Augment
    <3> QED BY <3>2, <3>3, <3>4
  <2> QED BY <2>1, <2>2
<1> QED BY <1>1 DEF Augment, Dict

\* What a rule sees under a key is what decide put there.
LEMMA AugmentIsSeen ==
  ASSUME Assumptions, NEW args \in Args, NEW k \in AllKeys, NEW v
  PROVE  Sees(args, k, v) <=> v = Augment(args)[k]
<1>1. ASSUME NEW a \in Keys, ScopeKey[a] = k, ScopeOf(args, a) # Absent
      PROVE  Augment(args)[k] = ScopeOf(args, a)
  <2>1. ScopesAt(args, k) = {ScopeOf(args, a)}
    BY <1>1 DEF ScopesAt, Assumptions, KeysAssumption
  <2>2. Augment(args)[k] = The({ScopeOf(args, a)})
    BY <2>1 DEF Augment
  <2> QED BY <2>1, <2>2 DEF The
<1>2. CASE \A a \in Keys : ScopeKey[a] = k => ScopeOf(args, a) = Absent
  <2>1. ScopesAt(args, k) = {}
    BY <1>2 DEF ScopesAt
  <2>2. Augment(args)[k] = args[k]
    BY <2>1 DEF Augment
  <2> QED BY <1>2, <2>2 DEF Sees
<1>3. CASE \E a \in Keys : ScopeKey[a] = k /\ ScopeOf(args, a) # Absent
  <2>1. PICK a \in Keys : ScopeKey[a] = k /\ ScopeOf(args, a) # Absent
    BY <1>3
  <2>2. \A b \in Keys : ScopeKey[b] = k => b = a
    BY <2>1 DEF Assumptions, KeysAssumption
  <2>3. Augment(args)[k] = ScopeOf(args, a)
    BY <1>1, <2>1
  <2>4. Sees(args, k, v) <=> v = ScopeOf(args, a)
    BY <2>1, <2>2 DEF Sees
  <2> QED BY <2>3, <2>4
<1> QED BY <1>2, <1>3

\* _arg_matches accepts the values the condition is defined to accept.
LEMMA ArgMatchesAccepts ==
  ASSUME Assumptions, NEW cond \in Cond, NEW args \in Dict
  PROVE  ArgMatches(cond, args) <=> args[cond.key] \in Accepted(cond)
<1>1. /\ args[cond.key] \in Values \cup {Absent}
      /\ cond.list \in BOOLEAN /\ cond.values \subseteq Values
      /\ Absent \notin Values
  BY DEF Cond, Dict, Assumptions, ValuesAssumption
<1>2. CASE cond.list
  BY <1>1, <1>2 DEF ArgMatches, Accepted, Scalar, Listed
<1>3. CASE ~cond.list
  BY <1>1, <1>3 DEF ArgMatches, Accepted, Scalar, Listed
<1> QED BY <1>1, <1>2, <1>3

\* The evaluator computes what the policy means.
LEMMA EvaluatorIsTheMeaning ==
  ASSUME Assumptions, NEW r \in Rule, NEW i \in Intention
  PROVE  Matches(r, i) <=> Covers(r, i)
<1>1. i.args \in Args /\ r.conds \subseteq Cond
  BY DEF Intention, Rule
<1>2. Augment(i.args) \in Dict
  BY <1>1, AugmentIsDict
<1>3. ASSUME NEW cond \in r.conds
      PROVE  ArgMatches(cond, Augment(i.args)) <=>
             \E v \in Accepted(cond) : Sees(i.args, cond.key, v)
  <2>1. cond \in Cond /\ cond.key \in AllKeys
    BY <1>1 DEF Cond
  <2>2. \A v : Sees(i.args, cond.key, v) <=> v = Augment(i.args)[cond.key]
    BY <1>1, <2>1, AugmentIsSeen
  <2>3. ArgMatches(cond, Augment(i.args)) <=> Augment(i.args)[cond.key] \in Accepted(cond)
    BY <1>2, <2>1, ArgMatchesAccepts
  <2> QED BY <2>2, <2>3
<1> QED BY <1>3 DEF Matches, MatchApplies, Covers

\* The pseudo-argument the LLM writes is not seen when the vault has the scope.
LEMMA OverwrittenIsNotSeen ==
  ASSUME Assumptions, NEW args \in Args, NEW a \in Keys, NEW w \in Values \cup {Absent},
         ScopeKey[a] \in Keys, ScopeOf(args, a) # Absent,
         Plain(args[ScopeKey[a]]), Plain(w)
  PROVE  LET other == [args EXCEPT ![ScopeKey[a]] = w]
         IN  other \in Args /\ Augment(other) = Augment(args)
<1> DEFINE other == [args EXCEPT ![ScopeKey[a]] = w]
<1>1. other \in Args
  BY DEF Args, Dict, Assumptions, KeysAssumption
<1>2. ASSUME NEW b \in Keys
      PROVE  ScopeOf(other, b) = ScopeOf(args, b)
  <2>1. CASE b = ScopeKey[a]
    BY <2>1 DEF ScopeOf, Plain, Args, Dict, Assumptions, KeysAssumption
  <2>2. CASE b # ScopeKey[a]
    BY <2>2 DEF ScopeOf, Args, Dict, Assumptions, KeysAssumption
  <2> QED BY <2>1, <2>2
<1>3. \A k \in AllKeys : ScopesAt(other, k) = ScopesAt(args, k)
  BY <1>2 DEF ScopesAt
<1>4. ScopesAt(args, ScopeKey[a]) # {}
  BY DEF ScopesAt
<1>5. \A k \in AllKeys : k # ScopeKey[a] => other[k] = args[k]
  BY DEF Args, Dict
<1>6. ASSUME NEW k \in AllKeys
      PROVE  Augment(other)[k] = Augment(args)[k]
  <2> HIDE DEF other
  <2>1. ScopesAt(other, k) = ScopesAt(args, k)
    BY <1>3
  <2>2. CASE k = ScopeKey[a]
    BY <1>4, <2>1, <2>2 DEF Augment
  <2>3. CASE k # ScopeKey[a]
    BY <1>5, <2>1, <2>3 DEF Augment
  <2> QED BY <2>2, <2>3
<1>7. Augment(other) = Augment(args)
  BY <1>6 DEF Augment
<1> QED BY <1>1, <1>7

-----------------------------------------------------------------------------
\* The start-up state satisfies the invariant: nothing is loaded.
LEMMA InitSafe == ASSUME Assumptions, Init PROVE IInv
<1>1. [k \in AllKeys |-> Absent] \in Dict
  BY DEF Dict
<1>2. TypeOK
  BY <1>1 DEF Init, TypeOK, Phases
<1>3. LoadOK
  <2>1. raw \in Seq(Rule \cup {Malformed})
    BY DEF Init, Assumptions, RulesAssumption
  <2> QED BY <2>1 DEF Init, LoadOK
<1>4. EvaluationOK /\ AuditOK
  BY DEF Init, EvaluationOK, AuditOK
<1> QED BY <1>2, <1>3, <1>4 DEF IInv

\* A rule is appended at the place it has in the file.
LEMMA AcceptSafe == ASSUME Assumptions, IInv, AcceptRule PROVE IInv'
<1> USE DEF IInv
<1>1. raw \in Seq(Rule \cup {Malformed}) /\ policy \in Seq(Rule) /\ rule \in Nat \ {0}
  BY DEF TypeOK, Assumptions, RulesAssumption
<1>2. rule \in 1..Len(raw) /\ Len(policy) = rule - 1
  BY <1>1 DEF AcceptRule, LoadOK
<1>3. raw[rule] \in Rule
  BY <1>1, <1>2 DEF AcceptRule, Acceptable
<1>4. policy' \in Seq(Rule) /\ Len(policy') = rule
  BY <1>1, <1>2, <1>3 DEF AcceptRule
<1>5. \A k \in 1..Len(policy') : policy'[k] = raw[k] /\ Acceptable(policy'[k])
  BY <1>1, <1>2, <1>3 DEF AcceptRule, LoadOK
<1>6. audit = <<>> /\ audit' = <<>>
  BY DEF AcceptRule, LoadOK
<1>7. TypeOK'
  BY <1>1, <1>4, <1>6 DEF TypeOK, AcceptRule
<1>8. LoadOK'
  BY <1>1, <1>2, <1>4, <1>5, <1>6 DEF LoadOK, AcceptRule
<1>9. EvaluationOK' /\ AuditOK'
  BY <1>6 DEF EvaluationOK, AuditOK, AcceptRule
<1> QED BY <1>7, <1>8, <1>9

\* The end of load_policy, with a policy or with PolicyError.
LEMMA LoadedSafe == ASSUME Assumptions, IInv, RefusePolicy \/ Serve PROVE IInv'
<1> USE DEF IInv
<1>1. UNCHANGED <<raw, policy, rule, proposed, augmented, audit>> /\ audit = <<>>
  BY DEF RefusePolicy, Serve, LoadOK
<1>2. pc' \in {"refused", "serving"}
  BY DEF RefusePolicy, Serve
<1>3. TypeOK'
  BY <1>1, <1>2 DEF TypeOK, Phases
<1>4. raw \in Seq(Rule \cup {Malformed}) /\ policy \in Seq(Rule)
  BY DEF TypeOK, Assumptions, RulesAssumption
<1>5. pc' = "serving" => Len(policy) = Len(raw)
  BY <1>4 DEF RefusePolicy, Serve, LoadOK, TypeOK
<1>6. LoadOK'
  BY <1>1, <1>2, <1>5 DEF LoadOK
<1>7. EvaluationOK' /\ AuditOK'
  BY <1>1, <1>2 DEF EvaluationOK, AuditOK
<1> QED BY <1>3, <1>6, <1>7

\* Nothing is audited yet of an intention that is proposed.
LEMMA ProposeSafe ==
  ASSUME Assumptions, IInv, NEW i \in Intention, RaiseInvalid(i) \/ BeginEvaluation(i)
  PROVE  IInv'
<1> USE DEF IInv
<1>1. /\ pc = "serving" /\ proposed' = Append(proposed, i)
      /\ UNCHANGED <<raw, policy, audit>>
  BY DEF RaiseInvalid, BeginEvaluation
<1>2. proposed \in Seq(Intention) /\ policy \in Seq(Rule) /\ audit \in Seq(Verdict)
  BY DEF TypeOK
<1>3. /\ proposed' \in Seq(Intention) /\ Len(proposed') = Len(proposed) + 1
      /\ proposed'[Len(proposed')] = i
      /\ \A m \in 1..Len(proposed) : proposed'[m] = proposed[m]
  BY <1>1, <1>2
<1>4. LoadOK' /\ pc' \in {"serving", "evaluating"}
  BY <1>1 DEF LoadOK, RaiseInvalid, BeginEvaluation
<1>5. AuditOK'
  <2>1. ASSUME NEW n \in 1..Len(audit)
        PROVE  /\ Follows(audit[n], audit[n].intention)
               /\ \E m \in 1..Len(proposed') : audit[n].intention = proposed'[m]
    <3>1. PICK m \in 1..Len(proposed) : audit[n].intention = proposed[m]
      BY DEF AuditOK
    <3>2. m \in 1..Len(proposed') /\ proposed'[m] = proposed[m]
      BY <1>2, <1>3
    <3> QED BY <3>1, <3>2 DEF AuditOK
  <2>2. \A n \in 1..Len(audit) : Follows(audit[n], audit[n].intention)'
    BY <2>1, <1>1 DEF Follows
  <2> QED BY <1>1, <2>1, <2>2 DEF AuditOK
<1>6. CASE RaiseInvalid(i)
  <2>1. TypeOK'
    BY <1>1, <1>3, <1>6 DEF TypeOK, RaiseInvalid
  <2>2. EvaluationOK'
    BY <1>1, <1>6 DEF EvaluationOK, RaiseInvalid
  <2> QED BY <1>4, <1>5, <2>1, <2>2
<1>7. CASE BeginEvaluation(i)
  <2>1. Augment(i.args) \in Dict
    BY AugmentIsDict DEF Intention
  <2>2. TypeOK'
    BY <1>1, <1>3, <1>7, <2>1 DEF TypeOK, BeginEvaluation, Phases
  <2>3. EvaluationOK'
    <3>1. Current' = i
      BY <1>3 DEF Current
    <3>2. augmented' = Augment(i.args) /\ rule' = 1
      BY <1>7 DEF BeginEvaluation
    <3>3. Len(proposed') > 0 /\ Len(policy) \in Nat
      BY <1>2, <1>3
    <3> QED BY <1>1, <3>1, <3>2, <3>3 DEF EvaluationOK
  <2> QED BY <1>4, <1>5, <2>2, <2>3
<1> QED BY <1>6, <1>7

\* The loop of evaluate goes past a rule that does not apply.
LEMMA TryNextSafe == ASSUME Assumptions, IInv, TryNextRule PROVE IInv'
<1> USE DEF IInv
<1>1. UNCHANGED <<pc, raw, policy, proposed, augmented, audit>> /\ rule' = rule + 1
  BY DEF TryNextRule
<1>2. rule \in Nat \ {0} /\ Len(policy) \in Nat /\ rule <= Len(policy)
  BY DEF TypeOK, TryNextRule
<1>3. TypeOK'
  BY <1>1, <1>2 DEF TypeOK
<1>4. LoadOK'
  BY <1>1 DEF LoadOK, TryNextRule
<1>5. ~Matches(policy[rule], Current)
  BY DEF TryNextRule, EvaluationOK, Matches
<1>6. EvaluationOK'
  <2>1. \A k \in 1..rule : ~Matches(policy[k], Current)
    BY <1>2, <1>5 DEF EvaluationOK, TryNextRule
  <2>2. Current' = Current
    BY <1>1 DEF Current
  <2>3. rule' <= Len(policy) + 1 /\ 1..(rule' - 1) = 1..rule
    BY <1>1, <1>2
  <2> QED BY <1>1, <2>1, <2>2, <2>3 DEF EvaluationOK, TryNextRule
<1>7. AuditOK'
  BY <1>1 DEF AuditOK, Follows
<1> QED BY <1>3, <1>4, <1>6, <1>7

\* What is audited at the end of the loop is the verdict of the policy.
LEMMA ConcludeSafe ==
  ASSUME Assumptions, IInv, pc = "evaluating", NEW effect \in Effects, NEW n \in 0..Len(policy),
         Conclude(effect, n),
         Follows([effect |-> effect, matched |-> n, intention |-> Current], Current)
  PROVE  IInv'
<1> USE DEF IInv
<1> DEFINE v == [effect |-> effect, matched |-> n, intention |-> Current]
<1>1. UNCHANGED <<raw, policy, rule, proposed, augmented>> /\ pc' = "serving"
  BY DEF Conclude
<1>2. policy \in Seq(Rule) /\ proposed \in Seq(Intention) /\ audit \in Seq(Verdict)
  BY DEF TypeOK
<1>3. Len(proposed) \in 1..Len(proposed) /\ Current \in Intention
  BY <1>2 DEF EvaluationOK, Current
<1>4. v \in Verdict
  BY <1>2, <1>3 DEF Verdict
<1>5. LoadOK' /\ EvaluationOK'
  BY <1>1 DEF LoadOK, EvaluationOK
<1>6. CASE audit' = audit
  <2>1. TypeOK'
    BY <1>1, <1>6 DEF TypeOK, Phases
  <2>2. AuditOK'
    BY <1>1, <1>6 DEF AuditOK, Follows
  <2> QED BY <1>5, <2>1, <2>2
<1>7. CASE audit' = Append(audit, v)
  <2>1. /\ audit' \in Seq(Verdict) /\ Len(audit') = Len(audit) + 1
        /\ audit'[Len(audit')] = v
        /\ \A m \in 1..Len(audit) : audit'[m] = audit[m]
    BY <1>2, <1>4, <1>7
  <2>2. \A m \in 1..Len(audit') : m = Len(audit') \/ m \in 1..Len(audit)
    BY <1>2, <2>1
  <2>3. \A m \in 1..Len(audit') : audit'[m].matched \in 0..Len(policy)
    BY <1>2, <2>1, <2>2 DEF TypeOK
  <2>4. TypeOK'
    <3>1. DOMAIN audit' = 1..Len(audit')
      BY <2>1
    <3> QED BY <1>1, <2>1, <2>3, <3>1 DEF TypeOK, Phases
  <2>5. \A m \in 1..Len(audit') : Follows(audit'[m], audit'[m].intention)
    BY <2>1, <2>2 DEF AuditOK
  <2>6. \A m \in 1..Len(audit') : Follows(audit[m], audit[m].intention)'
    BY <1>1, <2>5 DEF Follows
  <2>7. \A m \in 1..Len(audit') : \E j \in 1..Len(proposed) : audit'[m].intention = proposed[j]
    <3>1. v.intention = proposed[Len(proposed)]
      BY DEF Current
    <3> QED BY <1>3, <2>1, <2>2, <3>1 DEF AuditOK
  <2>8. AuditOK'
    BY <1>1, <2>6, <2>7 DEF AuditOK
  <2> QED BY <1>5, <2>4, <2>8
<1> QED BY <1>6, <1>7 DEF Conclude

\* The rule the loop stops at is the first that applies.
LEMMA ReturnMatchSafe == ASSUME Assumptions, IInv, ReturnMatch PROVE IInv'
<1>1. rule \in 1..Len(policy) /\ policy \in Seq(Rule)
  BY DEF IInv, TypeOK, ReturnMatch
<1>2. policy[rule].effect \in Effects
  <2>1. policy[rule] \in Rule
    BY <1>1
  <2> QED BY <2>1 DEF Rule
<1>3. Matches(policy[rule], Current)
  BY DEF IInv, EvaluationOK, ReturnMatch, Matches
<1>4. Follows([effect |-> policy[rule].effect, matched |-> rule, intention |-> Current], Current)
  BY <1>1, <1>3 DEF IInv, EvaluationOK, ReturnMatch, Follows
<1>5. rule \in 0..Len(policy) /\ pc = "evaluating" /\ Conclude(policy[rule].effect, rule)
  BY <1>1 DEF ReturnMatch
<1> QED BY <1>2, <1>4, <1>5, ConcludeSafe

\* A loop that ends without a match denies.
LEMMA DenyByDefaultSafe == ASSUME Assumptions, IInv, DenyByDefault PROVE IInv'
<1>1. Len(policy) \in Nat /\ rule \in Nat /\ rule = Len(policy) + 1
  BY DEF IInv, TypeOK, EvaluationOK, DenyByDefault
<1>2. \A k \in 1..Len(policy) : ~Matches(policy[k], Current)
  BY <1>1 DEF IInv, EvaluationOK, DenyByDefault
<1>3. Follows([effect |-> "deny", matched |-> 0, intention |-> Current], Current)
  BY <1>2 DEF Follows
<1>4. "deny" \in Effects /\ 0 \in 0..Len(policy)
  BY <1>1 DEF Effects
<1>5. pc = "evaluating" /\ Conclude("deny", 0)
  BY DEF DenyByDefault
<1> QED BY <1>3, <1>4, <1>5, ConcludeSafe

\* The invariant holds in every reachable state: the two loops of the policy
\* layer, load_policy and evaluate, do what they are for at every turn.
THEOREM PolicyInvariance == Spec => []IInv
<1>1. Init => IInv
  BY Assumed, InitSafe
<1>2. IInv /\ [Next]_vars => IInv'
  <2>1. SUFFICES ASSUME IInv, [Next]_vars PROVE Assumptions /\ IInv'
    OBVIOUS
  <2>9. Assumptions
    BY Assumed
  <2>2. CASE AcceptRule
    BY <2>1, <2>9, <2>2, AcceptSafe
  <2>3. CASE RefusePolicy \/ Serve
    BY <2>1, <2>9, <2>3, LoadedSafe
  <2>4. CASE \E i \in Intention : RaiseInvalid(i) \/ BeginEvaluation(i)
    BY <2>1, <2>9, <2>4, ProposeSafe
  <2>5. CASE TryNextRule
    BY <2>1, <2>9, <2>5, TryNextSafe
  <2>6. CASE ReturnMatch
    BY <2>1, <2>9, <2>6, ReturnMatchSafe
  <2>7. CASE DenyByDefault
    BY <2>1, <2>9, <2>7, DenyByDefaultSafe
  <2>8. CASE UNCHANGED vars
    <3>1. TypeOK' /\ LoadOK'
      BY <2>1, <2>8 DEF vars, IInv, TypeOK, LoadOK
    <3>2. EvaluationOK' /\ AuditOK'
      BY <2>1, <2>8 DEF vars, IInv, EvaluationOK, AuditOK, Current, Follows
    <3> QED BY <2>9, <3>1, <3>2 DEF IInv
  <2> QED BY <2>1, <2>2, <2>3, <2>4, <2>5, <2>6, <2>7, <2>8, <2>9 DEF Next
<1> QED BY <1>1, <1>2, PTL DEF Spec

\* Every variable keeps its type, and every audited verdict cites a rule that
\* is in the policy, or none (load_policy, decide).
THEOREM PolicyTypeCorrect == Spec => []TypeOK
<1>1. IInv => TypeOK
  BY DEF IInv
<1> QED BY <1>1, PolicyInvariance, PTL

\* No intention is decided by a part of the operator's rules only
\* (load_policy refuses the file, it never drops a rule).
THEOREM PolicyIsServedWhole == Spec => []ServesWholePolicy
<1>1. IInv => ServesWholePolicy
  <2> SUFFICES ASSUME IInv, pc \in {"serving", "evaluating"}
               PROVE  policy = raw /\ \A k \in DOMAIN policy : policy[k].covers \cap Known # {}
    BY DEF ServesWholePolicy
  <2>0. Assumptions
    BY Assumed
  <2>1. policy \in Seq(Rule) /\ raw \in Seq(Rule \cup {Malformed})
    BY <2>0 DEF IInv, TypeOK, Assumptions, RulesAssumption
  <2>2. Len(policy) = Len(raw)
    BY DEF IInv, LoadOK
  <2>3. \A k \in 1..Len(policy) : policy[k] = raw[k] /\ policy[k].covers \cap Known # {}
    BY DEF IInv, LoadOK, Acceptable
  <2> QED BY <2>1, <2>2, <2>3
<1> QED BY <1>1, PolicyInvariance, PTL

-----------------------------------------------------------------------------
\* A verdict that follows from the evaluator is the one the policy warrants.
LEMMA FollowsIsWarranted ==
  ASSUME Assumptions, policy \in Seq(Rule), NEW v, NEW i \in Intention, Follows(v, i)
  PROVE  Warranted(v, i)
<1>1. \A k \in 1..Len(policy) : Matches(policy[k], i) <=> Covers(policy[k], i)
  BY EvaluatorIsTheMeaning
<1>2. DOMAIN policy = 1..Len(policy)
  OBVIOUS
<1>3. CASE v.matched \in 1..Len(policy)
  <2>1. \A k \in 1..(v.matched - 1) : k \in 1..Len(policy)
    BY <1>3
  <2> QED BY <1>1, <1>2, <1>3, <2>1 DEF Follows, Warranted
<1>4. CASE v.matched \notin 1..Len(policy)
  BY <1>1, <1>2, <1>4 DEF Follows, Warranted
<1> QED BY <1>3, <1>4

\* First match wins and no match denies, for every policy: the loop of
\* evaluate on the arguments of decide gives what the policy means.
THEOREM FirstMatchIsTheVerdict == Spec => []FirstMatchDecides
<1>1. IInv => FirstMatchDecides
  <2> SUFFICES ASSUME IInv, NEW n \in DOMAIN audit
               PROVE  Warranted(audit[n], audit[n].intention)
    BY DEF FirstMatchDecides
  <2>0. Assumptions
    BY Assumed
  <2>1. audit \in Seq(Verdict) /\ policy \in Seq(Rule) /\ n \in 1..Len(audit)
    BY DEF IInv, TypeOK
  <2>2. audit[n] \in Verdict
    BY <2>1
  <2>4. audit[n].intention \in Intention
    BY <2>2 DEF Verdict
  <2>3. Follows(audit[n], audit[n].intention)
    BY <2>1 DEF IInv, AuditOK
  <2> QED BY <2>0, <2>1, <2>3, <2>4, FollowsIsWarranted
<1> QED BY <1>1, PolicyInvariance, PTL

\* The scope a verdict rests on is the vault's, whatever the LLM wrote under
\* the same name (the merge of decide).
THEOREM ScopeIsTheVaults == Spec => []VaultDecidesScope
<1>1. IInv => VaultDecidesScope
  <2> SUFFICES ASSUME IInv, NEW n \in DOMAIN audit, NEW a \in Keys,
                      NEW w \in Values \cup {Absent}, Plain(w),
                      ScopeOf(audit[n].intention.args, a) # Absent, ScopeKey[a] \in Keys,
                      Plain(audit[n].intention.args[ScopeKey[a]])
               PROVE  Warranted(audit[n], WithArgs(audit[n].intention,
                        [audit[n].intention.args EXCEPT ![ScopeKey[a]] = w]))
    BY DEF VaultDecidesScope
  <2>0. Assumptions
    BY Assumed
  <2> DEFINE i == audit[n].intention
             args == [i.args EXCEPT ![ScopeKey[a]] = w]
             other == WithArgs(i, args)
  <2>1. audit \in Seq(Verdict) /\ policy \in Seq(Rule) /\ n \in 1..Len(audit)
    BY DEF IInv, TypeOK
  <2>2. i \in Intention /\ i.args \in Args /\ i.capability \in Names
    <3>1. audit[n] \in Verdict
      BY <2>1
    <3> QED BY <3>1 DEF Verdict, Intention
  <2>3. args \in Args /\ Augment(args) = Augment(i.args)
    BY <2>0, <2>2, OverwrittenIsNotSeen
  <2>4. other \in Intention /\ other.args = args /\ other.capability = i.capability
    <3> HIDE DEF args, i
    <3> QED BY <2>2, <2>3 DEF Intention, WithArgs
  <2>5. \A r : Matches(r, other) <=> Matches(r, i)
    <3> HIDE DEF args, i, other
    <3> QED BY <2>3, <2>4 DEF Matches
  <2>6. Follows(audit[n], i)
    BY <2>1 DEF IInv, AuditOK
  <2>7. Follows(audit[n], other)
    BY <2>5, <2>6 DEF Follows
  <2>8. Warranted(audit[n], other)
    BY <2>0, <2>1, <2>4, <2>7, FollowsIsWarranted
  <2> QED BY <2>8
<1> QED BY <1>1, PolicyInvariance, PTL

\* A verdict is about an intention the LLM proposed, argument for argument:
\* the pseudo-arguments are in none (decide).
THEOREM VerdictsAreOnProposals == Spec => []VerdictsKeepProposals
<1>1. IInv => VerdictsKeepProposals
  <2> SUFFICES ASSUME IInv PROVE VerdictsKeepProposals
    OBVIOUS
  <2>1. DOMAIN audit = 1..Len(audit) /\ DOMAIN proposed = 1..Len(proposed)
    BY DEF IInv, TypeOK
  <2> QED BY <2>1 DEF VerdictsKeepProposals, IInv, AuditOK
<1> QED BY <1>1, PolicyInvariance, PTL
===============================================================================
