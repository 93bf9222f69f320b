----------------------------- MODULE OpnsenseProofs -----------------------------
(***************************************************************************)
(* The safety properties of OpnsenseChange hold for every set of calls, of *)
(* services and of plans with the assumption of that module.               *)
(*                                                                         *)
(* The argument: a function is only past its change when the device may    *)
(* have it, in its configuration or in a restore point (TouchedOK), so at  *)
(* its restore point the device has none of it.  And once its              *)
(* reconfiguration succeeded, whatever the other functions do, its change  *)
(* is in effect as long as it is in the configuration (StagedOK).          *)
(***************************************************************************)
EXTENDS OpnsenseChange, TLAPS

\* The coroutine h has the answer to its k-th request.
Past(h, k) == h.step > k \/ (h.step = k /\ h.pc # "awaits")

\* A coroutine that has the answers to its first h.step requests.
Weak(h) ==
  /\ h.plan \in Plans
  /\ h \in Coroutine(h.plan)
  /\ h.applied # "none" => \E j \in Steps(h.plan) : Does(h.plan, j, {"apply"}) /\ j <= h.step

Ready(h) ==
  /\ Weak(h)
  /\ \A j \in Steps(h.plan) :
       Does(h.plan, j, {"apply"}) /\ j <= h.step => h.applied \in {"ok", "refused"}

TaskOK(h) ==
  /\ h.plan \in Plans
  /\ h \in Coroutine(h.plan)
  /\ h.pc = "awaits" => h.step \in Steps(h.plan)
  /\ h.applied # "none" => \E j \in Steps(h.plan) : Does(h.plan, j, {"apply"}) /\ Past(h, j)
  /\ h.pc \in {"awaits", "returned"} =>
       \A j \in Steps(h.plan) :
         Does(h.plan, j, {"apply"}) /\ Past(h, j) => h.applied \in {"ok", "refused"}
  /\ h.pc = "returned" => ~MoreToAsk(h)

TasksOK == \A c \in Calls : calls[c] = Idle \/ TaskOK(calls[c])

RequestOK(r) ==
  LET h == calls[r.call] IN
  /\ h # Idle
  /\ r.step \in Steps(h.plan)
  /\ r.step <= h.step
  /\ r.awaited => h.pc = "awaits" /\ h.step = r.step
  /\ ~r.awaited /\ Does(h.plan, r.step, {"change"}) => h.pc \in {"error", "raised"}

RequestsOK ==
  /\ requests \subseteq Request
  /\ \A r \in requests : RequestOK(r)
  /\ \A c \in Calls : calls[c] # Idle /\ Awaits(c) =>
       [call |-> c, step |-> calls[c].step, awaited |-> TRUE] \in requests

DeviceOK ==
  /\ config \in Config
  /\ running \in Config
  /\ savepoints \subseteq Savepoint

\* The device may have the change of c.
Touched(c) ==
  \E s \in Services :
    \/ \E m \in config[s] : m.call = c
    \/ \E m \in running[s] : m.call = c
    \/ \E p \in savepoints : \E m \in p.config[s] : m.call = c

PastChange(h) == \E k \in Steps(h.plan) : Does(h.plan, k, {"change"}) /\ Past(h, k)

TouchedOK == \A c \in Calls : Touched(c) => calls[c] # Idle /\ PastChange(calls[c])

InEffect(c, s) == \A m \in config[s] : m.call = c => m \in running[s]

StagedOK ==
  \A c \in Calls :
    calls[c] # Idle /\ calls[c].pc \in {"awaits", "returned"} /\ calls[c].applied = "ok" =>
      \A k \in Steps(calls[c].plan) :
        Does(calls[c].plan, k, {"change"}) => InEffect(c, calls[c].plan.steps[k].service)

\* The inductive invariant.
Inv ==
  /\ TasksOK /\ RequestsOK /\ DeviceOK
  /\ TouchedOK /\ RestorePointPredatesChange /\ StagedOK

-----------------------------------------------------------------------------

LEMMA PlanFacts ==
  ASSUME NEW p \in Plans
  PROVE  /\ Len(p.steps) \in Nat
         /\ Steps(p) = 1 .. Len(p.steps)
         /\ WellFormed(p, Services)
         /\ p.guarded \in BOOLEAN /\ p.blocks \in BOOLEAN
<1>1. WellFormed(p, Services)
  BY PlansAssumption
<1>2. p \in Plan
  BY <1>1 DEF WellFormed
<1>3. p.steps \in Seq(Step) /\ p.guarded \in BOOLEAN /\ p.blocks \in BOOLEAN
  BY <1>2 DEF Plan
<1> QED
  BY <1>1, <1>3 DEF Steps

\* What an answer or an exception leaves the coroutine with.
LEMMA NotedFacts ==
  ASSUME NEW h, TaskOK(h), h.pc = "awaits",
         NEW o \in {"ok", "refused", "failed"}
  PROVE  /\ Weak(Noted(h, o))
         /\ (o # "failed" \/ ~Does(h.plan, h.step, {"apply"})) => Ready(Noted(h, o))
         /\ Noted(h, o).plan = h.plan
         /\ Noted(h, o).step = h.step
<1> DEFINE n == Noted(h, o)
<1>1. /\ n.plan = h.plan /\ n.step = h.step /\ n.pc = "awaits" /\ n.again = FALSE
      /\ n.point = IF Does(h.plan, h.step, {"savepoint"}) THEN o ELSE h.point
      /\ n.answer = IF Does(h.plan, h.step, {"change"}) THEN o ELSE h.answer
      /\ n.applied = IF Does(h.plan, h.step, {"apply"}) THEN o ELSE h.applied
  BY DEF Noted, Task
<1>2. h.plan \in Plans /\ h \in Coroutine(h.plan) /\ h.step \in Steps(h.plan)
  BY DEF TaskOK
<1>3. n \in Coroutine(n.plan)
  BY <1>2 DEF Noted, Task, Coroutine, Outcomes
<1>4. /\ Len(h.plan.steps) \in Nat /\ Steps(h.plan) = 1 .. Len(h.plan.steps)
  BY <1>2, PlanFacts
<1>5. n.applied # "none" => \E j \in Steps(n.plan) : Does(n.plan, j, {"apply"}) /\ j <= n.step
  <2>1. CASE Does(h.plan, h.step, {"apply"})
    BY <2>1, <1>1, <1>2, <1>4
  <2>2. CASE ~Does(h.plan, h.step, {"apply"})
    BY <2>2, <1>1, <1>2, <1>4 DEF TaskOK, Past
  <2> QED
    BY <2>1, <2>2
<1>6. Weak(n)
  BY <1>1, <1>2, <1>3, <1>5 DEF Weak
<1>7. ASSUME o # "failed" \/ ~Does(h.plan, h.step, {"apply"}),
             NEW j \in Steps(n.plan), Does(n.plan, j, {"apply"}), j <= n.step
      PROVE  n.applied \in {"ok", "refused"}
  <2>1. CASE Does(h.plan, h.step, {"apply"})
    BY <2>1, <1>1, <1>7
  <2>2. CASE ~Does(h.plan, h.step, {"apply"})
    <3>1. j # h.step /\ j < h.step
      BY <2>2, <1>1, <1>2, <1>4, <1>7
    <3>2. Past(h, j)
      BY <3>1, <1>2, <1>4, <1>1 DEF Past
    <3> QED
      BY <3>2, <2>2, <1>1, <1>7 DEF TaskOK
  <2> QED
    BY <2>1, <2>2
<1> QED
  BY <1>1, <1>6, <1>7 DEF Ready

\* The coroutine goes from h to h2, which is past the request of h.
Settled(c, kept, h, h2) ==
  /\ Becomes(c, h2)
  /\ TaskOK(h2)
  /\ h2 # Idle
  /\ h2.plan = h.plan
  /\ h2.point = h.point /\ h2.answer = h.answer /\ h2.applied = h.applied
  /\ h2.step >= h.step
  /\ Past(h2, h.step)
  /\ \/ h2.pc = "awaits"
        /\ requests' = kept \cup {[call |-> c, step |-> h2.step, awaited |-> TRUE]}
     \/ h2.pc # "awaits" /\ requests' = kept

LEMMA FailGives ==
  ASSUME NEW c \in Calls, NEW kept, NEW h, Weak(h), Fail(c, kept, h)
  PROVE  \E h2 : Settled(c, kept, h, h2) /\ h2.pc \in {"error", "raised"}
<1> DEFINE pc == IF h.plan.guarded THEN "error" ELSE "raised"
           h2 == At(h, pc, h.step, FALSE)
<1>1. h.plan \in Plans /\ h.step \in Nat
  BY DEF Weak, Coroutine
<1>6. pc \in {"error", "raised"}
  OBVIOUS
<1>3. Becomes(c, h2) /\ requests' = kept
  BY DEF Fail, Reply
<1> HIDE DEF pc
<1>2. /\ h2 \in Coroutine(h.plan) /\ h2.pc = pc /\ h2.plan = h.plan /\ h2.step = h.step
      /\ h2.point = h.point /\ h2.answer = h.answer /\ h2.applied = h.applied /\ h2 # Idle
  <2>1. h \in Coroutine(h.plan)
    BY DEF Weak
  <2>2. h2 \in Coroutine(h.plan)
    BY <1>1, <1>6, <2>1 DEF At, Task, Coroutine
  <2>3. /\ h2.pc = pc /\ h2.plan = h.plan /\ h2.step = h.step
       /\ h2.point = h.point /\ h2.answer = h.answer /\ h2.applied = h.applied
    BY DEF At, Task
  <2> HIDE DEF h2
  <2>4. h2 # Idle
    BY <1>1, <1>6, <2>3 DEF Idle
  <2> QED
    BY <2>2, <2>3, <2>4
<1> HIDE DEF h2
<1>4. Past(h2, h.step)
  BY <1>1, <1>2, <1>6 DEF Past
<1>5. TaskOK(h2)
  <2>1. h2.applied # "none" =>
          \E j \in Steps(h2.plan) : Does(h2.plan, j, {"apply"}) /\ Past(h2, j)
    <3>1. Steps(h.plan) \subseteq Nat
      BY <1>1, PlanFacts
    <3> QED
      BY <1>1, <1>2, <1>6, <3>1 DEF Weak, Past
  <2> QED
    BY <1>1, <1>2, <1>6, <2>1 DEF TaskOK
<1> QED
  BY <1>1, <1>2, <1>3, <1>4, <1>5, <1>6 DEF Settled

LEMMA ResumeGives ==
  ASSUME NEW c \in Calls, NEW kept, NEW h, Ready(h), Resume(c, kept, h)
  PROVE  \E h2 : Settled(c, kept, h, h2)
<1>1. Weak(h) /\ h.plan \in Plans /\ h.step \in Nat
  BY DEF Ready, Weak, Coroutine
<1>2. Steps(h.plan) \subseteq Nat
  BY <1>1, PlanFacts
<1>3. CASE ~MoreToAsk(h) /\ Reply(c, kept, At(h, "returned", h.step, FALSE))
  <2> DEFINE h2 == At(h, "returned", h.step, FALSE)
  <2>6. Becomes(c, h2) /\ requests' = kept
    BY <1>3 DEF Reply
  <2>1. /\ h2 \in Coroutine(h.plan) /\ h2.pc = "returned" /\ h2.plan = h.plan
        /\ h2.step = h.step /\ h2.point = h.point /\ h2.answer = h.answer
        /\ h2.applied = h.applied /\ h2 # Idle
    <3>1. h \in Coroutine(h.plan)
      BY <1>1 DEF Weak
    <3>2. h2 \in Coroutine(h.plan)
      BY <1>1, <3>1 DEF At, Task, Coroutine
    <3>3. /\ h2.pc = "returned" /\ h2.plan = h.plan /\ h2.step = h.step
         /\ h2.point = h.point /\ h2.answer = h.answer /\ h2.applied = h.applied
      BY DEF At, Task
    <3> HIDE DEF h2
    <3>4. h2 # Idle
      BY <1>1, <3>3 DEF Idle
    <3> QED
      BY <3>2, <3>3, <3>4
  <2> HIDE DEF h2
  <2>2. ~MoreToAsk(h2)
    BY <1>3, <2>1 DEF MoreToAsk
  <2>3. \A j \in Steps(h.plan) : Past(h2, j) <=> j <= h.step
    BY <1>1, <1>2, <2>1 DEF Past
  <2>4. TaskOK(h2)
    BY <1>1, <2>1, <2>2, <2>3 DEF TaskOK, Ready, Weak
  <2>5. Past(h2, h.step)
    BY <1>1, <2>1 DEF Past
  <2> QED
    BY <1>1, <2>1, <2>4, <2>5, <2>6 DEF Settled
<1>4. CASE Fail(c, kept, h)
  BY <1>1, <1>4, FailGives
<1>5. CASE MoreToAsk(h) /\ Post(c, kept, At(h, "awaits", h.step + 1, FALSE))
  <2> DEFINE h2 == At(h, "awaits", h.step + 1, FALSE)
  <2>6. Becomes(c, h2) /\ requests' = kept \cup {[call |-> c, step |-> h2.step, awaited |-> TRUE]}
    BY <1>5 DEF Post
  <2>7. h.step + 1 \in Nat
    BY <1>1
  <2>1. /\ h2 \in Coroutine(h.plan) /\ h2.pc = "awaits" /\ h2.plan = h.plan
        /\ h2.step = h.step + 1 /\ h2.point = h.point /\ h2.answer = h.answer
        /\ h2.applied = h.applied /\ h2 # Idle
    <3>1. h \in Coroutine(h.plan)
      BY <1>1 DEF Weak
    <3>2. h2 \in Coroutine(h.plan)
      BY <1>1, <2>7, <3>1 DEF At, Task, Coroutine
    <3>3. /\ h2.pc = "awaits" /\ h2.plan = h.plan /\ h2.step = h.step + 1
         /\ h2.point = h.point /\ h2.answer = h.answer /\ h2.applied = h.applied
      BY DEF At, Task
    <3> HIDE DEF h2
    <3>4. h2 # Idle
      BY <1>1, <2>7, <3>3 DEF Idle
    <3> QED
      BY <3>2, <3>3, <3>4
  <2> HIDE DEF h2
  <2>2. h2.step \in Steps(h2.plan)
    BY <1>5, <2>1 DEF MoreToAsk
  <2>3. \A j \in Steps(h.plan) : Past(h2, j) <=> j <= h.step
    BY <1>1, <1>2, <2>1 DEF Past
  <2>4. TaskOK(h2)
    BY <1>1, <2>1, <2>2, <2>3 DEF TaskOK, Ready, Weak
  <2>5. Past(h2, h.step)
    BY <1>1, <2>1 DEF Past
  <2> QED
    BY <1>1, <2>1, <2>4, <2>5, <2>6 DEF Settled
<1> QED
  BY <1>3, <1>4, <1>5 DEF Resume

-----------------------------------------------------------------------------
\* What one step of the device does to what the invariant says of changes: it
\* may take the change of the call c, if that is its request k.
DeviceStep(c, p, k) ==
  /\ DeviceOK'
  /\ savepoints \subseteq savepoints'
  /\ \A x \in Calls : Touched(x)' => Touched(x) \/ (x = c /\ Does(p, k, {"change"}))
  /\ \A x \in Calls : \A s \in Services :
       InEffect(x, s) => InEffect(x, s)' \/ (x = c /\ Does(p, k, {"change"}))

LEMMA DeviceIdle ==
  ASSUME DeviceOK, UNCHANGED <<config, running, savepoints>>, NEW c, NEW p, NEW k
  PROVE  DeviceStep(c, p, k)
BY DEF DeviceStep, DeviceOK, Touched, InEffect

LEMMA ServeFacts ==
  ASSUME DeviceOK, NEW r, r.call \in Calls, NEW p \in Plans, p = calls[r.call].plan, Serve(r),
         NEW s, s = p.steps[r.step].service
  PROVE  /\ DeviceStep(r.call, p, r.step)
         /\ Does(p, r.step, {"apply"}) => \A x \in Calls : InEffect(x, s)'
         /\ Does(p, r.step, {"savepoint"}) =>
              [by |-> r.call, config |-> config] \in savepoints'
<1>1. r.step \in Steps(p) /\ p.steps[r.step].does \in OnService => s \in Services
  BY PlanFacts DEF WellFormed, Does
<1>2. CASE Does(p, r.step, {"find", "read", "act"}) /\ UNCHANGED <<config, running, savepoints>>
  <2>1. DeviceStep(r.call, p, r.step)
    BY <1>2, DeviceIdle
  <2> QED
    BY <1>2, <2>1 DEF Does
<1>3. CASE Does(p, r.step, {"savepoint"}) /\ MakeSavepoint(r.call)
  <2>1. savepoints' = savepoints \cup {[by |-> r.call, config |-> config]}
    BY <1>3 DEF MakeSavepoint
  <2>2. config' = config /\ running' = running
    BY <1>3 DEF MakeSavepoint
  <2>3. DeviceOK'
    BY <2>1, <2>2 DEF DeviceOK, Savepoint
  <2>4. \A x \in Calls : Touched(x)' => Touched(x)
    BY <2>1, <2>2 DEF Touched
  <2>5. DeviceStep(r.call, p, r.step)
    BY <2>1, <2>2, <2>3, <2>4 DEF DeviceStep, InEffect
  <2> QED
    BY <1>3, <2>1, <2>5 DEF Does
<1>4. CASE Does(p, r.step, {"change"}) /\ MakeChange(r.call, r.step, s)
  <2> DEFINE m == [call |-> r.call, step |-> r.step]
  <2>1. /\ config' = [v \in Services |-> IF v = s THEN config[v] \cup {m} ELSE config[v]]
        /\ running' = running /\ savepoints' = savepoints
    BY <1>4 DEF MakeChange
  <2>5. m \in ChangeId
    BY <1>4, PlanFacts DEF Does, ChangeId
  <2>6. m.call = r.call
    OBVIOUS
  <2> HIDE DEF m
  <2>2. DeviceOK'
    BY <2>1, <2>5 DEF DeviceOK, Config
  <2>3. \A x \in Calls : x # r.call =>
          \A v \in Services : \A n : n.call = x => (n \in config'[v] <=> n \in config[v])
    BY <2>1, <2>6 DEF DeviceOK, Config
  <2>4. DeviceStep(r.call, p, r.step)
    BY <1>4, <2>1, <2>2, <2>3 DEF DeviceStep, Touched, InEffect
  <2> QED
    BY <1>4, <2>4 DEF Does
<1>5. CASE Does(p, r.step, {"apply"}) /\ Reconfigure(s)
  <2>1. /\ running' = [v \in Services |-> IF v = s THEN config[v] ELSE running[v]]
        /\ config' = config /\ savepoints' = savepoints
    BY <1>5 DEF Reconfigure
  <2>2. s \in Services
    BY <1>1, <1>5 DEF Does, OnService
  <2>3. DeviceOK'
    BY <2>1 DEF DeviceOK, Config
  <2>4. DeviceStep(r.call, p, r.step)
    BY <2>1, <2>2, <2>3 DEF DeviceStep, Touched, InEffect
  <2>5. \A x \in Calls : InEffect(x, s)'
    BY <2>1, <2>2 DEF InEffect
  <2> QED
    BY <1>5, <2>4, <2>5 DEF Does
<1>6. CASE Does(p, r.step, {"revert"}) /\ Revert(s)
  <2>1. /\ config' = [v \in Services |-> IF v = s THEN running[v] ELSE config[v]]
        /\ running' = running /\ savepoints' = savepoints
    BY <1>6 DEF Revert
  <2>2. DeviceOK'
    BY <2>1 DEF DeviceOK, Config
  <2>3. DeviceStep(r.call, p, r.step)
    BY <2>1, <2>2 DEF DeviceStep, Touched, InEffect
  <2> QED
    BY <1>6, <2>3 DEF Does
<1>7. CASE Does(p, r.step, {"restore"}) /\ Restore
  <2>1. PICK b \in savepoints : config' = b.config /\ running' = b.config
    BY <1>7 DEF Restore
  <2>2. savepoints' = savepoints
    BY <1>7 DEF Restore
  <2>3. DeviceOK'
    BY <2>1, <2>2 DEF DeviceOK, Savepoint
  <2>4. DeviceStep(r.call, p, r.step)
    BY <2>1, <2>2, <2>3 DEF DeviceStep, Touched, InEffect
  <2> QED
    BY <1>7, <2>4 DEF Does
<1> QED
  BY <1>2, <1>3, <1>4, <1>5, <1>6, <1>7 DEF Serve

\* The requests while c goes from h to h2: those of the others and its own
\* late ones, which its last one may join.
Kept(c, kept, h, h2) ==
  /\ \A q \in requests : q.call # c \/ ~q.awaited => q \in kept
  /\ \A q \in kept :
       \/ q \in requests /\ (q.call # c \/ ~q.awaited)
       \/ /\ q = [call |-> c, step |-> h.step, awaited |-> FALSE]
          /\ h.step \in Steps(h.plan)
          /\ Does(h.plan, h.step, {"change"}) => h2.pc \in {"error", "raised"}

\* The coroutine of c as it was, and h as it takes up the answer.
From(c, h) ==
  \/ calls[c] = Idle /\ h.step = 0 /\ h.point = "none" /\ h.applied = "none"
  \/ /\ calls[c] # Idle /\ Awaits(c)
     /\ h.plan = calls[c].plan /\ h.step = calls[c].step

\* A call takes one step forward.
LEMMA Advance ==
  ASSUME Inv, NEW c \in Calls, NEW h, NEW h2, NEW kept,
         From(c, h), Settled(c, kept, h, h2), Kept(c, kept, h, h2),
         DeviceStep(c, h.plan, h.step),
         h.point = "ok" =>
           \/ calls[c] # Idle /\ calls[c].point = "ok"
           \/ ~Touched(c) /\ [by |-> c, config |-> config] \in savepoints',
         h.applied = "ok" =>
           \/ calls[c] # Idle /\ calls[c].applied = "ok"
           \/ /\ Does(h.plan, h.step, {"apply"})
              /\ InEffect(c, h.plan.steps[h.step].service)'
  PROVE  Inv'
<1> DEFINE new == [call |-> c, step |-> h2.step, awaited |-> TRUE]
<1>1. /\ \A d \in Calls : calls'[d] = IF d = c THEN h2 ELSE calls[d]
      /\ TaskOK(h2) /\ h2 # Idle /\ h2.plan = h.plan /\ h2.plan \in Plans
      /\ h2.step \in Nat /\ h2.step >= h.step /\ Past(h2, h.step)
      /\ h2.point = h.point /\ h2.applied = h.applied
  BY DEF Settled, Becomes, TaskOK, Coroutine
<1>2. calls[c] # Idle => TaskOK(calls[c]) /\ calls[c].step \in Nat
  BY DEF Inv, TasksOK, TaskOK, Coroutine
<1>3. h.step \in Nat
  BY <1>2 DEF From
<1>4. Steps(h.plan) \subseteq Nat
  BY <1>1, PlanFacts
<1>5. TasksOK'
  BY <1>1 DEF Inv, TasksOK, TaskOK, MoreToAsk, Does, Past, Steps
<1>6. RequestsOK'
  <2>1. \A q \in requests' : q \in kept \/ (h2.pc = "awaits" /\ q = new)
    BY DEF Settled
  <2>2. ASSUME NEW q \in kept
        PROVE  q \in Request /\ RequestOK(q)'
    <3>1. CASE q \in requests /\ q.call # c
      BY <3>1, <1>1 DEF Inv, RequestsOK, RequestOK, Request, Does, Steps
    <3>2. CASE q \in requests /\ q.call = c /\ ~q.awaited
      <4>1. RequestOK(q) /\ q \in Request
        BY <3>2 DEF Inv, RequestsOK
      <4>2. calls[c] # Idle /\ Awaits(c) /\ h.plan = calls[c].plan /\ h.step = calls[c].step
        BY <3>2, <4>1 DEF From, RequestOK
      <4>3. q.step \in Steps(h.plan) /\ q.step <= h.step /\ ~Does(h.plan, q.step, {"change"})
        BY <3>2, <4>1, <4>2 DEF RequestOK, Awaits
      <4>4. q.step <= h2.step
        BY <1>1, <1>3, <1>4, <4>3
      <4> QED
        BY <1>1, <3>2, <4>1, <4>3, <4>4 DEF RequestOK
    <3>3. CASE /\ q = [call |-> c, step |-> h.step, awaited |-> FALSE]
               /\ h.step \in Steps(h.plan)
               /\ Does(h.plan, h.step, {"change"}) => h2.pc \in {"error", "raised"}
      BY <1>1, <1>3, <3>3 DEF Request, RequestOK
    <3> QED
      BY <3>1, <3>2, <3>3 DEF Kept
  <2>3. ASSUME h2.pc = "awaits"
        PROVE  new \in Request /\ RequestOK(new)'
    <3>1. h2.step \in Steps(h2.plan)
      BY <1>1, <2>3 DEF TaskOK
    <3> QED
      BY <1>1, <2>3, <3>1 DEF Request, RequestOK
  <2>4. ASSUME NEW d \in Calls, calls'[d] # Idle, Awaits(d)'
        PROVE  [call |-> d, step |-> calls'[d].step, awaited |-> TRUE] \in requests'
    <3>1. CASE d = c
      BY <1>1, <2>4, <3>1 DEF Settled, Awaits
    <3>2. CASE d # c
      <4> DEFINE q == [call |-> d, step |-> calls[d].step, awaited |-> TRUE]
      <4>1. q \in requests /\ q.call # c
        BY <1>1, <2>4, <3>2 DEF Inv, RequestsOK, Awaits
      <4>2. q \in kept
        BY <4>1 DEF Kept
      <4>3. calls'[d] = calls[d]
        BY <1>1, <3>2
      <4>4. q \in requests'
        BY <4>2 DEF Settled
      <4> QED
        BY <4>3, <4>4
    <3> QED
      BY <3>1, <3>2
  <2> QED
    BY <2>1, <2>2, <2>3, <2>4 DEF RequestsOK
<1>7. TouchedOK'
  <2>1. ASSUME NEW x \in Calls, Touched(x)'
        PROVE  calls'[x] # Idle /\ PastChange(calls'[x])
    <3>1. CASE x # c
      BY <1>1, <2>1, <3>1 DEF Inv, TouchedOK, DeviceStep
    <3>2. CASE x = c /\ Does(h.plan, h.step, {"change"})
      BY <1>1, <3>2 DEF PastChange, Does
    <3>3. CASE x = c /\ Touched(c)
      <4>1. calls[c] # Idle /\ PastChange(calls[c])
        BY <3>3 DEF Inv, TouchedOK
      <4>2. Awaits(c) /\ h.plan = calls[c].plan /\ h.step = calls[c].step
        BY <4>1 DEF From
      <4>3. PICK k \in Steps(h.plan) : Does(h.plan, k, {"change"}) /\ h.step > k
        BY <1>3, <1>4, <4>1, <4>2 DEF PastChange, Past, Awaits
      <4>4. Past(h2, k)
        BY <1>1, <1>3, <1>4, <4>3 DEF Past
      <4> QED
        BY <1>1, <3>3, <4>3, <4>4 DEF PastChange
    <3> QED
      BY <2>1, <3>1, <3>2, <3>3 DEF DeviceStep
  <2> QED
    BY <2>1 DEF TouchedOK
<1>8. RestorePointPredatesChange'
  <2>1. ASSUME NEW x \in Calls, calls'[x] # Idle, calls'[x].point = "ok"
        PROVE  \E s \in savepoints' :
                 s.by = x /\ \A v \in Services : \A m \in s.config[v] : m.call # x
    <3>1. CASE calls[x] # Idle /\ calls[x].point = "ok"
      BY <3>1 DEF Inv, RestorePointPredatesChange, DeviceStep
    <3>2. CASE x = c /\ ~Touched(c) /\ [by |-> c, config |-> config] \in savepoints'
      BY <3>2 DEF Touched
    <3> QED
      BY <1>1, <2>1, <3>1, <3>2
  <2> QED
    BY <2>1 DEF RestorePointPredatesChange
<1>9. StagedOK'
  <2>1. ASSUME NEW x \in Calls, calls'[x] # Idle, calls'[x].pc \in {"awaits", "returned"},
               calls'[x].applied = "ok",
               NEW k \in Steps(calls'[x].plan), Does(calls'[x].plan, k, {"change"}),
               NEW s, s = calls'[x].plan.steps[k].service
        PROVE  InEffect(x, s)'
    <3>1. calls'[x].plan \in Plans /\ WellFormed(calls'[x].plan, Services)
      BY <1>5, <2>1, PlanFacts DEF TasksOK, TaskOK
    <3>2. s \in Services
      BY <2>1, <3>1 DEF WellFormed, Does, OnService
    <3>3. CASE x # c
      BY <1>1, <2>1, <3>2, <3>3 DEF Inv, StagedOK, DeviceStep
    <3>4. CASE x = c /\ Does(h.plan, h.step, {"apply"})
                     /\ InEffect(c, h.plan.steps[h.step].service)'
      <4>1. h.plan.steps[h.step].service = s
        BY <1>1, <2>1, <3>1, <3>4 DEF WellFormed, Does
      <4> QED
        BY <1>1, <3>4, <4>1
    <3>5. CASE x = c /\ calls[c] # Idle /\ calls[c].applied = "ok"
      <4>1. Awaits(c) /\ h.plan = calls[c].plan /\ h.step = calls[c].step
        BY <3>5 DEF From
      <4>2. PICK j \in Steps(h.plan) : Does(h.plan, j, {"apply"}) /\ j < h.step
        BY <1>2, <1>3, <1>4, <3>5, <4>1 DEF TaskOK, Past, Awaits
      <4>3. ~Does(h.plan, h.step, {"change"})
        BY <1>1, <1>3, <1>4, <3>1, <3>5, <4>2 DEF WellFormed, Does
      <4>4. InEffect(c, s)
        BY <1>1, <2>1, <3>5, <4>1 DEF Inv, StagedOK, Awaits
      <4> QED
        BY <1>1, <3>2, <3>5, <4>3, <4>4 DEF DeviceStep
    <3> QED
      BY <1>1, <2>1, <3>3, <3>4, <3>5
  <2> QED
    BY <2>1 DEF StagedOK, InEffect
<1> QED
  BY <1>5, <1>6, <1>7, <1>8, <1>9 DEF Inv, DeviceStep

\* A call sends its request to the second endpoint.
LEMMA Retry ==
  ASSUME Inv, NEW c \in Calls, Awaits(c), NEW kept, TryAgain(c, kept),
         Kept(c, kept, calls[c], calls[c]),
         ~Does(calls[c].plan, calls[c].step, {"change"}),
         UNCHANGED <<config, running, savepoints>>
  PROVE  Inv'
<1> DEFINE h == calls[c]
           h2 == At(h, "awaits", h.step, TRUE)
<1>14. PICK new : new = [call |-> c, step |-> h.step, awaited |-> TRUE]
  OBVIOUS
<1>1. h # Idle /\ TaskOK(h)
  BY DEF Inv, TasksOK, Awaits, Idle
<1>2. h \in Coroutine(h.plan) /\ h.plan \in Plans /\ h.step \in Nat /\ h.step \in Steps(h.plan)
  BY <1>1 DEF TaskOK, Awaits, Coroutine
<1>3. h2 \in Coroutine(h.plan)
  BY <1>2 DEF At, Task, Coroutine
<1>4. /\ h2.pc = "awaits" /\ h2.plan = h.plan /\ h2.step = h.step
      /\ h2.point = h.point /\ h2.answer = h.answer /\ h2.applied = h.applied
  BY DEF At, Task
<1>5. /\ \A d \in Calls : calls'[d] = IF d = c THEN h2 ELSE calls[d]
      /\ requests' = kept \cup {new}
  BY <1>4, <1>14 DEF TryAgain, Post, Becomes
<1> HIDE DEF h2
<1>6. h.pc = "awaits" /\ h2 # Idle
  BY <1>4 DEF Awaits, Idle
<1>7. TaskOK(h2)
  BY <1>1, <1>3, <1>4, <1>6 DEF TaskOK, Past
<1>8. \A d \in Calls :
        /\ calls'[d] # Idle <=> calls[d] # Idle
        /\ calls[d] # Idle => /\ calls'[d].pc = calls[d].pc
                              /\ calls'[d].plan = calls[d].plan
                              /\ calls'[d].step = calls[d].step
                              /\ calls'[d].point = calls[d].point
                              /\ calls'[d].applied = calls[d].applied
  BY <1>1, <1>4, <1>5, <1>6
<1>9. TasksOK'
  BY <1>5, <1>7 DEF Inv, TasksOK, TaskOK, MoreToAsk, Does, Past, Steps
<1>10. RequestsOK'
  <2>1. ASSUME NEW q \in kept
        PROVE  q \in Request /\ RequestOK(q)'
    <3>1. CASE q \in requests
      BY <3>1, <1>8 DEF Inv, RequestsOK, RequestOK, Request, Does, Steps
    <3>2. CASE q = [call |-> c, step |-> h.step, awaited |-> FALSE]
      BY <1>1, <1>2, <1>8, <3>2 DEF Request, RequestOK, Does, Steps
    <3> QED
      BY <3>1, <3>2 DEF Kept
  <2>2. new \in Request /\ RequestOK(new)'
    BY <1>1, <1>2, <1>6, <1>8, <1>14 DEF Request, RequestOK, Does, Steps
  <2>3. ASSUME NEW d \in Calls, calls'[d] # Idle, Awaits(d)'
        PROVE  [call |-> d, step |-> calls'[d].step, awaited |-> TRUE] \in requests'
    <3>1. CASE d = c
      BY <1>4, <1>5, <1>14, <3>1
    <3>2. CASE d # c
      <4> DEFINE q == [call |-> d, step |-> calls[d].step, awaited |-> TRUE]
      <4>1. q \in requests /\ q.call # c
        BY <1>8, <2>3, <3>2 DEF Inv, RequestsOK, Awaits
      <4>2. q \in requests'
        BY <4>1, <1>5 DEF Kept
      <4>3. calls'[d] = calls[d]
        BY <1>5, <3>2
      <4> QED
        BY <4>2, <4>3
    <3> QED
      BY <3>1, <3>2
  <2> QED
    BY <2>1, <2>2, <2>3, <1>5 DEF RequestsOK
<1>11. TouchedOK'
  <2>1. \A x \in Calls : Touched(x)' => Touched(x)
    BY DEF Touched
  <2> QED
    BY <1>8, <2>1 DEF Inv, TouchedOK, PastChange, Past, Does, Steps
<1>12. RestorePointPredatesChange'
  BY <1>8 DEF Inv, RestorePointPredatesChange
<1>13. StagedOK'
  <2>1. ASSUME NEW x \in Calls, calls'[x] # Idle, calls'[x].pc \in {"awaits", "returned"},
               calls'[x].applied = "ok",
               NEW k \in Steps(calls'[x].plan), Does(calls'[x].plan, k, {"change"}),
               NEW s, s = calls'[x].plan.steps[k].service
        PROVE  InEffect(x, s)'
    <3>1. InEffect(x, s)
      BY <1>8, <2>1 DEF Inv, StagedOK, Does, Steps
    <3> QED
      BY <3>1 DEF InEffect
  <2> QED
    BY <2>1 DEF StagedOK, InEffect
<1> QED
  BY <1>9, <1>10, <1>11, <1>12, <1>13 DEF Inv, DeviceOK

-----------------------------------------------------------------------------
LEMMA InitInv == Init => Inv
<1> SUFFICES ASSUME Init
             PROVE  Inv
  OBVIOUS
<1>1. \A c \in Calls : calls[c] = Idle
  BY DEF Init
<1> QED
  BY <1>1 DEF Init, Inv, TasksOK, RequestsOK, DeviceOK, Config, TouchedOK, Touched,
     RestorePointPredatesChange, StagedOK

LEMMA CallInv ==
  ASSUME Inv, NEW c \in Calls, NEW p \in Plans, Call(c, p)
  PROVE  Inv'
<1> DEFINE h == Begun(p)
<1>1. h.plan = p /\ h.step = 0 /\ h.point = "none" /\ h.applied = "none"
  BY DEF Begun, Task
<1>2. h \in Coroutine(p)
  BY DEF Begun, Task, Coroutine, Outcomes
<1>3. Resume(c, requests, h) /\ calls[c] = Idle /\ UNCHANGED <<config, running, savepoints>>
  BY DEF Call
<1> HIDE DEF h
<1>4. Steps(p) = 1 .. Len(p.steps) /\ Len(p.steps) \in Nat
  BY PlanFacts
<1>5. Ready(h)
  BY <1>1, <1>2, <1>4 DEF Ready, Weak
<1>6. PICK h2 : Settled(c, requests, h, h2)
  BY <1>3, <1>5, ResumeGives
<1>7. From(c, h)
  BY <1>1, <1>3 DEF From
<1>8. Kept(c, requests, h, h2)
  <2>1. \A q \in requests : q.call # c
    BY <1>3 DEF Inv, RequestsOK, RequestOK
  <2> QED
    BY <2>1 DEF Kept
<1>9. DeviceStep(c, h.plan, h.step)
  BY <1>3, DeviceIdle DEF Inv
<1> QED
  BY <1>1, <1>6, <1>7, <1>8, <1>9, Advance

\* The coroutine that awaits the request r.
LEMMA AwaitedFacts ==
  ASSUME Inv, NEW r \in requests, r.awaited
  PROVE  /\ r.call \in Calls /\ calls[r.call] # Idle /\ Awaits(r.call)
         /\ TaskOK(calls[r.call]) /\ calls[r.call].step = r.step
         /\ calls[r.call].plan \in Plans
BY DEF Inv, RequestsOK, RequestOK, Request, Awaits, TasksOK, TaskOK

LEMMA RestIsKept ==
  ASSUME NEW c \in Calls, NEW h, NEW h2
  PROVE  Kept(c, Rest(c), h, h2)
BY DEF Kept, Rest

LEMMA AnswerInv ==
  ASSUME Inv, NEW r \in requests, Answer(r)
  PROVE  Inv'
<1> DEFINE c == r.call
<1>13. PICK h : h = Noted(calls[c], "ok")
  OBVIOUS
<1>1. /\ c \in Calls /\ calls[c] # Idle /\ Awaits(c) /\ TaskOK(calls[c])
      /\ calls[c].step = r.step /\ calls[c].plan \in Plans
  BY AwaitedFacts DEF Answer
<1>2. Ready(h) /\ h.plan = calls[c].plan /\ h.step = r.step
  BY <1>1, <1>13, NotedFacts DEF Awaits
<1>3. /\ h.point = IF Does(h.plan, h.step, {"savepoint"}) THEN "ok" ELSE calls[c].point
      /\ h.applied = IF Does(h.plan, h.step, {"apply"}) THEN "ok" ELSE calls[c].applied
  BY <1>1, <1>2, <1>13 DEF Noted, Task
<1>4. Resume(c, Rest(c), h)
  BY <1>13 DEF Answer
<1>5. PICK h2 : Settled(c, Rest(c), h, h2)
  BY <1>1, <1>2, <1>4, ResumeGives
<1>6. From(c, h)
  BY <1>1, <1>2 DEF From
<1>7. Kept(c, Rest(c), h, h2)
  BY <1>1, RestIsKept
<1>8. PICK p \in Plans : p = h.plan
  BY <1>1, <1>2
<1>9. PICK s : s = p.steps[r.step].service
  OBVIOUS
<1>10. /\ DeviceStep(c, p, r.step)
       /\ Does(p, r.step, {"apply"}) => \A x \in Calls : InEffect(x, s)'
       /\ Does(p, r.step, {"savepoint"}) => [by |-> c, config |-> config] \in savepoints'
  BY <1>1, <1>2, <1>8, <1>9, ServeFacts DEF Answer, Inv
<1>11. h.point = "ok" =>
         \/ calls[c] # Idle /\ calls[c].point = "ok"
         \/ ~Touched(c) /\ [by |-> c, config |-> config] \in savepoints'
  <2>1. ASSUME Does(h.plan, h.step, {"savepoint"}), Touched(c)
        PROVE  FALSE
    <3>1. PICK k \in Steps(p) : Does(p, k, {"change"}) /\ Past(calls[c], k)
      BY <1>1, <1>2, <1>8, <2>1 DEF Inv, TouchedOK, PastChange
    <3>2. WellFormed(p, Services) /\ Steps(p) = 1 .. Len(p.steps) /\ Len(p.steps) \in Nat
      BY PlanFacts
    <3>3. h.step < k
      BY <1>8, <2>1, <3>1, <3>2 DEF WellFormed, Does
    <3>4. h.step \in Nat
      BY <1>8, <2>1, <3>2 DEF Does
    <3> QED
      BY <1>1, <1>2, <3>1, <3>2, <3>3, <3>4 DEF Past, Awaits
  <2> QED
    BY <1>1, <1>2, <1>3, <1>8, <1>10, <2>1
<1>12. h.applied = "ok" =>
         \/ calls[c] # Idle /\ calls[c].applied = "ok"
         \/ Does(h.plan, h.step, {"apply"}) /\ InEffect(c, h.plan.steps[h.step].service)'
  <2>1. ASSUME Does(h.plan, h.step, {"apply"})
        PROVE  \A x \in Calls : InEffect(x, s)'
    BY <1>2, <1>8, <1>10, <2>1
  <2> QED
    BY <1>1, <1>2, <1>3, <1>8, <1>9, <2>1
<1> QED
  BY <1>1, <1>2, <1>5, <1>6, <1>7, <1>8, <1>10, <1>11, <1>12, Advance

\* A call goes on, or ends, without an effect on the device.
LEMMA AdvanceWithout ==
  ASSUME Inv, NEW c \in Calls, Awaits(c), NEW o \in {"refused", "failed"},
         NEW h, h = Noted(calls[c], o), NEW kept, NEW h2,
         Settled(c, kept, h, h2), Kept(c, kept, h, h2),
         UNCHANGED <<config, running, savepoints>>
  PROVE  Inv'
<1>1. calls[c] # Idle /\ TaskOK(calls[c])
  BY DEF Inv, TasksOK, Awaits, Idle
<1>2. h.plan = calls[c].plan /\ h.step = calls[c].step
  BY <1>1, NotedFacts DEF Awaits
<1>3. From(c, h)
  BY <1>1, <1>2 DEF From
<1>4. DeviceStep(c, h.plan, h.step)
  BY DeviceIdle DEF Inv
<1>5. h.point = "ok" => calls[c].point = "ok"
  BY DEF Noted, Task
<1>6. h.applied = "ok" => calls[c].applied = "ok"
  BY DEF Noted, Task
<1> QED
  BY <1>1, <1>3, <1>4, <1>5, <1>6, Advance

LEMMA RefuseInv ==
  ASSUME Inv, NEW r \in requests, Refuse(r)
  PROVE  Inv'
<1> DEFINE c == r.call
<1>1. c \in Calls /\ Awaits(c) /\ TaskOK(calls[c])
  BY AwaitedFacts DEF Refuse
<1>2. PICK h : h = Noted(calls[c], "refused")
  OBVIOUS
<1>3. Ready(h) /\ Weak(h)
  BY <1>1, <1>2, NotedFacts DEF Awaits
<1>4. PICK h2 : Settled(c, Rest(c), h, h2)
  <2>1. Fail(c, Rest(c), h) \/ Resume(c, Rest(c), h)
    BY <1>2 DEF Refuse
  <2> QED
    BY <1>1, <1>3, <2>1, FailGives, ResumeGives
<1>5. Kept(c, Rest(c), h, h2)
  BY <1>1, RestIsKept
<1>6. UNCHANGED <<config, running, savepoints>>
  BY DEF Refuse
<1> QED
  BY <1>1, <1>2, <1>4, <1>5, <1>6, AdvanceWithout

\* An exception, with or without the request left behind.
LEMMA ExceptionInv ==
  ASSUME Inv, NEW c \in Calls, Awaits(c), NEW kept, Exception(c, kept),
         \/ kept = Rest(c)
         \/ kept = Rest(c) \cup {[call |-> c, step |-> calls[c].step, awaited |-> FALSE]},
         UNCHANGED <<config, running, savepoints>>
  PROVE  Inv'
<1>1. calls[c] # Idle /\ TaskOK(calls[c])
  BY DEF Inv, TasksOK, Awaits, Idle
<1>2. calls[c].step \in Steps(calls[c].plan) /\ calls[c].plan \in Plans
  BY <1>1 DEF TaskOK, Awaits
<1>3. WellFormed(calls[c].plan, Services)
  BY <1>2, PlanFacts
<1>4. PICK h : h = Noted(calls[c], "failed")
  OBVIOUS
<1>5. /\ h.plan = calls[c].plan /\ h.step = calls[c].step /\ Weak(h)
      /\ ~Does(calls[c].plan, calls[c].step, {"apply"}) => Ready(h)
  BY <1>1, <1>4, NotedFacts DEF Awaits
<1>6. ASSUME NEW g, NEW g2, g.step = calls[c].step, g.plan = calls[c].plan,
             Does(g.plan, g.step, {"change"}) => g2.pc \in {"error", "raised"}
      PROVE  Kept(c, kept, g, g2)
  BY <1>2, <1>6 DEF Kept, Rest
<1>7. CASE TryAgain(c, kept) /\ Doing(c).retry = "any"
  <2>1. ~Does(calls[c].plan, calls[c].step, {"change"})
    BY <1>2, <1>3, <1>7 DEF WellFormed, Does, Doing
  <2>2. Kept(c, kept, calls[c], calls[c])
    BY <1>6, <2>1
  <2> QED
    BY <1>7, <2>1, <2>2, Retry
<1>8. CASE Doing(c).caught /\ Resume(c, kept, h)
  <2>1. /\ ~Does(calls[c].plan, calls[c].step, {"change"})
        /\ ~Does(calls[c].plan, calls[c].step, {"apply"})
    BY <1>2, <1>3, <1>8 DEF WellFormed, Does, Doing
  <2>2. PICK h2 : Settled(c, kept, h, h2)
    BY <1>5, <1>8, <2>1, ResumeGives
  <2>3. Kept(c, kept, h, h2)
    BY <1>5, <1>6, <2>1
  <2> QED
    BY <1>4, <2>2, <2>3, AdvanceWithout
<1>9. CASE Fail(c, kept, h)
  <2>1. PICK h2 : Settled(c, kept, h, h2) /\ h2.pc \in {"error", "raised"}
    BY <1>5, <1>9, FailGives
  <2>2. Kept(c, kept, h, h2)
    BY <1>5, <1>6, <2>1
  <2> QED
    BY <1>4, <2>1, <2>2, AdvanceWithout
<1> QED
  BY <1>4, <1>7, <1>8, <1>9 DEF Exception

LEMMA NotFoundInv ==
  ASSUME Inv, NEW c \in Calls, NotFound(c)
  PROVE  Inv'
<1>1. /\ Awaits(c) /\ TryAgain(c, Rest(c)) /\ Doing(c).retry = "404"
      /\ UNCHANGED <<config, running, savepoints>>
  BY DEF NotFound
<1>2. calls[c] # Idle /\ TaskOK(calls[c])
  BY <1>1 DEF Inv, TasksOK, Awaits, Idle
<1>3. Kept(c, Rest(c), calls[c], calls[c])
  BY RestIsKept
<1>4. calls[c].step \in Steps(calls[c].plan) /\ WellFormed(calls[c].plan, Services)
  BY <1>1, <1>2, PlanFacts DEF TaskOK, Awaits
<1>5. ~Does(calls[c].plan, calls[c].step, {"change"})
  BY <1>1, <1>4 DEF WellFormed, Doing
<1> QED
  BY <1>1, <1>2, <1>3, <1>5, Retry

LEMMA ServeLateInv ==
  ASSUME Inv, NEW r \in requests, ServeLate(r)
  PROVE  Inv'
<1> DEFINE c == r.call
<1>1. /\ r.awaited = FALSE /\ Serve(r) /\ requests' = requests \ {r} /\ calls' = calls
      /\ r \in Request /\ c \in Calls
  BY DEF ServeLate, Inv, RequestsOK, Request
<1>2. /\ calls[c] # Idle /\ TaskOK(calls[c]) /\ RequestOK(r)
      /\ r.step <= calls[c].step
  BY <1>1 DEF Inv, RequestsOK, RequestOK, TasksOK
<1>3. PICK p \in Plans : p = calls[c].plan
  BY <1>2 DEF TaskOK
<1>4. DeviceStep(c, p, r.step)
  <2>1. PICK s : s = p.steps[r.step].service
    OBVIOUS
  <2> QED
    BY <1>1, <1>3, <2>1, ServeFacts DEF Inv
<1>5. Does(p, r.step, {"change"}) => calls[c].pc \in {"error", "raised"}
  BY <1>1, <1>2, <1>3 DEF RequestOK
<1>6. TasksOK'
  BY <1>1 DEF Inv, TasksOK, TaskOK, MoreToAsk, Does, Past, Steps
<1>7. RequestsOK'
  BY <1>1 DEF Inv, RequestsOK, RequestOK, Awaits, Does, Steps
<1>8. TouchedOK'
  <2>1. ASSUME NEW x \in Calls, Touched(x)'
        PROVE  calls[x] # Idle /\ PastChange(calls[x])
    <3>1. CASE Touched(x)
      BY <3>1 DEF Inv, TouchedOK
    <3>2. CASE x = c /\ Does(p, r.step, {"change"})
      <4>1. calls[c].step \in Nat /\ r.step \in Nat /\ r.step \in Steps(p)
        BY <1>1, <1>2, <1>3 DEF TaskOK, Coroutine, Request, RequestOK
      <4>2. Past(calls[c], r.step)
        BY <1>2, <1>5, <3>2, <4>1 DEF Past
      <4> QED
        BY <1>2, <1>3, <3>2, <4>1, <4>2 DEF PastChange
    <3> QED
      BY <1>4, <2>1, <3>1, <3>2 DEF DeviceStep
  <2> QED
    BY <1>1, <2>1 DEF TouchedOK, PastChange, Past, Does, Steps
<1>9. RestorePointPredatesChange'
  BY <1>1, <1>4 DEF Inv, RestorePointPredatesChange, DeviceStep
<1>10. StagedOK'
  <2>1. ASSUME NEW x \in Calls, calls[x] # Idle, calls[x].pc \in {"awaits", "returned"},
               calls[x].applied = "ok",
               NEW k \in Steps(calls[x].plan), Does(calls[x].plan, k, {"change"}),
               NEW s, s = calls[x].plan.steps[k].service
        PROVE  InEffect(x, s)'
    <3>1. InEffect(x, s)
      BY <2>1 DEF Inv, StagedOK
    <3>2. s \in Services
      <4>1. calls[x].plan \in Plans
        BY <2>1 DEF Inv, TasksOK, TaskOK
      <4> QED
        BY <2>1, <4>1, PlanFacts DEF WellFormed, Does, OnService
    <3>3. ~(x = c /\ Does(p, r.step, {"change"}))
      BY <1>5, <2>1
    <3> QED
      BY <1>4, <3>1, <3>2, <3>3 DEF DeviceStep
  <2> QED
    BY <1>1, <2>1 DEF StagedOK, InEffect, Does, Steps
<1> QED
  BY <1>4, <1>6, <1>7, <1>8, <1>9, <1>10 DEF Inv, DeviceStep

LEMMA NextInv == Inv /\ [Next]_vars => Inv'
<1> SUFFICES ASSUME Inv, [Next]_vars
             PROVE  Inv'
  OBVIOUS
<1>1. ASSUME NEW c \in Calls, NEW p \in Plans, Call(c, p)
      PROVE  Inv'
  BY <1>1, CallInv
<1>2. ASSUME NEW c \in Calls, Rejected(c)
      PROVE  Inv'
  BY <1>2, ExceptionInv DEF Rejected
<1>3. ASSUME NEW c \in Calls, NotFound(c)
      PROVE  Inv'
  BY <1>3, NotFoundInv
<1>4. ASSUME NEW c \in Calls, GivesUp(c)
      PROVE  Inv'
  BY <1>4, ExceptionInv DEF GivesUp
<1>5. ASSUME NEW r \in requests, Answer(r)
      PROVE  Inv'
  BY <1>5, AnswerInv
<1>6. ASSUME NEW r \in requests, ServeLate(r)
      PROVE  Inv'
  BY <1>6, ServeLateInv
<1>7. ASSUME NEW r \in requests, Refuse(r)
      PROVE  Inv'
  BY <1>7, RefuseInv
<1>8. CASE UNCHANGED vars
  BY <1>8 DEF vars, Inv, TasksOK, TaskOK, MoreToAsk, Past, Does, Steps, RequestsOK, RequestOK,
     Awaits, DeviceOK, TouchedOK, Touched, PastChange, RestorePointPredatesChange, StagedOK, InEffect
<1> QED
  BY <1>1, <1>2, <1>3, <1>4, <1>5, <1>6, <1>7, <1>8 DEF Next

\* The invariant is inductive, for every plan of the shape assumed.
THEOREM OpnsenseInvariance == Spec => []Inv
<1> QED
  BY InitInv, NextInv, PTL DEF Spec

LEMMA InvTypeOK == Inv => TypeOK
<1> SUFFICES ASSUME Inv
             PROVE  TypeOK
  OBVIOUS
<1>1. ASSUME NEW c \in Calls, calls[c] # Idle
      PROVE  /\ calls[c].plan \in Plans
             /\ calls[c] \in Coroutine(calls[c].plan)
             /\ Awaits(c) => calls[c].step \in Steps(calls[c].plan)
  BY <1>1 DEF Inv, TasksOK, TaskOK, Awaits
<1>2. ASSUME NEW r \in requests
      PROVE  /\ calls[r.call] # Idle
             /\ r.step \in Steps(calls[r.call].plan)
             /\ r.awaited => Awaits(r.call) /\ calls[r.call].step = r.step
  BY <1>2 DEF Inv, RequestsOK, RequestOK, Awaits
<1> QED
  BY <1>1, <1>2 DEF Inv, RequestsOK, DeviceOK, TypeOK

\* Type correctness: a function awaits the request of its step and no other
\* (agents/opnsense, every await).
THEOREM OpnsenseTypeCorrect == Spec => []TypeOK
<1> QED
  BY OpnsenseInvariance, InvTypeOK, PTL

\* A restore point that safety_snapshot was told of predates the change of
\* its function, whatever other functions do meanwhile, and whatever the
\* device does late.
THEOREM RestorePointsPredateChanges == Spec => []RestorePointPredatesChange
<1>1. Inv => RestorePointPredatesChange
  BY DEF Inv
<1> QED
  BY OpnsenseInvariance, <1>1, PTL

LEMMA InvNoSilentStagedChange == Inv => NoSilentStagedChange
<1> SUFFICES ASSUME Inv,
                    NEW c \in Calls, calls[c] # Idle, calls[c].pc = "returned",
                    NEW j \in Steps(calls[c].plan), NEW k \in Steps(calls[c].plan),
                    Does(calls[c].plan, k, {"change"}), Does(calls[c].plan, j, {"apply"}),
                    calls[c].answer = "ok", calls[c].applied # "refused",
                    NEW m \in config[calls[c].plan.steps[k].service], m.call = c
             PROVE  m \in running[calls[c].plan.steps[k].service]
  BY DEF NoSilentStagedChange
<1> DEFINE h == calls[c]
<1>1. TaskOK(h) /\ h.plan \in Plans /\ h.step \in Nat
  BY DEF Inv, TasksOK, TaskOK, Coroutine
<1>2. Steps(h.plan) = 1 .. Len(h.plan.steps) /\ Len(h.plan.steps) \in Nat
  BY <1>1, PlanFacts
<1>3. h.step + 1 \notin Steps(h.plan)
  BY <1>1 DEF TaskOK, MoreToAsk
<1>4. Past(h, j)
  BY <1>1, <1>2, <1>3 DEF Past
<1>5. h.applied = "ok"
  BY <1>1, <1>4 DEF TaskOK
<1> QED
  BY <1>5 DEF Inv, StagedOK, InEffect

\* A function that reports a change as saved and reconfigures leaves it in
\* effect, unless the reconfiguration was answered with a refusal or another
\* function takes the change away.
THEOREM NoChangeStaysStaged == Spec => []NoSilentStagedChange
<1> QED
  BY OpnsenseInvariance, InvNoSilentStagedChange, PTL
=================================================================================
