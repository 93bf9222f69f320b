------------------------- MODULE GateRefinementProofs -------------------------
(***************************************************************************)
(* The gated loop carries its results faithfully and keeps the promise of  *)
(* ApprovalGate: its initial state is one of the gate's and each of its    *)
(* steps is a step of the gate or leaves the gate unchanged.               *)
(***************************************************************************)
EXTENDS GatedLoopProofs

\* More dispatches, and the same results, keep a carrier faithful.
LEMMA StillCarries ==
  ASSUME NEW x, NEW y, CarriesItsResults(x), dispatched \subseteq dispatched',
         y.run = x.run, y.step = x.step, y.results = x.results
  PROVE  CarriesItsResults(y)'
BY DEF CarriesItsResults

\* A step that keeps, or ends, what carries results leaves them faithful.
LEMMA ResultsKept ==
  ASSUME TypeOK, ResultsAreTheExecutions, dispatched \subseteq dispatched',
         \A s \in sessions' : s \in sessions,
         \A c \in Calls : Active(c)' \/ tasks'[c].pc = "completed" =>
           /\ Active(c) \/ tasks[c].pc = "completed"
           /\ tasks'[c].run = tasks[c].run
           /\ tasks'[c].step = tasks[c].step
           /\ tasks'[c].results = tasks[c].results
  PROVE  ResultsAreTheExecutions'
<1>1. ASSUME NEW s \in sessions' PROVE CarriesItsResults(s)'
  BY <1>1, StillCarries DEF ResultsAreTheExecutions
<1>2. ASSUME NEW c \in Calls, Active(c)' \/ tasks'[c].pc = "completed"
      PROVE  CarriesItsResults(tasks[c])'
  BY <1>2 DEF ResultsAreTheExecutions, CarriesItsResults
<1> QED BY <1>1, <1>2 DEF ResultsAreTheExecutions

\* A handler that replies keeps the results it had.
LEMMA ResultsReply ==
  ASSUME TypeOK, ResultsAreTheExecutions, NEW c \in Calls, NEW outcome \in Replies,
         outcome = "completed" => Active(c),
         tasks' = Reply(c, outcome), sessions' = sessions, dispatched' = dispatched
  PROVE  ResultsAreTheExecutions'
<1>1. /\ tasks'[c] = At(outcome, tasks[c].run, tasks[c].step, tasks[c].results)
      /\ \A b \in Calls \ {c} : tasks'[b] = tasks[b]
  BY DEF TypeOK, TasksOK, Reply
<1>2. \A b \in Calls : Active(b)' \/ tasks'[b].pc = "completed" =>
         /\ Active(b) \/ tasks[b].pc = "completed"
         /\ tasks'[b].run = tasks[b].run
         /\ tasks'[b].step = tasks[b].step
         /\ tasks'[b].results = tasks[b].results
  BY <1>1 DEF Active, At, Awaiting, Replies
<1> QED BY <1>2, ResultsKept

\* A task that changes to one that carries its results, the others staying.
LEMMA ResultsTask ==
  ASSUME TypeOK, ResultsAreTheExecutions, NEW c \in Calls,
         CarriesItsResults(tasks[c])',
         \A b \in Calls \ {c} : tasks'[b] = tasks[b],
         dispatched \subseteq dispatched', \A s \in sessions' : s \in sessions
  PROVE  ResultsAreTheExecutions'
<1>1. ASSUME NEW s \in sessions' PROVE CarriesItsResults(s)'
  BY <1>1, StillCarries DEF ResultsAreTheExecutions
<1>2. ASSUME NEW b \in Calls \ {c}, Active(b)' \/ tasks'[b].pc = "completed"
      PROVE  CarriesItsResults(tasks[b])'
  BY <1>2 DEF ResultsAreTheExecutions, CarriesItsResults, Active
<1> QED BY <1>1, <1>2 DEF ResultsAreTheExecutions

\* A new run carries no result.
LEMMA ResultsHandle ==
  ASSUME TypeOK, ResultsAreTheExecutions, NEW c \in Calls, Handle(c)
  PROVE  ResultsAreTheExecutions'
<1>1. /\ tasks'[c].run = c /\ tasks'[c].step = 0 /\ tasks'[c].results = <<>>
      /\ \A b \in Calls \ {c} : tasks'[b] = tasks[b]
  BY DEF TypeOK, TasksOK, Handle, Enter, At
<1>2. CarriesItsResults(tasks[c])'
  BY <1>1 DEF CarriesItsResults
<1> QED BY <1>1, <1>2, ResultsTask DEF Handle

\* The result that is appended is that of the execution just made.
LEMMA ResultsReturn ==
  ASSUME IInv, ResultsAreTheExecutions, NEW c \in Calls, ExecutionReturns(c)
  PROVE  ResultsAreTheExecutions'
<1>1. CASE tasks' = Reply(c, "raised")
  BY <1>1, ResultsReply DEF ExecutionReturns, Replies, IInv
<1>2. CASE tasks' = Enter(c, tasks[c].run, tasks[c].step + 1,
                         Append(tasks[c].results, tasks[c].intention))
  <2>1. /\ tasks'[c].run = tasks[c].run
        /\ tasks'[c].step = tasks[c].step + 1
        /\ tasks'[c].results = Append(tasks[c].results, tasks[c].intention)
        /\ \A b \in Calls \ {c} : tasks'[b] = tasks[b]
    BY <1>2 DEF IInv, TypeOK, TasksOK, Enter, At
  <2>2. /\ tasks[c].step \in Nat
        /\ tasks[c].results \in Seq(Intentions)
        /\ tasks[c].intention \in Intentions
    BY TaskParts DEF IInv, TypeOK, TasksOK, ExecutionReturns
  <2>3. CarriesItsResults(tasks[c])
    BY DEF ResultsAreTheExecutions, ExecutionReturns, Active, Awaiting
  <2>4. [call |-> c, run |-> tasks[c].run, step |-> tasks[c].step,
         intention |-> tasks[c].intention, via |-> tasks[c].via] \in dispatched
    BY DEF IInv, StepsAreBehind, ExecutionReturns
  <2>5. Len(tasks'[c].results) = tasks'[c].step
    BY <2>1, <2>2, <2>3 DEF CarriesItsResults
  <2>6. ASSUME NEW k \in 1..(tasks[c].step + 1)
        PROVE  \E d \in dispatched : /\ d.run = tasks[c].run /\ d.step = k - 1
                                     /\ d.intention = tasks'[c].results[k]
    <3>1. CASE k \in 1..tasks[c].step
      <4>1. tasks'[c].results[k] = tasks[c].results[k]
        BY <2>1, <2>2, <2>3, <3>1 DEF CarriesItsResults
      <4> QED BY <2>3, <3>1, <4>1 DEF CarriesItsResults
    <3>2. CASE k = tasks[c].step + 1
      <4>1. tasks'[c].results[k] = tasks[c].intention
        BY <2>1, <2>2, <2>3, <3>2 DEF CarriesItsResults
      <4> QED BY <2>2, <2>4, <3>2, <4>1
    <3> QED BY <2>2, <3>1, <3>2
  <2>7. CarriesItsResults(tasks[c])'
    BY <2>1, <2>5, <2>6 DEF CarriesItsResults, ExecutionReturns
  <2> QED BY <2>1, <2>7, ResultsTask DEF ExecutionReturns, IInv
<1> QED BY <1>1, <1>2 DEF ExecutionReturns

\* A call to the agent starts with the results of the run it continues.
LEMMA ResultsExecute ==
  ASSUME TypeOK, ResultsAreTheExecutions, NEW c \in Calls, NEW x, CarriesItsResults(x),
         NEW i, NEW id, Execute(c, x.run, x.step, x.results, i, id),
         \A s \in sessions' : s \in sessions
  PROVE  ResultsAreTheExecutions'
<1>1. /\ tasks'[c].run = x.run /\ tasks'[c].step = x.step /\ tasks'[c].results = x.results
      /\ \A b \in Calls \ {c} : tasks'[b] = tasks[b]
      /\ dispatched \subseteq dispatched'
  BY DEF TypeOK, TasksOK, Execute
<1>2. CarriesItsResults(tasks[c])'
  BY <1>1 DEF CarriesItsResults
<1> QED BY <1>1, <1>2, ResultsTask

\* A session is saved with the results of the handler that ends.
LEMMA ResultsSuspend ==
  ASSUME TypeOK, ResultsAreTheExecutions, NEW c \in Calls, NEW i \in Intentions,
         NEW id \in Ids, Suspend(c, i, id)
  PROVE  ResultsAreTheExecutions'
<1> DEFINE session == [id |-> id, run |-> tasks[c].run, step |-> tasks[c].step,
                       results |-> tasks[c].results, expires |-> clock + SessionTtl]
<1>1. CarriesItsResults(tasks[c]) /\ dispatched' = dispatched
  BY DEF Suspend, Decide, ResultsAreTheExecutions, Active, Awaiting
<1>2. ASSUME NEW s \in sessions' PROVE CarriesItsResults(s)'
  <2>1. CASE s = session
    BY <1>1, <2>1 DEF CarriesItsResults
  <2>2. CASE s \in sessions
    BY <1>1, <2>2, StillCarries DEF ResultsAreTheExecutions
  <2> QED BY <1>2, <2>1, <2>2 DEF Suspend, Without
<1>3. /\ \A b \in Calls \ {c} : tasks'[b] = tasks[b]
      /\ tasks'[c].pc \in {"suspended", "raised"}
  BY DEF TypeOK, TasksOK, Suspend, Reply, At
<1>4. ASSUME NEW b \in Calls, Active(b)' \/ tasks'[b].pc = "completed"
      PROVE  CarriesItsResults(tasks[b])'
  <2>1. b # c
    BY <1>3, <1>4 DEF Active, Awaiting
  <2> QED BY <1>1, <1>3, <1>4, <2>1 DEF ResultsAreTheExecutions, CarriesItsResults, Active
<1> QED BY <1>2, <1>4 DEF ResultsAreTheExecutions

\* A decision continues a run from its session, or drops the session.
LEMMA ResultsOperator ==
  ASSUME TypeOK, ResultsAreTheExecutions, NEW c \in Calls, OperatorCalls(c)
  PROVE  ResultsAreTheExecutions'
<1>1. PICK t \in tickets : \/ \E state \in ApprovalStates : ResumeFrom(c, t, state)
                           \/ Reject(t)
  BY DEF OperatorCalls, Resume, Approve, ApprovalStates, TypeOK, Ticket
<1>2. ASSUME NEW state \in ApprovalStates, ResumeExecutes(c, t, state)
      PROVE  ResultsAreTheExecutions'
  <2>1. PICK s \in Held(t.id) : Execute(c, s.run, s.step, s.results, t.intention, t.id)
    BY <1>2 DEF ResumeExecutes
  <2>2. CarriesItsResults(s)
    BY <2>1 DEF Held, ResultsAreTheExecutions
  <2>3. \A r \in sessions' : r \in sessions
    BY <1>2 DEF ResumeExecutes, Without
  <2> QED BY <2>1, <2>2, <2>3, ResultsExecute
<1>3. ASSUME NEW state \in ApprovalStates,
             ResumeFindsNoSession(t, state) \/ ResumeRefused(t, state) \/ Reject(t)
      PROVE  ResultsAreTheExecutions'
  BY <1>3, ResultsKept DEF ResumeFindsNoSession, ResumeRefused, Reject, Without, Active
<1> QED BY <1>1, <1>2, <1>3 DEF ResumeFrom, ApprovalStates

\* Every step keeps the results faithful.
LEMMA ResultsStep == IInv /\ ResultsAreTheExecutions /\ [Next]_vars => ResultsAreTheExecutions'
<1> SUFFICES ASSUME IInv, ResultsAreTheExecutions, [Next]_vars PROVE ResultsAreTheExecutions'
  OBVIOUS
<1>1. TypeOK
  BY DEF IInv
<1>2. ASSUME NEW c \in Calls, Handle(c) PROVE ResultsAreTheExecutions'
  BY <1>1, <1>2, ResultsHandle
<1>3. ASSUME NEW c \in Calls, ProposerAnswers(c) PROVE ResultsAreTheExecutions'
  <2>1. CASE ProposerFails(c) \/ ProposerFinishes(c) \/ DecisionNotAudited(c)
    BY <1>1, <2>1, ResultsReply DEF ProposerFails, ProposerFinishes, DecisionNotAudited,
                                    Replies, Active, Awaiting
  <2>2. ASSUME NEW i \in Intentions, Deny(c, i) PROVE ResultsAreTheExecutions'
    BY <1>1, <2>2, ResultsReply DEF Deny, Replies
  <2>3. ASSUME NEW i \in Intentions, Allow(c, i) PROVE ResultsAreTheExecutions'
    <3>1. CarriesItsResults(tasks[c])
      BY <2>3 DEF Allow, Decide, ResultsAreTheExecutions, Active, Awaiting
    <3> QED BY <1>1, <2>3, <3>1, ResultsExecute DEF Allow
  <2>4. ASSUME NEW i \in Intentions, NEW id \in Ids, Suspend(c, i, id)
        PROVE  ResultsAreTheExecutions'
    BY <1>1, <2>4, ResultsSuspend
  <2> QED BY <1>3, <2>1, <2>2, <2>3, <2>4 DEF ProposerAnswers
<1>4. ASSUME NEW c \in Calls, AgentAnswers(c) PROVE ResultsAreTheExecutions'
  <2>1. CASE ExecutionFails(c)
    BY <1>1, <2>1, ResultsReply DEF ExecutionFails, Replies
  <2> QED BY <1>4, <2>1, ResultsReturn DEF AgentAnswers
<1>5. ASSUME NEW c \in Calls, OperatorCalls(c) PROVE ResultsAreTheExecutions'
  BY <1>1, <1>5, ResultsOperator
<1>6. CASE Tick \/ Restart \/ UNCHANGED vars
  <2>1. \A c \in Calls : Active(c)' \/ tasks'[c].pc = "completed" => tasks'[c] = tasks[c]
    BY <1>6 DEF Tick, Restart, vars, Active, Awaiting, At
  <2>2. sessions' = sessions /\ dispatched' = dispatched
    BY <1>6 DEF Tick, Restart, vars
  <2> QED BY <1>1, <2>1, <2>2, ResultsKept DEF Active
<1> QED BY <1>2, <1>3, <1>4, <1>5, <1>6 DEF Next

\* Through suspensions and resumptions a run carries the results of its own
\* executions, one per step, in order (loop.py 148-155, 243-247, 261).
THEOREM ResultsFaithful == Spec => []ResultsAreTheExecutions
<1>1. Init => ResultsAreTheExecutions
  <2> SUFFICES ASSUME Init PROVE ResultsAreTheExecutions
    OBVIOUS
  <2>1. \A c \in Calls : ~Active(c) /\ tasks[c].pc = "idle"
    BY DEF Init, At, Active, Awaiting
  <2> QED BY <2>1 DEF Init, ResultsAreTheExecutions
<1> QED BY <1>1, ResultsStep, Invariance, PTL DEF Spec

\* Wherever a run is, the step it is at is the next one for the gate.
LEMMA NextStepIsFree ==
  ASSUME TypeOK, NEW x, CarriesItsResults(x), x.step \in Nat, x.step < MaxSteps,
         \A d \in dispatched : d.run = x.run => d.step < x.step
  PROVE  Gate!NextStep(x.run, x.step)
<1>1. \A m \in Made : m.run = x.run => m.step < x.step
  BY DEF Made
<1>2. x.step = 0 \/ \E m \in Made : m.run = x.run /\ m.step = x.step - 1
  <2> SUFFICES ASSUME x.step # 0
               PROVE  \E m \in Made : m.run = x.run /\ m.step = x.step - 1
    OBVIOUS
  <2>1. PICK d \in dispatched : d.run = x.run /\ d.step = x.step - 1
    BY x.step \in 1..x.step DEF CarriesItsResults
  <2>2. [run |-> d.run, step |-> d.step, intention |-> d.intention] \in Made
    BY <2>1 DEF Made
  <2> QED BY <2>1, <2>2
<1> QED BY <1>1, <1>2 DEF Gate!NextStep

\* The gate sees one action made for one dispatch.
LEMMA MadeGrows ==
  ASSUME NEW d, dispatched' = dispatched \cup {d}
  PROVE  Made' = Made \cup {[run |-> d.run, step |-> d.step, intention |-> d.intention]}
<1> DEFINE Done(x) == [run |-> x.run, step |-> x.step, intention |-> x.intention]
<1>1. Made = {Done(x) : x \in dispatched} /\ Made' = {Done(x) : x \in dispatched'}
  BY DEF Made
<1> HIDE DEF Done
<1>2. {Done(x) : x \in dispatched \cup {d}} = {Done(x) : x \in dispatched} \cup {Done(d)}
  BY Zenon
<1> QED BY <1>1, <1>2 DEF Done

\* A step that offers and makes nothing, and opens nothing, closes what was
\* open and is not any more: possibly nothing.
LEMMA GateCloses ==
  ASSUME IInv, tickets' = tickets, dispatched' = dispatched,
         \A id \in Ids : Open(id)' => Open(id)
  PROVE  Gate!Next
<1> DEFINE O == {id \in Ids : Standing(id) = "open" /\ ~Open(id)'}
<1>1. \A id \in Ids : (Released(id)' <=> Released(id)) /\ (Named(id)' <=> Named(id))
  BY DEF Released, Named
<1>2. \A id \in Ids : Open(id) => Named(id)
  BY DEF IInv, TicketsNameSessions, Open, Named
<1>3. ASSUME NEW id \in Ids PROVE Standing(id)' = IF id \in O THEN "closed" ELSE Standing(id)
  <2>1. CASE Released(id)
    BY <1>1, <2>1 DEF Standing
  <2>2. CASE ~Released(id) /\ Open(id)
    BY <1>1, <1>2, <2>2 DEF Standing
  <2>3. CASE ~Released(id) /\ ~Open(id)
    BY <1>1, <2>3 DEF Standing
  <2> QED BY <2>1, <2>2, <2>3
<1>4. Made' = Made
  BY DEF Made
<1>5. Gate!Close(O)
  BY <1>3, <1>4 DEF Gate!Close
<1>6. O \in SUBSET Ids
  OBVIOUS
<1> QED BY <1>5, <1>6 DEF Gate!Next

\* What the policy allows is performed at the run's next step.
LEMMA GatePerforms ==
  ASSUME IInv, ResultsAreTheExecutions, NEW c \in Calls, NEW i \in Intentions, Allow(c, i)
  PROVE  Gate!Next
<1>1. /\ tasks[c].run \in Calls /\ tasks[c].step \in Nat /\ Active(c)
  BY TaskParts DEF IInv, Allow, Decide, Active, Awaiting
<1>2. /\ CarriesItsResults(tasks[c]) /\ tasks[c].step < MaxSteps
      /\ \A d \in dispatched : d.run = tasks[c].run => d.step < tasks[c].step
  BY <1>1 DEF IInv, StepsAreBehind, Allow, Decide, ResultsAreTheExecutions
<1>3. Gate!NextStep(tasks[c].run, tasks[c].step)
  BY <1>1, <1>2, NextStepIsFree DEF IInv
<1>4. /\ dispatched' = dispatched \cup
           {[call |-> c, run |-> tasks[c].run, step |-> tasks[c].step, intention |-> i,
             via |-> NoApproval]}
      /\ Effect[i] = "allow"
      /\ tickets' = tickets /\ approvals' = approvals /\ sessions' = sessions /\ clock' = clock
  BY DEF Allow, Execute, Decide
<1>5. Gate!Make(tasks[c].run, tasks[c].step, i)
  <2> DEFINE d == [call |-> c, run |-> tasks[c].run, step |-> tasks[c].step,
                   intention |-> i, via |-> NoApproval]
  <2>1. Made' = Made \cup {[run |-> d.run, step |-> d.step, intention |-> d.intention]}
    BY <1>4, MadeGrows
  <2> QED BY <2>1 DEF Gate!Make
<1>6. \A id \in Ids : Standing(id)' = Standing(id)
  BY <1>4, DistinctAssumption DEF Standing, Released, Open, Named, Held, Live
<1>7. Gate!Perform(tasks[c].run, tasks[c].step, i)
  BY <1>3, <1>4, <1>5, <1>6 DEF Gate!Perform
<1>8. tasks[c].step \in 0..(MaxSteps - 1)
  BY <1>1, <1>2, BoundsAssumption
<1> QED BY <1>1, <1>4, <1>7, <1>8 DEF Gate!Next

\* What the policy gates is offered under a name never used, for the run's
\* next step; the offer is closed from the start if its session is not saved.
LEMMA GateOffers ==
  ASSUME IInv, ResultsAreTheExecutions, NEW c \in Calls, NEW i \in Intentions,
         NEW id \in Ids, Suspend(c, i, id)
  PROVE  Gate!Next
<1> DEFINE ticket == [id |-> id, run |-> tasks[c].run, step |-> tasks[c].step, intention |-> i]
<1>1. /\ tasks[c].run \in Calls /\ tasks[c].step \in Nat /\ Active(c)
  BY TaskParts DEF IInv, Suspend, Decide, Active, Awaiting
<1>2. /\ CarriesItsResults(tasks[c]) /\ tasks[c].step < MaxSteps
      /\ \A d \in dispatched : d.run = tasks[c].run => d.step < tasks[c].step
  BY <1>1 DEF IInv, StepsAreBehind, Suspend, Decide, ResultsAreTheExecutions
<1>3. Gate!NextStep(tasks[c].run, tasks[c].step)
  BY <1>1, <1>2, NextStepIsFree DEF IInv
<1>4. /\ tickets' = tickets \cup {ticket} /\ \A t \in tickets : t.id # id
      /\ Effect[i] = "approve"
      /\ dispatched' = dispatched /\ clock' = clock
      /\ \A a \in Ids \ {id} : approvals'[a] = approvals[a]
      /\ \A a \in Ids \ {id} : {s \in sessions' : s.id = a} = {s \in sessions : s.id = a}
  BY DEF Suspend, Decide, Without, IInv, TypeOK
<1>5. Standing(id) = "unused"
  <2>1. ~Released(id)
    BY <1>4, DistinctAssumption DEF IInv, DispatchesNameTickets, Released
  <2>2. ~Open(id) /\ ~Named(id)
    BY <1>4 DEF IInv, TicketsNameSessions, Open, Named
  <2> QED BY <2>1, <2>2 DEF Standing
<1>6. Standing(id)' \in {"open", "closed"}
  <2>1. ~Released(id)'
    BY <1>4, DistinctAssumption DEF IInv, DispatchesNameTickets, Released
  <2>2. Named(id)'
    BY <1>4 DEF Named
  <2> QED BY <2>1, <2>2 DEF Standing
<1>7. ASSUME NEW a \in Ids \ {id} PROVE Standing(a)' = Standing(a)
  <2>1. (Released(a)' <=> Released(a)) /\ (Named(a)' <=> Named(a))
    BY <1>4 DEF Released, Named
  <2>2. Held(a)' = Held(a)
    BY <1>4 DEF Held, Live
  <2>3. Open(a)' <=> Open(a)
    BY <1>4, <2>2 DEF Open
  <2> QED BY <2>1, <2>3 DEF Standing
<1>8. Gate!Offer(id, tasks[c].run, tasks[c].step, i)
  <2>1. [a \in Ids |-> Standing(a)]' =
          [[a \in Ids |-> Standing(a)] EXCEPT ![id] = Standing(id)']
    BY <1>7
  <2>2. Made' = Made
    BY <1>4 DEF Made
  <2> QED BY <1>3, <1>4, <1>5, <1>6, <2>1, <2>2 DEF Gate!Offer
<1>9. tasks[c].step \in 0..(MaxSteps - 1)
  BY <1>1, <1>2, BoundsAssumption
<1> QED BY <1>1, <1>4, <1>8, <1>9 DEF Gate!Next

\* What is executed on approval is the release of an open offer.
LEMMA GateReleases ==
  ASSUME IInv, ResultsAreTheExecutions, NEW c \in Calls, NEW t \in tickets,
         NEW state \in ApprovalStates, approvals[t.id] # "absent",
         ResumeExecutes(c, t, state)
  PROVE  Gate!Next
<1>1. PICK s \in Held(t.id) : Execute(c, s.run, s.step, s.results, t.intention, t.id)
  BY DEF ResumeExecutes
<1>2. s \in sessions /\ s.id = t.id /\ s.run = t.run /\ s.step = t.step /\ t.id \in Ids
      /\ t.step \in Nat
  BY DEF Held, IInv, TicketsNameSessions, TypeOK, Ticket
<1>3. /\ CarriesItsResults(s) /\ s.step < MaxSteps
      /\ \A d \in dispatched : d.run = s.run => d.step < s.step
  BY <1>2 DEF IInv, StepsAreBehind, ResultsAreTheExecutions
<1>4. Gate!NextStep(t.run, t.step)
  BY <1>2, <1>3, NextStepIsFree DEF IInv
<1>5. /\ dispatched' = dispatched \cup
           {[call |-> c, run |-> t.run, step |-> t.step, intention |-> t.intention,
             via |-> t.id]}
      /\ tickets' = tickets /\ clock' = clock
      /\ approvals' = [approvals EXCEPT ![t.id] = "executed"]
      /\ sessions' = {r \in sessions : r.id # t.id}
  BY <1>1, <1>2 DEF Execute, ResumeExecutes, Without
<1>6. Standing(t.id) = "open"
  <2>1. ~Released(t.id)
    <3> SUFFICES ASSUME NEW d \in dispatched, d.via = t.id PROVE FALSE
      BY DEF Released
    <3>1. d.run = t.run /\ d.step = t.step
      BY <1>2, DistinctAssumption DEF IInv, DispatchesNameTickets, TicketsNameSessions
    <3> QED BY <1>2, <1>3, <3>1
  <2>2. Open(t.id)
    BY <1>1, <1>2 DEF Open, IInv, SessionAwaitsDecision
  <2> QED BY <2>1, <2>2 DEF Standing
<1>7. Standing(t.id)' = "released"
  <2>1. [call |-> c, run |-> t.run, step |-> t.step, intention |-> t.intention,
         via |-> t.id] \in dispatched'
    BY <1>5
  <2> QED BY <2>1 DEF Standing, Released
<1>8. ASSUME NEW a \in Ids \ {t.id} PROVE Standing(a)' = Standing(a)
  <2>1. (Released(a)' <=> Released(a)) /\ (Named(a)' <=> Named(a))
    BY <1>5 DEF Released, Named
  <2>2. Held(a)' = Held(a)
    BY <1>5 DEF Held, Live
  <2>3. Open(a)' <=> Open(a)
    BY <1>2, <1>5, <2>2 DEF Open, IInv, TypeOK
  <2> QED BY <2>1, <2>3 DEF Standing
<1>9. Gate!Release(t)
  <2>1. [a \in Ids |-> Standing(a)]' =
          [[a \in Ids |-> Standing(a)] EXCEPT ![t.id] = "released"]
    BY <1>7, <1>8
  <2>2. Gate!Make(t.run, t.step, t.intention)
    <3> DEFINE d == [call |-> c, run |-> t.run, step |-> t.step,
                     intention |-> t.intention, via |-> t.id]
    <3>1. Made' = Made \cup {[run |-> d.run, step |-> d.step, intention |-> d.intention]}
      BY <1>5, MadeGrows
    <3> QED BY <3>1 DEF Gate!Make
  <2> QED BY <1>2, <1>4, <1>5, <1>6, <2>1, <2>2 DEF Gate!Release
<1> QED BY <1>9 DEF Gate!Next

\* Each decision of an operator releases an offer or closes some.
LEMMA GateDecides ==
  ASSUME IInv, ResultsAreTheExecutions, NEW c \in Calls, OperatorCalls(c)
  PROVE  Gate!Next
<1>1. PICK t \in tickets : \/ Resume(c, t)
                           \/ \E hash \in Intentions : Approve(c, t, hash)
                           \/ Reject(t)
  BY DEF OperatorCalls
<1>2. t.id \in Ids
  BY DEF IInv, TypeOK, Ticket
<1>3. CASE Reject(t)
  <2>1. \A id \in Ids : Open(id)' => Open(id)
    BY <1>2, <1>3 DEF Reject, Open, Held, Live, Without, IInv, TypeOK
  <2> QED BY <1>3, <2>1, GateCloses DEF Reject
<1>4. ASSUME NEW state \in ApprovalStates, ResumeFrom(c, t, state),
             state = approvals[t.id] \/ (state = "approved" /\ approvals[t.id] # "absent")
      PROVE  Gate!Next
  <2>1. CASE ResumeFindsNoSession(t, state)
    <3>1. \A id \in Ids : Open(id)' => Open(id)
      BY <1>2, <1>4, <2>1 DEF ResumeFindsNoSession, Open, Held, Live, Without, IInv, TypeOK
    <3> QED BY <2>1, <3>1, GateCloses DEF ResumeFindsNoSession
  <2>2. CASE ResumeRefused(t, state)
    BY <2>2, GateCloses DEF ResumeRefused, Open, Held, Live
  <2>3. CASE ResumeExecutes(c, t, state)
    BY <1>4, <2>3, GateReleases DEF ResumeExecutes
  <2> QED BY <1>4, <2>1, <2>2, <2>3 DEF ResumeFrom
<1>5. CASE Resume(c, t)
  BY <1>2, <1>4, <1>5 DEF Resume, IInv, TypeOK
<1>6. CASE \E hash \in Intentions : Approve(c, t, hash)
  BY <1>4, <1>6 DEF Approve, ApprovalStates
<1> QED BY <1>1, <1>3, <1>5, <1>6

\* Time and a restart close offers, and open none.
LEMMA GateExpires ==
  ASSUME IInv, Tick \/ Restart \/ UNCHANGED vars
  PROVE  Gate!Next
<1>1. CASE Tick
  BY <1>1, GateCloses DEF Tick, Open, Held, Live, IInv, TypeOK, Session
<1>2. CASE Restart
  BY <1>2, GateCloses DEF Restart, Open
<1>3. CASE UNCHANGED vars
  BY <1>3, GateCloses DEF vars, Open, Held, Live
<1> QED BY <1>1, <1>2, <1>3

\* Every step of the loop is a step of the gate.
LEMMA GateStep == IInv /\ ResultsAreTheExecutions /\ [Next]_vars => Gate!Next
<1> SUFFICES ASSUME IInv, ResultsAreTheExecutions, [Next]_vars PROVE Gate!Next
  OBVIOUS
<1>1. ASSUME UNCHANGED <<clock, approvals, sessions, tickets, dispatched>> PROVE Gate!Next
  BY <1>1, GateCloses DEF Open, Held, Live
<1>2. ASSUME NEW c \in Calls, Handle(c) PROVE Gate!Next
  BY <1>1, <1>2 DEF Handle
<1>3. ASSUME NEW c \in Calls, ProposerAnswers(c) PROVE Gate!Next
  BY <1>1, <1>3, GatePerforms, GateOffers
     DEF ProposerAnswers, ProposerFails, ProposerFinishes, DecisionNotAudited, Deny
<1>4. ASSUME NEW c \in Calls, AgentAnswers(c) PROVE Gate!Next
  BY <1>1, <1>4 DEF AgentAnswers, ExecutionFails, ExecutionReturns
<1>5. ASSUME NEW c \in Calls, OperatorCalls(c) PROVE Gate!Next
  BY <1>5, GateDecides
<1>6. CASE Tick \/ Restart \/ UNCHANGED vars
  BY <1>6, GateExpires
<1> QED BY <1>2, <1>3, <1>4, <1>5, <1>6 DEF Next

\* Nothing is offered, standing or done when the coordinator first starts.
LEMMA GateInit == Init => Gate!Init
<1> SUFFICES ASSUME Init PROVE Gate!Init
  OBVIOUS
<1>1. \A id \in Ids : Standing(id) = "unused"
  BY DEF Init, Standing, Released, Open, Held, Named
<1> QED BY <1>1 DEF Init, Gate!Init, Made

\* Whatever the operators, the faults and the interleaving do, the loop only
\* does what ApprovalGate promises: it makes what the policy frees, and what
\* it gates only on the release of an open offer (the whole of loop.py).
THEOREM LoopImplementsGate == Spec => ImplementsGate
<1>1. IInv /\ ResultsAreTheExecutions /\ [Next]_vars => [Gate!Next]_(Gate!vars)
  BY GateStep
<1> QED BY <1>1, GateInit, Invariance, ResultsFaithful, PTL DEF Spec, ImplementsGate, Gate!Spec
=============================================================================
