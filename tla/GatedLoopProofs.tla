--------------------------- MODULE GatedLoopProofs ---------------------------
(***************************************************************************)
(* The safety of the gated loop, for every number of calls, approval ids,  *)
(* intentions and steps, every policy and every set of faults.  The proofs *)
(* go through IInv, the inductive invariant of GatedLoop: the properties   *)
(* the runs check, and what ties a session, a ticket and a dispatch to the *)
(* place its run is at.  The lemmas named ...Step prove that one action    *)
(* preserves IInv, given that it preserves the type invariant.             *)
(***************************************************************************)
EXTENDS GatedLoop, FiniteSetTheorems, TLAPS

\* A handler that replies leaves well-typed tasks.
LEMMA ReplyType ==
  ASSUME TypeOK, NEW c \in Calls, NEW outcome \in Replies, tasks' = Reply(c, outcome)
  PROVE  TasksOK'
BY DEF TypeOK, TasksOK, Reply, At, Task, Awaiting, Replies

\* A handler that enters the while loop leaves well-typed tasks.
LEMMA EnterType ==
  ASSUME TypeOK, NEW c \in Calls, NEW run \in Calls, NEW step \in Nat,
         NEW results \in Seq(Intentions), tasks' = Enter(c, run, step, results)
  PROVE  TasksOK'
BY DEF TypeOK, TasksOK, Enter, At, Task, Awaiting, Replies

\* A handler that calls the agent leaves well-typed tasks and dispatches.
LEMMA ExecuteType ==
  ASSUME TypeOK, NEW c \in Calls, NEW run \in Calls, NEW step \in Nat,
         NEW results \in Seq(Intentions), NEW i \in Intentions,
         NEW id \in Ids \cup {NoApproval}, Execute(c, run, step, results, i, id)
  PROVE  TasksOK' /\ dispatched' \subseteq Dispatch
<1>1. TasksOK'
  BY DEF TypeOK, TasksOK, Execute, Task, Awaiting
<1>2. dispatched' \subseteq Dispatch
  BY DEF TypeOK, Execute, Dispatch
<1> QED BY <1>1, <1>2

\* The parts of a task, which the provers do not find in the type invariant.
LEMMA TaskParts ==
  ASSUME TypeOK, NEW c \in Calls
  PROVE  /\ tasks[c].run \in Calls
         /\ tasks[c].step \in Nat
         /\ tasks[c].results \in Seq(Intentions)
         /\ tasks[c].via \in Ids \cup {NoApproval}
BY DEF TypeOK, TasksOK, Task

\* The type invariant holds at start.
LEMMA TypeInit == Init => TypeOK
<1> SUFFICES ASSUME Init PROVE TypeOK
  OBVIOUS
<1>1. <<>> \in Seq(Intentions)
  OBVIOUS
<1>2. TasksOK
  BY <1>1 DEF Init, TasksOK, Task, At, Awaiting, Replies
<1> QED BY <1>2, BoundsAssumption DEF Init, TypeOK, ApprovalStates

\* Every step preserves the type invariant, one case per action.
LEMMA TypeStep == TypeOK /\ [Next]_vars => TypeOK'
<1> SUFFICES ASSUME TypeOK, [Next]_vars PROVE TypeOK'
  OBVIOUS
<1> USE BoundsAssumption
<1>1. ASSUME NEW c \in Calls, Handle(c) PROVE TypeOK'
  <2>1. <<>> \in Seq(Intentions)
    OBVIOUS
  <2>2. TasksOK'
    BY <1>1, <2>1, EnterType DEF Handle
  <2> QED BY <1>1, <2>2 DEF Handle, TypeOK
<1>2. ASSUME NEW c \in Calls, ProposerFails(c) PROVE TypeOK'
  BY <1>2, ReplyType DEF ProposerFails, TypeOK, Replies
<1>3. ASSUME NEW c \in Calls, ProposerFinishes(c) PROVE TypeOK'
  BY <1>3, ReplyType DEF ProposerFinishes, TypeOK, Replies
<1>4. ASSUME NEW c \in Calls, DecisionNotAudited(c) PROVE TypeOK'
  BY <1>4, ReplyType DEF DecisionNotAudited, AuditRaises, TypeOK, Replies
<1>5. ASSUME NEW c \in Calls, NEW i \in Intentions, NEW e, Decide(c, i, e)
      PROVE  audit' \subseteq Entry
  BY <1>5, TaskParts DEF Decide, AuditWrites, TypeOK, Entry, Events
<1>6. ASSUME NEW c \in Calls, NEW i \in Intentions, Deny(c, i) PROVE TypeOK'
  BY <1>6, <1>5, ReplyType DEF Deny, TypeOK, Replies
<1>7. ASSUME NEW c \in Calls, NEW i \in Intentions, Allow(c, i) PROVE TypeOK'
  <2>1. TasksOK' /\ dispatched' \subseteq Dispatch
    BY <1>7, TaskParts, ExecuteType DEF Allow
  <2> QED BY <1>7, <1>5, <2>1 DEF Allow, TypeOK
<1>8. ASSUME NEW c \in Calls, NEW i \in Intentions, NEW id \in Ids, Suspend(c, i, id)
      PROVE  TypeOK'
  <2>1. /\ tasks[c].run \in Calls /\ tasks[c].step \in Nat
        /\ tasks[c].results \in Seq(Intentions)
    BY TaskParts
  <2>2. tickets' \subseteq Ticket /\ approvals' \in [Ids -> ApprovalStates]
    BY <1>8, <2>1 DEF Suspend, TypeOK, Ticket, ApprovalStates
  <2>3. sessions' \subseteq Session
    BY <1>8, <2>1 DEF Suspend, TypeOK, Session, Without
  <2>4. TasksOK'
    BY <1>8, ReplyType DEF Suspend, Replies
  <2> QED BY <1>8, <1>5, <2>2, <2>3, <2>4 DEF Suspend, TypeOK
<1>9. ASSUME NEW c \in Calls, ExecutionFails(c) PROVE TypeOK'
  BY <1>9, ReplyType DEF ExecutionFails, TypeOK, Replies
<1>10. ASSUME NEW c \in Calls, ExecutionReturns(c) PROVE TypeOK'
  <2>1. tasks[c].intention \in Intentions
    BY <1>10 DEF ExecutionReturns, TypeOK, TasksOK
  <2>2. /\ tasks[c].run \in Calls /\ tasks[c].step + 1 \in Nat
        /\ Append(tasks[c].results, tasks[c].intention) \in Seq(Intentions)
    BY <2>1, TaskParts
  <2>3. audit' \subseteq Entry
    BY <1>10, <2>1, TaskParts DEF ExecutionReturns, AuditWrites, AuditRaises, EntryOf, ExecutionEvent,
                                  TypeOK, Entry, Events
  <2>4. TasksOK'
    BY <1>10, <2>2, EnterType, ReplyType DEF ExecutionReturns, Replies
  <2> QED BY <1>10, <2>3, <2>4 DEF ExecutionReturns, TypeOK
<1>11. ASSUME NEW c \in Calls, NEW t \in tickets, NEW st \in ApprovalStates, ResumeFrom(c, t, st)
       PROVE TypeOK'
  <2>1. t.id \in Ids /\ t.run \in Calls /\ t.step \in Nat /\ t.intention \in Intentions
    BY DEF TypeOK, Ticket
  <2>2. CASE ResumeFindsNoSession(t, st)
    BY <2>1, <2>2 DEF ResumeFindsNoSession, Without, TypeOK, TasksOK
  <2>3. CASE ResumeRefused(t, st)
    BY <2>1, <2>3 DEF ResumeRefused, AuditWrites, AuditRaises, EntryOf, TypeOK, TasksOK,
                      Entry, Events
  <2>4. CASE ResumeExecutes(c, t, st)
    <3>1. PICK s \in Held(t.id) : Execute(c, s.run, s.step, s.results, t.intention, t.id)
      BY <2>4 DEF ResumeExecutes
    <3>2. s.run \in Calls /\ s.step \in Nat /\ s.results \in Seq(Intentions)
      BY <3>1 DEF Held, TypeOK, Session
    <3>3. TasksOK' /\ dispatched' \subseteq Dispatch
      BY <2>1, <3>1, <3>2, ExecuteType
    <3> QED BY <2>1, <2>4, <3>3 DEF ResumeExecutes, Without, TypeOK, ApprovalStates
  <2> QED BY <1>11, <2>2, <2>3, <2>4 DEF ResumeFrom
<1>12. ASSUME NEW c \in Calls, OperatorCalls(c) PROVE TypeOK'
  <2>1. PICK t \in tickets : \/ Resume(c, t)
                             \/ \E hash \in Intentions : Approve(c, t, hash)
                             \/ Reject(t)
    BY <1>12 DEF OperatorCalls
  <2>2. t.id \in Ids /\ t.run \in Calls /\ t.step \in Nat /\ t.intention \in Intentions
    BY DEF TypeOK, Ticket
  <2>3. CASE Resume(c, t)
    BY <1>11, <2>2, <2>3 DEF Resume, TypeOK
  <2>4. CASE \E hash \in Intentions : Approve(c, t, hash)
    BY <1>11, <2>4 DEF Approve, ApprovalStates
  <2>5. CASE Reject(t)
    BY <2>2, <2>5 DEF Reject, AuditWrites, AuditRaises, EntryOf, Without, TypeOK,
                      TasksOK, Entry, Events, ApprovalStates
  <2> QED BY <2>1, <2>3, <2>4, <2>5
<1>13. CASE Tick
  BY <1>13 DEF Tick, TypeOK, TasksOK
<1>14. CASE Restart
  <2>1. TasksOK'
    BY <1>14, TaskParts DEF Restart, TypeOK, TasksOK, At, Task, Replies
  <2> QED BY <1>14, <2>1 DEF Restart, TypeOK, ApprovalStates
<1>15. CASE UNCHANGED vars
  BY <1>15 DEF vars, TypeOK, TasksOK
<1> QED BY <1>1, <1>2, <1>3, <1>4, <1>6, <1>7, <1>8, <1>9, <1>10, <1>12, <1>13, <1>14, <1>15
        DEF Next, ProposerAnswers, AgentAnswers

\* The dicts, files and locals of the loop keep their shape (loop.py,
\* core/approval/store.py, coordinator/session.py).
THEOREM TypeCorrect == Spec => []TypeOK
BY TypeInit, TypeStep, PTL DEF Spec

\* A step that only withdraws keeps IInv: no handler starts, no session is
\* saved, no approval appears, nothing is dispatched, the audit only grows.
LEMMA Withdraw ==
  ASSUME IInv, TypeOK',
         \A c \in Calls : Active(c)' => Active(c) /\ tasks'[c] = tasks[c],
         \A c \in Calls : tasks'[c].pc = "idle" => tasks[c].pc = "idle",
         sessions' \subseteq sessions,
         \A s \in sessions' : approvals'[s.id] \in {"absent", "pending"},
         \A id \in Ids : approvals'[id] # "absent" => approvals[id] # "absent",
         tickets' = tickets, dispatched' = dispatched, audit \subseteq audit'
  PROVE  IInv'
<1>1. SessionAwaitsDecision'
  BY DEF SessionAwaitsDecision
<1>2. OnePlacePerRun'
  BY DEF IInv, OnePlacePerRun
<1>3. NoStepTwice' /\ DispatchedWasDecided' /\ TicketsWereDecided'
      /\ DispatchesNameTickets'
  BY DEF IInv, NoStepTwice, DispatchedWasDecided, TicketsWereDecided, EntryOf,
         DispatchesNameTickets
<1>4. IdleIsFresh'
  BY DEF IInv, IdleIsFresh
<1>5. TicketsNameSessions'
  BY DEF IInv, TicketsNameSessions
<1>6. StepsAreBehind'
  BY DEF IInv, StepsAreBehind, Active, Awaiting
<1> QED BY <1>1, <1>2, <1>3, <1>4, <1>5, <1>6 DEF IInv

\* A handler that replies without saving a session withdraws.
LEMMA ReplyWithdraws ==
  ASSUME IInv, TypeOK', NEW c \in Calls, NEW outcome \in Replies,
         tasks' = Reply(c, outcome), audit \subseteq audit',
         approvals' = approvals, sessions' = sessions, tickets' = tickets,
         dispatched' = dispatched
  PROVE  IInv'
<1>1. tasks'[c].pc = outcome /\ \A b \in Calls \ {c} : tasks'[b] = tasks[b]
  BY DEF IInv, TypeOK, TasksOK, Reply, At
<1>2. \A b \in Calls : Active(b)' => Active(b) /\ tasks'[b] = tasks[b]
  BY <1>1 DEF Active, Awaiting, Replies
<1>3. \A b \in Calls : tasks'[b].pc = "idle" => tasks[b].pc = "idle"
  BY <1>1 DEF Replies
<1> QED BY <1>2, <1>3, Withdraw DEF IInv, SessionAwaitsDecision, TypeOK

\* A new request enters the loop under a name that nothing bears yet.
LEMMA HandleStep ==
  ASSUME IInv, TypeOK', NEW c \in Calls, Handle(c)
  PROVE  IInv'
<1>1. /\ tasks'[c] = At(IF 0 < MaxSteps THEN "proposing" ELSE "failed", c, 0, <<>>)
      /\ \A b \in Calls \ {c} : tasks'[b] = tasks[b]
  BY DEF IInv, TypeOK, TasksOK, Handle, Enter
<1>2. SessionAwaitsDecision' /\ NoStepTwice' /\ DispatchedWasDecided' /\ TicketsWereDecided'
      /\ TicketsNameSessions' /\ DispatchesNameTickets'
  BY DEF IInv, SessionAwaitsDecision, NoStepTwice, DispatchedWasDecided, TicketsWereDecided,
         EntryOf, TicketsNameSessions, DispatchesNameTickets, Handle
<1>3. OnePlacePerRun'
  BY <1>1 DEF IInv, OnePlacePerRun, IdleIsFresh, Handle, Active, At
<1>4. IdleIsFresh'
  BY <1>1 DEF IInv, OnePlacePerRun, IdleIsFresh, Handle, Active, At
<1>5. StepsAreBehind'
  BY <1>1, BoundsAssumption DEF IInv, StepsAreBehind, IdleIsFresh, Handle, Active, Awaiting, At
<1> QED BY <1>2, <1>3, <1>4, <1>5 DEF IInv

\* The loop moves to the next step, past everything its run dispatched.
LEMMA ExecutionReturnsStep ==
  ASSUME IInv, TypeOK', NEW c \in Calls, ExecutionReturns(c)
  PROVE  IInv'
<1>1. CASE tasks' = Reply(c, "raised") /\ UNCHANGED audit
  BY <1>1, ReplyWithdraws DEF ExecutionReturns, Replies
<1>2. CASE /\ audit \subseteq audit'
           /\ tasks' = Enter(c, tasks[c].run, tasks[c].step + 1,
                             Append(tasks[c].results, tasks[c].intention))
  <2>1. /\ tasks'[c] = At(IF tasks[c].step + 1 < MaxSteps THEN "proposing" ELSE "failed",
                          tasks[c].run, tasks[c].step + 1,
                          Append(tasks[c].results, tasks[c].intention))
        /\ \A b \in Calls \ {c} : tasks'[b] = tasks[b]
    BY <1>2 DEF IInv, TypeOK, TasksOK, Enter
  <2>2. tasks[c].pc = "executing" /\ tasks[c].step \in Nat
    BY TaskParts DEF ExecutionReturns, IInv
  <2>3. SessionAwaitsDecision' /\ NoStepTwice' /\ DispatchedWasDecided' /\ TicketsWereDecided'
        /\ TicketsNameSessions' /\ DispatchesNameTickets'
    BY <1>2 DEF IInv, SessionAwaitsDecision, NoStepTwice, DispatchedWasDecided,
                TicketsWereDecided, EntryOf, TicketsNameSessions,
                DispatchesNameTickets, ExecutionReturns
  <2>4. OnePlacePerRun' /\ IdleIsFresh'
    BY <2>1, <2>2 DEF IInv, OnePlacePerRun, IdleIsFresh, ExecutionReturns, Active, Awaiting, At
  <2>5. \A d \in dispatched : d.run = tasks[c].run => d.step < tasks[c].step + 1
    BY <2>2 DEF IInv, StepsAreBehind, Active, Awaiting, TypeOK, Dispatch
  <2>6. \A b \in Calls \ {c} : (Active(b)' <=> Active(b)) /\ tasks'[b] = tasks[b]
    BY <2>1 DEF Active
  <2>7. Active(c)' => /\ tasks'[c].pc = "proposing"
                      /\ tasks'[c].run = tasks[c].run
                      /\ tasks'[c].step = tasks[c].step + 1
                      /\ tasks[c].step + 1 < MaxSteps
    BY <2>1 DEF Active, Awaiting, At
  <2>8. tasks'[c].pc # "executing"
    BY <2>1 DEF At
  <2>9. StepsAreBehind'
    <3>1. sessions' = sessions /\ dispatched' = dispatched
      BY DEF ExecutionReturns
    <3>2. \A b \in Calls, d \in dispatched : Active(b)' /\ d.run = tasks'[b].run =>
            \/ d.step < tasks'[b].step
            \/ /\ tasks'[b].pc = "executing"
               /\ d = [call |-> b, run |-> tasks'[b].run, step |-> tasks'[b].step,
                       intention |-> tasks'[b].intention, via |-> tasks'[b].via]
      BY <2>5, <2>6, <2>7 DEF IInv, StepsAreBehind
    <3>3. \A b \in Calls : tasks'[b].pc = "executing" =>
            [call |-> b, run |-> tasks'[b].run, step |-> tasks'[b].step,
             intention |-> tasks'[b].intention, via |-> tasks'[b].via] \in dispatched
      BY <2>6, <2>8 DEF IInv, StepsAreBehind
    <3>4. \A b \in Calls : Active(b)' => tasks'[b].step < MaxSteps
      BY <2>6, <2>7 DEF IInv, StepsAreBehind
    <3> QED BY <3>1, <3>2, <3>3, <3>4 DEF IInv, StepsAreBehind
  <2> QED BY <2>3, <2>4, <2>9 DEF IInv
<1> QED BY <1>1, <1>2 DEF ExecutionReturns, AuditWrites, AuditRaises

\* A step of a run is handed to the agent by a call that was idle or asking
\* the proposer for this run, the run being nowhere else from now on.
LEMMA ExecuteStep ==
  ASSUME IInv, TypeOK', NEW c \in Calls, NEW run \in Calls, NEW step \in Nat, NEW results,
         NEW i \in Intentions, NEW id \in Ids \cup {NoApproval},
         Execute(c, run, step, results, i, id),
         step < MaxSteps,
         \A d \in dispatched : d.run = run => d.step < step,
         \A b \in Calls \ {c} : Active(b) => tasks[b].run # run,
         \A s \in sessions' : s.run # run,
         \A b \in Calls \ {c} : tasks[b].pc = "idle" => b # run,
         EntryOf("policy_decision", [run |-> run, step |-> step, intention |-> i]) \in audit',
         Effect[i] = IF id = NoApproval THEN "allow" ELSE "approve",
         id # NoApproval => \E t \in tickets : /\ t.id = id /\ t.run = run /\ t.step = step
                                              /\ t.intention = i,
         sessions' \subseteq sessions,
         \A s \in sessions' : approvals'[s.id] \in {"absent", "pending"},
         \A a \in Ids : approvals'[a] # "absent" => approvals[a] # "absent",
         tickets' = tickets, audit \subseteq audit'
  PROVE  IInv'
<1> DEFINE new == [call |-> c, run |-> run, step |-> step, intention |-> i, via |-> id]
<1>1. /\ tasks'[c] = [pc |-> "executing", run |-> run, step |-> step, results |-> results,
                      intention |-> i, via |-> id]
      /\ \A b \in Calls \ {c} : tasks'[b] = tasks[b]
  BY DEF IInv, TypeOK, TasksOK, Execute
<1>2. dispatched' = dispatched \cup {new}
  BY DEF Execute
<1>3. SessionAwaitsDecision'
  BY DEF SessionAwaitsDecision
<1>4. OnePlacePerRun'
  BY <1>1 DEF IInv, OnePlacePerRun, Active
<1>5. NoStepTwice'
  BY <1>2 DEF IInv, NoStepTwice
<1>6. IdleIsFresh'
  BY <1>1, <1>2 DEF IInv, IdleIsFresh, Active
<1>7. TicketsNameSessions' /\ TicketsWereDecided'
  BY DEF IInv, TicketsNameSessions, TicketsWereDecided, EntryOf
<1>8. StepsAreBehind'
  BY <1>1, <1>2 DEF IInv, StepsAreBehind, Active, Awaiting
<1>9. DispatchedWasDecided'
  <2> SUFFICES ASSUME NEW d \in dispatched'
               PROVE  /\ EntryOf("policy_decision", d) \in audit'
                      /\ Effect[d.intention] = IF d.via = NoApproval THEN "allow" ELSE "approve"
    BY DEF DispatchedWasDecided, EntryOf
  <2>1. CASE d \in dispatched
    BY <2>1 DEF IInv, DispatchedWasDecided
  <2>2. CASE d = new
    BY <2>2 DEF EntryOf
  <2> QED BY <1>2, <2>1, <2>2
<1>10. DispatchesNameTickets'
  BY <1>2 DEF IInv, DispatchesNameTickets
<1> QED BY <1>3, <1>4, <1>5, <1>6, <1>7, <1>8, <1>9, <1>10 DEF IInv

\* The execution of an intention the policy allows keeps IInv.
LEMMA AllowStep ==
  ASSUME IInv, TypeOK', NEW c \in Calls, NEW i \in Intentions, Allow(c, i)
  PROVE  IInv'
<1>1. /\ tasks[c].run \in Calls /\ tasks[c].step \in Nat /\ tasks[c].pc = "proposing"
      /\ NoApproval \in Ids \cup {NoApproval}
  BY TaskParts DEF IInv, Allow, Decide
<1>2. Execute(c, tasks[c].run, tasks[c].step, tasks[c].results, i, NoApproval)
  BY DEF Allow
<1>3. /\ tasks[c].step < MaxSteps
      /\ \A d \in dispatched : d.run = tasks[c].run => d.step < tasks[c].step
  BY <1>1 DEF IInv, StepsAreBehind, Active, Awaiting
<1>4. /\ \A b \in Calls \ {c} : Active(b) => tasks[b].run # tasks[c].run
      /\ \A s \in sessions : s.run # tasks[c].run
      /\ \A b \in Calls \ {c} : tasks[b].pc = "idle" => b # tasks[c].run
  BY <1>1 DEF IInv, OnePlacePerRun, IdleIsFresh, Active, Awaiting
<1>5. /\ EntryOf("policy_decision",
              [run |-> tasks[c].run, step |-> tasks[c].step, intention |-> i]) \in audit'
      /\ audit \subseteq audit'
      /\ Effect[i] = "allow"
  BY DEF Allow, Decide, AuditWrites, EntryOf
<1>6. sessions' = sessions /\ approvals' = approvals /\ tickets' = tickets
  BY DEF Allow
<1>7. \A s \in sessions : approvals[s.id] \in {"absent", "pending"}
  BY DEF IInv, SessionAwaitsDecision
<1> QED BY <1>1, <1>2, <1>3, <1>4, <1>5, <1>6, <1>7, ExecuteStep

\* The suspension of a run keeps IInv: its handler ends, its session takes
\* its place under an id that no ticket, approval or dispatch bears.
LEMMA SuspendStep ==
  ASSUME IInv, TypeOK', NEW c \in Calls, NEW i \in Intentions, NEW id \in Ids,
         Suspend(c, i, id)
  PROVE  IInv'
<1> DEFINE ticket == [id |-> id, run |-> tasks[c].run, step |-> tasks[c].step, intention |-> i]
           session == [id |-> id, run |-> tasks[c].run, step |-> tasks[c].step,
                       results |-> tasks[c].results, expires |-> clock + SessionTtl]
<1>1. /\ tasks[c].run \in Calls /\ tasks[c].step \in Nat /\ tasks[c].pc = "proposing"
  BY TaskParts DEF IInv, Suspend, Decide
<1>2. /\ tickets' = tickets \cup {ticket}
      /\ \A t \in tickets : t.id # id
      /\ dispatched' = dispatched
      /\ approvals' = [approvals EXCEPT ![id] = "pending"]
      /\ audit \subseteq audit' /\ EntryOf("policy_decision", ticket) \in audit'
      /\ Effect[i] = "approve"
  BY DEF Suspend, Decide, AuditWrites, EntryOf
<1>3. sessions' \subseteq sessions \cup {session}
  BY DEF Suspend, Without
<1>4. /\ ~Active(c)' /\ tasks'[c].pc # "idle"
      /\ \A b \in Calls \ {c} : tasks'[b] = tasks[b]
  BY DEF IInv, TypeOK, TasksOK, Suspend, Reply, At, Active, Awaiting
<1>5. /\ tasks[c].step < MaxSteps
      /\ \A d \in dispatched : d.run = tasks[c].run => d.step < tasks[c].step
  BY <1>1 DEF IInv, StepsAreBehind, Active, Awaiting
<1>6. /\ \A b \in Calls \ {c} : Active(b) => tasks[b].run # tasks[c].run
      /\ \A s \in sessions : s.run # tasks[c].run
      /\ \A b \in Calls \ {c} : tasks[b].pc = "idle" => b # tasks[c].run
  BY <1>1 DEF IInv, OnePlacePerRun, IdleIsFresh, Active, Awaiting
<1>7. SessionAwaitsDecision'
  BY <1>2, <1>3 DEF IInv, TypeOK, SessionAwaitsDecision
<1>8. OnePlacePerRun'
  BY <1>3, <1>4, <1>6 DEF IInv, OnePlacePerRun, Active
<1>9. NoStepTwice' /\ DispatchedWasDecided' /\ DispatchesNameTickets'
  BY <1>2 DEF IInv, NoStepTwice, DispatchedWasDecided, EntryOf, DispatchesNameTickets
<1>10. IdleIsFresh'
  BY <1>2, <1>3, <1>4, <1>6 DEF IInv, IdleIsFresh, Active
<1>11. TicketsNameSessions'
  <2>1. \A t, u \in tickets' : t.id = u.id => t = u
    BY <1>2 DEF IInv, TicketsNameSessions
  <2>2. \A a \in Ids : approvals'[a] # "absent" => \E t \in tickets' : t.id = a
    <3> SUFFICES ASSUME NEW a \in Ids, approvals'[a] # "absent"
                 PROVE  \E t \in tickets' : t.id = a
      OBVIOUS
    <3>1. CASE a = id
      BY <1>2, <3>1
    <3>2. CASE a # id
      BY <1>2, <3>2 DEF IInv, TypeOK, TicketsNameSessions
    <3> QED BY <3>1, <3>2
  <2>3. \A s \in sessions' : \E t \in tickets' : t.id = s.id /\ t.run = s.run /\ t.step = s.step
    <3> SUFFICES ASSUME NEW s \in sessions'
                 PROVE  \E t \in tickets' : t.id = s.id /\ t.run = s.run /\ t.step = s.step
      OBVIOUS
    <3>1. CASE s = session
      BY <1>2, <3>1
    <3>2. CASE s \in sessions
      BY <1>2, <3>2 DEF IInv, TicketsNameSessions
    <3> QED BY <1>3, <3>1, <3>2
  <2> QED BY <2>1, <2>2, <2>3 DEF TicketsNameSessions
<1>12. StepsAreBehind'
  BY <1>2, <1>3, <1>4, <1>5 DEF IInv, StepsAreBehind, Active, Awaiting
<1>13. TicketsWereDecided'
  <2> SUFFICES ASSUME NEW t \in tickets'
               PROVE  EntryOf("policy_decision", t) \in audit' /\ Effect[t.intention] = "approve"
    BY DEF TicketsWereDecided, EntryOf
  <2>1. CASE t = ticket
    BY <1>2, <2>1
  <2>2. CASE t \in tickets
    BY <1>2, <2>2 DEF IInv, TicketsWereDecided
  <2> QED BY <1>2, <2>1, <2>2
<1> QED BY <1>7, <1>8, <1>9, <1>10, <1>11, <1>12, <1>13 DEF IInv

\* resume(), on its own or from approve(), keeps IInv: the session that is
\* consumed is the only place the run was at.
LEMMA ResumeStep ==
  ASSUME IInv, TypeOK', NEW c \in Calls, NEW t \in tickets, NEW state \in ApprovalStates,
         \/ state = approvals[t.id]
         \/ state = "approved" /\ approvals[t.id] # "absent",
         ResumeFrom(c, t, state)
  PROVE  IInv'
<1>1. t.id \in Ids /\ t.run \in Calls /\ t.intention \in Intentions
  BY DEF IInv, TypeOK, Ticket
<1>2. \A s \in sessions : s.id \in Ids /\ s.run \in Calls /\ s.step \in Nat
  BY DEF IInv, TypeOK, Session
<1>3. CASE ResumeFindsNoSession(t, state)
  <2>1. \A s \in sessions' : s \in sessions /\ approvals'[s.id] \in {"absent", "pending"}
    BY <1>1, <1>2, <1>3 DEF ResumeFindsNoSession, Without, IInv, TypeOK, SessionAwaitsDecision
  <2>2. \A id \in Ids : approvals'[id] # "absent" => approvals[id] # "absent"
    BY <1>1, <1>3 DEF ResumeFindsNoSession, IInv, TypeOK
  <2> QED BY <1>3, <2>1, <2>2, Withdraw DEF ResumeFindsNoSession, Active
<1>4. CASE ResumeRefused(t, state)
  BY <1>4, Withdraw DEF ResumeRefused, AuditWrites, AuditRaises, Active, IInv,
                        SessionAwaitsDecision
<1>5. CASE ResumeExecutes(c, t, state)
  <2>1. PICK s \in Held(t.id) : Execute(c, s.run, s.step, s.results, t.intention, t.id)
    BY <1>5 DEF ResumeExecutes
  <2>2. s \in sessions /\ s.id = t.id
    BY DEF Held
  <2>3. s.run = t.run /\ s.step = t.step
    BY <2>2 DEF IInv, TicketsNameSessions
  <2>4. \A r \in sessions' : r \in sessions /\ r.id # t.id
    BY <1>5 DEF ResumeExecutes, Without
  <2>5. \A r \in sessions' : r.run # s.run
    BY <2>2, <2>4 DEF IInv, OnePlacePerRun
  <2>6. \A r \in sessions' : approvals'[r.id] \in {"absent", "pending"}
    BY <1>1, <1>2, <1>5, <2>4 DEF ResumeExecutes, IInv, TypeOK, SessionAwaitsDecision
  <2>7. \A a \in Ids : approvals'[a] # "absent" => approvals[a] # "absent"
    BY <1>1, <1>5 DEF ResumeExecutes, IInv, TypeOK
  <2>8. /\ s.step < MaxSteps
        /\ \A d \in dispatched : d.run = s.run => d.step < s.step
    BY <2>2 DEF IInv, StepsAreBehind
  <2>9. /\ \A b \in Calls \ {c} : Active(b) => tasks[b].run # s.run
        /\ \A b \in Calls \ {c} : tasks[b].pc = "idle" => b # s.run
    BY <2>2 DEF IInv, OnePlacePerRun, IdleIsFresh
  <2>10. /\ EntryOf("policy_decision", [run |-> s.run, step |-> s.step,
                                        intention |-> t.intention]) \in audit'
         /\ Effect[t.intention] = "approve"
    BY <1>5, <2>3 DEF ResumeExecutes, IInv, TicketsWereDecided, EntryOf
  <2>11. t.id \in Ids \cup {NoApproval} /\ t.id # NoApproval
    BY <1>1, DistinctAssumption
  <2>12. tickets' = tickets /\ audit \subseteq audit' /\ sessions' \subseteq sessions
    BY <1>5, <2>4 DEF ResumeExecutes
  <2>13. \E u \in tickets : /\ u.id = t.id /\ u.run = s.run /\ u.step = s.step
                             /\ u.intention = t.intention
    BY <2>3
  <2>14. s.run \in Calls /\ s.step \in Nat
    BY <1>2, <2>2
  <2> QED BY <1>1, <2>1, <2>5, <2>6, <2>7, <2>8, <2>9, <2>10, <2>11, <2>12, <2>13, <2>14,
             ExecuteStep
<1> QED BY <1>3, <1>4, <1>5 DEF ResumeFrom

\* reject() keeps IInv, whatever the state of the approval it overwrites.
LEMMA RejectStep ==
  ASSUME IInv, TypeOK', NEW t \in tickets, Reject(t)
  PROVE  IInv'
<1>1. t.id \in Ids /\ \A s \in sessions : s.id \in Ids
  BY DEF IInv, TypeOK, Ticket, Session
<1>2. \A s \in sessions' : s \in sessions /\ approvals'[s.id] \in {"absent", "pending"}
  BY <1>1 DEF Reject, Without, IInv, TypeOK, SessionAwaitsDecision
<1>3. \A id \in Ids : approvals'[id] # "absent" => approvals[id] # "absent"
  BY <1>1 DEF Reject, IInv, TypeOK
<1> QED BY <1>2, <1>3, Withdraw DEF Reject, AuditWrites, AuditRaises, Active

\* Every decision of an operator keeps IInv.
LEMMA OperatorStep ==
  ASSUME IInv, TypeOK', NEW c \in Calls, OperatorCalls(c)
  PROVE  IInv'
<1>1. PICK t \in tickets : \/ Resume(c, t)
                           \/ \E hash \in Intentions : Approve(c, t, hash)
                           \/ Reject(t)
  BY DEF OperatorCalls
<1>2. CASE Resume(c, t)
  <2>1. approvals[t.id] \in ApprovalStates
    BY DEF IInv, TypeOK, Ticket
  <2> QED BY <1>2, <2>1, ResumeStep DEF Resume
<1>3. CASE \E hash \in Intentions : Approve(c, t, hash)
  BY <1>3, ResumeStep DEF Approve, ApprovalStates
<1>4. CASE Reject(t)
  BY <1>4, RejectStep
<1> QED BY <1>1, <1>2, <1>3, <1>4

\* A restart keeps IInv: sessions survive, with no approval beside them.
LEMMA RestartStep ==
  ASSUME IInv, TypeOK', Restart
  PROVE  IInv'
<1>1. \A c \in Calls : ~Active(c)' /\ (tasks'[c].pc = "idle" => tasks[c].pc = "idle")
  BY DEF Restart, Active, Awaiting, At
<1>2. \A s \in sessions' : approvals'[s.id] \in {"absent", "pending"}
  BY DEF Restart, IInv, TypeOK, Session
<1>3. \A id \in Ids : approvals'[id] = "absent"
  BY DEF Restart
<1> QED BY <1>1, <1>2, <1>3, Withdraw DEF Restart

\* IInv holds at start.
LEMMA InvInit == Init => IInv
<1> SUFFICES ASSUME Init PROVE IInv
  OBVIOUS
<1>1. \A c \in Calls : tasks[c].pc = "idle" /\ ~Active(c)
  BY DEF Init, At, Active, Awaiting
<1>2. /\ SessionAwaitsDecision /\ OnePlacePerRun /\ NoStepTwice /\ IdleIsFresh
      /\ TicketsWereDecided /\ DispatchedWasDecided /\ DispatchesNameTickets
  BY <1>1 DEF Init, SessionAwaitsDecision, OnePlacePerRun, NoStepTwice, IdleIsFresh,
              TicketsWereDecided, DispatchedWasDecided, DispatchesNameTickets
<1>3. TicketsNameSessions
  BY DEF Init, TicketsNameSessions
<1>4. StepsAreBehind
  BY <1>1 DEF Init, StepsAreBehind, Awaiting
<1> QED BY <1>2, <1>3, <1>4, TypeInit DEF IInv

\* Every step preserves IInv.
LEMMA InvStep == IInv /\ [Next]_vars => IInv'
<1> SUFFICES ASSUME IInv, [Next]_vars PROVE IInv'
  OBVIOUS
<1>1. TypeOK'
  BY TypeStep DEF IInv
<1>2. ASSUME NEW c \in Calls, Handle(c) PROVE IInv'
  BY <1>1, <1>2, HandleStep
<1>3. ASSUME NEW c \in Calls, ProposerAnswers(c) PROVE IInv'
  <2>1. CASE ProposerFails(c)
    BY <1>1, <2>1, ReplyWithdraws DEF ProposerFails, Replies
  <2>2. CASE ProposerFinishes(c)
    BY <1>1, <2>2, ReplyWithdraws DEF ProposerFinishes, Replies
  <2>3. CASE DecisionNotAudited(c)
    BY <1>1, <2>3, ReplyWithdraws DEF DecisionNotAudited, AuditRaises, Replies
  <2>4. ASSUME NEW i \in Intentions, Deny(c, i) PROVE IInv'
    BY <1>1, <2>4, ReplyWithdraws DEF Deny, Decide, AuditWrites, Replies
  <2>5. ASSUME NEW i \in Intentions, Allow(c, i) PROVE IInv'
    BY <1>1, <2>5, AllowStep
  <2>6. ASSUME NEW i \in Intentions, NEW id \in Ids, Suspend(c, i, id) PROVE IInv'
    BY <1>1, <2>6, SuspendStep
  <2> QED BY <1>3, <2>1, <2>2, <2>3, <2>4, <2>5, <2>6 DEF ProposerAnswers
<1>4. ASSUME NEW c \in Calls, ExecutionFails(c) PROVE IInv'
  BY <1>1, <1>4, ReplyWithdraws DEF ExecutionFails, Replies
<1>5. ASSUME NEW c \in Calls, ExecutionReturns(c) PROVE IInv'
  BY <1>1, <1>5, ExecutionReturnsStep
<1>6. ASSUME NEW c \in Calls, OperatorCalls(c) PROVE IInv'
  BY <1>1, <1>6, OperatorStep
<1>7. CASE Tick \/ UNCHANGED vars
  BY <1>1, <1>7, Withdraw DEF Tick, vars, Active, IInv, SessionAwaitsDecision
<1>8. CASE Restart
  BY <1>1, <1>8, RestartStep
<1> QED BY <1>2, <1>3, <1>4, <1>5, <1>6, <1>7, <1>8 DEF Next, AgentAnswers

\* The inductive invariant of the loop, from which the safety properties follow.
THEOREM Invariance == Spec => []IInv
BY InvInit, InvStep, PTL DEF Spec

\* No step of a run is handed to the agent twice by the loop, however
\* approve, reject and resume are interleaved and repeated (loop.py 141-147).
THEOREM AtMostOnce == Spec => []NoStepTwice
BY Invariance, PTL DEF IInv

\* A decision taken on a suspended action takes its session away, so it is
\* not taken twice (loop.py 130, 145, 166).
THEOREM DecisionConsumesSession == Spec => []SessionAwaitsDecision
BY Invariance, PTL DEF IInv

\* No two handlers ever continue the same run, nor one a run that is
\* suspended (loop.py 126-155, 241-254).
THEOREM RunsDoNotFork == Spec => []OnePlacePerRun
BY Invariance, PTL DEF IInv

\* Whatever reached the agent has its policy decision in the audit file and is
\* not denied (core/decision.py 17-52 before loop.py 147 and 257).
THEOREM NothingUndecidedRuns == Spec => []DispatchedWasDecided
BY Invariance, PTL DEF IInv

\* A dispatch made on approval finds its approval pending and its session held.
LEMMA ApprovedStep ==
  ASSUME IInv, [Next]_vars, NEW d \in dispatched' \ dispatched, d.via # NoApproval
  PROVE  approvals[d.via] = "pending" /\ Held(d.via) # {}
<1>1. PICK c \in Calls : \/ \E i \in Intentions : Allow(c, i)
                         \/ OperatorCalls(c)
  BY DEF Next, vars, Handle, ProposerAnswers, AgentAnswers, ProposerFails, ProposerFinishes,
         DecisionNotAudited, Deny, Suspend, ExecutionFails, ExecutionReturns, Tick, Restart
<1>2. ASSUME NEW i \in Intentions, Allow(c, i) PROVE FALSE
  BY <1>2 DEF Allow, Execute
<1>3. PICK t \in tickets : Resume(c, t) \/ \E hash \in Intentions : Approve(c, t, hash)
  BY <1>1, <1>2 DEF OperatorCalls, Reject
<1>4. PICK state \in ApprovalStates : /\ ResumeExecutes(c, t, state)
                                      /\ \/ state = approvals[t.id]
                                         \/ approvals[t.id] # "absent"
  BY <1>3 DEF Resume, Approve, ResumeFrom, ResumeFindsNoSession, ResumeRefused, ApprovalStates,
              IInv, TypeOK, Ticket
<1>5. PICK s \in Held(t.id) : Execute(c, s.run, s.step, s.results, t.intention, t.id)
  BY <1>4 DEF ResumeExecutes
<1>6. d.via = t.id
  BY <1>5 DEF Execute
<1>7. approvals[t.id] \in {"absent", "pending"}
  BY <1>5 DEF Held, IInv, SessionAwaitsDecision
<1> QED BY <1>4, <1>5, <1>6, <1>7 DEF ResumeExecutes

\* An approved action starts only from a pending approval of this process and
\* a session that is held (loop.py 105-147).
THEOREM ApprovedOnlyWhilePending == Spec => ApprovedFromPendingOnly
<1>1. IInv /\ [Next]_vars =>
        [\A d \in dispatched' \ dispatched :
           d.via # NoApproval => approvals[d.via] = "pending" /\ Held(d.via) # {}]_vars
  BY ApprovedStep
<1> QED BY <1>1, Invariance, PTL DEF Spec, ApprovedFromPendingOnly

\* A run makes at most max_steps agent calls, over all the handlers that
\* suspensions cut it into (loop.py 84, 155, 222).
LEMMA InvBoundsSteps == IInv => StepsAreBounded
<1> SUFFICES ASSUME IInv, NEW r \in Calls
             PROVE  Cardinality({d \in dispatched : d.run = r}) <= MaxSteps
  BY DEF StepsAreBounded
<1> DEFINE S == {d \in dispatched : d.run = r}
           steps == 0..(MaxSteps - 1)
           f == [d \in S |-> d.step]
<1>1. f \in [S -> steps]
  BY BoundsAssumption DEF IInv, TypeOK, Dispatch, StepsAreBehind
<1>2. \A d, e \in S : f[d] = f[e] => d = e
  BY DEF IInv, NoStepTwice
<1>3. f \in Injection(S, steps)
  BY <1>1, <1>2 DEF Injection, IsInjective
<1>4. IsFiniteSet(steps) /\ Cardinality(steps) = MaxSteps
  BY BoundsAssumption, FS_Interval
<1>5. Cardinality(S) <= Cardinality(steps)
  BY <1>3, <1>4, FS_Injection
<1> QED BY <1>4, <1>5

\* max_steps bounds a run, whatever number of times it is suspended.
THEOREM RunsAreBounded == Spec => []StepsAreBounded
BY Invariance, InvBoundsSteps, PTL

\* Where a run is, or was completed.
Places == sessions \cup {tasks[c] : c \in {c \in Calls : Active(c) \/ tasks[c].pc = "completed"}}

\* A place is a beginning, or follows an answer that was audited, or is at the
\* step where another one was.
Follows(y) ==
  \/ y.step = 0
  \/ \E x \in Places : y.run = x.run /\ y.step = x.step
  \/ \E c \in Calls : /\ ExecutionReturns(c)
                      /\ EntryOf(ExecutionEvent(tasks[c]), tasks[c]) \in audit'
                      /\ y.run = tasks[c].run /\ y.step = tasks[c].step + 1

\* A handler that replies, or continues a session, is at the step it was.
LEMMA TaskFollows ==
  ASSUME TypeOK, NEW c \in Calls, \A b \in Calls \ {c} : tasks'[b] = tasks[b],
         Active(c)' \/ tasks'[c].pc = "completed" => Follows(tasks'[c]),
         \A s \in sessions' : s \in sessions
  PROVE  \A y \in Places' : Follows(y)
<1>1. ASSUME NEW b \in Calls \ {c}, Active(b)' \/ tasks'[b].pc = "completed"
      PROVE  Follows(tasks'[b])
  BY <1>1 DEF Follows, Places, Active
<1>2. ASSUME NEW s \in sessions' PROVE Follows(s)
  BY <1>2 DEF Follows, Places
<1> QED BY <1>1, <1>2 DEF Places

\* No place comes from nowhere.
LEMMA PlacesFollow == IInv /\ [Next]_vars => \A y \in Places' : Follows(y)
<1> SUFFICES ASSUME IInv, [Next]_vars PROVE \A y \in Places' : Follows(y)
  OBVIOUS
<1>1. TypeOK
  BY DEF IInv
<1>2. ASSUME NEW c \in Calls, Handle(c) PROVE \A y \in Places' : Follows(y)
  <2>1. tasks'[c].step = 0 /\ \A b \in Calls \ {c} : tasks'[b] = tasks[b]
    BY <1>1, <1>2 DEF TypeOK, TasksOK, Handle, Enter, At
  <2> QED BY <1>1, <1>2, <2>1, TaskFollows DEF Follows, Handle
<1>3. ASSUME NEW c \in Calls, NEW outcome \in Replies, tasks' = Reply(c, outcome),
             outcome = "completed" => Active(c), \A s \in sessions' : s \in sessions
      PROVE  \A y \in Places' : Follows(y)
  <2>1. /\ tasks'[c] = At(outcome, tasks[c].run, tasks[c].step, tasks[c].results)
        /\ \A b \in Calls \ {c} : tasks'[b] = tasks[b]
    BY <1>1, <1>3 DEF TypeOK, TasksOK, Reply
  <2>2. Active(c)' \/ tasks'[c].pc = "completed" => Follows(tasks'[c])
    BY <1>3, <2>1 DEF Follows, Places, Active, Awaiting, Replies, At
  <2> QED BY <1>1, <1>3, <2>1, <2>2, TaskFollows
<1>4. ASSUME NEW c \in Calls, NEW x \in Places, NEW i, NEW id,
             Execute(c, x.run, x.step, x.results, i, id), \A s \in sessions' : s \in sessions
      PROVE  \A y \in Places' : Follows(y)
  <2>1. /\ tasks'[c].run = x.run /\ tasks'[c].step = x.step
        /\ \A b \in Calls \ {c} : tasks'[b] = tasks[b]
    BY <1>1, <1>4 DEF TypeOK, TasksOK, Execute
  <2>2. Follows(tasks'[c])
    BY <2>1 DEF Follows
  <2> QED BY <1>1, <1>4, <2>1, <2>2, TaskFollows
<1>5. ASSUME NEW c \in Calls, tasks[c].pc \in Awaiting PROVE tasks[c] \in Places
  BY <1>5 DEF Places, Active
<1>6. ASSUME NEW c \in Calls, ProposerAnswers(c) PROVE \A y \in Places' : Follows(y)
  <2>1. CASE ProposerFails(c) \/ ProposerFinishes(c) \/ DecisionNotAudited(c)
    BY <1>3, <2>1 DEF ProposerFails, ProposerFinishes, DecisionNotAudited, Replies,
                      Active, Awaiting
  <2>2. ASSUME NEW i \in Intentions, Deny(c, i) PROVE \A y \in Places' : Follows(y)
    BY <1>3, <2>2 DEF Deny, Replies
  <2>3. ASSUME NEW i \in Intentions, Allow(c, i) PROVE \A y \in Places' : Follows(y)
    <3>1. tasks[c] \in Places
      BY <1>5, <2>3 DEF Allow, Decide, Awaiting
    <3> QED BY <1>4, <2>3, <3>1 DEF Allow
  <2>4. ASSUME NEW i \in Intentions, NEW id \in Ids, Suspend(c, i, id)
        PROVE  \A y \in Places' : Follows(y)
    <3>1. tasks[c] \in Places
      BY <1>5, <2>4 DEF Suspend, Decide, Awaiting
    <3>2. ASSUME NEW s \in sessions' PROVE Follows(s)
      BY <2>4, <3>1, <3>2 DEF Suspend, Without, Follows, Places
    <3>3. /\ \A b \in Calls \ {c} : tasks'[b] = tasks[b]
          /\ tasks'[c].pc \in {"suspended", "raised"}
      BY <1>1, <2>4 DEF TypeOK, TasksOK, Suspend, Reply, At
    <3>4. ASSUME NEW b \in Calls, Active(b)' \/ tasks'[b].pc = "completed"
          PROVE  Follows(tasks'[b])
      <4>1. b # c
        BY <3>3, <3>4 DEF Active, Awaiting
      <4> QED BY <3>3, <3>4, <4>1 DEF Follows, Places, Active
    <3> QED BY <3>2, <3>4 DEF Places
  <2> QED BY <1>6, <2>1, <2>2, <2>3, <2>4 DEF ProposerAnswers
<1>7. ASSUME NEW c \in Calls, AgentAnswers(c) PROVE \A y \in Places' : Follows(y)
  <2>1. CASE ExecutionFails(c)
    BY <1>3, <2>1 DEF ExecutionFails, Replies
  <2>2. CASE ExecutionReturns(c) /\ tasks' = Reply(c, "raised")
    BY <1>3, <2>2 DEF ExecutionReturns, Replies
  <2>3. CASE /\ ExecutionReturns(c) /\ AuditWrites(EntryOf(ExecutionEvent(tasks[c]), tasks[c]))
             /\ tasks' = Enter(c, tasks[c].run, tasks[c].step + 1,
                                  Append(tasks[c].results, tasks[c].intention))
    <3>1. /\ tasks'[c].run = tasks[c].run /\ tasks'[c].step = tasks[c].step + 1
          /\ \A b \in Calls \ {c} : tasks'[b] = tasks[b]
      BY <1>1, <2>3 DEF TypeOK, TasksOK, Enter, At
    <3>2. Follows(tasks'[c])
      BY <2>3, <3>1 DEF Follows, AuditWrites
    <3>3. sessions' = sessions
      BY <2>3 DEF ExecutionReturns
    <3> QED BY <1>1, <3>1, <3>2, <3>3, TaskFollows
  <2> QED BY <1>7, <2>1, <2>2, <2>3 DEF AgentAnswers, ExecutionReturns
<1>8. ASSUME NEW c \in Calls, OperatorCalls(c) PROVE \A y \in Places' : Follows(y)
  <2>1. PICK t \in tickets : \/ \E state \in ApprovalStates : ResumeFrom(c, t, state)
                             \/ Reject(t)
    BY <1>1, <1>8 DEF OperatorCalls, Resume, Approve, ApprovalStates, TypeOK, Ticket
  <2>2. ASSUME NEW state \in ApprovalStates, ResumeExecutes(c, t, state)
        PROVE  \A y \in Places' : Follows(y)
    <3>1. PICK s \in Held(t.id) : Execute(c, s.run, s.step, s.results, t.intention, t.id)
      BY <2>2 DEF ResumeExecutes
    <3>2. s \in Places /\ \A r \in sessions' : r \in sessions
      BY <2>2, <3>1 DEF ResumeExecutes, Without, Held, Places
    <3> QED BY <1>4, <3>1, <3>2
  <2>3. ASSUME NEW state \in ApprovalStates,
               ResumeFindsNoSession(t, state) \/ ResumeRefused(t, state) \/ Reject(t)
        PROVE  \A y \in Places' : Follows(y)
    BY <2>3 DEF ResumeFindsNoSession, ResumeRefused, Reject, Without, Places, Follows, Active
  <2> QED BY <2>1, <2>2, <2>3 DEF ResumeFrom, ApprovalStates
<1>9. CASE Tick \/ Restart \/ UNCHANGED vars
  <2>1. \A c \in Calls : Active(c)' \/ tasks'[c].pc = "completed" => tasks'[c] = tasks[c]
    BY <1>9 DEF Tick, Restart, vars, Active, Awaiting, At
  <2>2. sessions' = sessions
    BY <1>9 DEF Tick, Restart, vars
  <2> QED BY <2>1, <2>2 DEF Places, Follows, Active
<1> QED BY <1>2, <1>6, <1>7, <1>8, <1>9 DEF Next

\* A call of the agent starts at a step that no dispatch of its run has reached.
LEMMA ExecutingIsNew ==
  ASSUME IInv, [Next]_vars, NEW c \in Calls, tasks'[c].pc = "executing"
  PROVE  \/ tasks'[c] = tasks[c]
         \/ \A d \in dispatched : d.run = tasks'[c].run => d.step < tasks'[c].step
<1> DEFINE New(b) == \A d \in dispatched : d.run = tasks'[b].run => d.step < tasks'[b].step
<1>1. TypeOK /\ StepsAreBehind
  BY DEF IInv
<1>2. ASSUME NEW b \in Calls, NEW x, NEW i, NEW id, Execute(b, x.run, x.step, x.results, i, id),
             \A d \in dispatched : d.run = x.run => d.step < x.step
      PROVE  tasks'[c] = tasks[c] \/ New(c)
  <2>1. /\ tasks'[b].run = x.run /\ tasks'[b].step = x.step
        /\ \A e \in Calls \ {b} : tasks'[e] = tasks[e]
    BY <1>1, <1>2 DEF TypeOK, TasksOK, Execute
  <2> QED BY <1>2, <2>1
<1>3. ASSUME NEW b \in Calls, tasks' = [tasks EXCEPT ![b] = tasks'[b]], tasks'[b].pc # "executing"
      PROVE  tasks'[c] = tasks[c]
  BY <1>1, <1>3 DEF TypeOK, TasksOK
<1>4. ASSUME NEW b \in Calls, NEW outcome \in Replies, tasks' = Reply(b, outcome)
      PROVE  tasks'[c] = tasks[c]
  <2>1. tasks'[b].pc = outcome /\ tasks' = [tasks EXCEPT ![b] = tasks'[b]]
    BY <1>1, <1>4 DEF TypeOK, TasksOK, Reply, At
  <2> QED BY <1>3, <2>1 DEF Replies
<1>5. ASSUME NEW b \in Calls, NEW run, NEW step, NEW results, tasks' = Enter(b, run, step, results)
      PROVE  tasks'[c] = tasks[c]
  <2>1. tasks'[b].pc \in {"proposing", "failed"} /\ tasks' = [tasks EXCEPT ![b] = tasks'[b]]
    BY <1>1, <1>5 DEF TypeOK, TasksOK, Enter, At
  <2> QED BY <1>3, <2>1
<1>6. ASSUME NEW b \in Calls, Handle(b) \/ ProposerAnswers(b) \/ AgentAnswers(b)
      PROVE  tasks'[c] = tasks[c] \/ New(c)
  <2>1. CASE Handle(b)
    BY <1>5, <2>1 DEF Handle
  <2>2. CASE ProposerFails(b) \/ ProposerFinishes(b) \/ DecisionNotAudited(b)
    BY <1>4, <2>2 DEF ProposerFails, ProposerFinishes, DecisionNotAudited, Replies
  <2>3. ASSUME NEW i \in Intentions, Deny(b, i) PROVE tasks'[c] = tasks[c]
    BY <1>4, <2>3 DEF Deny, Replies
  <2>4. ASSUME NEW i \in Intentions, Allow(b, i) PROVE tasks'[c] = tasks[c] \/ New(c)
    <3>1. \A d \in dispatched : d.run = tasks[b].run => d.step < tasks[b].step
      BY <1>1, <2>4 DEF StepsAreBehind, Allow, Decide, Active, Awaiting
    <3> QED BY <1>2, <2>4, <3>1 DEF Allow
  <2>5. ASSUME NEW i \in Intentions, NEW id \in Ids, Suspend(b, i, id) PROVE tasks'[c] = tasks[c]
    BY <1>4, <2>5 DEF Suspend, Replies
  <2>6. CASE AgentAnswers(b)
    BY <1>4, <1>5, <2>6 DEF AgentAnswers, ExecutionFails, ExecutionReturns, Replies
  <2> QED BY <1>6, <2>1, <2>2, <2>3, <2>4, <2>5, <2>6 DEF ProposerAnswers
<1>7. ASSUME NEW b \in Calls, OperatorCalls(b) PROVE tasks'[c] = tasks[c] \/ New(c)
  <2>1. PICK t \in tickets : \/ \E state \in ApprovalStates : ResumeFrom(b, t, state)
                             \/ Reject(t)
    BY <1>1, <1>7 DEF OperatorCalls, Resume, Approve, ApprovalStates, TypeOK, Ticket
  <2>2. ASSUME NEW state \in ApprovalStates, ResumeExecutes(b, t, state)
        PROVE  tasks'[c] = tasks[c] \/ New(c)
    <3>1. PICK s \in Held(t.id) : Execute(b, s.run, s.step, s.results, t.intention, t.id)
      BY <2>2 DEF ResumeExecutes
    <3>2. \A d \in dispatched : d.run = s.run => d.step < s.step
      BY <1>1, <3>1 DEF StepsAreBehind, Held
    <3> QED BY <1>2, <3>1, <3>2
  <2>3. ASSUME NEW state \in ApprovalStates,
               ResumeFindsNoSession(t, state) \/ ResumeRefused(t, state) \/ Reject(t)
        PROVE  tasks'[c] = tasks[c]
    BY <2>3 DEF ResumeFindsNoSession, ResumeRefused, Reject
  <2> QED BY <2>1, <2>2, <2>3 DEF ResumeFrom, ApprovalStates
<1>8. CASE Tick \/ Restart \/ UNCHANGED vars
  BY <1>8 DEF Tick, Restart, vars, At
<1> QED BY <1>6, <1>7, <1>8 DEF Next

\* An entry of an execution is added when its answer comes, and a run goes on
\* from an answer that was audited.
LEMMA AuditStep ==
  ASSUME IInv, AuditFollowsTheAnswers, [Next]_vars
  PROVE  AuditFollowsTheAnswers'
<1> DEFINE Executions == {"executed", "executed_after_approval"}
           Of(c) == [call |-> c, run |-> tasks[c].run, step |-> tasks[c].step,
                     intention |-> tasks[c].intention, via |-> tasks[c].via]
<1>1. dispatched \subseteq dispatched' /\ audit \subseteq audit'
  BY DEF Next, vars, Handle, ProposerAnswers, AgentAnswers, OperatorCalls, ProposerFails,
         ProposerFinishes, DecisionNotAudited, Deny, Allow, Suspend, Decide, ExecutionFails,
         ExecutionReturns, Resume, Approve, ResumeFrom, ResumeFindsNoSession, ResumeRefused,
         ResumeExecutes, Reject, Tick, Restart, Execute, AuditWrites, AuditRaises
<1>2. ASSUME NEW c \in Calls, ExecutionReturns(c)
      PROVE  /\ Of(c) \in dispatched /\ Active(c)
             /\ EntryOf(ExecutionEvent(Of(c)), Of(c)) = EntryOf(ExecutionEvent(tasks[c]), tasks[c])
  BY <1>2 DEF ExecutionReturns, IInv, StepsAreBehind, Active, Awaiting, EntryOf, ExecutionEvent
<1>3. ASSUME NEW y \in Places' PROVE IsAudited(y)'
  <2>1. Follows(y)
    BY <1>3, PlacesFollow
  <2>2. CASE y.step = 0
    BY <2>2 DEF IsAudited
  <2>3. ASSUME NEW x \in Places, y.run = x.run, y.step = x.step PROVE IsAudited(y)'
    <3>1. IsAudited(x)
      BY <2>3 DEF Places, AuditFollowsTheAnswers
    <3> QED BY <1>1, <2>3, <3>1 DEF IsAudited, EntryOf, ExecutionEvent
  <2>4. ASSUME NEW c \in Calls, ExecutionReturns(c),
               EntryOf(ExecutionEvent(tasks[c]), tasks[c]) \in audit',
               y.run = tasks[c].run, y.step = tasks[c].step + 1
        PROVE  IsAudited(y)'
    <3>1. Of(c) \in dispatched' /\ EntryOf(ExecutionEvent(Of(c)), Of(c)) \in audit'
      BY <1>1, <1>2, <2>4
    <3>2. IsAudited(tasks[c]) /\ tasks[c].step \in Nat
      BY <1>2, <2>4, TaskParts DEF AuditFollowsTheAnswers, IInv
    <3>3. ASSUME NEW k \in 1..y.step
          PROVE  \E d \in dispatched' : /\ d.run = y.run /\ d.step = k - 1
                                        /\ EntryOf(ExecutionEvent(d), d) \in audit'
      <4>1. CASE k \in 1..tasks[c].step
        BY <1>1, <2>4, <3>2, <4>1 DEF IsAudited
      <4>2. CASE k = tasks[c].step + 1
        BY <2>4, <3>1, <3>2, <4>2
      <4> QED BY <2>4, <3>2, <4>1, <4>2
    <3> QED BY <3>3 DEF IsAudited, EntryOf, ExecutionEvent
  <2> QED BY <2>1, <2>2, <2>3, <2>4 DEF Follows
<1>4. ASSUME NEW a \in audit' \ audit, a.event \in Executions
      PROVE  \E c \in Calls : ExecutionReturns(c) /\ a = EntryOf(ExecutionEvent(tasks[c]), tasks[c])
  <2>1. ASSUME NEW c \in Calls, ExecutionReturns(c)
        PROVE  a = EntryOf(ExecutionEvent(tasks[c]), tasks[c])
    BY <1>4, <2>1 DEF ExecutionReturns, AuditWrites, AuditRaises
  <2>2. CASE ~\E c \in Calls : ExecutionReturns(c)
    BY <1>4, <2>2 DEF Next, vars, Handle, ProposerAnswers, AgentAnswers, OperatorCalls,
         ProposerFails, ProposerFinishes, DecisionNotAudited, Deny, Allow, Suspend, Decide,
         ExecutionFails, Resume, Approve, ResumeFrom, ResumeFindsNoSession, ResumeRefused,
         ResumeExecutes, Reject, Tick, Restart, AuditWrites, AuditRaises, EntryOf
  <2> QED BY <2>1, <2>2
<1>5. ASSUME NEW a \in audit', a.event \in Executions
      PROVE  \E d \in dispatched' : EntryOf(ExecutionEvent(d), d) = a
  <2>1. CASE a \in audit
    BY <1>1, <1>5, <2>1 DEF AuditFollowsTheAnswers
  <2>2. CASE a \notin audit
    BY <1>1, <1>2, <1>4, <1>5, <2>2
  <2> QED BY <2>1, <2>2
<1>6. ASSUME NEW a \in audit', a.event \in Executions, NEW c \in Calls,
             tasks'[c].pc = "executing"
      PROVE  ~ (tasks'[c].run = a.run /\ tasks'[c].step = a.step)
  <2>1. CASE a \in audit /\ tasks'[c] = tasks[c]
    BY <1>6, <2>1 DEF AuditFollowsTheAnswers
  <2>2. CASE a \in audit /\ tasks'[c] # tasks[c]
    <3>1. PICK d \in dispatched : d.run = a.run /\ d.step = a.step
      BY <1>6, <2>2 DEF AuditFollowsTheAnswers, EntryOf
    <3>2. \A e \in dispatched : e.run = tasks'[c].run => e.step < tasks'[c].step
      BY <1>6, <2>2, ExecutingIsNew
    <3>3. d.step \in Nat
      BY DEF IInv, TypeOK, Dispatch
    <3> QED BY <3>1, <3>2, <3>3
  <2>3. CASE a \notin audit
    <3>1. PICK b \in Calls : /\ ExecutionReturns(b)
                             /\ a = EntryOf(ExecutionEvent(tasks[b]), tasks[b])
      BY <1>4, <1>6, <2>3
    <3>2. a.run = tasks[b].run /\ a.step = tasks[b].step /\ Active(b)
      BY <1>2, <3>1 DEF EntryOf
    <3>3. tasks'[b].pc # "executing" /\ \A e \in Calls \ {b} : tasks'[e] = tasks[e]
      BY <3>1 DEF ExecutionReturns, IInv, TypeOK, TasksOK, Enter, Reply, At
    <3>4. c # b /\ tasks'[c] = tasks[c] /\ Active(c)
      BY <1>6, <3>3 DEF Active, Awaiting
    <3> QED BY <3>2, <3>4 DEF IInv, OnePlacePerRun
  <2> QED BY <2>1, <2>2, <2>3
<1>7. \A s \in sessions' : IsAudited(s)'
  BY <1>3 DEF Places
<1>8. \A c \in Calls : (Active(c) \/ tasks[c].pc = "completed")' => IsAudited(tasks[c])'
  BY <1>3 DEF Places
<1> QED BY <1>5, <1>6, <1>7, <1>8 DEF AuditFollowsTheAnswers, EntryOf, ExecutionEvent

\* A run goes on only from executions that are in the audit file, under the
\* event of their kind, and the file has an entry only of a step that was asked
\* of the agent and is no longer awaited (loop.py 150-152 and 258-260).
THEOREM AuditIsInStep == Spec => []AuditFollowsTheAnswers
<1>1. Init => AuditFollowsTheAnswers
  BY DEF Init, AuditFollowsTheAnswers, At, Active, Awaiting
<1> QED BY <1>1, AuditStep, Invariance, PTL DEF Spec
=============================================================================
