------------------------------ MODULE GatedLoop ------------------------------
(***************************************************************************)
(* The gated ReAct loop of the coordinator (coordinator/loop.py) with the  *)
(* two stores it works on: the in-memory ApprovalStore                     *)
(* (core/approval/store.py) and the session files of                       *)
(* EncryptedFileSessionStore (coordinator/session.py).                     *)
(*                                                                         *)
(* The coordinator is one asyncio thread: a handler runs without being     *)
(* interleaved between two awaits, and the loop awaits in two places only, *)
(* the proposer (the LLM) and the agent call.  One action below is         *)
(* therefore the code between two awaits: what starts a handler, what      *)
(* follows the proposer's answer, what follows the agent's answer.         *)
(* reject() has no await and is one action.                                *)
(*                                                                         *)
(* A result is named by the intention whose execution produced it, and the *)
(* hash of an intention by the intention (SHA-256 of canonical JSON is     *)
(* taken to be injective).  `history' is the re-tokenised image of         *)
(* `results', built by the same two statements, and is not kept apart.     *)
(***************************************************************************)
EXTENDS Integers, Sequences, FiniteSets

CONSTANTS
  Calls,        \* handler invocations that may reach an await
  Ids,          \* approval ids: what id_factory (uuid4) can return
  Intentions,   \* intentions the proposer can emit, valid for the catalog
  Effect,       \* the policy's verdict on each intention
  MaxSteps,     \* max_steps of the loop
  SessionTtl,   \* session_ttl, in ticks of the clock
  MaxClock,     \* bound of the model: the last value of the clock
  Faults,       \* the faults that may occur, a subset of FaultKinds
  NoApproval,   \* the approval of an action that needed none
  NoIntention   \* the pending intention of a handler that has none

FaultKinds == {"crash", "audit", "session"}

ASSUME EffectAssumption ==
  Effect \in [Intentions -> {"allow", "approve", "deny"}]
ASSUME BoundsAssumption ==
  MaxSteps \in Nat /\ SessionTtl \in Nat \ {0} /\ MaxClock \in Nat
ASSUME FaultsAssumption == Faults \subseteq FaultKinds
ASSUME DistinctAssumption == NoApproval \notin Ids /\ NoIntention \notin Intentions

VARIABLES
  clock,        \* time.time()
  tasks,        \* the handler of each call, at the await where it is suspended
  approvals,    \* ApprovalStore: the state under each id, "absent" if not a key
  sessions,     \* the session files on disk
  tickets,      \* history: every approval request made (frozen fields of Approval)
  audit,        \* the audit file, each entry with the decision it is about
  dispatched    \* history: every action handed to the agent call

vars == <<clock, tasks, approvals, sessions, tickets, audit, dispatched>>

ApprovalStates == {"absent", "pending", "approved", "rejected", "executed"}
Awaiting == {"proposing", "executing"}
Replies == {"completed", "suspended", "denied", "failed", "raised", "lost"}
Events == {"policy_decision", "executed", "executed_after_approval",
           "resume_refuse", "rejected"}

Task == [pc : {"idle"} \cup Awaiting \cup Replies, run : Calls, step : Nat,
         results : Seq(Intentions), intention : Intentions \cup {NoIntention},
         via : Ids \cup {NoApproval}]
Session == [id : Ids, run : Calls, step : Nat, results : Seq(Intentions),
            expires : Nat]
Ticket == [id : Ids, run : Calls, step : Nat, intention : Intentions]
Entry == [event : Events, run : Calls, step : Nat, intention : Intentions]
Dispatch == [call : Calls, run : Calls, step : Nat, intention : Intentions,
             via : Ids \cup {NoApproval}]

(***************************************************************************)
(* Helpers                                                                 *)
(***************************************************************************)
Active(c) == tasks[c].pc \in Awaiting

EntryOf(event, t) ==
  [event |-> event, run |-> t.run, step |-> t.step, intention |-> t.intention]

\* A handler that has no intention in hand.
At(pc, run, step, results) ==
  [pc |-> pc, run |-> run, step |-> step, results |-> results,
   intention |-> NoIntention, via |-> NoApproval]

\* The reply of the handler of c: its locals are gone.
Reply(c, outcome) ==
  [tasks EXCEPT ![c] = At(outcome, tasks[c].run, tasks[c].step, tasks[c].results)]

\* Mutant of Enter: the bound is tested with <=.
Enter_OffByOne(c, run, step, results) ==
  [tasks EXCEPT ![c] =
     At(IF step <= MaxSteps THEN "proposing" ELSE "failed", run, step, results)]

\* `while step < self._max_steps': ask the proposer, or give up.
Enter(c, run, step, results) ==
  [tasks EXCEPT ![c] =
     At(IF step < MaxSteps THEN "proposing" ELSE "failed", run, step, results)]

\* The handler hands an intention to the agent and awaits the answer.
Execute(c, run, step, results, i, id) ==
  /\ tasks' = [tasks EXCEPT ![c] =
                 [pc |-> "executing", run |-> run, step |-> step, results |-> results,
                  intention |-> i, via |-> id]]
  /\ dispatched' = dispatched \cup
       {[call |-> c, run |-> run, step |-> step, intention |-> i, via |-> id]}

\* sessions.get returns only what has not expired.
Live(s) == s.expires > clock
Held(id) == {s \in sessions : s.id = id /\ Live(s)}

\* sessions.delete, and the purge of an expired session that is read.
Without(id) == {s \in sessions : s.id # id}

\* sink.write raises (disk full, rotation failure): the entry is not written.
AuditWrites(entry) == audit' = audit \cup {entry}
AuditRaises == "audit" \in Faults /\ UNCHANGED audit

(***************************************************************************)
(* handle(): tokenise, then ask the proposer for the first action.         *)
(***************************************************************************)
Handle(c) ==
  /\ tasks[c].pc = "idle"
  /\ tasks' = Enter(c, c, 0, <<>>)
  /\ UNCHANGED <<clock, approvals, sessions, tickets, audit, dispatched>>

(***************************************************************************)
(* What _run does with the proposer's answer.                              *)
(***************************************************************************)

\* ProposerError becomes Failed; any other exception of the LLM client escapes.
ProposerFails(c) ==
  /\ tasks[c].pc = "proposing"
  /\ \E outcome \in {"failed", "raised"} : tasks' = Reply(c, outcome)
  /\ UNCHANGED <<clock, approvals, sessions, tickets, audit, dispatched>>

ProposerFinishes(c) ==
  /\ tasks[c].pc = "proposing"
  /\ tasks' = Reply(c, "completed")
  /\ UNCHANGED <<clock, approvals, sessions, tickets, audit, dispatched>>

\* decide() cannot write its audit entry: nothing else happens.
DecisionNotAudited(c) ==
  /\ tasks[c].pc = "proposing"
  /\ AuditRaises
  /\ tasks' = Reply(c, "raised")
  /\ UNCHANGED <<clock, approvals, sessions, tickets, dispatched>>

\* Mutant of Decide: an audit entry that cannot be written is ignored.
Decide_AuditBestEffort(c, i, effect) ==
  /\ tasks[c].pc = "proposing"
  /\ Effect[i] = effect
  /\ \/ AuditWrites([event |-> "policy_decision", run |-> tasks[c].run,
                      step |-> tasks[c].step, intention |-> i])
     \/ AuditRaises

\* decide(): the verdict on intention i, audited before it is acted upon.
Decide(c, i, effect) ==
  /\ tasks[c].pc = "proposing"
  /\ Effect[i] = effect
  /\ AuditWrites([event |-> "policy_decision", run |-> tasks[c].run,
                  step |-> tasks[c].step, intention |-> i])

Deny(c, i) ==
  /\ Decide(c, i, "deny")
  /\ tasks' = Reply(c, "denied")
  /\ UNCHANGED <<clock, approvals, sessions, tickets, dispatched>>

Allow(c, i) ==
  /\ Decide(c, i, "allow")
  /\ Execute(c, tasks[c].run, tasks[c].step, tasks[c].results, i, NoApproval)
  /\ UNCHANGED <<clock, approvals, sessions, tickets>>

\* Mutant of Suspend: the session is saved at the step that follows.
Suspend_SavesNextStep(c, i, id) ==
  /\ Decide(c, i, "approve")
  /\ \A t \in tickets : t.id # id
  /\ tickets' = tickets \cup
       {[id |-> id, run |-> tasks[c].run, step |-> tasks[c].step, intention |-> i]}
  /\ approvals' = [approvals EXCEPT ![id] = "pending"]
  /\ sessions' = Without(id) \cup
       {[id |-> id, run |-> tasks[c].run, step |-> tasks[c].step + 1,
         results |-> tasks[c].results, expires |-> clock + SessionTtl]}
  /\ tasks' = Reply(c, "suspended")
  /\ UNCHANGED <<clock, dispatched>>

\* approvals.create under an id never returned before (uuid4).
Suspend(c, i, id) ==
  /\ Decide(c, i, "approve")
  /\ \A t \in tickets : t.id # id
  /\ tickets' = tickets \cup
       {[id |-> id, run |-> tasks[c].run, step |-> tasks[c].step, intention |-> i]}
  /\ approvals' = [approvals EXCEPT ![id] = "pending"]
  /\ \/ /\ sessions' = Without(id) \cup
             {[id |-> id, run |-> tasks[c].run, step |-> tasks[c].step,
               results |-> tasks[c].results, expires |-> clock + SessionTtl]}
        /\ tasks' = Reply(c, "suspended")
     \/ /\ "session" \in Faults   \* sessions.save raises after approvals.create
        /\ UNCHANGED sessions
        /\ tasks' = Reply(c, "raised")
  /\ UNCHANGED <<clock, dispatched>>

(***************************************************************************)
(* What follows the agent's answer, in _run and in resume().               *)
(***************************************************************************)
\* Mutant of ExecutionFails: the proposer is asked again at the same step.
ExecutionFails_AsksAgain(c) ==
  /\ tasks[c].pc = "executing"
  /\ tasks' = Enter(c, tasks[c].run, tasks[c].step, tasks[c].results)
  /\ UNCHANGED <<clock, approvals, sessions, tickets, audit, dispatched>>

ExecutionFails(c) ==
  /\ tasks[c].pc = "executing"
  /\ tasks' = Reply(c, "failed")
  /\ UNCHANGED <<clock, approvals, sessions, tickets, audit, dispatched>>

\* The event of an execution, of an action that was approved or not.
ExecutionEvent(d) == IF d.via = NoApproval THEN "executed" ELSE "executed_after_approval"

\* Mutant of ExecutionReturns: an audit entry that cannot be written is ignored.
ExecutionReturns_AuditBestEffort(c) ==
  /\ tasks[c].pc = "executing"
  /\ AuditWrites(EntryOf(ExecutionEvent(tasks[c]), tasks[c])) \/ AuditRaises
  /\ tasks' = Enter(c, tasks[c].run, tasks[c].step + 1,
                    Append(tasks[c].results, tasks[c].intention))
  /\ UNCHANGED <<clock, approvals, sessions, tickets, dispatched>>

\* The result is audited, kept, and the loop goes on at the next step.
ExecutionReturns(c) ==
  /\ tasks[c].pc = "executing"
  /\ \/ /\ AuditWrites(EntryOf(ExecutionEvent(tasks[c]), tasks[c]))
        /\ tasks' = Enter(c, tasks[c].run, tasks[c].step + 1,
                          Append(tasks[c].results, tasks[c].intention))
     \/ /\ AuditRaises
        /\ tasks' = Reply(c, "raised")
  /\ UNCHANGED <<clock, approvals, sessions, tickets, dispatched>>

(***************************************************************************)
(* The operator's decision on a suspended action.  `state' is the state of *)
(* the approval that resume() finds.                                       *)
(***************************************************************************)

\* No session, or an expired one, which reading it deletes.
ResumeFindsNoSession(t, state) ==
  /\ Held(t.id) = {}
  /\ sessions' = Without(t.id)
  /\ approvals' = [approvals EXCEPT ![t.id] = state]
  /\ UNCHANGED <<clock, tasks, tickets, audit, dispatched>>

\* grant_approved raises NotAuthorized: audited, the session stays.
ResumeRefused(t, state) ==
  /\ Held(t.id) # {}
  /\ state \notin {"absent", "approved"}
  /\ AuditWrites(EntryOf("resume_refuse", t)) \/ AuditRaises
  /\ UNCHANGED <<clock, tasks, approvals, sessions, tickets, dispatched>>

\* Mutant of ResumeExecutes: nothing is consumed before the call.
ResumeExecutes_ConsumesLater(c, t, state) ==
  /\ tasks[c].pc = "idle"
  /\ state = "approved"
  /\ \E s \in Held(t.id) : Execute(c, s.run, s.step, s.results, t.intention, t.id)
  /\ UNCHANGED <<clock, approvals, sessions, tickets, audit>>

\* Mutant of ResumeExecutes: the approval is consumed, the session stays.
ResumeExecutes_KeepsSession(c, t, state) ==
  /\ tasks[c].pc = "idle"
  /\ state = "approved"
  /\ approvals' = [approvals EXCEPT ![t.id] = "executed"]
  /\ \E s \in Held(t.id) : Execute(c, s.run, s.step, s.results, t.intention, t.id)
  /\ UNCHANGED <<clock, sessions, tickets, audit>>

\* Mutant of ResumeExecutes: the results before the suspension are dropped.
ResumeExecutes_ForgetsResults(c, t, state) ==
  /\ tasks[c].pc = "idle"
  /\ state = "approved"
  /\ approvals' = [approvals EXCEPT ![t.id] = "executed"]
  /\ sessions' = Without(t.id)
  /\ \E s \in Held(t.id) : Execute(c, s.run, s.step, <<>>, t.intention, t.id)
  /\ UNCHANGED <<clock, tickets, audit>>

\* The approval is consumed and the session deleted before the call is made.
ResumeExecutes(c, t, state) ==
  /\ tasks[c].pc = "idle"
  /\ state = "approved"
  /\ approvals' = [approvals EXCEPT ![t.id] = "executed"]
  /\ sessions' = Without(t.id)
  /\ \E s \in Held(t.id) : Execute(c, s.run, s.step, s.results, t.intention, t.id)
  /\ UNCHANGED <<clock, tickets, audit>>

ResumeFrom(c, t, state) ==
  \/ ResumeFindsNoSession(t, state)
  \/ ResumeRefused(t, state)
  \/ ResumeExecutes(c, t, state)

Resume(c, t) == ResumeFrom(c, t, approvals[t.id])

\* approve() looks at the hash only, never at the state it overwrites, then
\* calls resume() with no await between them.
Approve(c, t, hash) ==
  /\ approvals[t.id] # "absent"
  /\ hash = t.intention
  /\ ResumeFrom(c, t, "approved")

\* Mutant of Reject: the session is not deleted.
Reject_KeepsSession(t) ==
  /\ approvals[t.id] # "absent"
  /\ approvals' = [approvals EXCEPT ![t.id] = "rejected"]
  /\ AuditWrites(EntryOf("rejected", t)) \/ AuditRaises
  /\ UNCHANGED <<clock, tasks, sessions, tickets, dispatched>>

\* Mutant of Reject: a reject that comes too late records an expiry, the
\* state the store declares and nothing else ever reads.
Reject_RecordsExpiry(t) ==
  /\ approvals[t.id] # "absent"
  /\ approvals' = [approvals EXCEPT ![t.id] = IF Held(t.id) = {} THEN "expired" ELSE "rejected"]
  /\ sessions' = Without(t.id)
  /\ AuditWrites(EntryOf("rejected", t)) \/ AuditRaises
  /\ UNCHANGED <<clock, tasks, tickets, dispatched>>

\* reject() does not look at the state either.
Reject(t) ==
  /\ approvals[t.id] # "absent"
  /\ approvals' = [approvals EXCEPT ![t.id] = "rejected"]
  /\ sessions' = Without(t.id)
  /\ AuditWrites(EntryOf("rejected", t)) \/ AuditRaises
  /\ UNCHANGED <<clock, tasks, tickets, dispatched>>

(***************************************************************************)
(* The environment                                                         *)
(***************************************************************************)
Tick ==
  /\ clock < MaxClock
  /\ clock' = clock + 1
  /\ UNCHANGED <<tasks, approvals, sessions, tickets, audit, dispatched>>

\* The process stops and is started again: the coroutines and the
\* ApprovalStore are gone, the session files and the audit file are not.
Restart ==
  /\ "crash" \in Faults
  /\ tasks' = [c \in Calls |->
                 IF Active(c)
                 THEN At("lost", tasks[c].run, tasks[c].step, tasks[c].results)
                 ELSE tasks[c]]
  /\ approvals' = [id \in Ids |-> "absent"]
  /\ UNCHANGED <<clock, sessions, tickets, audit, dispatched>>

(***************************************************************************)
(* Specification                                                           *)
(***************************************************************************)
Init ==
  /\ clock = 0
  /\ tasks = [c \in Calls |-> At("idle", c, 0, <<>>)]
  /\ approvals = [id \in Ids |-> "absent"]
  /\ sessions = {}
  /\ tickets = {}
  /\ audit = {}
  /\ dispatched = {}

ProposerAnswers(c) ==
  \/ ProposerFails(c)
  \/ ProposerFinishes(c)
  \/ DecisionNotAudited(c)
  \/ \E i \in Intentions : Deny(c, i) \/ Allow(c, i)
  \/ \E i \in Intentions, id \in Ids : Suspend(c, i, id)

AgentAnswers(c) == ExecutionFails(c) \/ ExecutionReturns(c)

OperatorCalls(c) ==
  \E t \in tickets :
    \/ Resume(c, t)
    \/ \E hash \in Intentions : Approve(c, t, hash)
    \/ Reject(t)

Next ==
  \/ \E c \in Calls : Handle(c) \/ ProposerAnswers(c) \/ AgentAnswers(c) \/ OperatorCalls(c)
  \/ Tick
  \/ Restart

Spec == Init /\ [][Next]_vars

\* The LLM client and the agent client both bound their calls in time: an
\* await ends, with an answer or an exception.  Nothing makes the operator
\* or the client act.
Fairness == \A c \in Calls : WF_vars(ProposerAnswers(c)) /\ WF_vars(AgentAnswers(c))

FairSpec == Spec /\ Fairness /\ WF_vars(Tick)

-----------------------------------------------------------------------------
(***************************************************************************)
(* Properties                                                              *)
(***************************************************************************)

\* A handler that awaits the agent has an intention in hand.
TasksOK ==
  /\ tasks \in [Calls -> Task]
  /\ \A c \in Calls : tasks[c].pc = "executing" => tasks[c].intention \in Intentions

\* Every variable keeps the shape its Python counterpart has (pydantic
\* models, dicts and files), and the clock only counts up to its bound.
TypeOK ==
  /\ clock \in 0..MaxClock
  /\ TasksOK
  /\ approvals \in [Ids -> ApprovalStates]
  /\ sessions \subseteq Session
  /\ tickets \subseteq Ticket
  /\ audit \subseteq Entry
  /\ dispatched \subseteq Dispatch

\* The step of a run is handed to the agent at most once, whoever asks for it
\* and however often: "un ban n'est pas idempotent, il ne doit jamais
\* s'executer deux fois" (loop.py, the comment above mark_executed).
NoStepTwice ==
  \A d, e \in dispatched : d.run = e.run /\ d.step = e.step => d = e

\* A session on disk never lies beside an approval that is already approved,
\* rejected or executed: whoever decides takes the session away, so the
\* decision cannot be replayed (resume() and reject() against approve()).
SessionAwaitsDecision ==
  \A s \in sessions : approvals[s.id] \in {"absent", "pending"}

\* A run is in one place at a time: two handlers, two sessions, or a handler
\* and a session, are never at work for the same run.
OnePlacePerRun ==
  /\ \A c, d \in Calls : Active(c) /\ Active(d) /\ tasks[c].run = tasks[d].run => c = d
  /\ \A s, t \in sessions : s.run = t.run => s = t
  /\ \A s \in sessions, c \in Calls : Active(c) => tasks[c].run # s.run

\* What reached the agent was first decided and written to the audit file: an
\* action run without a human is one the policy allows, the others are ones
\* the policy sends to approval; none is denied (decide() before execute()).
DispatchedWasDecided ==
  \A d \in dispatched :
    /\ EntryOf("policy_decision", d) \in audit
    /\ Effect[d.intention] = IF d.via = NoApproval THEN "allow" ELSE "approve"

\* The results a run carries, through suspensions and resumptions and up to
\* its completion, are those of its own executions, one per step, in order.
CarriesItsResults(x) ==
  /\ Len(x.results) = x.step
  /\ \A k \in 1..x.step : \E d \in dispatched :
       d.run = x.run /\ d.step = k - 1 /\ d.intention = x.results[k]

ResultsAreTheExecutions ==
  /\ \A s \in sessions : CarriesItsResults(s)
  /\ \A c \in Calls :
       Active(c) \/ tasks[c].pc = "completed" => CarriesItsResults(tasks[c])

\* Every step behind x was handed to the agent and is in the audit file.
IsAudited(x) ==
  \A k \in 1..x.step : \E d \in dispatched :
    d.run = x.run /\ d.step = k - 1 /\ EntryOf(ExecutionEvent(d), d) \in audit

\* A run goes on, or is completed, only when each of its executions is in the
\* audit file, under the event of its kind; and the file has no entry of an
\* execution that was not asked of the agent or is still awaited (loop.py
\* 150-152, 258-260).  The answer itself is not looked at by the code: a result
\* that reports API_UNREACHABLE or MISSING_ARG is an execution of the file.
AuditFollowsTheAnswers ==
  /\ \A s \in sessions : IsAudited(s)
  /\ \A c \in Calls : Active(c) \/ tasks[c].pc = "completed" => IsAudited(tasks[c])
  /\ \A a \in audit : a.event \in {"executed", "executed_after_approval"} =>
       /\ \E d \in dispatched : EntryOf(ExecutionEvent(d), d) = a
       /\ \A c \in Calls : tasks[c].pc = "executing" =>
            ~ (tasks[c].run = a.run /\ tasks[c].step = a.step)

\* A run never makes more agent calls than max_steps, in whatever number of
\* handlers it was cut by suspensions (resume() continues at step + 1).
StepsAreBounded ==
  \A r \in Calls : Cardinality({d \in dispatched : d.run = r}) <= MaxSteps

\* An approved action starts only while its approval is pending in this
\* process and its session is held and not expired: not after a reject, not
\* after a first approve, not after a restart, not after the time to live.
ApprovedFromPendingOnly ==
  [][\A d \in dispatched' \ dispatched :
       d.via # NoApproval => approvals[d.via] = "pending" /\ Held(d.via) # {}]_vars

\* A handler that awaits ends, one that was resumed too: completed, suspended,
\* denied, failed or raised (the while loop is bounded and each await ends).
CallsEnd == \A c \in Calls : Active(c) ~> (tasks[c].pc \in Replies)

\* The README (346) says of POST /coordinator/reject "the run ends denied,
\* nothing executes" and reject() (loop.py:158) "aucune execution": an
\* approval that ends up rejected had no execution.  The code rejects
\* whatever the state is, an action under way or done included.
RejectedNeverRan ==
  \A t \in tickets : approvals[t.id] = "rejected" => \A d \in dispatched : d.via # t.id

\* The README (436-437) says that a human resumes a suspended run "with POST
\* /coordinator/resume/{approval_id} (executes)": resuming a pending action
\* whose session is held is not refused.  The code refuses every one of them.
ResumeIsNotRefused ==
  [][\A t \in tickets :
       EntryOf("resume_refuse", t) \in audit' \ audit => approvals[t.id] # "pending"]_vars

(***************************************************************************)
(* The inductive invariant: what has to be added to the properties above   *)
(* for each step to preserve them.                                         *)
(***************************************************************************)

\* A request's id is its call, and leaves no trace before it is handled.
IdleIsFresh ==
  \A c \in Calls : tasks[c].pc = "idle" =>
    /\ \A d \in dispatched : d.run # c /\ d.call # c
    /\ \A s \in sessions : s.run # c
    /\ \A b \in Calls : Active(b) => tasks[b].run # c

\* An approval id names one request, and an approval or a session one of them.
TicketsNameSessions ==
  /\ \A t, u \in tickets : t.id = u.id => t = u
  /\ \A id \in Ids : approvals[id] # "absent" => \E t \in tickets : t.id = id
  /\ \A s \in sessions : \E t \in tickets : t.id = s.id /\ t.run = s.run /\ t.step = s.step

\* An execution made on approval is the one its request was about.
DispatchesNameTickets ==
  \A d \in dispatched : d.via # NoApproval =>
    \E t \in tickets : /\ t.id = d.via /\ t.run = d.run /\ t.step = d.step
                       /\ t.intention = d.intention

\* Wherever a run is, its earlier steps are behind it.
StepsAreBehind ==
  /\ \A s \in sessions, d \in dispatched : d.run = s.run => d.step < s.step
  /\ \A c \in Calls, d \in dispatched : Active(c) /\ d.run = tasks[c].run =>
       \/ d.step < tasks[c].step
       \/ /\ tasks[c].pc = "executing"
          /\ d = [call |-> c, run |-> tasks[c].run, step |-> tasks[c].step,
                  intention |-> tasks[c].intention, via |-> tasks[c].via]
  /\ \A c \in Calls : tasks[c].pc = "executing" =>
       [call |-> c, run |-> tasks[c].run, step |-> tasks[c].step,
        intention |-> tasks[c].intention, via |-> tasks[c].via] \in dispatched
  /\ \A s \in sessions : s.step < MaxSteps
  /\ \A c \in Calls : Active(c) => tasks[c].step < MaxSteps
  /\ \A d \in dispatched : d.step < MaxSteps

\* What an operator is asked about was decided, audited and gated.
TicketsWereDecided ==
  \A t \in tickets : EntryOf("policy_decision", t) \in audit /\ Effect[t.intention] = "approve"

IInv ==
  /\ TypeOK
  /\ SessionAwaitsDecision
  /\ OnePlacePerRun
  /\ NoStepTwice
  /\ IdleIsFresh
  /\ TicketsNameSessions
  /\ DispatchesNameTickets
  /\ StepsAreBehind
  /\ TicketsWereDecided
  /\ DispatchedWasDecided

(***************************************************************************)
(* The loop keeps the promise of ApprovalGate.  An offer is open while its *)
(* approval is pending in this process and its session is held and has not *)
(* expired; from its release on it is released whatever becomes of it.     *)
(***************************************************************************)
Released(id) == \E d \in dispatched : d.via = id
Open(id) == Held(id) # {} /\ approvals[id] = "pending"
Named(id) == \E t \in tickets : t.id = id
Made == {[run |-> d.run, step |-> d.step, intention |-> d.intention] : d \in dispatched}

Standing(id) ==
  IF Released(id) THEN "released"
  ELSE IF Open(id) THEN "open"
  ELSE IF Named(id) THEN "closed" ELSE "unused"

Gate == INSTANCE ApprovalGate WITH
  Runs <- Calls,
  Offers <- Ids,
  Free <- {i \in Intentions : Effect[i] = "allow"},
  Gated <- {i \in Intentions : Effect[i] = "approve"},
  offered <- tickets,
  standing <- [id \in Ids |-> Standing(id)],
  done <- Made

\* Every behaviour of the loop is, action by action, one the gate allows:
\* what an operator is promised holds with concurrent decisions, expiry,
\* restarts and failing writes.
ImplementsGate == Gate!Spec
=============================================================================
