------------------------------- MODULE ToolCall -------------------------------
(***************************************************************************)
(* One call of an agent function across two processes: the retries of      *)
(* ToolAgentClient._post_execute (coordinator/clients/tool_agent_client.py)*)
(* and the handlers of POST /agent/execute (server.py) that serve each     *)
(* attempt with execute() or execute_direct() (agents/base.py).            *)
(*                                                                         *)
(* An attempt the client has given up is not cancelled: its request may    *)
(* still be delivered, its handler goes on.  A handler is cut where it     *)
(* awaits: the inference (natural mode) and the function itself, which     *)
(* calls the device.                                                       *)
(*                                                                         *)
(* A request is abstracted to what its handling depends on: its mode, the  *)
(* agents in the order the server tries them (the classified one first;    *)
(* the only one in structured mode), whether that agent has the function   *)
(* and its arguments, and whether an argument is not a string once coerced.*)
(***************************************************************************)
EXTENDS Integers, Sequences, FiniteSets

CONSTANTS
  Calls,        \* calls of execute and execute_structured
  Agents,       \* the agents of the server
  Requests,     \* the requests the calls may make
  MaxRetries,   \* _MAX_RETRIES
  NoRequest     \* the request of a call that was not made

Modes == {"structured", "natural"}

ASSUME RequestsAssumption ==
  \A r \in Requests :
    /\ r.mode \in Modes
    /\ r.order \in Seq(Agents) /\ r.order # <<>>
    /\ r.mode = "structured" => Len(r.order) = 1
    /\ r.accepted \in BOOLEAN /\ r.typed \in BOOLEAN
ASSUME RetriesAssumption == MaxRetries \in Nat
ASSUME NoRequestAssumption == NoRequest \notin Requests

VARIABLES
  client,       \* the coroutine of each call
  handlers,     \* the request and the server's handler of each attempt
  started,      \* history: every function started, by call, attempt and position
  returned      \* history: those that returned without an exception

vars == <<client, handlers, started, returned>>

Attempts == 1..(MaxRetries + 1)
\* What a reply carries: success, the error codes told apart by the client,
\* or a body that is not an AgentExecuteResponse (an error 500).
Answers == {"ok", "unreachable", "denied", "error", "malformed"}
\* How a call ends: the response is returned (its success or its error), or
\* an exception is raised to the caller.
Outcomes == {"ok", "error", "raised"}

Client == [pc : {"idle", "waiting", "backoff", "ended"}, request : Requests \cup {NoRequest},
           attempt : 0..(MaxRetries + 1), abandoned : SUBSET Attempts,
           outcome : Outcomes \cup {"none"}]
Handler == [pc : {"unsent", "sent", "inferring", "running", "answered", "stopped"},
            at : Nat \ {0}, answer : Answers \cup {"none"}]
Start == [call : Calls, attempt : Attempts, at : Nat \ {0}]

\* The handler of attempt n goes on to pc, at the agent of position at.
Handle(c, n, pc, at, answer) ==
  handlers' = [handlers EXCEPT ![c][n] = [pc |-> pc, at |-> at, answer |-> answer]]

(***************************************************************************)
(* The client                                                              *)
(***************************************************************************)
Current(c) == handlers[c][client[c].attempt]

Move(c, pc, request, attempt, abandoned, outcome) ==
  client' = [client EXCEPT ![c] =
    [pc |-> pc, request |-> request, attempt |-> attempt, abandoned |-> abandoned,
     outcome |-> outcome]]

Ends(c, outcome, abandoned) ==
  Move(c, "ended", client[c].request, client[c].attempt, abandoned, outcome)

\* asyncio.sleep, before attempt n + 1.
BacksOff(c, n, abandoned) ==
  Move(c, "backoff", client[c].request, n, abandoned, "none")

\* Mutant of Retry: one attempt more than _MAX_RETRIES + 1.
Retry_OffByOne(c, abandoned, outcome) ==
  IF client[c].attempt <= MaxRetries + 1
  THEN BacksOff(c, client[c].attempt, abandoned)
  ELSE Ends(c, outcome, abandoned)

\* Mutant of Retry: every retry is the first one.
Retry_NeverCounts(c, abandoned, outcome) ==
  BacksOff(c, 0, abandoned)

\* Sleep and try again, while there are attempts left.
Retry(c, abandoned, outcome) ==
  IF client[c].attempt <= MaxRetries
  THEN BacksOff(c, client[c].attempt, abandoned)
  ELSE Ends(c, outcome, abandoned)

Post(c, request) ==
  LET n == client[c].attempt + 1 IN
  /\ Move(c, "waiting", request, n, client[c].abandoned, "none")
  /\ Handle(c, n, "sent", 1, "none")
  /\ UNCHANGED <<started, returned>>

Call(c, request) == client[c].pc = "idle" /\ Post(c, request)

Resend(c) == client[c].pc = "backoff" /\ Post(c, client[c].request)

\* httpx.TimeoutException, whatever became of the request.
TimesOut(c) ==
  /\ client[c].pc = "waiting"
  /\ Retry(c, client[c].abandoned \cup {client[c].attempt}, "raised")
  /\ UNCHANGED <<handlers, started, returned>>

\* Any other httpx error (connection refused or reset) is not caught.
ConnectionBreaks(c) ==
  /\ client[c].pc = "waiting"
  /\ Ends(c, "raised", client[c].abandoned \cup {client[c].attempt})
  /\ UNCHANGED <<handlers, started, returned>>

\* Mutant of Receive: any error is worth a retry.
Receive_RetriesErrors(c) ==
  /\ client[c].pc = "waiting"
  /\ Current(c).pc = "answered"
  /\ \/ /\ Current(c).answer \in {"unreachable", "error"}
        /\ Retry(c, client[c].abandoned, "error")
     \/ Current(c).answer \in {"denied", "malformed"} /\ Ends(c, "raised", client[c].abandoned)
     \/ Current(c).answer = "ok" /\ Ends(c, "ok", client[c].abandoned)
  /\ UNCHANGED <<handlers, started, returned>>

\* Mutant of Receive: the answer of an earlier attempt is taken for this one's.
Receive_AnyAttempt(c) ==
  /\ client[c].pc = "waiting"
  /\ \E n \in 1..client[c].attempt :
       /\ handlers[c][n].pc = "answered"
       /\ handlers[c][n].answer \in {"ok", "error"}
       /\ Ends(c, handlers[c][n].answer, client[c].abandoned)
  /\ UNCHANGED <<handlers, started, returned>>

\* The answer of the attempt that is awaited.  API_UNREACHABLE is retried and
\* returned as it is when no attempt is left; PERMISSION_DENIED and a body
\* that does not parse raise; success and the other errors are returned.
Receive(c) ==
  /\ client[c].pc = "waiting"
  /\ Current(c).pc = "answered"
  /\ \/ Current(c).answer = "unreachable" /\ Retry(c, client[c].abandoned, "error")
     \/ Current(c).answer \in {"denied", "malformed"} /\ Ends(c, "raised", client[c].abandoned)
     \/ Current(c).answer \in {"ok", "error"} /\ Ends(c, Current(c).answer, client[c].abandoned)
  /\ UNCHANGED <<handlers, started, returned>>

(***************************************************************************)
(* The server: the handler of attempt n of call c                          *)
(***************************************************************************)
Request(c) == client[c].request
Natural(c) == Request(c).mode = "natural"

Answer(c, n, answer) == Handle(c, n, "answered", handlers[c][n].at, answer)

\* AgentExecuteResponse cannot be built around an argument that is not a string.
Shown(c, answer) == IF Request(c).typed THEN "malformed" ELSE answer

\* The next agent of priority_list, or FUNCTION_UNKNOWN after the last one.
NextAgent(c, n) ==
  IF handlers[c][n].at < Len(Request(c).order)
  THEN Handle(c, n, "inferring", handlers[c][n].at + 1, "none")
  ELSE Answer(c, n, "error")

\* The agent calls its function.
StartFunction(c, n) ==
  /\ Handle(c, n, "running", handlers[c][n].at, "none")
  /\ started' = started \cup {[call |-> c, attempt |-> n, at |-> handlers[c][n].at]}

\* execute_command is entered.  Structured: the function is started, or the
\* agent refuses it (unknown function, bad or missing argument).  In either
\* mode the route may refuse the request (401, 422): no AgentExecuteResponse.
Deliver(c, n) ==
  /\ handlers[c][n].pc = "sent"
  /\ \/ /\ Natural(c)
        /\ Handle(c, n, "inferring", handlers[c][n].at, "none")
        /\ UNCHANGED started
     \/ /\ ~Natural(c) /\ Request(c).accepted
        /\ StartFunction(c, n)
     \/ /\ ~Natural(c) /\ ~Request(c).accepted
        /\ \E answer \in {"error", Shown(c, "error")} : Answer(c, n, answer)
        /\ UNCHANGED started
     \/ Answer(c, n, "malformed") /\ UNCHANGED started
  /\ UNCHANGED <<client, returned>>

\* Natural mode: the model names a function, none ("unknown", or it raises),
\* or one that the agent refuses.
Infer(c, n) ==
  /\ handlers[c][n].pc = "inferring"
  /\ \/ StartFunction(c, n)
     \/ NextAgent(c, n) /\ UNCHANGED started
     \/ ~Request(c).typed /\ Answer(c, n, "error") /\ UNCHANGED started
  /\ UNCHANGED <<client, returned>>

\* Mutant of FunctionReturns: the search goes on after a success.
FunctionReturns_TriesOn(c, n) ==
  /\ handlers[c][n].pc = "running"
  /\ returned' = returned \cup {[call |-> c, attempt |-> n, at |-> handlers[c][n].at]}
  /\ IF Natural(c) THEN NextAgent(c, n) ELSE Answer(c, n, Shown(c, "ok"))
  /\ UNCHANGED <<client, started>>

\* The function returns.  In natural mode a reply that cannot be built is
\* caught with the agent's own exceptions, and the next agent is tried.
FunctionReturns(c, n) ==
  /\ handlers[c][n].pc = "running"
  /\ returned' = returned \cup {[call |-> c, attempt |-> n, at |-> handlers[c][n].at]}
  /\ IF Natural(c) /\ Request(c).typed THEN NextAgent(c, n) ELSE Answer(c, n, Shown(c, "ok"))
  /\ UNCHANGED <<client, started>>

\* The function raises: classified in structured mode, reported as the
\* function "unknown" in natural mode, and the next agent is tried.
FunctionRaises(c, n) ==
  /\ handlers[c][n].pc = "running"
  /\ IF Natural(c) THEN NextAgent(c, n)
     ELSE \E code \in {"unreachable", "denied", "error"} : Answer(c, n, Shown(c, code))
  /\ UNCHANGED <<client, started, returned>>

\* The server process ends: what it was serving is gone, what it did is not.
ServerStops ==
  /\ handlers' = [c \in Calls |-> [n \in Attempts |->
       IF handlers[c][n].pc \in {"sent", "inferring", "running"}
       THEN [pc |-> "stopped", at |-> handlers[c][n].at, answer |-> "none"]
       ELSE handlers[c][n]]]
  /\ UNCHANGED <<client, started, returned>>

(***************************************************************************)
(* Specification                                                           *)
(***************************************************************************)
Init ==
  /\ client = [c \in Calls |-> [pc |-> "idle", request |-> NoRequest, attempt |-> 0,
                                abandoned |-> {}, outcome |-> "none"]]
  /\ handlers = [c \in Calls |-> [n \in Attempts |->
                   [pc |-> "unsent", at |-> 1, answer |-> "none"]]]
  /\ started = {}
  /\ returned = {}

Awaits(c) == TimesOut(c) \/ ConnectionBreaks(c) \/ Receive(c)

Serves(c, n) ==
  Deliver(c, n) \/ Infer(c, n) \/ FunctionReturns(c, n) \/ FunctionRaises(c, n)

Next ==
  \/ \E c \in Calls, r \in Requests : Call(c, r)
  \/ \E c \in Calls : Resend(c) \/ Awaits(c)
  \/ \E c \in Calls, n \in Attempts : Serves(c, n)
  \/ ServerStops

Spec == Init /\ [][Next]_vars

\* The client's own clock: httpx ends every wait (a timeout of 30 s), asyncio
\* ends every sleep.  Nothing is assumed of the server.
Fairness == \A c \in Calls : WF_vars(Resend(c)) /\ WF_vars(Awaits(c))

FairSpec == Spec /\ Fairness

-----------------------------------------------------------------------------
(***************************************************************************)
(* Properties                                                              *)
(***************************************************************************)
Live(c, n) == handlers[c][n].pc \in {"sent", "inferring", "running"}

\* The client's locals, the requests and the histories keep their shape.
TypeOK ==
  /\ client \in [Calls -> Client]
  /\ handlers \in [Calls -> [Attempts -> Handler]]
  /\ started \subseteq Start
  /\ returned \subseteq started

\* What a call reports is what happened in the attempt whose answer it took,
\* never in another one that timed out and answered late: success exactly when
\* a function returned there (when the reply can be built, see below).
ReportIsHonest ==
  \A c \in Calls :
    /\ client[c].pc = "ended" /\ client[c].attempt \notin client[c].abandoned
    /\ ~Request(c).typed
    => (client[c].outcome = "ok") =
         (\E s \in returned : s.call = c /\ s.attempt = client[c].attempt)

\* An attempt was followed by another only if the client never had its answer
\* or was answered that the device cannot be reached: what was refused, denied
\* or done is not asked again.
RetriesWereUnanswered ==
  \A c \in Calls : \A n \in Attempts :
    n < client[c].attempt =>
      \/ n \in client[c].abandoned
      \/ handlers[c][n].pc = "answered" /\ handlers[c][n].answer = "unreachable"

\* A call that ended leaves work under way on the server only in attempts it
\* gave up without an answer: an answer means that the handler is done.
LeftoversWereAbandoned ==
  \A c \in Calls : \A n \in Attempts :
    Live(c, n) => \/ n \in client[c].abandoned
                  \/ client[c].pc = "waiting" /\ n = client[c].attempt

\* Within one attempt the agents are tried in order, one at a time, and the
\* search stops at the first success when its reply can be built: whatever
\* returned was the last to be started (the loop over priority_list).
SearchStopsAtSuccess ==
  \A s \in returned : ~Request(s.call).typed =>
    \A t \in started : t.call = s.call /\ t.attempt = s.attempt => t.at <= s.at

\* A call ends, with a response or an exception, whatever the server does.
CallEnds == \A c \in Calls : (client[c].pc = "waiting") ~> (client[c].pc = "ended")

\* loop.py (141-143), on the call it is about to make: "un ban n'est pas
\* idempotent, il ne doit jamais s'executer deux fois".  The client of that
\* call sends it again after a timeout or an unreachable device, while, or
\* after, the first one executes.
ExecutedOnce ==
  \A c \in Calls :
    client[c].pc # "idle" /\ ~Natural(c) => Cardinality({s \in started : s.call = c}) <= 1

\* contracts.py (5): the models of this file "garantissent que les deux cotes
\* parlent le meme schema JSON": the answer to a function that returned can be
\* read by the client.  execute_direct puts the coerced arguments in a result
\* whose reply admits strings only, so the reply is an error 500.
ReturnedIsReported ==
  \A c \in Calls : \A n \in Attempts :
    /\ handlers[c][n].pc = "answered"
    /\ [call |-> c, attempt |-> n, at |-> handlers[c][n].at] \in returned
    => handlers[c][n].answer # "malformed"

(***************************************************************************)
(* The inductive invariant                                                 *)
(***************************************************************************)
Answered(c, n) == handlers[c][n].pc = "answered"

\* Where the client is, and what it knows of the attempts it has made.
ClientOK(c) ==
  LET k == client[c].attempt IN
  /\ client[c].pc = "idle" <=> k = 0
  /\ client[c].pc # "idle" => Request(c) \in Requests
  /\ \A n \in Attempts : n > k => handlers[c][n].pc = "unsent"
  /\ \A n \in client[c].abandoned : n <= k
  /\ client[c].pc = "waiting" => k \notin client[c].abandoned
  /\ client[c].pc = "backoff" =>
       /\ k <= MaxRetries
       /\ k \in client[c].abandoned
          \/ (Answered(c, k) /\ Current(c).answer = "unreachable")
  /\ client[c].pc = "ended" =>
       \/ k \in client[c].abandoned
       \/ /\ Answered(c, k)
          /\ client[c].outcome = "ok" <=> Current(c).answer = "ok"

\* What a handler has started, and what its answer says of it.
HandlerOK(c, n) ==
  LET h == handlers[c][n]
      Mine(s) == s.call = c /\ s.attempt = n IN
  /\ h.pc \in {"unsent", "sent"} => \A s \in started : ~Mine(s)
  /\ \A s \in started : Mine(s) => s.at <= h.at /\ (h.pc = "inferring" => s.at < h.at)
  /\ h.pc = "running" => [call |-> c, attempt |-> n, at |-> h.at] \in started
  /\ \A s \in returned : Mine(s) /\ ~Request(c).typed =>
       h.pc = "answered" /\ h.answer = "ok" /\ s.at = h.at
  /\ h.pc = "answered" => h.answer # "none"
  /\ h.pc = "answered" /\ h.answer = "ok" => \E s \in returned : Mine(s)

IInv ==
  /\ TypeOK
  /\ RetriesWereUnanswered
  /\ \A c \in Calls : ClientOK(c)
  /\ \A c \in Calls : \A n \in Attempts : HandlerOK(c, n)
=============================================================================
