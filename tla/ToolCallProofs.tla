---------------------------- MODULE ToolCallProofs ----------------------------
(***************************************************************************)
(* The safety of a call, for every number of calls, agents and retries and *)
(* every set of requests.  Three kinds of steps preserve IInv: the client  *)
(* gets over an attempt (ClientMoves), it sends one (PostStep), and the    *)
(* server works on one (ServerMoves, with what each step starts).          *)
(***************************************************************************)
EXTENDS ToolCall, TLAPS

\* Steps that start with no call made leave nothing to preserve.
LEMMA InvInit == Init => IInv
<1> SUFFICES ASSUME Init PROVE IInv
  OBVIOUS
<1> USE RetriesAssumption
<1>1. TypeOK
  BY DEF Init, TypeOK, Client, Handler, Attempts
<1>2. RetriesWereUnanswered
  BY DEF Init, RetriesWereUnanswered, Attempts
<1>3. \A c \in Calls : ClientOK(c)
  BY DEF Init, ClientOK, Attempts
<1>4. \A c \in Calls : \A n \in Attempts : HandlerOK(c, n)
  BY DEF Init, HandlerOK
<1> QED BY <1>1, <1>2, <1>3, <1>4 DEF IInv

\* The client of c gets over the attempt it awaits: it will try again, or it
\* ends.  The server is not concerned.
LEMMA ClientMoves ==
  ASSUME IInv, NEW c \in Calls, client[c].pc = "waiting",
         NEW pc \in {"backoff", "ended"}, NEW outcome \in Outcomes \cup {"none"},
         NEW A \in SUBSET Attempts,
         client[c].abandoned \subseteq A,
         A \subseteq client[c].abandoned \cup {client[c].attempt},
         Move(c, pc, client[c].request, client[c].attempt, A, outcome),
         UNCHANGED <<handlers, started, returned>>,
         pc = "backoff" =>
           /\ client[c].attempt <= MaxRetries
           /\ client[c].attempt \in A
              \/ (Answered(c, client[c].attempt) /\ Current(c).answer = "unreachable"),
         pc = "ended" =>
           client[c].attempt \in A
             \/ (Answered(c, client[c].attempt)
                  /\ (outcome = "ok" <=> Current(c).answer = "ok"))
  PROVE  IInv'
<1> USE RetriesAssumption
<1>1. TypeOK'
  BY DEF IInv, TypeOK, Client, Attempts, Move
<1>2. \A d \in Calls : client'[d].request = client[d].request /\ client'[d].attempt = client[d].attempt
                         /\ client[d].abandoned \subseteq client'[d].abandoned
  BY DEF IInv, TypeOK, Client, Move
<1>3. \A d \in Calls : d # c => client'[d] = client[d]
  BY DEF IInv, TypeOK, Move
<1>4. client'[c].pc = pc /\ client'[c].abandoned = A /\ client'[c].outcome = outcome
  BY DEF IInv, TypeOK, Client, Move
<1>5. RetriesWereUnanswered'
  BY <1>2 DEF IInv, RetriesWereUnanswered
<1>6. \A d \in Calls : ClientOK(d)'
  <2>1. ASSUME NEW d \in Calls, d # c PROVE ClientOK(d)'
    BY <2>1, <1>3 DEF IInv, ClientOK, Answered, Current, Request
  <2>2. ClientOK(c)'
    BY <1>2, <1>4 DEF IInv, ClientOK, Answered, Current, Request, TypeOK, Client
  <2> QED BY <2>1, <2>2
<1>7. \A d \in Calls : \A n \in Attempts : HandlerOK(d, n)'
  BY <1>2 DEF IInv, HandlerOK, Request
<1> QED BY <1>1, <1>5, <1>6, <1>7 DEF IInv

\* What Retry does is one of the moves above.
LEMMA RetryStep ==
  ASSUME IInv, NEW c \in Calls, client[c].pc = "waiting", NEW outcome \in {"raised", "error"},
         NEW A \in SUBSET Attempts,
         client[c].abandoned \subseteq A,
         A \subseteq client[c].abandoned \cup {client[c].attempt},
         Retry(c, A, outcome), UNCHANGED <<handlers, started, returned>>,
         client[c].attempt \in A
           \/ (Answered(c, client[c].attempt) /\ Current(c).answer = "unreachable")
  PROVE  IInv'
<1> USE RetriesAssumption
<1>1. CASE client[c].attempt <= MaxRetries
  <2>1. Move(c, "backoff", client[c].request, client[c].attempt, A, "none")
    BY <1>1 DEF Retry, BacksOff
  <2> QED BY <1>1, <2>1, ClientMoves
<1>2. CASE ~(client[c].attempt <= MaxRetries)
  <2>1. Move(c, "ended", client[c].request, client[c].attempt, A, outcome)
    BY <1>2 DEF Retry, Ends
  <2> QED BY <2>1, ClientMoves DEF Outcomes
<1> QED BY <1>1, <1>2

\* The attempt that is awaited is one of the attempts.
LEMMA WaitingAttempt ==
  ASSUME IInv, NEW c \in Calls, client[c].pc = "waiting"
  PROVE  client[c].attempt \in Attempts /\ client[c].abandoned \in SUBSET Attempts
BY RetriesAssumption DEF IInv, TypeOK, Client, ClientOK, Attempts

LEMMA AwaitStep ==
  ASSUME IInv, NEW c \in Calls, Awaits(c)
  PROVE  IInv'
<1> DEFINE A == client[c].abandoned \cup {client[c].attempt}
<1>0. client[c].pc = "waiting"
  BY DEF Awaits, TimesOut, ConnectionBreaks, Receive
<1>a. client[c].attempt \in Attempts /\ client[c].abandoned \in SUBSET Attempts
  BY <1>0, WaitingAttempt
<1>1. CASE TimesOut(c)
  BY <1>0, <1>a, <1>1, RetryStep DEF TimesOut
<1>2. CASE ConnectionBreaks(c)
  <2>1. Move(c, "ended", client[c].request, client[c].attempt, A, "raised")
    BY <1>2 DEF ConnectionBreaks, Ends
  <2> QED BY <1>0, <1>a, <1>2, <2>1, ClientMoves DEF ConnectionBreaks, Outcomes
<1>3. CASE Receive(c)
  <2> DEFINE answer == Current(c).answer
  <2>1. answer \in Answers \cup {"none"}
    BY <1>a DEF IInv, TypeOK, Current, Handler
  <2>2. Answered(c, client[c].attempt)
    BY <1>3 DEF Receive, Answered, Current
  <2>3. CASE answer = "unreachable"
    <3>1. Retry(c, client[c].abandoned, "error")
      BY <1>3, <2>3 DEF Receive
    <3> QED BY <1>0, <1>a, <1>3, <2>2, <2>3, <3>1, RetryStep DEF Receive
  <2>4. CASE answer \in {"denied", "malformed"}
    <3>1. Move(c, "ended", client[c].request, client[c].attempt,
               client[c].abandoned, "raised")
      BY <1>3, <2>4 DEF Receive, Ends
    <3> QED BY <1>0, <1>a, <1>3, <2>2, <2>4, <3>1, ClientMoves DEF Receive, Outcomes
  <2>5. CASE answer \in {"ok", "error"}
    <3>1. Move(c, "ended", client[c].request, client[c].attempt,
               client[c].abandoned, answer)
      BY <1>3, <2>5 DEF Receive, Ends
    <3> QED BY <1>0, <1>a, <1>3, <2>2, <2>5, <3>1, ClientMoves DEF Receive, Outcomes
  <2>6. answer # "none"
    BY <1>a, <2>2 DEF IInv, HandlerOK, Answered, Current
  <2> QED BY <2>1, <2>3, <2>4, <2>5, <2>6 DEF Answers
<1> QED BY <1>1, <1>2, <1>3 DEF Awaits

\* A call that is made, or made again, sends an attempt that was not sent.
LEMMA PostStep ==
  ASSUME IInv, NEW c \in Calls, NEW request \in Requests, Post(c, request),
         \/ client[c].pc = "idle"
         \/ client[c].pc = "backoff" /\ request = client[c].request
  PROVE  IInv'
<1> DEFINE k == client[c].attempt
           n == k + 1
<1> USE RetriesAssumption
<1>1. k \in 0..MaxRetries /\ n \in Attempts
  BY DEF IInv, TypeOK, Client, ClientOK, Attempts
<1>2. client' = [client EXCEPT ![c] =
        [pc |-> "waiting", request |-> request, attempt |-> n,
         abandoned |-> client[c].abandoned, outcome |-> "none"]]
  BY DEF Post, Move
<1>3. handlers' = [handlers EXCEPT ![c][n] = [pc |-> "sent", at |-> 1, answer |-> "none"]]
  BY DEF Post, Handle
<1>4. UNCHANGED <<started, returned>>
  BY DEF Post
<1>5. TypeOK'
  <2>1. client' \in [Calls -> Client]
    BY <1>1, <1>2 DEF IInv, TypeOK, Client, Attempts
  <2>2. handlers' \in [Calls -> [Attempts -> Handler]]
    BY <1>1, <1>3 DEF IInv, TypeOK, Handler
  <2> QED BY <1>4, <2>1, <2>2 DEF IInv, TypeOK
<1>6. /\ client'[c] = [pc |-> "waiting", request |-> request, attempt |-> n,
                       abandoned |-> client[c].abandoned, outcome |-> "none"]
      /\ \A d \in Calls : d # c => client'[d] = client[d]
      /\ handlers'[c][n] = [pc |-> "sent", at |-> 1, answer |-> "none"]
      /\ \A d \in Calls : d # c => handlers'[d] = handlers[d]
      /\ \A m \in Attempts : m # n => handlers'[c][m] = handlers[c][m]
  BY <1>1, <1>2, <1>3 DEF IInv, TypeOK
<1>7. \A d \in Calls : ClientOK(d)'
  <2>1. ASSUME NEW d \in Calls, d # c PROVE ClientOK(d)'
    BY <2>1, <1>6 DEF IInv, ClientOK, Answered, Current, Request
  <2>2. ClientOK(c)'
    <3>1. \A m \in client[c].abandoned : m <= k /\ m \in Attempts
      BY DEF IInv, ClientOK, TypeOK, Client
    <3>2. \A m \in Attempts : m > n => handlers'[c][m].pc = "unsent"
      BY <1>1, <1>6 DEF IInv, ClientOK, Attempts
    <3> QED BY <1>1, <1>6, <3>1, <3>2 DEF ClientOK, Request, Attempts
  <2> QED BY <2>1, <2>2
<1>8. RetriesWereUnanswered'
  <2>1. ASSUME NEW m \in Attempts, m < n
        PROVE  \/ m \in client[c].abandoned
               \/ handlers[c][m].pc = "answered" /\ handlers[c][m].answer = "unreachable"
    <3>1. CASE m < k
      BY <3>1 DEF IInv, RetriesWereUnanswered
    <3>2. CASE m = k
      <4>1. client[c].pc = "backoff"
        BY <1>1, <3>2 DEF IInv, ClientOK, Attempts
      <4> QED BY <3>2, <4>1 DEF IInv, ClientOK, Answered, Current
    <3> QED BY <1>1, <2>1, <3>1, <3>2 DEF Attempts
  <2> QED BY <1>1, <1>6, <2>1 DEF IInv, RetriesWereUnanswered
<1>9. \A d \in Calls : \A m \in Attempts : HandlerOK(d, m)'
  <2>1. \A s \in started : ~(s.call = c /\ s.attempt = n)
    <3>1. handlers[c][n].pc = "unsent"
      BY <1>1 DEF IInv, ClientOK
    <3> QED BY <1>1, <3>1 DEF IInv, HandlerOK
  <2>2. returned \subseteq started
    BY DEF IInv, TypeOK
  <2>3. ASSUME NEW m \in Attempts, m = n PROVE HandlerOK(c, m)'
    BY <1>4, <1>6, <2>1, <2>2, <2>3 DEF HandlerOK
  <2>4. ASSUME NEW d \in Calls, NEW m \in Attempts, d # c PROVE HandlerOK(d, m)'
    BY <1>4, <1>6, <2>4 DEF IInv, HandlerOK, Request
  <2>5. ASSUME NEW m \in Attempts, m # n PROVE HandlerOK(c, m)'
    <3>1. CASE client[c].pc = "idle"
      <4>1. handlers[c][m].pc = "unsent"
        BY <3>1, <1>1 DEF IInv, ClientOK, Attempts
      <4> QED BY <1>4, <1>6, <2>2, <2>5, <4>1 DEF IInv, HandlerOK
    <3>2. CASE client[c].pc = "backoff" /\ request = client[c].request
      BY <1>4, <1>6, <2>5, <3>2 DEF IInv, HandlerOK, Request
    <3> QED BY <3>1, <3>2
  <2> QED BY <2>3, <2>4, <2>5
<1> QED BY <1>5, <1>7, <1>8, <1>9 DEF IInv

\* The server works on attempt n of call c, which was sent and not answered:
\* the client, and the other attempts, are not concerned.
LEMMA ServerMoves ==
  ASSUME IInv, NEW c \in Calls, NEW n \in Attempts,
         handlers[c][n].pc \in {"sent", "inferring", "running"},
         NEW pc \in {"inferring", "running", "answered"}, NEW at \in Nat \ {0},
         NEW answer \in Answers \cup {"none"},
         Handle(c, n, pc, at, answer), UNCHANGED client,
         started \subseteq started', returned \subseteq returned',
         started' \subseteq started \cup {[call |-> c, attempt |-> n, at |-> at]},
         \A s \in returned' : s \in returned \/ (s.call = c /\ s.attempt = n),
         returned' \subseteq started',
         HandlerOK(c, n)'
  PROVE  IInv'
<1>1. handlers' = [handlers EXCEPT ![c][n] = [pc |-> pc, at |-> at, answer |-> answer]]
  BY DEF Handle
<1>2. TypeOK'
  <2>1. handlers' \in [Calls -> [Attempts -> Handler]]
    BY <1>1 DEF IInv, TypeOK, Handler
  <2>2. started' \subseteq Start /\ returned' \subseteq started'
    BY DEF IInv, TypeOK, Start
  <2> QED BY <2>1, <2>2 DEF IInv, TypeOK
<1>3. \A d \in Calls : \A m \in Attempts :
        d # c \/ m # n => handlers'[d][m] = handlers[d][m]
  BY <1>1 DEF IInv, TypeOK
<1>4. handlers'[c][n].pc # "unsent"
  BY <1>1 DEF IInv, TypeOK
<1>5. RetriesWereUnanswered'
  BY <1>3 DEF IInv, RetriesWereUnanswered
<1>6. \A d \in Calls : ClientOK(d)'
  <2>1. ASSUME NEW d \in Calls PROVE ClientOK(d)'
    <3>1. \A m \in Attempts : m > client[d].attempt => handlers'[d][m].pc = "unsent"
      BY <1>3 DEF IInv, ClientOK
    <3>2. ASSUME client[d].pc # "idle", Answered(d, client[d].attempt)
          PROVE  handlers'[d][client[d].attempt] = handlers[d][client[d].attempt]
      <4>1. client[d].attempt \in Attempts
        BY <3>2, RetriesAssumption DEF IInv, TypeOK, Client, ClientOK, Attempts
      <4>2. d # c \/ client[d].attempt # n
        BY <3>2 DEF Answered
      <4> QED BY <1>3, <4>1, <4>2
    <3> QED BY <3>1, <3>2 DEF IInv, ClientOK, Answered, Current, Request
  <2> QED BY <2>1
<1>7. \A d \in Calls : \A m \in Attempts : HandlerOK(d, m)'
  <2>1. ASSUME NEW d \in Calls, NEW m \in Attempts, d # c \/ m # n
        PROVE  HandlerOK(d, m)'
    <3>1. \A s \in started' \cup returned' : s.call = d /\ s.attempt = m =>
            (s \in started' => s \in started) /\ (s \in returned' => s \in returned)
      BY <2>1
    <3>2. handlers'[d][m] = handlers[d][m]
      BY <1>3, <2>1
    <3> QED BY <3>1, <3>2 DEF IInv, HandlerOK, Request
  <2> QED BY <2>1
<1> QED BY <1>2, <1>5, <1>6, <1>7 DEF IInv

\* The handler of an attempt that was sent is that of a call that was made.
LEMMA HandlerParts ==
  ASSUME IInv, NEW c \in Calls, NEW n \in Attempts
  PROVE  /\ handlers[c][n].at \in Nat \ {0}
         /\ handlers[c][n].answer \in Answers \cup {"none"}
         /\ HandlerOK(c, n)
BY DEF IInv, TypeOK, Handler

\* The answer that goes out when nothing returned in the attempt, or what
\* returned cannot be shown, is not a success.
LEMMA AnswerStep ==
  ASSUME IInv, NEW c \in Calls, NEW n \in Attempts,
         handlers[c][n].pc \in {"sent", "inferring", "running"},
         NEW answer \in Answers \ {"ok"}, Answer(c, n, answer),
         UNCHANGED <<client, started, returned>>
  PROVE  IInv'
<1>1. handlers[c][n].at \in Nat \ {0} /\ HandlerOK(c, n)
  BY HandlerParts
<1>2. handlers'[c][n] = [pc |-> "answered", at |-> handlers[c][n].at, answer |-> answer]
  BY DEF IInv, TypeOK, Answer, Handle
<1>3. HandlerOK(c, n)'
  BY <1>1, <1>2 DEF HandlerOK, Request, Answers
<1>4. Handle(c, n, "answered", handlers[c][n].at, answer) /\ returned \subseteq started
  BY DEF Answer, IInv, TypeOK
<1> QED BY <1>1, <1>3, <1>4, ServerMoves

\* The next agent is tried, or none is left, after nothing that can be shown.
LEMMA NextAgentStep ==
  ASSUME IInv, NEW c \in Calls, NEW n \in Attempts,
         handlers[c][n].pc \in {"inferring", "running"}, NextAgent(c, n),
         UNCHANGED <<client, started, returned>>
  PROVE  IInv'
<1>1. handlers[c][n].at \in Nat \ {0} /\ HandlerOK(c, n)
  BY HandlerParts
<1>2. CASE Handle(c, n, "inferring", handlers[c][n].at + 1, "none")
  <2>1. handlers'[c][n] = [pc |-> "inferring", at |-> handlers[c][n].at + 1, answer |-> "none"]
    BY <1>2 DEF IInv, TypeOK, Handle
  <2>2. \A s \in started : s.at \in Nat
    BY DEF IInv, TypeOK, Start
  <2>3. HandlerOK(c, n)'
    BY <1>1, <2>1, <2>2 DEF HandlerOK, Request
  <2>4. handlers[c][n].at + 1 \in Nat \ {0} /\ returned \subseteq started
    BY <1>1 DEF IInv, TypeOK
  <2> QED BY <1>2, <2>3, <2>4, ServerMoves
<1>3. CASE Answer(c, n, "error")
  BY <1>3, AnswerStep DEF Answers
<1> QED BY <1>2, <1>3 DEF NextAgent

\* A function that starts is the first of its agent in this attempt.
LEMMA StartStep ==
  ASSUME IInv, NEW c \in Calls, NEW n \in Attempts,
         handlers[c][n].pc \in {"sent", "inferring"}, StartFunction(c, n),
         UNCHANGED <<client, returned>>
  PROVE  IInv'
<1>1. handlers[c][n].at \in Nat \ {0} /\ HandlerOK(c, n)
  BY HandlerParts
<1>2. handlers'[c][n] = [pc |-> "running", at |-> handlers[c][n].at, answer |-> "none"]
  BY DEF IInv, TypeOK, StartFunction, Handle
<1>3. HandlerOK(c, n)'
  BY <1>1, <1>2 DEF HandlerOK, Request, StartFunction
<1>4. /\ Handle(c, n, "running", handlers[c][n].at, "none")
      /\ started' = started \cup {[call |-> c, attempt |-> n, at |-> handlers[c][n].at]}
      /\ returned' \subseteq started'
  BY DEF StartFunction, IInv, TypeOK
<1> QED BY <1>1, <1>3, <1>4, ServerMoves

\* The answers a function's outcome becomes.
LEMMA ShownAnswers ==
  ASSUME NEW c \in Calls, NEW answer \in Answers
  PROVE  Shown(c, answer) \in Answers /\ (Shown(c, answer) = "ok" => answer = "ok" /\ ~Request(c).typed)
BY DEF Shown, Answers

LEMMA DeliverStep ==
  ASSUME IInv, NEW c \in Calls, NEW n \in Attempts, Deliver(c, n)
  PROVE  IInv'
<1>0. handlers[c][n].pc = "sent" /\ UNCHANGED <<client, returned>>
  BY DEF Deliver
<1>1. CASE Handle(c, n, "inferring", handlers[c][n].at, "none") /\ UNCHANGED started
  <2>1. handlers[c][n].at \in Nat \ {0} /\ HandlerOK(c, n)
    BY HandlerParts
  <2>2. handlers'[c][n] = [pc |-> "inferring", at |-> handlers[c][n].at, answer |-> "none"]
    BY <1>1 DEF IInv, TypeOK, Handle
  <2>3. HandlerOK(c, n)'
    <3>1. \A s \in started : ~(s.call = c /\ s.attempt = n)
      BY <1>0, <2>1 DEF HandlerOK
    <3>2. returned \subseteq started
      BY DEF IInv, TypeOK
    <3> QED BY <1>0, <1>1, <2>2, <3>1, <3>2 DEF HandlerOK
  <2>4. returned \subseteq started
    BY DEF IInv, TypeOK
  <2> QED BY <1>0, <1>1, <2>1, <2>3, <2>4, ServerMoves
<1>2. CASE StartFunction(c, n)
  BY <1>0, <1>2, StartStep
<1>3. CASE \E answer \in {"error", "malformed", Shown(c, "error")} :
             Answer(c, n, answer) /\ UNCHANGED started
  <2>1. PICK answer \in {"error", "malformed", Shown(c, "error")} :
               Answer(c, n, answer) /\ UNCHANGED started
    BY <1>3
  <2>2. answer \in Answers \ {"ok"}
    BY DEF Shown, Answers
  <2> QED BY <1>0, <2>1, <2>2, AnswerStep
<1> QED BY <1>1, <1>2, <1>3 DEF Deliver

LEMMA InferStep ==
  ASSUME IInv, NEW c \in Calls, NEW n \in Attempts, Infer(c, n)
  PROVE  IInv'
<1>0. handlers[c][n].pc = "inferring" /\ UNCHANGED <<client, returned>>
  BY DEF Infer
<1>1. CASE StartFunction(c, n)
  BY <1>0, <1>1, StartStep
<1>2. CASE NextAgent(c, n) /\ UNCHANGED started
  BY <1>0, <1>2, NextAgentStep
<1>3. CASE Answer(c, n, "error") /\ UNCHANGED started
  BY <1>0, <1>3, AnswerStep DEF Answers
<1> QED BY <1>1, <1>2, <1>3 DEF Infer

LEMMA FunctionRaisesStep ==
  ASSUME IInv, NEW c \in Calls, NEW n \in Attempts, FunctionRaises(c, n)
  PROVE  IInv'
<1>0. handlers[c][n].pc = "running" /\ UNCHANGED <<client, started, returned>>
  BY DEF FunctionRaises
<1>1. CASE NextAgent(c, n)
  BY <1>0, <1>1, NextAgentStep
<1>2. CASE \E code \in {"unreachable", "denied", "error"} : Answer(c, n, Shown(c, code))
  <2>1. PICK code \in {"unreachable", "denied", "error"} : Answer(c, n, Shown(c, code))
    BY <1>2
  <2>2. Shown(c, code) \in Answers \ {"ok"}
    BY DEF Shown, Answers
  <2> QED BY <1>0, <2>1, <2>2, AnswerStep
<1> QED BY <1>1, <1>2 DEF FunctionRaises

\* A function that returns: its success goes out, unless it cannot be shown.
LEMMA FunctionReturnsStep ==
  ASSUME IInv, NEW c \in Calls, NEW n \in Attempts, FunctionReturns(c, n)
  PROVE  IInv'
<1> DEFINE s0 == [call |-> c, attempt |-> n, at |-> handlers[c][n].at]
<1>0. /\ handlers[c][n].pc = "running" /\ UNCHANGED <<client, started>>
      /\ returned' = returned \cup {s0}
  BY DEF FunctionReturns
<1>1. handlers[c][n].at \in Nat \ {0} /\ HandlerOK(c, n)
  BY HandlerParts
<1>2. s0 \in started /\ started \subseteq Start
  BY <1>0, <1>1 DEF HandlerOK, IInv, TypeOK
<1>3. \A s \in returned : ~(s.call = c /\ s.attempt = n) \/ Request(c).typed
  BY <1>0, <1>1 DEF HandlerOK
<1>4. /\ returned' \subseteq started'
      /\ \A s \in returned' : s \in returned \/ (s.call = c /\ s.attempt = n)
  BY <1>0, <1>2 DEF IInv, TypeOK
<1>5. CASE Natural(c) /\ Request(c).typed /\ handlers[c][n].at < Len(Request(c).order)
  <2>1. Handle(c, n, "inferring", handlers[c][n].at + 1, "none")
    BY <1>5 DEF FunctionReturns, NextAgent
  <2>2. handlers'[c][n] = [pc |-> "inferring", at |-> handlers[c][n].at + 1, answer |-> "none"]
    BY <2>1 DEF IInv, TypeOK, Handle
  <2>3. HandlerOK(c, n)'
    BY <1>0, <1>1, <1>2, <1>5, <2>2 DEF HandlerOK, Request, Start
  <2>4. handlers[c][n].at + 1 \in Nat \ {0}
    BY <1>1
  <2> QED BY <1>0, <1>4, <2>1, <2>3, <2>4, ServerMoves
<1>6. CASE ~(Natural(c) /\ Request(c).typed /\ handlers[c][n].at < Len(Request(c).order))
  <2>1. PICK answer \in Answers : /\ Answer(c, n, answer)
                                  /\ answer = "ok" <=> ~Request(c).typed
    BY <1>6 DEF FunctionReturns, NextAgent, Shown, Answers
  <2>2. handlers'[c][n] = [pc |-> "answered", at |-> handlers[c][n].at, answer |-> answer]
    BY <2>1 DEF IInv, TypeOK, Answer, Handle
  <2>3. HandlerOK(c, n)'
    BY <1>0, <1>1, <1>2, <1>3, <2>1, <2>2 DEF HandlerOK, Request, Answers
  <2>4. Handle(c, n, "answered", handlers[c][n].at, answer)
    BY <2>1 DEF Answer
  <2> QED BY <1>0, <1>1, <1>4, <2>3, <2>4, ServerMoves
<1> QED BY <1>5, <1>6

\* A server that stops answers nothing: the attempts it served stay abandoned
\* or awaited.
LEMMA StopStep ==
  ASSUME IInv, ServerStops
  PROVE  IInv'
<1>1. ASSUME NEW c \in Calls, NEW n \in Attempts
      PROVE  IF handlers[c][n].pc \in {"sent", "inferring", "running"}
             THEN handlers'[c][n] = [pc |-> "stopped", at |-> handlers[c][n].at, answer |-> "none"]
             ELSE handlers'[c][n] = handlers[c][n]
  BY DEF ServerStops
<1>2. UNCHANGED <<client, started, returned>>
  BY DEF ServerStops
<1>3. TypeOK'
  <2>1. handlers' \in [Calls -> [Attempts -> Handler]]
    BY DEF ServerStops, IInv, TypeOK, Handler
  <2> QED BY <1>2, <2>1 DEF IInv, TypeOK
<1>4. RetriesWereUnanswered'
  <2>1. ASSUME NEW c \in Calls, NEW n \in Attempts, n < client[c].attempt
        PROVE  \/ n \in client[c].abandoned
               \/ handlers'[c][n].pc = "answered" /\ handlers'[c][n].answer = "unreachable"
    BY <1>1, <2>1 DEF IInv, RetriesWereUnanswered
  <2> QED BY <1>2, <2>1 DEF RetriesWereUnanswered
<1>5. ASSUME NEW c \in Calls PROVE ClientOK(c)'
  <2>1. ASSUME NEW n \in Attempts, n > client[c].attempt PROVE handlers'[c][n].pc = "unsent"
    <3>1. handlers[c][n].pc = "unsent"
      BY <2>1 DEF IInv, ClientOK
    <3> QED BY <1>1, <3>1
  <2>2. ASSUME client[c].pc # "idle", Answered(c, client[c].attempt)
        PROVE  handlers'[c][client[c].attempt] = handlers[c][client[c].attempt]
    <3>1. client[c].attempt \in Attempts
      BY <2>2, RetriesAssumption DEF IInv, TypeOK, Client, ClientOK, Attempts
    <3> QED BY <1>1, <2>2, <3>1 DEF Answered
  <2> QED BY <1>2, <2>1, <2>2 DEF IInv, ClientOK, Answered, Current, Request
<1>6. ASSUME NEW c \in Calls, NEW n \in Attempts PROVE HandlerOK(c, n)'
  <2>1. HandlerOK(c, n)
    BY DEF IInv
  <2>2. CASE handlers'[c][n] = handlers[c][n]
    BY <1>2, <2>1, <2>2 DEF HandlerOK, Request
  <2>3. CASE /\ handlers[c][n].pc \in {"sent", "inferring", "running"}
             /\ handlers'[c][n] = [pc |-> "stopped", at |-> handlers[c][n].at, answer |-> "none"]
    BY <1>2, <2>1, <2>3 DEF HandlerOK, Request
  <2> QED BY <1>1, <2>2, <2>3
<1> QED BY <1>3, <1>4, <1>5, <1>6 DEF IInv

LEMMA InvStep == IInv /\ [Next]_vars => IInv'
<1> SUFFICES ASSUME IInv, [Next]_vars PROVE IInv'
  OBVIOUS
<1>1. CASE \E c \in Calls, r \in Requests : Call(c, r)
  BY <1>1, PostStep DEF Call
<1>2. CASE \E c \in Calls : Resend(c)
  <2>1. PICK c \in Calls : Resend(c)
    BY <1>2
  <2>2. client[c].request \in Requests
    BY <2>1 DEF Resend, IInv, ClientOK, Request
  <2> QED BY <2>1, <2>2, PostStep DEF Resend
<1>3. CASE \E c \in Calls : Awaits(c)
  BY <1>3, AwaitStep
<1>4. CASE \E c \in Calls, n \in Attempts : Serves(c, n)
  BY <1>4, DeliverStep, InferStep, FunctionReturnsStep, FunctionRaisesStep DEF Serves
<1>5. CASE ServerStops
  BY <1>5, StopStep
<1>6. CASE UNCHANGED vars
  BY <1>6 DEF vars, IInv, TypeOK, RetriesWereUnanswered, ClientOK, HandlerOK, Answered,
              Current, Request
<1> QED BY <1>1, <1>2, <1>3, <1>4, <1>5, <1>6 DEF Next

\* The strengthening of the properties below is an invariant.
THEOREM CallInvariance == Spec => []IInv
<1> QED BY InvInit, InvStep, PTL DEF Spec

\* The client never makes more than _MAX_RETRIES + 1 attempts, and every
\* variable keeps its shape.
THEOREM CallTypeCorrect == Spec => []TypeOK
<1>1. IInv => TypeOK
  BY DEF IInv
<1> QED BY <1>1, CallInvariance, PTL

\* Nothing that was answered is asked again, a device that cannot be reached
\* apart (_post_execute).
THEOREM OnlyUnansweredIsRetried == Spec => []RetriesWereUnanswered
<1>1. IInv => RetriesWereUnanswered
  BY DEF IInv
<1> QED BY <1>1, CallInvariance, PTL

\* A call that ended leaves work on the server only in attempts it gave up.
THEOREM OnlyAbandonedIsLeft == Spec => []LeftoversWereAbandoned
<1>1. ASSUME IInv PROVE LeftoversWereAbandoned
  <2>1. ASSUME NEW c \in Calls, NEW n \in Attempts, Live(c, n)
        PROVE  \/ n \in client[c].abandoned
               \/ client[c].pc = "waiting" /\ n = client[c].attempt
    <3> DEFINE k == client[c].attempt
    <3>1. k \in Nat /\ n \in Nat
      BY <1>1, RetriesAssumption DEF IInv, TypeOK, Client, Attempts
    <3>2. n <= k
      BY <1>1, <2>1, <3>1 DEF IInv, ClientOK, Live
    <3>3. CASE n < k
      BY <1>1, <2>1, <3>3 DEF IInv, RetriesWereUnanswered, Live
    <3>4. CASE n = k
      <4>1. client[c].pc \in {"waiting", "backoff", "ended"}
        BY <1>1, <2>1, <3>2, <3>4, RetriesAssumption DEF IInv, TypeOK, Client, ClientOK, Attempts
      <4> QED BY <1>1, <2>1, <3>4, <4>1 DEF IInv, ClientOK, Answered, Live
    <3> QED BY <3>1, <3>2, <3>3, <3>4
  <2> QED BY <2>1 DEF LeftoversWereAbandoned
<1> QED BY <1>1, CallInvariance, PTL

\* What a call reports is what happened in the attempt it reports, for every
\* order in which answers and timeouts come.
THEOREM ReportsAreHonest == Spec => []ReportIsHonest
<1>1. ASSUME IInv PROVE ReportIsHonest
  <2>1. ASSUME NEW c \in Calls, client[c].pc = "ended",
               client[c].attempt \notin client[c].abandoned, ~Request(c).typed
        PROVE  (client[c].outcome = "ok") =
                 (\E s \in returned : s.call = c /\ s.attempt = client[c].attempt)
    <3>1. client[c].attempt \in Attempts
      BY <1>1, <2>1, RetriesAssumption DEF IInv, TypeOK, Client, ClientOK, Attempts
    <3>2. Answered(c, client[c].attempt)
            /\ (client[c].outcome = "ok" <=> Current(c).answer = "ok")
      BY <1>1, <2>1 DEF IInv, ClientOK
    <3>3. HandlerOK(c, client[c].attempt)
      BY <1>1, <3>1 DEF IInv
    <3>4. (client[c].outcome = "ok") <=>
            (\E s \in returned : s.call = c /\ s.attempt = client[c].attempt)
      BY <2>1, <3>2, <3>3 DEF HandlerOK, Answered, Current
    <3> QED BY <3>4
  <2> QED BY <2>1 DEF ReportIsHonest
<1> QED BY <1>1, CallInvariance, PTL

\* The search for an agent stops at the first function that returned, and no
\* agent is started after it in that attempt.
THEOREM SuccessStopsSearch == Spec => []SearchStopsAtSuccess
<1>1. ASSUME IInv PROVE SearchStopsAtSuccess
  <2>1. ASSUME NEW s \in returned, ~Request(s.call).typed, NEW t \in started,
               t.call = s.call, t.attempt = s.attempt
        PROVE  t.at <= s.at
    <3>1. s.call \in Calls /\ s.attempt \in Attempts
      BY <1>1 DEF IInv, TypeOK, Start
    <3>2. HandlerOK(s.call, s.attempt)
      BY <1>1, <3>1 DEF IInv
    <3> QED BY <2>1, <3>2 DEF HandlerOK
  <2> QED BY <2>1 DEF SearchStopsAtSuccess
<1> QED BY <1>1, CallInvariance, PTL
=============================================================================
