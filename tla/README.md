# Formal model of cyber-agent-engine

TLA+ modules that model the coordinator of `cyber-agent-engine` and what it
works with, TLC configurations that check them on small instances, and TLAPS
proofs of the theorems that hold for every instance. Source paths and lines are
relative to `src/`.

## 1. The system

A **coordinator** (`coordinator/`, `core/`) turns a request in natural language
into a sequence of device actions. It tokenises the request (so the LLM never
sees an address), asks a *proposer* (an LLM) for one action at a time, confronts
each action with a declarative policy, and executes it through an **agent
server** (`server.py`, `agents/`), which calls the firewall, the VPN or the
intrusion detector. An action the policy gates is suspended until a human
approves or rejects it.

| component | source | state | operations |
|---|---|---|---|
| gated loop | `coordinator/loop.py` | the locals of each handler | `handle`, `approve`, `resume`, `reject`, `_run` |
| approval store | `core/approval/store.py` | id -> (intention, hash, state), in memory | create, approve, reject, mark_executed, get |
| sessions | `coordinator/session.py` | one encrypted file per suspended run | save, get (purges an expired entry), delete |
| decision | `core/decision.py`, `core/policy/*` | the policy and the catalog, read-only | decide, evaluate, validate_intention, load_policy |
| execution boundary | `core/execution/*` | none | grant, grant_approved, execute |
| audit | `core/audit/*` | an append-only file, optionally rotated | write |
| token vault | `core/tokens/vault.py` | value <-> token maps, counters | tokenize, detokenize, snapshot |
| proposer, LLM | `coordinator/proposer.py`, `coordinator/llm/*` | none | propose (retries), init, chat |
| app, assembly | `coordinator/app.py`, `assembly.py`, `config.py` | open clients | lifespan, routes, catalog merge |
| agent client | `coordinator/agent_call.py`, `coordinator/clients/*` | a capabilities cache | `_post_execute` (retries) |
| agent server | `server.py`, `agents/contracts.py` | the agents | `execute_command`, `/capabilities` |
| classifier | `agents/classifier.py` | keyword weights | classify |
| tool agent | `agents/base.py`, `agents/coercion.py` | function table | execute, execute_direct, `_parse_model_output` |
| device agents | `agents/opnsense/*`, `wireguard_agent.py`, `crowdsec_agent.py`, ... | the devices' | some 150 functions |
| trust orchestrator | `core/orchestrator.py` | approvals, vaults | handle, resume, reject (used by tests only) |
| dashboard | `dashboard/app.py` | none | relays to the coordinator |

**How they interact.** The coordinator is one asyncio process. A FastAPI route
calls a handler of `GatedLoop`; the handler reads and writes the approval
store, the session files and the audit file without awaiting, and awaits in two
places only: the proposer (an LLM call) and the agent call (an HTTP POST to the
agent server). Handlers are interleaved exactly there. The agent server is
another process; a POST that timed out at the client is still being served
there. Device agents make one or several REST calls to the device per function.

**What is hard.** (1) Several operators decide on the same suspended action
while it is being executed. (2) The approval store is in memory and the
sessions are on disk: a restart forgets one and keeps the other; a session
expires, an approval does not. (3) Any write can fail between two others.
(4) The call to the agent is retried after a timeout, while the first attempt
may still be running. (5) A run is cut into several handlers by suspensions:
its step counter, its results, its bound and its tokens cross a file. (6) Tokens
are put into texts and taken out by `str.replace`, and one may begin like another.
(7) A change of the firewall is several requests, other functions' requests come
between them, and one that was given up may still be served. `PROJECT.json` lists
each of these at its line under `hazards`.

**What makes each component correct.** The loop: no step of a run is executed
twice, nothing undecided or unaudited is executed, a decision consumes what it
decides on, a run is in one place at a time, its results are those of its own
executions, its steps are bounded, every handler ends. The client and server:
one call makes a bounded number of executions, and what it reports is what
happened. Policy: first match wins, default deny. Vault: one token per
value, the same to the end, and detokenize undoes tokenize on a text without
ambiguity (§2, TokenVault). Orchestrator: one execution per approval. Assembly: no two agents
export one capability; what was opened is closed. Device agents: a change is
preceded by a restore point and applied as a whole, whatever other functions do
at the same time. Vault and extractor: a known value is never shown, a token is
never another host's.

## 2. Modules

| module | models | kind |
|---|---|---|
| `ApprovalGate` | what the coordinator promises about the actions it makes | abstract specification |
| `GatedLoop` | `coordinator/loop.py` with the approval store, sessions, decision, execution boundary, audit | detailed specification, implements `ApprovalGate` |
| `MCGatedLoop` | one intention per policy effect, symmetry | instance for TLC |
| `GatedLoopProofs` | type correctness, the inductive invariant, the safety theorems | proofs |
| `GateRefinementProofs` | `GatedLoop` implements `ApprovalGate` | proofs |
| `ToolCall` | `tool_agent_client.py` `_post_execute` against `server.py` `execute_command` and `agents/base.py` `execute`, `execute_direct` | detailed specification |
| `MCToolCall` | requests of every kind | instance for TLC |
| `ToolCallProofs` | type correctness, the inductive invariant, the safety theorems | proofs |
| `Policy` | `core/policy/loading.py`, `engine.py`, `catalog.py`, `models.py`, `core/decision.py` | detailed specification, with the meaning of a policy as its reference |
| `MCPolicy` | policies of at most three rules out of nine | instance for TLC |
| `PolicyProofs` | the invariant of the two loops, the evaluator computes the meaning | proofs |
| `OpnsenseAgent` | `agents/opnsense/*`, `clients/opnsense_api_client.py`: the requests each function makes | table of functions |
| `WireguardAgent` | `agents/wireguard_agent.py` on the OPNsense platform, `clients/wireguard_api_client.py` | table of functions |
| `CrowdsecAgent` | `agents/crowdsec_agent.py`, `clients/crowdsec_client.py` | table of functions |
| `OpnsenseChange` | functions of the three agents run against the firewall, request by request | detailed specification |
| `MCOpnsense` | the functions on four services; checks that all the plans are well formed | instance for TLC |
| `OpnsenseProofs` | the inductive invariant of functions and device, the safety theorems | proofs |
| `TokenVault` | `core/tokens/vault.py` and `coordinator/extractor.py` in the steps of `coordinator/loop.py` | detailed specification |
| `MCTokenVault` | two numerals, seven requests, five results | instance for TLC |
| `TextProofs` | what the operators on texts do: replace, sorted, the numerals of a token, the extractor, detokenize | proofs |
| `VaultProofs` | the vault stays a bijection, a token keeps its value, known values stay hidden, targets are values | proofs |
| `ReversalProofs` | unambiguous texts can be read back | proofs |

### GatedLoop

*State.* `tasks[c]` is the handler `c` at the await where it is suspended:
`proposing` is the await of `propose` (loop.py:226), `executing` that of
`execute` (147 and 255); it carries the locals of `_run` (`step`, `results`, the
intention). `approvals` is `ApprovalStore._by_id` reduced to the state,
`sessions` the directory of session files, `audit` the audit file. `tickets`
and `dispatched` are histories: the immutable part of each `Approval`, and every
action handed to the agent. `clock` is `time.time`, injected in the loop.

*Actions.* An action is the code a handler runs between two awaits, whole:
`Handle` (99-103); `ProposerFails`, `ProposerFinishes`, `DecisionNotAudited`,
`Deny`, `Allow`, `Suspend` (what `_run` does with a proposal); `ExecutionFails`,
`ExecutionReturns` (what `_run` and `resume` do with an answer); `Approve`
(which ends in `resume` with no await between), `Resume`, `Reject`; `Tick`; and
`Restart`, which drops the coroutines and the approval store and keeps the files.
`Faults` says which failures may occur: a crash, an audit write that raises, a
session write that raises after the approval was created.

*Abstraction.* An intention is a model value and its policy verdict the
constant `Effect`; its SHA-256 hash is the intention itself; a result is named
by the intention that produced it. Tokens, wording and the prompt legend are
left out. The same handler may be called on any id at any time: the operators
are unconstrained. A session write is made or raises, and nothing in between.

### ApprovalGate

The promise: a free action is made by the run that proposes it; a gated one is
offered, and made only by the release of an open offer, once, as it was
offered; a closed offer stays closed; a run makes its actions in order and at
most `MaxSteps` of them. The refinement mapping reads an offer as *open* when
its approval is pending in this process and its session is held and not expired,
*released* when it was dispatched, *closed* otherwise.

### ToolCall

*State.* `client[c]` is the coroutine of one `execute`/`execute_structured`:
`waiting` at the await of `post` (tool_agent_client.py:124), `backoff` at the
`asyncio.sleep`s, `attempt` and the attempts it gave up without an answer.
`handlers[c][n]` is the request of attempt `n` and the handler that serves it:
`sent` until it is delivered (which may never happen), `inferring` at the await
of the model, `running` at the await of the function, with `at` the position in
`priority_list`. `started` and `returned` are histories of the functions.

*Actions.* `Call`, `Resend` (a POST); `TimesOut`, `ConnectionBreaks`, `Receive`
(what follows the await of the POST); `Deliver`, `Infer`, `FunctionReturns`,
`FunctionRaises` (the handler between two awaits); `ServerStops`. An attempt the
client gave up goes on: neither httpx nor FastAPI cancels it.

*Abstraction.* A request is a record of what its handling depends on: mode, the
order in which agents are tried, whether the agent has the function and its
mandatory arguments (`accepted`), whether an argument is no longer a string
after coercion (`typed`). In natural mode what the model answers is a choice.
The message of an exception is the class `_classify_exception` puts it in. What
the function does to a device is not modelled: `started` says that it may have.

### Policy

*State.* `raw` is the operator's file, `policy` the rules accepted so far, and
`rule` the one a `for` loop has come to: that of `load_policy` (loading.py:27)
while `pc` is `loading`, that of `evaluate` (engine.py:46) while it is
`evaluating`. `augmented` is the arguments `decide` builds (decision.py:41-47),
`proposed` and `audit` the intentions given to it and the verdicts it wrote.

*Actions.* `AcceptRule`, `RefusePolicy`, `Serve`; `RaiseInvalid`,
`BeginEvaluation` (the check against the catalog and the pseudo-arguments);
`TryNextRule`, `ReturnMatch`, `DenyByDefault`, the last two with the audit.

*Abstraction.* A glob is the set of names it matches. An argument dict is a
function on all keys with `Absent`; `ScopeKey[a]` is the key `f"{a}__scope"`, so
that an argument the LLM itself calls `ip__scope` is in the model. The vault is
the constant `Scope`: the scope of a value that is exactly a token.

*The meaning.* `Warranted` says what verdict a policy warrants, without the
evaluator: `Accepted` is the set of values a condition accepts, `Sees` the value
a rule sees under a key. `FirstMatchDecides` compares the two.

### OpnsenseAgent, WireguardAgent, CrowdsecAgent, OpnsenseChange

*State.* `calls[c]` is the coroutine of one function of the agent at the request
it awaits, `requests` what was sent and is not served, with `awaited` false once
the client gave up. The device is external: `config` is its configuration,
`running` the part in effect, per service, and `savepoints` its restore points.
A change is named by the call and the request that make it: a tunnel is two
changes, the server and the peer.

*Plans.* `OpnsenseAgent!Functions` gives for each registered function the
requests it makes, in the words of the code: the client method it calls, the
decorator, `ThenIfSaved` for `if result == 'saved': apply`, `ThenAlways`. A
client method that does not exist is a `missing` request, which raises.
`WellFormed` is what the plans have in common, and all the proofs assume.
`WireguardAgent!WireguardFunctions` does the same for the WireGuard agent, which
works on the same firewall, and whose tunnel is five requests without a `try`;
`CrowdsecAgent!CrowdsecFunctions` for the CrowdSec agent, whose client is
synchronous (`requests`, `subprocess.run`, inside an `async` function): its plans
`block`, and while one of them waits no other coroutine of the process runs
(`Runs`), though the device goes on serving what it was sent.

*Actions.* `Call`; `Answer` and `Refuse` (the device serves a request or says
no, and the function goes on to its next request or its end); `Rejected` (an
HTTP error or no connection), `NotFound` (the 404 for which two methods try a
second endpoint), `GivesUp` (a timeout, or an answer that is no JSON: the
request may still be served, by `ServeLate`).

*Abstraction.* Of the data only whose change it is. Success is any of `saved`,
`deleted` and so on that the function tests. A function that ignores an answer
goes on after a `Refuse`.

### TokenVault

*State.* One run of the loop and its `vault`, with the four tables of the class.
`text` and `todo` are the locals of the `for` loops of `tokenize` and
`_retokenize`; `prompt` is the request and the history as the proposer reads
them, each entry with what was said and how many tokens there were; `args` the
argument of the pending intention, `executed` what reached the agents; `saved`
is the `vault_snapshot` of a suspended session.

*Actions.* `Handle`, `TokenizeNext`, `Tokenized` (the text joins the prompt);
`Allow`, `Suspend`, `Resume`, `End`; `Execute` (the arguments are detokenised
and a result comes back, which may echo them); `KnownFirst`/`ReplaceKnown` and
`ThenTheOthers`, the two halves of `_retokenize`. The proposer writes any word
it was shown.

*Abstraction.* A text is a sequence of a handful of characters, since what
`str.replace` does at the borders of a word is the point: `h` is all of an
address but its last number, `T` the label of its token, `P` the label of a port's;
`Length` counts them as what they stand for, since `sorted` is by length. The
steps of other handlers are in `GatedLoop`: a vault belongs to one run.
`Addresses` is the regular expression of an IPv4 address with the lookaround that is its own: the lookbehind
at extractor.py:38 belongs to the branch for IPv6, so an address is found after a
dot and not before one. `Ports` is the pattern of a port.

There are two labels of seven, and `tokenize` replaces the values of both in one
pass, by length, as the code does. Ports are the second one because their values
are bare numerals: only these can be inside a token that the same pass has
written. No value of the other five can: a token has no dot, slash, colon or hyphen
and no run of 32 hexadecimal characters. A value inside another one (an address in
a subnet, a host name in a longer one) is what an address in a longer address, or
a port in an address, is here. The five are left out with the masking that keeps
a label from finding what an earlier one has found.

*What can be read back.* Not every text: `vault_reversible` finds `h1 h0 :10`
(with ten numerals: ten addresses and a port 10), whose second token `T10` the
pass makes `T` followed by `P1`. `Unambiguous` says which texts can: no label of a
token in the text; no value in one of the tokens; and each address or number had
a token before, or has no value in it that had one, and is tokenised now or has
no value of now in it. The third condition is the one that a text with
`10.0.0.10` fails where `10.0.0.1` is known.

## 3. Runs

| run | expects | what it shows |
|---|---|---|
| `gated_loop` | pass | three handlers and two approval ids, clock 0..2, a session that lives one tick, every fault: all the safety properties of the loop, its action property and the refinement of `ApprovalGate` |
| `gated_loop_live` | pass | every handler ends with a reply |
| `gated_reject` | violation | a reject that comes while the approved action runs leaves a *rejected* approval of an action that was made (README.md:346, loop.py:158) |
| `gated_resume` | violation | `POST /coordinator/resume` on a pending action is always refused (README.md:436-437) |
| `tool_call` | pass | one call of every kind, two retries, timeouts, broken connections, a server that stops: honest reports, retries of the unanswered only, what is left behind, and that the call ends |
| `tool_call_once` | violation | a structured call executes its function twice after a timeout (loop.py:142-143) |
| `tool_call_reply` | violation | a function with an int or bool parameter executes and is answered by an error 500 (contracts.py:5) |
| `policy` | pass | 820 policies, refused or served whole, put to every intention: the evaluator gives the verdict the policy means, the vault's scope wins over the LLM's, and the audit has the intention as proposed |
| `opnsense_change` | pass | any two functions of the three agents on four services, interleaved at the device, with refusals, timeouts, late requests and synchronous calls: no silent staged change, restore points of before the change, every function returns |
| `opnsense_functions` | violation | a registered function fails without the device: a name it uses does not exist |
| `vault` | pass | seven requests, five results and three steps with suspensions, addresses and ports: the vault is a bijection in use and saved, a token keeps its meaning, known addresses are hidden, unambiguous texts can be read back, a token is executed on its own value |
| `vault_reversible` | violation | a port whose number is in the token of an address is replaced inside the token, and the text is not read back (vault.py:2, 126) |

**Bounds, and why they suffice.** In `gated_loop` three calls make the cases
that need several actors: a request and two concurrent decisions on what it
suspended, or two requests and a decision. Two ids let one run suspend twice, or
two runs once each. `MaxSteps = 2` lets a run go on after a resumption and reach
the bound; a session that lives for one tick of a clock of three values expires
before, during and after a decision. Calls and ids are symmetric: no action
compares or orders them. `CHECK_DEADLOCK FALSE`: a coordinator without requests
may stop. `gated_loop_live` uses two calls, one id and no symmetry.

The `tool_call` runs use one call, since calls share no state (the only step
that concerns several is `ServerStops`), the code's own `_MAX_RETRIES = 2`, two
agents in natural mode and every combination of `accepted` and `typed`.

The `policy` run takes three rules, since a rule decides by its place after one
that does not apply and before one that does, and nine kinds of them: one per
operator, a rule on two arguments, `in` with a string, one that covers no known
capability and one that does not parse. One proposal per run: `decide` keeps no
state but the audit, and the proofs hold for any number. It stops there, and
when the policy is refused (`CHECK_DEADLOCK FALSE`).

The `opnsense_change` run takes two calls, one to be disturbed and one to
disturb it: every pair of functions on the filter (with NAT and categories), the
resolver, the DHCP server and WireGuard, or with no change at all, those of the
CrowdSec agent included. The plans on the other services have the shapes of
these, and `TableAssumption` checks that they are well formed, which is what the
proofs, for any number of calls, start from. It stops when both have returned
(`CHECK_DEADLOCK FALSE`).

The `vault` runs count with two numerals instead of ten, so that the token `T1`
is the beginning of `T10` with the second value instead of the tenth; addresses
begin with one another in the same way. Three steps let a value come from a
result, be used in an action, and come back in the next result. The requests and
results have an address alone, two of one length, one that is the beginning of
another, one before a dot, which the extractor does not find, and one after a
dot, which it does; a port whose number is that of a token, one whose number is
in no token, a number that begins with a port, and a port that comes in a result
beside a number that no label finds. A run ends
(`CHECK_DEADLOCK FALSE`).

**Fairness.** `GatedLoop!Fairness` is weak fairness of what follows an await:
the proposer's and the agent's calls are bounded by their clients' timeouts
(`httpx.Timeout(30.0)` in tool_agent_client.py and a bounded number of retries; the
LLM clients have timeouts of their own), so an await ends, with an answer or an
exception. Nothing is assumed of the operators: a suspended run may wait for
ever, and `CallsEnd` says only that *handlers* end.
`ToolCall!Fairness` assumes the client's own clock only: httpx ends every wait
and asyncio every sleep. Nothing is assumed of the server or the device.
`OpnsenseChange!FairSpec` assumes that httpx ends every wait, by an answer or by
its timeout, and nothing of the device.

**Mutants.** Each property of a passing run has a variant of one definition (a
dropped guard, a missing delete, an off-by-one, a swapped order), written
beside it as `<definition>_<what it does>`, that violates the property.

## 4. What the code does that its documents do not say

`PROJECT.json` lists these under `findings`, each with the run that shows it:

- `reject()` looks at no state: the approval of an action that is running or
  done becomes `rejected`, and the operator is answered `denied`.
- `resume` alone never executes: it needs the state `approved`, which only
  `approve` sets and the same call consumes. The README gives it as the way to
  execute a suspended action.
- one `execute` of the loop can execute its function three times: the client
  posts again after a timeout and after an unreachable device.
- a function with an `int` or `bool` parameter executes, and its reply fails the
  validation of its own arguments.
- twenty-two functions of the OPNsense agent use a name that does not exist
  (`self.client`, `logger`, client methods) and fail whatever the device does.
- `tokenize` replaces a port inside a token it has just written (`IP_ADDRESS_10`
  and the port 10), and `_retokenize` a known address inside a longer one: with
  ten tokens issued, the proposer reads `10.0.0.10` as the token of another host.

Seen while modelling and not made into runs:

- when no attempt is left an API_UNREACHABLE answer is returned, where the
  docstring of `_post_execute` (tool_agent_client.py:119-120) says that it raises,
  and the loop then audits `executed`, as it does for MISSING_ARG and
  FUNCTION_UNKNOWN: the entry says that the agent was asked and answered, not that
  the function ran. `AuditFollowsTheAnswers` claims the former and no more.
- in natural mode an exception after the function acted makes the server try the
  next agent, against its comment (server.py:333-334).
- a restore point that cannot be made is logged, and the change made without it,
  where _base.py:49 promises one before every destructive operation;
  `del_dns_override` does not ask for one.
- an address followed by `.` or `:` is not found by the extractor, and reaches
  the proposer as it is unless the vault knows it already (vault.py:4).
- the lookarounds of the pattern for addresses are of one branch each, since `|`
  binds weaker: an IPv4 address is found after `.` or `:` and an IPv6 one before
  it, where the comment at extractor.py:23-25 wants neither on both sides.
- `detokenize` also replaces the beginning of a token that was not issued
  (`IP_ADDRESS_10` with only `IP_ADDRESS_1` issued), against vault.py:133-135.
- on Linux a mesh has a pre-shared key per direction instead of one per pair
  (wireguard_agent.py:546); `rotate_keys` makes keys and keeps the old ones in
  place; `unblock_ip` answers `unblocked` over an inner error (_legacy.py:76-77).

## 5. Proofs

`GatedLoopProofs` and `GateRefinementProofs` prove, for any number of calls,
approval ids, intentions and steps, any policy and any set of faults, under the
ASSUMEs of `GatedLoop` (the effect is one of three, the bounds are naturals and
the time to live is positive, `NoApproval` is not an id): `TypeCorrect`,
`AtMostOnce`, `DecisionConsumesSession`, `RunsDoNotFork`,
`NothingUndecidedRuns`, `ApprovedOnlyWhilePending`, `RunsAreBounded`,
`AuditIsInStep`, `ResultsFaithful`, and `LoopImplementsGate`, the refinement
`Spec => Gate!Spec`.

*The inductive invariant.* "No step twice" is not inductive: a decision may
execute a step only because the session it found says so. `IInv` therefore adds
what a session, a ticket and a dispatch say about the place where their run is:
`IdleIsFresh` (a call that has not started left no trace), `OnePlacePerRun` (a
run is in one handler or one session), `TicketsNameSessions` (a session is that
of a request made under its id, ids are never reused), `DispatchesNameTickets`,
`StepsAreBehind` (wherever a run is, what it dispatched has a smaller step, or
is the dispatch it awaits), `TicketsWereDecided`. `SessionAwaitsDecision` is the
one that carries the argument for concurrent decisions: a session on disk means
that no decision was taken in this process, and a decision deletes it in the
same step. The proof that a step preserves `IInv` has one lemma per action; the
operations that only take things away (a reply, an expiry, a reject, a restart)
share the lemma `Withdraw`. TLC found `IInv` to hold on the instance of `gated_loop` before it was proved.

*The audit.* `AuditIsInStep` is about both sides of the audit file: nothing goes on
from an execution that is not in it, and it has no execution that was not asked of
the agent client or whose call has not ended. It is not about what the agent did:
an answer API_UNREACHABLE, MISSING_ARG or FUNCTION_UNKNOWN is audited `executed` as
any other (loop.py:258), and the model does not tell answers apart.

*Refinement.* `ResultsFaithful` and `IInv` give `NextStep` of the gate: the
earlier steps of a run were made and the present one was not. Each action then
maps to `Perform`, `Offer`, `Release`, `Close` or a stutter.

`ToolCallProofs` does the same for a call, for any number of calls, agents and
retries and any set of requests: `CallTypeCorrect`, `ReportsAreHonest`,
`OnlyUnansweredIsRetried`, `OnlyAbandonedIsLeft`, `SuccessStopsSearch`. Its
invariant ties the client to the handler it awaits (`ClientOK`: an ended client
took the answer of an answered handler, or gave up) and the histories to the
handlers (`HandlerOK`: a function that returned has its handler answered `ok`).

`PolicyProofs` holds for every catalog, policy, set of values and number of
proposals. Its invariant says where the loops are: `LoadOK` (what is accepted is
a prefix of the file), `EvaluationOK` (no rule before `rule` applies), `AuditOK`
(a verdict follows from the evaluator). The lemmas `AugmentIsSeen` and
`ArgMatchesAccepts` then give `EvaluatorIsTheMeaning`, and
`OverwrittenIsNotSeen` the theorem on scopes. The assumptions are those on the
key `f"{a}__scope"`: it differs from `a`, and determines it.

`OpnsenseProofs` holds for any number of calls and any well-formed plans. The
invariant says of a coroutine what its request and outcomes mean for the device:
a call whose change was not sent is nowhere at the device, not in `config`, not
in `running`, not in a restore point (so the restore point it makes is clean, and
so is any configuration restored from one); a change and an awaited apply that
was answered left it in effect or not in the configuration, every one of its changes
(that all of them are sent before the apply is `WellFormed`). `ServeLate` is what
makes it delicate: a request given up is served at any later time. A late change
stays out of the claim since `WellFormed` plans send none twice or after their
apply, and since a function whose change failed has ended.

`VaultProofs` holds for every numeral system, text, result and bound. `Inv` says
where the run is in its steps (`StepsOK`) and that the vault in use and the one a
snapshot restores to are both bijections, the tokens of each label numbered without
a gap. `IssueFacts` (a new token disturbs no other) and `RestoreFacts` (`restore`
of `snapshot` inverts the table) carry it, and give `TokensAreStable` for the live and the saved table
alike: this is where the counters in the snapshot are needed.

*Texts.* `str.replace`, the numerals of a token and `detokenize` are recursive
functions. `TextProofs` shows once that a function defined from what it is at
smaller arguments exists (`RecursionExists`, by induction on a set, which needs
no operator as a parameter), and from it the equations of `Replace` and `Token`.
On these rest `ReplaceHides` (replacing an address by a token hides it, and
replacing any value brings no address into the text: a token has no `h`, and a
text that begins with numerals after the replacement did before, `NumeralsStay`,
so that no address grows), `FoundFacts` (what the extractor finds is an address or
a number), `LongestFirstFacts` (what `sorted` by length returns),
`TokenFacts` (a token is its label and numerals, and two numbers have two tokens)
and `DetokenizeToken` (a token alone becomes its value). The assumptions are
those of the module, which TLC evaluates: there are at least two numerals, no
two alike and none of them a letter of the patterns, and requests and results
are texts.

`TextInv` is the inductive invariant of the run: what the variables hold
(`TextsOK`), only what the extractor finds, an address or a number, has a token
(`ValuesOK`), and `HidingOK`: an address with a token that is in the text being
tokenised is still in `todo`. The last one is
why `_retokenize` must go through the table of the vault first, and it gives
`KnownValuesStayHidden`; `TargetsAreValues` follows from `DetokenizeToken` and
from tokens keeping their value.

`ReversalProofs` is about the texts that meet `Unambiguous`, and about no other. It
sees a text as a sequence of *atoms*, its addresses and numbers as far as their
numerals go, and of other characters; `Render(s, words)` is the text with other
words for its atoms, each the atom itself or a token (`Rewording`). Replacing a
word in a rendered text is rendering with one more word replaced
(`RenderReplace`), provided it is in no word of the text but itself: a value is in
no token and in no longer atom that stays, which is what `Unambiguous` says, and in
no longer value of the same pass, because that one was replaced before. This holds
of addresses and ports alike, and of both passes over a result, `_retokenize`'s and
`tokenize`'s. `ReadBackInv` says that the text being tokenised is the rendering of
what was said by the tokens of the values no longer in `todo` (`Standing`), and that
an unambiguous text of the prompt is a rendering by tokens that mean its atoms.
`DetokenizeRender` reads such a rendering back with any later vault: longer tokens
are replaced first, so that none is replaced inside another, and a token that was
not yet issued is in no text. Without the condition on tokens the theorem is false,
which `vault_reversible` shows.

*Only model-checked*: liveness (`CallsEnd`,
`CallEnds`, `FunctionsReturn`), which is out of the prover's reach.

## 6. Plan

In the order it was built, from the most important behaviour on.

1. `GatedLoop`, `ApprovalGate`, proofs, refinement - done.
2. `ToolCall` and its proofs - done.
3. `Policy` and its proofs - done.
4. `OpnsenseAgent`, `OpnsenseChange` and their proofs - done.
5. `WireguardAgent`, `CrowdsecAgent`, several changes per function - done.
6. `TokenVault` and its proofs - done.

What would come next: a composition of `GatedLoop` and `ToolCall` (an execution
left behind by a step that timed out, against the steps that follow it), and
`TrustOrchestrator`, if a program comes to use it.

**Not modelled, and why.**

- Text: prompts, wording, what the LLM answers and how it is parsed
  (`_parse_model_output`, the proposer's retries on an answer that does not
  parse): every outcome is a choice in the models.
- Tables without state: the classifier's keywords, the manifests and the merge
  of catalogs, the parameter models.
- `TrustOrchestrator` (`core/orchestrator.py`): assembled by its tests only; the
  loop is what replaced it. It executes before it marks an approval, which the
  loop does not (loop.py:141-145).
- The start-up and shut-down of the coordinator: one sequence, no interleaving.
- The rotation of the audit file: what is dropped depends on entry lengths. A
  rotation that fails is `AuditRaises`.
- A crash in the middle of `write_bytes` (session.py:81): the approval id of that
  file was in no reply, and the restart has forgotten the approvals.
- What `RestorePointPredatesChange` and `NoSilentStagedChange` do not say: a restore
  point that could not be made is logged and the change goes on (§4); a tunnel that
  raises between its changes has not returned, and leaves what it made
  (wireguard_agent.py:270); a plan without an apply stages its change by design; and
  a device that makes a change but answers with a word the function does not test is
  left out, the model's success being the word tested.
- `block_ip` and `unblock_ip`, which branch on the words of an answer; the
  simulation modes; the Linux and pfSense platforms of the agents and their
  clients, and the pfSense and Stormshield agents: `server.py` registers none of
  them.
- The spaCy extractor, the other five patterns of the regular one, and the
  anonymiser, a language agent the coordinator does not use.
- GPU and inference clients (pure I/O), authentication (a stateless comparison),
  the dashboard (a stateless relay; the paths it relays to, `/api/command` and
  `/coordinator/checkpoint/...`, are not those of `coordinator/app.py`).
