----------------------------- MODULE OpnsenseChange -----------------------------
(***************************************************************************)
(* A change made on the firewall by a function of the OPNsense agent       *)
(* (agents/opnsense/*.py, clients/opnsense_api_client.py) or of the        *)
(* WireGuard agent: a restore point, the changes themselves, and the       *)
(* reconfiguration that puts them into effect are separate requests to the *)
(* device, each awaited.  Functions called by several requests are         *)
(* interleaved there, and the client gives up on a request that the device *)
(* may still serve.  A function of the CrowdSec agent, in the same         *)
(* process, does not await its request: nothing else runs until it ends.   *)
(*                                                                         *)
(* What a function asks is its plan (modules OpnsenseAgent, WireguardAgent *)
(* and CrowdsecAgent).  A change is named by the call and the request that *)
(* make it.  The device is external: it has a configuration, the part of   *)
(* it in effect, and restore points.                                       *)
(***************************************************************************)
EXTENDS Integers, Sequences

CONSTANTS
  Calls,      \* invocations of the agent's functions
  Services,   \* the services of the device that are reconfigured apart
  Plans       \* the plans of the functions

Kinds == {"savepoint", "find", "read", "act", "change", "apply", "revert", "restore", "missing"}
OnService == {"change", "apply", "revert"}

\* One request (see OpnsenseAgent), and the requests of a function; `guarded'
\* when its body catches exceptions, `blocks' when its client is synchronous.
Step == [does : Kinds, service : STRING, if_saved : BOOLEAN,
         retry : {"never", "404", "any"}, caught : BOOLEAN]
Plan == [steps : Seq(Step), guarded : BOOLEAN, blocks : BOOLEAN]

Steps(p) == DOMAIN p.steps
Does(p, k, kinds) == k \in Steps(p) /\ p.steps[k].does \in kinds

\* What all the functions have in common: their changes are in one service,
\* never sent twice, after the restore point, and what is reconfigured after
\* them is that service.
WellFormed(p, services) ==
  /\ p \in Plan
  /\ \A k \in Steps(p) :
       /\ Does(p, k, OnService) => p.steps[k].service \in services
       /\ p.steps[k].if_saved => k = Len(p.steps)
       /\ p.steps[k].caught => Does(p, k, {"savepoint"})
       /\ p.steps[k].retry = "any" => Does(p, k, {"read"})
       /\ p.steps[k].retry # "never" => ~Does(p, k, {"change"})
  /\ \A j, k \in Steps(p) : Does(p, k, {"change"}) =>
       /\ Does(p, j, {"savepoint"}) => j < k
       /\ Does(p, j, {"apply"}) => k < j /\ p.steps[j].service = p.steps[k].service

ASSUME PlansAssumption == \A p \in Plans : WellFormed(p, Services)

VARIABLES
  calls,       \* the coroutine of each call, at the request it awaits
  requests,    \* requests sent and not yet served by the device
  config,      \* the device: the changes in its configuration, per service
  running,     \* the device: the changes in effect, per service
  savepoints   \* the device: restore points, and the call that asked for each

vars == <<calls, requests, config, running, savepoints>>

Idle == [pc |-> "idle"]
Outcomes == {"none", "ok", "refused", "failed"}

\* `step' is the request awaited, `again' its second endpoint.  The last three
\* are what came of the restore point, of the change, which the function
\* returns, and of the reconfiguration.
Coroutine(p) ==
  [pc : {"awaits", "returned", "error", "raised"}, plan : {p}, step : Nat, again : BOOLEAN,
   point : Outcomes, answer : Outcomes, applied : Outcomes]

\* `awaited': the client still waits for the answer.
Request == [call : Calls, step : Nat, awaited : BOOLEAN]
ChangeId == [call : Calls, step : Nat]
Config == [Services -> SUBSET ChangeId]
Savepoint == [by : Calls, config : Config]

Awaits(c) == calls[c].pc = "awaits"
Doing(c) == calls[c].plan.steps[calls[c].step]

\* The process can run the coroutine of c: no other one blocks it.
Runs(c) == \A d \in Calls \ {c} : ~(Awaits(d) /\ calls[d].plan.blocks)

(***************************************************************************)
(* The agent, between two awaits.                                          *)
(***************************************************************************)
Task(pc, p, k, again, point, answer, applied) ==
  [pc |-> pc, plan |-> p, step |-> k, again |-> again,
   point |-> point, answer |-> answer, applied |-> applied]

Begun(p) == Task("awaits", p, 0, FALSE, "none", "none", "none")

\* The coroutine that knows what came of its request.
Noted(h, outcome) ==
  Task("awaits", h.plan, h.step, FALSE,
       IF Does(h.plan, h.step, {"savepoint"}) THEN outcome ELSE h.point,
       IF Does(h.plan, h.step, {"change"}) THEN outcome ELSE h.answer,
       IF Does(h.plan, h.step, {"apply"}) THEN outcome ELSE h.applied)

At(h, pc, k, again) == Task(pc, h.plan, k, again, h.point, h.answer, h.applied)

\* Mutant of Rest: the request answered stays, and is served again.
Rest_Kept(c) == requests

\* The requests once that of c is answered or given up.
Rest(c) == {r \in requests : r.call # c \/ ~r.awaited}

Becomes(c, h) == calls' = [d \in Calls |-> IF d = c THEN h ELSE calls[d]]

\* The request h is at is sent and awaited.
Post(c, kept, h) ==
  /\ Becomes(c, h)
  /\ requests' = kept \cup {[call |-> c, step |-> h.step, awaited |-> TRUE]}

Reply(c, kept, h) == Becomes(c, h) /\ requests' = kept

\* An exception: a reply {"status": "error"}, or the caller's if not caught.
Fail(c, kept, h) ==
  Reply(c, kept, At(h, IF h.plan.guarded THEN "error" ELSE "raised", h.step, FALSE))

\* Mutant of MoreToAsk: `saved' takes itself for the end of the change.
MoreToAsk_NoApply(h) ==
  /\ h.step + 1 \in Steps(h.plan)
  /\ ~h.plan.steps[h.step + 1].if_saved

\* Whether the request after h's is to be sent: if there is one, and it does
\* not depend on a success that was not answered.
MoreToAsk(h) ==
  /\ h.step + 1 \in Steps(h.plan)
  /\ h.plan.steps[h.step + 1].if_saved => h.answer = "ok"

\* From one request to the next, or to the end of the function.
Resume(c, kept, h) ==
  \/ /\ ~MoreToAsk(h)
     /\ Reply(c, kept, At(h, "returned", h.step, FALSE))
  \/ /\ MoreToAsk(h) /\ Does(h.plan, h.step + 1, {"missing"})
     /\ Fail(c, kept, h)
  \/ /\ MoreToAsk(h) /\ ~Does(h.plan, h.step + 1, {"missing"})
     /\ Post(c, kept, At(h, "awaits", h.step + 1, FALSE))

\* Mutant of Call: the restore point is asked for and not awaited.
Call_FireAndForget(c, p) ==
  /\ calls[c] = Idle /\ Runs(c)
  /\ \/ /\ Does(p, 1, {"savepoint"})
        /\ Resume(c, requests \cup {[call |-> c, step |-> 1, awaited |-> FALSE]},
                  Task("awaits", p, 1, FALSE, "ok", "none", "none"))
     \/ ~Does(p, 1, {"savepoint"}) /\ Resume(c, requests, Begun(p))
  /\ UNCHANGED <<config, running, savepoints>>

\* A function is called.
Call(c, p) ==
  /\ calls[c] = Idle /\ Runs(c)
  /\ Resume(c, requests, Begun(p))
  /\ UNCHANGED <<config, running, savepoints>>

(***************************************************************************)
(* The device.                                                             *)
(***************************************************************************)
MakeSavepoint(c) ==
  /\ savepoints' = savepoints \cup {[by |-> c, config |-> config]}
  /\ UNCHANGED <<config, running>>

MakeChange(c, k, s) ==
  /\ config' = [v \in Services |->
                  IF v = s THEN config[v] \cup {[call |-> c, step |-> k]} ELSE config[v]]
  /\ UNCHANGED <<running, savepoints>>

Reconfigure(s) ==
  /\ running' = [v \in Services |-> IF v = s THEN config[v] ELSE running[v]]
  /\ UNCHANGED <<config, savepoints>>

\* What is not in effect is dropped.
Revert(s) ==
  /\ config' = [v \in Services |-> IF v = s THEN running[v] ELSE config[v]]
  /\ UNCHANGED <<running, savepoints>>

Restore ==
  /\ \E s \in savepoints : config' = s.config /\ running' = s.config
  /\ UNCHANGED savepoints

\* What the device does of a request.
Serve(r) ==
  LET p == calls[r.call].plan
      s == p.steps[r.step].service
  IN
  \/ /\ Does(p, r.step, {"find", "read", "act"})
     /\ UNCHANGED <<config, running, savepoints>>
  \/ Does(p, r.step, {"savepoint"}) /\ MakeSavepoint(r.call)
  \/ Does(p, r.step, {"change"}) /\ MakeChange(r.call, r.step, s)
  \/ Does(p, r.step, {"apply"}) /\ Reconfigure(s)
  \/ Does(p, r.step, {"revert"}) /\ Revert(s)
  \/ Does(p, r.step, {"restore"}) /\ Restore

\* The device serves a request, and the client gets the answer in time.
Answer(r) ==
  /\ r \in requests /\ r.awaited /\ Runs(r.call)
  /\ Serve(r)
  /\ Resume(r.call, Rest(r.call), Noted(calls[r.call], "ok"))

\* The device serves a request nobody waits for any more.
ServeLate(r) ==
  /\ r \in requests /\ ~r.awaited
  /\ Serve(r)
  /\ requests' = requests \ {r}
  /\ UNCHANGED calls

\* The device answers that it did not do it.  Of a change the function looks
\* at the answer, of the others it does not; a look-up finds nothing.
Refuse(r) ==
  LET h == Noted(calls[r.call], "refused") IN
  /\ r \in requests /\ r.awaited /\ Runs(r.call)
  /\ \/ Does(h.plan, h.step, {"find"}) /\ Fail(r.call, Rest(r.call), h)
     \/ /\ ~Does(h.plan, h.step, {"find"})
        /\ Resume(r.call, Rest(r.call), h)
  /\ UNCHANGED <<config, running, savepoints>>

\* Mutant of TryAgain: to the first one again.
TryAgain_Same(c, kept) == Post(c, kept, At(calls[c], "awaits", calls[c].step, FALSE))

\* The request is made to the second endpoint.
TryAgain(c, kept) == Post(c, kept, At(calls[c], "awaits", calls[c].step, TRUE))

\* An exception of the client.  Of a restore point it is logged and ignored.
Exception(c, kept) ==
  \/ /\ Doing(c).retry = "any" /\ ~calls[c].again
     /\ TryAgain(c, kept)
  \/ /\ ~(Doing(c).retry = "any" /\ ~calls[c].again)
     /\ Doing(c).caught
     /\ Resume(c, kept, Noted(calls[c], "failed"))
  \/ /\ ~(Doing(c).retry = "any" /\ ~calls[c].again)
     /\ ~Doing(c).caught
     /\ Fail(c, kept, Noted(calls[c], "failed"))

\* An HTTP error, or a connection that cannot be made: nothing was done.
Rejected(c) ==
  /\ Awaits(c) /\ Runs(c)
  /\ Exception(c, Rest(c))
  /\ UNCHANGED <<config, running, savepoints>>

\* 404 of the first endpoint.
NotFound(c) ==
  /\ Awaits(c) /\ Runs(c)
  /\ Doing(c).retry = "404" /\ ~calls[c].again
  /\ TryAgain(c, Rest(c))
  /\ UNCHANGED <<config, running, savepoints>>

\* The client gives up on a request the device has, or will have: a timeout,
\* or an answer that is an error or no JSON after the request was served.
GivesUp(c) ==
  /\ Awaits(c) /\ Runs(c)
  /\ Exception(c, Rest(c) \cup {[call |-> c, step |-> calls[c].step, awaited |-> FALSE]})
  /\ UNCHANGED <<config, running, savepoints>>

Init ==
  /\ calls = [c \in Calls |-> Idle]
  /\ requests = {}
  /\ config = [s \in Services |-> {}]
  /\ running = [s \in Services |-> {}]
  /\ savepoints = {}

Next ==
  \/ \E c \in Calls : \/ \E p \in Plans : Call(c, p)
                      \/ Rejected(c) \/ NotFound(c) \/ GivesUp(c)
  \/ \E r \in requests : Answer(r) \/ ServeLate(r) \/ Refuse(r)

Spec == Init /\ [][Next]_vars

\* httpx ends every wait, by an answer or by its timeout; nothing is assumed
\* of the device.
Settles(c) ==
  \/ Rejected(c) \/ NotFound(c) \/ GivesUp(c)
  \/ \E r \in requests : r.call = c /\ (Answer(r) \/ Refuse(r))

FairSpec == Spec /\ \A c \in Calls : WF_vars(Settles(c))

(***************************************************************************)
(* Properties                                                              *)
(***************************************************************************)

\* The type invariant, with what a coroutine and its requests have to do with
\* each other: it awaits exactly one, the one of its step.
TypeOK ==
  /\ \A c \in Calls : calls[c] # Idle =>
       /\ calls[c].plan \in Plans
       /\ calls[c] \in Coroutine(calls[c].plan)
       /\ Awaits(c) => /\ calls[c].step \in Steps(calls[c].plan)
                       /\ [call |-> c, step |-> calls[c].step, awaited |-> TRUE] \in requests
  /\ requests \subseteq Request
  /\ \A r \in requests : /\ calls[r.call] # Idle
                         /\ r.step \in Steps(calls[r.call].plan)
                         /\ r.awaited => Awaits(r.call) /\ calls[r.call].step = r.step
  /\ config \in Config
  /\ running \in Config
  /\ savepoints \subseteq Savepoint

\* No change is left staged in silence: when a function that changes and
\* reconfigures has returned the device's success, none of its changes is in
\* the configuration without being in effect, unless the device answered that
\* the reconfiguration was not done (the `saved' test and the call after it;
\* the server and the peer of a tunnel, wireguard_agent.py:270-296).
NoSilentStagedChange ==
  \A c \in Calls : calls[c] # Idle /\ calls[c].pc = "returned" =>
    \A j, k \in Steps(calls[c].plan) :
      LET s == calls[c].plan.steps[k].service IN
      /\ Does(calls[c].plan, k, {"change"}) /\ Does(calls[c].plan, j, {"apply"})
      /\ calls[c].answer = "ok" /\ calls[c].applied # "refused"
      => \A m \in config[s] : m.call = c => m \in running[s]

\* A restore point the function was told of is one of before its change:
\* restoring it takes the change away (safety_snapshot awaits it first).
RestorePointPredatesChange ==
  \A c \in Calls :
    calls[c] # Idle /\ calls[c].point = "ok" =>
      \E s \in savepoints : s.by = c /\ \A v \in Services : \A m \in s.config[v] : m.call # c

\* Every function returns, however the device behaves (the timeout of httpx).
FunctionsReturn == \A c \in Calls : (calls[c] # Idle /\ Awaits(c)) ~> ~Awaits(c)

\* A function fails only by the device: not when it is called, and not by an
\* answer that came in time and says yes.  The table of functions documents
\* the endpoint of each, `"set_filter_rule": self._update_filter_rule,
\* # filter/set_rule' (agents/opnsense/_base.py:202), and this one calls a
\* method that its client does not have.
FailsOnlyByTheDevice ==
  [][\A c \in Calls :
       /\ calls[c] # calls'[c] /\ calls'[c].pc \in {"error", "raised"}
       => Rejected(c) \/ GivesUp(c) \/ \E r \in requests : r.call = c /\ Refuse(r)]_vars
=================================================================================
