----------------------------- MODULE ApprovalGate -----------------------------
(***************************************************************************)
(* What the coordinator promises about the actions it makes: an action the *)
(* policy leaves free is made by the run that proposes it; an action it    *)
(* gates is first offered to an operator and made only by the release of   *)
(* an open offer, once, as it was offered; an offer that is closed (by a   *)
(* reject, by its expiry, by a restart) stays closed; any other action is  *)
(* never made.  A run makes its actions one per step and at most MaxSteps. *)
(* How decisions are stored, raced, expired or lost is GatedLoop's affair. *)
(***************************************************************************)
EXTENDS Naturals

CONSTANTS
  Runs,       \* requests being served
  Offers,     \* names of the offers made to operators
  Free,       \* actions made without asking
  Gated,      \* actions made only when released
  MaxSteps    \* actions a run may make

VARIABLES
  offered,    \* every offer made: its name, its run and step, its action
  standing,   \* the standing of each offer
  done        \* the actions made, each with its run and step

vars == <<offered, standing, done>>

OfferRecord == [id : Offers, run : Runs, step : Nat, intention : Gated]
DoneRecord == [run : Runs, step : Nat, intention : Free \cup Gated]

\* The next step of the run is k: every earlier one was made, k was not.
NextStep(r, k) ==
  /\ k < MaxSteps
  /\ \A x \in done : x.run = r => x.step < k
  /\ k = 0 \/ \E x \in done : x.run = r /\ x.step = k - 1

Make(r, k, a) == done' = done \cup {[run |-> r, step |-> k, intention |-> a]}

Init == offered = {} /\ standing = [o \in Offers |-> "unused"] /\ done = {}

Perform(r, k, a) ==
  /\ NextStep(r, k)
  /\ Make(r, k, a)
  /\ UNCHANGED <<offered, standing>>

\* An offer opens, or is closed at once when it could not be kept.
Offer(o, r, k, a) ==
  /\ standing[o] = "unused"
  /\ NextStep(r, k)
  /\ offered' = offered \cup {[id |-> o, run |-> r, step |-> k, intention |-> a]}
  /\ \E s \in {"open", "closed"} : standing' = [standing EXCEPT ![o] = s]
  /\ UNCHANGED done

Release(x) ==
  /\ standing[x.id] = "open"
  /\ NextStep(x.run, x.step)
  /\ standing' = [standing EXCEPT ![x.id] = "released"]
  /\ Make(x.run, x.step, x.intention)
  /\ UNCHANGED offered

\* One offer is rejected, or all those that expire or are lost together close.
Close(O) ==
  /\ \A o \in O : standing[o] = "open"
  /\ standing' = [o \in Offers |-> IF o \in O THEN "closed" ELSE standing[o]]
  /\ UNCHANGED <<offered, done>>

Next ==
  \/ \E r \in Runs, k \in 0..(MaxSteps - 1), a \in Free : Perform(r, k, a)
  \/ \E o \in Offers, r \in Runs, k \in 0..(MaxSteps - 1), a \in Gated : Offer(o, r, k, a)
  \/ \E x \in offered : Release(x)
  \/ \E O \in SUBSET Offers : Close(O)

Spec == Init /\ [][Next]_vars
=============================================================================
