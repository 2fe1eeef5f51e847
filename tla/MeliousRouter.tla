--------------------------- MODULE MeliousRouter ---------------------------
(* The fallback router of kernel/sidecar/melious_router.py: concurrent      *)
(* calls of _complete walk the chain of models 1 .. Routes; each model has  *)
(* a circuit breaker and a Retry-After cooldown, both guarded by one lock   *)
(* that is never held over the request to the provider.                     *)
(*                                                                          *)
(* Between two critical sections a call is at a position:                   *)
(*   route    at the head of the loop over the models                       *)
(*   call     about to send, or waiting for the provider                    *)
(*   ok, budget, and the Failures  what came back, not yet recorded         *)
(*   check    after a recorded failure, about to look at the breaker again  *)
(*   retry    asleep before the next attempt                                *)
(*   unwind   in the finally clause, then at `then'                         *)
(* The clock appears as Recover and CooldownEnds.  The code reads it before *)
(* it takes the lock; a call refused by an older reading takes the same     *)
(* step (on to the next model) it could have taken at that reading.         *)
EXTENDS Naturals, FiniteSets

CONSTANTS Calls,      \* the threads that call complete, each again and again
          Routes,     \* len(self.models)
          Threshold,  \* CircuitBreaker.failure_threshold
          MaxRetries, \* max_retries
          MaxEpoch    \* bound: no call begins once a generation has reached it

ASSUME RouterAssumption ==
  /\ Routes \in Nat \ {0}
  /\ Threshold \in Nat \ {0}
  /\ MaxRetries \in Nat
  /\ MaxEpoch \in Nat

VARIABLES
  circuit,    \* opened_at: None ("closed"), recent ("open"), recovery over ("due")
  failures,   \* CircuitBreaker.failures
  probing,    \* CircuitBreaker.probing
  generation, \* CircuitBreaker.generation
  cooling,    \* now < _cooldown_until
  pc,         \* position of a call
  route,      \* index of its model
  attempt,    \* attempts made on that model before this one
  epoch,      \* the generation it was admitted in
  probe,      \* is_probe
  late,       \* it has seen its deadline pass
  then        \* where the finally clause leads

breakers == <<circuit, failures, probing, generation>>
locals == <<route, attempt, epoch, probe, late>>
vars == <<breakers, cooling, pc, locals, then>>

Models == 1 .. Routes
Failures == {"error", "429", "5xx", "4xx"}
Trying == {"call", "ok", "budget", "check", "retry", "unwind"} \cup Failures

TypeOK ==
  /\ circuit \in [Models -> {"closed", "open", "due"}]
  /\ failures \in [Models -> Nat]
  /\ probing \in [Models -> BOOLEAN]
  /\ generation \in [Models -> Nat]
  /\ cooling \in [Models -> BOOLEAN]
  /\ pc \in [Calls -> {"idle", "route"} \cup Trying]
  /\ route \in [Calls -> 1 .. Routes + 1]
  /\ attempt \in [Calls -> 0 .. MaxRetries]
  /\ epoch \in [Calls -> Nat]
  /\ probe \in [Calls -> BOOLEAN]
  /\ late \in [Calls -> BOOLEAN]
  /\ then \in [Calls -> {"route", "idle"}]

Init ==
  /\ circuit = [m \in Models |-> "closed"]
  /\ failures = [m \in Models |-> 0]
  /\ probing = [m \in Models |-> FALSE]
  /\ generation = [m \in Models |-> 0]
  /\ cooling = [m \in Models |-> FALSE]
  /\ pc = [c \in Calls |-> "idle"]
  /\ route = [c \in Calls |-> 1]
  /\ attempt = [c \in Calls |-> 0]
  /\ epoch = [c \in Calls |-> 0]
  /\ probe = [c \in Calls |-> FALSE]
  /\ late = [c \in Calls |-> FALSE]
  /\ then = [c \in Calls |-> "idle"]

-----------------------------------------------------------------------------
(* The breaker.  An outcome counts only in the epoch of its admission.      *)

successAnyEpoch(m, g) ==
  /\ circuit' = [circuit EXCEPT ![m] = "closed"]
  /\ failures' = [failures EXCEPT ![m] = 0]
  /\ probing' = [probing EXCEPT ![m] = FALSE]
  /\ UNCHANGED generation

success(m, g) ==
  IF g = generation[m]
    THEN /\ circuit' = [circuit EXCEPT ![m] = "closed"]
         /\ failures' = [failures EXCEPT ![m] = 0]
         /\ probing' = [probing EXCEPT ![m] = FALSE]
         /\ generation' = IF circuit[m] = "closed" THEN generation
                          ELSE [generation EXCEPT ![m] = @ + 1]
    ELSE UNCHANGED breakers

failure(m, g) ==
  IF g = generation[m]
    THEN /\ failures' = [failures EXCEPT ![m] = @ + 1]
         /\ probing' = [probing EXCEPT ![m] = FALSE]
         /\ IF failures[m] + 1 >= Threshold
              THEN /\ circuit' = [circuit EXCEPT ![m] = "open"]
                   /\ generation' = [generation EXCEPT ![m] = @ + 1]
              ELSE UNCHANGED <<circuit, generation>>
    ELSE UNCHANGED breakers

(* CLOSED admits everyone, HALF_OPEN one probe, OPEN nobody.                *)
allow(m) == circuit[m] = "closed" \/ (circuit[m] = "due" /\ ~probing[m])

(* Recovery time, and Retry-After, run out.                                 *)
Recover(m) ==
  /\ circuit[m] = "open"
  /\ circuit' = [circuit EXCEPT ![m] = "due"]
  /\ UNCHANGED <<failures, probing, generation, cooling, pc, locals, then>>

CooldownEnds(m) ==
  /\ cooling[m]
  /\ cooling' = [cooling EXCEPT ![m] = FALSE]
  /\ UNCHANGED <<breakers, pc, locals, then>>

-----------------------------------------------------------------------------
(* The steps of a call.                                                     *)

(* A deadline check: the deadline passed, now or before, or has not yet.    *)
Late(c) == late' = [late EXCEPT ![c] = TRUE]
InTime(c) == ~late[c] /\ UNCHANGED late

Goto(c, p) == pc' = [pc EXCEPT ![c] = p]

(* Leave the loop over attempts: through the finally clause to p.           *)
Leave(c, p) == Goto(c, "unwind") /\ then' = [then EXCEPT ![c] = p]

(* The payload is valid and the request was counted; a call that is refused *)
(* here has changed nothing.                                                *)
Begin(c) ==
  /\ pc[c] = "idle"
  /\ \A m \in Models : generation[m] < MaxEpoch
  /\ Goto(c, "route")
  /\ UNCHANGED <<breakers, cooling, locals, then>>

(* Admission to the next model of the chain.                                *)
Admit(c) ==
  LET m == route[c] IN
  /\ pc[c] = "route"
  /\ m \in Models
  /\ InTime(c)
  /\ ~cooling[m] /\ allow(m)
  /\ probing' = [probing EXCEPT ![m] = @ \/ circuit[m] # "closed"]
  /\ probe' = [probe EXCEPT ![c] = probing'[m]]
  /\ epoch' = [epoch EXCEPT ![c] = generation[m]]
  /\ attempt' = [attempt EXCEPT ![c] = 0]
  /\ Goto(c, "call")
  /\ UNCHANGED <<circuit, failures, generation, cooling, route, then>>

Skip(c) ==
  LET m == route[c] IN
  /\ pc[c] = "route"
  /\ m \in Models
  /\ InTime(c)
  /\ cooling[m] \/ ~allow(m)
  /\ route' = [route EXCEPT ![c] = @ + 1]
  /\ UNCHANGED <<breakers, cooling, pc, attempt, epoch, probe, then>>

(* No model left, no time left, or no lock: RouterError.                    *)
GiveUp(c) ==
  /\ pc[c] = "route"
  /\ Goto(c, "idle")
  /\ route' = [route EXCEPT ![c] = 1]
  /\ late' = [late EXCEPT ![c] = FALSE]
  /\ UNCHANGED <<breakers, cooling, attempt, epoch, probe, then>>

(* The request to the provider: refused for lack of time, answered, failed, *)
(* or interrupted by a BaseException, which no handler catches.             *)
Send(c) ==
  /\ pc[c] = "call"
  /\ \/ Late(c) /\ Goto(c, "error") /\ UNCHANGED then
     \/ InTime(c) /\ (\E o \in {"ok", "budget"} \cup Failures : Goto(c, o)) /\ UNCHANGED then
     \/ InTime(c) /\ Leave(c, "idle")
  /\ UNCHANGED <<breakers, cooling, route, attempt, epoch, probe>>

(* A valid completion is recorded and returned.  When the lock is not had   *)
(* in time the RouterError is handled like a failure of the provider.       *)
Accept(c) ==
  /\ pc[c] = "ok"
  /\ \/ success(route[c], epoch[c]) /\ Leave(c, "idle")
     \/ Goto(c, "error") /\ UNCHANGED <<breakers, then>>
  /\ UNCHANGED <<cooling, locals>>

(* BudgetExhaustedError: the provider is healthy; no fallback.              *)
Exhausted(c) ==
  /\ pc[c] = "budget"
  /\ success(route[c], epoch[c]) \/ UNCHANGED breakers
  /\ Leave(c, "idle")
  /\ UNCHANGED <<cooling, locals>>

(* Every other failure: recorded if the lock is had in time; 429 may carry  *)
(* a cooldown; whether the same model is worth another attempt.             *)
NoRetry(c) ==
  \/ pc[c] \in {"429", "4xx"}
  \/ pc[c] = "5xx" /\ route[c] < Routes
  \/ probe[c]

Failed(c) ==
  /\ pc[c] \in Failures
  /\ \/ /\ failure(route[c], epoch[c])
        /\ \/ UNCHANGED cooling
           \/ pc[c] = "429" /\ cooling' = [cooling EXCEPT ![route[c]] = TRUE]
     \/ UNCHANGED <<breakers, cooling>>
  /\ IF NoRetry(c) THEN Leave(c, "route") ELSE Goto(c, "check") /\ UNCHANGED then
  /\ UNCHANGED locals

(* A second critical section: no backoff on an open circuit, after the last *)
(* attempt, or when the delay would reach the deadline.                     *)
Check(c) ==
  /\ pc[c] = "check"
  /\ \/ Leave(c, "route")
     \/ /\ circuit[route[c]] = "closed" /\ attempt[c] < MaxRetries
        /\ Goto(c, "retry") /\ UNCHANGED then
  /\ UNCHANGED <<breakers, cooling, locals>>

(* Backoff is not a lease: the retry is admitted anew.                      *)
RetryAdmissible(c) ==
  LET m == route[c] IN
  generation[m] = epoch[c] /\ circuit[m] = "closed" /\ ~cooling[m]

RetryUncounted(c) ==
  /\ pc[c] = "retry"
  /\ InTime(c) /\ RetryAdmissible(c) /\ Goto(c, "call")
  /\ UNCHANGED <<breakers, cooling, route, attempt, epoch, probe, then>>

Retry(c) ==
  /\ pc[c] = "retry"
  /\ \/ /\ InTime(c) /\ RetryAdmissible(c)
        /\ attempt' = [attempt EXCEPT ![c] = @ + 1]
        /\ Goto(c, "call") /\ UNCHANGED then
     \/ InTime(c) /\ ~RetryAdmissible(c) /\ Leave(c, "route") /\ UNCHANGED attempt
     \/ InTime(c) /\ Leave(c, "idle") /\ UNCHANGED attempt
     \/ Late(c) /\ Leave(c, "route") /\ UNCHANGED attempt
  /\ UNCHANGED <<breakers, cooling, route, epoch, probe>>

(* The variables of the loop body are forgotten with it.                    *)
OutOfScope(c) ==
  /\ attempt' = [attempt EXCEPT ![c] = 0]
  /\ epoch' = [epoch EXCEPT ![c] = 0]
  /\ probe' = [probe EXCEPT ![c] = FALSE]

UnwindKeepsLease(c) ==
  /\ pc[c] = "unwind"
  /\ Goto(c, then[c])
  /\ route' = [route EXCEPT ![c] = IF then[c] = "route" THEN @ + 1 ELSE 1]
  /\ OutOfScope(c)
  /\ then' = [then EXCEPT ![c] = "idle"]
  /\ late' = [late EXCEPT ![c] = @ /\ then[c] = "route"]
  /\ UNCHANGED <<breakers, cooling>>

(* The finally clause returns a probe lease nobody settled.                 *)
Unwind(c) ==
  LET m == route[c] IN
  /\ pc[c] = "unwind"
  /\ IF probe[c] /\ probing[m] THEN failure(m, epoch[c]) ELSE UNCHANGED breakers
  /\ Goto(c, then[c])
  /\ route' = [route EXCEPT ![c] = IF then[c] = "route" THEN @ + 1 ELSE 1]
  /\ OutOfScope(c)
  /\ then' = [then EXCEPT ![c] = "idle"]
  /\ late' = [late EXCEPT ![c] = @ /\ then[c] = "route"]
  /\ UNCHANGED cooling

Step(c) ==
  \/ Begin(c) \/ Admit(c) \/ Skip(c) \/ GiveUp(c) \/ Send(c) \/ Accept(c)
  \/ Exhausted(c) \/ Failed(c) \/ Check(c) \/ Retry(c) \/ Unwind(c)

Next ==
  \/ \E c \in Calls : Step(c)
  \/ \E m \in Models : Recover(m) \/ CooldownEnds(m)

Spec == Init /\ [][Next]_vars
(* Threads run and the transport's timeout ends every request; nothing is   *)
(* assumed of the provider, and a caller may never call.                    *)
FairSpec == Spec /\ \A c \in Calls : WF_vars(pc[c] # "idle" /\ Step(c))

-----------------------------------------------------------------------------
(* The call that holds the half-open lease of m.                            *)
HoldsLease(c, m) ==
  probe[c] /\ route[c] = m /\ epoch[c] = generation[m] /\ pc[c] \in Trying

(* A half-open circuit is held by exactly the one call that was admitted as *)
(* its probe and is still under way: the lease is neither shared, nor taken *)
(* over by a call of an earlier epoch, nor left behind by any way out of    *)
(* _complete (lines 26-31, 505-513).                                        *)
LeaseOwned ==
  \A m \in Models :
    /\ probing[m] <=> \E c \in Calls : HoldsLease(c, m)
    /\ \A c, d \in Calls : HoldsLease(c, m) /\ HoldsLease(d, m) => c = d

(* Once a circuit has opened, only its own probe decides what becomes of    *)
(* it: answers to requests sent before the outage neither close it nor      *)
(* prolong it (lines 33-36, 41-43).                                         *)
OnlyProbeDecides ==
  [][\A m \in Models :
       /\ circuit[m] # "closed"
       /\ <<circuit[m], failures[m], generation[m]>>'
            # <<circuit[m], failures[m], generation[m]>>
       => \/ circuit[m] = "open" /\ circuit'[m] = "due"
          \/ \E c \in Calls : HoldsLease(c, m)  /\ ~HoldsLease(c, m)']_vars

(* A request that is under way ends, whatever the provider and the other    *)
(* calls do: no model keeps it and no lock order blocks it.                 *)
CallsEnd == \A c \in Calls : pc[c] = "route" ~> pc[c] = "idle"
=============================================================================
