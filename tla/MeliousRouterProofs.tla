------------------------ MODULE MeliousRouterProofs ------------------------
(* The half-open lease of MeliousRouter, for any number of callers, models, *)
(* retries and any failure threshold.                                       *)
EXTENDS MeliousRouter, TLAPS

(* A circuit that is not closed has used up its failures, so the next one   *)
(* reopens it; only one whose recovery time is over is being probed.        *)
CircuitCoherent ==
  \A m \in Models :
    /\ circuit[m] # "closed" => failures[m] >= Threshold
    /\ probing[m] => circuit[m] = "due"

(* A call between admission and the end of its finally clause has a model,  *)
(* and was not admitted in the future.                                      *)
Admitted ==
  \A c \in Calls :
    pc[c] \in Trying => route[c] \in Models /\ epoch[c] <= generation[route[c]]

(* Whoever was admitted in the current epoch, and not as a probe, was       *)
(* admitted by a circuit that has stayed closed since.                      *)
OldEpochs ==
  \A c \in Calls :
    pc[c] \in Trying /\ ~probe[c] /\ epoch[c] = generation[route[c]]
      => circuit[route[c]] = "closed"

RetriesLeft == \A c \in Calls : pc[c] = "retry" => attempt[c] < MaxRetries

LeaseInv ==
  TypeOK /\ RetriesLeft /\ CircuitCoherent /\ Admitted /\ OldEpochs /\ LeaseOwned

-----------------------------------------------------------------------------
(* Initially every circuit is closed and nobody calls.                      *)
LEMMA LeaseInit == Init => LeaseInv
  BY RouterAssumption
  DEF Init, LeaseInv, TypeOK, RetriesLeft, CircuitCoherent, Admitted, OldEpochs,
      LeaseOwned, HoldsLease, Trying, Failures, Models

(* What an outcome of call c does to the breaker of its model: nothing, or  *)
(* it closes the circuit, or it counts a failure.                           *)
Outcome(c) ==
  \/ UNCHANGED breakers
  \/ success(route[c], epoch[c])
  \/ failure(route[c], epoch[c])

(* The breakers stay well typed.                                            *)
LEMMA OutcomeTyped ==
  ASSUME TypeOK, NEW c \in Calls, route[c] \in Models, Outcome(c)
  PROVE  /\ circuit' \in [Models -> {"closed", "open", "due"}]
         /\ failures' \in [Models -> Nat]
         /\ probing' \in [Models -> BOOLEAN]
         /\ generation' \in [Models -> Nat]
  <1> DEFINE m == route[c]
  <1>1. m \in Models
    OBVIOUS
  <1> HIDE DEF m
  <1>2. CASE UNCHANGED breakers
    BY <1>2 DEF TypeOK, breakers
  <1>3. CASE success(m, epoch[c]) /\ epoch[c] = generation[m]
    <2>1. /\ circuit' = [circuit EXCEPT ![m] = "closed"]
          /\ failures' = [failures EXCEPT ![m] = 0]
          /\ probing' = [probing EXCEPT ![m] = FALSE]
          /\ generation' = generation \/ generation' = [generation EXCEPT ![m] = @ + 1]
      BY <1>3 DEF success
    <2>2. generation' \in [Models -> Nat]
      BY <1>1, <2>1 DEF TypeOK
    <2> QED
      BY <1>1, <2>1, <2>2 DEF TypeOK
  <1>4. CASE failure(m, epoch[c]) /\ epoch[c] = generation[m]
    <2>1. /\ failures' = [failures EXCEPT ![m] = @ + 1]
          /\ probing' = [probing EXCEPT ![m] = FALSE]
          /\ \/ circuit' = [circuit EXCEPT ![m] = "open"]
                /\ generation' = [generation EXCEPT ![m] = @ + 1]
             \/ circuit' = circuit /\ generation' = generation
      BY <1>4 DEF failure
    <2>2. generation' \in [Models -> Nat]
      BY <1>1, <2>1 DEF TypeOK
    <2>3. failures' \in [Models -> Nat]
      BY <1>1, <2>1 DEF TypeOK
    <2> QED
      BY <1>1, <2>1, <2>2, <2>3 DEF TypeOK
  <1>5. CASE (success(m, epoch[c]) \/ failure(m, epoch[c])) /\ epoch[c] # generation[m]
    BY <1>2, <1>5 DEF success, failure
  <1> QED
    BY <1>2, <1>3, <1>4, <1>5 DEF Outcome, m

(* Other models are left alone; on this one an outcome that counts comes    *)
(* from a closed circuit that stays in its epoch, or starts a new epoch     *)
(* without a probe.                                                         *)
LEMMA OutcomeEffect ==
  ASSUME LeaseInv, NEW c \in Calls, pc[c] \in Trying, Outcome(c)
  PROVE  /\ \A m \in Models \ {route[c]} :
              /\ circuit'[m] = circuit[m] /\ failures'[m] = failures[m]
              /\ probing'[m] = probing[m] /\ generation'[m] = generation[m]
         /\ LET m == route[c] IN
              \/ /\ circuit'[m] = circuit[m] /\ failures'[m] = failures[m]
                 /\ probing'[m] = probing[m] /\ generation'[m] = generation[m]
              \/ /\ circuit[m] = "closed" /\ circuit'[m] = "closed"
                 /\ generation'[m] = generation[m]
                 /\ ~probing'[m] /\ ~probing[m]
                 /\ epoch[c] = generation[m]
              \/ /\ generation'[m] = generation[m] + 1
                 /\ ~probing'[m]
                 /\ circuit'[m] # "closed" => failures'[m] >= Threshold
                 /\ epoch[c] = generation[m]
  <1> DEFINE m == route[c]
  <1>1. m \in Models /\ TypeOK
    BY DEF LeaseInv, Admitted
  <1>2. circuit[m] # "closed" => failures[m] >= Threshold
    BY <1>1 DEF LeaseInv, CircuitCoherent
  <1>3. circuit[m] = "closed" => ~probing[m]
    BY <1>1 DEF LeaseInv, CircuitCoherent
  <1>4. CASE UNCHANGED breakers
    BY <1>1, <1>4 DEF breakers
  <1>5. CASE success(m, epoch[c])
    BY <1>1, <1>3, <1>5 DEF success, breakers, TypeOK
  <1>6. CASE failure(m, epoch[c])
    BY <1>1, <1>2, <1>3, <1>6, RouterAssumption DEF failure, breakers, TypeOK
  <1> QED
    BY <1>4, <1>5, <1>6 DEF Outcome

(* A call under way records an outcome, or none, and goes on with the same  *)
(* model, or ends without a lease: the other calls keep what they hold.     *)
LEMMA TryingStep ==
  ASSUME LeaseInv, NEW c \in Calls, pc[c] \in Trying, Outcome(c),
         \A d \in Calls \ {c} :
           /\ pc'[d] = pc[d] /\ route'[d] = route[d]
           /\ epoch'[d] = epoch[d] /\ probe'[d] = probe[d],
         \/ /\ pc'[c] \in Trying /\ route'[c] = route[c]
            /\ epoch'[c] = epoch[c] /\ probe'[c] = probe[c]
         \/ /\ pc'[c] \notin Trying
            /\ ~probe[c] \/ epoch[c] # generation'[route[c]]
  PROVE  CircuitCoherent' /\ Admitted' /\ OldEpochs' /\ LeaseOwned'
  <1> DEFINE m == route[c]
  <1>1. m \in Models /\ TypeOK /\ epoch[c] <= generation[m]
    BY DEF LeaseInv, Admitted
  <1>2. /\ circuit' \in [Models -> {"closed", "open", "due"}]
        /\ failures' \in [Models -> Nat]
        /\ probing' \in [Models -> BOOLEAN]
        /\ generation' \in [Models -> Nat]
    BY <1>1, OutcomeTyped
  <1>3. /\ circuit \in [Models -> {"closed", "open", "due"}]
        /\ generation \in [Models -> Nat]
        /\ probing \in [Models -> BOOLEAN]
        /\ epoch \in [Calls -> Nat]
    BY <1>1 DEF TypeOK
  <1>4. \A n \in Models \ {m} :
          /\ circuit'[n] = circuit[n] /\ failures'[n] = failures[n]
          /\ probing'[n] = probing[n] /\ generation'[n] = generation[n]
    BY OutcomeEffect
  <1>5. \/ /\ circuit'[m] = circuit[m] /\ failures'[m] = failures[m]
           /\ probing'[m] = probing[m] /\ generation'[m] = generation[m]
        \/ /\ circuit[m] = "closed" /\ circuit'[m] = "closed"
           /\ generation'[m] = generation[m]
           /\ ~probing'[m] /\ ~probing[m]
           /\ epoch[c] = generation[m]
        \/ /\ generation'[m] = generation[m] + 1
           /\ ~probing'[m]
           /\ circuit'[m] # "closed" => failures'[m] >= Threshold
           /\ epoch[c] = generation[m]
    BY OutcomeEffect
  <1>6. \A n \in Models : generation[n] <= generation'[n]
    BY <1>3, <1>4, <1>5
  <1>7. CircuitCoherent'
    <2> SUFFICES ASSUME NEW n \in Models
                 PROVE  /\ circuit'[n] # "closed" => failures'[n] >= Threshold
                        /\ probing'[n] => circuit'[n] = "due"
      BY DEF CircuitCoherent
    <2>1. /\ circuit[n] # "closed" => failures[n] >= Threshold
          /\ probing[n] => circuit[n] = "due"
      BY DEF LeaseInv, CircuitCoherent
    <2> QED
      BY <2>1, <1>4, <1>5
  <1>8. \A d \in Calls : pc'[d] \in Trying =>
          /\ pc[d] \in Trying /\ route'[d] = route[d]
          /\ epoch'[d] = epoch[d] /\ probe'[d] = probe[d]
    OBVIOUS
  <1>9. Admitted'
    <2> SUFFICES ASSUME NEW d \in Calls, pc'[d] \in Trying
                 PROVE  route'[d] \in Models /\ epoch'[d] <= generation'[route'[d]]
      BY DEF Admitted
    <2>1. route[d] \in Models /\ epoch[d] <= generation[route[d]]
      BY <1>8 DEF LeaseInv, Admitted
    <2> QED
      BY <2>1, <1>2, <1>3, <1>6, <1>8
  <1>10. OldEpochs'
    <2> SUFFICES ASSUME NEW d \in Calls, pc'[d] \in Trying, ~probe'[d],
                        epoch'[d] = generation'[route'[d]]
                 PROVE  circuit'[route'[d]] = "closed"
      BY DEF OldEpochs
    <2>1. route[d] \in Models /\ epoch[d] <= generation[route[d]]
      BY <1>8 DEF LeaseInv, Admitted
    <2>2. epoch[d] = generation[route[d]] => circuit[route[d]] = "closed"
      BY <1>8 DEF LeaseInv, OldEpochs
    <2>3. CASE route[d] # m
      BY <2>1, <2>2, <2>3, <1>4, <1>8
    <2>4. CASE route[d] = m
      BY <2>1, <2>2, <2>4, <1>3, <1>5, <1>8
    <2> QED
      BY <2>3, <2>4
  <1>11. LeaseOwned'
    <2>1. ASSUME NEW n \in Models
          PROVE  /\ probing[n] <=> \E d \in Calls : HoldsLease(d, n)
                 /\ \A d, e \in Calls : HoldsLease(d, n) /\ HoldsLease(e, n) => d = e
      BY DEF LeaseInv, LeaseOwned
    <2>2. ASSUME NEW n \in Models, NEW d \in Calls, generation'[n] = generation[n]
          PROVE  HoldsLease(d, n)' <=> HoldsLease(d, n)
      <3>1. CASE d # c
        BY <2>2, <3>1 DEF HoldsLease
      <3>2. CASE d = c
        BY <2>2, <3>2, <1>1 DEF HoldsLease
      <3> QED
        BY <3>1, <3>2
    <2>3. ASSUME NEW n \in Models, NEW d \in Calls, generation'[n] = generation[n] + 1
          PROVE  ~HoldsLease(d, n)'
      <3> SUFFICES ASSUME HoldsLease(d, n)'
                   PROVE  FALSE
        OBVIOUS
      <3>1. pc[d] \in Trying /\ route[d] = n /\ epoch[d] = generation'[n]
        BY <1>8 DEF HoldsLease
      <3>2. epoch[d] <= generation[n]
        BY <3>1 DEF LeaseInv, Admitted
      <3> QED
        BY <3>1, <3>2, <2>3, <1>3
    <2>4. \A n \in Models : generation'[n] = generation[n] => probing'[n] = probing[n]
      BY <1>3, <1>2, <1>4, <1>5
    <2>5. \A n \in Models : generation'[n] # generation[n] =>
             generation'[n] = generation[n] + 1 /\ ~probing'[n]
      BY <1>3, <1>4, <1>5
    <2> SUFFICES ASSUME NEW n \in Models
                 PROVE  /\ probing'[n] <=> \E d \in Calls : HoldsLease(d, n)'
                        /\ \A d, e \in Calls :
                             HoldsLease(d, n)' /\ HoldsLease(e, n)' => d = e
      BY DEF LeaseOwned
    <2>6. CASE generation'[n] = generation[n]
      BY <2>1, <2>2, <2>4, <2>6
    <2>7. CASE generation'[n] # generation[n]
      BY <2>3, <2>5, <2>7
    <2> QED
      BY <2>6, <2>7
  <1> QED
    BY <1>7, <1>9, <1>10, <1>11

(* The locals of a call, the cooldowns and the retries left stay well typed *)
(* in every step.                                                           *)
LocalsOK ==
  /\ cooling \in [Models -> BOOLEAN]
  /\ pc \in [Calls -> {"idle", "route"} \cup Trying]
  /\ route \in [Calls -> 1 .. Routes + 1]
  /\ attempt \in [Calls -> 0 .. MaxRetries]
  /\ epoch \in [Calls -> Nat]
  /\ probe \in [Calls -> BOOLEAN]
  /\ late \in [Calls -> BOOLEAN]
  /\ then \in [Calls -> {"route", "idle"}]

(* A step of _complete keeps the locals well typed.                         *)
LEMMA LocalsStep ==
  ASSUME LeaseInv, NEW c \in Calls, Step(c)
  PROVE  LocalsOK' /\ RetriesLeft'
  <1>1. TypeOK /\ RetriesLeft
    BY DEF LeaseInv
  <1>2. pc[c] \in Trying => route[c] \in Models
    BY DEF LeaseInv, Admitted
  <1> USE RouterAssumption
  <1>3. CASE Begin(c)
    BY <1>1, <1>3 DEF Begin, Goto, TypeOK, LocalsOK, RetriesLeft, locals, Trying, Failures
  <1>4. CASE Admit(c)
    <2>1. probe' \in [Calls -> BOOLEAN]
      <3>1. route[c] \in Models /\ probing'[route[c]] \in BOOLEAN
        BY <1>1, <1>4 DEF Admit, TypeOK
      <3> QED
        BY <1>1, <1>4, <3>1 DEF Admit, TypeOK
    <2> QED
      BY <1>1, <1>4, <2>1
      DEF Admit, Goto, InTime, TypeOK, LocalsOK, RetriesLeft, Trying, Failures
  <1>5. CASE Skip(c)
    BY <1>1, <1>5 DEF Skip, InTime, TypeOK, LocalsOK, RetriesLeft, Models
  <1>6. CASE GiveUp(c)
    BY <1>1, <1>6 DEF GiveUp, Goto, TypeOK, LocalsOK, RetriesLeft
  <1>7. CASE Send(c)
    BY <1>1, <1>7
    DEF Send, Late, InTime, Goto, Leave, TypeOK, LocalsOK, RetriesLeft, Trying, Failures
  <1>8. CASE Accept(c)
    BY <1>1, <1>8
    DEF Accept, Goto, Leave, TypeOK, LocalsOK, RetriesLeft, locals, Trying, Failures
  <1>9. CASE Exhausted(c)
    BY <1>1, <1>9
    DEF Exhausted, Goto, Leave, TypeOK, LocalsOK, RetriesLeft, locals, Trying, Failures
  <1>10. CASE Failed(c)
    <2>1. cooling' \in [Models -> BOOLEAN]
      BY <1>1, <1>2, <1>10 DEF Failed, TypeOK, Trying
    <2>2. \/ pc' = [pc EXCEPT ![c] = "unwind"] /\ then' = [then EXCEPT ![c] = "route"]
          \/ pc' = [pc EXCEPT ![c] = "check"] /\ then' = then
      BY <1>10 DEF Failed, Leave, Goto
    <2>3. UNCHANGED locals
      BY <1>10 DEF Failed
    <2> QED
      BY <1>1, <2>1, <2>2, <2>3 DEF TypeOK, LocalsOK, RetriesLeft, locals, Trying,
        Failures
  <1>11. CASE Check(c)
    BY <1>1, <1>11
    DEF Check, Goto, Leave, TypeOK, LocalsOK, RetriesLeft, locals, Trying, Failures
  <1>12. CASE Retry(c)
    <2>1. attempt' \in [Calls -> 0 .. MaxRetries]
      BY <1>1, <1>12 DEF Retry, TypeOK, RetriesLeft
    <2>2. \A d \in Calls : pc'[d] = "retry" => pc[d] = "retry" /\ attempt'[d] = attempt[d]
      BY <1>1, <1>12 DEF Retry, Goto, Leave, TypeOK
    <2>3. RetriesLeft'
      BY <1>1, <2>2 DEF RetriesLeft
    <2> QED
      BY <1>1, <1>12, <2>1, <2>3
      DEF Retry, Goto, Leave, Late, InTime, TypeOK, LocalsOK, Trying, Failures
  <1>13. CASE Unwind(c)
    <2>1. then[c] \in {"route", "idle"} /\ route[c] \in Models
      BY <1>1, <1>2, <1>13 DEF Unwind, TypeOK, Trying
    <2>2. route' \in [Calls -> 1 .. Routes + 1]
      BY <1>1, <1>13, <2>1 DEF Unwind, TypeOK, Models
    <2>3. late' \in [Calls -> BOOLEAN]
      BY <1>1, <1>13 DEF Unwind, TypeOK
    <2>4. /\ pc' \in [Calls -> {"idle", "route"} \cup Trying]
          /\ \A d \in Calls : pc'[d] = "retry" => d # c /\ pc[d] = "retry"
      BY <1>1, <1>13, <2>1 DEF Unwind, Goto, TypeOK
    <2>5. /\ attempt' \in [Calls -> 0 .. MaxRetries] /\ epoch' \in [Calls -> Nat]
          /\ \A d \in Calls \ {c} : attempt'[d] = attempt[d]
      BY <1>1, <1>13 DEF Unwind, OutOfScope, TypeOK
    <2>6. probe' \in [Calls -> BOOLEAN]
      BY <1>1, <1>13 DEF Unwind, OutOfScope, TypeOK
    <2>7. then' \in [Calls -> {"route", "idle"}] /\ cooling' \in [Models -> BOOLEAN]
      BY <1>1, <1>13 DEF Unwind, TypeOK
    <2>8. RetriesLeft'
      BY <1>1, <2>4, <2>5 DEF RetriesLeft
    <2> QED
      BY <2>2, <2>3, <2>4, <2>5, <2>6, <2>7, <2>8 DEF LocalsOK
  <1> QED
    BY <1>3, <1>4, <1>5, <1>6, <1>7, <1>8, <1>9, <1>10, <1>11, <1>12, <1>13 DEF Step

(* Every step of a call under way is one of those TryingStep speaks of; in  *)
(* particular the finally clause never leaves an unsettled probe behind.    *)
LEMMA UnderWay ==
  ASSUME LeaseInv, NEW c \in Calls, Step(c), pc[c] \in Trying
  PROVE  /\ Outcome(c)
         /\ \A d \in Calls \ {c} :
              /\ pc'[d] = pc[d] /\ route'[d] = route[d]
              /\ epoch'[d] = epoch[d] /\ probe'[d] = probe[d]
         /\ \/ /\ pc'[c] \in Trying /\ route'[c] = route[c]
               /\ epoch'[c] = epoch[c] /\ probe'[c] = probe[c]
            \/ /\ pc'[c] \notin Trying
               /\ ~probe[c] \/ epoch[c] # generation'[route[c]]
  <1>1. TypeOK
    BY DEF LeaseInv
  <1>2. ~(Begin(c) \/ Admit(c) \/ Skip(c) \/ GiveUp(c))
    BY DEF Begin, Admit, Skip, GiveUp, Trying, Failures
  <1>3. CASE Send(c)
    BY <1>1, <1>3 DEF Send, Outcome, Goto, Leave, TypeOK, Trying, Failures
  <1>4. CASE Accept(c)
    BY <1>1, <1>4 DEF Accept, Outcome, Goto, Leave, locals, breakers, TypeOK, Trying,
      Failures
  <1>5. CASE Exhausted(c)
    BY <1>1, <1>5 DEF Exhausted, Outcome, Goto, Leave, locals, TypeOK, Trying
  <1>6. CASE Failed(c)
    <2>1. Outcome(c)
      BY <1>6 DEF Failed, Outcome, breakers
    <2>2. pc' = [pc EXCEPT ![c] = "unwind"] \/ pc' = [pc EXCEPT ![c] = "check"]
      BY <1>6 DEF Failed, Leave, Goto
    <2> QED
      BY <1>1, <1>6, <2>1, <2>2 DEF Failed, locals, TypeOK, Trying
  <1>7. CASE Check(c)
    BY <1>1, <1>7 DEF Check, Outcome, Goto, Leave, locals, TypeOK, Trying
  <1>8. CASE Retry(c)
    BY <1>1, <1>8 DEF Retry, Outcome, Goto, Leave, TypeOK, Trying
  <1>9. CASE Unwind(c)
    <2> DEFINE m == route[c]
    <2>1. m \in Models /\ failures[m] \in Nat /\ generation[m] \in Nat
      BY <1>1 DEF LeaseInv, Admitted, TypeOK
    <2>2. Outcome(c)
      BY <1>9 DEF Unwind, Outcome
    <2>3. pc' = [pc EXCEPT ![c] = then[c]] /\ then[c] \in {"route", "idle"}
      BY <1>1, <1>9 DEF Unwind, Goto, TypeOK
    <2>4. pc'[c] \notin Trying
      BY <1>1, <2>3 DEF TypeOK, Trying, Failures
    <2>5. ASSUME probe[c], epoch[c] = generation[m]
          PROVE  epoch[c] # generation'[m]
      <3>1. probing[m]
        BY <2>1, <2>5 DEF LeaseInv, LeaseOwned, HoldsLease
      <3>2. failures[m] + 1 >= Threshold
        <4>1. failures[m] >= Threshold
          BY <2>1, <3>1 DEF LeaseInv, CircuitCoherent
        <4> QED
          BY <4>1, <2>1, RouterAssumption
      <3>3. failure(m, epoch[c])
        BY <1>9, <2>5, <3>1 DEF Unwind
      <3>4. generation' = [generation EXCEPT ![m] = @ + 1]
        BY <2>5, <3>2, <3>3 DEF failure
      <3> QED
        BY <1>1, <2>1, <2>5, <3>4 DEF TypeOK
    <2>6. epoch[c] # generation[m] => UNCHANGED breakers
      BY <1>9 DEF Unwind, failure
    <2>7. ~probe[c] \/ epoch[c] # generation'[m]
      BY <2>5, <2>6 DEF breakers
    <2>8. \A d \in Calls \ {c} :
            /\ pc'[d] = pc[d] /\ route'[d] = route[d]
            /\ epoch'[d] = epoch[d] /\ probe'[d] = probe[d]
      BY <1>1, <1>9, <2>3 DEF Unwind, OutOfScope, TypeOK
    <2> QED
      BY <2>2, <2>4, <2>7, <2>8
  <1> QED
    BY <1>2, <1>3, <1>4, <1>5, <1>6, <1>7, <1>8, <1>9 DEF Step

(* A step that touches neither a breaker nor a call under way.              *)
LEMMA QuietStep ==
  ASSUME LeaseInv, UNCHANGED breakers,
         \A d \in Calls :
           \/ pc[d] \notin Trying /\ pc'[d] \notin Trying
           \/ /\ pc'[d] = pc[d] /\ route'[d] = route[d]
              /\ epoch'[d] = epoch[d] /\ probe'[d] = probe[d]
  PROVE  CircuitCoherent' /\ Admitted' /\ OldEpochs' /\ LeaseOwned'
  <1>1. CircuitCoherent'
    BY DEF LeaseInv, CircuitCoherent, breakers
  <1>2. Admitted'
    BY DEF LeaseInv, Admitted, breakers
  <1>3. OldEpochs'
    BY DEF LeaseInv, OldEpochs, breakers
  <1>4. ASSUME NEW d \in Calls, NEW n \in Models
        PROVE  HoldsLease(d, n)' <=> HoldsLease(d, n)
    BY DEF HoldsLease, breakers
  <1>5. LeaseOwned'
    BY <1>4 DEF LeaseInv, LeaseOwned, breakers
  <1> QED
    BY <1>1, <1>2, <1>3, <1>5

(* A circuit that is due admits its probe to a lease that is free, and a    *)
(* closed one admits without a lease.                                       *)
LEMMA AdmitStep ==
  ASSUME LeaseInv, NEW c \in Calls, Admit(c)
  PROVE  /\ probing' \in [Models -> BOOLEAN]
         /\ CircuitCoherent' /\ Admitted' /\ OldEpochs' /\ LeaseOwned'
  <1> DEFINE m == route[c]
  <1>1. /\ TypeOK /\ m \in Models /\ pc[c] = "route" /\ pc[c] \notin Trying
        /\ UNCHANGED <<circuit, failures, generation, route>>
    BY DEF LeaseInv, Admit, Trying, Failures
  <1>2. /\ pc' = [pc EXCEPT ![c] = "call"]
        /\ epoch' = [epoch EXCEPT ![c] = generation[m]]
        /\ probe' = [probe EXCEPT ![c] = probing'[m]]
    BY DEF Admit, Goto
  <1>3. ~probing[m] /\ (circuit[m] = "closed" \/ circuit[m] = "due")
    BY <1>1 DEF Admit, allow, LeaseInv, CircuitCoherent
  <1>4. probing' = [probing EXCEPT ![m] = circuit[m] # "closed"]
    BY <1>3 DEF Admit
  <1>5. probing' \in [Models -> BOOLEAN]
    BY <1>1, <1>4 DEF TypeOK
  <1>6. /\ probing'[m] <=> circuit[m] = "due"
        /\ \A n \in Models \ {m} : probing'[n] = probing[n]
    BY <1>1, <1>3, <1>4 DEF TypeOK
  <1>7. /\ pc'[c] = "call" /\ epoch'[c] = generation[m] /\ probe'[c] = probing'[m]
        /\ \A d \in Calls \ {c} :
             pc'[d] = pc[d] /\ epoch'[d] = epoch[d] /\ probe'[d] = probe[d]
    BY <1>1, <1>2 DEF TypeOK
  <1>8. CircuitCoherent'
    BY <1>1, <1>6 DEF LeaseInv, CircuitCoherent
  <1>9. Admitted'
    BY <1>1, <1>7 DEF LeaseInv, Admitted, TypeOK
  <1>10. OldEpochs'
    BY <1>1, <1>3, <1>6, <1>7 DEF LeaseInv, OldEpochs
  <1>11. ASSUME NEW d \in Calls, NEW n \in Models, d # c
         PROVE  HoldsLease(d, n)' <=> HoldsLease(d, n)
    BY <1>1, <1>7, <1>11 DEF HoldsLease
  <1>12. ASSUME NEW n \in Models
         PROVE  /\ ~HoldsLease(c, n)
                /\ HoldsLease(c, n)' <=> n = m /\ probing'[m]
    BY <1>1, <1>7, <1>12 DEF HoldsLease, Trying
  <1>13. LeaseOwned'
    <2> SUFFICES ASSUME NEW n \in Models
                 PROVE  /\ probing'[n] <=> \E d \in Calls : HoldsLease(d, n)'
                        /\ \A d, e \in Calls :
                             HoldsLease(d, n)' /\ HoldsLease(e, n)' => d = e
      BY DEF LeaseOwned
    <2>1. /\ probing[n] <=> \E d \in Calls : HoldsLease(d, n)
          /\ \A d, e \in Calls : HoldsLease(d, n) /\ HoldsLease(e, n) => d = e
      BY DEF LeaseInv, LeaseOwned
    <2>2. CASE n = m
      BY <2>1, <2>2, <1>3, <1>11, <1>12
    <2>3. CASE n # m
      BY <2>1, <2>3, <1>6, <1>11, <1>12
    <2> QED
      BY <2>2, <2>3
  <1> QED
    BY <1>5, <1>8, <1>9, <1>10, <1>13

(* Recovery time is over: nobody held a lease on an open circuit.           *)
LEMMA RecoverStep ==
  ASSUME LeaseInv, NEW m \in Models, Recover(m)
  PROVE  /\ circuit' \in [Models -> {"closed", "open", "due"}]
         /\ CircuitCoherent' /\ Admitted' /\ OldEpochs' /\ LeaseOwned'
  <1>1. /\ TypeOK /\ circuit[m] = "open" /\ circuit' = [circuit EXCEPT ![m] = "due"]
        /\ UNCHANGED <<failures, probing, generation, pc, route, epoch, probe>>
    BY DEF LeaseInv, Recover, locals
  <1>2. /\ circuit' \in [Models -> {"closed", "open", "due"}]
        /\ circuit'[m] = "due" /\ \A n \in Models \ {m} : circuit'[n] = circuit[n]
    BY <1>1 DEF TypeOK
  <1>3. CircuitCoherent'
    BY <1>1, <1>2 DEF LeaseInv, CircuitCoherent
  <1>4. Admitted'
    BY <1>1 DEF LeaseInv, Admitted
  <1>5. OldEpochs'
    BY <1>1, <1>2 DEF LeaseInv, OldEpochs, Admitted
  <1>6. ASSUME NEW d \in Calls, NEW n \in Models
        PROVE  HoldsLease(d, n)' <=> HoldsLease(d, n)
    BY <1>1 DEF HoldsLease
  <1>7. LeaseOwned'
    BY <1>1, <1>6 DEF LeaseInv, LeaseOwned
  <1> QED
    BY <1>2, <1>3, <1>4, <1>5, <1>7

(* LeaseInv is inductive.                                                   *)
LEMMA LeaseNext == LeaseInv /\ [Next]_vars => LeaseInv'
  <1> SUFFICES ASSUME LeaseInv, [Next]_vars
               PROVE  LeaseInv'
    OBVIOUS
  <1>1. TypeOK /\ RetriesLeft
    BY DEF LeaseInv
  <1>2. TypeOK' <=> /\ LocalsOK'
                    /\ circuit' \in [Models -> {"closed", "open", "due"}]
                    /\ failures' \in [Models -> Nat]
                    /\ probing' \in [Models -> BOOLEAN]
                    /\ generation' \in [Models -> Nat]
    BY DEF TypeOK, LocalsOK
  <1>3. ASSUME NEW c \in Calls, Step(c), pc[c] \in Trying
        PROVE  LeaseInv'
    <2>1. route[c] \in Models
      BY <1>3 DEF LeaseInv, Admitted
    <2>2. Outcome(c)
      BY <1>3, UnderWay
    <2>3. TypeOK' /\ RetriesLeft'
      BY <1>1, <1>2, <1>3, <2>1, <2>2, LocalsStep, OutcomeTyped
    <2>4. CircuitCoherent' /\ Admitted' /\ OldEpochs' /\ LeaseOwned'
      BY <1>3, UnderWay, TryingStep
    <2> QED
      BY <2>3, <2>4 DEF LeaseInv
  <1>4. ASSUME NEW c \in Calls, Admit(c)
        PROVE  LeaseInv'
    <2>1. LocalsOK' /\ RetriesLeft'
      BY <1>4, LocalsStep DEF Step
    <2>2. TypeOK'
      BY <1>1, <1>2, <1>4, <2>1, AdmitStep DEF Admit, TypeOK
    <2> QED
      BY <1>4, <2>1, <2>2, AdmitStep DEF LeaseInv
  <1>5. ASSUME NEW c \in Calls, Begin(c) \/ Skip(c) \/ GiveUp(c)
        PROVE  LeaseInv'
    <2>1. LocalsOK' /\ RetriesLeft'
      BY <1>5, LocalsStep DEF Step
    <2>2. UNCHANGED breakers
      BY <1>5 DEF Begin, Skip, GiveUp
    <2>3. TypeOK'
      BY <1>1, <1>2, <2>1, <2>2 DEF breakers, TypeOK
    <2>4. \A d \in Calls :
            \/ pc[d] \notin Trying /\ pc'[d] \notin Trying
            \/ /\ pc'[d] = pc[d] /\ route'[d] = route[d]
               /\ epoch'[d] = epoch[d] /\ probe'[d] = probe[d]
      BY <1>1, <1>5 DEF Begin, Skip, GiveUp, Goto, locals, TypeOK, Trying, Failures
    <2> QED
      BY <2>1, <2>2, <2>3, <2>4, QuietStep DEF LeaseInv
  <1>6. ASSUME NEW m \in Models, Recover(m)
        PROVE  LeaseInv'
    <2>1. TypeOK' /\ RetriesLeft'
      BY <1>1, <1>6, RecoverStep DEF Recover, locals, TypeOK, RetriesLeft
    <2> QED
      BY <1>6, <2>1, RecoverStep DEF LeaseInv
  <1>7. ASSUME NEW m \in Models, CooldownEnds(m)
        PROVE  LeaseInv'
    <2>1. TypeOK' /\ RetriesLeft'
      BY <1>1, <1>7 DEF CooldownEnds, breakers, locals, TypeOK, RetriesLeft
    <2> QED
      BY <1>7, <2>1, QuietStep DEF CooldownEnds, locals, LeaseInv
  <1>8. CASE UNCHANGED vars
    <2>1. TypeOK' /\ RetriesLeft'
      BY <1>1, <1>8 DEF vars, breakers, locals, TypeOK, RetriesLeft
    <2> QED
      BY <1>8, <2>1, QuietStep DEF vars, locals, LeaseInv
  <1>9. ASSUME NEW c \in Calls, Step(c), pc[c] \notin Trying
        PROVE  Begin(c) \/ Admit(c) \/ Skip(c) \/ GiveUp(c)
    BY <1>9 DEF Step, Send, Accept, Exhausted, Failed, Check, Retry, Unwind, Trying
  <1> QED
    BY <1>3, <1>4, <1>5, <1>6, <1>7, <1>8, <1>9 DEF Next

(* The state of the router is well typed: in particular a call never makes  *)
(* more than MaxRetries further attempts and never leaves the chain of      *)
(* models while it holds one.                                               *)
THEOREM RouterTyped == Spec => []TypeOK
  <1>1. LeaseInv => TypeOK
    BY DEF LeaseInv
  <1> QED
    BY LeaseInit, LeaseNext, <1>1, PTL DEF Spec

(* The half-open lease of every circuit is held by exactly one call that is *)
(* still under way, however many threads share the router.                  *)
THEOREM RouterLease == Spec => []LeaseOwned
  <1>1. LeaseInv => LeaseOwned
    BY DEF LeaseInv
  <1> QED
    BY LeaseInit, LeaseNext, <1>1, PTL DEF Spec

(* A call under way that changes a circuit that is not closed holds its     *)
(* lease and gives it up in that step.                                      *)
LEMMA ProbeDecides ==
  ASSUME LeaseInv, NEW c \in Calls, Step(c), pc[c] \in Trying,
         NEW m \in Models, circuit[m] # "closed",
         <<circuit[m], failures[m], generation[m]>>'
           # <<circuit[m], failures[m], generation[m]>>
  PROVE  HoldsLease(c, m) /\ ~HoldsLease(c, m)'
  <1>1. Outcome(c)
    BY UnderWay
  <1>2. route[c] = m
    BY <1>1, OutcomeEffect
  <1>3. epoch[c] = generation[m] /\ generation'[m] = generation[m] + 1
    BY <1>1, <1>2, OutcomeEffect
  <1>4. probe[c]
    BY <1>2, <1>3 DEF LeaseInv, OldEpochs
  <1>5. generation[m] \in Nat
    BY DEF LeaseInv, TypeOK
  <1>6. ~HoldsLease(c, m)'
    BY <1>3, <1>5, UnderWay DEF HoldsLease
  <1> QED
    BY <1>2, <1>3, <1>4, <1>6 DEF HoldsLease

(* Once a circuit has opened, no answer to a request sent before changes    *)
(* it: only time and its own probe do.                                      *)
THEOREM RouterOnlyProbe == Spec => OnlyProbeDecides
  <1> DEFINE Decided ==
        \A m \in Models :
          /\ circuit[m] # "closed"
          /\ <<circuit[m], failures[m], generation[m]>>'
               # <<circuit[m], failures[m], generation[m]>>
          => \/ circuit[m] = "open" /\ circuit'[m] = "due"
             \/ \E c \in Calls : HoldsLease(c, m) /\ ~HoldsLease(c, m)'
  <1>1. LeaseInv /\ [Next]_vars => [Decided]_vars
    <2> SUFFICES ASSUME LeaseInv, Next, NEW m \in Models, circuit[m] # "closed",
                        <<circuit[m], failures[m], generation[m]>>'
                          # <<circuit[m], failures[m], generation[m]>>
                 PROVE  \/ circuit[m] = "open" /\ circuit'[m] = "due"
                        \/ \E c \in Calls : HoldsLease(c, m) /\ ~HoldsLease(c, m)'
      OBVIOUS
    <2>1. ASSUME NEW n \in Models, Recover(n) \/ CooldownEnds(n)
          PROVE  circuit[m] = "open" /\ circuit'[m] = "due"
      BY <2>1 DEF Recover, CooldownEnds, breakers, LeaseInv, TypeOK
    <2>2. ASSUME NEW c \in Calls, Step(c)
          PROVE  HoldsLease(c, m) /\ ~HoldsLease(c, m)'
      <3>1. pc[c] \in Trying
        BY <2>2 DEF Step, Begin, Admit, Skip, GiveUp, Send, Accept, Exhausted, Failed,
                    Check, Retry, Unwind, breakers, Trying
      <3> QED
        BY <2>2, <3>1, ProbeDecides
    <2> QED
      BY <2>1, <2>2 DEF Next
  <1> QED
    BY LeaseInit, LeaseNext, <1>1, PTL DEF Spec, OnlyProbeDecides
=============================================================================
