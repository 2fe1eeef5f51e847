---------------------------- MODULE OverlayProofs ----------------------------
(* Proofs about the overlay: first the bridge alone, for any number of      *)
(* commands, then the page on top of it, for any texts, any number of       *)
(* commands and any number of readiness checks.                             *)
EXTENDS Overlay, TLAPS, FiniteSetTheorems

(* Where the cancel sender of each call is: only the lease's owner has it   *)
(* in the slot, a call has none before its reservation and some after it,   *)
(* and a call that still listens has not lost it.                           *)
SenderInv ==
  /\ \A c \in Calls : tx[c] = "slot" => lease = c
  /\ \A c \in Calls : bpc[c] \in {"idle", "invoked"} => tx[c] = "none" /\ outcome[c] = None
  /\ \A c \in Calls : bpc[c] \in Leased => tx[c] # "none"
  /\ \A c \in Calls : bpc[c] \in Listening => tx[c] \in {"slot", "sent"} /\ outcome[c] = None
  /\ \A c \in Calls : bpc[c] = "acking" => tx[c] = "sent" /\ outcome[c] = None

(* A delivered signal belongs to exactly one acknowledged cancel command.   *)
DeliveryInv ==
  /\ \A k \in Cancels : hit[k] # None <=> reply[k] = "true"
  /\ \A k \in Cancels : hit[k] # None => tx[hit[k]] = "sent"
  /\ \A c \in Calls : tx[c] = "sent" => \E k \in Cancels : hit[k] = c
  /\ \A k, l \in Cancels : hit[k] # None /\ hit[k] = hit[l] => k = l
  /\ \A c \in Calls : outcome[c] = "cancelled" => tx[c] = "sent"

BridgeIInv == BridgeTypeOK /\ LeaseHeld /\ NeverClosed /\ SenderInv /\ DeliveryInv

-----------------------------------------------------------------------------
(* The invariant holds before any command was issued. *)
LEMMA BridgeInitIInv == BridgeInit => BridgeIInv
  BY BridgeAssumption
  DEF BridgeInit, BridgeIInv, BridgeTypeOK, BridgePcs, LeaseHeld, NeverClosed, SenderInv,
      DeliveryInv, Outcomes, Replies, Leased, Listening

(* Every step of a call or a cancel command preserves it. *)
LEMMA BridgeStepIInv == BridgeIInv /\ [BridgeNext]_bvars => BridgeIInv'
<1> SUFFICES ASSUME BridgeIInv, [BridgeNext]_bvars PROVE BridgeIInv'
  OBVIOUS
<1> USE BridgeAssumption DEF BridgeIInv, BridgePcs, Outcomes, Replies, Leased, Listening
<1>1. ASSUME NEW c \in Calls, Invoke(c) PROVE BridgeIInv'
  <2>1. BridgeTypeOK'
    BY <1>1 DEF Invoke, BridgeTypeOK
  <2>2. LeaseHeld'
    BY <1>1 DEF Invoke, BridgeTypeOK, LeaseHeld
  <2>3. NeverClosed'
    BY <1>1 DEF Invoke, BridgeTypeOK, NeverClosed, SenderInv
  <2>4. SenderInv'
    BY <1>1 DEF Invoke, BridgeTypeOK, LeaseHeld, SenderInv
  <2>5. DeliveryInv'
    BY <1>1 DEF Invoke, BridgeTypeOK, LeaseHeld, SenderInv, DeliveryInv
  <2>6. QED
    BY <2>1, <2>2, <2>3, <2>4, <2>5
<1>2. ASSUME NEW c \in Calls, EmitFails(c) PROVE BridgeIInv'
  <2>1. BridgeTypeOK'
    BY <1>2 DEF EmitFails, BridgeTypeOK
  <2>2. LeaseHeld'
    BY <1>2 DEF EmitFails, BridgeTypeOK, LeaseHeld
  <2>3. NeverClosed'
    BY <1>2 DEF EmitFails, BridgeTypeOK, NeverClosed, SenderInv
  <2>4. SenderInv'
    BY <1>2 DEF EmitFails, BridgeTypeOK, LeaseHeld, SenderInv
  <2>5. DeliveryInv'
    BY <1>2 DEF EmitFails, BridgeTypeOK, LeaseHeld, SenderInv, DeliveryInv
  <2>6. QED
    BY <2>1, <2>2, <2>3, <2>4, <2>5
<1>3. ASSUME NEW c \in Calls, Reserve(c) PROVE BridgeIInv'
  <2>1. BridgeTypeOK'
    BY <1>3 DEF Reserve, BridgeTypeOK
  <2>2. LeaseHeld'
    BY <1>3 DEF Reserve, BridgeTypeOK, LeaseHeld
  <2>3. NeverClosed'
    BY <1>3 DEF Reserve, BridgeTypeOK, NeverClosed, SenderInv
  <2>4. SenderInv'
    BY <1>3 DEF Reserve, BridgeTypeOK, LeaseHeld, SenderInv
  <2>5. DeliveryInv'
    BY <1>3 DEF Reserve, BridgeTypeOK, LeaseHeld, SenderInv, DeliveryInv
  <2>6. QED
    BY <2>1, <2>2, <2>3, <2>4, <2>5
<1>4. ASSUME NEW c \in Calls, Setup(c) PROVE BridgeIInv'
  <2>1. BridgeTypeOK'
    BY <1>4 DEF Setup, Leave, BridgeTypeOK
  <2>2. LeaseHeld'
    BY <1>4 DEF Setup, Leave, BridgeTypeOK, LeaseHeld
  <2>3. NeverClosed'
    BY <1>4 DEF Setup, Leave, BridgeTypeOK, NeverClosed, SenderInv
  <2>4. SenderInv'
    BY <1>4 DEF Setup, Leave, BridgeTypeOK, LeaseHeld, SenderInv
  <2>5. DeliveryInv'
    BY <1>4 DEF Setup, Leave, BridgeTypeOK, LeaseHeld, SenderInv, DeliveryInv
  <2>6. QED
    BY <2>1, <2>2, <2>3, <2>4, <2>5
<1>5. ASSUME NEW c \in Calls, Answered(c) PROVE BridgeIInv'
  <2>1. BridgeTypeOK'
    BY <1>5 DEF Answered, Leave, BridgeTypeOK
  <2>2. LeaseHeld'
    BY <1>5 DEF Answered, Leave, BridgeTypeOK, LeaseHeld
  <2>3. NeverClosed'
    BY <1>5 DEF Answered, Leave, BridgeTypeOK, NeverClosed, SenderInv
  <2>4. SenderInv'
    BY <1>5 DEF Answered, Leave, BridgeTypeOK, LeaseHeld, SenderInv
  <2>5. DeliveryInv'
    BY <1>5 DEF Answered, Leave, BridgeTypeOK, LeaseHeld, SenderInv, DeliveryInv
  <2>6. QED
    BY <2>1, <2>2, <2>3, <2>4, <2>5
<1>6. ASSUME NEW c \in Calls, CancelBranch(c) PROVE BridgeIInv'
  <2>1. BridgeTypeOK'
    BY <1>6 DEF CancelBranch, Leave, BridgeTypeOK
  <2>2. LeaseHeld'
    BY <1>6 DEF CancelBranch, Leave, BridgeTypeOK, LeaseHeld
  <2>3. NeverClosed'
    BY <1>6 DEF CancelBranch, Leave, BridgeTypeOK, NeverClosed, SenderInv
  <2>4. SenderInv'
    BY <1>6 DEF CancelBranch, Leave, BridgeTypeOK, LeaseHeld, SenderInv
  <2>5. DeliveryInv'
    BY <1>6 DEF CancelBranch, Leave, BridgeTypeOK, LeaseHeld, SenderInv, DeliveryInv
  <2>6. QED
    BY <2>1, <2>2, <2>3, <2>4, <2>5
<1>7. ASSUME NEW c \in Calls, Acknowledged(c) PROVE BridgeIInv'
  <2>1. BridgeTypeOK'
    BY <1>7 DEF Acknowledged, Leave, BridgeTypeOK
  <2>2. LeaseHeld'
    BY <1>7 DEF Acknowledged, Leave, BridgeTypeOK, LeaseHeld
  <2>3. NeverClosed'
    BY <1>7 DEF Acknowledged, Leave, BridgeTypeOK, NeverClosed, SenderInv
  <2>4. SenderInv'
    BY <1>7 DEF Acknowledged, Leave, BridgeTypeOK, LeaseHeld, SenderInv
  <2>5. DeliveryInv'
    BY <1>7 DEF Acknowledged, Leave, BridgeTypeOK, LeaseHeld, SenderInv, DeliveryInv
  <2>6. QED
    BY <2>1, <2>2, <2>3, <2>4, <2>5
<1>8. ASSUME NEW c \in Calls, DropFuture(c) PROVE BridgeIInv'
  <2>1. BridgeTypeOK'
    BY <1>8 DEF DropFuture, Leave, BridgeTypeOK
  <2>2. LeaseHeld'
    BY <1>8 DEF DropFuture, Leave, BridgeTypeOK, LeaseHeld
  <2>3. NeverClosed'
    BY <1>8 DEF DropFuture, Leave, BridgeTypeOK, NeverClosed, SenderInv
  <2>4. SenderInv'
    BY <1>8 DEF DropFuture, Leave, BridgeTypeOK, LeaseHeld, SenderInv
  <2>5. DeliveryInv'
    BY <1>8 DEF DropFuture, Leave, BridgeTypeOK, LeaseHeld, SenderInv, DeliveryInv
  <2>6. QED
    BY <2>1, <2>2, <2>3, <2>4, <2>5
<1>9. ASSUME NEW c \in Calls, DropLease(c) PROVE BridgeIInv'
  <2>1. BridgeTypeOK'
    BY <1>9 DEF DropLease, BridgeTypeOK
  <2>2. LeaseHeld'
    BY <1>9 DEF DropLease, BridgeTypeOK, LeaseHeld
  <2>3. NeverClosed'
    BY <1>9 DEF DropLease, BridgeTypeOK, NeverClosed, SenderInv
  <2>4. SenderInv'
    BY <1>9 DEF DropLease, BridgeTypeOK, LeaseHeld, SenderInv
  <2>5. DeliveryInv'
    BY <1>9 DEF DropLease, BridgeTypeOK, LeaseHeld, SenderInv, DeliveryInv
  <2>6. QED
    BY <2>1, <2>2, <2>3, <2>4, <2>5
<1>10. ASSUME NEW k \in Cancels, InvokeCancel(k) PROVE BridgeIInv'
  <2>1. BridgeTypeOK'
    BY <1>10 DEF InvokeCancel, BridgeTypeOK
  <2>2. LeaseHeld'
    BY <1>10 DEF InvokeCancel, BridgeTypeOK, LeaseHeld
  <2>3. NeverClosed'
    BY <1>10 DEF InvokeCancel, BridgeTypeOK, NeverClosed, SenderInv
  <2>4. SenderInv'
    BY <1>10 DEF InvokeCancel, BridgeTypeOK, LeaseHeld, SenderInv
  <2>5. DeliveryInv'
    BY <1>10 DEF InvokeCancel, BridgeTypeOK, LeaseHeld, SenderInv, DeliveryInv
  <2>6. QED
    BY <2>1, <2>2, <2>3, <2>4, <2>5
<1>11. ASSUME NEW k \in Cancels, CancelActive(k) PROVE BridgeIInv'
  <2>1. BridgeTypeOK'
    BY <1>11 DEF CancelActive, BridgeTypeOK
  <2>2. LeaseHeld'
    BY <1>11 DEF CancelActive, BridgeTypeOK, LeaseHeld
  <2>3. NeverClosed'
    BY <1>11 DEF CancelActive, BridgeTypeOK, NeverClosed, SenderInv
  <2>4. SenderInv'
    BY <1>11 DEF CancelActive, BridgeTypeOK, LeaseHeld, SenderInv
  <2>5. DeliveryInv'
    <3>1. CASE lease # None /\ tx[lease] = "slot" /\ bpc[lease] \in Listening
      <4>1. tx' = [tx EXCEPT ![lease] = "sent"] /\ reply' = [reply EXCEPT ![k] = "true"]
            /\ hit' = [hit EXCEPT ![k] = lease] /\ lease \in Calls /\ UNCHANGED outcome
            /\ reply[k] = "invoked"
        BY <1>11, <3>1 DEF CancelActive, BridgeTypeOK
      <4>2. hit[k] = None /\ \A l \in Cancels : hit[l] # lease
        BY <3>1, <4>1 DEF DeliveryInv
      <4>3. \A l \in Cancels : hit'[l] # None => tx'[hit'[l]] = "sent"
        BY <3>1, <4>1, <4>2 DEF BridgeTypeOK, DeliveryInv
      <4>4. \A c \in Calls : tx'[c] = "sent" => \E l \in Cancels : hit'[l] = c
        <5>1. ASSUME NEW c \in Calls, tx'[c] = "sent" PROVE \E l \in Cancels : hit'[l] = c
          <6>1. CASE c = lease
            BY <4>1, <6>1 DEF BridgeTypeOK
          <6>2. CASE c # lease
            <7>1. PICK l \in Cancels : hit[l] = c
              BY <4>1, <5>1, <6>2 DEF BridgeTypeOK, DeliveryInv
            <7>2. QED
              BY <4>1, <4>2, <7>1 DEF BridgeTypeOK
          <6>3. QED
            BY <6>1, <6>2
        <5>2. QED
          BY <5>1
      <4>5. QED
        BY <3>1, <4>1, <4>2, <4>3, <4>4 DEF BridgeTypeOK, DeliveryInv
    <3>2. CASE ~(lease # None /\ tx[lease] = "slot" /\ bpc[lease] \in Listening)
      <4>1. hit' = hit /\ reply' = [reply EXCEPT ![k] = "false"] /\ reply[k] = "invoked" /\ hit[k] = None
        BY <1>11, <3>2 DEF CancelActive, BridgeTypeOK, DeliveryInv
      <4>2. \A c \in Calls : tx'[c] = "sent" <=> tx[c] = "sent"
        BY <1>11, <3>2 DEF CancelActive, BridgeTypeOK
      <4>3. UNCHANGED outcome
        BY <1>11 DEF CancelActive
      <4>4. QED
        BY <4>1, <4>2, <4>3 DEF BridgeTypeOK, DeliveryInv
    <3>3. QED
      BY <3>1, <3>2
  <2>6. QED
    BY <2>1, <2>2, <2>3, <2>4, <2>5
<1>12. CASE UNCHANGED bvars
  BY <1>12 DEF bvars, BridgeTypeOK, LeaseHeld, NeverClosed, SenderInv, DeliveryInv
<1>13. QED
  BY <1>1, <1>2, <1>3, <1>4, <1>5, <1>6, <1>7, <1>8, <1>9, <1>10, <1>11, <1>12
  DEF BridgeNext, CallStep

-----------------------------------------------------------------------------
(* Every variable keeps its type. *)
THEOREM BridgeTyped == BridgeSpec => []BridgeTypeOK
<1>1. BridgeIInv => BridgeTypeOK
  BY BridgeAssumption DEF BridgeIInv, BridgeTypeOK
<1>2. QED
  BY BridgeInitIInv, BridgeStepIInv, <1>1, PTL DEF BridgeSpec

(* Admission is held by exactly the call that is being served. *)
THEOREM BridgeLease == BridgeSpec => []LeaseHeld
<1>1. BridgeIInv => LeaseHeld
  BY BridgeAssumption DEF BridgeIInv, LeaseHeld
<1>2. QED
  BY BridgeInitIInv, BridgeStepIInv, <1>1, PTL DEF BridgeSpec

(* No live call ever sees its cancel channel closed. *)
THEOREM BridgeNeverClosed == BridgeSpec => []NeverClosed
<1>1. BridgeIInv => NeverClosed
  BY BridgeAssumption DEF BridgeIInv, NeverClosed
<1>2. QED
  BY BridgeInitIInv, BridgeStepIInv, <1>1, PTL DEF BridgeSpec

(* A cancel that answers true delivered its signal, alone. *)
THEOREM BridgeCancelTruthful == BridgeSpec => []CancelTruthful
<1>1. BridgeIInv => CancelTruthful
  BY BridgeAssumption DEF BridgeIInv, CancelTruthful, DeliveryInv
<1>2. QED
  BY BridgeInitIInv, BridgeStepIInv, <1>1, PTL DEF BridgeSpec

-----------------------------------------------------------------------------
(* The first state maps to the first state of JobOwnership. *)
LEMMA BridgeRefinesInit == BridgeInit => Owner!JobInit
<1> SUFFICES ASSUME BridgeInit PROVE Owner!JobInit
  OBVIOUS
<1>1. \A c \in Calls : BridgeJob(c) = "waiting"
  BY DEF BridgeInit, BridgeJob, Leased, Listening
<1>2. {c \in Calls : tx[c] = "sent"} = {}
  BY DEF BridgeInit
<1>3. QED
  BY <1>1, <1>2 DEF Owner!JobInit

(* Changing one call's place changes one job. *)
LEMMA OneCall ==
  ASSUME NEW c \in Calls, NEW v,
         \A d \in Calls : BridgeJob(d)' = IF d = c THEN v ELSE BridgeJob(d)
  PROVE  [d \in Calls |-> BridgeJob(d)]'
           = [[d \in Calls |-> BridgeJob(d)] EXCEPT ![c] = v]
  OBVIOUS

(* Changing no call's place changes no job. *)
LEMMA SameCalls ==
  ASSUME \A d \in Calls : BridgeJob(d)' = BridgeJob(d)
  PROVE  [d \in Calls |-> BridgeJob(d)]' = [d \in Calls |-> BridgeJob(d)]
  OBVIOUS

(* Every step maps to a step of JobOwnership or to a stutter. *)
LEMMA BridgeRefinesStep == BridgeIInv /\ [BridgeNext]_bvars => [Owner!JobNext]_(Owner!jvars)
<1> SUFFICES ASSUME BridgeIInv, [BridgeNext]_bvars PROVE [Owner!JobNext]_(Owner!jvars)
  OBVIOUS
<1> DEFINE sig == {d \in Calls : tx[d] = "sent"}
<1> USE BridgeAssumption DEF BridgeIInv, BridgePcs, Outcomes, Replies, Leased, Listening
<1>1. ASSUME NEW c \in Calls, Invoke(c) PROVE [Owner!JobNext]_(Owner!jvars)
  <2>1. \A d \in Calls : BridgeJob(d)' = BridgeJob(d)
    BY <1>1 DEF Invoke, BridgeJob, BridgeTypeOK, SenderInv
  <2>2. sig' = sig
    BY <1>1 DEF Invoke, BridgeTypeOK
  <2>3. QED
    BY <2>1, <2>2, SameCalls DEF Owner!jvars
<1>2. ASSUME NEW c \in Calls, EmitFails(c) PROVE [Owner!JobNext]_(Owner!jvars)
  <2>1. \A d \in Calls : BridgeJob(d)' = IF d = c THEN "refused" ELSE BridgeJob(d)
    BY <1>2 DEF EmitFails, BridgeJob, BridgeTypeOK, SenderInv
  <2>2. sig' = sig /\ BridgeJob(c) = "waiting"
    BY <1>2 DEF EmitFails, BridgeJob
  <2>3. Owner!Refuse(c)
    BY <2>1, <2>2, OneCall DEF Owner!Refuse
  <2>4. QED
    BY <2>3 DEF Owner!JobNext
<1>3. ASSUME NEW c \in Calls, Reserve(c) PROVE [Owner!JobNext]_(Owner!jvars)
  <2>1. BridgeJob(c) = "waiting"
    BY <1>3 DEF Reserve, BridgeJob
  <2>2. CASE lease # None
    <3>1. \A d \in Calls : BridgeJob(d)' = IF d = c THEN "refused" ELSE BridgeJob(d)
      BY <1>3, <2>2 DEF Reserve, BridgeJob, BridgeTypeOK, SenderInv
    <3>2. sig' = sig
      BY <1>3, <2>2 DEF Reserve
    <3>3. Owner!Refuse(c)
      BY <2>1, <3>1, <3>2, OneCall DEF Owner!Refuse
    <3>4. QED
      BY <3>3 DEF Owner!JobNext
  <2>3. CASE lease = None
    <3>1. \A d \in Calls : BridgeJob(d)' = IF d = c THEN "running" ELSE BridgeJob(d)
      BY <1>3, <2>3 DEF Reserve, BridgeJob, BridgeTypeOK
    <3>2. sig' = sig
      BY <1>3, <2>3 DEF Reserve, BridgeTypeOK, SenderInv
    <3>3. \A d \in Calls : BridgeJob(d) # "running"
      BY <2>3 DEF BridgeJob, BridgeTypeOK, LeaseHeld
    <3>4. Owner!Admit(c)
      BY <2>1, <3>1, <3>2, <3>3, OneCall DEF Owner!Admit
    <3>5. QED
      BY <3>4 DEF Owner!JobNext
  <2>4. QED
    BY <2>2, <2>3
<1>4. ASSUME NEW c \in Calls, Setup(c) PROVE [Owner!JobNext]_(Owner!jvars)
  <2>1. \A d \in Calls : BridgeJob(d)' = BridgeJob(d)
    BY <1>4 DEF Setup, Leave, BridgeJob, BridgeTypeOK, SenderInv
  <2>2. sig' = sig
    BY <1>4 DEF Setup, Leave, BridgeTypeOK
  <2>3. QED
    BY <2>1, <2>2, SameCalls DEF Owner!jvars
<1>5. ASSUME NEW c \in Calls, Answered(c) PROVE [Owner!JobNext]_(Owner!jvars)
  <2>1. \A d \in Calls : BridgeJob(d)' = BridgeJob(d)
    BY <1>5 DEF Answered, Leave, BridgeJob, BridgeTypeOK, SenderInv
  <2>2. sig' = sig
    BY <1>5 DEF Answered, Leave, BridgeTypeOK
  <2>3. QED
    BY <2>1, <2>2, SameCalls DEF Owner!jvars
<1>6. ASSUME NEW c \in Calls, CancelBranch(c) PROVE [Owner!JobNext]_(Owner!jvars)
  <2>1. \A d \in Calls : BridgeJob(d)' = BridgeJob(d)
    BY <1>6 DEF CancelBranch, Leave, BridgeJob, BridgeTypeOK, SenderInv
  <2>2. sig' = sig
    BY <1>6 DEF CancelBranch, Leave, BridgeTypeOK
  <2>3. QED
    BY <2>1, <2>2, SameCalls DEF Owner!jvars
<1>7. ASSUME NEW c \in Calls, Acknowledged(c) PROVE [Owner!JobNext]_(Owner!jvars)
  <2>1. \A d \in Calls : BridgeJob(d)' = BridgeJob(d)
    BY <1>7 DEF Acknowledged, Leave, BridgeJob, BridgeTypeOK, SenderInv
  <2>2. sig' = sig
    BY <1>7 DEF Acknowledged, Leave, BridgeTypeOK
  <2>3. QED
    BY <2>1, <2>2, SameCalls DEF Owner!jvars
<1>8. ASSUME NEW c \in Calls, DropFuture(c) PROVE [Owner!JobNext]_(Owner!jvars)
  <2>1. \A d \in Calls : BridgeJob(d)' = BridgeJob(d)
    BY <1>8 DEF DropFuture, Leave, BridgeJob, BridgeTypeOK, SenderInv
  <2>2. sig' = sig
    BY <1>8 DEF DropFuture, Leave, BridgeTypeOK
  <2>3. QED
    BY <2>1, <2>2, SameCalls DEF Owner!jvars
<1>9. ASSUME NEW c \in Calls, DropLease(c) PROVE [Owner!JobNext]_(Owner!jvars)
  <2>1. BridgeJob(c) = "running" /\ tx[c] # "none"
    BY <1>9 DEF DropLease, BridgeJob, SenderInv
  <2>2. sig' = sig
    BY <1>9 DEF DropLease, BridgeTypeOK
  <2>3. CASE outcome[c] = "cancelled"
    <3>1. \A d \in Calls : BridgeJob(d)' = IF d = c THEN "cancelled" ELSE BridgeJob(d)
      BY <1>9, <2>1, <2>3 DEF DropLease, BridgeJob, BridgeTypeOK
    <3>2. c \in sig
      BY <2>3 DEF DeliveryInv
    <3>3. Owner!Abort(c)
      BY <2>1, <2>2, <3>1, <3>2, OneCall DEF Owner!Abort
    <3>4. QED
      BY <3>3 DEF Owner!JobNext
  <2>4. CASE outcome[c] # "cancelled"
    <3>1. \A d \in Calls : BridgeJob(d)' = IF d = c THEN "ended" ELSE BridgeJob(d)
      BY <1>9, <2>1, <2>4 DEF DropLease, BridgeJob, BridgeTypeOK
    <3>2. Owner!Complete(c)
      BY <2>1, <2>2, <3>1, OneCall DEF Owner!Complete
    <3>3. QED
      BY <3>2 DEF Owner!JobNext
  <2>5. QED
    BY <2>3, <2>4
<1>10. ASSUME NEW k \in Cancels, InvokeCancel(k) PROVE [Owner!JobNext]_(Owner!jvars)
  <2>1. \A d \in Calls : BridgeJob(d)' = BridgeJob(d)
    BY <1>10 DEF InvokeCancel, BridgeJob, BridgeTypeOK, SenderInv
  <2>2. sig' = sig
    BY <1>10 DEF InvokeCancel, BridgeTypeOK
  <2>3. QED
    BY <2>1, <2>2, SameCalls DEF Owner!jvars
<1>11. ASSUME NEW k \in Cancels, CancelActive(k) PROVE [Owner!JobNext]_(Owner!jvars)
  <2>1. CASE lease # None /\ tx[lease] = "slot" /\ bpc[lease] \in Listening
    <3>1. PICK c \in Calls : c = lease
      BY <2>1 DEF BridgeTypeOK
    <3>2. tx' = [tx EXCEPT ![c] = "sent"] /\ UNCHANGED <<bpc, outcome>> /\ tx[c] = "slot"
      BY <1>11, <2>1, <3>1 DEF CancelActive
    <3>3. \A d \in Calls : BridgeJob(d)' = BridgeJob(d)
      BY <3>2 DEF BridgeJob, BridgeTypeOK
    <3>4. sig' = sig \cup {c} /\ c \notin sig
      BY <3>2 DEF BridgeTypeOK
    <3>5. BridgeJob(c) = "running"
      BY <2>1, <3>1 DEF BridgeJob
    <3>6. Owner!Signal(c)
      BY <3>3, <3>4, <3>5, SameCalls DEF Owner!Signal
    <3>7. QED
      BY <3>6 DEF Owner!JobNext
  <2>2. CASE ~(lease # None /\ tx[lease] = "slot" /\ bpc[lease] \in Listening)
    <3>1. \A d \in Calls : BridgeJob(d)' = BridgeJob(d)
      BY <1>11, <2>2 DEF CancelActive, BridgeJob, BridgeTypeOK
    <3>2. sig' = sig
      BY <1>11, <2>2 DEF CancelActive, BridgeTypeOK
    <3>3. QED
      BY <3>1, <3>2, SameCalls DEF Owner!jvars
  <2>3. QED
    BY <2>1, <2>2
<1>12. CASE UNCHANGED bvars
  <2>1. \A d \in Calls : BridgeJob(d)' = BridgeJob(d)
    BY <1>12 DEF bvars, BridgeJob
  <2>2. sig' = sig
    BY <1>12 DEF bvars
  <2>3. QED
    BY <2>1, <2>2, SameCalls DEF Owner!jvars
<1>13. QED
  BY <1>1, <1>2, <1>3, <1>4, <1>5, <1>6, <1>7, <1>8, <1>9, <1>10, <1>11, <1>12
  DEF BridgeNext, CallStep

(* The bridge implements the one cancellable job of JobOwnership. *)
THEOREM BridgeRefines == BridgeSpec => BridgeOwnsOneJob
<1>1. BridgeSpec => []BridgeIInv
  BY BridgeInitIInv, BridgeStepIInv, PTL DEF BridgeSpec
<1>2. QED
  BY <1>1, BridgeRefinesInit, BridgeRefinesStep, PTL DEF BridgeSpec, BridgeOwnsOneJob,
    Owner!JobSpec

-----------------------------------------------------------------------------
(* The page.                                                                *)

(* A request the page issued and whose promise has not settled. *)
Live(c) == bpc[c] # "idle" /\ settled[c] = None

UiTypeOK ==
  /\ generation \in Nat
  /\ pending \in BOOLEAN /\ requestDiscarded \in BOOLEAN /\ cancelling \in BOOLEAN
  /\ settled \in [Calls -> {None, "ok", "err"}]
  /\ asked = [c \in Calls |-> asked[c]]

(* `pending` owns the one live request, through its discard too, and a      *)
(* request keeps the number of the generation unless it was discarded.      *)
OwnInv ==
  /\ \A c \in Calls : Live(c) => pending
  /\ \A c, d \in Calls : Live(c) /\ Live(d) => c = d
  /\ \A c \in Calls : bpc[c] # "idle" => c <= generation
  /\ \A c \in Calls : settled[c] # None => bpc[c] = "returned"
  /\ \A c \in Calls : Live(c) /\ ~requestDiscarded => c = generation
  /\ \A c \in Calls : Live(c) /\ requestDiscarded => c < generation

(* While a cancel command is under way the only request it can meet is the  *)
(* one it was issued for.                                                   *)
CancelInv ==
  /\ cancelling => \A c \in Calls : Live(c) => c + 1 = generation
  /\ \A k \in Cancels : reply[k] = "invoked" => cancelling /\ k = generation
  /\ \A k \in Cancels : reply[k] # None => k <= generation
  /\ CancelHitsItsOwn

ViewInv ==
  /\ pending \/ cancelling => result = None
  /\ \A c \in Calls : Live(c) /\ c = generation => asked[c] = context
  /\ FreshPreview

OverlayIInv == BridgeIInv /\ UiTypeOK /\ OwnInv /\ CancelInv /\ ViewInv /\ NeverBusy

-----------------------------------------------------------------------------
(* A step of the overlay is a step of the bridge or leaves it alone. *)
LEMMA OverlayBridge == [OverlayNext]_ovars => [BridgeNext]_bvars
<1> SUFFICES ASSUME [OverlayNext]_ovars PROVE [BridgeNext]_bvars
  OBVIOUS
<1>1. ASSUME NEW shown, Discard(shown) PROVE [BridgeNext]_bvars
  BY <1>1 DEF Discard, BridgeNext
<1>2. CASE ClickGenerate
  BY <1>2 DEF ClickGenerate, Click, BridgeNext
<1>3. CASE ClickCancel \/ ClickClear
  BY <1>1, <1>3 DEF ClickCancel, ClickClear
<1>4. ASSUME NEW text \in Texts \cup {None}, Input(text) PROVE [BridgeNext]_bvars
  BY <1>1, <1>4 DEF Input
<1>5. QED
  BY <1>2, <1>3, <1>4 DEF OverlayNext, ovars, CheckReadiness, ProbeAnswer, Settle,
    CancelSettles,
     BridgeNext

(* The page that just loaded satisfies the invariant. *)
LEMMA OverlayInitIInv == OverlayInit => OverlayIInv
<1> SUFFICES ASSUME OverlayInit PROVE OverlayIInv
  OBVIOUS
<1>1. BridgeIInv
  BY BridgeInitIInv DEF OverlayInit
<1>2. QED
  BY <1>1, BridgeAssumption, OverlayAssumption
  DEF OverlayInit, BridgeInit, OverlayIInv, UiTypeOK, OwnInv, CancelInv, CancelHitsItsOwn,
      ViewInv, FreshPreview, NeverBusy, Live, Outcomes, Replies

(* What a click on cancel, on clear or an edit does to the page's flags.    *)
LEMMA DiscardStep ==
  ASSUME OverlayIInv, NEW shown, Discard(shown), UNCHANGED <<asked, settled>>,
         shown \in {result, None}
  PROVE  /\ UiTypeOK' /\ OwnInv' /\ CancelInv' /\ NeverBusy'
         /\ \A c \in Calls : Live(c)' => c # generation'
         /\ pending' \/ cancelling' => result' = None
         /\ result' # None => DiscardIgnored
<1> USE BridgeAssumption, OverlayAssumption DEF OverlayIInv, Live, DiscardIgnored
<1>1. CASE DiscardIgnored
  <2>1. UNCHANGED <<generation, pending, requestDiscarded, cancelling, bpc, outcome, reply, hit>>
        /\ result' = shown
    BY <1>1 DEF Discard, flags, bvars
  <2>2. UiTypeOK' /\ OwnInv' /\ CancelInv' /\ NeverBusy'
    BY <2>1 DEF UiTypeOK, OwnInv, CancelInv, CancelHitsItsOwn, NeverBusy
  <2>3. \A c \in Calls : Live(c)' => c # generation'
    BY <1>1, <2>1 DEF UiTypeOK, OwnInv, CancelInv
  <2>4. pending' \/ cancelling' => result' = None
    BY <2>1 DEF ViewInv
  <2>5. QED
    BY <1>1, <2>2, <2>3, <2>4
<1>2. CASE ~DiscardIgnored /\ pending
  <2>1. ~requestDiscarded /\ ~cancelling
    BY <1>2
  <2>2. /\ generation' = generation + 1 /\ result' = None
        /\ pending' = TRUE /\ requestDiscarded' = TRUE /\ cancelling' = TRUE
        /\ generation + 1 \in Cancels /\ reply[generation + 1] = None
        /\ reply' = [reply EXCEPT ![generation + 1] = "invoked"]
        /\ UNCHANGED <<bpc, outcome, hit>>
    BY <1>2 DEF Discard, InvokeCancel, UiTypeOK
  <2>3. UiTypeOK'
    BY <2>2 DEF UiTypeOK
  <2>4. OwnInv'
    BY <2>1, <2>2 DEF UiTypeOK, OwnInv
  <2>5. CancelInv'
    BY <2>1, <2>2 DEF UiTypeOK, OwnInv, CancelInv, CancelHitsItsOwn, BridgeIInv,
      BridgeTypeOK
  <2>6. NeverBusy'
    BY <2>2 DEF NeverBusy
  <2>7. \A c \in Calls : Live(c)' => c # generation'
    BY <2>2 DEF UiTypeOK, OwnInv
  <2>8. QED
    BY <2>2, <2>3, <2>4, <2>5, <2>6, <2>7
<1>3. CASE ~DiscardIgnored /\ ~pending
  <2>1. /\ generation' = generation + 1 /\ result' = None
        /\ pending' = FALSE /\ requestDiscarded' \in BOOLEAN /\ cancelling' = FALSE
        /\ UNCHANGED <<bpc, outcome, reply, hit>>
    BY <1>3 DEF Discard, UiTypeOK, bvars
  <2>2. ~cancelling /\ \A c \in Calls : ~Live(c)
    BY <1>3 DEF OwnInv
  <2>3. UiTypeOK'
    <3>1. generation' \in Nat
      BY <2>1 DEF UiTypeOK
    <3>2. QED
      BY <2>1, <3>1, Zenon DEF UiTypeOK
  <2>4. OwnInv'
    BY <2>1, <2>2 DEF UiTypeOK, OwnInv
  <2>5. CancelInv'
    BY <2>1, <2>2 DEF UiTypeOK, CancelInv, CancelHitsItsOwn
  <2>6. NeverBusy'
    BY <2>1 DEF NeverBusy
  <2>7. QED
    BY <2>1, <2>2, <2>3, <2>4, <2>5, <2>6
<1>4. QED
  BY <1>1, <1>2, <1>3

(* The bridge's own steps move no page variable: a call only returns, and   *)
(* only the call the cancel command was issued for can be signalled.        *)
LEMMA BridgeStepUi ==
  ASSUME OverlayIInv, PageOnly,
         (\E c \in Calls : CallStep(c)) \/ (\E k \in Cancels : CancelActive(k))
  PROVE  UiTypeOK' /\ OwnInv' /\ CancelInv' /\ ViewInv' /\ NeverBusy'
<1> USE BridgeAssumption, OverlayAssumption DEF OverlayIInv, Live, PageOnly, flags, fields
<1>1. UiTypeOK'
  BY DEF UiTypeOK
<1>2. ASSUME NEW c \in Calls, CallStep(c)
      PROVE  OwnInv' /\ CancelInv' /\ ViewInv' /\ NeverBusy'
  <2>1. /\ bpc[c] \notin {"idle", "returned"} /\ reply' = reply /\ hit' = hit
        /\ \E w \in BridgePcs \ {"idle"} : bpc' = [bpc EXCEPT ![c] = w]
    BY <1>2 DEF CallStep, EmitFails, Reserve, Setup, Answered, CancelBranch, Acknowledged,
                DropLease, Leave, BridgePcs
  <2>2. \A d \in Calls : bpc'[d] # "idle" <=> bpc[d] # "idle"
    BY <2>1 DEF BridgeIInv, BridgeTypeOK
  <2>3. Live(c) /\ \A d \in Calls : Live(d)' <=> Live(d)
    BY <2>1, <2>2 DEF OwnInv, UiTypeOK
  <2>4. OwnInv'
    BY <2>1, <2>2, <2>3 DEF OwnInv, UiTypeOK, BridgeIInv, BridgeTypeOK
  <2>5. CancelInv' /\ ViewInv'
    BY <2>1, <2>3 DEF CancelInv, CancelHitsItsOwn, ViewInv, FreshPreview
  <2>6. NeverBusy'
    <3>1. CASE Reserve(c)
      <4>1. lease = None
        BY <2>3, <3>1 DEF Reserve, OwnInv, BridgeIInv, BridgeTypeOK, LeaseHeld, Leased,
          Listening
      <4>2. QED
        BY <3>1, <4>1 DEF Reserve, NeverBusy
    <3>2. CASE ~Reserve(c)
      <4>1. \/ outcome' = outcome
            \/ \E r \in Outcomes \ {"busy"} : outcome' = [outcome EXCEPT ![c] = r]
        BY <1>2, <3>2 DEF CallStep, EmitFails, Setup, Answered, CancelBranch,
          Acknowledged,
                          DropLease, Leave, Outcomes
      <4>2. QED
        BY <4>1 DEF NeverBusy, BridgeIInv, BridgeTypeOK
    <3>3. QED
      BY <3>1, <3>2
  <2>7. QED
    BY <2>4, <2>5, <2>6
<1>3. ASSUME NEW k \in Cancels, CancelActive(k)
      PROVE  OwnInv' /\ CancelInv' /\ ViewInv' /\ NeverBusy'
  <2>1. /\ reply[k] = "invoked" /\ UNCHANGED <<bpc, outcome>>
        /\ \E r \in {"true", "false"} : reply' = [reply EXCEPT ![k] = r]
        /\ \/ hit' = hit
           \/ hit' = [hit EXCEPT ![k] = None]
           \/ lease \in Calls /\ hit' = [hit EXCEPT ![k] = lease]
    BY <1>3 DEF CancelActive, BridgeIInv, BridgeTypeOK
  <2>2. cancelling /\ k = generation
    BY <2>1 DEF CancelInv
  <2>3. ASSUME lease \in Calls PROVE lease + 1 = k
    <3>1. Live(lease)
      BY <2>3 DEF BridgeIInv, LeaseHeld, Leased, Listening, OwnInv, UiTypeOK
    <3>2. QED
      BY <2>2, <2>3, <3>1 DEF CancelInv
  <2>4. CancelHitsItsOwn'
    BY <2>1, <2>3 DEF CancelInv, CancelHitsItsOwn, BridgeIInv, BridgeTypeOK
  <2>5. CancelInv'
    BY <2>1, <2>2, <2>4 DEF CancelInv, BridgeIInv, BridgeTypeOK, UiTypeOK
  <2>6. OwnInv' /\ ViewInv' /\ NeverBusy'
    BY <2>1 DEF OwnInv, ViewInv, FreshPreview, NeverBusy
  <2>7. QED
    BY <2>5, <2>6
<1>4. QED
  BY <1>1, <1>2, <1>3

(* Every step of page and bridge preserves the invariant. *)
LEMMA OverlayStepIInv == OverlayIInv /\ [OverlayNext]_ovars => OverlayIInv'
<1> SUFFICES ASSUME OverlayIInv, [OverlayNext]_ovars PROVE OverlayIInv'
  OBVIOUS
<1> USE BridgeAssumption, OverlayAssumption
<1>1. BridgeIInv'
  BY OverlayBridge, BridgeStepIInv DEF OverlayIInv
<1>2. SUFFICES UiTypeOK' /\ OwnInv' /\ CancelInv' /\ ViewInv' /\ NeverBusy'
  BY <1>1 DEF OverlayIInv
<1> USE DEF Live
<1>3. ASSUME UNCHANGED <<flags, fields, bvars>>
      PROVE  UiTypeOK' /\ OwnInv' /\ CancelInv' /\ ViewInv' /\ NeverBusy'
  BY <1>3 DEF flags, fields, bvars, OverlayIInv, UiTypeOK, OwnInv, CancelInv,
    CancelHitsItsOwn,
              ViewInv, FreshPreview, NeverBusy
<1>4. CASE CheckReadiness \/ \E n \in Checks, ready \in BOOLEAN : ProbeAnswer(n, ready)
  BY <1>3, <1>4 DEF CheckReadiness, ProbeAnswer
<1>5. CASE ClickGenerate
  <2>1. PICK g \in Calls : g = generation + 1
    BY <1>5 DEF ClickGenerate, Click
  <2>2. /\ ~pending /\ ~cancelling /\ bpc[g] = "idle" /\ settled[g] = None
        /\ generation' = g /\ pending' = TRUE /\ requestDiscarded' = FALSE
        /\ cancelling' = cancelling /\ result' = None /\ context' = context
        /\ asked' = [asked EXCEPT ![g] = context] /\ settled' = settled
        /\ bpc' = [bpc EXCEPT ![g] = "invoked"]
        /\ UNCHANGED <<outcome, reply, hit>>
    BY <1>5, <2>1 DEF ClickGenerate, Click, Invoke, OverlayIInv, OwnInv, UiTypeOK
  <2>3. \A c \in Calls : ~Live(c)
    BY <2>2 DEF OverlayIInv, OwnInv
  <2>4. \A c \in Calls : Live(c)' <=> c = g
    BY <2>2, <2>3 DEF OverlayIInv, BridgeIInv, BridgeTypeOK
  <2>5. UiTypeOK'
    BY <2>1, <2>2 DEF OverlayIInv, UiTypeOK
  <2>6. OwnInv'
    BY <2>1, <2>2, <2>4 DEF OverlayIInv, OwnInv, UiTypeOK, BridgeIInv, BridgeTypeOK
  <2>7. CancelInv'
    BY <2>1, <2>2 DEF OverlayIInv, CancelInv, CancelHitsItsOwn, UiTypeOK
  <2>8. ViewInv' /\ NeverBusy'
    BY <2>2, <2>4 DEF OverlayIInv, ViewInv, FreshPreview, NeverBusy, UiTypeOK
  <2>9. QED
    BY <2>5, <2>6, <2>7, <2>8
<1>6. CASE ClickCancel \/ ClickClear
  <2>1. PICK shown \in {result, None} : Discard(shown)
    BY <1>6 DEF ClickCancel, ClickClear
  <2>2. UNCHANGED <<asked, settled>> /\ (result' # None => context' = context /\ result' = result)
    BY <1>6, <2>1 DEF ClickCancel, ClickClear, Discard
  <2>3. QED
    BY <2>1, <2>2, DiscardStep DEF OverlayIInv, ViewInv, FreshPreview, DiscardIgnored,
      Discard, flags
<1>7. ASSUME NEW text \in Texts \cup {None}, Input(text)
      PROVE  UiTypeOK' /\ OwnInv' /\ CancelInv' /\ ViewInv' /\ NeverBusy'
  <2>1. CASE pending \/ result # None
    <3>1. Discard(result) /\ UNCHANGED <<asked, settled>>
      BY <1>7, <2>1 DEF Input
    <3>2. result' = None
      BY <3>1 DEF Discard, DiscardIgnored, OverlayIInv, ViewInv
    <3>3. QED
      BY <3>1, <3>2, DiscardStep DEF ViewInv, FreshPreview
  <2>2. CASE ~(pending \/ result # None)
    <3>1. UNCHANGED <<flags, result, asked, settled, bvars>>
      BY <1>7, <2>2 DEF Input
    <3>2. QED
      BY <2>2, <3>1 DEF flags, bvars, OverlayIInv, UiTypeOK, OwnInv, CancelInv,
        CancelHitsItsOwn,
                        ViewInv, FreshPreview, NeverBusy
  <2>3. QED
    BY <2>1, <2>2
<1>8. ASSUME NEW c \in Calls, NEW how \in {"ok", "err"}, Settle(c, how)
      PROVE  UiTypeOK' /\ OwnInv' /\ CancelInv' /\ ViewInv' /\ NeverBusy'
  <2>1. /\ Live(c) /\ pending' = FALSE /\ settled' = [settled EXCEPT ![c] = how]
        /\ result' = result \/ (c = generation /\ result' = c)
        /\ UNCHANGED <<generation, requestDiscarded, cancelling, context, asked, bpc, outcome, reply, hit>>
    BY <1>8 DEF Settle, bvars
  <2>2. \A d \in Calls : ~Live(d)'
    BY <2>1 DEF OverlayIInv, OwnInv, UiTypeOK
  <2>3. UiTypeOK'
    BY <2>1 DEF OverlayIInv, UiTypeOK
  <2>4. OwnInv'
    BY <1>8, <2>1, <2>2 DEF Settle, OverlayIInv, OwnInv, UiTypeOK
  <2>5. CancelInv' /\ NeverBusy'
    BY <2>1, <2>2 DEF OverlayIInv, CancelInv, CancelHitsItsOwn, NeverBusy
  <2>6. ViewInv'
    BY <2>1, <2>2 DEF OverlayIInv, ViewInv, FreshPreview, CancelInv, UiTypeOK
  <2>7. QED
    BY <2>3, <2>4, <2>5, <2>6
<1>9. ASSUME NEW k \in Cancels, CancelSettles(k)
      PROVE  UiTypeOK' /\ OwnInv' /\ CancelInv' /\ ViewInv' /\ NeverBusy'
  <2>1. /\ cancelling' = FALSE /\ reply[k] \in {"true", "false"}
        /\ \A j \in Cancels : j > k => reply[j] = None
        /\ UNCHANGED <<generation, pending, requestDiscarded, fields, bvars>>
    BY <1>9 DEF CancelSettles
  <2>2. \A j \in Cancels : reply[j] # "invoked"
    BY <2>1 DEF OverlayIInv, CancelInv, UiTypeOK, Replies
  <2>3. QED
    BY <2>1, <2>2 DEF fields, bvars, OverlayIInv, UiTypeOK, OwnInv, CancelInv,
      CancelHitsItsOwn,
                      ViewInv, FreshPreview, NeverBusy
<1>10. CASE PageOnly /\ ((\E c \in Calls : CallStep(c)) \/ (\E k \in Cancels : CancelActive(k)))
  BY <1>10, BridgeStepUi
<1>11. CASE UNCHANGED ovars
  BY <1>3, <1>11 DEF ovars
<1>12. QED
  BY <1>4, <1>5, <1>6, <1>7, <1>8, <1>9, <1>10, <1>11 DEF OverlayNext

-----------------------------------------------------------------------------
Failed == {c \in Calls : settled[c] = "err"}

(* No check beyond the newest was started; the newest, if it is a check and *)
(* not a failure's mark, began after every failure.                         *)
ReadyTypes ==
  /\ settled \in [Calls -> {None, "ok", "err"}]
  /\ readinessCheck \in Nat
  /\ probe \in [Checks -> {None, "flying", "ready", "not ready"}]
  /\ began \in [Checks -> Nat]

NoneBeyond == \A n \in Checks : n > readinessCheck => probe[n] = None

NewestBegan ==
  readinessCheck \in Checks /\ probe[readinessCheck] # None => began[readinessCheck] = Failures

ReadyByCheck == modelReady => readinessCheck \in Checks

ReadyInv == ReadyTypes /\ NoneBeyond /\ NewestBegan /\ ReadyByCheck /\ ReadinessFresh

(* The failed generations are finitely many, at most one per call. *)
LEMMA FailuresBound ==
  /\ IsFiniteSet(Failed) /\ Failures = Cardinality(Failed)
  /\ Failures \in Nat /\ Cardinality(Calls) \in Nat /\ Failures <= Cardinality(Calls)
<1>1. Failed \in SUBSET Calls /\ Failures = Cardinality(Failed)
  BY DEF Failed, Failures
<1>2. QED
  BY <1>1, OverlayAssumption, FS_Subset, FS_CardinalityType

(* A check's number lies within the bounds. *)
LEMMA ChecksAre ==
  /\ Checks' = Checks
  /\ \A n : n \in Checks <=>
        n \in Nat /\ 1 <= n /\ n <= MaxChecks + Cardinality(Calls)
<1>1. MaxChecks + Cardinality(Calls) \in Nat
  BY OverlayAssumption, FailuresBound
<1>2. QED
  BY <1>1 DEF Checks

(* Readiness starts out unknown, with one check in flight. *)
LEMMA ReadyInit == OverlayInit => ReadyInv
<1> SUFFICES ASSUME OverlayInit PROVE ReadyInv
  OBVIOUS
<1>1. Failed = {}
  BY OverlayAssumption DEF OverlayInit, Failed
<1>2. Failures = 0
  BY <1>1, FailuresBound, FS_EmptySet
<1>3. QED
  BY <1>2, FailuresBound, OverlayAssumption 
  DEF OverlayInit, ReadyInv, ReadyTypes, NoneBeyond, NewestBegan, ReadyByCheck, ReadinessFresh, Checks

(* Every step keeps readiness tied to the newest check. *)
LEMMA ReadyStep == ReadyInv /\ [OverlayNext]_ovars => ReadyInv'
<1> SUFFICES ASSUME ReadyInv, [OverlayNext]_ovars PROVE ReadyInv'
  OBVIOUS
<1>0. Failures \in Nat /\ MaxChecks \in Nat /\ Cardinality(Calls) \in Nat
  BY FailuresBound, OverlayAssumption
<1>N. None \notin {"ok", "err", "flying"}
  BY OverlayAssumption
<1>1. ASSUME settled' = settled PROVE Failures' = Failures
  BY <1>1 DEF Failures
<1>2. CASE UNCHANGED <<readiness, settled>>
  BY <1>1, <1>2 DEF readiness, ReadyInv, ReadyTypes, NoneBeyond, NewestBegan,
    ReadyByCheck, ReadinessFresh, Checks
<1>3. CASE CheckReadiness
  <2>1. settled' = settled /\ Failures' = Failures
    BY <1>1, <1>3 DEF CheckReadiness, fields
  <2>2. readinessCheck \in Nat /\ readinessCheck < MaxChecks
    BY <1>3 DEF CheckReadiness, ReadyInv, ReadyTypes
  <2>3. readinessCheck + 1 \in Checks
    BY <1>0, <2>2, ChecksAre
  <2>4. ReadyTypes'
    <3>1. /\ readinessCheck' = readinessCheck + 1 /\ settled \in [Calls -> {None, "ok", "err"}]
          /\ probe' = [probe EXCEPT ![readinessCheck + 1] = "flying"]
          /\ began' = [began EXCEPT ![readinessCheck + 1] = Failures]
          /\ probe \in [Checks -> {None, "flying", "ready", "not ready"}] /\ began \in [Checks -> Nat]
      BY <1>3 DEF CheckReadiness, ReadyInv, ReadyTypes
    <3>2. probe' \in [Checks -> {None, "flying", "ready", "not ready"}]
      BY <2>3, <3>1
    <3>3. began' \in [Checks -> Nat]
      BY <1>0, <2>3, <3>1
    <3>4. readinessCheck' \in Nat
      <4>1. readinessCheck' = readinessCheck + 1
        BY <3>1
      <4>2. QED
        BY <2>2, <4>1
    <3>5. QED
      BY <2>1, <3>1, <3>2, <3>3, <3>4, Zenon DEF ReadyTypes, Checks
  <2>5. NoneBeyond'
    <3>1. \A n \in Checks : n \in Nat /\ (n > readinessCheck => probe[n] = None)
      BY ChecksAre DEF ReadyInv, NoneBeyond
    <3>2. readinessCheck' = readinessCheck + 1 /\ probe' = [probe EXCEPT ![readinessCheck + 1] = "flying"]
          /\ probe \in [Checks -> {None, "flying", "ready", "not ready"}]
      BY <1>3 DEF CheckReadiness, ReadyInv, ReadyTypes
    <3>3. ASSUME NEW n \in Checks, n > readinessCheck + 1 PROVE probe'[n] = None
      <4>1. n > readinessCheck /\ n # readinessCheck + 1
        BY <2>2, <3>1, <3>3
      <4>2. QED
        BY <3>1, <3>2, <4>1
    <3>4. QED
      BY <3>2, <3>3, Zenon DEF NoneBeyond, Checks
  <2>6. NewestBegan' /\ ReadyByCheck' /\ ReadinessFresh'
    BY <1>3, <2>1, <2>3 DEF CheckReadiness, ReadyInv, ReadyTypes, NewestBegan,
      ReadyByCheck,
                            ReadinessFresh
  <2>7. QED
    BY <2>4, <2>5, <2>6 DEF ReadyInv
<1>4. ASSUME NEW n \in Checks, NEW ready \in BOOLEAN, ProbeAnswer(n, ready) PROVE ReadyInv'
  <2>1. settled' = settled /\ Failures' = Failures
    BY <1>1, <1>4 DEF ProbeAnswer, fields
  <2>2. /\ probe[n] = "flying" /\ probe[n] # None
        /\ probe \in [Checks -> {None, "flying", "ready", "not ready"}]
        /\ readinessCheck' = readinessCheck /\ began' = began
        /\ probe' = [probe EXCEPT ![n] = IF ready THEN "ready" ELSE "not ready"]
        /\ modelReady' = IF n = readinessCheck THEN ready ELSE modelReady
    BY <1>4, <1>N DEF ProbeAnswer, ReadyInv, ReadyTypes
  <2>3. ReadyTypes'
    BY <2>1, <2>2, ChecksAre DEF ReadyInv, ReadyTypes
  <2>4. NoneBeyond'
    BY <2>2, ChecksAre DEF ReadyInv, NoneBeyond
  <2>5. NewestBegan'
    BY <2>1, <2>2, ChecksAre DEF ReadyInv, NewestBegan
  <2>6. ReadinessFresh'
    <3>1. CASE n = readinessCheck
      <4>1. began'[readinessCheck'] = Failures'
        BY <2>1, <2>2, <3>1 DEF ReadyInv, NewestBegan
      <4>2. CASE ready
        <5>1. probe'[readinessCheck'] = "ready"
          BY <2>2, <3>1, <4>2
        <5>2. QED
          BY <4>1, <5>1 DEF ReadinessFresh
      <4>3. CASE ~ready
        <5>1. ~modelReady'
          BY <2>2, <3>1, <4>3
        <5>2. QED
          BY <5>1 DEF ReadinessFresh
      <4>4. QED
        BY <4>2, <4>3
    <3>2. CASE n # readinessCheck
      <4>1. (modelReady' => modelReady) /\ (modelReady => probe[readinessCheck] = "ready" /\ began[readinessCheck] = Failures)
        BY <2>2, <3>2 DEF ReadyInv, ReadinessFresh
      <4>2. modelReady /\ probe[readinessCheck] = "ready" => probe'[readinessCheck'] = "ready"
        BY <2>2, <3>2 DEF ReadyInv, ReadyByCheck
      <4>3. QED
        BY <2>1, <2>2, <4>1, <4>2 DEF ReadinessFresh
    <3>3. QED
      BY <3>1, <3>2
  <2>7. ReadyByCheck'
    BY <2>2, ChecksAre DEF ReadyInv, ReadyByCheck
  <2>8. QED
    BY <2>3, <2>4, <2>5, <2>6, <2>7 DEF ReadyInv
<1>5. ASSUME NEW c \in Calls, Settle(c, "ok") PROVE ReadyInv'
  <2>1. Failed' = Failed
    BY <1>5, <1>N DEF Settle, Failed, ReadyInv, ReadyTypes
  <2>2. Failures' = Failures
    BY <2>1 DEF Failures, Failed
  <2>3. QED
    BY <1>5, <2>2, ChecksAre
    DEF Settle, ReadyInv, ReadyTypes, NoneBeyond, NewestBegan, ReadyByCheck, ReadinessFresh
<1>6. ASSUME NEW c \in Calls, Settle(c, "err") PROVE ReadyInv'
  <2>1. /\ readinessCheck' = readinessCheck + 1 /\ modelReady' = FALSE
        /\ UNCHANGED <<probe, began>> /\ settled' = [settled EXCEPT ![c] = "err"]
    BY <1>6 DEF Settle
  <2>2. readinessCheck \in Nat /\ \A n \in Checks : n \in Nat
    BY ChecksAre DEF ReadyInv, ReadyTypes
  <2>3. ReadyTypes'
    <3>1. readinessCheck' \in Nat
      BY <2>1, <2>2
    <3>2. settled' \in [Calls -> {None, "ok", "err"}]
      BY <2>1 DEF ReadyInv, ReadyTypes
    <3>3. QED
      BY <2>1, <3>1, <3>2, Zenon DEF ReadyInv, ReadyTypes, Checks
  <2>4. ASSUME NEW n \in Checks, n >= readinessCheck + 1 PROVE probe'[n] = None
    <3>1. n > readinessCheck
      BY <2>2, <2>4
    <3>2. QED
      BY <2>1, <3>1 DEF ReadyInv, NoneBeyond
  <2>5. NoneBeyond'
    <3>1. ASSUME NEW n \in Checks, n > readinessCheck + 1 PROVE probe'[n] = None
      BY <2>2, <2>4, <3>1
    <3>2. QED
      BY <2>1, <3>1, Zenon DEF NoneBeyond, Checks
  <2>6. NewestBegan'
    <3>1. readinessCheck + 1 \in Checks => probe'[readinessCheck + 1] = None
      BY <2>2, <2>4
    <3>2. QED
      BY <2>1, <3>1, Zenon DEF NewestBegan, Checks
  <2>7. QED
    BY <2>1, <2>3, <2>5, <2>6 DEF ReadyInv, ReadyByCheck, ReadinessFresh
<1>7. QED
  BY <1>2, <1>3, <1>4, <1>5, <1>6
  DEF OverlayNext, ClickGenerate, Click, ClickCancel, ClickClear, Input, CancelSettles, PageOnly,
      fields, ovars

-----------------------------------------------------------------------------
(* A displayed preview was generated from the text that is displayed. *)
THEOREM OverlayFreshPreview == OverlaySpec => []FreshPreview
<1>1. OverlayIInv => FreshPreview
  BY DEF OverlayIInv, ViewInv
<1>2. QED
  BY OverlayInitIInv, OverlayStepIInv, <1>1, PTL DEF OverlaySpec

(* A cancel command never signals a later request than its own. *)
THEOREM OverlayCancelHits == OverlaySpec => []CancelHitsItsOwn
<1>1. OverlayIInv => CancelHitsItsOwn
  BY DEF OverlayIInv, CancelInv
<1>2. QED
  BY OverlayInitIInv, OverlayStepIInv, <1>1, PTL DEF OverlaySpec

(* The bridge never refuses a request of the page. *)
THEOREM OverlayNeverBusy == OverlaySpec => []NeverBusy
<1>1. OverlayIInv => NeverBusy
  BY DEF OverlayIInv
<1>2. QED
  BY OverlayInitIInv, OverlayStepIInv, <1>1, PTL DEF OverlaySpec

(* Readiness rests on a check that began after every failure. *)
THEOREM OverlayReadinessFresh == OverlaySpec => []ReadinessFresh
<1>1. ReadyInv => ReadinessFresh
  BY DEF ReadyInv
<1>2. QED
  BY ReadyInit, ReadyStep, <1>1, PTL DEF OverlaySpec
=============================================================================
