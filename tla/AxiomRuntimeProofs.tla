-------------------------- MODULE AxiomRuntimeProofs --------------------------
(***************************************************************************)
(* Proofs about AxiomRuntime for any number of requests, and about the     *)
(* pairing that authorizes them, for any number of processes.  The safety  *)
(* invariants of the runtime are not inductive by themselves: they rest on *)
(* where every oneshot sender is, which IInv tracks.                       *)
(***************************************************************************)
EXTENDS AxiomRuntime, Pairing, TLAPS

(* The slot and the senders' positions agree, and an unarmed handler has   *)
(* no sender yet.                                                          *)
SlotInv ==
  /\ \A p \in Previews : sender[p] = "slot" <=> slot = p
  /\ \A p \in Previews : pc[p] \in {"new", "reading", "admitted"} => sender[p] = "unarmed"

(* A sender taken out of the slot is in the hands of exactly one cancel. *)
TakenInv ==
  /\ \A c \in Cancels : cpc[c] = "taken" =>
        took[c] \in Previews /\ sender[took[c]] = "taken" /\ answer[c] = None
  /\ \A c, d \in Cancels :
        cpc[c] = "taken" /\ cpc[d] = "taken" /\ took[c] = took[d] => c = d
  /\ \A p \in Previews : sender[p] = "taken" =>
        \E c \in Cancels : cpc[c] = "taken" /\ took[c] = p

(* A waiting handler's sender was not dropped; a delivered signal has its   *)
(* acknowledged cancel; a 499 answer was signalled; a handler has a status  *)
(* once it left the select!.                                                *)
SignalInv ==
  /\ \A p \in Previews : pc[p] \in InSelect => sender[p] \in {"slot", "taken", "sent"}
  /\ \A p \in Previews : sender[p] = "sent" =>
        \E c \in Cancels : took[c] = p /\ answer[c] = "true"
  /\ \A c \in Cancels : answer[c] = "true" =>
        cpc[c] = "done" /\ took[c] \in Previews /\ sender[took[c]] = "sent"
  /\ \A p \in Previews : status[p] = 499 => sender[p] = "sent"
  /\ \A p \in Previews : pc[p] \notin {"disarm", "release", "done"} => status[p] = 0
  /\ \A p \in Previews : pc[p] \in {"disarm", "release"} => status[p] \in {200, 499, 502, 503}

IInv == /\ TypeOK
        /\ PermitConserved
        /\ SlotInv
        /\ TakenInv
        /\ SignalInv
        /\ CancelAcknowledgedOnce

-----------------------------------------------------------------------------
(* Every initial state satisfies the inductive invariant. *)
LEMMA InitIInv == Init => IInv
  BY RuntimeAssumption
  DEF Init, IInv, TypeOK, PermitConserved, SlotInv, TakenInv, SignalInv,
      CancelAcknowledgedOnce, PcStates, SenderStates, Slots, Holding, InSelect

(* Every step of the runtime preserves the inductive invariant. *)
LEMMA StepIInv == IInv /\ [Next]_vars => IInv'
<1> SUFFICES ASSUME IInv, [Next]_vars PROVE IInv'
  OBVIOUS
<1> USE RuntimeAssumption
<1> USE DEF PcStates, SenderStates, InSelect, Holding, Slots, IInv
<1>1. ASSUME NEW p \in Previews, NEW cred \in Credentials, Accept(p, cred) PROVE IInv'
  <2>1. TypeOK'
    BY <1>1 DEF Accept, authorize, Respond, Unmoved, Credentials, TypeOK
  <2>2. PermitConserved'
    BY <1>1 DEF Accept, authorize, Respond, Unmoved, Credentials, TypeOK, PermitConserved
  <2>3. SlotInv'
    BY <1>1 DEF Accept, authorize, Respond, Unmoved, Credentials, TypeOK, SlotInv,
      TakenInv
  <2>4. TakenInv'
    BY <1>1 DEF Accept, authorize, Respond, Unmoved, Credentials, TypeOK, SlotInv,
      TakenInv
  <2>5. SignalInv'
    BY <1>1 DEF Accept, authorize, Respond, Unmoved, Credentials, TypeOK,
      PermitConserved, SlotInv, TakenInv, SignalInv
  <2>6. CancelAcknowledgedOnce'
    BY <1>1 DEF Accept, authorize, Respond, Unmoved, Credentials, TypeOK, TakenInv,
      SignalInv, CancelAcknowledgedOnce
  <2>7. QED
    BY <2>1, <2>2, <2>3, <2>4, <2>5, <2>6
<1>2. ASSUME NEW p \in Previews, NEW body \in Bodies, Preview(p, body) PROVE IInv'
  <2>1. TypeOK'
    BY <1>2 DEF Preview, BodyStatus, Respond, Unmoved, Bodies, TypeOK, PermitConserved
  <2>2. PermitConserved'
    BY <1>2 DEF Preview, BodyStatus, Respond, Unmoved, Bodies, TypeOK, PermitConserved
  <2>3. SlotInv'
    BY <1>2 DEF Preview, BodyStatus, Respond, Unmoved, Bodies, TypeOK, SlotInv, TakenInv
  <2>4. TakenInv'
    BY <1>2 DEF Preview, BodyStatus, Respond, Unmoved, Bodies, TypeOK, SlotInv, TakenInv
  <2>5. SignalInv'
    BY <1>2 DEF Preview, BodyStatus, Respond, Unmoved, Bodies, TypeOK, PermitConserved,
      SlotInv, TakenInv, SignalInv
  <2>6. CancelAcknowledgedOnce'
    BY <1>2 DEF Preview, BodyStatus, Respond, Unmoved, Bodies, TypeOK, TakenInv,
      SignalInv, CancelAcknowledgedOnce
  <2>7. QED
    BY <2>1, <2>2, <2>3, <2>4, <2>5, <2>6
<1>3. ASSUME NEW p \in Previews, ArmCancel(p) PROVE IInv'
  <2>1. TypeOK'
    BY <1>3 DEF ArmCancel, DropSlotSender, Unmoved, TypeOK
  <2>2. PermitConserved'
    BY <1>3 DEF ArmCancel, DropSlotSender, Unmoved, TypeOK, PermitConserved
  <2>3. SlotInv'
    BY <1>3 DEF ArmCancel, DropSlotSender, Unmoved, TypeOK, SlotInv, TakenInv
  <2>4. TakenInv'
    BY <1>3 DEF ArmCancel, DropSlotSender, Unmoved, TypeOK, SlotInv, TakenInv
  <2>5. SignalInv'
    BY <1>3 DEF ArmCancel, DropSlotSender, Unmoved, TypeOK, PermitConserved, SlotInv,
      TakenInv, SignalInv
  <2>6. CancelAcknowledgedOnce'
    BY <1>3 DEF ArmCancel, DropSlotSender, Unmoved, TypeOK, TakenInv, SignalInv,
      CancelAcknowledgedOnce
  <2>7. QED
    BY <2>1, <2>2, <2>3, <2>4, <2>5, <2>6
<1>4. ASSUME NEW p \in Previews, Preflight(p) PROVE IInv'
  <2>1. TypeOK'
    BY <1>4 DEF Preflight, LeaveSelect, Unmoved, TypeOK
  <2>2. PermitConserved'
    BY <1>4 DEF Preflight, LeaveSelect, Unmoved, TypeOK, PermitConserved
  <2>3. SlotInv'
    BY <1>4 DEF Preflight, LeaveSelect, Unmoved, TypeOK, SlotInv, TakenInv
  <2>4. TakenInv'
    BY <1>4 DEF Preflight, LeaveSelect, Unmoved, TypeOK, SlotInv, TakenInv
  <2>5. SignalInv'
    BY <1>4 DEF Preflight, LeaveSelect, Unmoved, TypeOK, PermitConserved, SlotInv,
      TakenInv, SignalInv
  <2>6. CancelAcknowledgedOnce'
    BY <1>4 DEF Preflight, LeaveSelect, Unmoved, TypeOK, TakenInv, SignalInv,
      CancelAcknowledgedOnce
  <2>7. QED
    BY <2>1, <2>2, <2>3, <2>4, <2>5, <2>6
<1>5. ASSUME NEW p \in Previews, Generate(p) PROVE IInv'
  <2>1. TypeOK'
    BY <1>5 DEF Generate, LeaveSelect, Unmoved, TypeOK
  <2>2. PermitConserved'
    BY <1>5 DEF Generate, LeaveSelect, Unmoved, TypeOK, PermitConserved
  <2>3. SlotInv'
    BY <1>5 DEF Generate, LeaveSelect, Unmoved, TypeOK, SlotInv, TakenInv
  <2>4. TakenInv'
    BY <1>5 DEF Generate, LeaveSelect, Unmoved, TypeOK, SlotInv, TakenInv
  <2>5. SignalInv'
    BY <1>5 DEF Generate, LeaveSelect, Unmoved, TypeOK, PermitConserved, SlotInv,
      TakenInv, SignalInv
  <2>6. CancelAcknowledgedOnce'
    BY <1>5 DEF Generate, LeaveSelect, Unmoved, TypeOK, TakenInv, SignalInv,
      CancelAcknowledgedOnce
  <2>7. QED
    BY <2>1, <2>2, <2>3, <2>4, <2>5, <2>6
<1>6. ASSUME NEW p \in Previews, Cancelled(p) PROVE IInv'
  <2>1. TypeOK'
    BY <1>6 DEF Cancelled, LeaveSelect, Unmoved, TypeOK
  <2>2. PermitConserved'
    BY <1>6 DEF Cancelled, LeaveSelect, Unmoved, TypeOK, PermitConserved
  <2>3. SlotInv'
    BY <1>6 DEF Cancelled, LeaveSelect, Unmoved, TypeOK, SlotInv, TakenInv
  <2>4. TakenInv'
    BY <1>6 DEF Cancelled, LeaveSelect, Unmoved, TypeOK, SlotInv, TakenInv
  <2>5. SignalInv'
    BY <1>6 DEF Cancelled, LeaveSelect, Unmoved, TypeOK, PermitConserved, SlotInv,
      TakenInv, SignalInv
  <2>6. CancelAcknowledgedOnce'
    BY <1>6 DEF Cancelled, LeaveSelect, Unmoved, TypeOK, TakenInv, SignalInv,
      CancelAcknowledgedOnce
  <2>7. QED
    BY <2>1, <2>2, <2>3, <2>4, <2>5, <2>6
<1>7. ASSUME NEW p \in Previews, Finish(p) PROVE IInv'
  <2>1. TypeOK'
    BY <1>7 DEF Finish, DropSlotSender, Unmoved, TypeOK, PermitConserved
  <2>2. PermitConserved'
    BY <1>7 DEF Finish, DropSlotSender, Unmoved, TypeOK, PermitConserved
  <2>3. SlotInv'
    BY <1>7 DEF Finish, DropSlotSender, Unmoved, TypeOK, SlotInv, TakenInv
  <2>4. TakenInv'
    BY <1>7 DEF Finish, DropSlotSender, Unmoved, TypeOK, SlotInv, TakenInv
  <2>5. SignalInv'
    BY <1>7 DEF Finish, DropSlotSender, Unmoved, TypeOK, PermitConserved, SlotInv,
      TakenInv, SignalInv
  <2>6. CancelAcknowledgedOnce'
    BY <1>7 DEF Finish, DropSlotSender, Unmoved, TypeOK, TakenInv, SignalInv,
      CancelAcknowledgedOnce
  <2>7. QED
    BY <2>1, <2>2, <2>3, <2>4, <2>5, <2>6
<1>8. ASSUME NEW p \in Previews, DropHandler(p) PROVE IInv'
  <2>1. TypeOK'
    BY <1>8 DEF DropHandler, Unmoved, TypeOK, PermitConserved
  <2>2. PermitConserved'
    BY <1>8 DEF DropHandler, Unmoved, TypeOK, PermitConserved
  <2>3. SlotInv'
    BY <1>8 DEF DropHandler, Unmoved, TypeOK, SlotInv, TakenInv
  <2>4. TakenInv'
    BY <1>8 DEF DropHandler, Unmoved, TypeOK, SlotInv, TakenInv
  <2>5. SignalInv'
    BY <1>8 DEF DropHandler, Unmoved, TypeOK, PermitConserved, SlotInv, TakenInv,
      SignalInv
  <2>6. CancelAcknowledgedOnce'
    BY <1>8 DEF DropHandler, Unmoved, TypeOK, TakenInv, SignalInv, CancelAcknowledgedOnce
  <2>7. QED
    BY <2>1, <2>2, <2>3, <2>4, <2>5, <2>6
<1>9. ASSUME NEW c \in Cancels, NEW cred \in Credentials, CancelDenied(c, cred) PROVE IInv'
  <2>1. TypeOK'
    BY <1>9 DEF CancelDenied, TypeOK
  <2>2. PermitConserved'
    BY <1>9 DEF CancelDenied, TypeOK, PermitConserved
  <2>3. SlotInv'
    BY <1>9 DEF CancelDenied, TypeOK, SlotInv, TakenInv
  <2>4. TakenInv'
    BY <1>9 DEF CancelDenied, TypeOK, SlotInv, TakenInv
  <2>5. SignalInv'
    BY <1>9 DEF CancelDenied, TypeOK, PermitConserved, SlotInv, TakenInv, SignalInv
  <2>6. CancelAcknowledgedOnce'
    BY <1>9 DEF CancelDenied, TypeOK, TakenInv, SignalInv, CancelAcknowledgedOnce
  <2>7. QED
    BY <2>1, <2>2, <2>3, <2>4, <2>5, <2>6
<1>10. ASSUME NEW c \in Cancels, CancelTake(c) PROVE IInv'
  <2>1. TypeOK'
    BY <1>10 DEF CancelTake, TypeOK
  <2>2. PermitConserved'
    BY <1>10 DEF CancelTake, TypeOK, PermitConserved
  <2>3. SlotInv'
    BY <1>10 DEF CancelTake, TypeOK, SlotInv, TakenInv
  <2>4. TakenInv'
    BY <1>10 DEF CancelTake, TypeOK, SlotInv, TakenInv
  <2>5. SignalInv'
    BY <1>10 DEF CancelTake, TypeOK, PermitConserved, SlotInv, TakenInv, SignalInv
  <2>6. CancelAcknowledgedOnce'
    BY <1>10 DEF CancelTake, TypeOK, TakenInv, SignalInv, CancelAcknowledgedOnce
  <2>7. QED
    BY <2>1, <2>2, <2>3, <2>4, <2>5, <2>6
<1>11. ASSUME NEW c \in Cancels, CancelSend(c) PROVE IInv'
  <2>1. TypeOK'
    BY <1>11 DEF CancelSend, TypeOK, TakenInv
  <2>2. PermitConserved'
    BY <1>11 DEF CancelSend, TypeOK, PermitConserved
  <2>3. SlotInv'
    BY <1>11 DEF CancelSend, TypeOK, SlotInv, TakenInv
  <2>4. TakenInv'
    BY <1>11 DEF CancelSend, TypeOK, SlotInv, TakenInv
  <2>5. SignalInv'
    BY <1>11 DEF CancelSend, TypeOK, PermitConserved, SlotInv, TakenInv, SignalInv
  <2>6. CancelAcknowledgedOnce'
    BY <1>11 DEF CancelSend, TypeOK, TakenInv, SignalInv, CancelAcknowledgedOnce
  <2>7. QED
    BY <2>1, <2>2, <2>3, <2>4, <2>5, <2>6
<1>12. CASE ServerStep
  <2>1. TypeOK'
    BY <1>12 DEF ServerStep, ShutdownSignal, DrainDeadline, Stop, Stopped, ServerOnly,
      vars, TypeOK
  <2>2. PermitConserved'
    BY <1>12 DEF ServerStep, ShutdownSignal, DrainDeadline, Stop, Stopped, ServerOnly,
      vars, TypeOK, PermitConserved
  <2>3. SlotInv'
    BY <1>12 DEF ServerStep, ShutdownSignal, DrainDeadline, Stop, Stopped, ServerOnly,
      vars, TypeOK, SlotInv, TakenInv
  <2>4. TakenInv'
    BY <1>12 DEF ServerStep, ShutdownSignal, DrainDeadline, Stop, Stopped, ServerOnly,
      vars, TypeOK, SlotInv, TakenInv
  <2>5. SignalInv'
    BY <1>12 DEF ServerStep, ShutdownSignal, DrainDeadline, Stop, Stopped, ServerOnly,
      vars, TypeOK, PermitConserved, SlotInv, TakenInv, SignalInv
  <2>6. CancelAcknowledgedOnce'
    BY <1>12 DEF ServerStep, ShutdownSignal, DrainDeadline, Stop, Stopped, ServerOnly,
      vars, TypeOK, TakenInv, SignalInv, CancelAcknowledgedOnce
  <2>7. QED
    BY <2>1, <2>2, <2>3, <2>4, <2>5, <2>6
<1>13. CASE UNCHANGED vars
  BY <1>13 DEF vars, TypeOK, PermitConserved, SlotInv, TakenInv, SignalInv,
              CancelAcknowledgedOnce
<1>14. QED
  BY <1>1, <1>2, <1>3, <1>4, <1>5, <1>6, <1>7, <1>8, <1>9, <1>10, <1>11, <1>12, <1>13
  DEF Next, PreviewStep, CancelStep

(* Every variable keeps its type, for any set of requests. *)
THEOREM RuntimeTyped == Spec => []TypeOK
<1>1. IInv => TypeOK
  BY DEF IInv
<1>2. QED
  BY InitIInv, StepIInv, <1>1, PTL DEF Spec

(* The single permit is neither shared nor lost, for any set of requests. *)
THEOREM RuntimePermit == Spec => []PermitConserved
<1>1. IInv => PermitConserved
  BY DEF IInv
<1>2. QED
  BY InitIInv, StepIInv, <1>1, PTL DEF Spec

(* A generation that runs stays reachable for a cancel. *)
THEOREM RuntimeCancellable == Spec => []RunningIsCancellable
<1>1. IInv => RunningIsCancellable
  BY DEF IInv, SlotInv, TakenInv, SignalInv, RunningIsCancellable
<1>2. QED
  BY InitIInv, StepIInv, <1>1, PTL DEF Spec

(* A 499 answer always has its acknowledged POST /cancel. *)
THEOREM RuntimeNoSpurious == Spec => []NoSpuriousCancel
<1>1. IInv => NoSpuriousCancel
  BY DEF IInv, SignalInv, NoSpuriousCancel
<1>2. QED
  BY InitIInv, StepIInv, <1>1, PTL DEF Spec

(* No generation is acknowledged as cancelled twice. *)
THEOREM RuntimeAckOnce == Spec => []CancelAcknowledgedOnce
<1>1. IInv => CancelAcknowledgedOnce
  BY DEF IInv
<1>2. QED
  BY InitIInv, StepIInv, <1>1, PTL DEF Spec

-----------------------------------------------------------------------------
(* The mapped initial state is an initial state of JobOwnership. *)
LEMMA RefinesInit == Init => Jobs!JobInit
<1> SUFFICES ASSUME Init PROVE Jobs!JobInit
  OBVIOUS
<1>1. \A p \in Previews : JobOf(p) = "waiting"
  BY DEF Init, JobOf, Holding, InSelect
<1>2. {p \in Previews : sender[p] = "sent"} = {}
  BY DEF Init
<1>3. QED
  BY <1>1, <1>2 DEF Jobs!JobInit

(* Changing one preview's place changes one job, or none. *)
LEMMA OneJob ==
  ASSUME NEW p \in Previews, NEW v,
         \A q \in Previews : JobOf(q)' = IF q = p THEN v ELSE JobOf(q)
  PROVE  [q \in Previews |-> JobOf(q)]'
           = [[q \in Previews |-> JobOf(q)] EXCEPT ![p] = v]
  OBVIOUS

(* Changing no place changes no job. *)
LEMMA SameJob ==
  ASSUME \A q \in Previews : JobOf(q)' = JobOf(q)
  PROVE  [q \in Previews |-> JobOf(q)]' = [q \in Previews |-> JobOf(q)]
  OBVIOUS

(* Every step maps to a step of JobOwnership or to a stutter. *)
LEMMA RefinesStep == IInv /\ [Next]_vars => [Jobs!JobNext]_(Jobs!jvars)
<1> SUFFICES ASSUME IInv, [Next]_vars PROVE [Jobs!JobNext]_(Jobs!jvars)
  OBVIOUS
<1> DEFINE sig == {q \in Previews : sender[q] = "sent"}
<1> USE RuntimeAssumption
<1> USE DEF PcStates, SenderStates, InSelect, Holding, Slots, IInv
<1>1. ASSUME NEW p \in Previews, NEW cred \in Credentials, Accept(p, cred)
      PROVE  [Jobs!JobNext]_(Jobs!jvars)
  <2>1. sig' = sig
    BY <1>1 DEF Accept
  <2>2. CASE authorize(cred) = 200
    <3>1. \A q \in Previews : JobOf(q)' = JobOf(q)
      BY <1>1, <2>2 DEF Accept, Unmoved, JobOf, TypeOK
    <3>2. QED
      BY <2>1, <3>1, SameJob DEF Jobs!jvars
  <2>3. CASE authorize(cred) # 200
    <3>1. authorize(cred) \in {401, 403}
      BY <2>3 DEF authorize
    <3>2. \A q \in Previews : JobOf(q)' = IF q = p THEN "refused" ELSE JobOf(q)
      BY <1>1, <2>3, <3>1 DEF Accept, Respond, JobOf, TypeOK
    <3>3. JobOf(p) = "waiting"
      BY <1>1 DEF Accept, JobOf
    <3>4. Jobs!Refuse(p)
      BY <2>1, <3>2, <3>3, OneJob DEF Jobs!Refuse
    <3>5. QED
      BY <3>4 DEF Jobs!JobNext
  <2>4. QED
    BY <2>2, <2>3
<1>2. ASSUME NEW p \in Previews, NEW body \in Bodies, Preview(p, body)
      PROVE  [Jobs!JobNext]_(Jobs!jvars)
  <2>1. sig' = sig
    BY <1>2 DEF Preview
  <2>2. JobOf(p) = "waiting"
    BY <1>2 DEF Preview, JobOf
  <2>3. CASE BodyStatus(body) = 200 /\ permits > 0
    <3>1. \A q \in Previews : JobOf(q)' = IF q = p THEN "running" ELSE JobOf(q)
      BY <1>2, <2>3 DEF Preview, JobOf, TypeOK
    <3>2. \A q \in Previews : JobOf(q) # "running"
      BY <2>3 DEF PermitConserved, JobOf, TypeOK
    <3>3. Jobs!Admit(p)
      BY <2>1, <2>2, <3>1, <3>2, OneJob DEF Jobs!Admit
    <3>4. QED
      BY <3>3 DEF Jobs!JobNext
  <2>4. CASE ~(BodyStatus(body) = 200 /\ permits > 0)
    <3>1. PICK s \in {400, 413, 422, 429} : Respond(p, s)
      BY <1>2, <2>4 DEF Preview, BodyStatus, TypeOK
    <3>2. \A q \in Previews : JobOf(q)' = IF q = p THEN "refused" ELSE JobOf(q)
      BY <1>2, <3>1 DEF Preview, Respond, JobOf, TypeOK
    <3>3. Jobs!Refuse(p)
      BY <2>1, <2>2, <3>2, OneJob DEF Jobs!Refuse
    <3>4. QED
      BY <3>3 DEF Jobs!JobNext
  <2>5. QED
    BY <2>3, <2>4
<1>3. ASSUME NEW p \in Previews, ArmCancel(p)
      PROVE  [Jobs!JobNext]_(Jobs!jvars)
  <2>1. \A q \in Previews : JobOf(q)' = JobOf(q)
    BY <1>3 DEF ArmCancel, DropSlotSender, JobOf, TypeOK, SlotInv
  <2>2. sig' = sig
    BY <1>3 DEF ArmCancel, DropSlotSender, TypeOK, SlotInv
  <2>3. QED
    BY <2>1, <2>2, SameJob DEF Jobs!jvars
<1>4. ASSUME NEW p \in Previews, Preflight(p)
      PROVE  [Jobs!JobNext]_(Jobs!jvars)
  <2>1. \A q \in Previews : JobOf(q)' = JobOf(q)
    BY <1>4 DEF Preflight, LeaveSelect, JobOf, TypeOK
  <2>2. sig' = sig
    BY <1>4 DEF Preflight, LeaveSelect, TypeOK
  <2>3. QED
    BY <2>1, <2>2, SameJob DEF Jobs!jvars
<1>5. ASSUME NEW p \in Previews, Generate(p)
      PROVE  [Jobs!JobNext]_(Jobs!jvars)
  <2>1. \A q \in Previews : JobOf(q)' = JobOf(q)
    BY <1>5 DEF Generate, LeaveSelect, JobOf, TypeOK
  <2>2. sig' = sig
    BY <1>5 DEF Generate, LeaveSelect, TypeOK
  <2>3. QED
    BY <2>1, <2>2, SameJob DEF Jobs!jvars
<1>6. ASSUME NEW p \in Previews, Cancelled(p)
      PROVE  [Jobs!JobNext]_(Jobs!jvars)
  <2>1. \A q \in Previews : JobOf(q)' = JobOf(q)
    BY <1>6 DEF Cancelled, LeaveSelect, JobOf, TypeOK
  <2>2. sig' = sig
    BY <1>6 DEF Cancelled, LeaveSelect, TypeOK
  <2>3. QED
    BY <2>1, <2>2, SameJob DEF Jobs!jvars
<1>7. ASSUME NEW p \in Previews, Finish(p)
      PROVE  [Jobs!JobNext]_(Jobs!jvars)
  <2>1. CASE pc[p] = "disarm"
    <3>1. \A q \in Previews : JobOf(q)' = JobOf(q)
      BY <1>7, <2>1 DEF Finish, DropSlotSender, JobOf, TypeOK, SlotInv
    <3>2. sig' = sig
      BY <1>7, <2>1 DEF Finish, DropSlotSender, TypeOK, SlotInv
    <3>3. QED
      BY <3>1, <3>2, SameJob DEF Jobs!jvars
  <2>2. CASE pc[p] = "release"
    <3>1. sig' = sig
      BY <1>7, <2>2 DEF Finish
    <3>2. JobOf(p) = "running"
      BY <2>2 DEF JobOf
    <3>3. status[p] \in {200, 499, 502, 503}
      BY <2>2 DEF SignalInv
    <3>4. CASE status[p] = 499
      <4>1. \A q \in Previews : JobOf(q)' = IF q = p THEN "cancelled" ELSE JobOf(q)
        BY <1>7, <2>2, <3>4 DEF Finish, JobOf, TypeOK
      <4>2. p \in sig
        BY <3>4 DEF SignalInv
      <4>3. Jobs!Abort(p)
        BY <3>1, <3>2, <4>1, <4>2, OneJob DEF Jobs!Abort
      <4>4. QED
        BY <4>3 DEF Jobs!JobNext
    <3>5. CASE status[p] \in {200, 502, 503}
      <4>1. \A q \in Previews : JobOf(q)' = IF q = p THEN "ended" ELSE JobOf(q)
        BY <1>7, <2>2, <3>5 DEF Finish, JobOf, TypeOK
      <4>2. Jobs!Complete(p)
        BY <3>1, <3>2, <4>1, OneJob DEF Jobs!Complete
      <4>3. QED
        BY <4>2 DEF Jobs!JobNext
    <3>6. QED
      BY <3>3, <3>4, <3>5
  <2>3. QED
    BY <1>7, <2>1, <2>2 DEF Finish
<1>8. ASSUME NEW p \in Previews, DropHandler(p)
      PROVE  [Jobs!JobNext]_(Jobs!jvars)
  <2>1. sig' = sig
    BY <1>8 DEF DropHandler
  <2>2. CASE pc[p] = "reading"
    <3>1. \A q \in Previews : JobOf(q)' = IF q = p THEN "refused" ELSE JobOf(q)
      BY <1>8, <2>2 DEF DropHandler, JobOf, TypeOK, SlotInv
    <3>2. JobOf(p) = "waiting"
      BY <2>2 DEF JobOf
    <3>3. Jobs!Refuse(p)
      BY <2>1, <3>1, <3>2, OneJob DEF Jobs!Refuse
    <3>4. QED
      BY <3>3 DEF Jobs!JobNext
  <2>3. CASE pc[p] \in InSelect
    <3>1. \A q \in Previews : JobOf(q)' = IF q = p THEN "ended" ELSE JobOf(q)
      BY <1>8, <2>3 DEF DropHandler, JobOf, TypeOK, SignalInv
    <3>2. JobOf(p) = "running"
      BY <2>3 DEF JobOf
    <3>3. Jobs!Complete(p)
      BY <2>1, <3>1, <3>2, OneJob DEF Jobs!Complete
    <3>4. QED
      BY <3>3 DEF Jobs!JobNext
  <2>4. QED
    BY <1>8, <2>2, <2>3 DEF DropHandler
<1>9. ASSUME NEW c \in Cancels, NEW cred \in Credentials, CancelDenied(c, cred)
      PROVE  [Jobs!JobNext]_(Jobs!jvars)
  <2>1. \A q \in Previews : JobOf(q)' = JobOf(q)
    BY <1>9 DEF CancelDenied, JobOf, TypeOK
  <2>2. sig' = sig
    BY <1>9 DEF CancelDenied, TypeOK
  <2>3. QED
    BY <2>1, <2>2, SameJob DEF Jobs!jvars
<1>10. ASSUME NEW c \in Cancels, CancelTake(c)
      PROVE  [Jobs!JobNext]_(Jobs!jvars)
  <2>1. \A q \in Previews : JobOf(q)' = JobOf(q)
    BY <1>10 DEF CancelTake, JobOf, TypeOK, SlotInv
  <2>2. sig' = sig
    BY <1>10 DEF CancelTake, TypeOK, SlotInv
  <2>3. QED
    BY <2>1, <2>2, SameJob DEF Jobs!jvars
<1>11. ASSUME NEW c \in Cancels, CancelSend(c)
      PROVE  [Jobs!JobNext]_(Jobs!jvars)
  <2>1. took[c] \in Previews /\ sender[took[c]] = "taken"
    BY <1>11 DEF CancelSend, TakenInv
  <2>2. \A q \in Previews : JobOf(q)' = JobOf(q)
    BY <1>11, <2>1 DEF CancelSend, JobOf, TypeOK
  <2>3. CASE pc[took[c]] \in InSelect
    <3>1. sig' = sig \cup {took[c]} /\ took[c] \notin sig
      BY <1>11, <2>1, <2>3 DEF CancelSend, TypeOK
    <3>2. JobOf(took[c]) = "running"
      BY <2>1, <2>3 DEF JobOf
    <3>3. PICK q \in Previews : q = took[c]
      BY <2>1
    <3>4. Jobs!Signal(q)
      BY <2>2, <3>1, <3>2, <3>3, SameJob DEF Jobs!Signal
    <3>5. QED
      BY <3>4 DEF Jobs!JobNext
  <2>4. CASE pc[took[c]] \notin InSelect
    <3>1. sig' = sig
      BY <1>11, <2>1, <2>4 DEF CancelSend, TypeOK
    <3>2. QED
      BY <2>2, <3>1, SameJob DEF Jobs!jvars
  <2>5. QED
    BY <2>3, <2>4
<1>12. CASE ServerStep
  <2>1. \A q \in Previews : JobOf(q)' = JobOf(q)
    BY <1>12 DEF ServerStep, ShutdownSignal, DrainDeadline, Stop, Stopped, ServerOnly,
      vars, JobOf, TypeOK
  <2>2. sig' = sig
    BY <1>12 DEF ServerStep, ShutdownSignal, DrainDeadline, Stop, Stopped, ServerOnly,
      vars, TypeOK
  <2>3. QED
    BY <2>1, <2>2, SameJob DEF Jobs!jvars
<1>13. CASE UNCHANGED vars
  <2>1. \A q \in Previews : JobOf(q)' = JobOf(q)
    BY <1>13 DEF vars, JobOf, TypeOK
  <2>2. sig' = sig
    BY <1>13 DEF vars, TypeOK
  <2>3. QED
    BY <2>1, <2>2, SameJob DEF Jobs!jvars
<1>14. QED
  BY <1>1, <1>2, <1>3, <1>4, <1>5, <1>6, <1>7, <1>8, <1>9, <1>10, <1>11, <1>12, <1>13
  DEF Next, PreviewStep, CancelStep

(* The runtime implements JobOwnership, for any set of requests. *)
THEOREM RuntimeOwnsOneJob == Spec => OwnsOneJob
  BY InitIInv, StepIInv, RefinesInit, RefinesStep, PTL
  DEF Spec, OwnsOneJob, Jobs!JobSpec

-------------------------------------------------------------------------------
(* The pairing.                                                              *)

(* The lock is exclusive over the whole transaction, a temporary file is    *)
(* whole before its rename, and a loader that is about to publish has seen  *)
(* the name free and still has it free.                                     *)
LockedHolds == \A p \in Loaders : lpc[p] \in Locked => holder = p
WrittenFirst == \A p \in Loaders : lpc[p] = "renaming" => temp[p] = "whole"
NameFree == \A p \in Loaders : lpc[p] \in {"creating", "writing", "renaming"} => file = Nil

PairingIInv == /\ PairingTypeOK /\ LockedHolds /\ WrittenFirst /\ NameFree
               /\ Agreement /\ WholePublished

-----------------------------------------------------------------------------
(* What the first directory scan can find satisfies the invariant. *)
LEMMA PairingInitIInv == PairingInit => PairingIInv
<1> SUFFICES ASSUME PairingInit PROVE PairingIInv
  OBVIOUS
<1> USE PairingAssumption DEF PairingInit, Files, Amount, Locked, Finished, LoaderPcs
<1>1. directory \in BOOLEAN
  BY Zenon
<1>2. PairingTypeOK
  <2>1. file \in Files \cup {Nil}
    BY SMT
  <2>2. lpc \in [Loaders -> LoaderPcs] /\ temp \in [Loaders -> Amount \cup {Nil}]
        /\ got \in [Loaders -> Loaders \cup {Existing, Nil}] /\ holder \in Loaders \cup {Nil}
    BY SMT
  <2>3. QED
    BY <1>1, <2>1, <2>2 DEF PairingTypeOK
<1>3. LockedHolds /\ WrittenFirst /\ NameFree /\ Agreement
  BY DEF LockedHolds, WrittenFirst, NameFree, Agreement
<1>4. WholePublished
  BY DEF WholePublished
<1>5. QED
  BY <1>2, <1>3, <1>4 DEF PairingIInv

(* Every system call of a loader, its failure and its death preserve it. *)
LEMMA PairingStepIInv == PairingIInv /\ [PairingNext]_pvars => PairingIInv'
<1> SUFFICES ASSUME PairingIInv, [PairingNext]_pvars PROVE PairingIInv'
  OBVIOUS
<1> USE PairingAssumption DEF PairingIInv, PairingTypeOK, LockedHolds, WrittenFirst, NameFree,
        Agreement, WholePublished, Files, Amount, Locked, Finished, LoaderPcs
<1>1. ASSUME NEW p \in Loaders, private_directory(p) PROVE PairingIInv'
  BY <1>1 DEF private_directory, Goto, FailWith, Unlock
<1>2. ASSUME NEW p \in Loaders, Lock(p) PROVE PairingIInv'
  BY <1>2 DEF Lock, Goto, FailWith, Unlock
<1>3. ASSUME NEW p \in Loaders, ReadToken(p) PROVE PairingIInv'
  BY <1>3 DEF ReadToken, Usable, Return, Goto, FailWith, Unlock
<1>4. ASSUME NEW p \in Loaders, CreateTemp(p) PROVE PairingIInv'
  BY <1>4 DEF CreateTemp, Goto
<1>5. ASSUME NEW p \in Loaders, WriteToken(p) PROVE PairingIInv'
  BY <1>5 DEF WriteToken, Goto
<1>6. ASSUME NEW p \in Loaders, Rename(p) PROVE PairingIInv'
  BY <1>6 DEF Rename, Goto
<1>7. ASSUME NEW p \in Loaders, SyncDirectory(p) PROVE PairingIInv'
  BY <1>7 DEF SyncDirectory, Goto
<1>8. ASSUME NEW p \in Loaders, CheckToken(p) PROVE PairingIInv'
  BY <1>8 DEF CheckToken, Usable, Return, Goto, FailWith, Unlock
<1>9. ASSUME NEW p \in Loaders, IOError(p) PROVE PairingIInv'
  BY <1>9 DEF IOError, Goto, FailWith, Unlock
<1>10. ASSUME NEW p \in Loaders, Kill(p) PROVE PairingIInv'
  BY <1>10 DEF Kill, Goto, Unlock
<1>11. CASE UNCHANGED pvars
  BY <1>11 DEF pvars
<1>12. QED
  BY <1>1, <1>2, <1>3, <1>4, <1>5, <1>6, <1>7, <1>8, <1>9, <1>10, <1>11
  DEF PairingNext, LoadStep

(* Only Rename writes the token file, and it finds the name free. *)
LEMMA StepKeepsFile == PairingIInv /\ [PairingNext]_pvars => (file # Nil => file' = file)
<1> SUFFICES ASSUME PairingIInv, [PairingNext]_pvars, file # Nil PROVE file' = file
  OBVIOUS
<1>1. ASSUME NEW p \in Loaders, LoadStep(p) PROVE file' = file
  BY <1>1 DEF PairingIInv, NameFree, LoadStep, private_directory, Lock, ReadToken,
    CreateTemp,
              WriteToken, Rename, SyncDirectory, CheckToken, Return, FailWith
<1>2. ASSUME NEW p \in Loaders, IOError(p) \/ Kill(p) PROVE file' = file
  BY <1>2 DEF IOError, Kill, FailWith
<1>3. CASE UNCHANGED pvars
  BY <1>3 DEF pvars
<1>4. QED
  BY <1>1, <1>2, <1>3 DEF PairingNext

-----------------------------------------------------------------------------
(* Every variable keeps its type. *)
THEOREM PairingTyped == PairingSpec => []PairingTypeOK
<1>1. PairingIInv => PairingTypeOK
  BY DEF PairingIInv
<1>2. QED
  BY PairingInitIInv, PairingStepIInv, <1>1, PTL DEF PairingSpec

(* All loaders that return a token return the one in the token file. *)
THEOREM PairingAgrees == PairingSpec => []Agreement
<1>1. PairingIInv => Agreement
  BY DEF PairingIInv
<1>2. QED
  BY PairingInitIInv, PairingStepIInv, <1>1, PTL DEF PairingSpec

(* A published token is whole. *)
THEOREM PairingPublishesWhole == PairingSpec => []WholePublished
<1>1. PairingIInv => WholePublished
  BY DEF PairingIInv
<1>2. QED
  BY PairingInitIInv, PairingStepIInv, <1>1, PTL DEF PairingSpec

(* No loader replaces a token file that exists. *)
THEOREM PairingNeverReplaces == PairingSpec => NeverReplaced
<1>1. PairingSpec => []PairingIInv
  BY PairingInitIInv, PairingStepIInv, PTL DEF PairingSpec
<1>2. QED
  BY <1>1, StepKeepsFile, PTL DEF PairingSpec, NeverReplaced
=============================================================================
