---------------------------- MODULE AxiomRuntime ----------------------------
(***************************************************************************)
(* The focused preview runtime: axiom-runtime/src/lib.rs and main.rs, with *)
(* the authorization middleware of phantom-core/src/api_security.rs.       *)
(*                                                                         *)
(* Previews are the POST /materialize requests and Cancels the POST        *)
(* /cancel requests the server ever receives.  Each is handled by a task   *)
(* of tokio's multi-threaded executor, so handlers interleave between any  *)
(* two operations on shared state (the semaphore, the cancel slot), and a  *)
(* handler's future can be dropped wherever it awaits: the client hung up, *)
(* or the process is shutting down.                                        *)
(***************************************************************************)
EXTENDS Naturals, FiniteSets

CONSTANTS Previews,  \* the POST /materialize requests
          Cancels,   \* the POST /cancel requests
          None       \* an empty cancel slot, and the absent answer

ASSUME RuntimeAssumption == None \notin Previews \cup {"true", "false"}

VARIABLES pc,       \* where each preview handler stands
          status,   \* the HTTP status a preview answered, 0 before that
          permits,  \* state.slots: the free permits of the semaphore
          slot,     \* state.cancel_slot: the preview whose sender it holds
          sender,   \* where the oneshot sender of each preview is
          cpc,      \* where each cancel handler stands
          took,     \* the preview whose sender a cancel took out of the slot
          answer,   \* "true" or "false": the `cancelled` field it answered
          phase     \* the server: serving, draining, stopping, stopped

vars == <<pc, status, permits, slot, sender, cpc, took, answer, phase>>

(* What a request carries, as far as the handlers tell requests apart. *)
Credentials == [browser : BOOLEAN, host : BOOLEAN,
                bearer : {"missing", "wrong", "paired"}]
Bodies == {"oversized", "malformed", "blank", "too_long", "explicit"}

(* AppState::local: slots is a Semaphore of one permit. *)
TwoSlots == 2
Slots == 1

(* Handler positions.  "reading" awaits the body; "admitted" is between    *)
(* try_acquire and arm_cancel; "preflight" and "generating" await inside   *)
(* the select!; "disarm" and "release" are the handler's last two effects. *)
PcStates == {"new", "reading", "admitted", "preflight", "generating",
             "disarm", "release", "done", "dropped"}
InSelect == {"preflight", "generating"}
Holding  == {"admitted", "disarm", "release"} \cup InSelect
Ended    == {"done", "dropped"}

SenderStates == {"unarmed", "slot", "taken", "sent", "lost"}

Init ==
  /\ pc      = [p \in Previews |-> "new"]
  /\ status  = [p \in Previews |-> 0]
  /\ permits = Slots
  /\ slot    = None
  /\ sender  = [p \in Previews |-> "unarmed"]
  /\ cpc     = [c \in Cancels |-> "new"]
  /\ took    = [c \in Cancels |-> None]
  /\ answer  = [c \in Cancels |-> None]
  /\ phase   = "serving"

-----------------------------------------------------------------------------
(* Authorization: 403 for browser origins and foreign hosts, 401 without   *)
(* the paired bearer token, 200 to go on.                                  *)
authorize(cred) ==
  IF cred.browser \/ ~cred.host THEN 403
  ELSE IF cred.bearer = "paired" THEN 200 ELSE 401

(* The extractor's refusals of a body (its 400, 415 and 422 for what is    *)
(* not the expected JSON stand as 422) and preview's own.                  *)
BodyStatus(body) ==
  CASE body = "oversized" -> 413
    [] body = "malformed" -> 422
    [] body \in {"blank", "too_long"} -> 400
    [] OTHER -> 200

Respond(p, s) == /\ status' = [status EXCEPT ![p] = s]
                 /\ pc' = [pc EXCEPT ![p] = "done"]

Unmoved == UNCHANGED <<cpc, took, answer, phase>>

(* A request reaches the server; a refused one is answered before its body *)
(* is read.                                                                *)
Accept(p, cred) ==
  /\ pc[p] = "new"
  /\ phase = "serving"
  /\ IF authorize(cred) = 200
     THEN pc' = [pc EXCEPT ![p] = "reading"] /\ UNCHANGED status
     ELSE Respond(p, authorize(cred))
  /\ UNCHANGED <<permits, slot, sender>> /\ Unmoved

(* preview up to try_acquire: the only shared operation is the last one. *)
Preview(p, body) ==
  /\ pc[p] = "reading"
  /\ \/ /\ BodyStatus(body) # 200
        /\ Respond(p, BodyStatus(body))
        /\ UNCHANGED permits
     \/ /\ BodyStatus(body) = 200 /\ permits = 0
        /\ Respond(p, 429)
        /\ UNCHANGED permits
     \/ /\ BodyStatus(body) = 200 /\ permits > 0
        /\ permits' = permits - 1
        /\ pc' = [pc EXCEPT ![p] = "admitted"]
        /\ UNCHANGED status
  /\ UNCHANGED <<slot, sender>> /\ Unmoved

(* A sender that leaves the slot without being sent is dropped, and its    *)
(* receiver resolves with an error.                                        *)
DropSlotSender(f) == IF slot = None THEN f ELSE [f EXCEPT ![slot] = "lost"]

(* arm_cancel stores a new sender, dropping whatever the slot held. *)
ArmCancel(p) ==
  /\ pc[p] = "admitted"
  /\ sender' = [DropSlotSender(sender) EXCEPT ![p] = "slot"]
  /\ slot' = p
  /\ pc' = [pc EXCEPT ![p] = "preflight"]
  /\ UNCHANGED <<status, permits>> /\ Unmoved

(* The select! ends: its futures are dropped and the handler goes on. *)
LeaveSelect(p, s) == /\ status' = [status EXCEPT ![p] = s]
                     /\ pc' = [pc EXCEPT ![p] = "disarm"]
                     /\ UNCHANGED <<permits, slot, sender>> /\ Unmoved

(* generate: the fresh inventory.  503 when the service is down or the     *)
(* reported identity does not match, 502 when the report is unusable.      *)
Preflight(p) ==
  /\ pc[p] = "preflight"
  /\ \/ LeaveSelect(p, 503)
     \/ LeaveSelect(p, 502)
     \/ /\ pc' = [pc EXCEPT ![p] = "generating"]
        /\ UNCHANGED <<status, permits, slot, sender>> /\ Unmoved

GenerateWithoutTimeout(p) == pc[p] = "generating" /\ FALSE /\ UNCHANGED vars

(* generate: the model's answer, accepted or refused. *)
Generate(p) ==
  /\ pc[p] = "generating"
  /\ LeaveSelect(p, 200) \/ LeaveSelect(p, 502)

(* The other branch of the select!: `_ = cancel_rx` matches a delivered    *)
(* signal and, just as well, a sender that was dropped.                    *)
Cancelled(p) ==
  /\ pc[p] \in InSelect
  /\ sender[p] \in {"sent", "lost"}
  /\ LeaveSelect(p, 499)

ReleaseBeforeDisarm(p) ==
  /\ \/ /\ pc[p] = "disarm"
        /\ permits' = permits + 1
        /\ pc' = [pc EXCEPT ![p] = "release"]
        /\ UNCHANGED <<slot, sender>>
     \/ /\ pc[p] = "release"
        /\ slot' = None
        /\ sender' = DropSlotSender(sender)
        /\ pc' = [pc EXCEPT ![p] = "done"]
        /\ UNCHANGED permits
  /\ UNCHANGED status /\ Unmoved

(* The end of preview: disarm_cancel, then the permit is dropped with the  *)
(* handler's locals.                                                       *)
Finish(p) ==
  /\ \/ /\ pc[p] = "disarm"
        /\ slot' = None
        /\ sender' = DropSlotSender(sender)
        /\ pc' = [pc EXCEPT ![p] = "release"]
        /\ UNCHANGED permits
     \/ /\ pc[p] = "release"
        /\ permits' = permits + 1
        /\ pc' = [pc EXCEPT ![p] = "done"]
        /\ UNCHANGED <<slot, sender>>
  /\ UNCHANGED status /\ Unmoved

DropLeakingPermit(p) ==
  /\ pc[p] \in {"reading"} \cup InSelect
  /\ pc' = [pc EXCEPT ![p] = "dropped"]
  /\ UNCHANGED <<permits, status, slot, sender>> /\ Unmoved

DropReleasingTwice(p) ==
  /\ pc[p] \in {"reading"} \cup InSelect
  /\ pc' = [pc EXCEPT ![p] = "dropped"]
  /\ permits' = permits + 1
  /\ UNCHANGED <<status, slot, sender>> /\ Unmoved

(* The handler's future is dropped at an await: the permit goes back, but  *)
(* disarm_cancel is never called and the slot may keep a dead sender.      *)
DropHandler(p) ==
  /\ pc[p] \in {"reading"} \cup InSelect
  /\ pc' = [pc EXCEPT ![p] = "dropped"]
  /\ permits' = IF pc[p] \in InSelect THEN permits + 1 ELSE permits
  /\ UNCHANGED <<status, slot, sender>> /\ Unmoved

-----------------------------------------------------------------------------
CancelPeek(c) ==
  /\ cpc[c] = "new"
  /\ phase = "serving"
  /\ took' = [took EXCEPT ![c] = slot]
  /\ cpc' = [cpc EXCEPT ![c] = IF slot = None THEN "done" ELSE "taken"]
  /\ answer' = [answer EXCEPT ![c] = IF slot = None THEN "false" ELSE None]
  /\ UNCHANGED <<pc, status, permits, slot, sender, phase>>

(* The middleware also guards POST /cancel. *)
CancelDenied(c, cred) ==
  /\ cpc[c] = "new"
  /\ phase = "serving"
  /\ authorize(cred) # 200
  /\ cpc' = [cpc EXCEPT ![c] = "done"]
  /\ UNCHANGED <<pc, status, permits, slot, sender, took, answer, phase>>

(* cancel_generation takes the sender; the lock is free again before the   *)
(* signal is sent.                                                         *)
CancelTake(c) ==
  /\ cpc[c] = "new"
  /\ phase = "serving"
  /\ took' = [took EXCEPT ![c] = slot]
  /\ cpc' = [cpc EXCEPT ![c] = IF slot = None THEN "done" ELSE "taken"]
  /\ answer' = [answer EXCEPT ![c] = IF slot = None THEN "false" ELSE None]
  /\ sender' = IF slot = None THEN sender ELSE [sender EXCEPT ![slot] = "taken"]
  /\ slot' = None
  /\ UNCHANGED <<pc, status, permits, phase>>

(* tx.send succeeds exactly while the receiver lives, inside the select!. *)
CancelSend(c) ==
  /\ cpc[c] = "taken"
  /\ LET p == took[c]
         delivered == pc[p] \in InSelect
     IN /\ sender' = [sender EXCEPT ![p] = IF delivered THEN "sent" ELSE "lost"]
        /\ answer' = [answer EXCEPT ![c] = IF delivered THEN "true" ELSE "false"]
  /\ cpc' = [cpc EXCEPT ![c] = "done"]
  /\ UNCHANGED <<pc, status, permits, slot, took, phase>>

-----------------------------------------------------------------------------
Quiet == /\ \A p \in Previews : pc[p] \in {"new"} \cup Ended
         /\ \A c \in Cancels : cpc[c] # "taken"

ServerOnly == UNCHANGED <<pc, status, permits, slot, sender, cpc, took, answer>>

(* main: a signal starts the graceful shutdown, which accepts nothing new. *)
ShutdownSignal == /\ phase = "serving"
                  /\ phase' = "draining"
                  /\ ServerOnly

NoDrainDeadline == FALSE /\ UNCHANGED vars

(* Five seconds later the server is aborted: handlers still at an await    *)
(* are dropped.                                                            *)
DrainDeadline == /\ phase = "draining"
                 /\ phase' = "stopping"
                 /\ ServerOnly

Stop == /\ phase \in {"draining", "stopping"}
        /\ Quiet
        /\ phase' = "stopped"
        /\ ServerOnly

(* After the process ends nothing happens; the model idles. *)
Stopped == phase = "stopped" /\ UNCHANGED vars

PreviewStep(p) ==
  \/ \E cred \in Credentials : Accept(p, cred)
  \/ \E body \in Bodies : Preview(p, body)
  \/ ArmCancel(p) \/ Preflight(p) \/ Generate(p) \/ Cancelled(p)
  \/ Finish(p) \/ DropHandler(p)

CancelStep(c) == \/ \E cred \in Credentials : CancelDenied(c, cred)
                 \/ CancelTake(c) \/ CancelSend(c)

ServerStep == ShutdownSignal \/ DrainDeadline \/ Stop \/ Stopped

Next == \/ \E p \in Previews : PreviewStep(p)
        \/ \E c \in Cancels : CancelStep(c)
        \/ ServerStep

Spec == Init /\ [][Next]_vars

(* Fairness.  The executor runs every ready handler; the HTTP client's 90 s *)
(* timeout ends every inventory fetch and generation; the drain timer       *)
(* fires and the teardown drops what it finds.  Clients owe nothing: a body *)
(* may never arrive.                                                        *)
Fairness ==
  /\ \A p \in Previews :
        /\ WF_vars(ArmCancel(p)) /\ WF_vars(Preflight(p)) /\ WF_vars(Generate(p))
        /\ WF_vars(Finish(p))
        /\ WF_vars(phase = "stopping" /\ DropHandler(p))
  /\ \A c \in Cancels : WF_vars(CancelSend(c))
  /\ WF_vars(DrainDeadline) /\ WF_vars(Stop)

FairSpec == Spec /\ Fairness

-----------------------------------------------------------------------------
(* Every variable has its type. *)
TypeOK ==
  /\ pc \in [Previews -> PcStates]
  /\ status \in [Previews -> {0, 200, 400, 401, 403, 413, 422, 429, 499, 502, 503}]
  /\ permits \in 0..Slots
  /\ slot \in Previews \cup {None}
  /\ sender \in [Previews -> SenderStates]
  /\ cpc \in [Cancels -> {"new", "taken", "done"}]
  /\ took \in [Cancels -> Previews \cup {None}]
  /\ answer \in [Cancels -> {None, "true", "false"}]
  /\ phase \in {"serving", "draining", "stopping", "stopped"}

(* The generation slot is neither shared nor leaked: whatever mix of        *)
(* answers, cancellations, hang-ups and teardown ended the handlers so far, *)
(* one permit is free or exactly one handler holds it.                      *)
PermitConserved ==
  /\ \A p, q \in Previews : pc[p] \in Holding /\ pc[q] \in Holding => p = q
  /\ permits = 0 <=> \E p \in Previews : pc[p] \in Holding

(* A generation that runs can be cancelled: until a cancel claims it, its   *)
(* own sender is the one in the slot.  No other handler's disarm_cancel or  *)
(* arm_cancel ever takes it away.                                           *)
RunningIsCancellable ==
  \A p \in Previews : pc[p] \in InSelect =>
     \/ slot = p
     \/ sender[p] = "sent"
     \/ \E c \in Cancels : cpc[c] = "taken" /\ took[c] = p

(* Nobody is told "cancelled" out of the blue: a 499 answer means some      *)
(* POST /cancel was acknowledged for this very generation.  The select!     *)
(* also fires when the sender is merely dropped, so this rests on the       *)
(* order of disarm and release across handlers.                             *)
NoSpuriousCancel ==
  \A p \in Previews : status[p] = 499 =>
     \E c \in Cancels : took[c] = p /\ answer[c] = "true"

(* POST /cancel is idempotent: one generation is never reported cancelled   *)
(* to two callers, however they interleave with its end.                    *)
CancelAcknowledgedOnce ==
  \A c, d \in Cancels :
     answer[c] = "true" /\ answer[d] = "true" /\ took[c] = took[d] => c = d

(* "Abort the in-flight generation": an acknowledged cancel means the       *)
(* generation it hit does not go on to answer 200.                          *)
AcknowledgedCancelAborts ==
  \A c \in Cancels : answer[c] = "true" => status[took[c]] # 200

(* An admitted generation ends and gives its permit back, whether or not    *)
(* the model, the client or a canceller cooperates.                         *)
GenerationEnds ==
  \A p \in Previews : pc[p] \in Holding ~> pc[p] \in Ended

(* Once a shutdown signal arrives the process stops, even when a client     *)
(* never finishes sending its body.                                         *)
ShutdownCompletes == phase = "draining" ~> phase = "stopped"

(* The runtime implements the abstract single job with its cancellation. *)
JobOf(p) ==
  CASE pc[p] \in {"new", "reading"} -> "waiting"
    [] pc[p] \in Holding -> "running"
    [] pc[p] = "done" /\ status[p] = 499 -> "cancelled"
    [] pc[p] = "done" /\ status[p] \in {200, 502, 503} -> "ended"
    [] pc[p] = "done" /\ status[p] \notin {200, 499, 502, 503} -> "refused"
    [] OTHER -> IF sender[p] = "unarmed" THEN "refused" ELSE "ended"

Jobs == INSTANCE JobOwnership WITH
          Jobs <- Previews,
          job <- [p \in Previews |-> JobOf(p)],
          signalled <- {p \in Previews : sender[p] = "sent"}

(* Every step of the runtime is a step of JobOwnership or changes none of   *)
(* what it describes.                                                       *)
OwnsOneJob == Jobs!JobSpec
=============================================================================
