---------------------------- MODULE PhantomBridge ----------------------------
(***************************************************************************)
(* The overlay's native bridge: the materialize lease and its cancellation *)
(* in phantom-overlay/src-tauri/src/phantom_bridge.rs, with the Tauri      *)
(* commands of lib.rs that call it.                                        *)
(*                                                                         *)
(* Calls are the trigger_materialize commands and Cancels the              *)
(* cancel_materialize commands the webview issues.  Each is a task of its  *)
(* own, so they interleave between any two operations on the lease slot.   *)
(* The runtime behind the HTTP requests is external: it answers, fails or  *)
(* lets the request time out.                                              *)
(***************************************************************************)

CONSTANTS Calls, Cancels, None

Outcomes == {"ok", "err", "busy", "cancelled", "closed", "dropped"}
Replies  == {"invoked", "true", "false"}

ASSUME BridgeAssumption == None \notin Calls /\ None \notin Replies \cup Outcomes

VARIABLES bpc,      \* where each materialize call stands
          outcome,  \* what it returns
          lease,    \* cancel_slot(): the owner of the active lease
          tx,       \* where the cancel sender of each call is
          reply,    \* what each cancel command answered
          hit       \* the call a cancel command delivered its signal to

bvars == <<bpc, outcome, lease, tx, reply, hit>>

(* "invoked": the command task is not yet at reserve.  "reserved": client  *)
(* and token are being set up.  "requesting" awaits the select!, "acking"  *)
(* awaits POST /cancel, "leaving" has dropped the receiver and still holds *)
(* the lease.                                                              *)
BridgePcs == {"idle", "invoked", "reserved", "requesting", "acking", "leaving", "returned"}
Listening == {"reserved", "requesting"}
Leased    == Listening \cup {"acking", "leaving"}

BridgeInit ==
  /\ bpc = [c \in Calls |-> "idle"]
  /\ outcome = [c \in Calls |-> None]
  /\ lease = None
  /\ tx = [c \in Calls |-> "none"]
  /\ reply = [k \in Cancels |-> None]
  /\ hit = [k \in Cancels |-> None]

-----------------------------------------------------------------------------
Invoke(c) == /\ bpc[c] = "idle"
             /\ bpc' = [bpc EXCEPT ![c] = "invoked"]
             /\ UNCHANGED <<outcome, lease, tx, reply, hit>>

(* trigger_materialize gives up when the status event cannot be emitted. *)
EmitFails(c) == /\ bpc[c] = "invoked"
                /\ bpc' = [bpc EXCEPT ![c] = "returned"]
                /\ outcome' = [outcome EXCEPT ![c] = "err"]
                /\ UNCHANGED <<lease, tx, reply, hit>>

ReserveUnchecked(c) ==
  /\ bpc[c] = "invoked"
  /\ lease' = c
  /\ tx' = [d \in Calls |-> IF d = c THEN "slot"
                            ELSE IF d = lease /\ tx[d] = "slot" THEN "lost" ELSE tx[d]]
  /\ bpc' = [bpc EXCEPT ![c] = "reserved"]
  /\ UNCHANGED <<outcome, reply, hit>>

(* MaterializeLease::reserve, under the lock. *)
Reserve(c) ==
  /\ bpc[c] = "invoked"
  /\ \/ /\ lease # None
        /\ bpc' = [bpc EXCEPT ![c] = "returned"]
        /\ outcome' = [outcome EXCEPT ![c] = "busy"]
        /\ UNCHANGED <<lease, tx>>
     \/ /\ lease = None
        /\ lease' = c
        /\ tx' = [tx EXCEPT ![c] = "slot"]
        /\ bpc' = [bpc EXCEPT ![c] = "reserved"]
        /\ UNCHANGED outcome
  /\ UNCHANGED <<reply, hit>>

(* Leaving the future drops the receiver; the lease is dropped after it. *)
Leave(c, result) == /\ bpc' = [bpc EXCEPT ![c] = "leaving"]
                    /\ outcome' = [outcome EXCEPT ![c] = result]
                    /\ UNCHANGED <<lease, tx, reply, hit>>

(* client() or token() fails, or both succeed and the request is sent. *)
Setup(c) ==
  /\ bpc[c] = "reserved"
  /\ \/ Leave(c, "err")
     \/ /\ bpc' = [bpc EXCEPT ![c] = "requesting"]
        /\ UNCHANGED <<outcome, lease, tx, reply, hit>>

AnsweredUnmapped(c) ==
  /\ bpc[c] = "requesting"
  /\ Leave(c, "ok") \/ Leave(c, "timeout")

(* The HTTP request ends: a suggestion, or a transport, status or decode   *)
(* error, a timeout included.                                              *)
Answered(c) ==
  /\ bpc[c] = "requesting"
  /\ Leave(c, "ok") \/ Leave(c, "err")

CancelBranchUnheld(c) ==
  /\ bpc[c] = "requesting"
  /\ tx[c] = "sent"
  /\ bpc' = [bpc EXCEPT ![c] = "acking"]
  /\ lease' = None
  /\ UNCHANGED <<outcome, tx, reply, hit>>

(* The cancel branch of the select!: a delivered signal asks the runtime   *)
(* to abort; a dropped sender is an error of its own.                      *)
CancelBranch(c) ==
  /\ bpc[c] = "requesting"
  /\ \/ /\ tx[c] = "sent"
        /\ bpc' = [bpc EXCEPT ![c] = "acking"]
        /\ UNCHANGED <<outcome, lease, tx, reply, hit>>
     \/ /\ tx[c] = "lost"
        /\ Leave(c, "closed")

AckUnbounded(c) == bpc[c] = "acking" /\ FALSE /\ UNCHANGED bvars

(* abort_runtime_generation answered or failed, within its two seconds;    *)
(* either way the call reports the user's cancellation.                    *)
Acknowledged(c) ==
  /\ bpc[c] = "acking"
  /\ Leave(c, "cancelled")

(* The task is dropped at an await. *)
DropFuture(c) ==
  /\ bpc[c] \in {"requesting", "acking"}
  /\ Leave(c, "dropped")

(* Drop for MaterializeLease: only the owner's slot is cleared. *)
DropLease(c) ==
  /\ bpc[c] = "leaving"
  /\ bpc' = [bpc EXCEPT ![c] = "returned"]
  /\ IF lease = c
     THEN /\ lease' = None
          /\ tx' = IF tx[c] = "slot" THEN [tx EXCEPT ![c] = "lost"] ELSE tx
     ELSE UNCHANGED <<lease, tx>>
  /\ UNCHANGED <<outcome, reply, hit>>

-----------------------------------------------------------------------------
InvokeCancel(k) == /\ reply[k] = None
                   /\ reply' = [reply EXCEPT ![k] = "invoked"]
                   /\ UNCHANGED <<bpc, outcome, lease, tx, hit>>

(* A cancel_active that reports every sender it found as delivered. *)
CancelActiveOptimistic(k) ==
  /\ reply[k] = "invoked"
  /\ IF lease # None /\ tx[lease] = "slot"
     THEN /\ tx' = [tx EXCEPT ![lease] = IF bpc[lease] \in Listening THEN "sent" ELSE "lost"]
          /\ reply' = [reply EXCEPT ![k] = "true"]
          /\ hit' = [hit EXCEPT ![k] = lease]
     ELSE /\ reply' = [reply EXCEPT ![k] = "false"]
          /\ UNCHANGED <<tx, hit>>
  /\ UNCHANGED <<bpc, outcome, lease>>

(* cancel_active takes the sender and sends under one lock. *)
CancelActive(k) ==
  /\ reply[k] = "invoked"
  /\ IF lease # None /\ tx[lease] = "slot"
     THEN LET delivered == bpc[lease] \in Listening
          IN /\ tx' = [tx EXCEPT ![lease] = IF delivered THEN "sent" ELSE "lost"]
             /\ reply' = [reply EXCEPT ![k] = IF delivered THEN "true" ELSE "false"]
             /\ hit' = [hit EXCEPT ![k] = IF delivered THEN lease ELSE None]
     ELSE /\ reply' = [reply EXCEPT ![k] = "false"]
          /\ UNCHANGED <<tx, hit>>
  /\ UNCHANGED <<bpc, outcome, lease>>

-----------------------------------------------------------------------------
(* The steps the bridge takes on its own once a command is invoked. *)
CallStep(c) == \/ EmitFails(c) \/ Reserve(c) \/ Setup(c) \/ Answered(c)
               \/ CancelBranch(c) \/ Acknowledged(c) \/ DropLease(c)

BridgeNext == \/ \E c \in Calls : Invoke(c) \/ CallStep(c) \/ DropFuture(c)
              \/ \E k \in Cancels : InvokeCancel(k) \/ CancelActive(k)

BridgeSpec == BridgeInit /\ [][BridgeNext]_bvars

-----------------------------------------------------------------------------
(* Every variable has its type. *)
BridgeTypeOK ==
  /\ bpc \in [Calls -> BridgePcs]
  /\ outcome \in [Calls -> Outcomes \cup {None}]
  /\ lease \in Calls \cup {None}
  /\ tx \in [Calls -> {"none", "slot", "sent", "lost"}]
  /\ reply \in [Cancels -> Replies \cup {None}]
  /\ hit \in [Cancels -> Calls \cup {None}]

(* Admission is held by exactly the call that is between its reservation    *)
(* and its return, while it waits for a cancel acknowledgement too; nobody  *)
(* else can be admitted, and an idle slot has no such call.                 *)
LeaseHeld ==
  /\ \A c \in Calls : bpc[c] \in Leased => lease = c
  /\ lease # None => bpc[lease] \in Leased

(* The former failure: a sender replaced or dropped while its owner still   *)
(* listens, so that a live call sees its channel closed.  No call ever      *)
(* ends that way.                                                           *)
NeverClosed == \A c \in Calls : outcome[c] # "closed"

(* cancel_active returns true only when the signal was delivered: the call  *)
(* it names was signalled, no other cancel claims it, and a call that ends  *)
(* as cancelled has such an acknowledgement.                                *)
CancelTruthful ==
  /\ \A k \in Cancels : reply[k] = "true" => hit[k] # None /\ tx[hit[k]] = "sent"
  /\ \A k, l \in Cancels : hit[k] # None /\ hit[k] = hit[l] => k = l
  /\ \A c \in Calls : outcome[c] = "cancelled" =>
        \E k \in Cancels : reply[k] = "true" /\ hit[k] = c

(* The bridge implements the abstract single job with its cancellation. *)
BridgeJob(c) ==
  CASE bpc[c] \in {"idle", "invoked"} -> "waiting"
    [] bpc[c] \in Leased -> "running"
    [] OTHER -> IF tx[c] = "none" THEN "refused"
                ELSE IF outcome[c] = "cancelled" THEN "cancelled" ELSE "ended"

Owner == INSTANCE JobOwnership WITH
           Jobs <- Calls,
           job <- [c \in Calls |-> BridgeJob(c)],
           signalled <- {c \in Calls : tx[c] = "sent"}

(* Every step of the bridge is a step of JobOwnership or changes none of    *)
(* what it describes.                                                       *)
BridgeOwnsOneJob == Owner!JobSpec
=============================================================================
