------------------------------- MODULE Overlay -------------------------------
(***************************************************************************)
(* The overlay window (phantom-overlay/dist/app.js) composed with its      *)
(* native bridge.                                                          *)
(*                                                                         *)
(* The page is single threaded: a click, an input event or the code after  *)
(* an await is one step.  Commands run concurrently in the bridge, and     *)
(* their answers come back in any order.  A materialize command and a      *)
(* cancel command are both named by the value of `generation` at which     *)
(* the page issued them (the variable `current` of its two handlers).      *)
(***************************************************************************)
EXTENDS PhantomBridge, Naturals, FiniteSets

CONSTANTS Texts,      \* the nonblank contents the context field can have
          MaxChecks   \* bound: no readiness check starts beyond this number

ASSUME OverlayAssumption == /\ Calls \cup Cancels \subseteq Nat \ {0}
                            /\ IsFiniteSet(Calls)
                            /\ MaxChecks \in Nat \ {0}
                            /\ None \notin Texts /\ None \notin {"ok", "err", "flying"}

VARIABLES generation, pending, requestDiscarded, modelReady, readinessCheck,
          cancelling,     \* the page's own variables
          cancelEnabled,  \* the cancel button
          context,        \* the context field, None while it is blank
          result,         \* the generation whose text is displayed, or None
          asked,          \* the text each generation was requested for
          settled,        \* how the promise of each generation settled
          probe,          \* each readiness check: None, "flying" or its verdict
          began           \* generations that had failed when a check began

flags == <<generation, pending, requestDiscarded, cancelling, cancelEnabled>>
readiness == <<modelReady, readinessCheck, probe, began>>
fields == <<context, result, asked, settled>>
ovars == <<flags, readiness, fields, bvars>>

Checks == 1..(MaxChecks + Cardinality(Calls))
Failures == Cardinality({c \in Calls : settled[c] = "err"})

(* The page loads and starts its first readiness check. *)
OverlayInit ==
  /\ BridgeInit
  /\ generation = 0 /\ pending = FALSE /\ requestDiscarded = FALSE
  /\ cancelling = FALSE /\ cancelEnabled = FALSE
  /\ modelReady = FALSE /\ readinessCheck = 1
  /\ probe = [n \in Checks |-> IF n = 1 THEN "flying" ELSE None]
  /\ began = [n \in Checks |-> 0]
  /\ context = None /\ result = None
  /\ asked = [c \in Calls |-> None]
  /\ settled = [c \in Calls |-> None]

-----------------------------------------------------------------------------
(* checkReadiness up to its await. *)
CheckReadiness ==
  /\ readinessCheck < MaxChecks
  /\ readinessCheck' = readinessCheck + 1
  /\ modelReady' = FALSE
  /\ probe' = [probe EXCEPT ![readinessCheck + 1] = "flying"]
  /\ began' = [began EXCEPT ![readinessCheck + 1] = Failures]
  /\ UNCHANGED <<flags, fields, bvars>>

(* checkReadiness after its await.  `ready` stands for an answer with the  *)
(* identity protocol and info.ready === true; every other answer and every *)
(* error make the model not ready.  An overtaken check changes nothing.    *)
ProbeAnswer(n, ready) ==
  /\ probe[n] = "flying"
  /\ probe' = [probe EXCEPT ![n] = IF ready THEN "ready" ELSE "not ready"]
  /\ modelReady' = IF n = readinessCheck THEN ready ELSE modelReady
  /\ UNCHANGED <<readinessCheck, began, flags, fields, bvars>>

-----------------------------------------------------------------------------
(* The generate click up to its await; the others of its early returns     *)
(* only change the status line.                                            *)
Click(free) ==
  /\ free /\ modelReady
  /\ context # None
  /\ generation + 1 \in Calls
  /\ generation' = generation + 1
  /\ pending' = TRUE
  /\ requestDiscarded' = FALSE
  /\ cancelEnabled' = TRUE
  /\ result' = None
  /\ asked' = [asked EXCEPT ![generation + 1] = context]
  /\ Invoke(generation + 1)
  /\ UNCHANGED <<cancelling, context, settled, readiness>>

ClickWhileCancelling == Click(~pending)

ClickGenerate == Click(~pending /\ ~cancelling)

SettleAgain(c, how) ==
  /\ bpc[c] = "returned"
  /\ how = "ok" => outcome[c] = "ok"
  /\ settled' = [settled EXCEPT ![c] = how]
  /\ readinessCheck' = IF how = "err" THEN readinessCheck + 1 ELSE readinessCheck
  /\ pending' = FALSE
  /\ UNCHANGED <<generation, requestDiscarded, cancelling, cancelEnabled,
                 modelReady, context, result, asked, probe, began, bvars>>

SettleKeepingReadiness(c, how) ==
  /\ bpc[c] = "returned" /\ settled[c] = None
  /\ how = "ok" => outcome[c] = "ok"
  /\ settled' = [settled EXCEPT ![c] = how]
  /\ result' = IF how = "ok" /\ c = generation THEN c ELSE result
  /\ modelReady' = (how = "ok" /\ modelReady)
  /\ pending' = FALSE
  /\ UNCHANGED <<generation, requestDiscarded, cancelling, cancelEnabled,
                 context, asked, probe, began, readinessCheck, bvars>>

(* The generate handler after its await: a late answer is not displayed,   *)
(* a rejection makes readiness stale, and either releases `pending`.  A    *)
(* command whose events cannot be emitted rejects too.                     *)
Settle(c, how) ==
  /\ bpc[c] = "returned" /\ settled[c] = None
  /\ how = "ok" => outcome[c] = "ok"
  /\ settled' = [settled EXCEPT ![c] = how]
  /\ result' = IF how = "ok" /\ c = generation THEN c ELSE result
  /\ readinessCheck' = IF how = "err" THEN readinessCheck + 1 ELSE readinessCheck
  /\ modelReady' = (how = "ok" /\ modelReady)
  /\ pending' = FALSE
  /\ UNCHANGED <<generation, requestDiscarded, cancelling, cancelEnabled,
                 context, asked, probe, began, bvars>>

-----------------------------------------------------------------------------
DiscardIgnored == cancelling \/ (pending /\ requestDiscarded)

(* A discard that also gives up the ownership of the pending request. *)
DiscardReleasing(shown) ==
  /\ result' = IF DiscardIgnored THEN shown ELSE None
  /\ IF DiscardIgnored
     THEN UNCHANGED flags
     ELSE /\ generation + 1 \in Cancels
          /\ generation' = generation + 1
          /\ cancelEnabled' = FALSE
          /\ pending' = FALSE
          /\ UNCHANGED <<requestDiscarded, cancelling>>
  /\ UNCHANGED bvars

(* discardPreview up to its await. *)
Discard(shown) ==
  /\ result' = IF DiscardIgnored THEN shown ELSE None
  /\ IF DiscardIgnored
     THEN UNCHANGED <<flags, bvars>>
     ELSE /\ generation + 1 \in Cancels
          /\ generation' = generation + 1
          /\ requestDiscarded' = (pending \/ requestDiscarded)
          /\ cancelEnabled' = FALSE
          /\ cancelling' = pending
          /\ UNCHANGED pending
          /\ IF pending THEN InvokeCancel(generation + 1) ELSE UNCHANGED bvars

(* The cancel button, which each discard disables again. *)
ClickCancel ==
  /\ cancelEnabled
  /\ Discard(result)
  /\ UNCHANGED <<context, asked, settled, readiness>>

(* Clear session empties both fields before anything else. *)
ClickClear ==
  /\ context' = None
  /\ Discard(None)
  /\ UNCHANGED <<asked, settled, readiness>>

InputWhilePendingOnly(text) ==
  /\ text # context
  /\ context' = text
  /\ IF pending THEN Discard(result) ELSE UNCHANGED <<flags, result, bvars>>
  /\ UNCHANGED <<asked, settled, readiness>>

(* An edit of the context field. *)
Input(text) ==
  /\ text # context
  /\ context' = text
  /\ IF pending \/ result # None
     THEN Discard(result)
     ELSE UNCHANGED <<flags, result, bvars>>
  /\ UNCHANGED <<asked, settled, readiness>>

(* discardPreview after its await; the answer only picks the status text. *)
CancelSettles(k) ==
  /\ cancelling
  /\ reply[k] \in {"true", "false"}
  /\ \A j \in Cancels : j > k => reply[j] = None
  /\ cancelling' = FALSE
  /\ UNCHANGED <<generation, pending, requestDiscarded, cancelEnabled,
                 readiness, fields, bvars>>

-----------------------------------------------------------------------------
PageOnly == UNCHANGED <<flags, readiness, fields>>

OverlayNext ==
  \/ CheckReadiness
  \/ \E n \in Checks, ready \in BOOLEAN : ProbeAnswer(n, ready)
  \/ ClickGenerate \/ ClickCancel \/ ClickClear
  \/ \E text \in Texts \cup {None} : Input(text)
  \/ \E c \in Calls, how \in {"ok", "err"} : Settle(c, how)
  \/ \E k \in Cancels : CancelSettles(k)
  \/ \E c \in Calls : CallStep(c) /\ PageOnly
  \/ \E k \in Cancels : CancelActive(k) /\ PageOnly

OverlaySpec == OverlayInit /\ [][OverlayNext]_ovars

(* Fairness.  Tauri runs every invoked command; the HTTP client timeouts    *)
(* (95 s, and 2 s for the cancel) end every request; the page's event loop  *)
(* runs the continuation of a settled promise.  The user owes nothing.      *)
OverlayFairness ==
  /\ \A c \in Calls : /\ WF_ovars(CallStep(c) /\ PageOnly)
                      /\ WF_ovars(\E how \in {"ok", "err"} : Settle(c, how))
  /\ \A k \in Cancels : /\ WF_ovars(CancelActive(k) /\ PageOnly)
                        /\ WF_ovars(CancelSettles(k))

FairOverlaySpec == OverlaySpec /\ OverlayFairness

-----------------------------------------------------------------------------
(* Every variable has its type. *)
OverlayTypeOK ==
  /\ BridgeTypeOK
  /\ generation \in Nat /\ readinessCheck \in Checks
  /\ pending \in BOOLEAN /\ requestDiscarded \in BOOLEAN /\ modelReady \in BOOLEAN
  /\ cancelling \in BOOLEAN /\ cancelEnabled \in BOOLEAN
  /\ context \in Texts \cup {None} /\ result \in Calls \cup {None}
  /\ asked \in [Calls -> Texts \cup {None}]
  /\ settled \in [Calls -> {None, "ok", "err"}]
  /\ probe \in [Checks -> {None, "flying", "ready", "not ready"}]
  /\ began \in [Checks -> Nat]

(* What is displayed answers what is in the context field, and nothing was  *)
(* discarded since: no edit, discard, clear or late answer, in any order,   *)
(* leaves a preview next to text it was not generated from.                 *)
FreshPreview == result # None => result = generation /\ asked[result] = context

(* A cancel command is not addressed to any request; it hits whichever one  *)
(* holds the bridge's lease when it runs.  Even delayed past the end of the *)
(* request it was meant for, it never reaches a later one.                  *)
CancelHitsItsOwn == \A k \in Cancels : hit[k] # None => hit[k] + 1 = k

(* The page never sends the bridge a request that the lease refuses: it     *)
(* keeps a discarded request's ownership until that request has settled.    *)
NeverBusy == \A c \in Calls : outcome[c] # "busy"

(* `modelReady` rests on the newest check, and that check began after every *)
(* failed generation: no earlier check, however late its answer, restores   *)
(* readiness.                                                               *)
ReadinessFresh ==
  modelReady => probe[readinessCheck] = "ready" /\ began[readinessCheck] = Failures

(* The interface never stays locked: a request in flight ends and so does a *)
(* cancellation, whatever the runtime does and the user clicks.             *)
NeverStuck == pending \/ cancelling ~> ~pending /\ ~cancelling
=============================================================================
