---------------------------- MODULE SpendLedger ----------------------------
(* DurableSpendLedger of kernel/sidecar/melious_router.py, with the callers *)
(* that use it: complete takes an inflight permit of its replica, reserves  *)
(* an estimate in the shared SQLite file, adds up what the provider bills   *)
(* for each response, and in its finally clauses settles and gives the      *)
(* permit back.  Replicas may crash at any point; reconcile then charges    *)
(* the reservations they left.  A transaction (BEGIN IMMEDIATE .. COMMIT)   *)
(* is one step; one that fails (busy, I/O) raises and changes nothing.      *)
EXTENDS Naturals, FiniteSets, FiniteSetsExt

CONSTANTS
  Attempts,     \* calls of complete, finitely many; each has its own attempt_id
  Replicas,     \* processes that mount the ledger file
  MaxInflight,  \* permits of a replica
  Ceiling, Estimates,
  MaxSpend      \* bound: tokens billed to one call over all its responses

ASSUME LedgerAssumption ==
  /\ IsFiniteSet(Attempts)
  /\ MaxInflight \in Nat \ {0}
  /\ Ceiling \in Nat
  /\ Estimates \subseteq Nat
  /\ MaxSpend \in Nat

VARIABLES
  state,     \* state of an attempt's row: "none", "reserved" or "settled"
  estimate,  \* its column reserved
  actual,    \* its column actual
  stale,     \* created_at is older than stale_after_seconds
  reconciled,\* history: the attempts whose row reconcile settled
  pc,        \* where the call is
  replica,   \* the replica that runs it
  spent,     \* spent[0]: tokens billed to the call so far
  slots      \* _slots: free permits of a replica

row == <<state, estimate, actual, stale, reconciled>>
call == <<pc, replica, spent>>
vars == <<row, call, slots>>

InFlight == {"admitted", "running", "release"}

TypeOK ==
  /\ state \in [Attempts -> {"none", "reserved", "settled"}]
  /\ estimate \in [Attempts -> Nat]
  /\ actual \in [Attempts -> Nat]
  /\ stale \in [Attempts -> BOOLEAN]
  /\ reconciled \subseteq Attempts
  /\ pc \in [Attempts -> {"idle", "done", "dead"} \cup InFlight]
  /\ replica \in [Attempts -> Replicas]
  /\ spent \in [Attempts -> 0 .. MaxSpend]
  /\ slots \in [Replicas -> 0 .. MaxInflight]

Init ==
  /\ state = [a \in Attempts |-> "none"]
  /\ estimate = [a \in Attempts |-> 0]
  /\ actual = [a \in Attempts |-> 0]
  /\ stale = [a \in Attempts |-> FALSE]
  /\ reconciled = {}
  /\ pc = [a \in Attempts |-> "idle"]
  /\ replica \in [Attempts -> Replicas]
  /\ spent = [a \in Attempts |-> 0]
  /\ slots = [r \in Replicas |-> MaxInflight]

-----------------------------------------------------------------------------
(* _totals: what the rows of one state add up to.                           *)
InState(s) == {a \in Attempts : state[a] = s}
Reserved == MapThenSumSet(LAMBDA a : estimate[a], InState("reserved"))
Committed == MapThenSumSet(LAMBDA a : actual[a], InState("settled"))

AcquireSlot(a) ==
  /\ pc[a] = "idle"
  /\ slots[replica[a]] > 0
  /\ slots' = [slots EXCEPT ![replica[a]] = @ - 1]
  /\ pc' = [pc EXCEPT ![a] = "admitted"]
  /\ UNCHANGED <<row, replica, spent>>

(* reserve.  A replay of an attempt finds its row and changes nothing.      *)
reserveUnseen(a, tokens) ==
  /\ pc[a] = "admitted"
  /\ Committed + tokens <= Ceiling
  /\ state' = [state EXCEPT ![a] = "reserved"]
  /\ estimate' = [estimate EXCEPT ![a] = tokens]
  /\ pc' = [pc EXCEPT ![a] = "running"]
  /\ UNCHANGED <<actual, stale, reconciled, replica, spent, slots>>

reserve(a, tokens) ==
  /\ pc[a] = "admitted"
  /\ Committed + Reserved + tokens <= Ceiling
  /\ state' = [state EXCEPT ![a] = "reserved"]
  /\ estimate' = [estimate EXCEPT ![a] = tokens]
  /\ pc' = [pc EXCEPT ![a] = "running"]
  /\ UNCHANGED <<actual, stale, reconciled, replica, spent, slots>>

(* SpendCeilingError, or a ledger that cannot be reached: the call ends     *)
(* without a reservation.                                                   *)
refuse(a) ==
  /\ pc[a] = "admitted"
  /\ pc' = [pc EXCEPT ![a] = "release"]
  /\ UNCHANGED <<row, replica, spent, slots>>

(* A response is billed, whether it is then accepted or not.                *)
Bill(a, use) ==
  /\ pc[a] = "running"
  /\ spent[a] + use <= MaxSpend
  /\ spent' = [spent EXCEPT ![a] = @ + use]
  /\ UNCHANGED <<row, pc, replica, slots>>

settleAgain(a) ==
  /\ pc[a] = "running"
  /\ pc' = [pc EXCEPT ![a] = "release"]
  /\ state' = [state EXCEPT ![a] = "settled"]
  /\ actual' = [actual EXCEPT ![a] = spent[a]]
  /\ UNCHANGED <<estimate, stale, reconciled, replica, spent, slots>>

(* The call is over, by a result or by any exception: settle.  The UPDATE   *)
(* names the state it expects: it finds no row when reconcile came first.   *)
settle(a) ==
  /\ pc[a] = "running"
  /\ pc' = [pc EXCEPT ![a] = "release"]
  /\ IF state[a] = "reserved"
       THEN /\ state' = [state EXCEPT ![a] = "settled"]
            /\ actual' = [actual EXCEPT ![a] = spent[a]]
       ELSE UNCHANGED <<state, actual>>
  /\ UNCHANGED <<estimate, stale, reconciled, replica, spent, slots>>

SettleFailsHere(a) ==
  /\ pc[a] = "running"
  /\ pc' = [pc EXCEPT ![a] = "done"]
  /\ UNCHANGED <<row, replica, spent, slots>>

(* The transaction of settle fails: the row stays reserved.                 *)
SettleFails(a) ==
  /\ pc[a] = "running"
  /\ pc' = [pc EXCEPT ![a] = "release"]
  /\ UNCHANGED <<row, replica, spent, slots>>

(* The inner finally, reached whether or not settle raised.                 *)
ReleaseSlot(a) ==
  /\ pc[a] = "release"
  /\ pc' = [pc EXCEPT ![a] = "done"]
  /\ slots' = [slots EXCEPT ![replica[a]] = @ + 1]
  /\ UNCHANGED <<row, replica, spent>>

CrashForgets(r) ==
  /\ \E a \in Attempts : replica[a] = r /\ pc[a] \in InFlight
  /\ pc' = [a \in Attempts |->
              IF replica[a] = r /\ pc[a] \in InFlight THEN "dead" ELSE pc[a]]
  /\ slots' = [slots EXCEPT ![r] = MaxInflight]
  /\ state' = [a \in Attempts |-> IF replica[a] = r THEN "none" ELSE state[a]]
  /\ UNCHANGED <<estimate, actual, stale, reconciled, replica, spent>>

(* A replica dies and is started again: its permits are new, the rows stay. *)
Crash(r) ==
  /\ \E a \in Attempts : replica[a] = r /\ pc[a] \in InFlight
  /\ pc' = [a \in Attempts |->
              IF replica[a] = r /\ pc[a] \in InFlight THEN "dead" ELSE pc[a]]
  /\ slots' = [slots EXCEPT ![r] = MaxInflight]
  /\ UNCHANGED <<row, replica, spent>>

(* stale_after_seconds pass on the wall clock.  Only created_at is asked,   *)
(* not whether the call has ended: stale_after_seconds and total_timeout    *)
(* are set apart from each other, clocks are moved and a slow response can  *)
(* outlast both, so the call may still be running and settle later.         *)
GrowStale(a) ==
  /\ state[a] = "reserved"
  /\ ~stale[a]
  /\ stale' = [stale EXCEPT ![a] = TRUE]
  /\ UNCHANGED <<state, estimate, actual, reconciled, call, slots>>

(* reconcile, run by an operator on any replica: every stale reservation is *)
(* charged in full by one UPDATE.                                           *)
Expired == {a \in Attempts : state[a] = "reserved" /\ stale[a]}

reconcile ==
  /\ Expired # {}
  /\ state' = [a \in Attempts |-> IF a \in Expired THEN "settled" ELSE state[a]]
  /\ actual' = [a \in Attempts |-> IF a \in Expired THEN estimate[a] ELSE actual[a]]
  /\ reconciled' = reconciled \cup Expired
  /\ UNCHANGED <<estimate, stale, call, slots>>

Next ==
  \/ \E a \in Attempts :
       \/ AcquireSlot(a) \/ refuse(a) \/ settle(a) \/ SettleFails(a)
       \/ ReleaseSlot(a) \/ GrowStale(a)
       \/ \E tokens \in Estimates : reserve(a, tokens)
       \/ \E use \in 1 .. MaxSpend : Bill(a, use)
  \/ \E r \in Replicas : Crash(r)
  \/ reconcile

Spec == Init /\ [][Next]_vars

-----------------------------------------------------------------------------
(* Replicas cannot admit against stale local state, and a restart never     *)
(* admits twice (lines 111-118): however calls, crashes and reconciliations *)
(* interleave, the reservations admitted, each counted at what is left of   *)
(* it, stay under the ceiling.  Only usage beyond a reservation escapes it. *)
Outstanding(a) ==
  IF state[a] = "settled" THEN Min({actual[a], estimate[a]}) ELSE estimate[a]

AdmissionHolds == MapThenSumSet(Outstanding, Attempts) <= Ceiling

(* Each attempt is charged once, by whoever comes first (lines 117-118,     *)
(* 172, 181-188): its own settlement charges exactly what was billed;       *)
(* reconcile, after a crash, a failed settlement or while the call is still *)
(* running, charges its full reservation, never nothing, and a settlement   *)
(* that comes later changes neither the charge nor the row.  A billed call  *)
(* always has a row.  What a reconciled call is billed beyond its           *)
(* reservation is not charged.                                              *)
Charged ==
  \A a \in Attempts :
    /\ state[a] = "settled" =>
         actual[a] = IF a \in reconciled THEN estimate[a] ELSE spent[a]
    /\ a \in reconciled => state[a] = "settled" /\ stale[a]
    /\ spent[a] > 0 => state[a] # "none"

(* No way out of complete keeps a permit, none gives it back twice          *)
(* (lines 334-341).                                                         *)
PermitsConserved ==
  \A r \in Replicas :
    slots[r] + Cardinality({a \in Attempts : replica[a] = r /\ pc[a] \in InFlight})
      = MaxInflight

(* The shared file behaves as one governor: crashes, restarts, failed       *)
(* transactions and the late settlement of a reconciled call are invisible  *)
(* in the aggregate, a reconciliation is a settlement.  One settlement      *)
(* charges at most what one call was billed or what was admitted.           *)
Governor == INSTANCE SpendGovernor WITH
  reserved <- Reserved, committed <- Committed,
  MaxSpend <- Ceiling + MaxSpend
OneGovernor == Governor!Spec
=============================================================================
