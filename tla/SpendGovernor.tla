--------------------------- MODULE SpendGovernor ---------------------------
(* What a token ledger promises (SpendGovernor of melious_router.py): an    *)
(* aggregate of reserved and committed tokens in which a reservation is     *)
(* admitted only under the ceiling, and is converted, at most once, into    *)
(* committed spend.  Actual usage is never clamped, so committed may pass   *)
(* the ceiling; nothing is admitted from then on.                           *)
EXTENDS Naturals, FiniteSetsExt

CONSTANTS Ceiling,   \* spend ceiling in tokens
          Estimates, \* what a request may reserve
          MaxSpend   \* bound on the usage of one settlement

VARIABLES reserved, committed

vars == <<reserved, committed>>

Init == reserved = 0 /\ committed = 0

reserve(tokens) ==
  /\ committed + reserved + tokens <= Ceiling
  /\ reserved' = reserved + tokens
  /\ UNCHANGED committed

settle(reservation, actual) ==
  /\ reserved' = Max({0, reserved - reservation})
  /\ committed' = committed + actual

Next ==
  \/ \E tokens \in Estimates : reserve(tokens)
  \/ \E reservation \in 0 .. reserved, actual \in 0 .. MaxSpend :
       settle(reservation, actual)

Spec == Init /\ [][Next]_vars
=============================================================================
