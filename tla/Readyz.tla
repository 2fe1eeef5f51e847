------------------------------- MODULE Readyz -------------------------------
(* GET /readyz of overlay/server.py: a verdict cached for a bounded time.   *)
(* A request reads the verdict, its time and the flag one after the other   *)
(* on the event loop, without a lock, while a probe thread may be writing   *)
(* the three in its own order; when the cache does not answer, the request  *)
(* goes to a thread that probes under a lock, after a second look.          *)
EXTENDS Integers

CONSTANTS
  Calls,   \* requests; each may be made again after its answer
  TTL,     \* READYZ_TTL_SECONDS
  NegTTL,  \* READYZ_NEGATIVE_TTL_SECONDS
  MaxTime  \* bound on the clock

ASSUME ReadyzAssumption ==
  TTL \in Nat /\ NegTTL \in Nat /\ MaxTime \in Nat

VARIABLES
  verdict,   \* _readyz_state["verdict"]: "none", "ready" or "not_ready"
  checkedAt, \* _readyz_state["checked_at"]
  ok,        \* _readyz_probe_ok
  lock,      \* _readyz_probe_lock is held
  now,       \* time.monotonic()
  pc,        \* where each call is
  saw,       \* a call's local verdict
  sawAt,     \* a call's local checked_at
  last,      \* history: the newest probe outcome
  lastAt,    \* history: when the newest success was published (or now)
  vouched    \* history: since the call began the newest outcome has at
             \* some moment been a success younger than the TTL

readyzVars == <<verdict, checkedAt, ok, lock, now, pc, saw, sawAt, last, lastAt, vouched>>

OnLoop == {"at", "flag", "clock"}
InProbe == {"probe", "good", "bad", "stampGood", "stampBad"}
Answered == {"cachedReady", "cachedNot", "ready", "notReady"}

ReadyzInit ==
  /\ verdict = "none" /\ checkedAt = 0 /\ ok = FALSE /\ lock = FALSE
  /\ now = 0
  /\ pc = [c \in Calls |-> "idle"]
  /\ saw = [c \in Calls |-> "none"]
  /\ sawAt = [c \in Calls |-> 0]
  /\ last = "none" /\ lastAt = 0
  /\ vouched = [c \in Calls |-> FALSE]

Live(outcome, at, t) == outcome = "ready" /\ t - at < TTL

(* History: every step of a call in progress looks again.                   *)
Vouch ==
  vouched' = [c \in Calls |->
                pc'[c] # "idle" /\ (vouched[c] \/ Live(last', lastAt', now'))]

Goto(c, p) == pc' = [pc EXCEPT ![c] = p]

-----------------------------------------------------------------------------
(* readyz and its look at the cache, on the event loop: one call at a time. *)

Call(c) ==
  /\ pc[c] = "idle"
  /\ \A d \in Calls : pc[d] \notin OnLoop
  /\ saw' = [saw EXCEPT ![c] = verdict]
  /\ Goto(c, "at")
  /\ UNCHANGED <<verdict, checkedAt, ok, lock, now, sawAt, last, lastAt>>
  /\ Vouch

ReadTime(c) ==
  /\ pc[c] = "at"
  /\ sawAt' = [sawAt EXCEPT ![c] = checkedAt]
  /\ Goto(c, IF saw[c] = "none" THEN "lock" ELSE "flag")
  /\ UNCHANGED <<verdict, checkedAt, ok, lock, now, saw, last, lastAt>>
  /\ Vouch

(* A ready verdict counts only while the flag is set.                       *)
ReadFlag(c) ==
  /\ pc[c] = "flag"
  /\ Goto(c, IF saw[c] = "ready" /\ ~ok THEN "lock" ELSE "clock")
  /\ UNCHANGED <<verdict, checkedAt, ok, lock, now, saw, sawAt, last, lastAt>>
  /\ Vouch

Fresh(v, at) == now - at < (IF v = "ready" THEN TTL ELSE NegTTL)

Cached(v) == IF v = "ready" THEN "cachedReady" ELSE "cachedNot"

ReadClock(c) ==
  /\ pc[c] = "clock"
  /\ Goto(c, IF Fresh(saw[c], sawAt[c]) THEN Cached(saw[c]) ELSE "lock")
  /\ UNCHANGED <<verdict, checkedAt, ok, lock, now, saw, sawAt, last, lastAt>>
  /\ Vouch

-----------------------------------------------------------------------------
(* _run_readyz_probe, in a thread.  Nobody writes while this call holds the *)
(* lock, so its look at the cache is one step.                              *)

Usable == verdict # "none" /\ (verdict = "ready" => ok) /\ Fresh(verdict, checkedAt)

AcquireBlindly(c) ==
  /\ pc[c] = "lock" /\ ~lock
  /\ lock' = TRUE /\ Goto(c, "probe")
  /\ UNCHANGED <<verdict, checkedAt, ok, now, saw, sawAt, last, lastAt>>
  /\ Vouch

Acquire(c) ==
  /\ pc[c] = "lock" /\ ~lock
  /\ \/ Usable /\ Goto(c, Cached(verdict)) /\ UNCHANGED lock
     \/ ~Usable /\ lock' = TRUE /\ Goto(c, "probe")
  /\ UNCHANGED <<verdict, checkedAt, ok, now, saw, sawAt, last, lastAt>>
  /\ Vouch

(* The dependency checks and the synthetic extraction pass; the flag first. *)
ProbeSucceeds(c) ==
  /\ pc[c] = "probe"
  /\ ok' = TRUE /\ Goto(c, "good")
  /\ last' = "ready" /\ lastAt' = now
  /\ UNCHANGED <<verdict, checkedAt, lock, now, saw, sawAt>>
  /\ Vouch

(* Any failure: the flag is cleared before the verdict is replaced.         *)
ProbeFailsQuietly(c) ==
  /\ pc[c] = "probe"
  /\ Goto(c, "bad")
  /\ last' = "not_ready"
  /\ UNCHANGED <<verdict, checkedAt, ok, lock, now, saw, sawAt, lastAt>>
  /\ Vouch

ProbeFails(c) ==
  /\ pc[c] = "probe"
  /\ ok' = FALSE /\ Goto(c, "bad")
  /\ last' = "not_ready"
  /\ UNCHANGED <<verdict, checkedAt, lock, now, saw, sawAt, lastAt>>
  /\ Vouch

Publish(c) ==
  /\ pc[c] \in {"good", "bad"}
  /\ verdict' = IF pc[c] = "good" THEN "ready" ELSE "not_ready"
  /\ Goto(c, IF pc[c] = "good" THEN "stampGood" ELSE "stampBad")
  /\ UNCHANGED <<checkedAt, ok, lock, now, saw, sawAt, last, lastAt>>
  /\ Vouch

(* Its time, and the lock goes; the failure is raised again and answers 503. *)
Stamp(c) ==
  /\ pc[c] \in {"stampGood", "stampBad"}
  /\ checkedAt' = now
  /\ lock' = FALSE
  /\ Goto(c, IF pc[c] = "stampGood" THEN "ready" ELSE "notReady")
  /\ lastAt' = IF pc[c] = "stampGood" THEN now ELSE lastAt
  /\ UNCHANGED <<verdict, ok, now, saw, sawAt, last>>
  /\ Vouch

Answer(c) ==
  /\ pc[c] \in Answered
  /\ pc' = [pc EXCEPT ![c] = "idle"]
  /\ saw' = [saw EXCEPT ![c] = "none"]
  /\ sawAt' = [sawAt EXCEPT ![c] = 0]
  /\ UNCHANGED <<verdict, checkedAt, ok, lock, now, last, lastAt>>
  /\ Vouch

(* The clock.  A success that is not yet published is as young as can be.   *)
Tick ==
  /\ now < MaxTime
  /\ now' = now + 1
  /\ lastAt' = IF \E c \in Calls : pc[c] \in {"good", "stampGood"} THEN now' ELSE lastAt
  /\ UNCHANGED <<verdict, checkedAt, ok, lock, pc, saw, sawAt, last>>
  /\ Vouch

CallStep(c) ==
  \/ ReadTime(c) \/ ReadFlag(c) \/ ReadClock(c)
  \/ Acquire(c) \/ ProbeSucceeds(c) \/ ProbeFails(c) \/ Publish(c) \/ Stamp(c)

ReadyzNext == Tick \/ \E c \in Calls : Call(c) \/ CallStep(c) \/ Answer(c)

ReadyzSpec == ReadyzInit /\ [][ReadyzNext]_readyzVars

-----------------------------------------------------------------------------
(* A cached ready can be trusted ("only trusted for READYZ_TTL_SECONDS",    *)
(* docs/SERVER_SOURCE_NOTES.md:213): whatever a call reads of the verdict,  *)
(* the time and the flag while a probe rewrites them, at some moment since  *)
(* it began the newest outcome was a success younger than the TTL.          *)
CachedReadyVouched == \A c \in Calls : pc[c] = "cachedReady" => vouched[c]

(* Single flight without a stampede (docs/SERVER_SOURCE_NOTES.md:214-216):  *)
(* a probe starts only when no other runs and no success younger than the   *)
(* TTL is known.                                                            *)
NoStampede ==
  [][\A c \in Calls :
       pc[c] # "probe" /\ pc'[c] = "probe" =>
         ~Live(last, lastAt, now) /\ \A d \in Calls : pc[d] \notin InProbe]_readyzVars
=============================================================================
