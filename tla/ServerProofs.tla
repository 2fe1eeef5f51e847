---------------------------- MODULE ServerProofs ----------------------------
(* Proofs about two parts of overlay/server.py: the cached readiness        *)
(* verdict, for any number of calls and any lifetimes, and the capacity of  *)
(* /api/extract-document, for any requests, workers and queue length.       *)
EXTENDS Readyz, Extraction, FiniteSetTheorems, TLAPS

-----------------------------------------------------------------------------
(* Readyz.                                                                  *)

ReadyzTyped ==
  /\ ok \in BOOLEAN /\ lock \in BOOLEAN
  /\ checkedAt \in Nat /\ now \in Nat /\ lastAt \in Nat
  /\ pc \in [Calls -> {"idle", "lock"} \cup OnLoop \cup InProbe \cup Answered]
  /\ saw \in [Calls -> {"none", "ready", "not_ready"}]
  /\ sawAt \in [Calls -> Nat]
  /\ vouched \in [Calls -> BOOLEAN]
  /\ verdict \in {"none", "ready", "not_ready"}

(* The lock is held exactly by the one call that is probing.                *)
SingleFlight ==
  /\ \A c \in Calls : pc[c] \in InProbe => lock
  /\ \A c, d \in Calls : pc[c] \in InProbe /\ pc[d] \in InProbe => c = d

(* No time lies in the future, and a known success is not older than the    *)
(* time in the cache.                                                       *)
Clocks ==
  /\ checkedAt <= now /\ lastAt <= now
  /\ last = "ready" => checkedAt <= lastAt
  /\ \A c \in Calls : pc[c] \in {"flag", "clock"} => sawAt[c] <= checkedAt

(* The flag follows the newest outcome at once; verdict and time follow     *)
(* when the probe that found it lets go of the lock.                        *)
CacheFollows ==
  /\ ok <=> last = "ready"
  /\ \A c \in Calls : pc[c] \in {"good", "stampGood"} => last = "ready"
  /\ \A c \in Calls : pc[c] \in {"bad", "stampBad"} => last # "ready"
  /\ \A c \in Calls : pc[c] = "stampGood" => verdict = "ready"
  /\ last = "ready" /\ (\A c \in Calls : pc[c] \notin {"good", "stampGood"})
       => verdict = "ready" /\ checkedAt = lastAt

(* A call that has seen the flag set, and a time that is still fresh, is    *)
(* vouched for already.                                                     *)
FlagVouches ==
  \A c \in Calls :
    pc[c] = "clock" /\ saw[c] = "ready" /\ now - sawAt[c] < TTL => vouched[c]

ReadyzInv ==
  ReadyzTyped /\ SingleFlight /\ Clocks /\ CacheFollows /\ FlagVouches
  /\ CachedReadyVouched

-----------------------------------------------------------------------------
(* Before the first call nothing is known.                                  *)
LEMMA ReadyzStart == ReadyzInit => ReadyzInv
  <1> SUFFICES ASSUME ReadyzInit
               PROVE  ReadyzInv
    OBVIOUS
  <1> USE ReadyzAssumption DEF ReadyzInit, OnLoop, InProbe, Answered
  <1>1. ReadyzTyped
    BY DEF ReadyzTyped
  <1>2. SingleFlight
    BY DEF SingleFlight
  <1>3. Clocks
    BY DEF Clocks
  <1>4. CacheFollows
    BY DEF CacheFollows
  <1>5. FlagVouches /\ CachedReadyVouched
    BY DEF FlagVouches, CachedReadyVouched
  <1> QED
    BY <1>1, <1>2, <1>3, <1>4, <1>5 DEF ReadyzInv

(* Every step keeps the types.                                              *)
LEMMA ReadyzTypedStep ==
  ASSUME ReadyzInv, [ReadyzNext]_readyzVars
  PROVE  ReadyzTyped'
  <1> USE ReadyzAssumption DEF ReadyzInv, ReadyzTyped, OnLoop, InProbe, Answered, Goto
  <1>1. CASE Tick
    BY <1>1 DEF Tick, Vouch
  <1>2. ASSUME NEW c \in Calls, Call(c)
        PROVE  ReadyzTyped'
    BY <1>2 DEF Call, Vouch
  <1>3. ASSUME NEW c \in Calls, ReadTime(c)
        PROVE  ReadyzTyped'
    BY <1>3 DEF ReadTime, Vouch
  <1>4. ASSUME NEW c \in Calls, ReadFlag(c)
        PROVE  ReadyzTyped'
    BY <1>4 DEF ReadFlag, Vouch
  <1>5. ASSUME NEW c \in Calls, ReadClock(c)
        PROVE  ReadyzTyped'
    BY <1>5 DEF ReadClock, Cached, Vouch
  <1>6. ASSUME NEW c \in Calls, Acquire(c)
        PROVE  ReadyzTyped'
    BY <1>6 DEF Acquire, Cached, Vouch
  <1>7. ASSUME NEW c \in Calls, ProbeSucceeds(c)
        PROVE  ReadyzTyped'
    BY <1>7 DEF ProbeSucceeds, Vouch
  <1>8. ASSUME NEW c \in Calls, ProbeFails(c)
        PROVE  ReadyzTyped'
    BY <1>8 DEF ProbeFails, Vouch
  <1>9. ASSUME NEW c \in Calls, Publish(c)
        PROVE  ReadyzTyped'
    BY <1>9 DEF Publish, Vouch
  <1>10. ASSUME NEW c \in Calls, Stamp(c)
        PROVE  ReadyzTyped'
    BY <1>10 DEF Stamp, Vouch
  <1>11. ASSUME NEW c \in Calls, Answer(c)
        PROVE  ReadyzTyped'
    BY <1>11 DEF Answer, Vouch
  <1>12. CASE UNCHANGED readyzVars
    BY <1>12 DEF readyzVars
  <1> QED
    BY <1>1, <1>2, <1>3, <1>4, <1>5, <1>6, <1>7, <1>8, <1>9, <1>10, <1>11, <1>12 DEF
      ReadyzNext, CallStep

(* Every step keeps the probe alone.                                        *)
LEMMA SingleFlightStep ==
  ASSUME ReadyzInv, [ReadyzNext]_readyzVars
  PROVE  SingleFlight'
  <1> USE ReadyzAssumption DEF ReadyzInv, ReadyzTyped, SingleFlight, OnLoop, InProbe, Answered, Goto
  <1>1. CASE Tick
    BY <1>1 DEF Tick
  <1>2. ASSUME NEW c \in Calls, Call(c)
        PROVE  SingleFlight'
    BY <1>2 DEF Call
  <1>3. ASSUME NEW c \in Calls, ReadTime(c)
        PROVE  SingleFlight'
    BY <1>3 DEF ReadTime
  <1>4. ASSUME NEW c \in Calls, ReadFlag(c)
        PROVE  SingleFlight'
    BY <1>4 DEF ReadFlag
  <1>5. ASSUME NEW c \in Calls, ReadClock(c)
        PROVE  SingleFlight'
    BY <1>5 DEF ReadClock, Cached
  <1>6. ASSUME NEW c \in Calls, Acquire(c)
        PROVE  SingleFlight'
    BY <1>6 DEF Acquire, Cached
  <1>7. ASSUME NEW c \in Calls, ProbeSucceeds(c)
        PROVE  SingleFlight'
    BY <1>7 DEF ProbeSucceeds
  <1>8. ASSUME NEW c \in Calls, ProbeFails(c)
        PROVE  SingleFlight'
    BY <1>8 DEF ProbeFails
  <1>9. ASSUME NEW c \in Calls, Publish(c)
        PROVE  SingleFlight'
    BY <1>9 DEF Publish
  <1>10. ASSUME NEW c \in Calls, Stamp(c)
        PROVE  SingleFlight'
    BY <1>10 DEF Stamp
  <1>11. ASSUME NEW c \in Calls, Answer(c)
        PROVE  SingleFlight'
    BY <1>11 DEF Answer
  <1>12. CASE UNCHANGED readyzVars
    BY <1>12 DEF readyzVars
  <1> QED
    BY <1>1, <1>2, <1>3, <1>4, <1>5, <1>6, <1>7, <1>8, <1>9, <1>10, <1>11, <1>12 DEF
      ReadyzNext, CallStep

(* Every step keeps the order of the times.                                 *)
LEMMA ClocksStep ==
  ASSUME ReadyzInv, [ReadyzNext]_readyzVars
  PROVE  Clocks'
  <1> USE ReadyzAssumption DEF ReadyzInv, ReadyzTyped, SingleFlight, CacheFollows, Clocks, OnLoop, InProbe, Answered, Goto
  <1>1. CASE Tick
    BY <1>1 DEF Tick
  <1>2. ASSUME NEW c \in Calls, Call(c)
        PROVE  Clocks'
    BY <1>2 DEF Call
  <1>3. ASSUME NEW c \in Calls, ReadTime(c)
        PROVE  Clocks'
    BY <1>3 DEF ReadTime
  <1>4. ASSUME NEW c \in Calls, ReadFlag(c)
        PROVE  Clocks'
    BY <1>4 DEF ReadFlag
  <1>5. ASSUME NEW c \in Calls, ReadClock(c)
        PROVE  Clocks'
    BY <1>5 DEF ReadClock, Cached
  <1>6. ASSUME NEW c \in Calls, Acquire(c)
        PROVE  Clocks'
    BY <1>6 DEF Acquire, Cached
  <1>7. ASSUME NEW c \in Calls, ProbeSucceeds(c)
        PROVE  Clocks'
    BY <1>7 DEF ProbeSucceeds
  <1>8. ASSUME NEW c \in Calls, ProbeFails(c)
        PROVE  Clocks'
    BY <1>8 DEF ProbeFails
  <1>9. ASSUME NEW c \in Calls, Publish(c)
        PROVE  Clocks'
    BY <1>9 DEF Publish
  <1>10. ASSUME NEW c \in Calls, Stamp(c)
        PROVE  Clocks'
    BY <1>10 DEF Stamp
  <1>11. ASSUME NEW c \in Calls, Answer(c)
        PROVE  Clocks'
    BY <1>11 DEF Answer
  <1>12. CASE UNCHANGED readyzVars
    BY <1>12 DEF readyzVars
  <1> QED
    BY <1>1, <1>2, <1>3, <1>4, <1>5, <1>6, <1>7, <1>8, <1>9, <1>10, <1>11, <1>12 DEF
      ReadyzNext, CallStep

(* Every step keeps the cache behind the newest outcome.                    *)
LEMMA CacheStep ==
  ASSUME ReadyzInv, [ReadyzNext]_readyzVars
  PROVE  CacheFollows'
  <1> USE ReadyzAssumption DEF ReadyzInv, ReadyzTyped, SingleFlight, CacheFollows, Clocks, OnLoop, InProbe, Answered, Goto
  <1>1. CASE Tick
    BY <1>1 DEF Tick
  <1>2. ASSUME NEW c \in Calls, Call(c)
        PROVE  CacheFollows'
    BY <1>2 DEF Call
  <1>3. ASSUME NEW c \in Calls, ReadTime(c)
        PROVE  CacheFollows'
    BY <1>3 DEF ReadTime
  <1>4. ASSUME NEW c \in Calls, ReadFlag(c)
        PROVE  CacheFollows'
    BY <1>4 DEF ReadFlag
  <1>5. ASSUME NEW c \in Calls, ReadClock(c)
        PROVE  CacheFollows'
    BY <1>5 DEF ReadClock, Cached
  <1>6. ASSUME NEW c \in Calls, Acquire(c)
        PROVE  CacheFollows'
    BY <1>6 DEF Acquire, Cached
  <1>7. ASSUME NEW c \in Calls, ProbeSucceeds(c)
        PROVE  CacheFollows'
    BY <1>7 DEF ProbeSucceeds
  <1>8. ASSUME NEW c \in Calls, ProbeFails(c)
        PROVE  CacheFollows'
    BY <1>8 DEF ProbeFails
  <1>9. ASSUME NEW c \in Calls, Publish(c)
        PROVE  CacheFollows'
    BY <1>9 DEF Publish
  <1>10. ASSUME NEW c \in Calls, Stamp(c)
        PROVE  CacheFollows'
    BY <1>10 DEF Stamp
  <1>11. ASSUME NEW c \in Calls, Answer(c)
        PROVE  CacheFollows'
    BY <1>11 DEF Answer
  <1>12. CASE UNCHANGED readyzVars
    BY <1>12 DEF readyzVars
  <1> QED
    BY <1>1, <1>2, <1>3, <1>4, <1>5, <1>6, <1>7, <1>8, <1>9, <1>10, <1>11, <1>12 DEF
      ReadyzNext, CallStep

(* What has been vouched for stays so until the answer.                     *)
LEMMA VouchedStays ==
  ASSUME ReadyzInv, Vouch, NEW c \in Calls, pc'[c] # "idle"
  PROVE  vouched'[c] <=> vouched[c] \/ Live(last', lastAt', now')
  BY DEF Vouch

(* A step that leaves the two reads of a call behind it as they were, and   *)
(* lets time pass or not, keeps what they show.                             *)
LEMMA VouchStep ==
  ASSUME ReadyzInv, [ReadyzNext]_readyzVars
  PROVE  FlagVouches' /\ CachedReadyVouched'
  <1> USE ReadyzAssumption
  <1>1. ASSUME Vouch, now <= now', now' \in Nat,
               \A d \in Calls :
                 pc'[d] = "clock" /\ saw'[d] = "ready" =>
                   pc[d] = "clock" /\ saw[d] = "ready" /\ sawAt'[d] = sawAt[d],
               \A d \in Calls : pc'[d] = "cachedReady" =>
                   pc[d] = "cachedReady" \/ Live(last', lastAt', now')
        PROVE  FlagVouches' /\ CachedReadyVouched'
    <2>1. ASSUME NEW d \in Calls, pc'[d] = "clock", saw'[d] = "ready",
                 now' - sawAt'[d] < TTL
          PROVE  vouched'[d]
      <3>1. /\ pc[d] = "clock" /\ saw[d] = "ready" /\ sawAt'[d] = sawAt[d]
            /\ sawAt[d] \in Nat /\ now \in Nat
        BY <1>1, <2>1 DEF ReadyzInv, ReadyzTyped
      <3>2. now - sawAt[d] < TTL
        BY <1>1, <2>1, <3>1
      <3>3. vouched[d]
        BY <3>1, <3>2 DEF ReadyzInv, FlagVouches
      <3> QED
        BY <1>1, <2>1, <3>3, VouchedStays
    <2>2. ASSUME NEW d \in Calls, pc'[d] = "cachedReady"
          PROVE  vouched'[d]
      <3>1. vouched[d] \/ Live(last', lastAt', now')
        BY <1>1, <2>2 DEF ReadyzInv, CachedReadyVouched
      <3> QED
        BY <1>1, <2>2, <3>1, VouchedStays
    <2> QED
      BY <2>1, <2>2 DEF FlagVouches, CachedReadyVouched
  <1>2. CASE Tick
    BY <1>1, <1>2 DEF Tick, ReadyzInv, ReadyzTyped
  <1>3. ASSUME NEW c \in Calls,
               Call(c) \/ ReadTime(c) \/ ProbeSucceeds(c) \/ ProbeFails(c)
               \/ Publish(c) \/ Stamp(c) \/ Answer(c)
        PROVE  FlagVouches' /\ CachedReadyVouched'
    BY <1>1, <1>3
    DEF Call, ReadTime, ProbeSucceeds, ProbeFails, Publish, Stamp, Answer, Goto,
        ReadyzInv, ReadyzTyped
  <1>4. ASSUME NEW c \in Calls, ReadFlag(c)
        PROVE  FlagVouches' /\ CachedReadyVouched'
    <2>1. /\ Vouch /\ UNCHANGED <<now, saw, sawAt, last, lastAt>>
          /\ ReadyzTyped /\ Clocks /\ CacheFollows /\ pc[c] = "flag"
      BY <1>4 DEF ReadFlag, ReadyzInv
    <2>2. ASSUME pc'[c] = "clock", saw[c] = "ready", now - sawAt[c] < TTL
          PROVE  Live(last', lastAt', now')
      <3>1. last = "ready"
        BY <1>4, <2>1, <2>2 DEF ReadFlag, Goto, CacheFollows, ReadyzTyped
      <3>2. sawAt[c] <= checkedAt /\ checkedAt <= lastAt
        BY <2>1, <3>1 DEF Clocks
      <3>3. now - lastAt < TTL
        BY <2>1, <2>2, <3>2 DEF ReadyzTyped
      <3> QED
        BY <2>1, <3>1, <3>3 DEF Live
    <2>3. \A d \in Calls \ {c} : pc'[d] = pc[d]
      BY <1>4, <2>1 DEF ReadFlag, Goto, ReadyzTyped
    <2>4. pc'[c] # "idle" /\ pc'[c] # "cachedReady"
      BY <1>4, <2>1 DEF ReadFlag, Goto, ReadyzTyped
    <2>5. FlagVouches'
      <3> SUFFICES ASSUME NEW d \in Calls, pc'[d] = "clock", saw'[d] = "ready",
                          now' - sawAt'[d] < TTL
                   PROVE  vouched'[d]
        BY DEF FlagVouches
      <3>1. CASE d = c
        BY <2>1, <2>2, <3>1, VouchedStays
      <3>2. CASE d # c
        BY <2>1, <2>3, <3>2, VouchedStays DEF ReadyzInv, FlagVouches
      <3> QED
        BY <3>1, <3>2
    <2>6. CachedReadyVouched'
      BY <2>1, <2>3, <2>4, VouchedStays DEF ReadyzInv, CachedReadyVouched
    <2> QED
      BY <2>5, <2>6
  <1>5. ASSUME NEW c \in Calls, ReadClock(c)
        PROVE  FlagVouches' /\ CachedReadyVouched'
    <2>1. /\ Vouch /\ UNCHANGED <<now, saw, sawAt, last, lastAt>>
          /\ ReadyzTyped /\ FlagVouches /\ pc[c] = "clock"
      BY <1>5 DEF ReadClock, ReadyzInv
    <2>2. \A d \in Calls \ {c} : pc'[d] = pc[d]
      BY <1>5, <2>1 DEF ReadClock, Goto, ReadyzTyped
    <2>3. pc'[c] \notin {"idle", "clock"}
      BY <1>5, <2>1 DEF ReadClock, Goto, ReadyzTyped, Cached
    <2>4. pc'[c] = "cachedReady" => vouched[c]
      BY <1>5, <2>1 DEF ReadClock, Goto, ReadyzTyped, Cached, Fresh, FlagVouches
    <2>5. FlagVouches'
      BY <2>1, <2>2, <2>3, VouchedStays DEF FlagVouches
    <2>6. CachedReadyVouched'
      BY <2>1, <2>2, <2>3, <2>4, VouchedStays DEF ReadyzInv, CachedReadyVouched
    <2> QED
      BY <2>5, <2>6
  <1>6. ASSUME NEW c \in Calls, Acquire(c)
        PROVE  FlagVouches' /\ CachedReadyVouched'
    <2>1. /\ Vouch /\ UNCHANGED <<now, saw, sawAt, last, lastAt>>
          /\ ReadyzTyped /\ Clocks /\ CacheFollows /\ pc[c] = "lock"
      BY <1>6 DEF Acquire, ReadyzInv
    <2>2. ASSUME Usable, verdict = "ready"
          PROVE  Live(last', lastAt', now')
      <3>1. ok /\ now - checkedAt < TTL
        BY <2>2 DEF Usable, Fresh
      <3>2. last = "ready" /\ checkedAt <= lastAt
        BY <2>1, <3>1 DEF CacheFollows, Clocks
      <3>3. now - lastAt < TTL
        BY <2>1, <3>1, <3>2 DEF ReadyzTyped
      <3> QED
        BY <2>1, <3>2, <3>3 DEF Live
    <2>3. \A d \in Calls \ {c} : pc'[d] = pc[d]
      BY <1>6, <2>1 DEF Acquire, Goto, ReadyzTyped
    <2>4. pc'[c] # "clock" /\ (pc'[c] = "cachedReady" => Usable /\ verdict = "ready")
      BY <1>6, <2>1 DEF Acquire, Goto, ReadyzTyped, Cached
    <2> QED
      BY <1>1, <2>1, <2>2, <2>3, <2>4 DEF ReadyzTyped
  <1>7. CASE UNCHANGED readyzVars
    BY <1>7 DEF readyzVars, ReadyzInv, FlagVouches, CachedReadyVouched
  <1> QED
    BY <1>2, <1>3, <1>4, <1>5, <1>6, <1>7 DEF ReadyzNext, CallStep

(* ReadyzInv is inductive.                                                  *)
LEMMA ReadyzStep == ReadyzInv /\ [ReadyzNext]_readyzVars => ReadyzInv'
  BY ReadyzTypedStep, SingleFlightStep, ClocksStep, CacheStep, VouchStep DEF ReadyzInv

(* A ready answer from the cache is backed by a success younger than the    *)
(* TTL at some moment of the request, for every interleaving of its three   *)
(* unlocked reads with the writes of probes.                                *)
THEOREM ReadyzVouched == ReadyzSpec => []CachedReadyVouched
  <1>1. ReadyzInv => CachedReadyVouched
    BY DEF ReadyzInv
  <1> QED
    BY ReadyzStart, ReadyzStep, <1>1, PTL DEF ReadyzSpec

(* A probe starts only alone, and only when no success younger than the TTL *)
(* is known: the second look under the lock sees every finished probe.      *)
THEOREM ReadyzNoStampede == ReadyzSpec => NoStampede
  <1> DEFINE Needed ==
        \A c \in Calls :
          pc[c] # "probe" /\ pc'[c] = "probe" =>
            ~Live(last, lastAt, now) /\ \A d \in Calls : pc[d] \notin InProbe
  <1>1. ReadyzInv /\ [ReadyzNext]_readyzVars => [Needed]_readyzVars
    <2> SUFFICES ASSUME ReadyzInv, ReadyzNext, NEW c \in Calls,
                        pc[c] # "probe", pc'[c] = "probe"
                 PROVE  ~Live(last, lastAt, now) /\ \A d \in Calls : pc[d] \notin InProbe
      OBVIOUS
    <2>1. Acquire(c)
      <3>1. ReadyzTyped
        BY DEF ReadyzInv
      <3> QED
        BY <3>1
        DEF ReadyzNext, CallStep, Tick, Call, ReadTime, ReadFlag, ReadClock, Acquire,
            ProbeSucceeds, ProbeFails, Publish, Stamp, Answer, Goto, Cached, ReadyzTyped
    <2>2. ~lock /\ ~Usable
      BY <2>1 DEF Acquire, Goto, Cached, ReadyzInv, ReadyzTyped
    <2>3. \A d \in Calls : pc[d] \notin InProbe
      BY <2>2 DEF ReadyzInv, SingleFlight
    <2>4. ASSUME Live(last, lastAt, now)
          PROVE  Usable
      <3>1. verdict = "ready" /\ checkedAt = lastAt /\ ok
        BY <2>3, <2>4 DEF Live, ReadyzInv, CacheFollows, InProbe
      <3> QED
        BY <2>4, <3>1 DEF Usable, Fresh, Live
    <2> QED
      BY <2>2, <2>3, <2>4
  <1> QED
    BY ReadyzStart, ReadyzStep, <1>1, PTL DEF ReadyzSpec, NoStampede

-----------------------------------------------------------------------------
(* Extraction.  No bound on the number of requests is assumed: those with a *)
(* permit are finitely many because a permit is needed to become one.       *)

PendingSet == {q \in Requests : work[q] \in Pending}
GatedSet == {q \in Requests : work[q] \in {"parse", "pipeline"}}

ExtractionTyped ==
  /\ slots \in Nat /\ gate \in Nat
  /\ queue \in Seq(Requests)
  /\ phase \in {"up", "closing", "closed"}
  /\ handler \in [Requests -> {"idle", "waiting", "over"}]
  /\ work \in [Requests -> {"none", "cancelled", "ended"} \cup Pending]
  /\ child \in [Requests -> {"none", "exited", "crashed"} \cup ChildAlive]
  /\ IsFiniteSet(PendingSet)

(* A request that has not been handled has no work item, and a pool that is *)
(* shut down has an empty queue.                                            *)
NothingEarly ==
  /\ \A q \in Requests : handler[q] = "idle" => work[q] = "none"
  /\ phase # "up" => queue = <<>>

ExtractionInv == ExtractionTyped /\ NothingEarly /\ SlotsExact /\ NoOrphan

(* The set of gated items is a part of the pending ones, hence finite.      *)
LEMMA Counted ==
  ASSUME ExtractionInv
  PROVE  /\ IsFiniteSet(PendingSet) /\ IsFiniteSet(GatedSet)
         /\ Cardinality(PendingSet) \in Nat /\ Cardinality(GatedSet) \in Nat
         /\ slots + Cardinality(PendingSet) = Capacity
         /\ gate + Cardinality(GatedSet) = Gates
  <1>1. IsFiniteSet(PendingSet)
    BY DEF ExtractionInv, ExtractionTyped
  <1>2. GatedSet \in SUBSET PendingSet
    BY DEF GatedSet, PendingSet, Pending, Running
  <1>3. IsFiniteSet(GatedSet)
    BY <1>1, <1>2, FS_Subset
  <1>4. Cardinality(PendingSet) \in Nat /\ Cardinality(GatedSet) \in Nat
    BY <1>1, <1>3, FS_CardinalityType
  <1> QED
    BY <1>1, <1>3, <1>4 DEF ExtractionInv, SlotsExact, PendingSet, GatedSet

(* One work item moves to p: it joins or leaves the two sets.               *)
LEMMA MoveCounts ==
  ASSUME ExtractionInv, NEW q \in Requests, NEW p, At(q, p)
  PROVE  /\ IsFiniteSet(PendingSet)'
         /\ Cardinality(PendingSet)' =
              Cardinality(PendingSet)
                + (IF p \in Pending THEN 1 ELSE 0) - (IF work[q] \in Pending THEN 1 ELSE 0)
         /\ Cardinality(GatedSet)' =
              Cardinality(GatedSet)
                + (IF p \in {"parse", "pipeline"} THEN 1 ELSE 0)
                - (IF work[q] \in {"parse", "pipeline"} THEN 1 ELSE 0)
  <1>1. /\ IsFiniteSet(PendingSet) /\ IsFiniteSet(GatedSet)
        /\ Cardinality(PendingSet) \in Nat /\ Cardinality(GatedSet) \in Nat
    BY Counted
  <1>2. \A r \in Requests : work'[r] = IF r = q THEN p ELSE work[r]
    BY DEF At, ExtractionInv, ExtractionTyped
  <1>3. PendingSet' = IF p \in Pending THEN PendingSet \cup {q} ELSE PendingSet \ {q}
    BY <1>2 DEF PendingSet
  <1>4. GatedSet' = IF p \in {"parse", "pipeline"} THEN GatedSet \cup {q} ELSE GatedSet \ {q}
    BY <1>2 DEF GatedSet
  <1>5. /\ q \in PendingSet <=> work[q] \in Pending
        /\ q \in GatedSet <=> work[q] \in {"parse", "pipeline"}
    BY DEF PendingSet, GatedSet
  <1>6. /\ IsFiniteSet(PendingSet \cup {q}) /\ IsFiniteSet(PendingSet \ {q})
        /\ Cardinality(PendingSet \cup {q}) =
             IF q \in PendingSet THEN Cardinality(PendingSet) ELSE Cardinality(PendingSet) + 1
        /\ Cardinality(PendingSet \ {q}) =
             IF q \in PendingSet THEN Cardinality(PendingSet) - 1 ELSE Cardinality(PendingSet)
    BY <1>1, FS_AddElement, FS_RemoveElement
  <1>7. /\ Cardinality(GatedSet \cup {q}) =
             IF q \in GatedSet THEN Cardinality(GatedSet) ELSE Cardinality(GatedSet) + 1
        /\ Cardinality(GatedSet \ {q}) =
             IF q \in GatedSet THEN Cardinality(GatedSet) - 1 ELSE Cardinality(GatedSet)
    BY <1>1, FS_AddElement, FS_RemoveElement
  <1>8. /\ IsFiniteSet(PendingSet')
        /\ Cardinality(PendingSet') =
             Cardinality(PendingSet)
               + (IF p \in Pending THEN 1 ELSE 0) - (IF work[q] \in Pending THEN 1 ELSE 0)
    BY <1>1, <1>3, <1>5, <1>6
  <1>9. Cardinality(GatedSet') =
          Cardinality(GatedSet)
            + (IF p \in {"parse", "pipeline"} THEN 1 ELSE 0)
            - (IF work[q] \in {"parse", "pipeline"} THEN 1 ELSE 0)
    BY <1>1, <1>4, <1>5, <1>7
  <1> QED
    BY <1>8, <1>9

(* A step of a pool thread: its item moves on and keeps its permit, or ends *)
(* and gives it back; the gate follows; a child is left only when it is     *)
(* dead.                                                                    *)
ThreadMoves(q, p) ==
  /\ work[q] \in Running /\ p \in Running \cup {"ended"} /\ At(q, p)
  /\ slots' = IF p = "ended" THEN slots + 1 ELSE slots
  /\ gate' = gate + (IF work[q] \in {"parse", "pipeline"} THEN 1 ELSE 0)
                  - (IF p \in {"parse", "pipeline"} THEN 1 ELSE 0)
  /\ gate' \in Nat
  /\ UNCHANGED <<queue, phase, handler>>
  /\ child' \in [Requests -> {"none", "exited", "crashed"} \cup ChildAlive]
  /\ \A r \in Requests \ {q} : child'[r] = child[r]
  /\ child'[q] \in ChildAlive => p = "join"

(* Every step of the worker is of that kind.                                *)
LEMMA ThreadStep ==
  ASSUME ExtractionInv, NEW q \in Requests, Thread(q) \/ Parse(q)
  PROVE  \E p \in Running \cup {"ended"} : ThreadMoves(q, p)
  <1>1. ExtractionTyped /\ gate \in Nat
    BY DEF ExtractionInv, ExtractionTyped
  <1>2. work[q] # "join" => child[q] \notin ChildAlive
    BY DEF ExtractionInv, NoOrphan
  <1> USE DEF ThreadMoves, At, End, Proceed, ExtractionTyped, Pending, Running, ChildAlive
  <1>3. CASE Capture(q)
    <2>1. CASE End(q)
      <3>1. ThreadMoves(q, "ended")
        BY <1>1, <1>2, <1>3, <2>1 DEF Capture
      <3> QED
        BY <3>1
    <2>2. CASE Proceed(q, "ingest")
      <3>1. ThreadMoves(q, "ingest")
        BY <1>1, <1>2, <1>3, <2>2 DEF Capture
      <3> QED
        BY <3>1
    <2> QED
      BY <1>3, <2>1, <2>2 DEF Capture
  <1>4. CASE Ingest(q)
    <2>1. CASE End(q) /\ UNCHANGED <<gate, child>>
      <3>1. ThreadMoves(q, "ended")
        BY <1>1, <1>2, <1>4, <2>1 DEF Ingest
      <3> QED
        BY <3>1
    <2>2. CASE Proceed(q, "join") /\ child' = [child EXCEPT ![q] = "parsing"] /\ UNCHANGED gate
      <3>1. ThreadMoves(q, "join")
        BY <1>1, <1>2, <1>4, <2>2 DEF Ingest
      <3> QED
        BY <3>1
    <2>3. CASE gate > 0 /\ gate' = gate - 1 /\ Proceed(q, "parse") /\ UNCHANGED child
      <3>1. ThreadMoves(q, "parse")
        BY <1>1, <1>2, <1>4, <2>3 DEF Ingest
      <3> QED
        BY <3>1
    <2> QED
      BY <1>4, <2>1, <2>2, <2>3 DEF Ingest
  <1>5. CASE Join(q)
    <2>1. CASE child[q] = "exited" /\ Proceed(q, "read") /\ UNCHANGED <<child, result>>
      <3>1. ThreadMoves(q, "read")
        BY <1>1, <1>5, <2>1 DEF Join
      <3> QED
        BY <3>1
    <2>2. CASE End(q) /\ CleanUp(q)
      <3>1. ThreadMoves(q, "ended")
        BY <1>1, <1>5, <2>2 DEF Join, CleanUp
      <3> QED
        BY <3>1
    <2> QED
      BY <1>5, <2>1, <2>2 DEF Join
  <1>6. CASE Read(q)
    <2>1. CASE End(q)
      <3>1. ThreadMoves(q, "ended")
        BY <1>1, <1>6, <2>1 DEF Read, CleanUp
      <3> QED
        BY <3>1
    <2>2. CASE Proceed(q, "enter")
      <3>1. ThreadMoves(q, "enter")
        BY <1>1, <1>6, <2>2 DEF Read, CleanUp
      <3> QED
        BY <3>1
    <2> QED
      BY <1>6, <2>1, <2>2 DEF Read
  <1>7. CASE EnterGate(q)
    <2>1. ThreadMoves(q, "pipeline")
      BY <1>1, <1>2, <1>7 DEF EnterGate
    <2> QED
      BY <2>1
  <1>8. CASE RunPipeline(q)
    <2>1. ThreadMoves(q, "ended")
      BY <1>1, <1>2, <1>8 DEF RunPipeline
    <2> QED
      BY <2>1
  <1>9. CASE Parse(q)
    <2>1. CASE End(q)
      <3>1. ThreadMoves(q, "ended")
        BY <1>1, <1>2, <1>9, <2>1 DEF Parse
      <3> QED
        BY <3>1
    <2>2. CASE Proceed(q, "enter")
      <3>1. ThreadMoves(q, "enter")
        BY <1>1, <1>2, <1>9, <2>2 DEF Parse
      <3> QED
        BY <3>1
    <2> QED
      BY <1>9, <2>1, <2>2 DEF Parse
  <1> QED
    BY <1>3, <1>4, <1>5, <1>6, <1>7, <1>8, <1>9 DEF Thread

(* Such a step keeps the accounts.                                          *)
LEMMA ThreadKeeps ==
  ASSUME ExtractionInv, NEW q \in Requests, NEW p \in Running \cup {"ended"},
         ThreadMoves(q, p)
  PROVE  ExtractionInv'
  <1>1. /\ IsFiniteSet(PendingSet)'
        /\ Cardinality(PendingSet)' =
             Cardinality(PendingSet)
               + (IF p \in Pending THEN 1 ELSE 0) - (IF work[q] \in Pending THEN 1 ELSE 0)
        /\ Cardinality(GatedSet)' =
             Cardinality(GatedSet)
               + (IF p \in {"parse", "pipeline"} THEN 1 ELSE 0)
               - (IF work[q] \in {"parse", "pipeline"} THEN 1 ELSE 0)
    BY MoveCounts DEF ThreadMoves
  <1>2. /\ Cardinality(PendingSet) \in Nat /\ Cardinality(GatedSet) \in Nat
        /\ slots + Cardinality(PendingSet) = Capacity
        /\ gate + Cardinality(GatedSet) = Gates
    BY Counted
  <1>3. ExtractionTyped /\ NothingEarly /\ NoOrphan
    BY DEF ExtractionInv
  <1>4. /\ p \in Pending <=> p # "ended"
        /\ work[q] \in Pending
    BY DEF ThreadMoves, Pending, Running
  <1>5. work' \in [Requests -> {"none", "cancelled", "ended"} \cup Pending]
    BY <1>3 DEF ThreadMoves, ExtractionTyped, At, Pending
  <1>6. \A r \in Requests : work'[r] = IF r = q THEN p ELSE work[r]
    BY <1>3 DEF ThreadMoves, ExtractionTyped, At
  <1>7. ExtractionTyped'
    BY <1>1, <1>3, <1>5 DEF ExtractionTyped, ThreadMoves
  <1>8. NothingEarly'
    BY <1>3, <1>4, <1>6 DEF NothingEarly, ThreadMoves, Pending, Running
  <1>9. SlotsExact'
    <2>1. slots' + Cardinality(PendingSet)' = Capacity
      BY <1>1, <1>2, <1>3, <1>4 DEF ThreadMoves, ExtractionTyped
    <2>2. gate' + Cardinality(GatedSet)' = Gates
      BY <1>1, <1>2, <1>3 DEF ThreadMoves, ExtractionTyped
    <2> QED
      BY <2>1, <2>2 DEF SlotsExact, PendingSet, GatedSet
  <1>10. NoOrphan'
    <2>1. phase # "closed"
      BY <1>3 DEF NoOrphan, ThreadMoves
    <2> QED
      BY <1>3, <1>6, <2>1 DEF NoOrphan, ThreadMoves
  <1> QED
    BY <1>7, <1>8, <1>9, <1>10 DEF ExtractionInv

(* A step that moves no item.                                               *)
LEMMA StillKeeps ==
  ASSUME ExtractionInv, UNCHANGED <<slots, gate, queue, work>>,
         handler' \in [Requests -> {"idle", "waiting", "over"}],
         \A q \in Requests : handler'[q] = "idle" => handler[q] = "idle",
         child' \in [Requests -> {"none", "exited", "crashed"} \cup ChildAlive],
         \A q \in Requests : child'[q] \in ChildAlive => child[q] \in ChildAlive,
         \/ phase' = phase
         \/ phase' = "closed" /\ phase # "up" /\ \A q \in Requests : work[q] \notin Running
         \/ phase' = "up"
  PROVE  ExtractionInv'
  <1>1. ExtractionTyped /\ NothingEarly /\ NoOrphan /\ SlotsExact
    BY DEF ExtractionInv
  <1>2. ExtractionTyped'
    BY <1>1 DEF ExtractionTyped, PendingSet
  <1>3. NothingEarly'
    BY <1>1 DEF NothingEarly
  <1>4. SlotsExact'
    BY <1>1 DEF SlotsExact, Capacity
  <1>5. NoOrphan'
    BY <1>1 DEF NoOrphan
  <1> QED
    BY <1>2, <1>3, <1>4, <1>5 DEF ExtractionInv

(* Before the first request every permit is free.                           *)
LEMMA ExtractionStart == Init => ExtractionInv
  <1> SUFFICES ASSUME Init
               PROVE  ExtractionInv
    OBVIOUS
  <1>1. PendingSet = {} /\ GatedSet = {}
    BY DEF Init, PendingSet, GatedSet, Pending, Running
  <1>2. IsFiniteSet(PendingSet) /\ Cardinality(PendingSet) = 0 /\ Cardinality(GatedSet) = 0
    BY <1>1, FS_EmptySet
  <1>3. slots = Capacity /\ gate = Gates /\ Capacity \in Nat /\ Gates \in Nat
    BY ExtractionAssumption DEF Init, Capacity
  <1>4. ExtractionTyped
    BY <1>2, <1>3 DEF Init, ExtractionTyped
  <1>5. SlotsExact
    BY <1>2, <1>3 DEF SlotsExact, PendingSet, GatedSet
  <1>6. NothingEarly /\ NoOrphan
    BY DEF Init, NothingEarly, NoOrphan, ChildAlive
  <1> QED
    BY <1>4, <1>5, <1>6 DEF ExtractionInv

(* Admission: a permit goes out with the work item, or nothing moves.       *)
LEMMA AdmissionKeeps ==
  ASSUME ExtractionInv, NEW q \in Requests, extract_document(q)
  PROVE  ExtractionInv'
  <1>1. ExtractionTyped /\ NothingEarly /\ NoOrphan
    BY DEF ExtractionInv
  <1>2. CASE Over(q) /\ UNCHANGED <<slots, queue, work>>
    BY <1>1, <1>2, StillKeeps DEF extract_document, Over, ExtractionTyped
  <1>3. CASE /\ slots > 0 /\ phase = "up" /\ slots' = slots - 1
             /\ work' = [work EXCEPT ![q] = "queued"] /\ queue' = Append(queue, q)
             /\ handler' = [handler EXCEPT ![q] = "waiting"]
    <2>1. work[q] = "none" /\ UNCHANGED <<gate, phase, child>>
      BY <1>1 DEF extract_document, NothingEarly
    <2>2. /\ IsFiniteSet(PendingSet)'
          /\ Cardinality(PendingSet)' = Cardinality(PendingSet) + 1
          /\ Cardinality(GatedSet)' = Cardinality(GatedSet)
      <3>1. At(q, "queued") /\ "queued" \in Pending /\ work[q] \notin Pending
        BY <1>3, <2>1 DEF At, Pending, Running
      <3>2. Cardinality(PendingSet) \in Nat /\ Cardinality(GatedSet) \in Nat
        BY Counted
      <3> QED
        BY <2>1, <3>1, <3>2, MoveCounts
    <2>3. /\ Cardinality(PendingSet) \in Nat
          /\ slots + Cardinality(PendingSet) = Capacity
          /\ gate + Cardinality(GatedSet) = Gates
      BY Counted
    <2>4. ExtractionTyped'
      BY <1>1, <1>3, <2>1, <2>2 DEF ExtractionTyped, Pending
    <2>5. NothingEarly'
      BY <1>1, <1>3, <2>1 DEF NothingEarly, ExtractionTyped
    <2>6. SlotsExact'
      <3>1. slots' + Cardinality(PendingSet)' = Capacity
        BY <1>1, <1>3, <2>2, <2>3 DEF ExtractionTyped
      <3>2. gate' + Cardinality(GatedSet)' = Gates
        BY <2>1, <2>2, <2>3
      <3> QED
        BY <3>1, <3>2 DEF SlotsExact, PendingSet, GatedSet
    <2>7. NoOrphan'
      BY <1>1, <1>3, <2>1 DEF NoOrphan, ExtractionTyped
    <2> QED
      BY <2>4, <2>5, <2>6, <2>7 DEF ExtractionInv
  <1> QED
    BY <1>2, <1>3 DEF extract_document

(* A waiter that gives up takes the permit back only from an item that is   *)
(* still queued: the worker of any other releases it.                       *)
LEMMA GiveUpKeeps ==
  ASSUME ExtractionInv, NEW q \in Requests, GiveUp(q)
  PROVE  ExtractionInv'
  <1>1. ExtractionTyped /\ NothingEarly /\ NoOrphan
    BY DEF ExtractionInv
  <1>2. /\ handler' = [handler EXCEPT ![q] = "over"]
        /\ UNCHANGED <<gate, queue, phase, child>>
    BY DEF GiveUp, Over
  <1>3. CASE work[q] # "queued"
    <2>1. work' = work /\ slots' = slots
      BY <1>1, <1>3 DEF GiveUp, ExtractionTyped
    <2> QED
      BY <1>1, <1>2, <2>1, StillKeeps DEF ExtractionTyped
  <1>4. CASE work[q] = "queued"
    <2>1. At(q, "cancelled") /\ slots' = slots + 1
      BY <1>4 DEF GiveUp, At
    <2>2. /\ Cardinality(PendingSet) \in Nat /\ Cardinality(GatedSet) \in Nat
          /\ slots + Cardinality(PendingSet) = Capacity
          /\ gate + Cardinality(GatedSet) = Gates
      BY Counted
    <2>3. /\ IsFiniteSet(PendingSet)'
          /\ Cardinality(PendingSet)' = Cardinality(PendingSet) - 1
          /\ Cardinality(GatedSet)' = Cardinality(GatedSet)
      <3>1. "cancelled" \notin Pending /\ work[q] \in Pending
        BY <1>4 DEF Pending, Running
      <3> QED
        BY <1>4, <2>1, <2>2, <3>1, MoveCounts
    <2>4. ExtractionTyped'
      BY <1>1, <1>2, <2>1, <2>3 DEF ExtractionTyped, At
    <2>5. NothingEarly'
      BY <1>1, <1>2, <2>1 DEF NothingEarly, ExtractionTyped, At
    <2>6. SlotsExact'
      <3>1. slots' + Cardinality(PendingSet)' = Capacity
        BY <1>1, <2>1, <2>2, <2>3 DEF ExtractionTyped
      <3>2. gate' + Cardinality(GatedSet)' = Gates
        BY <1>2, <2>2, <2>3
      <3> QED
        BY <3>1, <3>2 DEF SlotsExact, PendingSet, GatedSet
    <2>7. NoOrphan'
      BY <1>1, <1>2, <1>4, <2>1 DEF NoOrphan, ExtractionTyped, At, Running
    <2> QED
      BY <2>4, <2>5, <2>6, <2>7 DEF ExtractionInv
  <1> QED
    BY <1>3, <1>4

(* A thread takes an item, which stays pending, or skips a cancelled one.   *)
LEMMA TakeKeeps ==
  ASSUME ExtractionInv, Take
  PROVE  ExtractionInv'
  <1> DEFINE q == Head(queue)
  <1>1. ExtractionTyped /\ NothingEarly /\ NoOrphan /\ SlotsExact
    BY DEF ExtractionInv
  <1>2. /\ q \in Requests /\ queue' \in Seq(Requests) /\ phase = "up"
        /\ UNCHANGED <<slots, gate, phase, handler, child>>
    BY <1>1 DEF Take, ExtractionTyped, NothingEarly
  <1>3. \A r \in Requests :
          work'[r] = IF r = q /\ work[r] = "queued" THEN "capture" ELSE work[r]
    BY <1>1, <1>2 DEF Take, ExtractionTyped
  <1>4. work' \in [Requests -> {"none", "cancelled", "ended"} \cup Pending]
    BY <1>1, <1>2 DEF Take, ExtractionTyped, Pending, Running
  <1>5. PendingSet' = PendingSet /\ GatedSet' = GatedSet
    BY <1>3 DEF PendingSet, GatedSet, Pending, Running
  <1>6. ExtractionTyped'
    BY <1>1, <1>2, <1>4, <1>5 DEF ExtractionTyped
  <1>7. NothingEarly'
    BY <1>1, <1>2, <1>3 DEF NothingEarly
  <1>8. SlotsExact'
    <2>1. slots + Cardinality(PendingSet') = Capacity /\ gate + Cardinality(GatedSet') = Gates
      BY <1>1, <1>5 DEF SlotsExact, PendingSet, GatedSet
    <2> QED
      BY <1>2, <2>1 DEF SlotsExact, PendingSet, GatedSet
  <1>9. NoOrphan'
    BY <1>1, <1>2, <1>3 DEF NoOrphan
  <1> QED
    BY <1>6, <1>7, <1>8, <1>9 DEF ExtractionInv

(* The shutdown cancels what is queued and takes back exactly its permits.  *)
LEMMA ShutdownKeeps ==
  ASSUME ExtractionInv, Shutdown
  PROVE  ExtractionInv'
  <1> DEFINE Queued == {q \in Requests : work[q] = "queued"}
  <1>1. ExtractionTyped /\ NothingEarly /\ NoOrphan
    BY DEF ExtractionInv
  <1>2. /\ Cardinality(PendingSet) \in Nat /\ IsFiniteSet(PendingSet)
        /\ slots + Cardinality(PendingSet) = Capacity
        /\ gate + Cardinality(GatedSet) = Gates
    BY Counted
  <1>3. /\ \A q \in Requests :
             work'[q] = IF work[q] = "queued" THEN "cancelled" ELSE work[q]
        /\ slots' = slots + Cardinality(Queued) /\ queue' = <<>> /\ phase' = "closing"
        /\ UNCHANGED <<gate, handler, child>>
    BY DEF Shutdown
  <1>4. PendingSet' = PendingSet \ Queued /\ PendingSet \cap Queued = Queued
        /\ GatedSet' = GatedSet
    BY <1>3 DEF PendingSet, GatedSet, Pending, Running
  <1>5. Queued \in SUBSET PendingSet /\ IsFiniteSet(Queued) /\ Cardinality(Queued) \in Nat
    BY <1>2, <1>4, FS_Subset, FS_CardinalityType
  <1>6. /\ IsFiniteSet(PendingSet')
        /\ Cardinality(PendingSet') = Cardinality(PendingSet) - Cardinality(Queued)
    <2>1. /\ IsFiniteSet(PendingSet \ Queued)
          /\ Cardinality(PendingSet \ Queued) =
               Cardinality(PendingSet) - Cardinality(PendingSet \cap Queued)
      <3> HIDE DEF Queued
      <3> QED
        BY <1>2, FS_Difference
    <2>2. PendingSet' = PendingSet \ Queued
      BY <1>4
    <2>3. Cardinality(PendingSet \cap Queued) = Cardinality(Queued)
      BY <1>4
    <2> HIDE DEF Queued
    <2> QED
      BY <2>1, <2>2, <2>3
  <1>7. work' \in [Requests -> {"none", "cancelled", "ended"} \cup Pending]
    BY <1>1 DEF Shutdown, ExtractionTyped
  <1>8. ExtractionTyped'
    <2>1. slots' \in Nat
      BY <1>1, <1>3, <1>5 DEF ExtractionTyped
    <2> QED
      BY <1>1, <1>3, <1>6, <1>7, <2>1 DEF ExtractionTyped
  <1>9. NothingEarly'
    BY <1>1, <1>3 DEF NothingEarly
  <1>10. SlotsExact'
    <2>1. slots' + Cardinality(PendingSet') = Capacity
      BY <1>1, <1>2, <1>3, <1>5, <1>6 DEF ExtractionTyped
    <2>2. gate' + Cardinality(GatedSet') = Gates
      BY <1>2, <1>3, <1>4
    <2> QED
      BY <2>1, <2>2 DEF SlotsExact, PendingSet, GatedSet
  <1>11. NoOrphan'
    BY <1>1, <1>3 DEF NoOrphan
  <1> QED
    BY <1>8, <1>9, <1>10, <1>11 DEF ExtractionInv

(* ExtractionInv is inductive.                                              *)
LEMMA ExtractionStep == ExtractionInv /\ [Next]_vars => ExtractionInv'
  <1> SUFFICES ASSUME ExtractionInv, [Next]_vars
               PROVE  ExtractionInv'
    OBVIOUS
  <1>1. ExtractionTyped
    BY DEF ExtractionInv
  <1>2. ASSUME NEW q \in Requests, Thread(q) \/ Parse(q)
        PROVE  ExtractionInv'
    <2>1. PICK p \in Running \cup {"ended"} : ThreadMoves(q, p)
      BY <1>2, ThreadStep
    <2> QED
      BY <2>1, ThreadKeeps
  <1>3. ASSUME NEW q \in Requests, extract_document(q)
        PROVE  ExtractionInv'
    BY <1>3, AdmissionKeeps
  <1>4. ASSUME NEW q \in Requests, WaitTimeout(q) \/ CancelWaiter(q)
        PROVE  ExtractionInv'
    BY <1>4, GiveUpKeeps DEF WaitTimeout, CancelWaiter
  <1>5. ASSUME NEW q \in Requests,
               Deliver(q) \/ Deadline(q) \/ ChildPublishes(q) \/ ChildExits(q)
        PROVE  ExtractionInv'
    BY <1>1, <1>5, StillKeeps
    DEF Deliver, Over, Deadline, ChildPublishes, ChildExits, ExtractionTyped, ChildAlive
  <1>6. CASE Close \/ Reopen \/ UNCHANGED vars
    BY <1>1, <1>6, StillKeeps DEF Close, Reopen, vars, ExtractionTyped
  <1> QED
    BY <1>2, <1>3, <1>4, <1>5, <1>6, TakeKeeps, ShutdownKeeps DEF Next, Loop

(* For any number of requests a permit is out exactly for each item that is *)
(* queued or running, and a gate permit for each parse or pipeline: none is *)
(* leaked, none given back twice, through give-ups, shutdowns and restarts. *)
THEOREM ExtractionSlots == Spec => []SlotsExact
  <1>1. ExtractionInv => SlotsExact
    BY DEF ExtractionInv
  <1> QED
    BY ExtractionStart, ExtractionStep, <1>1, PTL DEF Spec

(* No parser process outlives the wait of its worker, and no worker the     *)
(* closing of the store.                                                    *)
THEOREM ExtractionNoOrphan == Spec => []NoOrphan
  <1>1. ExtractionInv => NoOrphan
    BY DEF ExtractionInv
  <1> QED
    BY ExtractionStart, ExtractionStep, <1>1, PTL DEF Spec
=============================================================================
