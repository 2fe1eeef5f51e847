----------------------------- MODULE Extraction -----------------------------
(* POST /api/extract-document of overlay/server.py: admission by a bounded  *)
(* semaphore, a thread pool with an unbounded queue, a deadline that the    *)
(* waiter and the worker observe separately, the parser child process of    *)
(* kernel/sidecar/isolated_ingest.py, the gate in front of the pipeline,    *)
(* and the lifespan that shuts the pool down before it closes the store.    *)
(*                                                                          *)
(* The handler runs on the event loop from admission to its await without a *)
(* break; a work item moves in a pool thread; shutdown runs in a third.     *)
(* What the pipeline computes is the subject of DocumentPipeline.           *)
EXTENDS Naturals, FiniteSets, Sequences

CONSTANTS
  Requests,   \* one request each
  Workers,    \* EXTRACTION_WORKERS
  QueueDepth, \* _EXTRACTION_QUEUE_DEPTH
  Gates,      \* PIPELINE_CONCURRENCY
  Modes       \* AXIOM_EXTRACTION_ISOLATION, read by each request

ASSUME ExtractionAssumption ==
  /\ Workers \in Nat \ {0}
  /\ QueueDepth \in Nat
  /\ Gates \in Nat \ {0}
  /\ Modes \subseteq {"process", "thread"}

VARIABLES
  slots,   \* _extraction_slots: free permits
  gate,    \* orchestrator_gate: free permits
  queue,   \* the pool's queue; a cancelled item stays until a thread meets it
  phase,   \* lifespan: "up", "closing" (pool shut down), "closed" (store closed)
  handler, \* "idle", "waiting" (at its await) or "over" (answered, or gone)
  work,    \* where the work item is
  child,   \* the parser process
  result,  \* result.json in the private directory
  late     \* the deadline has passed

vars == <<slots, gate, queue, phase, handler, work, child, result, late>>

Capacity == Workers + QueueDepth
Running == {"capture", "ingest", "join", "read", "parse", "enter", "pipeline"}
Pending == {"queued"} \cup Running
ChildAlive == {"parsing", "published"}

ExtractionTypeOK ==
  /\ slots \in 0 .. Capacity
  /\ gate \in 0 .. Gates
  /\ queue \in Seq(Requests)
  /\ phase \in {"up", "closing", "closed"}
  /\ handler \in [Requests -> {"idle", "waiting", "over"}]
  /\ work \in [Requests -> {"none", "cancelled", "ended"} \cup Pending]
  /\ child \in [Requests -> {"none", "exited", "crashed"} \cup ChildAlive]
  /\ result \in [Requests -> {"none", "ok", "reject"}]
  /\ late \in [Requests -> BOOLEAN]

Init ==
  /\ slots = Capacity
  /\ gate = Gates
  /\ queue = <<>>
  /\ phase = "up"
  /\ handler = [q \in Requests |-> "idle"]
  /\ work = [q \in Requests |-> "none"]
  /\ child = [q \in Requests |-> "none"]
  /\ result = [q \in Requests |-> "none"]
  /\ late = [q \in Requests |-> FALSE]

-----------------------------------------------------------------------------
(* The handler.                                                             *)

Over(q) == handler' = [handler EXCEPT ![q] = "over"]

(* Shed (503) when no permit is free; a submit that fails, the pool being   *)
(* shut down, gives its permit back (500).                                  *)
extract_document(q) ==
  /\ handler[q] = "idle"
  /\ \/ slots = 0 /\ Over(q) /\ UNCHANGED <<slots, queue, work>>
     \/ slots > 0 /\ phase # "up" /\ Over(q) /\ UNCHANGED <<slots, queue, work>>
     \/ /\ slots > 0 /\ phase = "up"
        /\ slots' = slots - 1
        /\ work' = [work EXCEPT ![q] = "queued"]
        /\ queue' = Append(queue, q)
        /\ handler' = [handler EXCEPT ![q] = "waiting"]
  /\ UNCHANGED <<gate, phase, child, result, late>>

(* The future is done: its result (200), its exception (4xx, 500, 504) or,  *)
(* when the shutdown cancelled it, CancelledError.                          *)
Deliver(q) ==
  /\ handler[q] = "waiting"
  /\ work[q] \in {"ended", "cancelled"}
  /\ Over(q)
  /\ UNCHANGED <<slots, gate, queue, phase, work, child, result, late>>

(* The waiter gives up.  Cancelling the future succeeds only while it is    *)
(* queued; its done callback then releases the permit.                      *)
GiveUpEarly(q) ==
  /\ handler[q] = "waiting"
  /\ Over(q)
  /\ work' = [work EXCEPT ![q] = IF @ = "queued" THEN "cancelled" ELSE @]
  /\ slots' = IF work[q] \in Pending THEN slots + 1 ELSE slots
  /\ UNCHANGED <<gate, queue, phase, child, result, late>>

GiveUp(q) ==
  /\ handler[q] = "waiting"
  /\ Over(q)
  /\ work' = [work EXCEPT ![q] = IF @ = "queued" THEN "cancelled" ELSE @]
  /\ slots' = IF work[q] = "queued" THEN slots + 1 ELSE slots
  /\ UNCHANGED <<gate, queue, phase, child, result, late>>

(* At the deadline (504), unless the work was done first; or because the    *)
(* task of the request is cancelled.                                        *)
WaitForResult(q) == late[q] /\ work[q] = "ended" /\ GiveUp(q)
WaitTimeout(q) == late[q] /\ GiveUp(q)
CancelWaiter(q) == GiveUp(q)

(* EXTRACTION_DEADLINE_SECONDS pass.                                        *)
Deadline(q) ==
  /\ handler[q] = "waiting" \/ work[q] \in Pending
  /\ ~late[q]
  /\ late' = [late EXCEPT ![q] = TRUE]
  /\ UNCHANGED <<slots, gate, queue, phase, handler, work, child, result>>

-----------------------------------------------------------------------------
(* The pool thread.                                                         *)

At(q, p) == work' = [work EXCEPT ![q] = p]

(* The future gets its result or exception; the done callback releases the  *)
(* permit.                                                                  *)
End(q) == At(q, "ended") /\ slots' = slots + 1

Proceed(q, p) == At(q, p) /\ UNCHANGED slots

(* A free thread takes the next item and skips it when it was cancelled.    *)
Take ==
  /\ queue # <<>>
  /\ Cardinality({q \in Requests : work[q] \in Running}) < Workers
  /\ queue' = Tail(queue)
  /\ LET q == Head(queue) IN
       work' = [work EXCEPT ![q] = IF @ = "queued" THEN "capture" ELSE @]
  /\ UNCHANGED <<slots, gate, phase, handler, child, result, late>>

(* Resolve the path and read the source; the deadline before parsing.       *)
Capture(q) ==
  /\ work[q] = "capture"
  /\ End(q) \/ (~late[q] /\ Proceed(q, "ingest"))
  /\ UNCHANGED <<gate, queue, phase, handler, child, result, late>>

(* ingest_document_isolated.  In process mode a child parses the snapshot;  *)
(* in thread mode the parse holds the pipeline gate and cannot be stopped.  *)
(* It counts the time that remained before the gate anew, so its deadline   *)
(* may lie after the waiter's.  A bad configuration, a full disk or a child *)
(* that cannot be started ends the work.                                    *)
Ingest(q) ==
  /\ work[q] = "ingest"
  /\ \/ End(q) /\ UNCHANGED <<gate, child>>
     \/ /\ "process" \in Modes
        /\ Proceed(q, "join")
        /\ child' = [child EXCEPT ![q] = "parsing"]
        /\ UNCHANGED gate
     \/ /\ "thread" \in Modes /\ gate > 0
        /\ gate' = gate - 1
        /\ Proceed(q, "parse")
        /\ UNCHANGED child
  /\ UNCHANGED <<queue, phase, handler, result, late>>

(* The child publishes a whole result by a rename, or rejects the document, *)
(* and exits; without its limits it exits with no result; a limit or a      *)
(* fault ends it at any point.                                              *)
ChildPublishes(q) ==
  /\ child[q] = "parsing"
  /\ \E r \in {"ok", "reject"} : result' = [result EXCEPT ![q] = r]
  /\ child' = [child EXCEPT ![q] = "published"]
  /\ UNCHANGED <<slots, gate, queue, phase, handler, work, late>>

ChildExits(q) ==
  /\ child[q] \in ChildAlive
  /\ \E e \in {"exited", "crashed"} : child' = [child EXCEPT ![q] = e]
  /\ UNCHANGED <<slots, gate, queue, phase, handler, work, result, late>>

(* The private directory goes, the process is killed, reaped and closed.    *)
CleanUp(q) ==
  /\ child' = [child EXCEPT ![q] = "none"]
  /\ result' = [result EXCEPT ![q] = "none"]

(* The join loop and its finally clause.                                    *)
JoinLeavesChild(q) ==
  /\ work[q] = "join"
  /\ \/ child[q] = "exited" /\ Proceed(q, "read")
     \/ child[q] = "crashed" /\ End(q)
     \/ child[q] \in ChildAlive /\ late[q] /\ End(q)
  /\ UNCHANGED <<gate, queue, phase, handler, child, result, late>>

JoinForever(q) ==
  /\ work[q] = "join"
  /\ \/ child[q] = "exited" /\ Proceed(q, "read") /\ UNCHANGED <<child, result>>
     \/ child[q] = "crashed" /\ End(q) /\ CleanUp(q)
  /\ UNCHANGED <<gate, queue, phase, handler, late>>

Join(q) ==
  /\ work[q] = "join"
  /\ \/ child[q] = "exited" /\ Proceed(q, "read") /\ UNCHANGED <<child, result>>
     \/ child[q] = "crashed" /\ End(q) /\ CleanUp(q)
     \/ child[q] \in ChildAlive /\ late[q] /\ End(q) /\ CleanUp(q)
  /\ UNCHANGED <<gate, queue, phase, handler, late>>

(* Whether the published result is a whole, consistent graph of the very    *)
(* snapshot; a rejection or a missing result is not.                        *)
_validate(q) == result[q] = "ok"

(* Bounded read and validation of the result, between two deadline checks.  *)
Read(q) ==
  /\ work[q] = "read"
  /\ End(q) \/ (_validate(q) /\ Proceed(q, "enter"))
  /\ CleanUp(q)
  /\ UNCHANGED <<gate, queue, phase, handler, late>>

(* A parse in the service's own thread, if it ever ends.                    *)
Parse(q) ==
  /\ work[q] = "parse"
  /\ gate' = gate + 1
  /\ End(q) \/ Proceed(q, "enter")
  /\ UNCHANGED <<queue, phase, handler, child, result, late>>

(* The request's own orchestrator runs behind the gate; no deadline here.   *)
EnterGate(q) ==
  /\ work[q] = "enter"
  /\ gate > 0
  /\ gate' = gate - 1
  /\ Proceed(q, "pipeline")
  /\ UNCHANGED <<queue, phase, handler, child, result, late>>

RunPipeline(q) ==
  /\ work[q] = "pipeline"
  /\ gate' = gate + 1
  /\ End(q)
  /\ UNCHANGED <<queue, phase, handler, child, result, late>>

-----------------------------------------------------------------------------
(* The lifespan.                                                            *)

(* shutdown(wait, cancel_futures): what is queued is cancelled at once.     *)
Shutdown ==
  /\ phase = "up"
  /\ phase' = "closing"
  /\ work' = [q \in Requests |-> IF work[q] = "queued" THEN "cancelled" ELSE work[q]]
  /\ slots' = slots + Cardinality({q \in Requests : work[q] = "queued"})
  /\ queue' = <<>>
  /\ UNCHANGED <<gate, handler, child, result, late>>

(* The threads are joined, then the store is closed.                        *)
Close ==
  /\ phase = "closing"
  /\ \A q \in Requests : work[q] \notin Running
  /\ phase' = "closed"
  /\ UNCHANGED <<slots, gate, queue, handler, work, child, result, late>>

(* A new lifespan: the store reopened, a new pool; the semaphore is kept.   *)
Reopen ==
  /\ phase = "closed"
  /\ phase' = "up"
  /\ UNCHANGED <<slots, gate, queue, handler, work, child, result, late>>

Loop(q) == Deliver(q) \/ WaitTimeout(q)
Thread(q) ==
  Capture(q) \/ Ingest(q) \/ Join(q) \/ Read(q) \/ EnterGate(q) \/ RunPipeline(q)

Next ==
  \/ \E q \in Requests :
       \/ extract_document(q) \/ Loop(q) \/ CancelWaiter(q) \/ Deadline(q)
       \/ Thread(q) \/ Parse(q) \/ ChildPublishes(q) \/ ChildExits(q)
  \/ Take \/ Shutdown \/ Close \/ Reopen

Spec == Init /\ [][Next]_vars
(* Timers fire, the event loop runs what is ready, pool threads run.  The   *)
(* child owes nothing, nor does a parse in thread mode.                     *)
FairSpec ==
  /\ Spec
  /\ WF_vars(Take)
  /\ \A q \in Requests :
       WF_vars(Loop(q)) /\ WF_vars(Deadline(q)) /\ WF_vars(Thread(q))

-----------------------------------------------------------------------------
(* Capacity accounting is exact (docs/SERVER_SOURCE_NOTES.md:108): a permit *)
(* is out exactly for each request whose work is still queued or running,   *)
(* although the waiter may be gone, cancelled queue entries linger, submits *)
(* fail and the pool is shut down; the pipeline gate likewise.              *)
SlotsExact ==
  /\ slots + Cardinality({q \in Requests : work[q] \in Pending}) = Capacity
  /\ gate + Cardinality({q \in Requests : work[q] \in {"parse", "pipeline"}}) = Gates

(* No parser outlives its request: a child runs only while its thread waits *)
(* for it, and none runs, nor any thread, once the store is closed.         *)
NoOrphan ==
  /\ \A q \in Requests : child[q] \in ChildAlive => work[q] = "join"
  /\ phase = "closed" => \A q \in Requests : work[q] \notin Running

(* Every request is answered or gone, however long its worker takes.        *)
EveryoneAnswered == \A q \in Requests : handler[q] = "waiting" ~> handler[q] = "over"

(* A hung parser cannot hold a permit for ever, as long as no parse runs in *)
(* the service's own threads.                                               *)
SlotsReturned ==
  \A q \in Requests :
    work[q] \in Pending ~>
      (work[q] \notin Pending \/ \E r \in Requests : work[r] = "parse")
=============================================================================
