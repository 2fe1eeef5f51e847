-------------------------- MODULE DocumentPipeline --------------------------
(* POST /demo, /apply and /correct of overlay/server.py around the pipeline *)
(* of kernel/sidecar/orchestrator.py, the provenance graph (in memory), the *)
(* SQLite memory store (durable) and the quality gate.                      *)
(*                                                                          *)
(* Pipelines run in threads, at most Gates at once; each call into a store  *)
(* is one step.  The threads of /demo are not the extraction pool's, so the *)
(* lifespan closes the memory store without waiting for them: from then on  *)
(* a call into it raises.  A restart loses the graph and keeps the store,   *)
(* and the page goes on sending what it was offered before.                 *)
(*                                                                          *)
(* Every request extracts one value of one field from one chunk of one      *)
(* document, so a request names its document, chunk and extraction too.     *)
EXTENDS Naturals, FiniteSets, Sequences

CONSTANTS
  Requests,       \* calls of /demo
  Values,         \* values of the field
  Gates,          \* PIPELINE_CONCURRENCY
  Confidence,     \* what the pack claims, in hundredths
  Window,         \* k of search_similar_corrections
  MaxCorrections, \* bound on the corrections
  MaxRestarts     \* bound on the restarts

ASSUME PipelineAssumption ==
  /\ Gates \in Nat \ {0} /\ Confidence \in 0 .. 100 /\ Window \in Nat
  /\ MaxCorrections \in Nat /\ MaxRestarts \in Nat

VARIABLES
  pc,
  extraction,  \* its value, grounded or not, with a chunk or not
  verdict,     \* of the quality gate
  gate,        \* orchestrator_gate: free permits
  documents, chunks, extractions, actions,   \* provenance_log
  open,        \* the memory store has its connection
  mDocuments, mChunks, mExtractions,         \* rows of memory_store
  corrections, \* rows of memory_store, in the order of their time
  offered,     \* history: extractions sent to the page as suggestions
  applied,     \* history: suggestions applied
  restarts

graph == <<documents, chunks, extractions, actions>>
rows == <<mDocuments, mChunks, mExtractions, corrections>>
ghosts == <<offered, applied, restarts>>
vars == <<pc, extraction, verdict, gate, graph, open, rows, ghosts>>

None == [value |-> "none", grounded |-> FALSE, linked |-> FALSE]
InThread == {"ingest", "document", "chunk", "screen", "extract", "record", "check"}

Init ==
  /\ pc = [d \in Requests |-> "idle"]
  /\ extraction = [d \in Requests |-> None]
  /\ verdict = [d \in Requests |-> "none"]
  /\ gate = Gates
  /\ documents = {} /\ chunks = {} /\ extractions = {} /\ actions = {}
  /\ open = TRUE
  /\ mDocuments = {} /\ mChunks = {} /\ mExtractions = {} /\ corrections = <<>>
  /\ offered = {} /\ applied = {} /\ restarts = 0

Goto(d, p) == pc' = [pc EXCEPT ![d] = p]

(* The thread ends: the permit goes back, and the handler may answer.       *)
Leave(d, p) == Goto(d, p) /\ gate' = gate + 1

-----------------------------------------------------------------------------
(* /demo: read the file, then the pipeline in a thread.                     *)

run_demo(d) ==
  /\ pc[d] = "idle"
  /\ Goto(d, "gate") \/ Goto(d, "failed")
  /\ UNCHANGED <<extraction, verdict, gate, graph, open, rows, ghosts>>

EnterGate(d) ==
  /\ pc[d] = "gate" /\ gate > 0
  /\ gate' = gate - 1
  /\ Goto(d, "ingest")
  /\ UNCHANGED <<extraction, verdict, graph, open, rows, ghosts>>

(* A stage that halts returns a trace without extractions.                  *)
Ingest(d) ==
  /\ pc[d] = "ingest"
  /\ (Goto(d, "document") /\ UNCHANGED gate) \/ Leave(d, "halted")
  /\ UNCHANGED <<extraction, verdict, graph, open, rows, ghosts>>

(* Each node goes into the graph and then into the store, which raises when *)
(* it is closed; the exception ends the pipeline and answers success false. *)
RegisterDocument(d) ==
  /\ pc[d] = "document"
  /\ documents' = documents \cup {d}
  /\ \/ open /\ mDocuments' = mDocuments \cup {d} /\ Goto(d, "chunk") /\ UNCHANGED gate
     \/ ~open /\ Leave(d, "failed") /\ UNCHANGED mDocuments
  /\ UNCHANGED <<extraction, verdict, chunks, extractions, actions, open,
                 mChunks, mExtractions, corrections, ghosts>>

RegisterChunk(d) ==
  /\ pc[d] = "chunk"
  /\ chunks' = chunks \cup {d}
  /\ \/ open /\ mChunks' = mChunks \cup {d} /\ Goto(d, "screen") /\ UNCHANGED gate
     \/ ~open /\ Leave(d, "failed") /\ UNCHANGED mChunks
  /\ UNCHANGED <<extraction, verdict, documents, extractions, actions, open,
                 mDocuments, mExtractions, corrections, ghosts>>

SecurityFilter(d) ==
  /\ pc[d] = "screen"
  /\ (Goto(d, "extract") /\ UNCHANGED gate) \/ Leave(d, "halted")
  /\ UNCHANGED <<extraction, verdict, graph, open, rows, ghosts>>

(* The grounding cascade: a value is anchored in a chunk, or blocked.  A    *)
(* grounded value takes the chunk of its anchor; an ungrounded one keeps    *)
(* the chunk the pack named, if any.                                        *)
verify(v) ==
  {e \in [value : {v}, grounded : BOOLEAN, linked : BOOLEAN] : e.grounded => e.linked}

(* The pack, then the grounding.                                            *)
Extract(d) ==
  /\ pc[d] = "extract"
  /\ \/ Leave(d, "halted") /\ UNCHANGED extraction
     \/ \E e \in UNION {verify(v) : v \in Values} :
          /\ extraction' = [extraction EXCEPT ![d] = e]
          /\ Goto(d, "record") /\ UNCHANGED gate
  /\ UNCHANGED <<verdict, graph, open, rows, ghosts>>

RecordInGraphOnly(d) ==
  /\ pc[d] = "record"
  /\ extractions' = extractions \cup {d}
  /\ Goto(d, "check")
  /\ UNCHANGED <<extraction, verdict, gate, documents, chunks, actions, open, rows, ghosts>>

RecordExtraction(d) ==
  /\ pc[d] = "record"
  /\ extractions' = extractions \cup {d}
  /\ \/ open /\ mExtractions' = mExtractions \cup {d} /\ Goto(d, "check") /\ UNCHANGED gate
     \/ ~open /\ Leave(d, "failed") /\ UNCHANGED mExtractions
  /\ UNCHANGED <<extraction, verdict, documents, chunks, actions, open,
                 mDocuments, mChunks, corrections, ghosts>>

-----------------------------------------------------------------------------
(* The quality gate.                                                        *)

(* The positions of the corrections whose extraction has a row (the JOIN),  *)
(* and of the newest among them (ORDER BY at_time DESC LIMIT k).            *)
Joined == {i \in DOMAIN corrections : corrections[i].ext \in mExtractions}

search_similar_corrections ==
  {i \in Joined : Cardinality({j \in Joined : j > i}) < Window}

Contradictions(v) ==
  Cardinality({i \in search_similar_corrections : corrections[i].corrected # v})

(* In hundredths: ungrounded values start below the block threshold, each   *)
(* contradiction costs 15, the result is clamped at 0.                      *)
Calibrated(e) ==
  LET claimed == IF e.grounded \/ Confidence < 19 THEN Confidence ELSE 19
      penalty == 15 * Contradictions(e.value)
  IN  IF claimed < penalty THEN 0 ELSE claimed - penalty

Route(c) == IF c < 20 THEN "BLOCK" ELSE IF c < 50 THEN "FLAG" ELSE "PASS"

(* A BLOCK halts the trace after the loop; the trace still lists the value. *)
Check(d) ==
  /\ pc[d] = "check"
  /\ \/ open /\ Leave(d, "suggest")
             /\ verdict' = [verdict EXCEPT ![d] = Route(Calibrated(extraction[d]))]
     \/ ~open /\ Leave(d, "failed") /\ UNCHANGED verdict
  /\ UNCHANGED <<extraction, graph, open, rows, ghosts>>

-----------------------------------------------------------------------------
(* Back on the event loop, where each of these handlers is one step.        *)

(* get_provenance: extraction, chunk and document, each linked to the next. *)
is_complete(d) ==
  d \in extractions /\ extraction[d].linked /\ d \in chunks /\ d \in documents

(* An extraction is offered as soon as it is in the graph.                  *)
SuggestOnFailure(d) ==
  /\ pc[d] \in {"suggest", "failed"}
  /\ Goto(d, "answered")
  /\ actions' = IF is_complete(d) THEN actions \cup {d} ELSE actions
  /\ offered' = IF is_complete(d) THEN offered \cup {d} ELSE offered
  /\ UNCHANGED <<extraction, verdict, gate, documents, chunks, extractions, open,
                 rows, applied, restarts>>

(* Every extraction of the trace with a complete chain is offered, with an  *)
(* action; no status is ever "blocked", so the gate's verdict is not asked. *)
Suggest(d) ==
  /\ pc[d] = "suggest"
  /\ Goto(d, "answered")
  /\ actions' = IF is_complete(d) THEN actions \cup {d} ELSE actions
  /\ offered' = IF is_complete(d) THEN offered \cup {d} ELSE offered
  /\ UNCHANGED <<extraction, verdict, gate, documents, chunks, extractions, open,
                 rows, applied, restarts>>

(* ActionExecutor.apply: confirmed by a human, and a complete chain; the    *)
(* application is always the allowed one, the payload always the value.     *)
Executable(d, accept) == accept /\ is_complete(d)

(* /apply finds an action of this extraction and has it executed.           *)
apply(d, accept) ==
  /\ applied' = IF d \in actions /\ Executable(d, accept) THEN applied \cup {d} ELSE applied
  /\ UNCHANGED <<pc, extraction, verdict, gate, graph, open, rows, offered, restarts>>

(* /correct takes any extraction id; it fails while the store is closed.    *)
correct(d, v) ==
  /\ Len(corrections) < MaxCorrections
  /\ corrections' = IF open THEN Append(corrections, [ext |-> d, corrected |-> v])
                            ELSE corrections
  /\ UNCHANGED <<pc, extraction, verdict, gate, graph, open,
                 mDocuments, mChunks, mExtractions, ghosts>>

-----------------------------------------------------------------------------
(* The lifespan ends and closes the store; the application starts again in  *)
(* the same process, or the process does.                                   *)
Close ==
  /\ open
  /\ restarts < MaxRestarts
  /\ open' = FALSE
  /\ UNCHANGED <<pc, extraction, verdict, gate, graph, rows, ghosts>>

Reopen ==
  /\ ~open
  /\ open' = TRUE
  /\ restarts' = restarts + 1
  /\ UNCHANGED <<pc, extraction, verdict, gate, graph, rows, offered, applied>>

Restart ==
  /\ restarts < MaxRestarts
  /\ restarts' = restarts + 1
  /\ open' = TRUE
  /\ gate' = Gates
  /\ documents' = {} /\ chunks' = {} /\ extractions' = {} /\ actions' = {}
  /\ pc' = [d \in Requests |->
              IF pc[d] \in InThread \cup {"gate", "suggest"} THEN "failed" ELSE pc[d]]
  /\ UNCHANGED <<extraction, verdict, rows, offered, applied>>

PipelineStep(d) ==
  \/ EnterGate(d) \/ Ingest(d) \/ RegisterDocument(d) \/ RegisterChunk(d)
  \/ SecurityFilter(d) \/ Extract(d) \/ RecordExtraction(d) \/ Check(d) \/ Suggest(d)

Next ==
  \/ \E d \in Requests :
       \/ run_demo(d) \/ PipelineStep(d)
       \/ \E accept \in BOOLEAN : apply(d, accept)
       \/ \E v \in Values : correct(d, v)
  \/ Close \/ Reopen \/ Restart

Spec == Init /\ [][Next]_vars

-----------------------------------------------------------------------------
(* What was ever offered or applied is on durable record, with its chunk    *)
(* and its document, through failures in the middle of registration and     *)
(* through restarts, so a correction of it still finds the extraction row   *)
(* it is joined with.  (The chain /source shows is the graph's: after a     *)
(* restart the row alone does not answer it.)                               *)
OfferedOnRecord ==
  offered \cup applied \subseteq mExtractions \cap mChunks \cap mDocuments

(* The flywheel turns: once three acknowledged corrections of offered       *)
(* values contradict a value, and no correction supports it, the gate no    *)
(* longer passes that value, in whichever process it is extracted.          *)
FlywheelTurns ==
  [][\A d \in Requests :
       LET v == extraction[d].value IN
         /\ verdict[d] # verdict'[d]
         /\ \A i \in DOMAIN corrections : corrections[i].corrected # v
         /\ Cardinality({i \in DOMAIN corrections : corrections[i].ext \in offered}) >= 3
         => verdict'[d] # "PASS"]_vars
=============================================================================
