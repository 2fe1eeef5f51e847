----------------------- MODULE DocumentPipelineProofs -----------------------
(* Proofs about DocumentPipeline, for any requests, values, gate and any    *)
(* number of corrections and restarts.                                      *)
EXTENDS DocumentPipeline, FiniteSetTheorems, WellFoundedInduction, TLAPS

-----------------------------------------------------------------------------
(* What was offered is on record.                                           *)

Recorded == {"check", "suggest"}
Chunked == {"screen", "extract", "record"} \cup Recorded
Documented == {"chunk"} \cup Chunked
Positions ==
  {"idle", "gate", "ingest", "document", "halted", "failed", "answered"}
    \cup Documented

PipelineTyped ==
  /\ pc \in [Requests -> Positions]
  /\ corrections \in Seq([ext : Requests, corrected : Values])
  /\ verdict = [d \in Requests |-> verdict[d]]

(* A pipeline gets no further than what the store took; a restart loses the *)
(* graph, but none of the rows.                                             *)
RowsFirst ==
  \A d \in Requests :
    /\ pc[d] \in Documented => d \in mDocuments
    /\ pc[d] \in Chunked => d \in mChunks
    /\ pc[d] \in Recorded => d \in mExtractions

(* Only what was offered has an action, and only an action is applied.      *)
OfferedFirst == actions \subseteq offered /\ applied \subseteq offered

PipelineInv == PipelineTyped /\ RowsFirst /\ OfferedFirst /\ OfferedOnRecord

(* At first nothing was offered.                                            *)
LEMMA PipelineStart == Init => PipelineInv
  BY DEF Init, PipelineInv, PipelineTyped, RowsFirst, OfferedFirst, OfferedOnRecord,
    Positions, Documented, Chunked, Recorded

(* The steps of one request.                                                *)
LEMMA RequestKeeps ==
  ASSUME PipelineInv, NEW d \in Requests, run_demo(d) \/ PipelineStep(d)
  PROVE  PipelineInv'
  <1> USE DEF Goto, Leave, graph, rows, ghosts, PipelineInv, PipelineTyped, RowsFirst,
    OfferedFirst, OfferedOnRecord, Positions, Documented, Chunked, Recorded
  <1>1. CASE run_demo(d) \/ EnterGate(d) \/ Ingest(d)
    BY <1>1 DEF run_demo, EnterGate, Ingest
  <1>2. CASE RegisterDocument(d)
    BY <1>2 DEF RegisterDocument
  <1>3. CASE RegisterChunk(d)
    BY <1>3 DEF RegisterChunk
  <1>4. CASE SecurityFilter(d) \/ Extract(d)
    BY <1>4 DEF SecurityFilter, Extract
  <1>5. CASE RecordExtraction(d)
    BY <1>5 DEF RecordExtraction
  <1>6. CASE Check(d)
    BY <1>6 DEF Check
  <1>7. CASE Suggest(d)
    BY <1>7 DEF Suggest
  <1> QED
    BY <1>1, <1>2, <1>3, <1>4, <1>5, <1>6, <1>7 DEF PipelineStep

(* /apply, /correct, and what happens to the process.                       *)
LEMMA OtherKeeps ==
  ASSUME PipelineInv,
         \/ \E d \in Requests, accept \in BOOLEAN : apply(d, accept)
         \/ \E d \in Requests, v \in Values : correct(d, v)
         \/ Close \/ Reopen \/ Restart \/ UNCHANGED vars
  PROVE  PipelineInv'
  <1> USE DEF graph, rows, ghosts, PipelineInv, PipelineTyped, RowsFirst,
    OfferedFirst, OfferedOnRecord
  <1>1. ASSUME NEW d \in Requests, NEW accept \in BOOLEAN, apply(d, accept)
        PROVE  PipelineInv'
    BY <1>1 DEF apply
  <1>2. ASSUME NEW d \in Requests, NEW v \in Values, correct(d, v)
        PROVE  PipelineInv'
    <2>1. corrections' \in Seq([ext : Requests, corrected : Values])
      <3> DEFINE R == [ext : Requests, corrected : Values]
                 new == [ext |-> d, corrected |-> v]
      <3>1. new \in R /\ corrections \in Seq(R)
        OBVIOUS
      <3>2. corrections' \in {corrections, Append(corrections, new)}
        BY <1>2 DEF correct
      <3> HIDE DEF R, new
      <3>3. Append(corrections, new) \in Seq(R)
        BY <3>1
      <3>4. corrections' \in Seq(R)
        BY <3>1, <3>2, <3>3
      <3> QED
        BY <3>4 DEF R
    <2> QED
      BY <1>2, <2>1 DEF correct
  <1>3. CASE Close \/ Reopen \/ UNCHANGED vars
    BY <1>3 DEF Close, Reopen, vars
  <1>4. CASE Restart
    BY <1>4 DEF Restart, InThread, Positions, Documented, Chunked, Recorded
  <1> QED
    BY <1>1, <1>2, <1>3, <1>4

(* Every behaviour keeps the invariant.                                     *)
LEMMA PipelineSafe == Spec => []PipelineInv
  <1>1. PipelineInv /\ [Next]_vars => PipelineInv'
    BY RequestKeeps, OtherKeeps DEF Next
  <1> QED
    BY <1>1, PipelineStart, PTL DEF Spec

(* What /demo offered or /apply applied has its extraction, its chunk and   *)
(* its document in the memory store, although each is written by a call of  *)
(* its own that may raise, and although a restart empties the graph.        *)
THEOREM PipelineOnRecord == Spec => []OfferedOnRecord
  BY PipelineSafe, PTL DEF PipelineInv

-----------------------------------------------------------------------------
(* The flywheel.                                                            *)

(* Some position is the last.                                               *)
LEMMA Newest ==
  ASSUME NEW n \in Nat, NEW J, J \subseteq 1 .. n, J # {}
  PROVE  \E m \in J : \A j \in J : j <= m
  <1> DEFINE back == {n - j : j \in J}
             R == OpToRel(<, Nat)
  <1>1. back \subseteq Nat /\ back # {}
    <2>1. \A j \in J : n - j \in Nat
      OBVIOUS
    <2> QED
      BY <2>1
  <1>2. IsWellFoundedOn(R, Nat)
    BY NatLessThanWellFounded
  <1> HIDE DEF back, R
  <1>3. PICK b \in back : \A c \in back : ~(<<c, b>> \in R)
    BY <1>1, <1>2, WFMin
  <1>4. \A c \in back : ~(c < b)
    BY <1>1, <1>3 DEF R, OpToRel
  <1>5. PICK m \in J : b = n - m
    BY DEF back
  <1>6. \A j \in J : n - j \in back
    BY DEF back
  <1>7. ASSUME NEW j \in J
        PROVE  j <= m
    <2>1. ~(n - j < n - m)
      BY <1>4, <1>5, <1>6
    <2>2. j \in Int /\ m \in Int
      OBVIOUS
    <2> QED
      BY <2>1, <2>2
  <1> QED
    BY <1>7

(* What is taken out of a finite set is finite and no larger.               *)
LEMMA Fewer ==
  ASSUME NEW S, IsFiniteSet(S), NEW T, T \subseteq S
  PROVE  /\ IsFiniteSet(T) /\ Cardinality(T) \in Nat /\ Cardinality(S) \in Nat
         /\ Cardinality(T) <= Cardinality(S)
  <1>1. IsFiniteSet(T) /\ Cardinality(T) <= Cardinality(S)
    BY FS_Subset
  <1> QED
    BY <1>1, FS_CardinalityType

(* So are positions of a sequence.                                          *)
LEMMA FewPositions ==
  ASSUME NEW n \in Nat, NEW J, J \subseteq 1 .. n
  PROVE  IsFiniteSet(J) /\ Cardinality(J) \in Nat
  <1>1. IsFiniteSet(1 .. n)
    <2>1. 1 \in Int /\ n \in Int
      OBVIOUS
    <2> QED
      BY <2>1, FS_Interval
  <1> QED
    BY <1>1, Fewer

(* Of three positions or more, the window shows at least three.             *)
LEMMA WindowShows ==
  ASSUME NEW n \in Nat, NEW J, J \subseteq 1 .. n, Cardinality(J) >= 3,
         NEW w \in Nat, w >= 3
  PROVE  /\ IsFiniteSet({i \in J : Cardinality({j \in J : j > i}) < w})
         /\ Cardinality({i \in J : Cardinality({j \in J : j > i}) < w}) >= 3
  <1> DEFINE W == {i \in J : Cardinality({j \in J : j > i}) < w}
  <1>1. IsFiniteSet(J) /\ Cardinality(J) \in Nat
    BY FewPositions
  <1>2. J # {}
    BY FS_EmptySet
  <1>3. PICK a \in J : \A j \in J : j <= a
    BY <1>2, Newest
  <1>4. IsFiniteSet(J \ {a}) /\ Cardinality(J \ {a}) = Cardinality(J) - 1
    BY <1>1, FS_RemoveElement
  <1>5. J \ {a} # {}
    BY <1>1, <1>4, FS_EmptySet
  <1>6. PICK b \in J \ {a} : \A j \in J \ {a} : j <= b
    BY <1>5, Newest
  <1>7. Cardinality((J \ {a}) \ {b}) = Cardinality(J) - 2
    <2>1. Cardinality((J \ {a}) \ {b}) = Cardinality(J \ {a}) - 1
      BY <1>4, <1>6, FS_RemoveElement
    <2> QED
      BY <1>1, <1>4, <2>1
  <1>8. (J \ {a}) \ {b} # {}
    BY <1>1, <1>7, FS_EmptySet
  <1>9. PICK c \in (J \ {a}) \ {b} : \A j \in (J \ {a}) \ {b} : j <= c
    BY <1>8, Newest
  <1>10. IsFiniteSet({a, b}) /\ Cardinality({a, b}) = 2
    <2>1. IsFiniteSet({a}) /\ Cardinality({a}) = 1
      BY FS_Singleton
    <2>2. IsFiniteSet({a} \cup {b}) /\ Cardinality({a} \cup {b}) = 2
      <3>1. b \notin {a}
        BY <1>6
      <3>2. IsFiniteSet({a} \cup {b}) /\ Cardinality({a} \cup {b}) = Cardinality({a}) + 1
        BY <2>1, <3>1, FS_AddElement
      <3> QED
        BY <2>1, <3>2
    <2>3. {a} \cup {b} = {a, b}
      OBVIOUS
    <2> QED
      BY <2>2, <2>3
  <1>11. IsFiniteSet({a, b, c}) /\ Cardinality({a, b, c}) = 3
    <2>1. IsFiniteSet({a, b} \cup {c}) /\ Cardinality({a, b} \cup {c}) = 3
      <3>1. c \notin {a, b}
        BY <1>9
      <3>2. /\ IsFiniteSet({a, b} \cup {c})
            /\ Cardinality({a, b} \cup {c}) = Cardinality({a, b}) + 1
        BY <1>10, <3>1, FS_AddElement
      <3> QED
        BY <1>10, <3>2
    <2>2. {a, b} \cup {c} = {a, b, c}
      OBVIOUS
    <2> QED
      BY <2>1, <2>2
  <1>12. ASSUME NEW i \in {a, b, c}
         PROVE  i \in W
    <2>1. i \in J /\ a \in Int /\ b \in Int /\ c \in Int
      BY <1>3, <1>6, <1>9
    <2>2. \A j \in J : j > i => j \in {a, b}
      BY <1>3, <1>6, <1>9, <2>1
    <2>3. {j \in J : j > i} \subseteq {a, b}
      BY <2>2
    <2>4. Cardinality({j \in J : j > i}) \in Nat /\ Cardinality({j \in J : j > i}) <= 2
      <3> DEFINE later == {j \in J : j > i}
      <3>1. later \subseteq {a, b}
        BY <2>3
      <3> HIDE DEF later
      <3>2. Cardinality(later) \in Nat /\ Cardinality(later) <= Cardinality({a, b})
        BY <1>10, <3>1, Fewer
      <3> QED
        BY <1>10, <3>2 DEF later
    <2> QED
      BY <2>1, <2>4
  <1>13. {a, b, c} \subseteq W
    BY <1>12
  <1>14. IsFiniteSet(W)
    BY <1>1, Fewer
  <1> HIDE DEF W
  <1>15. Cardinality(W) \in Nat /\ Cardinality({a, b, c}) <= Cardinality(W)
    BY <1>13, <1>14, Fewer
  <1>16. Cardinality(W) >= 3
    BY <1>11, <1>15
  <1> QED
    BY <1>14, <1>16 DEF W

(* Three corrections of offered values that contradict v, and none for it,  *)
(* are at least three contradictions.                                       *)
LEMMA Contradicted ==
  ASSUME PipelineInv, NEW v, Window \in Nat, Window >= 3,
         \A i \in DOMAIN corrections : corrections[i].corrected # v,
         Cardinality({i \in DOMAIN corrections : corrections[i].ext \in offered}) >= 3
  PROVE  Contradictions(v) \in Nat /\ Contradictions(v) >= 3
  <1> DEFINE O == {i \in DOMAIN corrections : corrections[i].ext \in offered}
             n == Len(corrections)
  <1>1. n \in Nat /\ DOMAIN corrections = 1 .. n
    BY DEF PipelineInv, PipelineTyped
  <1>2. Joined \subseteq 1 .. n /\ O \subseteq Joined
    BY <1>1 DEF Joined, PipelineInv, OfferedOnRecord
  <1> HIDE DEF n
  <1>3. IsFiniteSet(Joined)
    BY <1>1, <1>2, FewPositions
  <1>4. Cardinality(Joined) >= 3
    <2>1. Cardinality(O) >= 3
      OBVIOUS
    <2> HIDE DEF O
    <2> QED
      <3>1. /\ Cardinality(O) \in Nat /\ Cardinality(Joined) \in Nat
            /\ Cardinality(O) <= Cardinality(Joined)
        BY <1>2, <1>3, Fewer
      <3> QED
        BY <2>1, <3>1
  <1>5. IsFiniteSet(search_similar_corrections)
        /\ Cardinality(search_similar_corrections) >= 3
    BY <1>1, <1>2, <1>4, WindowShows DEF search_similar_corrections
  <1>6. {i \in search_similar_corrections : corrections[i].corrected # v}
          = search_similar_corrections
    BY <1>1, <1>2 DEF search_similar_corrections
  <1> QED
    BY <1>5, <1>6, FS_CardinalityType DEF Contradictions

(* Only the quality gate gives a verdict.                                   *)
LEMMA VerdictBy ==
  ASSUME PipelineInv, [Next]_vars, NEW d \in Requests, verdict[d] # verdict'[d]
  PROVE  verdict'[d] = Route(Calibrated(extraction[d]))
  <1>1. UNCHANGED verdict \/ \E o \in Requests : Check(o)
    BY DEF Next, PipelineStep, run_demo, EnterGate, Ingest, RegisterDocument,
      RegisterChunk, SecurityFilter, Extract, RecordExtraction, Suggest, apply, correct,
      Close, Reopen, Restart, vars
  <1>2. PICK o \in Requests : Check(o)
    BY <1>1
  <1>3. verdict' = [verdict EXCEPT ![o] = Route(Calibrated(extraction[o]))]
    BY <1>2 DEF Check
  <1>4. verdict = [r \in Requests |-> verdict[r]]
    BY DEF PipelineInv, PipelineTyped
  <1> QED
    BY <1>3, <1>4

(* Once three corrections of offered values contradict a value and none is  *)
(* for it, the quality gate does not pass it, in whichever process: the     *)
(* corrections find their extractions by the JOIN, because what was offered *)
(* is on record.  The gate consults at least three corrections (it asks for *)
(* k=5), and a pack claims less than 0.95 (with more, it takes a fourth).   *)
THEOREM PipelineFlywheel ==
  ASSUME Window >= 3, Confidence < 95
  PROVE  Spec => FlywheelTurns
  <1>1. ASSUME PipelineInv, [Next]_vars, NEW d \in Requests, verdict[d] # verdict'[d],
               \A i \in DOMAIN corrections :
                 corrections[i].corrected # extraction[d].value,
               Cardinality({i \in DOMAIN corrections : corrections[i].ext \in offered}) >= 3
        PROVE  verdict'[d] # "PASS"
    <2> DEFINE k == Contradictions(extraction[d].value)
    <2>1. Window \in Nat /\ Confidence \in Nat
      BY PipelineAssumption
    <2>2. k \in Nat /\ k >= 3
      BY <1>1, <2>1, Contradicted
    <2> HIDE DEF k
    <2>3. Calibrated(extraction[d]) \in Nat /\ Calibrated(extraction[d]) < 50
      BY <2>1, <2>2 DEF Calibrated, k
    <2>4. verdict'[d] = Route(Calibrated(extraction[d]))
      BY <1>1, VerdictBy
    <2> QED
      BY <2>3, <2>4 DEF Route
  <1>2. PipelineInv /\ [Next]_vars =>
          [\A d \in Requests :
             LET v == extraction[d].value IN
               /\ verdict[d] # verdict'[d]
               /\ \A i \in DOMAIN corrections : corrections[i].corrected # v
               /\ Cardinality({i \in DOMAIN corrections : corrections[i].ext \in offered}) >= 3
               => verdict'[d] # "PASS"]_vars
    BY <1>1
  <1> QED
    BY <1>2, PipelineSafe, PTL DEF Spec, FlywheelTurns
=============================================================================
