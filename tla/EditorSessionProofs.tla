------------------------- MODULE EditorSessionProofs -------------------------
(***************************************************************************)
(* Safety of EditorSession, for any editors, runs, setters and tokens.     *)
(***************************************************************************)
EXTENDS EditorSession, TLAPS

Runnings == [at : {"none"} \cup Running, snap : Snapshots \cup {None},
             token : Tokens \cup {None}, epoch : Nat, signal : {"live", "aborted"}]

RunTypeOK ==
  /\ run \in [Runs -> Runnings]
  /\ setter \in [Setters -> [at : {"none", "asking", "storing", "stored"},
                            value : Tokens \cup {None}]]

(* A run that has not ended is the one the session's controller belongs to, *)
(* and it was begun no later than now.                                      *)
OneRun ==
  \A r \in Runs : run[r].at # "none" =>
     pending /\ controller = r /\ run[r].epoch <= epoch /\ run[r].snap \in Snapshots

(* As long as nothing was invalidated, the run's snapshot is what the user  *)
(* sees, and its editor is the one whose events invalidate.                 *)
Tracked ==
  /\ \A r \in Runs : run[r].at # "none" /\ run[r].epoch = epoch =>
        isCurrent(run[r].snap) /\ trackedEditor = run[r].snap.editor
  /\ candidate # None => trackedEditor = candidate.snap.editor

(* A run that goes on holds a token, the stored one unless another window   *)
(* changed it meanwhile.                                                    *)
Tokened ==
  /\ \A r \in Runs : run[r].at \in Requesting => run[r].token # None
  /\ \A r \in Runs : run[r].at # "none" /\ run[r].epoch = epoch /\ run[r].token # None
        /\ ~foreign => run[r].token = stored
  /\ candidate # None /\ ~foreign => candidate.token = stored

(* While a pairing change is under way nothing that used the old token is   *)
(* left, and only one change is.                                            *)
PairingAlone ==
  /\ \A s \in Setters : setter[s].at \in {"storing", "stored"} => pairingBusy
  /\ \A s, t \in Setters :
        setter[s].at \in {"storing", "stored"} /\ setter[t].at \in {"storing", "stored"} => s = t
  /\ pairingBusy => /\ candidate = None
                     /\ \A r \in Runs : run[r].at # "none" => run[r].epoch # epoch

(* The inductive invariant. *)
EditorIInv == /\ EditorTypeOK /\ RunTypeOK /\ OneRun /\ Tracked /\ Tokened /\ PairingAlone
              /\ CandidateFresh /\ DiscardDisconnects

(* The invariant holds initially. *)
LEMMA EditorInitIInv == EditorInit => EditorIInv
<1> SUFFICES ASSUME EditorInit PROVE EditorIInv
  OBVIOUS
<1> USE EditorAssumption DEF EditorInit, NoRun
<1>1. EditorTypeOK
  BY DEF EditorTypeOK, Cursors
<1>2. RunTypeOK
  BY DEF RunTypeOK, Runnings
<1>3. OneRun /\ Tracked /\ Tokened /\ PairingAlone /\ CandidateFresh /\ DiscardDisconnects
  BY DEF OneRun, Tracked, Tokened, PairingAlone, CandidateFresh, DiscardDisconnects,
    Requesting
<1>4. QED
  BY <1>1, <1>2, <1>3 DEF EditorIInv

(* What an invalidation leaves: no candidate, and no run that is current.   *)
LEMMA InvalidateLeaves ==
  ASSUME EditorIInv, Invalidate
  PROVE  /\ run' \in [Runs -> Runnings] /\ epoch' \in Nat
         /\ candidate' = None /\ pending' = pending /\ controller' = controller
         /\ OneRun' /\ DiscardDisconnects'
         /\ \A r \in Runs : run'[r].at # "none" => run'[r].epoch # epoch'
         /\ \A r \in Runs : run'[r].at \in Requesting => run'[r].token # None
<1> USE EditorAssumption DEF EditorIInv, EditorTypeOK, RunTypeOK, Runnings, Invalidate,
        Running, Requesting
<1>1. run' \in [Runs -> Runnings] /\ epoch' \in Nat /\ epoch' = epoch + 1
  OBVIOUS
<1>2. \A r \in Runs : /\ run'[r].at = run[r].at /\ run'[r].snap = run[r].snap
                      /\ run'[r].token = run[r].token /\ run'[r].epoch = run[r].epoch
                      /\ run'[r].signal = IF controller = r THEN "aborted" ELSE run[r].signal
  OBVIOUS
<1>3. OneRun'
  BY <1>1, <1>2 DEF OneRun
<1>4. \A r \in Runs : run'[r].at # "none" => run'[r].epoch # epoch'
  BY <1>1, <1>2 DEF OneRun
<1>5. DiscardDisconnects'
  BY <1>1, <1>2 DEF OneRun, DiscardDisconnects
<1>6. \A r \in Runs : run'[r].at \in Requesting => run'[r].token # None
  BY <1>2 DEF Tokened
<1>7. QED
  BY <1>1, <1>3, <1>4, <1>5, <1>6

(* Whatever else a step does, the invariant holds after an invalidation.    *)
LEMMA InvalidateStep ==
  ASSUME EditorIInv, Invalidate, EditorTypeOK', RunTypeOK',
         \A s \in Setters : setter'[s].at \in {"storing", "stored"} => pairingBusy',
         \A s, t \in Setters : setter'[s].at \in {"storing", "stored"}
                               /\ setter'[t].at \in {"storing", "stored"} => s = t
  PROVE  EditorIInv'
<1>1. /\ candidate' = None /\ OneRun' /\ DiscardDisconnects'
      /\ \A r \in Runs : run'[r].at # "none" => run'[r].epoch # epoch'
      /\ \A r \in Runs : run'[r].at \in Requesting => run'[r].token # None
  BY InvalidateLeaves
<1>2. Tracked' /\ Tokened' /\ CandidateFresh'
  BY <1>1 DEF Tracked, Tokened, CandidateFresh
<1>3. PairingAlone'
  BY <1>1 DEF PairingAlone
<1>4. QED
  BY <1>1, <1>2, <1>3 DEF EditorIInv

(* When a run ends, none is left. *)
LEMMA EndLeaves ==
  ASSUME EditorIInv, NEW r \in Runs, run[r].at # "none", End(r)
  PROVE  /\ run' \in [Runs -> Runnings] /\ \A q \in Runs : run'[q].at = "none"
         /\ pending' = FALSE /\ controller' = None
<1> USE EditorAssumption DEF EditorIInv, RunTypeOK, Runnings, End, NoRun
<1>1. run' \in [Runs -> Runnings]
  OBVIOUS
<1>2. \A q \in Runs : q # r => run[q].at = "none"
  BY DEF OneRun
<1>3. QED
  BY <1>1, <1>2

(* A run that ends without a suggestion keeps the invariant. *)
LEMMA EndStep ==
  ASSUME EditorIInv, NEW r \in Runs, run[r].at # "none", End(r),
         UNCHANGED <<editing, epoch, candidate>>, Outside
  PROVE  EditorIInv'
<1>1. /\ run' \in [Runs -> Runnings] /\ \A q \in Runs : run'[q].at = "none"
      /\ pending' = FALSE /\ controller' = None
  BY EndLeaves
<1> USE DEF EditorIInv, editing, Outside
<1>2. EditorTypeOK'
  BY <1>1 DEF EditorTypeOK
<1>3. RunTypeOK'
  BY <1>1 DEF RunTypeOK
<1>4. OneRun' /\ DiscardDisconnects'
  BY <1>1 DEF OneRun, DiscardDisconnects, Requesting
<1>5. Tracked' /\ CandidateFresh'
  BY <1>1 DEF Tracked, CandidateFresh, isCurrent, allowed, snapshot
<1>6. Tokened' /\ PairingAlone'
  BY <1>1 DEF Tokened, PairingAlone, Requesting
<1>7. QED
  BY <1>2, <1>3, <1>4, <1>5, <1>6

(* A step of a run that only records its progress keeps the invariant. *)
LEMMA ProgressStep ==
  ASSUME EditorIInv, NEW r \in Runs, run[r].at # "none",
         NEW at \in Running, NEW token \in Tokens,
         run' \in [Runs -> Runnings],
         \A q \in Runs : /\ run'[q].snap = run[q].snap /\ run'[q].epoch = run[q].epoch
                         /\ run'[q].signal = run[q].signal
                         /\ q # r => run'[q] = run[q],
         run'[r].at = at, run'[r].token = token,
         run[r].token = token \/ (run[r].token = None /\ token = stored),
         at \in Requesting => run[r].at \in Requesting \/ run[r].epoch = epoch,
         UNCHANGED <<editing, session>>, Outside
  PROVE  EditorIInv'
<1>1. UNCHANGED <<active, version, cursor, pending, epoch, candidate, controller>>
  BY DEF editing, session
<1>2. UNCHANGED <<trackedEditor, pairingBusy, setter, stored, foreign>>
  BY DEF Outside
<1>3. \A q \in Runs : run'[q].at # "none" => run[q].at # "none"
  OBVIOUS
<1>4. EditorTypeOK'
  BY <1>1, <1>2 DEF EditorIInv, EditorTypeOK
<1>5. RunTypeOK'
  BY <1>2 DEF EditorIInv, RunTypeOK
<1>6. OneRun'
  BY <1>1, <1>3 DEF EditorIInv, OneRun
<1>7. Tracked'
  <2>1. ASSUME NEW q \in Runs, run'[q].at # "none", run'[q].epoch = epoch'
        PROVE  isCurrent(run[q].snap)' /\ trackedEditor' = run'[q].snap.editor
    <3>1. isCurrent(run[q].snap) /\ trackedEditor = run[q].snap.editor
      BY <1>1, <1>3, <2>1 DEF EditorIInv, Tracked
    <3>2. QED
      BY <1>1, <1>2, <3>1 DEF isCurrent, allowed, snapshot
  <2>2. QED
    BY <1>1, <1>2, <2>1 DEF EditorIInv, Tracked
<1>8. Tokened'
  <2>1. ASSUME NEW q \in Runs, run'[q].at \in Requesting PROVE run'[q].token # None
    <3>1. CASE q = r
      BY <3>1, EditorAssumption
    <3>2. CASE q # r
      BY <2>1, <3>2 DEF EditorIInv, Tokened
    <3>3. QED
      BY <3>1, <3>2
  <2>2. ASSUME NEW q \in Runs, run'[q].at # "none", run'[q].epoch = epoch',
               run'[q].token # None, ~foreign'
        PROVE  run'[q].token = stored'
    <3>1. run[q].at # "none" /\ run[q].epoch = epoch /\ ~foreign
      BY <1>1, <1>2, <1>3, <2>2
    <3>2. run[q].token # None => run[q].token = stored
      BY <3>1 DEF EditorIInv, Tokened
    <3>3. CASE q = r
      BY <1>2, <3>2, <3>3, EditorAssumption
    <3>4. CASE q # r
      BY <1>2, <2>2, <3>2, <3>4
    <3>5. QED
      BY <3>3, <3>4
  <2>3. QED
    BY <1>1, <1>2, <2>1, <2>2 DEF EditorIInv, Tokened
<1>9. PairingAlone'
  BY <1>1, <1>2, <1>3 DEF EditorIInv, PairingAlone
<1>10. CandidateFresh'
  BY <1>1 DEF EditorIInv, CandidateFresh, isCurrent, allowed, snapshot
<1>11. DiscardDisconnects'
  BY <1>1 DEF EditorIInv, DiscardDisconnects
<1>12. QED
  BY <1>4, <1>5, <1>6, <1>7, <1>8, <1>9, <1>10, <1>11 DEF EditorIInv

(* A step that touches neither the session nor the runs nor what the user   *)
(* sees keeps all but the parts about tokens.                               *)
LEMMA OtherStep ==
  ASSUME EditorIInv, UNCHANGED <<editing, session, run>>,
         trackedEditor' = trackedEditor
  PROVE  OneRun' /\ Tracked' /\ CandidateFresh' /\ DiscardDisconnects'
  BY DEF EditorIInv, editing, session, OneRun, Tracked, CandidateFresh,
    DiscardDisconnects,
         isCurrent, allowed, snapshot

(* Every step keeps the invariant. *)
LEMMA EditorStepIInv == EditorIInv /\ [EditorNext]_evars => EditorIInv'
<1> SUFFICES ASSUME EditorIInv, [EditorNext]_evars PROVE EditorIInv'
  OBVIOUS
<1> USE EditorAssumption
<1>t. /\ EditorTypeOK /\ RunTypeOK
      /\ \A s \in Setters : setter[s].at \in {"storing", "stored"} => pairingBusy
      /\ \A s, t \in Setters : setter[s].at \in {"storing", "stored"}
                               /\ setter[t].at \in {"storing", "stored"} => s = t
  BY DEF EditorIInv, PairingAlone
<1>1. ASSUME NEW e \in Editors, Edit(e) PROVE EditorIInv'
  <2>1. CASE e = trackedEditor
    <3>1. Invalidate
      BY <1>1, <2>1 DEF Edit
    <3>2. EditorTypeOK' /\ RunTypeOK'
      BY <1>1, <1>t, <3>1, InvalidateLeaves DEF Edit, Outside, EditorTypeOK, RunTypeOK
    <3>3. QED
      BY <1>1, <1>t, <3>1, <3>2, InvalidateStep DEF Edit, Outside
  <2>2. CASE e # trackedEditor
    <3>1. UNCHANGED <<session, run, active, cursor>> /\ Outside
          /\ version' = [version EXCEPT ![e] = @ + 1]
      BY <1>1, <2>2 DEF Edit
    <3>2. EditorTypeOK' /\ RunTypeOK'
      BY <1>t, <3>1 DEF session, Outside, EditorTypeOK, RunTypeOK
    <3>3. Tracked' /\ CandidateFresh'
      BY <1>t, <2>2, <3>1 DEF EditorIInv, EditorTypeOK, session, Outside, OneRun, Tracked,
         CandidateFresh, isCurrent, allowed, snapshot, Snapshots
    <3>4. OneRun' /\ Tokened' /\ PairingAlone' /\ DiscardDisconnects'
      BY <3>1 DEF EditorIInv, session, Outside, OneRun, Tokened, PairingAlone,
        DiscardDisconnects
    <3>5. QED
      BY <3>2, <3>3, <3>4 DEF EditorIInv
  <2>3. QED
    BY <2>1, <2>2
<1>2. ASSUME NEW e \in Editors, NEW where \in Cursors, Move(e, where) PROVE EditorIInv'
  <2>1. CASE e = trackedEditor
    <3>1. Invalidate
      BY <1>2, <2>1 DEF Move
    <3>2. EditorTypeOK' /\ RunTypeOK'
      BY <1>2, <1>t, <3>1, InvalidateLeaves DEF Move, Outside, EditorTypeOK, RunTypeOK
    <3>3. QED
      BY <1>2, <1>t, <3>1, <3>2, InvalidateStep DEF Move, Outside
  <2>2. CASE e # trackedEditor
    <3>1. UNCHANGED <<session, run, active, version>> /\ Outside
          /\ cursor' = [cursor EXCEPT ![e] = where]
      BY <1>2, <2>2 DEF Move
    <3>2. EditorTypeOK' /\ RunTypeOK'
      BY <1>t, <3>1 DEF session, Outside, EditorTypeOK, RunTypeOK
    <3>3. Tracked' /\ CandidateFresh'
      BY <1>t, <2>2, <3>1 DEF EditorIInv, EditorTypeOK, session, Outside, OneRun, Tracked,
         CandidateFresh, isCurrent, allowed, snapshot, Snapshots
    <3>4. OneRun' /\ Tokened' /\ PairingAlone' /\ DiscardDisconnects'
      BY <3>1 DEF EditorIInv, session, Outside, OneRun, Tokened, PairingAlone,
        DiscardDisconnects
    <3>5. QED
      BY <3>2, <3>3, <3>4 DEF EditorIInv
  <2>3. QED
    BY <2>1, <2>2
<1>3. ASSUME NEW e \in Editors \cup {None}, Switch(e) PROVE EditorIInv'
  <2>1. EditorTypeOK' /\ RunTypeOK'
    BY <1>3, <1>t, InvalidateLeaves DEF Switch, Outside, EditorTypeOK, RunTypeOK
  <2>2. QED
    BY <1>3, <1>t, <2>1, InvalidateStep DEF Switch, Outside
<1>4. CASE DiscardCommand
  <2>1. EditorTypeOK' /\ RunTypeOK'
    BY <1>4, <1>t, InvalidateLeaves DEF DiscardCommand, editing, Outside, EditorTypeOK,
      RunTypeOK
  <2>2. QED
    BY <1>4, <1>t, <2>1, InvalidateStep DEF DiscardCommand, Outside
<1>5. CASE SecretEvent
  <2>1. EditorTypeOK' /\ RunTypeOK'
    BY <1>5, <1>t, InvalidateLeaves DEF SecretEvent, editing, EditorTypeOK, RunTypeOK
  <2>2. QED
    BY <1>5, <1>t, <2>1, InvalidateStep DEF SecretEvent
<1>6. CASE CompleteRejected
  <2> USE DEF CompleteRejected, editing, session
  <2>1. EditorTypeOK' /\ RunTypeOK'
    BY <1>6, <1>t DEF EditorTypeOK, RunTypeOK, allowed
  <2>2. Tracked' /\ CandidateFresh'
    BY <1>6 DEF EditorIInv, OneRun, Tracked, CandidateFresh, isCurrent, allowed, snapshot
  <2>3. OneRun' /\ Tokened' /\ PairingAlone' /\ DiscardDisconnects'
    BY <1>6 DEF EditorIInv, OneRun, Tokened, PairingAlone, DiscardDisconnects
  <2>4. QED
    BY <2>1, <2>2, <2>3 DEF EditorIInv
<1>7. ASSUME NEW r \in Runs, Complete(r) PROVE EditorIInv'
  <2> USE DEF editing
  <2>1. \A q \in Runs : run[q].at = "none"
    BY <1>7 DEF Complete, EditorIInv, OneRun
  <2>2. active \in Editors /\ snapshot(active) \in Snapshots
    BY <1>7, <1>t DEF Complete, allowed, EditorTypeOK, snapshot, Snapshots
  <2>3. /\ run'[r] = [at |-> "token", snap |-> snapshot(active), token |-> None,
                      epoch |-> epoch + 1, signal |-> "live"]
        /\ \A q \in Runs : q # r => run'[q].at = "none"
    BY <1>7, <1>t, <2>1 DEF Complete, RunTypeOK, NoRun
  <2>4. EditorTypeOK'
    BY <1>7, <1>t, <2>2 DEF Complete, EditorTypeOK
  <2>5. RunTypeOK'
    <3>1. [at |-> "token", snap |-> snapshot(active), token |-> None,
           epoch |-> epoch + 1, signal |-> "live"] \in Runnings
      BY <1>t, <2>2 DEF EditorTypeOK, Runnings, Running
    <3>2. run' \in [Runs -> Runnings]
      BY <1>7, <1>t, <2>3, <3>1 DEF Complete, RunTypeOK
    <3>3. QED
      BY <1>7, <1>t, <3>2 DEF Complete, RunTypeOK
  <2>6. OneRun'
    BY <1>7, <1>t, <2>2, <2>3 DEF Complete, OneRun, EditorTypeOK
  <2>7. Tracked' /\ CandidateFresh'
    BY <1>7, <2>2, <2>3 DEF Complete, Tracked, CandidateFresh, isCurrent, allowed,
      snapshot
  <2>8. Tokened' /\ DiscardDisconnects'
    <3>1. \A q \in Runs : run'[q].at \notin Requesting /\ (run'[q].at # "none" => run'[q].token = None)
      BY <2>3 DEF Requesting
    <3>2. candidate' = None
      BY <1>7 DEF Complete
    <3>3. QED
      BY <3>1, <3>2 DEF Tokened, DiscardDisconnects
  <2>9. PairingAlone'
    BY <1>7 DEF Complete, EditorIInv, PairingAlone
  <2>10. QED
    BY <2>4, <2>5, <2>6, <2>7, <2>8, <2>9 DEF EditorIInv
<1>8. ASSUME NEW r \in Runs, TokenRead(r) PROVE EditorIInv'
  <2>1. stored \in Tokens
    BY <1>8, <1>t DEF TokenRead, EditorTypeOK
  <2>2. /\ run' \in [Runs -> Runnings]
        /\ \A q \in Runs : /\ run'[q].snap = run[q].snap /\ run'[q].epoch = run[q].epoch
                           /\ run'[q].signal = run[q].signal
                           /\ q # r => run'[q] = run[q]
    BY <1>8, <1>t, <2>1 DEF TokenRead, RunTypeOK, Runnings
  <2>3. run'[r].at = "token" /\ run'[r].token = stored
    BY <1>8, <1>t DEF TokenRead, RunTypeOK, Runnings
  <2>4. QED
    BY <1>8, <2>1, <2>2, <2>3, ProgressStep DEF TokenRead, Running, Requesting
<1>9. ASSUME NEW r \in Runs, TokenLoaded(r) PROVE EditorIInv'
  <2>1. CASE Stale(r) \/ run[r].token = None
    BY <1>9, <2>1, EndStep DEF TokenLoaded, editing
  <2>2. CASE ~(Stale(r) \/ run[r].token = None)
    <3>1. run[r].token \in Tokens /\ run[r].epoch = epoch
      BY <1>t, <2>2 DEF Stale, RunTypeOK, Runnings
    <3>2. /\ run' \in [Runs -> Runnings]
          /\ \A q \in Runs : /\ run'[q].snap = run[q].snap /\ run'[q].epoch = run[q].epoch
                             /\ run'[q].signal = run[q].signal
                             /\ q # r => run'[q] = run[q]
      BY <1>9, <1>t, <2>2 DEF TokenLoaded, RunTypeOK, Runnings, Running, Requesting
    <3>3. run'[r].at = "readiness" /\ run'[r].token = run[r].token
      BY <1>9, <1>t, <2>2 DEF TokenLoaded, RunTypeOK, Runnings
    <3>4. UNCHANGED <<editing, session>> /\ Outside
      BY <1>9, <2>2 DEF TokenLoaded
    <3>5. run[r].at # "none" /\ "readiness" \in Running
      BY <1>9 DEF TokenLoaded, Running, Requesting
    <3>6. run[r].at \in Requesting \/ run[r].epoch = epoch
      BY <3>1
    <3>7. QED
      BY <3>1, <3>2, <3>3, <3>4, <3>5, <3>6, ProgressStep
  <2>3. QED
    BY <2>1, <2>2
<1>10. ASSUME NEW r \in Runs, TokenFails(r) PROVE EditorIInv'
  BY <1>10, EndStep DEF TokenFails, editing
<1>11. ASSUME NEW r \in Runs, RequestFails(r) PROVE EditorIInv'
  BY <1>11, EndStep DEF RequestFails, editing, Requesting
<1>12. ASSUME NEW r \in Runs, ReadinessOk(r) PROVE EditorIInv'
  <2>1. CASE Stale(r)
    BY <1>12, <2>1, EndStep DEF ReadinessOk, editing
  <2>2. CASE ~Stale(r)
    <3>1. run[r].token \in Tokens
      BY <1>12, <1>t DEF ReadinessOk, EditorIInv, Tokened, RunTypeOK, Runnings, Requesting
    <3>2. /\ run' \in [Runs -> Runnings]
          /\ \A q \in Runs : /\ run'[q].snap = run[q].snap /\ run'[q].epoch = run[q].epoch
                             /\ run'[q].signal = run[q].signal
                             /\ q # r => run'[q] = run[q]
      BY <1>12, <1>t, <2>2 DEF ReadinessOk, RunTypeOK, Runnings, Running, Requesting
    <3>3. run'[r].at = "generate" /\ run'[r].token = run[r].token
      BY <1>12, <1>t, <2>2 DEF ReadinessOk, RunTypeOK, Runnings
    <3>4. UNCHANGED <<editing, session>> /\ Outside
      BY <1>12, <2>2 DEF ReadinessOk
    <3>5. run[r].at # "none" /\ "generate" \in Running
      BY <1>12 DEF ReadinessOk, Running, Requesting
    <3>6. run[r].at \in Requesting \/ run[r].epoch = epoch
      BY <1>12 DEF ReadinessOk, Requesting
    <3>7. QED
      BY <3>1, <3>2, <3>3, <3>4, <3>5, <3>6, ProgressStep
  <2>3. QED
    BY <2>1, <2>2
<1>13. ASSUME NEW r \in Runs, GenerateOk(r) PROVE EditorIInv'
  <2> USE DEF editing, Outside
  <2>1. CASE Stale(r)
    BY <1>13, <2>1, EndStep DEF GenerateOk
  <2>2. CASE ~Stale(r)
    <3>1. /\ run' \in [Runs -> Runnings] /\ \A q \in Runs : run'[q].at = "none"
          /\ pending' = FALSE /\ controller' = None
      BY <1>13, EndLeaves DEF GenerateOk
    <3>2. /\ run[r].token \in Tokens /\ run[r].snap \in Snapshots /\ run[r].epoch = epoch
          /\ isCurrent(run[r].snap) /\ trackedEditor = run[r].snap.editor
          /\ ~foreign => run[r].token = stored
          /\ ~pairingBusy
      BY <1>13, <1>t, <2>2 DEF GenerateOk, EditorIInv, OneRun, Tracked, Tokened,
        PairingAlone,
         RunTypeOK, Runnings, Stale, Requesting
    <3>3. candidate' = [snap |-> run[r].snap, token |-> run[r].token, epoch |-> run[r].epoch]
      BY <1>13, <2>2 DEF GenerateOk, Suggested
    <3>4. EditorTypeOK'
      <4>1. candidate' \in [snap : Snapshots, token : Tokens, epoch : Nat]
        BY <1>t, <3>2, <3>3 DEF EditorTypeOK
      <4>2. QED
        BY <1>13, <1>t, <3>1, <4>1 DEF GenerateOk, EditorTypeOK
    <3>5. RunTypeOK'
      BY <1>13, <1>t, <3>1 DEF GenerateOk, RunTypeOK
    <3>6. OneRun' /\ DiscardDisconnects'
      BY <3>1 DEF OneRun, DiscardDisconnects, Requesting
    <3>7. Tracked' /\ CandidateFresh'
      BY <1>13, <3>1, <3>2, <3>3 DEF GenerateOk, Tracked, CandidateFresh, isCurrent,
        allowed, snapshot
    <3>8. Tokened' /\ PairingAlone'
      BY <1>13, <1>t, <3>1, <3>2, <3>3 DEF GenerateOk, Tokened, PairingAlone, Requesting
    <3>9. QED
      BY <3>4, <3>5, <3>6, <3>7, <3>8 DEF EditorIInv
  <2>3. QED
    BY <2>1, <2>2
<1>14. ASSUME NEW s \in Setters, AskToken(s) \/ AskDismissed(s) PROVE EditorIInv'
  <2> USE DEF AskToken, AskDismissed, SetterTo, editing, session
  <2>1. EditorTypeOK' /\ RunTypeOK'
    BY <1>14, <1>t DEF EditorTypeOK, RunTypeOK
  <2>2. OneRun' /\ Tracked' /\ CandidateFresh' /\ DiscardDisconnects'
    BY <1>14, OtherStep
  <2>3. Tokened'
    BY <1>14 DEF EditorIInv, Tokened
  <2>4. PairingAlone'
    BY <1>14, <1>t DEF EditorIInv, PairingAlone, RunTypeOK
  <2>5. QED
    BY <2>1, <2>2, <2>3, <2>4 DEF EditorIInv
<1>15. ASSUME NEW s \in Setters, NEW value \in Tokens \cup {None}, BeginPairing(s, value)
       PROVE EditorIInv'
  <2> USE DEF BeginPairing, SetterTo, editing
  <2>1. EditorTypeOK' /\ RunTypeOK'
    BY <1>15, <1>t, InvalidateLeaves DEF EditorTypeOK, RunTypeOK
  <2>2. /\ \A t \in Setters : setter'[t].at \in {"storing", "stored"} => pairingBusy'
        /\ \A t, u \in Setters : setter'[t].at \in {"storing", "stored"}
                                 /\ setter'[u].at \in {"storing", "stored"} => t = u
    BY <1>15, <1>t DEF RunTypeOK
  <2>3. QED
    BY <1>15, <2>1, <2>2, InvalidateStep
<1>16. ASSUME NEW s \in Setters, SecretStored(s) PROVE EditorIInv'
  <2> USE DEF SecretStored, SetterTo, editing, session
  <2>1. EditorTypeOK' /\ RunTypeOK'
    BY <1>16, <1>t DEF EditorTypeOK, RunTypeOK
  <2>2. OneRun' /\ Tracked' /\ CandidateFresh' /\ DiscardDisconnects'
    BY <1>16, OtherStep
  <2>3. pairingBusy
    BY <1>16, <1>t
  <2>4. Tokened'
    BY <1>16, <2>3 DEF EditorIInv, Tokened, PairingAlone
  <2>5. PairingAlone'
    BY <1>16, <1>t, <2>3 DEF EditorIInv, PairingAlone, RunTypeOK
  <2>6. QED
    BY <2>1, <2>2, <2>4, <2>5 DEF EditorIInv
<1>17. ASSUME NEW s \in Setters, PairingEnds(s) PROVE EditorIInv'
  <2> USE DEF PairingEnds, SetterTo, editing, session
  <2>1. EditorTypeOK' /\ RunTypeOK'
    BY <1>17, <1>t DEF EditorTypeOK, RunTypeOK
  <2>2. OneRun' /\ Tracked' /\ CandidateFresh' /\ DiscardDisconnects'
    BY <1>17, OtherStep
  <2>3. Tokened'
    BY <1>17 DEF EditorIInv, Tokened
  <2>4. PairingAlone'
    BY <1>17, <1>t DEF PairingAlone, RunTypeOK
  <2>5. QED
    BY <2>1, <2>2, <2>3, <2>4 DEF EditorIInv
<1>18. ASSUME NEW token \in Tokens \cup {None}, ForeignChange(token) PROVE EditorIInv'
  <2> USE DEF ForeignChange, editing, session
  <2>1. EditorTypeOK' /\ RunTypeOK'
    BY <1>18, <1>t DEF EditorTypeOK, RunTypeOK
  <2>2. OneRun' /\ Tracked' /\ CandidateFresh' /\ DiscardDisconnects'
    BY <1>18, OtherStep
  <2>3. Tokened' /\ PairingAlone'
    BY <1>18 DEF EditorIInv, Tokened, PairingAlone
  <2>4. QED
    BY <2>1, <2>2, <2>3 DEF EditorIInv
<1>19. CASE UNCHANGED evars
  <2> USE DEF evars, editing, session
  <2>1. EditorTypeOK' /\ RunTypeOK'
    BY <1>19, <1>t DEF EditorTypeOK, RunTypeOK
  <2>2. OneRun' /\ Tracked' /\ CandidateFresh' /\ DiscardDisconnects'
    BY <1>19, OtherStep
  <2>3. Tokened' /\ PairingAlone'
    BY <1>19 DEF EditorIInv, Tokened, PairingAlone
  <2>4. QED
    BY <2>1, <2>2, <2>3 DEF EditorIInv
<1>20. QED
  BY <1>1, <1>2, <1>3, <1>4, <1>5, <1>6, <1>7, <1>8, <1>9, <1>10, <1>11, <1>12, <1>13,
    <1>14,
     <1>15, <1>16, <1>17, <1>18, <1>19
  DEF EditorNext, RunStep

(* The invariant holds in every reachable state. *)
LEMMA EditorInvariant == EditorSpec => []EditorIInv
  BY EditorInitIInv, EditorStepIInv, PTL DEF EditorSpec

(* The VS Code session is type correct; a candidate always names a token. *)
THEOREM EditorTyped == EditorSpec => []EditorTypeOK
<1>1. EditorIInv => EditorTypeOK
  BY DEF EditorIInv
<1>2. QED
  BY <1>1, EditorInvariant, PTL

(* However edits, moves, switches and discards fall between the awaits of   *)
(* run, the candidate is for what the user has in front of them.            *)
THEOREM EditorCandidateFresh == EditorSpec => []CandidateFresh
<1>1. EditorIInv => CandidateFresh
  BY DEF EditorIInv
<1>2. QED
  BY <1>1, EditorInvariant, PTL

(* Nothing goes on with a token that was replaced or cleared by setToken or *)
(* clearToken.                                                              *)
THEOREM EditorTokenCurrent == EditorSpec => []TokenCurrent
<1>1. EditorIInv => TokenCurrent
  <2> SUFFICES ASSUME EditorIInv, ~foreign PROVE
        /\ candidate # None => candidate.token = stored
        /\ \A r \in Runs : run[r].at \in Requesting /\ run[r].signal = "live" => run[r].token = stored
    BY DEF TokenCurrent
  <2>1. candidate # None => candidate.token = stored
    BY DEF EditorIInv, Tokened
  <2>2. ASSUME NEW r \in Runs, run[r].at \in Requesting, run[r].signal = "live"
        PROVE  run[r].token = stored
    BY <2>2 DEF EditorIInv, DiscardDisconnects, Tokened, Requesting
  <2>3. QED
    BY <2>1, <2>2
<1>2. QED
  BY <1>1, EditorInvariant, PTL

(* An invalidated run has no request of client.js open. *)
THEOREM EditorDisconnects == EditorSpec => []DiscardDisconnects
<1>1. EditorIInv => DiscardDisconnects
  BY DEF EditorIInv
<1>2. QED
  BY <1>1, EditorInvariant, PTL
=============================================================================
