---------------------------- MODULE EditorSession ----------------------------
(***************************************************************************)
(* The VS Code client: PreviewSession (extensions/vscode-lite/state.js),   *)
(* the commands and event handlers of extension.js and the request         *)
(* lifecycle of client.js.                                                 *)
(*                                                                         *)
(* The extension host is single threaded: a command, an event handler or   *)
(* the code after an await is one step.  SecretStorage is external and     *)
(* shared with other windows; its change event comes some time after the   *)
(* change.                                                                 *)
(***************************************************************************)
EXTENDS Naturals

CONSTANTS Editors, Runs, Setters, Tokens, None,
          MaxVersion,  \* bound on the edits of one document
          MaxEpoch     \* bound on the invalidations

ASSUME EditorAssumption == /\ None \notin Runs \cup Editors \cup Tokens
                           /\ MaxVersion \in Nat /\ MaxEpoch \in Nat

VARIABLES active,      \* activeTextEditor, or None
          version,     \* of each editor's document
          cursor,      \* "here", "there", or "range" for a nonempty selection
          trackedEditor, pairingBusy,           \* of the extension
          pending, epoch, candidate, controller,\* of the PreviewSession
          run,         \* each invocation of PreviewSession.run
          setter,      \* each invocation of setToken or clearToken
          stored,      \* the token in SecretStorage, or None
          foreign      \* another window changed it, and no event came yet

editing == <<active, version, cursor>>
session == <<pending, epoch, candidate, controller>>
evars == <<editing, session, trackedEditor, pairingBusy, run, setter, stored, foreign>>

Cursors == {"here", "there", "range"}
snapshot(e) == [editor |-> e, version |-> version[e], cursor |-> cursor[e]]
allowed(e) == e # None /\ cursor[e] # "range"
isCurrent(snap) == /\ active = snap.editor /\ allowed(active)
                   /\ snapshot(active) = snap

NoRun == [at |-> "none", snap |-> None, token |-> None, epoch |-> 0, signal |-> "live"]
Requesting == {"readiness", "generate"}
Running == {"token"} \cup Requesting

EditorInit ==
  /\ active \in Editors
  /\ version = [e \in Editors |-> 0]
  /\ cursor = [e \in Editors |-> "here"]
  /\ trackedEditor = None /\ pairingBusy = FALSE
  /\ pending = FALSE /\ epoch = 0 /\ candidate = None /\ controller = None
  /\ run = [r \in Runs |-> NoRun]
  /\ setter = [s \in Setters |-> [at |-> "none", value |-> None]]
  /\ stored \in Tokens \cup {None}
  /\ foreign = FALSE

-----------------------------------------------------------------------------
InvalidateQuietly ==
  /\ epoch < MaxEpoch
  /\ epoch' = epoch + 1
  /\ candidate' = None
  /\ UNCHANGED <<pending, controller, run>>

(* PreviewSession.invalidate; its abort rejects the request under way. *)
Invalidate ==
  /\ epoch < MaxEpoch
  /\ epoch' = epoch + 1
  /\ candidate' = None
  /\ run' = IF controller = None THEN run ELSE [run EXCEPT ![controller].signal = "aborted"]
  /\ UNCHANGED <<pending, controller>>

Outside == UNCHANGED <<trackedEditor, pairingBusy, setter, stored, foreign>>

(* What the user does in an editor, with the event handler it triggers: a  *)
(* change of the tracked document or of the tracked editor's selection     *)
(* invalidates, and so does every change of the active editor.             *)
Edit(e) ==
  /\ version[e] < MaxVersion
  /\ version' = [version EXCEPT ![e] = @ + 1]
  /\ IF e = trackedEditor THEN Invalidate ELSE UNCHANGED <<session, run>>
  /\ UNCHANGED <<active, cursor>> /\ Outside

Move(e, where) ==
  /\ where # cursor[e]
  /\ cursor' = [cursor EXCEPT ![e] = where]
  /\ IF e = trackedEditor THEN Invalidate ELSE UNCHANGED <<session, run>>
  /\ UNCHANGED <<active, version>> /\ Outside

Switch(e) ==
  /\ e # active
  /\ active' = e
  /\ Invalidate
  /\ UNCHANGED <<version, cursor>> /\ Outside

(* axiomLite.discard, the progress dialog's cancel, and disposal. *)
DiscardCommand == Invalidate /\ UNCHANGED editing /\ Outside

-----------------------------------------------------------------------------
(* axiomLite.complete up to the first await of run, which is loadToken().  *)
Complete(r) ==
  /\ run[r] = NoRun
  /\ allowed(active) /\ ~pairingBusy /\ ~pending
  /\ epoch < MaxEpoch
  /\ trackedEditor' = active
  /\ pending' = TRUE /\ candidate' = None
  /\ epoch' = epoch + 1
  /\ controller' = r
  /\ run' = [run EXCEPT ![r] = [NoRun EXCEPT !.at = "token", !.snap = snapshot(active),
                                             !.epoch = epoch + 1]]
  /\ UNCHANGED <<editing, pairingBusy, setter, stored, foreign>>

(* makePrompt throws: the editor is tracked, nothing was reserved. *)
CompleteRejected ==
  /\ allowed(active) /\ ~pairingBusy /\ ~pending
  /\ trackedEditor' = active
  /\ UNCHANGED <<editing, session, pairingBusy, run, setter, stored, foreign>>

(* run leaves through its finally block; r may then stand for a later run. *)
End(r) == /\ pending' = FALSE
          /\ controller' = None
          /\ run' = [run EXCEPT ![r] = NoRun]

Stale(r) == run[r].epoch # epoch \/ ~isCurrent(run[r].snap)

(* SecretStorage has read the token that loadToken will deliver. *)
TokenRead(r) ==
  /\ run[r].at = "token" /\ run[r].token = None
  /\ stored # None
  /\ run' = [run EXCEPT ![r].token = stored]
  /\ UNCHANGED <<editing, session>> /\ Outside

TokenUnchecked(r) ==
  /\ run[r].at = "token"
  /\ run[r].token = None => stored = None
  /\ IF Stale(r)
     THEN End(r) /\ UNCHANGED <<epoch, candidate>>
     ELSE run' = [run EXCEPT ![r].at = "readiness"] /\ UNCHANGED session
  /\ UNCHANGED editing /\ Outside

(* run after loadToken: a stale run returns, one without a usable token    *)
(* fails in the client, the others send GET /readiness.                    *)
TokenLoaded(r) ==
  /\ run[r].at = "token"
  /\ run[r].token = None => stored = None
  /\ IF Stale(r) \/ run[r].token = None
     THEN End(r) /\ UNCHANGED <<epoch, candidate>>
     ELSE run' = [run EXCEPT ![r].at = "readiness"] /\ UNCHANGED session
  /\ UNCHANGED editing /\ Outside

(* SecretStorage fails. *)
TokenFails(r) ==
  /\ run[r].at = "token"
  /\ End(r)
  /\ UNCHANGED <<editing, epoch, candidate>> /\ Outside

RequestHangs(r) ==
  /\ run[r].at \in Requesting /\ run[r].signal = "aborted"
  /\ End(r)
  /\ UNCHANGED <<editing, epoch, candidate>> /\ Outside

(* A request of client.js rejects, exactly once: aborted, timed out,       *)
(* refused or not acceptable.                                              *)
RequestFails(r) ==
  /\ run[r].at \in Requesting
  /\ End(r)
  /\ UNCHANGED <<editing, epoch, candidate>> /\ Outside

(* readiness resolves: only a request that was not aborted can. *)
ReadinessOk(r) ==
  /\ run[r].at = "readiness" /\ run[r].signal = "live"
  /\ IF Stale(r)
     THEN End(r) /\ UNCHANGED <<epoch, candidate>>
     ELSE run' = [run EXCEPT ![r].at = "generate"] /\ UNCHANGED session
  /\ UNCHANGED editing /\ Outside

Suggested(r) == [snap |-> run[r].snap, token |-> run[r].token, epoch |-> run[r].epoch]

GenerateAnyEpoch(r) ==
  /\ run[r].at = "generate"
  /\ End(r)
  /\ candidate' = IF isCurrent(run[r].snap) THEN Suggested(r) ELSE candidate
  /\ UNCHANGED <<editing, epoch>> /\ Outside

(* generate resolves, and the rendered text becomes the candidate.  The    *)
(* ghost fields of the candidate are not in the code.                      *)
GenerateOk(r) ==
  /\ run[r].at = "generate" /\ run[r].signal = "live"
  /\ End(r)
  /\ candidate' = IF Stale(r) THEN candidate ELSE Suggested(r)
  /\ UNCHANGED <<editing, epoch>> /\ Outside

-----------------------------------------------------------------------------
SetterTo(s, where, value) == setter' = [setter EXCEPT ![s] = [at |-> where, value |-> value]]

(* setToken up to its input box. *)
AskToken(s) ==
  /\ setter[s].at = "none"
  /\ ~pairingBusy
  /\ SetterTo(s, "asking", None)
  /\ UNCHANGED <<editing, session, run, trackedEditor, pairingBusy, stored, foreign>>

StoreFirst(s, value) ==
  /\ setter[s].at = IF value = None THEN "none" ELSE "asking"
  /\ ~pairingBusy
  /\ pairingBusy' = TRUE
  /\ SetterTo(s, "storing", value)
  /\ UNCHANGED <<editing, session, run, trackedEditor, stored, foreign>>

(* setToken after a valid answer, and clearToken (value None), up to the   *)
(* await of SecretStorage.                                                 *)
BeginPairing(s, value) ==
  /\ setter[s].at = IF value = None THEN "none" ELSE "asking"
  /\ ~pairingBusy
  /\ pairingBusy' = TRUE
  /\ Invalidate
  /\ SetterTo(s, "storing", value)
  /\ UNCHANGED <<editing, trackedEditor, stored, foreign>>

(* setToken: the box is dismissed, or the pairing is busy by now. *)
AskDismissed(s) ==
  /\ setter[s].at = "asking"
  /\ SetterTo(s, "none", None)
  /\ UNCHANGED <<editing, session, run, trackedEditor, pairingBusy, stored, foreign>>

(* SecretStorage applies the change. *)
SecretStored(s) ==
  /\ setter[s].at = "storing"
  /\ stored' = setter[s].value
  /\ SetterTo(s, "stored", setter[s].value)
  /\ UNCHANGED <<editing, session, run, trackedEditor, pairingBusy, foreign>>

(* The promise of store or delete settles; it may fail without an effect. *)
PairingEnds(s) ==
  /\ setter[s].at \in {"storing", "stored"}
  /\ pairingBusy' = FALSE
  /\ SetterTo(s, "none", None)
  /\ UNCHANGED <<editing, session, run, trackedEditor, stored, foreign>>

(* Another window changes the secret; the event follows. *)
ForeignChange(token) ==
  /\ token # stored
  /\ stored' = token
  /\ foreign' = TRUE
  /\ UNCHANGED <<editing, session, run, trackedEditor, pairingBusy, setter>>

(* secrets.onDidChange, for this window's change or another's. *)
SecretEvent ==
  /\ Invalidate
  /\ foreign' = FALSE
  /\ UNCHANGED <<editing, trackedEditor, pairingBusy, setter, stored>>

-----------------------------------------------------------------------------
RunStep(r) == \/ TokenRead(r) \/ TokenLoaded(r) \/ TokenFails(r) \/ RequestFails(r)
              \/ ReadinessOk(r) \/ GenerateOk(r)

EditorNext ==
  \/ \E e \in Editors : Edit(e) \/ (\E where \in Cursors : Move(e, where))
  \/ \E e \in Editors \cup {None} : Switch(e)
  \/ DiscardCommand \/ CompleteRejected \/ SecretEvent
  \/ \E r \in Runs : Complete(r) \/ RunStep(r)
  \/ \E s \in Setters : \/ AskToken(s) \/ AskDismissed(s) \/ SecretStored(s) \/ PairingEnds(s)
                        \/ \E value \in Tokens \cup {None} : BeginPairing(s, value)
  \/ \E token \in Tokens \cup {None} : ForeignChange(token)

EditorSpec == EditorInit /\ [][EditorNext]_evars

(* SecretStorage answers; the client's timers (2 s to connect, 95 s in      *)
(* total) end every request; the user and the other windows owe nothing.    *)
EditorFairness ==
  /\ \A r \in Runs : WF_evars(TokenRead(r) \/ TokenLoaded(r)) /\ WF_evars(RequestFails(r))
  /\ \A s \in Setters : WF_evars(PairingEnds(s))

FairEditorSpec == EditorSpec /\ EditorFairness

-----------------------------------------------------------------------------
Snapshots == [editor : Editors, version : Nat, cursor : Cursors]

(* Every variable has its type; in particular a candidate always names the *)
(* token it was generated with.                                            *)
EditorTypeOK ==
  /\ active \in Editors \cup {None}
  /\ version \in [Editors -> Nat] /\ cursor \in [Editors -> Cursors]
  /\ trackedEditor \in Editors \cup {None}
  /\ pairingBusy \in BOOLEAN /\ pending \in BOOLEAN /\ foreign \in BOOLEAN
  /\ epoch \in Nat
  /\ controller \in Runs \cup {None}
  /\ stored \in Tokens \cup {None}
  /\ candidate \in [snap : Snapshots, token : Tokens, epoch : Nat] \cup {None}

(* The suggestion that can be offered is for the text, the cursor and the   *)
(* editor the user has in front of them, and nothing happened since it was  *)
(* asked for: not even a change that was undone.                            *)
CandidateFresh ==
  candidate # None => isCurrent(candidate.snap) /\ candidate.epoch = epoch

(* Neither a suggestion nor a request that goes on rests on a pairing token *)
(* that the user replaced or cleared in this window.                        *)
TokenCurrent ==
  ~foreign =>
    /\ candidate # None => candidate.token = stored
    /\ \A r \in Runs : run[r].at \in Requesting /\ run[r].signal = "live" => run[r].token = stored

(* What was discarded is disconnected: no request of an invalidated run is  *)
(* left open, whichever order runs and invalidations came in.               *)
DiscardDisconnects ==
  \A r \in Runs : run[r].at \in Requesting /\ run[r].epoch # epoch => run[r].signal = "aborted"

(* The client never stays busy: a run ends and so does a pairing update.    *)
SessionSettles == /\ pending ~> ~pending
                  /\ pairingBusy ~> ~pairingBusy
=============================================================================
