-------------------------- MODULE LegalTransaction --------------------------
(* The governed redline of kairo/legal_v3/transaction.py: propose, approve, *)
(* execute, verify_bundle.  Executions run in processes of their own over   *)
(* one directory tree: they may crash between any two system calls, share   *)
(* the output path and the bundle directory, and the source and the         *)
(* playbook may be edited while they run.                                   *)
(*                                                                          *)
(* A digest stands for the content it is computed from; a signature made by *)
(* the holder of a key verifies.  A redline is told apart from any other by *)
(* what it was made from and by the execution that made it (its revisions   *)
(* are stamped with the time).                                              *)
EXTENDS Naturals, FiniteSets

CONSTANTS
  Sources,   \* contents of the source document
  Books,     \* contents of the playbook
  Allowed,   \* the playbooks inside the mutual-NDA operation set
  Proposals,
  Runs,      \* calls of execute
  Dirs,      \* bundle directories
  MaxEdits   \* bound on the edits of source and playbook

ASSUME LegalAssumption == Allowed \subseteq Books /\ MaxEdits \in Nat

VARIABLES
  source, playbook, \* the files, edited by their owners
  output,           \* the file at the output path
  proposal,         \* per proposal: what it names, once it is signed
  approved,         \* the proposals with a signed approval
  expired,          \* the proposals whose approval is past its expiry
  pc,               \* per execution
  job,              \* per execution: its proposal, its bundle directory and
                    \* the digests it took of source and playbook
  tmp,              \* per execution: the temporary document
  sha,              \* per execution: the digest of the output it read back
  bundle,           \* per directory: its four files
  disturbed,        \* history: executions whose inputs or output somebody
                    \* else changed while they used them
  overrun,          \* history: executions whose directory another wrote to
  edits             \* edits so far

vars == <<source, playbook, output, proposal, approved, expired, pc, job, tmp,
          sha, bundle, disturbed, overrun, edits>>
files == <<source, playbook, output, edits>>
grants == <<proposal, approved, expired>>

Absent == [is |-> "absent"]
Partial == [is |-> "partial"]
Source(s) == [is |-> "source", of |-> s]
Book(b) == [is |-> "playbook", of |-> b]
Redline(s, b, r) == [is |-> "redline", source |-> s, playbook |-> b, run |-> r]
Job(p, d) ==
  [is |-> "job", proposal |-> p, dir |-> d, source |-> source, playbook |-> playbook]
Manifest(r, j, out) ==
  [is |-> "manifest", run |-> r, proposal |-> j.proposal,
   source |-> j.source, playbook |-> j.playbook, output |-> out]

Parts == {"source", "playbook", "output", "manifest"}

Init ==
  /\ source \in Sources /\ playbook \in Books
  /\ output = Absent
  /\ proposal = [p \in Proposals |-> Absent]
  /\ approved = {} /\ expired = {}
  /\ pc = [r \in Runs |-> "idle"]
  /\ job = [r \in Runs |-> Absent]
  /\ tmp = [r \in Runs |-> Absent]
  /\ sha = [r \in Runs |-> Absent]
  /\ bundle = [d \in Dirs |-> [f \in Parts |-> Absent]]
  /\ disturbed = {} /\ overrun = {} /\ edits = 0

Goto(r, at) == pc' = [pc EXCEPT ![r] = at]

-----------------------------------------------------------------------------
(* The documents, the proposal and its approval.                            *)

UsesInputs == {"redline", "oracle", "replace", "readback", "source",
               "source...", "playbook", "playbook..."}
UsesOutput == {"readback", "source", "source...", "playbook", "playbook...",
               "output", "output..."}

Edit ==
  /\ edits < MaxEdits
  /\ edits' = edits + 1
  /\ source' \in Sources /\ playbook' \in Books
  /\ disturbed' = disturbed \cup {r \in Runs : pc[r] \in UsesInputs}
  /\ UNCHANGED <<output, grants, pc, job, tmp, sha, bundle, overrun>>

(* The playbook must stay inside the mutual-NDA operation set.              *)
_allowed_playbook == playbook \in Allowed

propose(p) ==
  /\ proposal[p] = Absent
  /\ _allowed_playbook
  /\ proposal' = [proposal EXCEPT ![p] =
       [is |-> "proposal", source |-> source, playbook |-> playbook]]
  /\ UNCHANGED <<files, approved, expired, pc, job, tmp, sha, bundle, disturbed, overrun>>

approve(p) ==
  /\ proposal[p] # Absent
  /\ p \notin approved
  /\ approved' = approved \cup {p}
  /\ UNCHANGED <<files, proposal, expired, pc, job, tmp, sha, bundle, disturbed, overrun>>

Expire(p) ==
  /\ p \in approved \ expired
  /\ expired' = expired \cup {p}
  /\ UNCHANGED <<files, proposal, approved, pc, job, tmp, sha, bundle, disturbed, overrun>>

-----------------------------------------------------------------------------
(* execute, one action per system call that others can see.                 *)

(* An approval of q answers for proposal p only when both name the same     *)
(* intent, and until it expires; it is not used up.                         *)
_verify_approval(p, q) == p = q /\ q \in approved \ expired

(* The digests of source and playbook, then the approval; refused also when *)
(* the observer is not independent, a path escapes or a file is unreadable. *)
BeginUnchecked(r, p, q, d) ==
  /\ pc[r] = "idle"
  /\ proposal[p] # Absent /\ q \in approved
  /\ _verify_approval(p, q)
  /\ Goto(r, "redline")
  /\ job' = [job EXCEPT ![r] = Job(p, d)]
  /\ UNCHANGED <<files, grants, tmp, sha, bundle, disturbed, overrun>>

Begin(r, p, q, d) ==
  /\ pc[r] = "idle"
  /\ proposal[p] # Absent /\ q \in approved
  /\ \/ /\ source = proposal[p].source /\ playbook = proposal[p].playbook
        /\ _verify_approval(p, q)
        /\ Goto(r, "redline")
        /\ job' = [job EXCEPT ![r] = Job(p, d)]
     \/ Goto(r, "refused") /\ UNCHANGED job
  /\ UNCHANGED <<files, grants, tmp, sha, bundle, disturbed, overrun>>

(* Opens both paths again and writes the temporary file; a redline that     *)
(* fails leaves none.                                                       *)
redline_contract(r) ==
  /\ pc[r] = "redline"
  /\ \/ Goto(r, "refused") /\ UNCHANGED tmp
     \/ Goto(r, "oracle") /\ tmp' = [tmp EXCEPT ![r] = Redline(source, playbook, r)]
  /\ UNCHANGED <<files, grants, job, sha, bundle, disturbed, overrun>>

(* The oracle compares the revisions of the temporary file with the edits;  *)
(* a document it rejects stays behind.                                      *)
verify_docx_tracked_changes(r) ==
  /\ pc[r] = "oracle"
  /\ Goto(r, "replace") \/ Goto(r, "refused")
  /\ UNCHANGED <<files, grants, job, tmp, sha, bundle, disturbed, overrun>>

(* os.replace; whoever has still to read or copy the output is affected.    *)
CopyToOutput(r) ==
  /\ pc[r] = "replace"
  /\ output' = IF output = Partial THEN tmp[r] ELSE Partial
  /\ IF output = Partial THEN Goto(r, "readback") ELSE UNCHANGED pc
  /\ UNCHANGED <<source, playbook, edits, grants, job, tmp, sha, bundle, disturbed, overrun>>

Replace(r) ==
  /\ pc[r] = "replace"
  /\ output' = tmp[r]
  /\ tmp' = [tmp EXCEPT ![r] = Absent]
  /\ disturbed' = disturbed \cup {o \in Runs \ {r} : pc[o] \in UsesOutput}
  /\ Goto(r, "readback")
  /\ UNCHANGED <<source, playbook, edits, grants, job, sha, bundle, overrun>>

Readback(r) ==
  /\ pc[r] = "readback"
  /\ sha' = [sha EXCEPT ![r] = output]
  /\ Goto(r, "source")
  /\ UNCHANGED <<files, grants, job, tmp, bundle, disturbed, overrun>>

(* The bundle's files, one after the other; each is truncated first.  The   *)
(* manifest holds the eight chained events over the digests of this run.    *)
Writing == {"source", "playbook", "output", "manifest"}

Started(f) ==
  CASE f = "source" -> "source..." [] f = "playbook" -> "playbook..."
    [] f = "output" -> "output..." [] f = "manifest" -> "manifest..."

After(f) ==
  CASE f = "source" -> "playbook" [] f = "playbook" -> "output"
    [] f = "output" -> "manifest" [] f = "manifest" -> "returned"

Content(r, f) ==
  CASE f = "source" -> Source(source)
    [] f = "playbook" -> Book(playbook)
    [] f = "output" -> output
    [] f = "manifest" -> Manifest(r, job[r], sha[r])

Write(r, f, content) ==
  /\ bundle' = [bundle EXCEPT ![job[r].dir][f] = content]
  /\ overrun' = overrun \cup
       {o \in Runs \ {r} : job[o] # Absent /\ job[o].dir = job[r].dir}
  /\ UNCHANGED <<files, grants, job, tmp, sha, disturbed>>

TruncateIfAbsent(r, f) ==
  /\ pc[r] = f
  /\ IF bundle[job[r].dir][f] = Absent \/ f = "manifest"
       THEN Goto(r, Started(f)) /\ Write(r, f, Partial)
       ELSE /\ Goto(r, After(f))
            /\ UNCHANGED <<files, grants, job, tmp, sha, bundle, disturbed, overrun>>

Truncate(r, f) ==
  /\ pc[r] = f
  /\ Goto(r, Started(f))
  /\ Write(r, f, Partial)

Fill(r, f) ==
  /\ pc[r] = Started(f)
  /\ Goto(r, After(f))
  /\ Write(r, f, Content(r, f))

(* The process dies with what it remembered; no file is undone.             *)
Crash(r) ==
  /\ pc[r] \notin {"idle", "refused", "crashed", "returned"}
  /\ Goto(r, "crashed")
  /\ sha' = [sha EXCEPT ![r] = Absent]
  /\ UNCHANGED <<files, grants, job, tmp, bundle, disturbed, overrun>>

ExecuteStep(r) ==
  \/ \E p, q \in Proposals, d \in Dirs : Begin(r, p, q, d)
  \/ redline_contract(r) \/ verify_docx_tracked_changes(r)
  \/ Replace(r) \/ Readback(r)
  \/ \E f \in Writing : Truncate(r, f) \/ Fill(r, f)
  \/ Crash(r)

Next ==
  \/ Edit
  \/ \E p \in Proposals : propose(p) \/ approve(p) \/ Expire(p)
  \/ \E r \in Runs : ExecuteStep(r)

Spec == Init /\ [][Next]_vars

-----------------------------------------------------------------------------
(* verify_bundle: the manifest can be read, and each file has the digest    *)
(* that its last event records.                                             *)
verify_bundle(d) ==
  LET m == bundle[d]["manifest"] IN
    /\ m.is = "manifest"
    /\ bundle[d]["source"] = Source(m.source)
    /\ bundle[d]["playbook"] = Book(m.playbook)
    /\ bundle[d]["output"] = m.output

(* What proposal p says execution r should produce.                         *)
Intended(p, r) == Redline(proposal[p].source, proposal[p].playbook, r)

(* The output is whole or absent, through any crash                         *)
(* (test_legal_v3_crash_during_publish.py, point 2), and whoever made it    *)
(* held an approval; from the approved documents, unless they were edited   *)
(* under the execution's hands.                                             *)
OutputGoverned ==
  output # Absent =>
    /\ output.is = "redline"
    /\ job[output.run].proposal \in approved
    /\ output.run \notin disturbed => output = Intended(job[output.run].proposal, output.run)

(* A bundle that verifies, whatever crashed or ran into its directory, has  *)
(* the approved source and playbook, inside the operation set; its output   *)
(* is the redline that was approved unless the execution was disturbed.     *)
EvidenceSound ==
  \A d \in Dirs :
    verify_bundle(d) =>
      LET m == bundle[d]["manifest"]
          p == m.proposal IN
        /\ p \in approved
        /\ bundle[d]["source"] = Source(proposal[p].source)
        /\ bundle[d]["playbook"] = Book(proposal[p].playbook)
        /\ proposal[p].playbook \in Allowed
        /\ m.run \notin disturbed => bundle[d]["output"] = Intended(p, m.run)

(* An execution that returns, undisturbed, leaves a bundle that verifies,   *)
(* also in a directory where crashed executions left theirs (point 3 of the *)
(* same test: re-running after a crash produces a valid bundle).            *)
RerunValid ==
  \A r \in Runs :
    pc[r] = "returned" /\ r \notin disturbed \cup overrun =>
      /\ verify_bundle(job[r].dir)
      /\ bundle[job[r].dir]["manifest"].run = r
=============================================================================
