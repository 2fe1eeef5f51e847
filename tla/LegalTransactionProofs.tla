----------------------- MODULE LegalTransactionProofs -----------------------
(* Proofs about LegalTransaction, for any documents, playbooks, proposals,  *)
(* executions and bundle directories.                                       *)
EXTENDS LegalTransaction, TLAPS

Working ==
  {"redline", "oracle", "replace", "readback", "source", "source...", "playbook",
   "playbook...", "output", "output...", "manifest", "manifest..."}
Positions == {"idle", "refused", "crashed", "returned"} \cup Working

(* Where an execution has a part of the bundle, or the digest, behind it.   *)
PastManifest == {"returned"}
PastOutput == {"manifest", "manifest..."} \cup PastManifest
PastPlaybook == {"output", "output..."} \cup PastOutput
PastSource == {"playbook", "playbook..."} \cup PastPlaybook
PastReadback == {"source", "source..."} \cup PastSource

LegalTyped ==
  /\ pc \in [Runs -> Positions]
  /\ approved \subseteq Proposals
  /\ proposal = [p \in Proposals |-> proposal[p]]
  /\ job = [r \in Runs |-> job[r]]
  /\ tmp = [r \in Runs |-> tmp[r]]
  /\ sha = [r \in Runs |-> sha[r]]
  /\ bundle = [d \in Dirs |-> [f \in Parts |-> bundle[d][f]]]

(* Only what stays inside the operation set is proposed, and only what was  *)
(* proposed is approved.                                                    *)
Granted(p) == proposal[p].is = "proposal" /\ proposal[p].playbook \in Allowed

GrantInv ==
  /\ \A p \in Proposals : proposal[p] = Absent \/ Granted(p)
  /\ \A p \in approved : Granted(p)

(* An execution under way works for an approved proposal, on the documents  *)
(* that proposal names.                                                     *)
HasJob(r) ==
  /\ job[r].is = "job" /\ job[r].dir \in Dirs /\ job[r].proposal \in approved
  /\ job[r].source = proposal[job[r].proposal].source
  /\ job[r].playbook = proposal[job[r].proposal].playbook

JobInv ==
  \A r \in Runs :
    /\ pc[r] \in Working \cup {"returned"} => HasJob(r)
    /\ job[r] = Absent \/ HasJob(r)
    /\ pc[r] = "idle" => job[r] = Absent

(* What execution r should make of its inputs.                              *)
Ours(r) == Redline(job[r].source, job[r].playbook, r)

(* Unless it was disturbed, an execution still finds the inputs it took the *)
(* digests of, and has made of them what it should.                         *)
InputsInv ==
  \A r \in Runs :
    pc[r] \in UsesInputs /\ r \notin disturbed =>
      source = job[r].source /\ playbook = job[r].playbook

TmpInv ==
  \A r \in Runs :
    pc[r] \in {"oracle", "replace"} =>
      /\ tmp[r].is = "redline" /\ tmp[r].run = r
      /\ r \notin disturbed => tmp[r] = Ours(r)

(* Whatever is at the output path was put there, whole, by an execution;    *)
(* one that was not disturbed still finds its own, and read back its own.   *)
OutputInv ==
  /\ output # Absent =>
       /\ output.is = "redline" /\ output.run \in Runs /\ HasJob(output.run)
       /\ output.run \notin disturbed => output = Ours(output.run)
  /\ \A r \in Runs :
       pc[r] \in UsesOutput /\ r \notin disturbed => output = Ours(r)
  /\ \A r \in Runs :
       pc[r] \in PastReadback /\ r \notin disturbed => sha[r] = Ours(r)

(* Every whole manifest speaks of an execution of an approved proposal.     *)
Truthful(m) ==
  /\ m.proposal \in approved
  /\ m.source = proposal[m.proposal].source
  /\ m.playbook = proposal[m.proposal].playbook
  /\ m.run \notin disturbed => m.output = Redline(m.source, m.playbook, m.run)

ManifestInv ==
  \A d \in Dirs :
    bundle[d]["manifest"].is = "manifest" => Truthful(bundle[d]["manifest"])

(* An execution nobody interfered with finds in its directory what it wrote. *)
BundleOf(r) ==
  LET b == bundle[job[r].dir] IN
    /\ pc[r] \in PastSource => b["source"] = Source(job[r].source)
    /\ pc[r] \in PastPlaybook => b["playbook"] = Book(job[r].playbook)
    /\ pc[r] \in PastOutput => b["output"] = sha[r]
    /\ pc[r] \in PastManifest => b["manifest"] = Manifest(r, job[r], sha[r])

BundleInv == \A r \in Runs \ (disturbed \cup overrun) : BundleOf(r)

LegalInv ==
  /\ LegalTyped /\ GrantInv /\ JobInv /\ InputsInv /\ TmpInv /\ OutputInv
  /\ ManifestInv /\ BundleInv

-----------------------------------------------------------------------------
(* Steps.                                                                    *)

(* The kinds of file and record are told apart.                              *)
LEMMA Kinds ==
  /\ Absent.is = "absent" /\ Partial.is = "partial"
  /\ \A s, b, r : Redline(s, b, r).is = "redline" /\ Redline(s, b, r).run = r
  BY DEF Absent, Partial, Redline

(* At first nothing was proposed and nothing written.                       *)
LEMMA LegalStart == Init => LegalInv
  <1> SUFFICES ASSUME Init
               PROVE  LegalInv
    OBVIOUS
  <1> USE Kinds DEF Init
  <1>1. LegalTyped
    BY DEF LegalTyped, Positions, Working
  <1>2. GrantInv /\ JobInv
    BY DEF GrantInv, JobInv, Working
  <1>3. InputsInv /\ TmpInv /\ OutputInv
    BY DEF InputsInv, TmpInv, OutputInv, UsesInputs, UsesOutput, PastReadback,
      PastSource, PastPlaybook, PastOutput, PastManifest
  <1>4. ManifestInv /\ BundleInv
    BY DEF ManifestInv, BundleInv, BundleOf, Parts, PastSource, PastPlaybook, PastOutput,
      PastManifest
  <1> QED
    BY <1>1, <1>2, <1>3, <1>4 DEF LegalInv

(* A write changes one file of the bundle.                                  *)
Wrote(r, f, c) ==
  /\ bundle' = [d \in Dirs |-> [g \in Parts |-> bundle'[d][g]]]
  /\ \A d \in Dirs, g \in Parts :
       bundle'[d][g] = IF d = job[r].dir /\ g = f THEN c ELSE bundle[d][g]

LEMMA WriteOne ==
  ASSUME LegalInv, NEW r, NEW f \in Writing, NEW c, Write(r, f, c)
  PROVE  Wrote(r, f, c)
  <1> f \in Parts
    BY DEF Writing, Parts
  <1> DEFINE w(d) == [bundle[d] EXCEPT ![f] = c]
  <1>1. bundle' = [bundle EXCEPT ![job[r].dir] = w(job[r].dir)]
    BY DEF Write
  <1>2. bundle = [d \in Dirs |-> [g \in Parts |-> bundle[d][g]]]
    BY DEF LegalInv, LegalTyped
  <1>3. \A d \in Dirs : bundle[d] = [g \in Parts |-> bundle[d][g]]
    BY <1>2
  <1>4. \A d \in Dirs : w(d) = [g \in Parts |-> IF g = f THEN c ELSE bundle[d][g]]
    BY <1>3
  <1> HIDE DEF w
  <1>5. bundle' = [d \in Dirs |-> IF d = job[r].dir THEN w(d) ELSE bundle[d]]
    BY <1>1, <1>2
  <1>6. \A d \in Dirs : bundle'[d] = [g \in Parts |-> bundle'[d][g]]
    BY <1>3, <1>4, <1>5
  <1>7. \A d \in Dirs, g \in Parts :
          bundle'[d][g] = IF d = job[r].dir /\ g = f THEN c ELSE bundle[d][g]
    BY <1>3, <1>4, <1>5
  <1>8. bundle' = [d \in Dirs |-> bundle'[d]]
    BY <1>5
  <1> QED
    BY <1>6, <1>7, <1>8 DEF Wrote

(* The order in which the files of the bundle are written.                  *)
LEMMA Order ==
  /\ Started("source") = "source..." /\ After("source") = "playbook"
  /\ Started("playbook") = "playbook..." /\ After("playbook") = "output"
  /\ Started("output") = "output..." /\ After("output") = "manifest"
  /\ Started("manifest") = "manifest..." /\ After("manifest") = "returned"
  BY DEF Started, After

(* A step that only concerns proposals, or none at all.                     *)
Quiet == UNCHANGED <<files, pc, job, tmp, sha, bundle, disturbed, overrun>>

(* The other steps, one by one.                                             *)
LEMMA Cases ==
  ASSUME [Next]_vars
  PROVE  \/ Quiet
         \/ Edit
         \/ \E r \in Runs, p, q \in Proposals, d \in Dirs : Begin(r, p, q, d)
         \/ \E r \in Runs : redline_contract(r)
         \/ \E r \in Runs : verify_docx_tracked_changes(r)
         \/ \E r \in Runs : Replace(r)
         \/ \E r \in Runs : Readback(r)
         \/ \E r \in Runs, f \in Writing : Truncate(r, f)
         \/ \E r \in Runs, f \in Writing : Fill(r, f)
         \/ \E r \in Runs : Crash(r)
  <1>1. ASSUME NEW p \in Proposals, propose(p) \/ approve(p) \/ Expire(p)
        PROVE  Quiet
    BY <1>1 DEF propose, approve, Expire, Quiet
  <1>2. UNCHANGED vars => Quiet
    BY DEF vars, Quiet, files
  <1> QED
    BY <1>1, <1>2 DEF Next, ExecuteStep

(* Only propose and approve change what is granted.                         *)
LEMMA Granting ==
  ASSUME [Next]_vars
  PROVE  \/ UNCHANGED <<proposal, approved>>
         \/ \E p \in Proposals : propose(p) \/ approve(p)
  <1>1. ASSUME NEW r \in Runs, ExecuteStep(r)
        PROVE  UNCHANGED <<proposal, approved>>
    BY <1>1 DEF ExecuteStep, Begin, redline_contract, verify_docx_tracked_changes,
      Replace, Readback, Truncate, Fill, Write, Crash, grants
  <1>2. ASSUME Edit \/ UNCHANGED vars \/ \E p \in Proposals : Expire(p)
        PROVE  UNCHANGED <<proposal, approved>>
    BY <1>2 DEF Edit, Expire, vars, grants
  <1> QED
    BY <1>1, <1>2 DEF Next

(* Every step keeps the types.                                              *)
LEMMA LegalTypedStep ==
  ASSUME LegalInv, [Next]_vars
  PROVE  LegalTyped'
  <1>1. ASSUME NEW p \in Proposals, propose(p)
        PROVE  LegalTyped'
    BY <1>1 DEF propose, _allowed_playbook, files, grants, Goto, LegalInv, LegalTyped,
      Positions, Working
  <1>2. ASSUME NEW p \in Proposals, approve(p)
        PROVE  LegalTyped'
    BY <1>2 DEF approve, files, grants, Goto, LegalInv, LegalTyped, Positions, Working
  <1>3. ASSUME NEW p \in Proposals, Expire(p)
        PROVE  LegalTyped'
    BY <1>3 DEF Expire, files, grants, Goto, LegalInv, LegalTyped, Positions, Working
  <1>4. ASSUME UNCHANGED vars
        PROVE  LegalTyped'
    BY <1>4 DEF vars, files, grants, LegalInv, LegalTyped, Positions, Working
  <1>5. ASSUME Edit
        PROVE  LegalTyped'
    BY <1>5 DEF Edit, files, grants, Goto, LegalInv, LegalTyped, Positions, Working
  <1>6. ASSUME NEW r \in Runs, NEW p \in Proposals, NEW q \in Proposals, NEW d \in Dirs,
               Begin(r, p, q, d)
        PROVE  LegalTyped'
    BY <1>6 DEF Begin, _verify_approval, Job, files, grants, Goto, LegalInv, LegalTyped,
      Positions, Working
  <1>7. ASSUME NEW r \in Runs, redline_contract(r)
        PROVE  LegalTyped'
    BY <1>7 DEF redline_contract, files, grants, Goto, LegalInv, LegalTyped, Positions,
      Working
  <1>8. ASSUME NEW r \in Runs, verify_docx_tracked_changes(r)
        PROVE  LegalTyped'
    BY <1>8 DEF verify_docx_tracked_changes, files, grants, Goto, LegalInv, LegalTyped,
      Positions, Working
  <1>9. ASSUME NEW r \in Runs, Replace(r)
        PROVE  LegalTyped'
    BY <1>9 DEF Replace, files, grants, Goto, LegalInv, LegalTyped, Positions, Working
  <1>10. ASSUME NEW r \in Runs, Readback(r)
        PROVE  LegalTyped'
    BY <1>10 DEF Readback, files, grants, Goto, LegalInv, LegalTyped, Positions, Working
  <1>11. ASSUME NEW r \in Runs, NEW f \in Writing, Truncate(r, f)
        PROVE  LegalTyped'
    <2>1. Write(r, f, Partial)
      BY <1>11 DEF Truncate
    <2>2. (bundle = [d \in Dirs |-> [g \in Parts |-> bundle[d][g]]])'
      BY <2>1, WriteOne DEF Wrote
    <2>3. pc' \in [Runs -> Positions]
      BY <1>11, Order DEF Truncate, Writing, Goto, LegalInv, LegalTyped, Positions,
        Working
    <2> QED
      BY <2>1, <2>2, <2>3 DEF Write, grants, LegalInv, LegalTyped
  <1>12. ASSUME NEW r \in Runs, NEW f \in Writing, Fill(r, f)
        PROVE  LegalTyped'
    <2>1. Write(r, f, Content(r, f))
      BY <1>12 DEF Fill
    <2>2. (bundle = [d \in Dirs |-> [g \in Parts |-> bundle[d][g]]])'
      BY <2>1, WriteOne DEF Wrote
    <2>3. pc' \in [Runs -> Positions]
      BY <1>12, Order DEF Fill, Writing, Goto, LegalInv, LegalTyped, Positions, Working
    <2> QED
      BY <2>1, <2>2, <2>3 DEF Write, grants, LegalInv, LegalTyped
  <1>13. ASSUME NEW r \in Runs, Crash(r)
        PROVE  LegalTyped'
    BY <1>13 DEF Crash, files, grants, Goto, LegalInv, LegalTyped, Positions, Working
  <1> QED
    BY <1>1, <1>2, <1>3, <1>4, <1>5, <1>6, <1>7, <1>8, <1>9, <1>10, <1>11, <1>12, <1>13
      DEF Next, ExecuteStep

(* Every step keeps to the operation set.                                   *)
LEMMA GrantStep ==
  ASSUME LegalInv, [Next]_vars
  PROVE  GrantInv'
  <1>1. CASE UNCHANGED <<proposal, approved>>
    BY <1>1 DEF LegalInv, GrantInv, Granted
  <1>2. ASSUME NEW p \in Proposals, propose(p)
        PROVE  GrantInv'
    BY <1>2, Kinds DEF propose, _allowed_playbook, LegalInv, LegalTyped, GrantInv,
      Granted
  <1>3. ASSUME NEW p \in Proposals, approve(p)
        PROVE  GrantInv'
    BY <1>3, Kinds DEF approve, LegalInv, LegalTyped, GrantInv, Granted
  <1> QED
    BY <1>1, <1>2, <1>3, Granting

(* An approval, its proposal and what went wrong are never taken back.      *)
LEMMA Kept ==
  ASSUME LegalInv, [Next]_vars
  PROVE  /\ approved \subseteq approved' /\ disturbed \subseteq disturbed'
         /\ overrun \subseteq overrun'
         /\ \A o \in approved : proposal'[o] = proposal[o]
  <1>1. CASE UNCHANGED <<proposal, approved>>
    BY <1>1 DEF Next, ExecuteStep, Edit, propose, approve, Expire, Begin,
      redline_contract, verify_docx_tracked_changes, Replace, Readback, Truncate, Fill,
      Write, Crash, vars
  <1>2. ASSUME NEW p \in Proposals, propose(p)
        PROVE  /\ UNCHANGED <<approved, disturbed, overrun>>
               /\ \A o \in approved : proposal'[o] = proposal[o]
    <2>1. p \notin approved
      BY <1>2, Kinds DEF propose, LegalInv, GrantInv, Granted
    <2> QED
      BY <1>2, <2>1 DEF propose, LegalInv, LegalTyped
  <1>3. ASSUME NEW p \in Proposals, approve(p)
        PROVE  UNCHANGED <<proposal, disturbed, overrun>> /\ approved \subseteq approved'
    BY <1>3 DEF approve
  <1> QED
    BY <1>1, <1>2, <1>3, Granting

(* An execution keeps its job: only an idle one, which has none, gets one.   *)
LEMMA JobKept ==
  ASSUME LegalInv, [Next]_vars, NEW o \in Runs, HasJob(o)
  PROVE  HasJob(o)' /\ job'[o] = job[o]
  <1>1. job'[o] = job[o]
    <2>1. CASE UNCHANGED job
      BY <2>1
    <2>2. ASSUME NEW r \in Runs, NEW p \in Proposals, NEW q \in Proposals, NEW d \in Dirs,
                 Begin(r, p, q, d)
          PROVE  job'[o] = job[o]
      <3>1. o # r
        BY <2>2, Kinds DEF Begin, LegalInv, JobInv, HasJob
      <3> QED
        BY <2>2, <3>1 DEF Begin, LegalInv, LegalTyped
    <2> QED
      BY <2>1, <2>2, Cases DEF Quiet, Edit, redline_contract, verify_docx_tracked_changes,
        Replace, Readback, Truncate, Fill, Write, Crash
  <1> QED
    BY <1>1, Kept DEF HasJob

(* What beginning an execution does.                                        *)
LEMMA BeginDoes ==
  ASSUME LegalInv, NEW r \in Runs, NEW p \in Proposals, NEW q \in Proposals,
         NEW d \in Dirs, Begin(r, p, q, d)
  PROVE  /\ UNCHANGED <<output, disturbed, overrun, sha, bundle, proposal, approved>>
         /\ \A o \in Runs \ {r} : pc'[o] = pc[o] /\ job'[o] = job[o]
         /\ \/ pc'[r] = "redline" /\ job'[r] = Job(p, d)
            \/ pc'[r] = "refused" /\ job'[r] = job[r]
  <1>1. UNCHANGED <<output, disturbed, overrun, sha, bundle, proposal, approved>>
    BY DEF Begin, files, grants
  <1>2. pc \in [Runs -> Positions] /\ job = [o \in Runs |-> job[o]]
    BY DEF LegalInv, LegalTyped
  <1>3. CASE Goto(r, "redline") /\ job' = [job EXCEPT ![r] = Job(p, d)]
    BY <1>1, <1>2, <1>3 DEF Goto
  <1>4. CASE Goto(r, "refused") /\ UNCHANGED job
    BY <1>1, <1>2, <1>4 DEF Goto
  <1> QED
    BY <1>3, <1>4 DEF Begin

(* Whoever is under way has a job.                                          *)
LEMMA JobStep ==
  ASSUME LegalInv, [Next]_vars
  PROVE  JobInv'
  <1>1. ASSUME Quiet
        PROVE  JobInv'
    BY <1>1, JobKept, Order DEF Quiet, files, LegalInv, JobInv
  <1>2. ASSUME Edit
        PROVE  JobInv'
    BY <1>2, JobKept, Order DEF Edit, files, grants, Goto, LegalInv, LegalTyped, JobInv,
      Working
  <1>3. ASSUME NEW r \in Runs, NEW p \in Proposals, NEW q \in Proposals, NEW d \in Dirs,
               Begin(r, p, q, d)
        PROVE  JobInv'
    <2>1. \A o \in Runs \ {r} : pc'[o] = pc[o] /\ job'[o] = job[o]
      BY <1>3, BeginDoes
    <2>2. \/ pc'[r] = "redline" /\ job'[r] = Job(p, d)
          \/ pc'[r] = "refused" /\ job'[r] = job[r]
      BY <1>3, BeginDoes
    <2>3. pc'[r] = "redline" => HasJob(r)'
      BY <1>3, Kinds DEF Begin, _verify_approval, Goto, Job, grants, HasJob, LegalInv,
        LegalTyped
    <2>4. job[r] = Absent
      BY <1>3 DEF Begin, LegalInv, JobInv
    <2> QED
      BY <2>1, <2>2, <2>3, <2>4, JobKept DEF LegalInv, JobInv, Working
  <1>4. ASSUME NEW r \in Runs, redline_contract(r)
        PROVE  JobInv'
    BY <1>4, JobKept, Order DEF redline_contract, files, grants, Goto, LegalInv,
      LegalTyped, JobInv, Working
  <1>5. ASSUME NEW r \in Runs, verify_docx_tracked_changes(r)
        PROVE  JobInv'
    BY <1>5, JobKept, Order DEF verify_docx_tracked_changes, files, grants, Goto,
      LegalInv, LegalTyped, JobInv, Working
  <1>6. ASSUME NEW r \in Runs, Replace(r)
        PROVE  JobInv'
    BY <1>6, JobKept, Order DEF Replace, files, grants, Goto, LegalInv, LegalTyped,
      JobInv, Working
  <1>7. ASSUME NEW r \in Runs, Readback(r)
        PROVE  JobInv'
    BY <1>7, JobKept, Order DEF Readback, files, grants, Goto, LegalInv, LegalTyped,
      JobInv, Working
  <1>8. ASSUME NEW r \in Runs, NEW f \in Writing, Truncate(r, f)
        PROVE  JobInv'
    BY <1>8, JobKept, Order DEF Truncate, Write, Writing, files, grants, Goto, LegalInv,
      LegalTyped, JobInv, Working
  <1>9. ASSUME NEW r \in Runs, NEW f \in Writing, Fill(r, f)
        PROVE  JobInv'
    BY <1>9, JobKept, Order DEF Fill, Write, Writing, files, grants, Goto, LegalInv,
      LegalTyped, JobInv, Working
  <1>10. ASSUME NEW r \in Runs, Crash(r)
        PROVE  JobInv'
    BY <1>10, JobKept, Order DEF Crash, files, grants, Goto, LegalInv, LegalTyped,
      JobInv, Working
  <1> QED
    BY <1>1, <1>2, <1>3, <1>4, <1>5, <1>6, <1>7, <1>8, <1>9, <1>10, Cases

(* Every step keeps the inputs or records the disturbance.                  *)
LEMMA InputsStep ==
  ASSUME LegalInv, [Next]_vars
  PROVE  InputsInv'
  <1>1. ASSUME Quiet
        PROVE  InputsInv'
    BY <1>1, Order DEF Quiet, files, LegalInv, InputsInv
  <1>2. ASSUME Edit
        PROVE  InputsInv'
    BY <1>2, Order DEF Edit, files, grants, Goto, LegalInv, LegalTyped, JobInv,
      InputsInv, UsesInputs
  <1>3. ASSUME NEW r \in Runs, NEW p \in Proposals, NEW q \in Proposals, NEW d \in Dirs,
               Begin(r, p, q, d)
        PROVE  InputsInv'
    BY <1>3, Order DEF Begin, _verify_approval, Job, files, grants, Goto, LegalInv,
      LegalTyped, JobInv, InputsInv, UsesInputs
  <1>4. ASSUME NEW r \in Runs, redline_contract(r)
        PROVE  InputsInv'
    BY <1>4, Order DEF redline_contract, files, grants, Goto, LegalInv, LegalTyped,
      JobInv, InputsInv, UsesInputs
  <1>5. ASSUME NEW r \in Runs, verify_docx_tracked_changes(r)
        PROVE  InputsInv'
    BY <1>5, Order DEF verify_docx_tracked_changes, files, grants, Goto, LegalInv,
      LegalTyped, JobInv, InputsInv, UsesInputs
  <1>6. ASSUME NEW r \in Runs, Replace(r)
        PROVE  InputsInv'
    BY <1>6, Order DEF Replace, files, grants, Goto, LegalInv, LegalTyped, JobInv,
      InputsInv, UsesInputs
  <1>7. ASSUME NEW r \in Runs, Readback(r)
        PROVE  InputsInv'
    BY <1>7, Order DEF Readback, files, grants, Goto, LegalInv, LegalTyped, JobInv,
      InputsInv, UsesInputs
  <1>8. ASSUME NEW r \in Runs, NEW f \in Writing, Truncate(r, f)
        PROVE  InputsInv'
    BY <1>8, Order DEF Truncate, Write, Writing, files, grants, Goto, LegalInv,
      LegalTyped, JobInv, InputsInv, UsesInputs
  <1>9. ASSUME NEW r \in Runs, NEW f \in Writing, Fill(r, f)
        PROVE  InputsInv'
    BY <1>9, Order DEF Fill, Write, Writing, files, grants, Goto, LegalInv, LegalTyped,
      JobInv, InputsInv, UsesInputs
  <1>10. ASSUME NEW r \in Runs, Crash(r)
        PROVE  InputsInv'
    BY <1>10, Order DEF Crash, files, grants, Goto, LegalInv, LegalTyped, JobInv,
      InputsInv, UsesInputs
  <1> QED
    BY <1>1, <1>2, <1>3, <1>4, <1>5, <1>6, <1>7, <1>8, <1>9, <1>10, Cases

(* Every step keeps what was made of the inputs.                            *)
LEMMA TmpStep ==
  ASSUME LegalInv, [Next]_vars
  PROVE  TmpInv'
  <1>1. ASSUME Quiet
        PROVE  TmpInv'
    BY <1>1, Kinds, Order DEF Quiet, files, LegalInv, TmpInv, Ours
  <1>2. ASSUME Edit
        PROVE  TmpInv'
    BY <1>2, Kinds, Order DEF Edit, files, grants, Goto, LegalInv, LegalTyped, JobInv,
      InputsInv, TmpInv, UsesInputs, Ours
  <1>3. ASSUME NEW r \in Runs, NEW p \in Proposals, NEW q \in Proposals, NEW d \in Dirs,
               Begin(r, p, q, d)
        PROVE  TmpInv'
    BY <1>3, Kinds, Order DEF Begin, _verify_approval, Job, files, grants, Goto,
      LegalInv, LegalTyped, JobInv, InputsInv, TmpInv, UsesInputs, Ours
  <1>4. ASSUME NEW r \in Runs, redline_contract(r)
        PROVE  TmpInv'
    BY <1>4, Kinds, Order DEF redline_contract, files, grants, Goto, LegalInv,
      LegalTyped, JobInv, InputsInv, TmpInv, UsesInputs, Ours
  <1>5. ASSUME NEW r \in Runs, verify_docx_tracked_changes(r)
        PROVE  TmpInv'
    BY <1>5, Kinds, Order DEF verify_docx_tracked_changes, files, grants, Goto,
      LegalInv, LegalTyped, JobInv, InputsInv, TmpInv, UsesInputs, Ours
  <1>6. ASSUME NEW r \in Runs, Replace(r)
        PROVE  TmpInv'
    BY <1>6, Kinds, Order DEF Replace, files, grants, Goto, LegalInv, LegalTyped,
      JobInv, InputsInv, TmpInv, UsesInputs, Ours
  <1>7. ASSUME NEW r \in Runs, Readback(r)
        PROVE  TmpInv'
    BY <1>7, Kinds, Order DEF Readback, files, grants, Goto, LegalInv, LegalTyped,
      JobInv, InputsInv, TmpInv, UsesInputs, Ours
  <1>8. ASSUME NEW r \in Runs, NEW f \in Writing, Truncate(r, f)
        PROVE  TmpInv'
    BY <1>8, Kinds, Order DEF Truncate, Write, Writing, files, grants, Goto, LegalInv,
      LegalTyped, JobInv, InputsInv, TmpInv, UsesInputs, Ours
  <1>9. ASSUME NEW r \in Runs, NEW f \in Writing, Fill(r, f)
        PROVE  TmpInv'
    BY <1>9, Kinds, Order DEF Fill, Write, Writing, files, grants, Goto, LegalInv,
      LegalTyped, JobInv, InputsInv, TmpInv, UsesInputs, Ours
  <1>10. ASSUME NEW r \in Runs, Crash(r)
        PROVE  TmpInv'
    BY <1>10, Kinds, Order DEF Crash, files, grants, Goto, LegalInv, LegalTyped, JobInv,
      InputsInv, TmpInv, UsesInputs, Ours
  <1> QED
    BY <1>1, <1>2, <1>3, <1>4, <1>5, <1>6, <1>7, <1>8, <1>9, <1>10, Cases

(* Every step keeps the output whole, and the executions' own.              *)
LEMMA OutputStep ==
  ASSUME LegalInv, [Next]_vars
  PROVE  OutputInv'
  <1>1. ASSUME Quiet
        PROVE  OutputInv'
    BY <1>1, JobKept, Order DEF Quiet, files, LegalInv, OutputInv, Ours
  <1>2. ASSUME Edit
        PROVE  OutputInv'
    BY <1>2, JobKept, Order DEF Edit, files, grants, Goto, LegalInv, LegalTyped, JobInv,
      OutputInv, UsesOutput, PastReadback, PastSource, PastPlaybook, PastOutput,
      PastManifest, Ours
  <1>3. ASSUME NEW r \in Runs, NEW p \in Proposals, NEW q \in Proposals, NEW d \in Dirs,
               Begin(r, p, q, d)
        PROVE  OutputInv'
    <2>1. /\ UNCHANGED <<output, disturbed, sha>>
          /\ \A o \in Runs \ {r} : pc'[o] = pc[o] /\ job'[o] = job[o]
          /\ pc'[r] \in {"redline", "refused"}
      BY <1>3, BeginDoes
    <2>2. ASSUME output # Absent
          PROVE  HasJob(output.run)' /\ job'[output.run] = job[output.run]
      <3>1. PICK o \in Runs : o = output.run /\ HasJob(o)
        BY <2>2 DEF LegalInv, OutputInv
      <3>2. HasJob(o)' /\ job'[o] = job[o]
        BY <3>1, JobKept
      <3> QED
        BY <2>1, <3>1, <3>2 DEF HasJob
    <2> QED
      BY <2>1, <2>2 DEF LegalInv, OutputInv, Ours, UsesOutput,
        PastReadback, PastSource, PastPlaybook, PastOutput, PastManifest
  <1>4. ASSUME NEW r \in Runs, redline_contract(r)
        PROVE  OutputInv'
    BY <1>4, JobKept, Order DEF redline_contract, files, grants, Goto, LegalInv,
      LegalTyped, JobInv, OutputInv, UsesOutput, PastReadback, PastSource, PastPlaybook,
      PastOutput, PastManifest, Ours
  <1>5. ASSUME NEW r \in Runs, verify_docx_tracked_changes(r)
        PROVE  OutputInv'
    BY <1>5, JobKept, Order DEF verify_docx_tracked_changes, files, grants, Goto,
      LegalInv, LegalTyped, JobInv, OutputInv, UsesOutput, PastReadback, PastSource,
      PastPlaybook, PastOutput, PastManifest, Ours
  <1>6. ASSUME NEW r \in Runs, Replace(r)
        PROVE  OutputInv'
    <2>1. HasJob(r) /\ HasJob(r)' /\ Ours(r)' = Ours(r)
      BY <1>6, JobKept DEF Replace, LegalInv, JobInv, Working, Ours
    <2>2. /\ output'.is = "redline" /\ output'.run = r
          /\ r \notin disturbed' => output' = Ours(r)
      BY <1>6 DEF Replace, LegalInv, TmpInv
    <2>3. ASSUME NEW o \in Runs, pc'[o] \in UsesOutput, o \notin disturbed'
          PROVE  o = r
      BY <1>6, <2>3 DEF Replace, Goto, LegalInv, LegalTyped
    <2>4. ASSUME NEW o \in Runs, pc'[o] \in PastReadback, o \notin disturbed'
          PROVE  sha'[o] = Ours(o)'
      BY <1>6, <2>4 DEF Replace, Goto, LegalInv, LegalTyped, OutputInv, Ours,
        PastReadback, PastSource, PastPlaybook, PastOutput, PastManifest
    <2> QED
      BY <2>1, <2>2, <2>3, <2>4 DEF OutputInv
  <1>7. ASSUME NEW r \in Runs, Readback(r)
        PROVE  OutputInv'
    BY <1>7, JobKept, Order DEF Readback, files, grants, Goto, LegalInv, LegalTyped,
      JobInv, OutputInv, UsesOutput, PastReadback, PastSource, PastPlaybook, PastOutput,
      PastManifest, Ours
  <1>8. ASSUME NEW r \in Runs, NEW f \in Writing, Truncate(r, f)
        PROVE  OutputInv'
    BY <1>8, JobKept, Order DEF Truncate, Write, Writing, files, grants, Goto, LegalInv,
      LegalTyped, JobInv, OutputInv, UsesOutput, PastReadback, PastSource, PastPlaybook,
      PastOutput, PastManifest, Ours
  <1>9. ASSUME NEW r \in Runs, NEW f \in Writing, Fill(r, f)
        PROVE  OutputInv'
    BY <1>9, JobKept, Order DEF Fill, Write, Writing, files, grants, Goto, LegalInv,
      LegalTyped, JobInv, OutputInv, UsesOutput, PastReadback, PastSource, PastPlaybook,
      PastOutput, PastManifest, Ours
  <1>10. ASSUME NEW r \in Runs, Crash(r)
        PROVE  OutputInv'
    BY <1>10, JobKept, Order DEF Crash, files, grants, Goto, LegalInv, LegalTyped,
      JobInv, OutputInv, UsesOutput, PastReadback, PastSource, PastPlaybook, PastOutput,
      PastManifest, Ours
  <1> QED
    BY <1>1, <1>2, <1>3, <1>4, <1>5, <1>6, <1>7, <1>8, <1>9, <1>10, Cases

(* Every step keeps the manifests truthful.                                 *)
LEMMA ManifestStep ==
  ASSUME LegalInv, [Next]_vars
  PROVE  ManifestInv'
  <1>1. ASSUME Quiet
        PROVE  ManifestInv'
    BY <1>1, Kept DEF Quiet, files, LegalInv, ManifestInv, Truthful
  <1>2. ASSUME Edit
        PROVE  ManifestInv'
    BY <1>2, Kept DEF Edit, files, grants, Goto, LegalInv, ManifestInv, Truthful
  <1>3. ASSUME NEW r \in Runs, NEW p \in Proposals, NEW q \in Proposals, NEW d \in Dirs,
               Begin(r, p, q, d)
        PROVE  ManifestInv'
    BY <1>3, Kept DEF Begin, _verify_approval, Job, files, grants, Goto, LegalInv,
      ManifestInv, Truthful
  <1>4. ASSUME NEW r \in Runs, redline_contract(r)
        PROVE  ManifestInv'
    BY <1>4, Kept DEF redline_contract, files, grants, Goto, LegalInv, ManifestInv,
      Truthful
  <1>5. ASSUME NEW r \in Runs, verify_docx_tracked_changes(r)
        PROVE  ManifestInv'
    BY <1>5, Kept DEF verify_docx_tracked_changes, files, grants, Goto, LegalInv,
      ManifestInv, Truthful
  <1>6. ASSUME NEW r \in Runs, Replace(r)
        PROVE  ManifestInv'
    BY <1>6, Kept DEF Replace, files, grants, Goto, LegalInv, ManifestInv, Truthful
  <1>7. ASSUME NEW r \in Runs, Readback(r)
        PROVE  ManifestInv'
    BY <1>7, Kept DEF Readback, files, grants, Goto, LegalInv, ManifestInv, Truthful
  <1>8. ASSUME NEW r \in Runs, NEW f \in Writing, Truncate(r, f)
        PROVE  ManifestInv'
    <2>1. Write(r, f, Partial)
      BY <1>8 DEF Truncate
    <2>2. \A e \in Dirs, g \in Parts :
            bundle'[e][g] = IF e = job[r].dir /\ g = f THEN Partial ELSE bundle[e][g]
      <3>1. Wrote(r, f, Partial)
        BY <2>1, WriteOne
      <3> QED
        BY <3>1 DEF Wrote
    <2>3. job' = job /\ sha' = sha /\ proposal' = proposal /\ approved' = approved
          /\ disturbed' = disturbed
      BY <2>1 DEF Write, grants
    <2> QED
      BY <2>2, <2>3, Kinds DEF Writing, Parts, LegalInv, ManifestInv, Truthful
  <1>9. ASSUME NEW r \in Runs, NEW f \in Writing, Fill(r, f)
        PROVE  ManifestInv'
    <2>1. Write(r, f, Content(r, f))
      BY <1>9 DEF Fill
    <2>2. \A e \in Dirs, g \in Parts :
            bundle'[e][g] = IF e = job[r].dir /\ g = f THEN Content(r, f) ELSE bundle[e][g]
      <3>1. Wrote(r, f, Content(r, f))
        BY <2>1, WriteOne
      <3> QED
        BY <3>1 DEF Wrote
    <2>3. job' = job /\ sha' = sha /\ proposal' = proposal /\ approved' = approved
          /\ disturbed' = disturbed
      BY <2>1 DEF Write, grants
    <2>4. CASE f # "manifest"
      BY <2>2, <2>3, <2>4 DEF Writing, Parts, LegalInv, ManifestInv, Truthful
    <2>5. CASE f = "manifest"
      <3>1. pc[r] = "manifest..."
        BY <1>9, <2>5, Order DEF Fill
      <3>2. HasJob(r)
        BY <3>1 DEF LegalInv, JobInv, Working
      <3>3. r \notin disturbed => sha[r] = Ours(r)
        BY <3>1 DEF LegalInv, OutputInv, PastReadback, PastSource, PastPlaybook,
          PastOutput
      <3>4. Content(r, f) = Manifest(r, job[r], sha[r])
        BY <2>5 DEF Content
      <3>5. Truthful(Manifest(r, job[r], sha[r]))
        BY <3>2, <3>3 DEF HasJob, Ours, Manifest, Truthful
      <3> QED
        BY <2>2, <2>3, <3>4, <3>5 DEF LegalInv, ManifestInv, Truthful, Parts
    <2> QED
      BY <2>4, <2>5
  <1>10. ASSUME NEW r \in Runs, Crash(r)
        PROVE  ManifestInv'
    BY <1>10, Kept DEF Crash, files, grants, Goto, LegalInv, ManifestInv, Truthful
  <1> QED
    BY <1>1, <1>2, <1>3, <1>4, <1>5, <1>6, <1>7, <1>8, <1>9, <1>10, Cases

(* Every step keeps the bundle of an execution nobody interferes with.      *)
LEMMA BundleStep ==
  ASSUME LegalInv, [Next]_vars
  PROVE  BundleInv'
  <1>1. ASSUME Quiet
        PROVE  BundleInv'
    BY <1>1 DEF Quiet, files, LegalInv, BundleInv, BundleOf
  <1>2. ASSUME Edit
        PROVE  BundleInv'
    BY <1>2 DEF Edit, files, grants, Goto, LegalInv, LegalTyped, BundleInv, BundleOf,
      PastSource, PastPlaybook, PastOutput, PastManifest
  <1>3. ASSUME NEW r \in Runs, NEW p \in Proposals, NEW q \in Proposals, NEW d \in Dirs,
               Begin(r, p, q, d)
        PROVE  BundleInv'
    <2>1. /\ UNCHANGED <<bundle, disturbed, overrun, sha>>
          /\ \A o \in Runs \ {r} : pc'[o] = pc[o] /\ job'[o] = job[o]
          /\ pc'[r] \in {"redline", "refused"}
      BY <1>3, BeginDoes
    <2> QED
      BY <2>1 DEF LegalInv, BundleInv, BundleOf, Parts, PastSource, PastPlaybook,
        PastOutput, PastManifest
  <1>4. ASSUME NEW r \in Runs, redline_contract(r)
        PROVE  BundleInv'
    <2>1. /\ UNCHANGED <<bundle, disturbed, overrun, sha, job>>
          /\ \A o \in Runs \ {r} : pc'[o] = pc[o]
          /\ pc'[r] \in {"oracle", "refused"}
      BY <1>4 DEF redline_contract, Goto, LegalInv, LegalTyped
    <2> QED
      BY <2>1 DEF LegalInv, BundleInv, BundleOf, PastSource, PastPlaybook, PastOutput,
        PastManifest
  <1>5. ASSUME NEW r \in Runs, verify_docx_tracked_changes(r)
        PROVE  BundleInv'
    <2>1. /\ UNCHANGED <<bundle, disturbed, overrun, sha, job>>
          /\ \A o \in Runs \ {r} : pc'[o] = pc[o]
          /\ pc'[r] \in {"replace", "refused"}
      BY <1>5 DEF verify_docx_tracked_changes, Goto, LegalInv, LegalTyped
    <2> QED
      BY <2>1 DEF LegalInv, BundleInv, BundleOf, PastSource, PastPlaybook, PastOutput,
        PastManifest
  <1>6. ASSUME NEW r \in Runs, Replace(r)
        PROVE  BundleInv'
    BY <1>6 DEF Replace, files, grants, Goto, LegalInv, LegalTyped, BundleInv, BundleOf,
      PastSource, PastPlaybook, PastOutput, PastManifest
  <1>7. ASSUME NEW r \in Runs, Readback(r)
        PROVE  BundleInv'
    BY <1>7 DEF Readback, files, grants, Goto, LegalInv, LegalTyped, BundleInv,
      BundleOf, PastSource, PastPlaybook, PastOutput, PastManifest
  <1>8. ASSUME NEW r \in Runs, NEW f \in Writing, Truncate(r, f)
        PROVE  BundleInv'
    <2>1. Write(r, f, Partial)
      BY <1>8 DEF Truncate
    <2>2. \A e \in Dirs, g \in Parts :
            bundle'[e][g] = IF e = job[r].dir /\ g = f THEN Partial ELSE bundle[e][g]
      <3>1. Wrote(r, f, Partial)
        BY <2>1, WriteOne
      <3> QED
        BY <3>1 DEF Wrote
    <2>3. job' = job /\ sha' = sha /\ proposal' = proposal /\ approved' = approved
          /\ disturbed' = disturbed
      BY <2>1 DEF Write, grants
    <2>4. ASSUME NEW o \in Runs \ (disturbed' \cup overrun'), o # r, pc[o] \in PastSource
          PROVE  \A g \in Parts : bundle'[job[o].dir][g] = bundle[job[o].dir][g]
      <3>1. HasJob(o)
        BY <2>4 DEF LegalInv, JobInv, Working, PastSource, PastPlaybook, PastOutput,
          PastManifest
      <3>2. job[o].dir # job[r].dir
        BY <2>1, <2>4, <3>1, Kinds DEF Write, HasJob
      <3> QED
        BY <2>2, <3>1, <3>2 DEF HasJob
    <2>5. ASSUME NEW o \in Runs \ (disturbed' \cup overrun'), o # r
          PROVE  BundleOf(o)'
      <3>1. BundleOf(o) /\ pc'[o] = pc[o]
        BY <1>8, <2>5, Kept DEF Truncate, Goto, LegalInv, LegalTyped, BundleInv
      <3> QED
        BY <2>3, <2>4, <2>5, <3>1 DEF BundleOf, Parts, PastSource, PastPlaybook,
          PastOutput, PastManifest
    <2>6. ASSUME r \notin disturbed' \cup overrun'
          PROVE  BundleOf(r)'
      <3>1. HasJob(r) /\ BundleOf(r) /\ pc[r] = f /\ pc'[r] = Started(f)
        BY <1>8, <2>6, Kept DEF Truncate, Goto, Writing, Working, LegalInv, LegalTyped,
          JobInv, BundleInv
      <3> QED
        BY <2>2, <2>3, <3>1, Order DEF Writing, HasJob, BundleOf, Parts, PastSource,
          PastPlaybook, PastOutput, PastManifest
    <2> QED
      BY <2>5, <2>6 DEF BundleInv
  <1>9. ASSUME NEW r \in Runs, NEW f \in Writing, Fill(r, f)
        PROVE  BundleInv'
    <2>1. Write(r, f, Content(r, f))
      BY <1>9 DEF Fill
    <2>2. \A e \in Dirs, g \in Parts :
            bundle'[e][g] = IF e = job[r].dir /\ g = f THEN Content(r, f) ELSE bundle[e][g]
      <3>1. Wrote(r, f, Content(r, f))
        BY <2>1, WriteOne
      <3> QED
        BY <3>1 DEF Wrote
    <2>3. job' = job /\ sha' = sha /\ proposal' = proposal /\ approved' = approved
          /\ disturbed' = disturbed
      BY <2>1 DEF Write, grants
    <2>4. ASSUME NEW o \in Runs \ (disturbed' \cup overrun'), o # r, pc[o] \in PastSource
          PROVE  \A g \in Parts : bundle'[job[o].dir][g] = bundle[job[o].dir][g]
      <3>1. HasJob(o)
        BY <2>4 DEF LegalInv, JobInv, Working, PastSource, PastPlaybook, PastOutput,
          PastManifest
      <3>2. job[o].dir # job[r].dir
        BY <2>1, <2>4, <3>1, Kinds DEF Write, HasJob
      <3> QED
        BY <2>2, <3>1, <3>2 DEF HasJob
    <2>5. ASSUME NEW o \in Runs \ (disturbed' \cup overrun'), o # r
          PROVE  BundleOf(o)'
      <3>1. BundleOf(o) /\ pc'[o] = pc[o]
        BY <1>9, <2>5, Kept DEF Fill, Goto, LegalInv, LegalTyped, BundleInv
      <3> QED
        BY <2>3, <2>4, <2>5, <3>1 DEF BundleOf, Parts, PastSource, PastPlaybook,
          PastOutput, PastManifest
    <2>6. ASSUME r \notin disturbed' \cup overrun'
          PROVE  BundleOf(r)'
      <3>1. HasJob(r) /\ BundleOf(r) /\ pc[r] = Started(f) /\ pc'[r] = After(f)
        BY <1>9, <2>6, Kept, Order DEF Fill, Goto, Writing, Working, LegalInv,
          LegalTyped, JobInv, BundleInv
      <3>2. f \in {"source", "playbook"}
              => source = job[r].source /\ playbook = job[r].playbook
        BY <2>3, <2>6, <3>1, Order DEF LegalInv, InputsInv, UsesInputs
      <3>3. f = "output" => output = sha[r]
        BY <2>3, <2>6, <3>1, Order DEF LegalInv, OutputInv, UsesOutput, PastReadback,
          PastSource, PastPlaybook
      <3>4. bundle'[job[r].dir][f] = Content(r, f)
        BY <2>2, <3>1 DEF HasJob, Writing, Parts
      <3>5. \A g \in Parts \ {f} : bundle'[job[r].dir][g] = bundle[job[r].dir][g]
        BY <2>2, <3>1 DEF HasJob
      <3>6. CASE f = "source"
        BY <2>3, <3>1, <3>2, <3>4, <3>5, <3>6, Order DEF Content, BundleOf, Parts,
          PastSource, PastPlaybook, PastOutput, PastManifest
      <3>7. CASE f = "playbook"
        BY <2>3, <3>1, <3>2, <3>4, <3>5, <3>7, Order DEF Content, BundleOf, Parts,
          PastSource, PastPlaybook, PastOutput, PastManifest
      <3>8. CASE f = "output"
        BY <2>3, <3>1, <3>3, <3>4, <3>5, <3>8, Order DEF Content, BundleOf, Parts,
          PastSource, PastPlaybook, PastOutput, PastManifest
      <3>9. CASE f = "manifest"
        BY <2>3, <3>1, <3>4, <3>5, <3>9, Order DEF Content, Manifest, BundleOf, Parts,
          PastSource, PastPlaybook, PastOutput, PastManifest
      <3> QED
        BY <3>6, <3>7, <3>8, <3>9 DEF Writing
    <2> QED
      BY <2>5, <2>6 DEF BundleInv
  <1>10. ASSUME NEW r \in Runs, Crash(r)
        PROVE  BundleInv'
    BY <1>10 DEF Crash, files, grants, Goto, LegalInv, LegalTyped, BundleInv, BundleOf,
      PastSource, PastPlaybook, PastOutput, PastManifest
  <1> QED
    BY <1>1, <1>2, <1>3, <1>4, <1>5, <1>6, <1>7, <1>8, <1>9, <1>10, Cases

(* Every behaviour keeps the invariant.                                     *)
LEMMA LegalSafe == Spec => []LegalInv
  <1>1. LegalInv /\ [Next]_vars => LegalInv'
    BY LegalTypedStep, GrantStep, JobStep, InputsStep, TmpStep, OutputStep,
      ManifestStep, BundleStep DEF LegalInv
  <1> QED
    BY <1>1, LegalStart, PTL DEF Spec

(* Through any crash and any interleaving of executions, the output path    *)
(* holds nothing or one whole redline, of an execution that held an         *)
(* approval (execute, os.replace).                                          *)
THEOREM LegalOutput == Spec => []OutputGoverned
  <1>1. LegalInv => OutputGoverned
    BY DEF LegalInv, OutputInv, OutputGoverned, HasJob, Ours, Intended
  <1> QED
    BY <1>1, LegalSafe, PTL

(* A bundle that verify_bundle accepts has the source and the playbook that *)
(* were approved, whatever crashed or wrote into its directory.             *)
THEOREM LegalEvidence == Spec => []EvidenceSound
  <1>1. LegalInv => EvidenceSound
    <2> SUFFICES ASSUME LegalInv, NEW d \in Dirs, verify_bundle(d)
                 PROVE  LET m == bundle[d]["manifest"]
                            p == m.proposal IN
                          /\ p \in approved
                          /\ bundle[d]["source"] = Source(proposal[p].source)
                          /\ bundle[d]["playbook"] = Book(proposal[p].playbook)
                          /\ proposal[p].playbook \in Allowed
                          /\ m.run \notin disturbed => bundle[d]["output"] = Intended(p, m.run)
      BY DEF EvidenceSound
    <2>1. Truthful(bundle[d]["manifest"])
      BY DEF LegalInv, ManifestInv, verify_bundle
    <2> QED
      BY <2>1 DEF LegalInv, GrantInv, Granted, Truthful, verify_bundle, Intended
  <1> QED
    BY <1>1, LegalSafe, PTL

(* An execution that returns, and that nobody disturbed, leaves a bundle    *)
(* that verifies, also where crashed executions left theirs.                *)
THEOREM LegalRerun == Spec => []RerunValid
  <1>1. LegalInv => RerunValid
    <2> SUFFICES ASSUME LegalInv, NEW r \in Runs, pc[r] = "returned",
                        r \notin disturbed \cup overrun
                 PROVE  /\ verify_bundle(job[r].dir)
                        /\ bundle[job[r].dir]["manifest"].run = r
      BY DEF RerunValid
    <2>1. BundleOf(r)
      BY DEF LegalInv, BundleInv
    <2> QED
      BY <2>1 DEF BundleOf, PastSource, PastPlaybook, PastOutput, PastManifest,
        Manifest, verify_bundle
  <1> QED
    BY <1>1, LegalSafe, PTL
=============================================================================
