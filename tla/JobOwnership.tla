---------------------------- MODULE JobOwnership ----------------------------
(***************************************************************************)
(* What a component that runs one cancellable job at a time promises.      *)
(* Both the runtime's generation slot (axiom-runtime/src/lib.rs) and the   *)
(* overlay bridge's materialize lease (phantom_bridge.rs) are shown to     *)
(* implement it.                                                           *)
(*                                                                         *)
(* A job is refused, or admitted while no other job runs.  A running job   *)
(* may be signalled, once.  It ends on its own, or as cancelled, and it    *)
(* never ends as cancelled unless it was signalled.                        *)
(***************************************************************************)

CONSTANT Jobs

VARIABLES job,        \* the life of each job
          signalled   \* the jobs to which a cancellation was delivered

jvars == <<job, signalled>>

JobState == {"waiting", "running", "refused", "ended", "cancelled"}

JobTypeOK == /\ job \in [Jobs -> JobState]
             /\ signalled \in SUBSET Jobs

JobInit == /\ job = [j \in Jobs |-> "waiting"]
           /\ signalled = {}

Refuse(j) == /\ job[j] = "waiting"
             /\ job' = [job EXCEPT ![j] = "refused"]
             /\ UNCHANGED signalled

Admit(j) == /\ job[j] = "waiting"
            /\ \A k \in Jobs : job[k] # "running"
            /\ job' = [job EXCEPT ![j] = "running"]
            /\ UNCHANGED signalled

Signal(j) == /\ job[j] = "running"
             /\ j \notin signalled
             /\ signalled' = signalled \cup {j}
             /\ UNCHANGED job

Complete(j) == /\ job[j] = "running"
               /\ job' = [job EXCEPT ![j] = "ended"]
               /\ UNCHANGED signalled

Abort(j) == /\ job[j] = "running"
            /\ j \in signalled
            /\ job' = [job EXCEPT ![j] = "cancelled"]
            /\ UNCHANGED signalled

JobNext == \E j \in Jobs :
              Refuse(j) \/ Admit(j) \/ Signal(j) \/ Complete(j) \/ Abort(j)

JobSpec == JobInit /\ [][JobNext]_jvars
=============================================================================
