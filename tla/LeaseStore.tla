------------------------------ MODULE LeaseStore ------------------------------
(***************************************************************************)
(* The tables that every background worker and request handler of the      *)
(* scheduler shares (app/models.py), the Slurm jobs they stand for, and    *)
(* the wall clock.  The workers are asyncio coroutines that read these     *)
(* tables, await a Slurm or HTTP call with no session open, and write the  *)
(* result back, so whatever is here may change under a worker at every     *)
(* await.  The worker modules extend this one, Scheduler composes them.    *)
(***************************************************************************)
EXTENDS Integers, FiniteSets

CONSTANTS
  MaxLeases,      \* bound: rows of the leases table
  MaxJobs,        \* bound: Slurm jobs that can ever be accepted
  MaxTime,        \* bound: the last instant of the clock
  MaxEnd,         \* bound: the latest end a window can be extended to
  MaxAttempts,    \* bound: resubmissions of a permanent deployment
  RenewWindow,    \* RENEW_WINDOW: length of a window the workers themselves set
  Faults          \* what may go wrong outside the process, see FaultKinds

FaultKinds ==
  {"sbatch",      \* a submission is refused, no job is created
   "reply",       \* a submission is accepted but the answer is lost
   "scancel",     \* a cancellation is not carried out
   "squeue",      \* the controller does not answer a state query
   "linger",      \* the controller still lists a job that has ended
   "probe",       \* a health check of a serving model fails
   "register",    \* a job gives up registering with the router
   "exit",        \* a job leaves Slurm without having been cancelled
   "crash"}       \* the scheduler process dies and is restarted

ASSUME StoreConstants ==
  /\ MaxLeases \in Nat \ {0} /\ MaxJobs \in Nat \ {0} /\ MaxTime \in Nat
  /\ {MaxEnd, MaxAttempts, RenewWindow} \subseteq Nat
  /\ MaxTime + RenewWindow <= MaxEnd
  /\ Faults \subseteq FaultKinds

VARIABLES
  now,            \* the clock
  lease,          \* leases table: one row per booking, state "NONE" = no row
  job,            \* Slurm's own jobs; for = the lease a job was submitted for
  ep              \* endpoints table: one row per registered Slurm job

storeVars == <<now, lease, job, ep>>

Leases == 1..MaxLeases
Jobs == 1..MaxJobs
NoLease == 0
NoJob == 0
Never == -1       \* a NULL timestamp
Time == 0..MaxTime

Active == {"SUBMITTED", "STARTING", "RUNNING"}
Finished == {"CANCELED", "ENDED"}
LeaseState == {"NONE", "PLANNED", "FAILED", "RETRYING"} \cup Active \cup Finished

(* "CALLING" is the part of the job script that registers with the router; *)
(* a job killed there may leave its request in flight, which is "LOST":    *)
(* the router may still be handed that request, at any later time.         *)
JobState == {"UNBORN", "PENDING", "CALLING", "LOADING", "SERVING", "LOST", "GONE"}
Left == {"LOST", "GONE"}                \* the job has ended
Live == JobState \ ({"UNBORN"} \cup Left)

EndpointState == {"NONE", "STARTING", "READY", "FAILED", "STOPPED"}

LeaseRow ==
  [state : LeaseState, job : Jobs \cup {NoJob}, begin : 0..MaxEnd,
   end : 0..MaxEnd, locked : BOOLEAN, mode : {"session", "service"},
   retries : 0..MaxAttempts, failedAt : Time \cup {Never},
   supersedes : Leases \cup {NoLease}, drainingSince : Time \cup {Never}]

NoRow ==
  [state |-> "NONE", job |-> NoJob, begin |-> 0, end |-> 0, locked |-> FALSE,
   mode |-> "session", retries |-> 0, failedAt |-> Never,
   supersedes |-> NoLease, drainingSince |-> Never]

EndpointRow == [state : EndpointState, fails : Nat, born : Time]

StoreTypeOK ==
  /\ now \in Time
  /\ lease \in [Leases -> LeaseRow]
  /\ job \in [Jobs -> [st : JobState, for : Leases \cup {NoLease}]]
  /\ ep \in [Jobs -> EndpointRow]

StoreInit ==
  /\ now = 0
  /\ lease = [l \in Leases |-> NoRow]
  /\ job = [j \in Jobs |-> [st |-> "UNBORN", for |-> NoLease]]
  /\ ep = [j \in Jobs |-> [state |-> "NONE", fails |-> 0, born |-> 0]]

-------------------------------------------------------------------------------
(* Helpers shared by the workers                                            *)

(* The query every worker uses to go from an endpoint to its booking. *)
LeasesOf(j) == {l \in Leases : lease[l].job = j}

(* "end_at < now", in every worker; the mutant reaps a moment early. *)
WindowOverInclusive(l) == lease[l].end <= now
WindowOver(l) == lease[l].end < now

(* A booking is failed by setting its state and the failed_at stamp. *)
FailUnstamped(r, at) == [r EXCEPT !.state = "FAILED"]
Fail(r, at) == [r EXCEPT !.state = "FAILED", !.failedAt = at]

IsPermanent(l) == lease[l].locked /\ lease[l].mode = "service"

(* Row and job numbers are handed out in increasing order. *)
IsNextLease(l) ==
  lease[l].state = "NONE" /\ \A k \in Leases : k < l => lease[k].state # "NONE"
IsNextJob(j) ==
  job[j].st = "UNBORN" /\ \A i \in Jobs : i < j => job[i].st # "UNBORN"

(* sbatch accepted: a new pending job that carries the lease in its comment *)
Sbatch(j, l) ==
  /\ IsNextJob(j)
  /\ job' = [job EXCEPT ![j] = [st |-> "PENDING", for |-> l]]

(* sbatch raised.  The job may exist all the same when the answer was lost. *)
SbatchRaises(l) ==
  \/ ("sbatch" \in Faults \/ \A j \in Jobs : job[j].st # "UNBORN")
     /\ UNCHANGED job
  \/ "reply" \in Faults /\ \E j \in Jobs : Sbatch(j, l)

Killed(st) == IF st \in {"CALLING", "LOST"} THEN "LOST" ELSE "GONE"

(* scancel: every caller swallows its exception, so it has two outcomes.   *)
ScancelForgotten(j) == UNCHANGED job                                \* mutant
Scancel(j) ==
  \/ job' = [job EXCEPT ![j].st = Killed(@)]
  \/ "scancel" \in Faults /\ UNCHANGED job

(* What a state query may report as gone: slurmrestd goes on listing ended *)
(* jobs for a while, and a listed job counts as "still in Slurm".          *)
Gone == {j \in Jobs : job[j].st \in Left}
Answers == IF "linger" \in Faults THEN SUBSET Gone ELSE {Gone}

-------------------------------------------------------------------------------
(* The clock and the cluster                                                *)

Tick == /\ now < MaxTime
        /\ now' = now + 1
        /\ UNCHANGED <<lease, job, ep>>

(* Slurm finds room for a pending job and starts its script. *)
JobStarts(j) ==
  /\ job[j].st = "PENDING"
  /\ job' = [job EXCEPT ![j].st = "CALLING"]
  /\ UNCHANGED <<now, lease, ep>>

(* twelve failed attempts: "continuing anyway", with no endpoint row *)
GivesUpRegistering(j) ==
  /\ "register" \in Faults
  /\ job[j].st = "CALLING"
  /\ job' = [job EXCEPT ![j].st = "LOADING"]
  /\ UNCHANGED <<now, lease, ep>>

ModelLoads(j) ==
  /\ job[j].st = "LOADING"
  /\ job' = [job EXCEPT ![j].st = "SERVING"]
  /\ UNCHANGED <<now, lease, ep>>

(* vLLM exits, the node dies, the time limit strikes, someone scancels it *)
JobExits(j) ==
  /\ "exit" \in Faults
  /\ job[j].st \in Live
  /\ job' = [job EXCEPT ![j].st = Killed(@)]
  /\ UNCHANGED <<now, lease, ep>>

ClusterNext ==
  \E j \in Jobs : JobStarts(j) \/ GivesUpRegistering(j) \/ ModelLoads(j) \/ JobExits(j)
===============================================================================
