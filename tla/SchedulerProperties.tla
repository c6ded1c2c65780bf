-------------------------- MODULE SchedulerProperties --------------------------
(***************************************************************************)
(* What the composed scheduler promises about bookings and Slurm jobs.     *)
(***************************************************************************)
EXTENDS Scheduler

(* A job number that a coroutine holds and is about to write to booking l. *)
InFlight(j, l) ==
  \/ submitter.cur = l /\ submitter.job = j
  \/ retrier.step = "record" /\ retrier.cur = l /\ retrier.job = j
  \/ creating[l].step = "record" /\ creating[l].job = j
  \/ <<l, j>> \in renewer.subs

JobLost(l) == lease[l].job \in Gone
Recorded(j) == lease[job[j].for].job = j
LiveJobs(l) == {j \in Jobs : job[j].for = l /\ job[j].st \in Live}

(* A job belongs to the one booking it was submitted for.  Every worker    *)
(* looks a booking up by job number and takes the first row, so a shared   *)
(* number would let the end of one booking kill the model of another.      *)
LeasesNeverShareAJob ==
  \A l \in Leases : lease[l].job # NoJob =>
    /\ job[lease[l].job].for = l
    /\ \A m \in Leases : lease[m].job = lease[l].job => m = l

(* An active booking has a job, unless its create handler is still at it.  *)
(* slurm_reconcile_worker skips a booking without a job number, so without *)
(* this one it would stay SUBMITTED for ever and hold its GPUs in the plan.*)
ActiveLeaseHasJob ==
  \A l \in Leases : lease[l].state \in Active /\ lease[l].job = NoJob =>
    lease[l].state = "SUBMITTED" /\ creating[l] # NotCreating

(* Whoever fails a booking stamps failed_at: should_retry refuses a        *)
(* booking without the stamp, whatever its budget of retries.              *)
FailedIsStamped ==
  \A l \in Leases : lease[l].state = "FAILED" => lease[l].failedAt # Never

(* No worker or handler gives a booking a second job while the first one   *)
(* still runs, so a booking never holds twice the GPUs it was granted.     *)
OneLiveJob == \A l \in Leases : Cardinality(LiveJobs(l)) <= 1

(* Every live job can be found from the table of bookings, or its number   *)
(* is on the way there: nothing holds GPUs behind the scheduler's back.    *)
EveryLiveJobIsKnown ==
  \A j \in Jobs : job[j].st \in Live => Recorded(j) \/ InFlight(j, job[j].for)

(* The only jobs that escape the table are those of bookings cancelled     *)
(* while their submission was in flight.                                   *)
OnlyCanceledLeasesLoseJobs ==
  \A j \in Jobs : job[j].st \in Live =>
    \/ Recorded(j) \/ InFlight(j, job[j].for)
    \/ lease[job[j].for].state = "CANCELED"

(* A booking that was never made permanent is resubmitted at most          *)
(* VLLM_MAX_RETRIES times between two moments at which it was RUNNING.     *)
RetriesAreBounded == \A l \in Leases : lease[l].retries <= MaxRetries

-------------------------------------------------------------------------------
(* A finished booking is never taken up again by a worker that looked at   *)
(* it before it was ended.                                                 *)
EndedStaysFinished ==
  [][\A l \in Leases : lease[l].state = "ENDED" => lease'[l].state \in Finished]_lease

Ends(l) == lease[l].state \notin Finished /\ lease'[l].state = "ENDED"

(* A session booking is only ended by the clock: none of the four places   *)
(* that end bookings does it before the window is over.                    *)
EndedOnlyAfterWindow == [][\A l \in Leases : Ends(l) => lease[l].end < now]_lease

(* The bookings that replace those of S; all that come after l in its chain. *)
Replacements(S) == {r \in Leases : lease[r].supersedes \in S}
Heirs(l) ==
  {r \in Leases : \A S \in SUBSET Leases : Replacements(S \cup {l}) \subseteq S => r \in S}
InService(l) ==
  /\ lease[l].job # NoJob /\ job[lease[l].job].st = "SERVING"
  /\ ep[lease[l].job].state = "READY"

(* Rolling renewal is without a gap: whenever renew_worker cancels the job *)
(* of a booking, one that comes after it in its chain serves. That need    *)
(* not be its own replacement, which the same cycle may retire as well.    *)
HandoverWithoutGap ==
  [][\A l \in Leases : l \in renewer.pend \ renewer'.pend => \E r \in Heirs(l) : InService(r)]_renewer

-------------------------------------------------------------------------------
(* The workers implement LeaseContract. A booking is asked for from the    *)
(* scan, the claim or the insertion that decides it until Slurm answers.   *)
Asked(l) ==
  \/ creating[l].step = "submit"
  \/ l \in submitter.todo /\ submitter.cur # l
  \/ retrier.cur = l /\ retrier.step \in {"cancel", "submit"}

Phase(l) ==
  CASE lease[l].state = "NONE" -> "none"
    [] lease[l].state \in Finished -> "closed"
    [] lease[l].state = "PLANNED" /\ l \notin submitter.todo -> "booked"
    [] OTHER -> "open"

Contract ==
  INSTANCE LeaseContract WITH
    contract <- [l \in Leases |-> [phase |-> Phase(l), asked |-> Asked(l),
                                   held |-> LiveJobs(l) # {}, tries |-> lease[l].retries]]

(* The seven coroutines, each with its own view of the table across its    *)
(* awaits, deal with Slurm as if one of them at a time did: one request or *)
(* job per booking, retries within their budget, and nothing asked for     *)
(* after the end.                                                          *)
KeepsContract == Contract!Spec

-------------------------------------------------------------------------------
(* Fairness.  Every coroutine is scheduled again after each await and      *)
(* after each sleep; awaits end (calls have timeouts); a registration in   *)
(* flight arrives; a crashed process is restarted; time passes.  Users,    *)
(* Slurm's choice of when to start a job, and faults are not fair.         *)
Fairness ==
  /\ WF_vars(Submitter) /\ WF_vars(Retrier) /\ WF_vars(Cleaner)
  /\ WF_vars(Reconciler) /\ WF_vars(Prober) /\ WF_vars(Renewer)
  /\ \A l \in Leases : WF_vars(Handler(l))
  /\ \A j \in Jobs : WF_vars(Registration(j))
  /\ WF_vars(ReconcileOnStartup \/ TakeOver) /\ WF_vars(Clock)

FairSpec == Spec /\ Fairness

(* With a cluster that finds room for every job it is given, sooner or     *)
(* later, and where a model that starts also loads.                        *)
Progress(j) == (JobStarts(j) \/ ModelLoads(j)) /\ UNCHANGED <<workerVars, up, crashes>>
FairClusterSpec == FairSpec /\ \A j \in Jobs : WF_vars(Progress(j))

(* A planned booking whose start has come is submitted, failed, cancelled  *)
(* or ended, crashes and refused submissions notwithstanding.              *)
DuePlannedIsTakenUp ==
  \A l \in Leases :
    lease[l].state = "PLANNED" /\ lease[l].begin <= now + SubmitLead
      ~> lease[l].state # "PLANNED"

(* RETRYING is a passing state: a crash between the claim and the answer   *)
(* does not leave the booking where no worker looks at it.                 *)
RetryingIsResolved ==
  \A l \in Leases : lease[l].state = "RETRYING" ~> lease[l].state # "RETRYING"

(* An active booking whose job has left Slurm does not stay active.        *)
LostJobIsNoticed ==
  \A l \in Leases :
    lease[l].state \in Active /\ JobLost(l) ~> ~(lease[l].state \in Active /\ JobLost(l))

(* A job of a cancelled booking does not keep running, even when it is     *)
(* recorded after the cancellation: cleanup finds its endpoint.            *)
Runs(l) == lease[l].job # NoJob /\ job[lease[l].job].st \in Live \ {"PENDING"}
CanceledJobStopsRunning ==
  \A l \in Leases :
    lease[l].state = "CANCELED" /\ Runs(l) ~> ~(lease[l].state = "CANCELED" /\ Runs(l))

(* A session booking whose window is over is finished, whatever state its  *)
(* window ended in and however often it was extended or shortened.         *)
Expired(l) == ~IsPermanent(l) /\ lease[l].mode = "session" /\ lease[l].end < now
ExpiredIsFinished ==
  \A l \in Leases :
    lease[l].state # "NONE" /\ Expired(l) ~> lease[l].state \in Finished \/ ~Expired(l)

(* A permanent deployment that failed is brought back, however often it    *)
(* failed before (short of the bound on attempts).                         *)
PermanentIsResurrected ==
  \A l \in Leases :
    IsPermanent(l) /\ lease[l].state = "FAILED"
      ~> lease[l].state # "FAILED" \/ ~IsPermanent(l) \/ lease[l].retries = MaxAttempts
===============================================================================
