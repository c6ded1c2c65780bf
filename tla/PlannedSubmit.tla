----------------------------- MODULE PlannedSubmit -----------------------------
(***************************************************************************)
(* planned_submit_worker: submits the bookings whose start has come.       *)
(*                                                                         *)
(* submitter.todo holds the snapshots of the current cycle that are still  *)
(* to be submitted, submitter.cur the one whose sbatch has been answered   *)
(* with submitter.job but not yet recorded.                                *)
(***************************************************************************)
EXTENDS LeaseStore

CONSTANT SubmitLead       \* scheduler_submit_lead_seconds

ASSUME SubmitConstants == SubmitLead \in Nat

VARIABLE submitter

SubmitterIdle == [todo |-> {}, cur |-> NoLease, job |-> NoJob, now |-> 0]

SubmitterTypeOK ==
  submitter \in [todo : SUBSET Leases, cur : Leases \cup {NoLease},
                 job : Jobs \cup {NoJob}, now : Time]

(* The cycle goes on with the other snapshots, or sleeps. *)
SubmitterAfter(l) ==
  LET rest == submitter.todo \ {l}
  IN  IF rest = {} THEN SubmitterIdle
      ELSE [submitter EXCEPT !.todo = rest, !.cur = NoLease, !.job = NoJob]

PlannedOrFailed == {l \in Leases : lease[l].state \in {"PLANNED", "FAILED"}}  \* mutant
Planned == {l \in Leases : lease[l].state = "PLANNED"}

Due(l) == lease[l].begin <= now + SubmitLead

(* Phase 1: end the bookings whose window is over, snapshot the due ones. *)
SubmitScan ==
  LET expired == {l \in Planned : WindowOver(l)}
      due == {l \in Planned \ expired : Due(l)}
  IN  /\ submitter = SubmitterIdle
      /\ lease' = [l \in Leases |->
                     IF l \in expired THEN [lease[l] EXCEPT !.state = "ENDED"]
                     ELSE lease[l]]
      /\ submitter' = IF due = {} THEN SubmitterIdle
                      ELSE [SubmitterIdle EXCEPT !.todo = due, !.now = now]
      /\ UNCHANGED <<now, job, ep>>

(* The snapshots are taken one after the other.  The code takes them by    *)
(* start time; here the order is left open.                                *)
IsNextSnapshot(l) == submitter.cur = NoLease /\ l \in submitter.todo

(* Phase 2: Slurm accepts the job while the worker awaits the answer. *)
SubmitSbatch(l) ==
  /\ IsNextSnapshot(l)
  /\ \E j \in Jobs :
       /\ Sbatch(j, l)
       /\ submitter' = [submitter EXCEPT !.cur = l, !.job = j]
  /\ UNCHANGED <<now, lease, ep>>

(* Phase 3: "state changed during submit, skipping" drops the job number. *)
SubmitRecord(l) ==
  /\ submitter.cur = l
  /\ lease' = IF lease[l].state = "PLANNED"
              THEN [lease EXCEPT ![l].job = submitter.job, ![l].state = "SUBMITTED"]
              ELSE lease
  /\ submitter' = SubmitterAfter(l)
  /\ UNCHANGED <<now, job, ep>>

SubmitGivesUp(l) ==                                        \* mutant: row left PLANNED
  /\ IsNextSnapshot(l)
  /\ SbatchRaises(l)
  /\ submitter' = SubmitterAfter(l)
  /\ UNCHANGED <<now, lease, ep>>

(* The submission raised. *)
SubmitFails(l) ==
  /\ IsNextSnapshot(l)
  /\ SbatchRaises(l)
  /\ lease' = IF lease[l].state = "PLANNED"
              THEN [lease EXCEPT ![l] = Fail(@, submitter.now)]
              ELSE lease
  /\ submitter' = SubmitterAfter(l)
  /\ UNCHANGED <<now, ep>>

SubmitStep == \E l \in Leases : SubmitSbatch(l) \/ SubmitRecord(l) \/ SubmitFails(l)
SubmitNext == SubmitScan \/ SubmitStep
===============================================================================
