---------------------------- MODULE SlurmReconcile ----------------------------
(***************************************************************************)
(* slurm_reconcile_worker: a booking whose job has left Slurm is FAILED, a *)
(* FAILED booking whose window is over is ENDED.                           *)
(*                                                                         *)
(* reconciler.checks: the <<booking, job>> pairs of the scan;              *)
(* reconciler.expiry: the failed bookings past their end; reconciler.gone: *)
(* the jobs the controller does not list; step: what is awaited.           *)
(***************************************************************************)
EXTENDS LeaseStore

VARIABLE reconciler

ReconcilerIdle ==
  [checks |-> {}, expiry |-> {}, gone |-> {}, step |-> "none", now |-> 0]

ReconcilerTypeOK ==
  reconciler \in [checks : SUBSET (Leases \X Jobs), expiry : SUBSET Leases,
                  gone : SUBSET Jobs, step : {"none", "squeue", "sacct"}, now : Time]

(* The checks that turn into a FAILED booking: the job is gone, and the    *)
(* booking, looked at again, is still active.                              *)
LostUnchecked(checks, gone) == {c \in checks : c[2] \in gone}        \* mutant
LostRunning(checks, gone) ==                                        \* mutant
  {c \in checks : c[2] \in gone /\ lease[c[1]].state = "RUNNING"}
Lost(checks, gone) == {c \in checks : c[2] \in gone /\ lease[c[1]].state \in Active}

RetryingExpiry == {l \in Leases : lease[l].state = "RETRYING" /\ WindowOver(l)}  \* mutant
FailedExpiry == {l \in Leases : lease[l].state \in {"FAILED", "RETRYING"} /\ WindowOver(l)}

(* Phase 3, on the tables as they are now: end the failed bookings of      *)
(* `expiry`, fail the bookings of `checks` whose job is in `gone`.         *)
ReconcileWrite(checks, expiry, gone, at) ==
  LET ended == {l \in expiry : lease[l].state = "FAILED"}
      lost == Lost(checks, gone)
  IN  /\ lease' = [l \in Leases |->
                     IF l \in ended THEN [lease[l] EXCEPT !.state = "ENDED"]
                     ELSE IF \E c \in lost : c[1] = l
                     THEN Fail(lease[l], at)
                     ELSE lease[l]]
      /\ ep' = [j \in Jobs |->
                  IF ep[j].state = "NONE" THEN ep[j]
                  ELSE IF \E c \in lost : c[2] = j THEN [ep[j] EXCEPT !.state = "FAILED"]
                  ELSE IF \E l \in ended : lease[l].job = j
                  THEN [ep[j] EXCEPT !.state = "STOPPED"]
                  ELSE ep[j]]

(* Phase 1.  With nothing to ask Slurm, Phase 3 follows without an await.  *)
ReconcileScan ==
  LET checks == {c \in Leases \X Jobs :
                   lease[c[1]].state \in Active /\ lease[c[1]].job = c[2]}
  IN  /\ reconciler = ReconcilerIdle
      /\ IF checks = {}
         THEN ReconcileWrite({}, FailedExpiry, {}, now) /\ UNCHANGED reconciler
         ELSE /\ reconciler' = [checks |-> checks, expiry |-> FailedExpiry, gone |-> {},
                                step |-> "squeue", now |-> now]
              /\ UNCHANGED <<lease, ep>>
      /\ UNCHANGED <<now, job>>

(* Phase 2: one squeue call for all jobs; 2b: sacct for the missing ones.  *)
ReconcileQuery ==
  /\ reconciler.step = "squeue"
  /\ \E gone \in Answers :
       reconciler' = [reconciler EXCEPT !.step = "sacct",
                                        !.gone = gone \cap {c[2] : c \in reconciler.checks}]
  /\ UNCHANGED storeVars

(* The controller does not answer: the cycle is skipped. *)
ReconcileUnavailable ==
  /\ "squeue" \in Faults
  /\ reconciler.step # "none"
  /\ reconciler' = ReconcilerIdle
  /\ UNCHANGED storeVars

ReconcileApply ==
  /\ reconciler.step = "sacct"
  /\ ReconcileWrite(reconciler.checks, reconciler.expiry, reconciler.gone, reconciler.now)
  /\ reconciler' = ReconcilerIdle
  /\ UNCHANGED <<now, job>>

ReconcileStep == ReconcileQuery \/ ReconcileUnavailable \/ ReconcileApply
ReconcileNext == ReconcileScan \/ ReconcileStep
===============================================================================
