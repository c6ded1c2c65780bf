------------------------------- MODULE Scheduler -------------------------------
(***************************************************************************)
(* The scheduler process: the six background workers that touch bookings,  *)
(* the request handlers and the cluster, interleaved at every await, with  *)
(* crashes and the reconciliation a restart begins with (main.py).         *)
(***************************************************************************)
EXTENDS PlannedSubmit, RetryWorker, EndpointCleanup, SlurmReconcile, HealthWorker,
        RenewWorker, Bookings

CONSTANTS
  MaxCrashes,     \* bound: crashes of the process
  HA              \* ha_enabled: a second instance stands by

ASSUME SchedulerConstants == MaxCrashes \in Nat /\ HA \in BOOLEAN

VARIABLES
  up,             \* the workers run, past the startup reconciliation
  crashes         \* how often it has died

handlers == <<creating, request, registering>>
workerVars == <<submitter, retrier, cleaner, reconciler, prober, renewer, handlers>>
vars == <<storeVars, workerVars, up, crashes>>

AllIdle ==
  /\ submitter = SubmitterIdle /\ retrier = RetrierIdle /\ cleaner = CleanerIdle
  /\ reconciler = ReconcilerIdle /\ prober = ProberIdle /\ renewer = RenewerIdle
  /\ creating = [l \in Leases |-> NotCreating]
  /\ request = [l \in Leases |-> NoRequest]
  /\ registering = {}

TypeOK ==
  /\ StoreTypeOK /\ SubmitterTypeOK /\ RetrierTypeOK /\ CleanerTypeOK
  /\ ReconcilerTypeOK /\ ProberTypeOK /\ RenewerTypeOK /\ RequestTypeOK
  /\ up \in BOOLEAN /\ crashes \in 0..MaxCrashes

Init == StoreInit /\ AllIdle /\ up = TRUE /\ crashes = 0

-------------------------------------------------------------------------------
(* Every coroutine loses what it held; Slurm and the tables do not.        *)
Crash ==
  /\ "crash" \in Faults /\ up /\ crashes < MaxCrashes
  /\ up' = FALSE
  /\ crashes' = crashes + 1
  /\ submitter' = SubmitterIdle /\ retrier' = RetrierIdle /\ cleaner' = CleanerIdle
  /\ reconciler' = ReconcilerIdle /\ prober' = ProberIdle /\ renewer' = RenewerIdle
  /\ creating' = [l \in Leases |-> NotCreating]
  /\ request' = [l \in Leases |-> NoRequest]
  /\ registering' = {}
  /\ UNCHANGED storeVars

(* A booking after step 1 of reconcile_on_startup (its job is gone), step  *)
(* 2 (planned, but its window is over) and step 2b (left RETRYING by a     *)
(* crash).                                                                 *)
RestartedNoRetrying(l, gone) ==                                  \* mutant: no step 2b
  LET r == lease[l]
  IN  IF r.state = "PLANNED" /\ WindowOver(l) THEN [r EXCEPT !.state = "ENDED"]
      ELSE IF r.state \in Active /\ r.job \in gone THEN Fail(r, now)
      ELSE r

RestartedLease(l, gone) ==
  LET r == lease[l]
  IN  IF r.state = "PLANNED" /\ WindowOver(l) THEN [r EXCEPT !.state = "ENDED"]
      ELSE IF r.state = "RETRYING" \/ (r.state \in Active /\ r.job \in gone)
      THEN Fail(r, now)
      ELSE r

(* Steps 1 and 3, each with a query of its own.  Step 3 looks at the       *)
(* bookings as they were committed before this pass.                       *)
RestartedEndpoint(j, gone, goneAgain) ==
  LET HeldIn(S) == \E l \in LeasesOf(j) : lease[l].state \in S
      e == ep[j]
  IN  IF j \in goneAgain /\ e.state \in {"STARTING", "READY"} /\ ~HeldIn(Active)
      THEN [e EXCEPT !.state = "STOPPED"]
      ELSE IF j \in gone /\ e.state # "NONE" /\ HeldIn(Active \cup {"RETRYING"})
      THEN [e EXCEPT !.state = "FAILED"]
      ELSE e

(* A query that is not answered reports nothing as gone. *)
AnswersAtStartup == Answers \cup (IF "squeue" \in Faults THEN {{}} ELSE {})

ReconcileOnStartup ==
  /\ ~up
  /\ up' = TRUE
  /\ \E gone \in AnswersAtStartup : \E goneAgain \in AnswersAtStartup :
       /\ lease' = [l \in Leases |-> RestartedLease(l, gone)]
       /\ ep' = [j \in Jobs |-> RestartedEndpoint(j, gone, goneAgain)]
  /\ UNCHANGED <<now, job, crashes, workerVars>>

(* A follower that becomes the leader starts the workers' loops; its own   *)
(* startup, with the reconciliation it left out, is long past.             *)
TakeOver ==
  /\ HA /\ ~up
  /\ up' = TRUE
  /\ UNCHANGED <<storeVars, crashes, workerVars>>

-------------------------------------------------------------------------------
(* A step of one coroutine leaves the others where they are.               *)
Running == up /\ UNCHANGED <<up, crashes>>

Submitter == /\ Running /\ SubmitNext
             /\ UNCHANGED <<retrier, cleaner, reconciler, prober, renewer, handlers>>
Retrier == /\ Running /\ RetryNext
           /\ UNCHANGED <<submitter, cleaner, reconciler, prober, renewer, handlers>>
Cleaner == /\ Running /\ CleanupNext
           /\ UNCHANGED <<submitter, retrier, reconciler, prober, renewer, handlers>>
Reconciler == /\ Running /\ ReconcileNext
              /\ UNCHANGED <<submitter, retrier, cleaner, prober, renewer, handlers>>
Prober == /\ Running /\ HealthNext
          /\ UNCHANGED <<submitter, retrier, cleaner, reconciler, renewer, handlers>>
Renewer == /\ Running /\ RenewNext
           /\ UNCHANGED <<submitter, retrier, cleaner, reconciler, prober, handlers>>
Users == /\ Running /\ RequestArrives
         /\ UNCHANGED <<submitter, retrier, cleaner, reconciler, prober, renewer, registering>>
Handler(l) == /\ Running /\ RequestStep(l)
              /\ UNCHANGED <<submitter, retrier, cleaner, reconciler, prober, renewer, registering>>
Registration(j) ==
  /\ Running /\ (RegisterEndpoint(j) \/ RegisterLease(j))
  /\ UNCHANGED <<submitter, retrier, cleaner, reconciler, prober, renewer, creating, request>>
Clock == Tick /\ UNCHANGED <<workerVars, up, crashes>>
Cluster == ClusterNext /\ UNCHANGED <<workerVars, up, crashes>>

Next ==
  \/ Submitter \/ Retrier \/ Cleaner \/ Reconciler \/ Prober \/ Renewer
  \/ Users \/ \E l \in Leases : Handler(l)
  \/ \E j \in Jobs : Registration(j)
  \/ Clock \/ Cluster \/ Crash \/ ReconcileOnStartup \/ TakeOver

Spec == Init /\ [][Next]_vars
===============================================================================
