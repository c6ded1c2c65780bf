---------------------------- MODULE EndpointCleanup ----------------------------
(***************************************************************************)
(* endpoint_cleanup_worker: cancels the jobs of bookings that are over and *)
(* stops their endpoints.  It starts from the endpoints table, so a job    *)
(* that never registered is invisible to it.                               *)
(*                                                                         *)
(* cleaner.acts holds the decisions of the scan, cleaner.pend those whose  *)
(* scancel has not been awaited yet.                                       *)
(***************************************************************************)
EXTENDS LeaseStore

VARIABLE cleaner

CleanerIdle == [acts |-> {}, pend |-> {}]
ExpiredOnly == [job : Jobs, lease : Leases, why : {"expired"}]      \* mutant
CleanupAction == [job : Jobs, lease : Leases, why : {"expired", "lease_done"}]

CleanerTypeOK ==
  cleaner \in [acts : SUBSET CleanupAction, pend : SUBSET CleanupAction]

(* Locked bookings and service deployments outlive their window. *)
Protected(l) ==
  lease[l].state \notin Finished /\ (lease[l].locked \/ lease[l].mode = "service")

(* Phase 1: which endpoints to retire, and why. *)
CleanupActions ==
  {a \in CleanupAction :
     /\ ep[a.job].state \in {"READY", "STARTING", "FAILED"}
     /\ lease[a.lease].job = a.job
     /\ ~Protected(a.lease)
     /\ \/ a.why = "expired" /\ WindowOver(a.lease)
        \/ /\ a.why = "lease_done" /\ ~WindowOver(a.lease)
           /\ lease[a.lease].state \in Finished}

CleanupScan ==
  /\ cleaner = CleanerIdle
  /\ CleanupActions # {}
  /\ cleaner' = [acts |-> CleanupActions, pend |-> CleanupActions]
  /\ UNCHANGED storeVars

(* Phase 2: scancel one after the other, no session open. *)
CleanupCancel(a) ==
  /\ a \in cleaner.pend
  /\ Scancel(a.job)
  /\ cleaner' = [cleaner EXCEPT !.pend = @ \ {a}]
  /\ UNCHANGED <<now, lease, ep>>

(* Phase 3: the endpoint is stopped and an expired booking ended, on the   *)
(* strength of the scan's decision.                                        *)
CleanupWrite ==
  /\ cleaner.acts # {} /\ cleaner.pend = {}
  /\ ep' = [j \in Jobs |->
              IF \E a \in cleaner.acts : a.job = j
              THEN [ep[j] EXCEPT !.state = "STOPPED"]
              ELSE ep[j]]
  /\ lease' = [l \in Leases |->
                 IF /\ \E a \in cleaner.acts : a.lease = l /\ a.why = "expired"
                    /\ lease[l].state \in {"RUNNING", "FAILED"}
                 THEN [lease[l] EXCEPT !.state = "ENDED"]
                 ELSE lease[l]]
  /\ cleaner' = CleanerIdle
  /\ UNCHANGED <<now, job>>

CleanupStep == (\E a \in cleaner.pend : CleanupCancel(a)) \/ CleanupWrite
CleanupNext == CleanupScan \/ CleanupStep
===============================================================================
