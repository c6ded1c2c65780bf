----------------------------- MODULE HealthWorker -----------------------------
(***************************************************************************)
(* health_worker: probes the endpoints that are STARTING or READY, all at  *)
(* once, and moves endpoints and their bookings on the outcome.            *)
(*                                                                         *)
(* prober.checks: the endpoints of the cycle; prober.ok: those that        *)
(* answered.  Scan and probes are one step: Phase 3 only uses the row      *)
(* numbers of the scan and looks at every row again.                       *)
(***************************************************************************)
EXTENDS LeaseStore

CONSTANTS
  FailThreshold,    \* READY_FAIL_THRESHOLD
  HealthTimeout     \* vllm_health_timeout_seconds

ASSUME HealthConstants == FailThreshold \in Nat \ {0} /\ HealthTimeout \in Nat

VARIABLE prober

ProberIdle == [checks |-> {}, ok |-> {}, now |-> 0]

ProberTypeOK == prober \in [checks : SUBSET Jobs, ok : SUBSET Jobs, now : Time]

Probed == {j \in Jobs : ep[j].state \in {"STARTING", "READY"}}

(* Phases 1 and 2: only a job that serves can answer the probe. *)
HealthProbe ==
  LET serving == {j \in Probed : job[j].st = "SERVING"}
  IN  /\ prober = ProberIdle
      /\ Probed # {}
      /\ \E ok \in SUBSET serving :
           /\ "probe" \in Faults \/ ok = serving
           /\ prober' = [checks |-> Probed, ok |-> ok, now |-> now]
      /\ UNCHANGED storeVars

(* What Phase 3 makes of one endpoint; later states are left alone. *)
CheckedEndpoint(j) ==
  LET e == ep[j]
      fails == e.fails + 1
  IN  IF j \notin Probed \cap prober.checks THEN e
      ELSE IF j \in prober.ok THEN [e EXCEPT !.state = "READY", !.fails = 0]
      ELSE IF e.state = "READY"
      THEN [e EXCEPT !.fails = fails,
                     !.state = IF fails >= FailThreshold THEN "FAILED" ELSE "READY"]
      ELSE [e EXCEPT !.state = IF prober.now - e.born > HealthTimeout
                               THEN "FAILED" ELSE "STARTING"]

Became(j, state) == CheckedEndpoint(j).state = state /\ ep[j].state # state

(* The booking of an endpoint that started, stopped answering or never     *)
(* started; the fallback pass then repairs the bookings of endpoints that  *)
(* were READY in the tables before this pass.                              *)
CheckedLease(l) ==
  LET r == lease[l]
      j == r.job
      Starts == r.state \in {"SUBMITTED", "STARTING"}
  IN  IF j = NoJob THEN r
      ELSE IF Starts /\ (Became(j, "READY") \/ ep[j].state = "READY")
      THEN [r EXCEPT !.state = "RUNNING", !.retries = 0]
      ELSE IF Became(j, "FAILED")
              /\ IF ep[j].state = "READY" THEN r.state = "RUNNING" ELSE Starts
      THEN Fail(r, prober.now)
      ELSE r

(* Phase 3 *)
HealthApply ==
  /\ prober.checks # {}
  /\ ep' = [j \in Jobs |-> CheckedEndpoint(j)]
  /\ lease' = [l \in Leases |-> CheckedLease(l)]
  /\ prober' = ProberIdle
  /\ UNCHANGED <<now, job>>

HealthNext == HealthProbe \/ HealthApply
===============================================================================
