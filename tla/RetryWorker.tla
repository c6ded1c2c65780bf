------------------------------ MODULE RetryWorker ------------------------------
(***************************************************************************)
(* retry_worker: resubmits FAILED bookings, a bounded number of times for  *)
(* an ordinary one and with a growing delay, for ever, for a permanent one *)
(* (renew.py, should_retry).                                               *)
(*                                                                         *)
(* retrier.todo: the candidates of the cycle; retrier.cur: the one being   *)
(* resubmitted, at retrier.step: "cancel" (awaiting scancel of the old     *)
(* job), "submit" (awaiting sbatch), "record" (sbatch answered with        *)
(* retrier.job).                                                           *)
(***************************************************************************)
EXTENDS LeaseStore

CONSTANTS
  MaxRetries,     \* vllm_max_retries
  RetryDelay,     \* vllm_retry_delay_seconds
  MinRemaining,   \* what must be left of the window (120 s)
  RenewalMargin,  \* a window ending sooner than this is pushed (5 min)
  BackoffBase, BackoffMax

ASSUME RetryConstants ==
  /\ {MaxRetries, RetryDelay, MinRemaining, RenewalMargin} \subseteq Nat
  /\ {BackoffBase, BackoffMax} \subseteq Nat
  /\ MaxRetries <= MaxAttempts

VARIABLE retrier

RetrierIdle ==
  [todo |-> {}, cur |-> NoLease, step |-> "none", job |-> NoJob, now |-> 0]

RetrierTypeOK ==
  retrier \in [todo : SUBSET Leases, cur : Leases \cup {NoLease},
               step : {"none", "cancel", "submit", "record"},
               job : Jobs \cup {NoJob}, now : Time]

RetryBackoff(retries) ==
  LET wait == BackoffBase * 2 ^ retries IN IF wait < BackoffMax THEN wait ELSE BackoffMax

ShouldRetryOnceMore(l) ==                                           \* mutant
  LET since == now - lease[l].failedAt
  IN  /\ lease[l].failedAt # Never
      /\ IF IsPermanent(l) THEN since >= RetryBackoff(lease[l].retries)
         ELSE /\ lease[l].retries <= MaxRetries
              /\ since >= RetryDelay
              /\ lease[l].end - now >= MinRemaining

ShouldRetryOrdinary(l) ==                                           \* mutant
  /\ lease[l].failedAt # Never
  /\ lease[l].retries < MaxRetries
  /\ now - lease[l].failedAt >= RetryDelay
  /\ lease[l].end - now >= MinRemaining

ShouldRetry(l) ==
  LET since == now - lease[l].failedAt
  IN  /\ lease[l].failedAt # Never
      /\ IF IsPermanent(l) THEN since >= RetryBackoff(lease[l].retries)
         ELSE /\ lease[l].retries < MaxRetries
              /\ since >= RetryDelay
              /\ lease[l].end - now >= MinRemaining

RetrierAfter(l) ==
  LET rest == retrier.todo \ {l}
  IN  IF rest = {} THEN RetrierIdle
      ELSE [RetrierIdle EXCEPT !.todo = rest, !.now = retrier.now]

(* Phase 1: the candidates; a permanent one gets a fresh window. *)
RetryScan ==
  LET due == {l \in Leases : lease[l].state = "FAILED" /\ ShouldRetry(l)}
      pushed == {l \in due : IsPermanent(l) /\ lease[l].end < now + RenewalMargin}
  IN  /\ retrier = RetrierIdle
      /\ due # {}
      /\ retrier' = [RetrierIdle EXCEPT !.todo = due, !.now = now]
      /\ lease' = [l \in Leases |->
                     IF l \in pushed
                     THEN [lease[l] EXCEPT !.begin = now, !.end = now + RenewWindow]
                     ELSE lease[l]]
      /\ UNCHANGED <<now, job, ep>>

(* Phase 2a: claim the booking as RETRYING and retire its old endpoint.    *)
RetryClaim(l) ==
  /\ retrier.cur = NoLease /\ l \in retrier.todo
  /\ lease[l].state = "FAILED"
  /\ lease[l].retries < MaxAttempts
  /\ lease' = [lease EXCEPT ![l].state = "RETRYING", ![l].retries = @ + 1]
  /\ ep' = [j \in Jobs |->
              IF j = lease[l].job /\ ep[j].state # "NONE"
              THEN [ep[j] EXCEPT !.state = "STOPPED"]
              ELSE ep[j]]
  /\ retrier' = [retrier EXCEPT !.cur = l, !.job = lease[l].job,
                                !.step = IF lease[l].job = NoJob THEN "submit" ELSE "cancel"]
  /\ UNCHANGED <<now, job>>

(* Somebody took the booking out of FAILED since the scan (or the bound on *)
(* attempts is reached): on to the next candidate.                         *)
RetrySkip(l) ==
  /\ retrier.cur = NoLease /\ l \in retrier.todo
  /\ lease[l].state # "FAILED" \/ lease[l].retries = MaxAttempts
  /\ retrier' = RetrierAfter(l)
  /\ UNCHANGED storeVars

RetryCancel ==
  /\ retrier.step = "cancel"
  /\ Scancel(retrier.job)
  /\ retrier' = [retrier EXCEPT !.step = "submit", !.job = NoJob]
  /\ UNCHANGED <<now, lease, ep>>

(* Phase 2b *)
RetrySbatch ==
  /\ retrier.step = "submit"
  /\ \E j \in Jobs :
       /\ Sbatch(j, retrier.cur)
       /\ retrier' = [retrier EXCEPT !.step = "record", !.job = j]
  /\ UNCHANGED <<now, lease, ep>>

(* Phase 2c: written back whatever has become of the booking meanwhile. *)
RetryRecord ==
  LET l == retrier.cur
  IN  /\ retrier.step = "record"
      /\ lease' = [lease EXCEPT ![l].job = retrier.job, ![l].state = "SUBMITTED",
                                ![l].failedAt = Never]
      /\ retrier' = RetrierAfter(l)
      /\ UNCHANGED <<now, job, ep>>

RetryFails ==
  LET l == retrier.cur
  IN  /\ retrier.step = "submit"
      /\ SbatchRaises(l)
      /\ lease' = IF lease[l].state = "RETRYING"
                  THEN [lease EXCEPT ![l] = Fail(@, retrier.now)]
                  ELSE lease
      /\ retrier' = RetrierAfter(l)
      /\ UNCHANGED <<now, ep>>

RetryStep ==
  \/ \E l \in Leases : RetryClaim(l) \/ RetrySkip(l)
  \/ RetryCancel \/ RetrySbatch \/ RetryRecord \/ RetryFails
RetryNext == RetryScan \/ RetryStep
===============================================================================
