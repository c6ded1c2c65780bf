-------------------------- MODULE BuildProperties --------------------------
(* What the image builds and the Slurm client promise, and their fairness. *)
EXTENDS ImageBuild

(* Everything stays in its range, and the token lock belongs to a caller   *)
(* that is getting a token.                                                *)
TypeOK ==
  /\ issued \in 0 .. MaxTokens /\ due \subseteq Tokens /\ dead \subseteq Tokens
  /\ cache \in 0 .. issued
  /\ call \in [Callers -> [pc : CallPhases, token : 0 .. MaxTokens,
                           rejected : 0 .. MaxTokens, answer : Answers]]
  /\ lock \in Callers \cup {Nobody} /\ (lock # Nobody => call[lock].pc = "fetch")
  /\ state \in [Builds -> States] /\ finished \subseteq numbered
  /\ start \in [Builds -> {"idle", "submitting", "answered"}]
  /\ cancel \in [Builds -> {"idle", "canceling"}]
  /\ job \in [Builds -> Underway \cup {"none", "completed", "killed"}]
  /\ numbered \subseteq {b \in Builds : job[b] # "none"}
  /\ disk \in [Paths -> {"absent", "partial", "whole"}]
  /\ worker \in [pc : {"idle", "squeue", "sacct"}, watching : SUBSET numbered,
                 queue : SUBSET Builds, running : SUBSET Builds, remembered : SUBSET Builds]
  /\ worker.running \subseteq worker.queue /\ worker.queue \subseteq worker.watching
  /\ worker.remembered \subseteq Gone
  /\ crashes \in 0 .. MaxCrashes

(* A call that was rejected is tried again with a token that was minted    *)
(* after the rejected one, whatever the other callers do to the cache.     *)
(* (_request and TokenProvider.invalidate, with a token command)           *)
RetryHasNewToken ==
  \A c \in Callers : TokenMode = "command" /\ Retried(c) /\ call[c].pc = "sent"
                       => call[c].token > call[c].rejected

(* Somebody who is at the token source has a reason to be there: of the    *)
(* callers that found a token due, one renews it for all of them.          *)
(* (TokenProvider.get)                                                     *)
NoNeedlessRefresh == lock # Nobody => NeedsRefresh

(* No job is alive that image_build_worker has judged: a Slurm that cannot *)
(* be reached, or rejects the token, is never read as an empty queue.      *)
(* (image_build_worker and _request)                                       *)
JudgedJobsAreGone == \A b \in finished : ~Alive(b)

(* The name of an image never stands for a partial file, not even when the *)
(* job of a cancelled build and its successor write the same image, or a   *)
(* job is killed at any point. (apptainer_build.sh)                        *)
FinalNameIsWhole == \A n \in Names : disk[Final(n)] # "partial"

(* A build whose job has left the queue and whose image is there does not  *)
(* stay active, unless another one that ended without an image makes the   *)
(* cycles of image_build_worker fail. (image_build_worker)                 *)
Ended(b) == Active(b) /\ b \in numbered /\ ~Alive(b)
EndedWithout(b) == Ended(b) /\ ~Exists(Final(NameOf[b]))
PublishedBuildsEnd ==
  \A b \in Builds :
    Ended(b) /\ Exists(Final(NameOf[b])) ~> ~Active(b) \/ \E c \in Builds \ {b} : EndedWithout(c)

(* A build that left the queue is judged, also if there is no image. The   *)
(* code promises it and does not keep it. (image_build_worker)             *)
WatchedBuildsEnd == \A b \in Builds : Ended(b) ~> ~Active(b)

(* A call makes progress: a request times out, a source too. The worker    *)
(* loops; its turn at the lock comes; and a Slurm that is away, or a token *)
(* source that fails, is not so for ever: a request is answered some day.  *)
Client(A) == A /\ UNCHANGED buildVars
Fairness ==
  /\ \A c \in Callers : WF_vars(Client(CallStep(c)))
  /\ SF_vars(Client(Acquire(Polling))) /\ SF_vars(Client(Fetch(Polling)))
  /\ SF_vars(Client(Reject(Polling))) /\ SF_vars(Client(Invalidate(Polling)))
  /\ SF_vars(QueueExecuted) /\ SF_vars(ExitExecuted)
  /\ WF_vars(WorkerStep)
FairSpec == Spec /\ Fairness
=============================================================================
