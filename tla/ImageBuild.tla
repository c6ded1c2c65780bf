----------------------------- MODULE ImageBuild -----------------------------
(***************************************************************************)
(* Building images: start_build, cancel_build and delete_image of          *)
(* images_api.py, image_build_worker of main.py, the job that they submit  *)
(* (templates/apptainer_build.sh), and the directory it writes to. All of  *)
(* the calls to Slurm go through SlurmClient, so a handler can be anywhere *)
(* in one of them when another one runs. The handlers of one process share *)
(* an event loop: an action is what happens between two awaits.            *)
(***************************************************************************)
EXTENDS SlurmClient

CONSTANTS
  Builds,     \* requests to build
  NameOf,     \* build -> the name of its image
  Overwrite,  \* builds that may replace an image
  InUse,      \* names that a runtime of cluster.yaml points at
  Locally,    \* builds on nodes whose scratch is another file system
  Cancelable, \* builds that are cancelled in this run
  Mounted,    \* the images directory can be seen from the scheduler
  NoBuild,
  MaxCrashes

VARIABLES
  state,      \* build -> ImageBuild.state; "NONE" before there is a row
  numbered,   \* builds whose row has a slurm_job_id
  finished,   \* builds whose row has a finished_at
  start,      \* build -> how far its start_build is
  cancel,     \* build -> how far its cancel_build is
  job,        \* build -> how far its job is
  disk,       \* path -> the file there
  worker,     \* image_build_worker
  crashes

rows == <<state, numbered, finished>>
handlers == <<start, cancel>>
buildVars == <<state, numbered, finished, start, cancel, job, disk, worker, crashes>>
vars == <<clientVars, buildVars>>

Names == {NameOf[b] : b \in Builds}
Starting(b) == <<"start", b>>
Canceling(b) == <<"cancel", b>>
Polling == <<"poll", NoBuild>>
BuildCallers ==
  {Starting(b) : b \in Builds} \cup {Canceling(b) : b \in Cancelable} \cup {Polling}

ASSUME CallersAssumption == BuildCallers \subseteq Callers
ASSUME CancelableAssumption == Cancelable \subseteq Builds
ASSUME CrashesAssumption == MaxCrashes \in Nat

(* Each job has working files of its own.                                  *)
Final(n) == <<n, "final", NoBuild>>
\* mutant
SharedStaging(b) == <<NameOf[b], "building", NoBuild>>
Staging(b) == <<NameOf[b], "building", b>>
Incoming(b) == <<NameOf[b], "incoming", b>>
Paths == Names \X {"final", "building", "incoming"} \X (Builds \cup {NoBuild})
Exists(path) == disk[path] # "absent"
Seen(path) == Mounted /\ Exists(path)

States == {"NONE", "SUBMITTED", "RUNNING", "SUCCEEDED", "FAILED", "CANCELED"}
Active(b) == state[b] \in {"SUBMITTED", "RUNNING"}
Underway == {"pending", "building", "built", "verified", "copying", "published"}
Alive(b) == job[b] \in Underway

NoWork == [pc |-> "idle", watching |-> {}, queue |-> {}, running |-> {}, remembered |-> {}]

(* Requests may never come, and tokens and crashes be used up already.     *)
BuildInit ==
  /\ state = [b \in Builds |-> "NONE"] /\ numbered = {} /\ finished = {}
  /\ start \in [Builds -> {"idle", "answered"}]
  /\ cancel = [b \in Builds |-> "idle"]
  /\ job = [b \in Builds |-> "none"]
  /\ disk = [path \in Paths |-> "absent"]
  /\ worker = NoWork
  /\ crashes \in 0 .. MaxCrashes

Init == ClientInit /\ BuildInit

-----------------------------------------------------------------------------
(* start_build *)

(* Checked and inserted without an await in between.                       *)
Clashes(b) ==
  \/ Seen(Final(NameOf[b])) /\ b \notin Overwrite
  \/ \E c \in Builds : NameOf[c] = NameOf[b] /\ Active(c)
StartBuild(b) ==
  /\ start[b] = "idle" /\ ~Clashes(b)
  /\ state' = [state EXCEPT ![b] = "SUBMITTED"]
  /\ start' = [start EXCEPT ![b] = "submitting"]
  /\ Begins(Starting(b))
  /\ UNCHANGED <<issued, due, dead, cache, lock, numbered, finished, cancel, job, disk, worker,
                 crashes>>
StartConflicts(b) ==
  /\ start[b] = "idle" /\ Clashes(b)
  /\ start' = [start EXCEPT ![b] = "answered"]
  /\ UNCHANGED <<clientVars, rows, cancel, job, disk, worker, crashes>>

(* slurmrestd takes the job or refuses it; the answer can get lost.        *)
SubmitExecuted(b) ==
  /\ start[b] = "submitting"
  /\ \E answer \in Answers \ {"none"} :
       /\ Executed(Starting(b), answer)
       /\ job' = IF answer = "refused" THEN job ELSE [job EXCEPT ![b] = "pending"]
  /\ UNCHANGED <<rows, handlers, disk, worker, crashes>>

(* Whatever has become of the row in the meantime.                         *)
StartReturns(b) ==
  /\ start[b] = "submitting" /\ Done(Starting(b))
  /\ IF Ok(Starting(b)) THEN numbered' = numbered \cup {b} /\ UNCHANGED state
     ELSE state' = [state EXCEPT ![b] = "FAILED"] /\ UNCHANGED numbered
  /\ start' = [start EXCEPT ![b] = "answered"]
  /\ Ends(Starting(b))
  /\ UNCHANGED <<issued, due, dead, cache, lock, finished, cancel, job, disk, worker, crashes>>

-----------------------------------------------------------------------------
(* cancel_build *)

Canceled(b) == state' = [state EXCEPT ![b] = "CANCELED"]

(* A build without a job number is not cancelled at Slurm.                 *)
CancelRow(b) ==
  /\ b \in Cancelable /\ cancel[b] = "idle" /\ Active(b)
  /\ b \notin numbered
  /\ Canceled(b)
  /\ UNCHANGED <<clientVars, numbered, finished, handlers, job, disk, worker, crashes>>
CancelBuild(b) ==
  /\ b \in Cancelable /\ cancel[b] = "idle" /\ Active(b)
  /\ b \in numbered
  /\ cancel' = [cancel EXCEPT ![b] = "canceling"]
  /\ Begins(Canceling(b))
  /\ UNCHANGED <<issued, due, dead, cache, lock, rows, start, job, disk, worker, crashes>>

(* A job that waits is gone at once; one that runs is told to end.         *)
CancelExecuted(b) ==
  /\ cancel[b] = "canceling"
  /\ \E answer \in Answers \ {"none"} :
       /\ Executed(Canceling(b), answer)
       /\ job' = IF job[b] = "pending" /\ answer # "refused" THEN [job EXCEPT ![b] = "killed"]
                 ELSE job
  /\ UNCHANGED <<rows, handlers, disk, worker, crashes>>

(* A refusal counts as success: the job has probably finished.             *)
CancelReturns(b) ==
  /\ cancel[b] = "canceling" /\ Done(Canceling(b))
  /\ IF call[Canceling(b)].answer = "unavailable" THEN UNCHANGED state ELSE Canceled(b)
  /\ cancel' = [cancel EXCEPT ![b] = "idle"]
  /\ Ends(Canceling(b))
  /\ UNCHANGED <<issued, due, dead, cache, lock, numbered, finished, start, job, disk, worker,
                 crashes>>

(* delete_image *)
DeleteImage(n) ==
  /\ ~\E b \in Builds : NameOf[b] = n /\ Active(b)
  /\ Seen(Final(n))
  /\ \E force \in BOOLEAN : n \in InUse => force
  /\ disk' = [disk EXCEPT ![Final(n)] = "absent"]
  /\ UNCHANGED <<clientVars, rows, handlers, job, worker, crashes>>

-----------------------------------------------------------------------------
(* apptainer_build.sh: built under a name of its own, verified, and renamed*)
(* into place; copied in between if it was built on a local disk.          *)

JobGoes(b, from, to) ==
  /\ job[b] = from
  /\ job' = [job EXCEPT ![b] = to]
  /\ UNCHANGED <<clientVars, rows, handlers, worker, crashes>>
Writes(path, content) == disk' = [disk EXCEPT ![path] = content]

JobStarts(b) == JobGoes(b, "pending", "building") /\ Writes(Staging(b), "partial")
JobBuilds(b) == JobGoes(b, "building", "built") /\ Writes(Staging(b), "whole")

(* It must run. What has been verified is not looked at again.             *)
JobVerifies(b) ==
  /\ disk[Staging(b)] = "whole"
  /\ JobGoes(b, "built", "verified") /\ UNCHANGED disk

(* Built elsewhere: to the images directory first, under a name of its own.*)
JobCopies(b) ==
  /\ b \in Locally /\ Exists(Staging(b))
  /\ JobGoes(b, "verified", "copying") /\ Writes(Incoming(b), "partial")

(* A copy must be of the same size.                                        *)
JobPublishes(b) ==
  /\ Exists(Staging(b))
  /\ JobGoes(b, IF b \in Locally THEN "copying" ELSE "verified", "published")
  /\ disk' = [disk EXCEPT ![Final(NameOf[b])] = disk[Staging(b)],
                          ![Staging(b)] = "absent", ![Incoming(b)] = "absent"]

(* The trap removes the job's own files, unless the job is killed outright.*)
Cleaned(b) == [disk EXCEPT ![Staging(b)] = "absent", ![Incoming(b)] = "absent"]
JobCompletes(b) == JobGoes(b, "published", "completed") /\ disk' = Cleaned(b)
JobDies(b) ==
  /\ Alive(b) /\ JobGoes(b, job[b], "killed")
  /\ disk' \in {disk, Cleaned(b)}

JobStep(b) ==
  \/ JobStarts(b) \/ JobBuilds(b) \/ JobVerifies(b) \/ JobCopies(b)
  \/ JobPublishes(b) \/ JobCompletes(b) \/ JobDies(b)

-----------------------------------------------------------------------------
(* image_build_worker *)

\* mutant
WatchesSubmitted == {b \in Builds : state[b] = "SUBMITTED" /\ b \in numbered}
Watched == {b \in Builds : Active(b) /\ b \in numbered}

Snapshot ==
  /\ worker.pc = "idle" /\ Watched # {}
  /\ worker' = [NoWork EXCEPT !.pc = "squeue", !.watching = Watched]
  /\ Begins(Polling)
  /\ UNCHANGED <<issued, due, dead, cache, lock, rows, handlers, job, disk, crashes>>

QueueExecuted ==
  /\ worker.pc = "squeue"
  /\ Executed(Polling, "ok")
  /\ worker' = [worker EXCEPT !.queue = {b \in worker.watching : Alive(b)},
                              !.running = {b \in worker.watching : Alive(b) /\ job[b] # "pending"}]
  /\ UNCHANGED <<rows, handlers, job, disk, crashes>>

Gone == worker.watching \ worker.queue

(* Slurm may remember how a job ended, or not, or not be reached for it.   *)
ExitExecuted ==
  /\ worker.pc = "sacct"
  /\ \E answer \in {"ok", "unavailable"}, jobs \in SUBSET Gone :
       /\ Executed(Polling, answer)
       /\ worker' = [worker EXCEPT !.remembered = jobs]
  /\ UNCHANGED <<rows, handlers, job, disk, crashes>>

(* A build that left the queue succeeded if its image is there. If not, or *)
(* if that cannot be seen, the end that Slurm remembers is looked at: with *)
(* exit_info.state, and exit_info is a dictionary. The exception takes the *)
(* whole cycle with it.                                                    *)
Judged == {b \in Gone : Active(b)}
ImageSeen(b) == Seen(Final(NameOf[b]))
Raises == \E b \in Judged : b \in worker.remembered /\ ~ImageSeen(b)
Write ==
  /\ state' = [b \in Builds |->
       CASE b \in Judged -> IF ImageSeen(b) THEN "SUCCEEDED" ELSE "FAILED"
         [] b \in worker.running /\ Active(b) -> "RUNNING"
         [] OTHER -> state[b]]
  /\ finished' = finished \cup Judged
Apply ==
  /\ IF Raises THEN UNCHANGED <<state, finished>> ELSE Write
  /\ worker' = NoWork
  /\ Ends(Polling)

(* A cycle in which squeue gets no answer is skipped.                      *)
QueueUnavailable ==
  /\ worker.pc = "squeue" /\ Done(Polling) /\ ~Ok(Polling)
  /\ worker' = NoWork /\ Ends(Polling)
  /\ UNCHANGED <<issued, due, dead, cache, lock, rows, handlers, job, disk, crashes>>
QueueReturns ==
  /\ worker.pc = "squeue" /\ Ok(Polling)
  /\ IF Gone = {} THEN Apply
     ELSE /\ worker' = [worker EXCEPT !.pc = "sacct"] /\ Begins(Polling)
          /\ UNCHANGED <<state, finished>>
  /\ UNCHANGED <<issued, due, dead, cache, lock, numbered, handlers, job, disk, crashes>>

(* Whether sacct was answered or not.                                      *)
ExitReturns ==
  /\ worker.pc = "sacct" /\ Done(Polling)
  /\ Apply
  /\ UNCHANGED <<issued, due, dead, cache, lock, numbered, handlers, job, disk, crashes>>

WorkerStep == Snapshot \/ QueueUnavailable \/ QueueReturns \/ ExitReturns
SlurmAnswers == QueueExecuted \/ ExitExecuted

-----------------------------------------------------------------------------
(* The process dies; the rows and the jobs stay.                           *)
Crash ==
  /\ crashes < MaxCrashes
  /\ crashes' = crashes + 1
  /\ ClientCrash
  /\ start' = [b \in Builds |-> IF start[b] = "submitting" THEN "answered" ELSE start[b]]
  /\ cancel' = [b \in Builds |-> "idle"]
  /\ worker' = NoWork
  /\ UNCHANGED <<rows, job, disk>>

HandlerStep(b) ==
  \/ StartBuild(b) \/ StartConflicts(b) \/ StartReturns(b)
  \/ CancelRow(b) \/ CancelBuild(b) \/ CancelReturns(b)
Request(b) == HandlerStep(b) \/ SubmitExecuted(b) \/ CancelExecuted(b)

Next ==
  \/ \E b \in Builds : Request(b) \/ JobStep(b)
  \/ \E n \in Names : DeleteImage(n)
  \/ WorkerStep \/ SlurmAnswers \/ Crash
  \/ (\E c \in Callers : CallStep(c)) /\ UNCHANGED buildVars
  \/ TokenStep /\ UNCHANGED buildVars

Spec == Init /\ [][Next]_vars
=============================================================================
