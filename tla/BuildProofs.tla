----------------------------- MODULE BuildProofs -----------------------------
(***************************************************************************)
(* Proofs for BuildProperties: the invariants of the image builds and of   *)
(* the Slurm client hold for any number of builds, callers and tokens. The *)
(* client comes first, then what a build, its job and its files do.        *)
(***************************************************************************)
EXTENDS BuildProperties, TLAPS

-----------------------------------------------------------------------------
(* The client *)

CallType == [pc : CallPhases, token : 0 .. MaxTokens, rejected : 0 .. MaxTokens,
             answer : Answers]
ClientType ==
  /\ issued \in 0 .. MaxTokens /\ due \subseteq Tokens /\ dead \subseteq Tokens
  /\ cache \in 0 .. issued
  /\ call \in [Callers -> CallType]
  /\ lock \in Callers \cup {Nobody}

(* The lock belongs to the one caller that is at the token source.         *)
LockIsHeld ==
  /\ lock # Nobody => call[lock].pc = "fetch"
  /\ \A c \in Callers : call[c].pc = "fetch" => lock = c

(* Whoever was rejected had a token that is dead.                          *)
RejectedAreDead ==
  /\ dead \subseteq 1 .. issued /\ MaxTokens \notin dead
  /\ \A c \in Callers :
       /\ call[c].token <= issued
       /\ Retried(c) => call[c].rejected \in dead
       /\ call[c].pc = "rejected" => call[c].token \in dead

(* The cache never goes back to a token that a caller on its second try    *)
(* was rejected with.                                                      *)
CacheMovesOn ==
  TokenMode = "command" =>
    \A c \in Callers : Retried(c) /\ call[c].pc \in {"get", "wait", "fetch"}
                         => cache = NoToken \/ cache > call[c].rejected

ClientInv ==
  ClientType /\ LockIsHeld /\ RejectedAreDead /\ CacheMovesOn /\ RetryHasNewToken /\ NoNeedlessRefresh

(* All that an operation does to the client's state.                       *)
Elsewhere == UNCHANGED <<issued, due, dead, cache, lock>>
ClientMove ==
  \/ \E c \in Callers :
       \/ Begins(c) /\ call[c].pc \in {"idle", "done"} /\ Elsewhere
       \/ Ends(c) /\ call[c].pc = "done" /\ Elsewhere
       \/ \E answer \in Answers : Executed(c, answer)
       \/ CallStep(c)
  \/ TokenStep \/ ClientCrash \/ UNCHANGED clientVars

LEMMA ClientStarts == ClientInit => ClientInv
  BY TokensAssumption, NobodyAssumption, SMTT(30)
  DEF ClientInit, ClientInv, ClientType, CallType, LockIsHeld, RejectedAreDead, CacheMovesOn,
      RetryHasNewToken, NoNeedlessRefresh, NoCall, NoToken, Tokens, CallPhases, Answers, Retried

(* A move that leaves the tokens alone and gives one call a new value that *)
(* has nothing to do with the lock or a token.                             *)
Plain(c, new) ==
  /\ new \in CallType /\ new.pc # "fetch"
  /\ new.token <= issued
  /\ new.rejected # NoToken => new.rejected \in dead
  /\ new.pc = "rejected" => new.token \in dead
  /\ TokenMode = "command" /\ new.rejected # NoToken /\ new.pc \in {"get", "wait"}
       => cache = NoToken \/ cache > new.rejected
  /\ TokenMode = "command" /\ new.rejected # NoToken /\ new.pc = "sent"
       => new.token > new.rejected

LEMMA PlainKeeps ==
  ASSUME ClientInv, NEW c \in Callers, NEW new, Plain(c, new),
         call[c].pc # "fetch", call' = [call EXCEPT ![c] = new], Elsewhere
  PROVE  ClientInv'
<1> USE DEF ClientInv
<1>1. ClientType'
  BY DEF ClientType, Plain, Elsewhere
<1>2. \A d \in Callers : call'[d] = IF d = c THEN new ELSE call[d]
  BY DEF ClientType
<1>3. lock # c
  BY NobodyAssumption DEF LockIsHeld
<1>4. LockIsHeld'
  BY <1>2, <1>3 DEF LockIsHeld, Plain, Elsewhere, ClientType
<1>5. RejectedAreDead'
  BY <1>2 DEF RejectedAreDead, Plain, Elsewhere, Retried
<1>6. CacheMovesOn'
  BY <1>2 DEF CacheMovesOn, Plain, Elsewhere, Retried
<1>7. RetryHasNewToken'
  BY <1>2 DEF RetryHasNewToken, Plain, Elsewhere, Retried
<1>8. NoNeedlessRefresh'
  BY DEF NoNeedlessRefresh, NeedsRefresh, Elsewhere
<1> QED
  BY <1>1, <1>4, <1>5, <1>6, <1>7, <1>8

LEMMA CallTyped ==
  ASSUME ClientInv, NEW c \in Callers
  PROVE  /\ call[c] \in CallType /\ issued \in Nat /\ issued <= MaxTokens /\ MaxTokens \in Nat
         /\ cache \in 0 .. issued
         /\ call[c].token <= issued
         /\ Retried(c) => call[c].rejected \in dead
         /\ call[c].pc = "rejected" => call[c].token \in dead
         /\ TokenMode = "command" /\ Retried(c) /\ call[c].pc \in {"get", "wait", "fetch"}
              => cache = NoToken \/ cache > call[c].rejected
  BY TokensAssumption DEF ClientInv, ClientType, RejectedAreDead, CacheMovesOn

(* The cached token is sent, or it is the lock's turn.                     *)
LEMMA SendingKeeps ==
  ASSUME ClientInv, NEW c \in Callers, call[c].pc \in {"get", "wait"}, ~NeedsRefresh,
         Sends(c, cache), Elsewhere
  PROVE  ClientInv'
<1> DEFINE new == [call[c] EXCEPT !.pc = "sent", !.token = cache]
<1>1. call' = [call EXCEPT ![c] = new]
  BY DEF Sends, ClientInv, ClientType, CallType
<1>2. /\ new \in CallType /\ new.pc = "sent" /\ new.token = cache
      /\ new.rejected = call[c].rejected
  <2>1. cache \in 0 .. MaxTokens /\ call[c] \in CallType
    BY CallTyped
  <2> QED
    BY <2>1 DEF CallType, CallPhases
<1>3. cache # NoToken
  BY DEF NeedsRefresh
<1> HIDE DEF new
<1>4. Plain(c, new)
  BY <1>2, <1>3, CallTyped DEF Plain, Retried, NoToken
<1> QED
  BY <1>1, <1>4, PlainKeeps

LEMMA WaitingKeeps ==
  ASSUME ClientInv, NEW c \in Callers, call[c].pc = "get",
         call' = [call EXCEPT ![c].pc = "wait"], Elsewhere
  PROVE  ClientInv'
<1> DEFINE new == [call[c] EXCEPT !.pc = "wait"]
<1>1. call' = [call EXCEPT ![c] = new]
  BY DEF ClientInv, ClientType, CallType
<1>2. /\ new \in CallType /\ new.pc = "wait" /\ new.token = call[c].token
      /\ new.rejected = call[c].rejected
  BY CallTyped DEF CallType, CallPhases
<1> HIDE DEF new
<1>4. Plain(c, new)
  BY <1>2, CallTyped DEF Plain, Retried, NoToken
<1> QED
  BY <1>1, <1>4, PlainKeeps

LEMMA GetKeeps == ASSUME ClientInv, NEW c \in Callers, Get(c) PROVE ClientInv'
  BY SendingKeeps, WaitingKeeps DEF Get, Elsewhere

(* A call that is over, or has not begun, or is rejected: no token is used.*)
LEMMA AnsweringKeeps ==
  ASSUME ClientInv, NEW c \in Callers, NEW answer \in Answers, call[c].pc # "fetch",
         Answered(c, answer), Elsewhere
  PROVE  ClientInv'
<1> DEFINE new == [call[c] EXCEPT !.pc = "done", !.answer = answer]
<1>1. call' = [call EXCEPT ![c] = new]
  BY DEF Answered, ClientInv, ClientType, CallType
<1>2. /\ new \in CallType /\ new.pc = "done" /\ new.token = call[c].token
      /\ new.rejected = call[c].rejected
  BY CallTyped DEF CallType, CallPhases
<1> HIDE DEF new
<1>4. Plain(c, new)
  BY <1>2, CallTyped DEF Plain, Retried, NoToken
<1> QED
  BY <1>1, <1>4, PlainKeeps

LEMMA StartingOverKeeps ==
  ASSUME ClientInv, NEW c \in Callers, call[c].pc # "fetch", Begins(c) \/ Ends(c), Elsewhere
  PROVE  ClientInv'
<1> PICK pc \in {"get", "idle"} : call' = [call EXCEPT ![c] = [NoCall EXCEPT !.pc = pc]]
  BY DEF Begins, Ends, NoCall
<1> DEFINE new == [NoCall EXCEPT !.pc = pc]
<1>2. new \in CallType /\ new.pc \in {"get", "idle"} /\ new.token = 0 /\ new.rejected = 0
  BY TokensAssumption DEF CallType, CallPhases, NoCall, NoToken, Answers
<1> HIDE DEF new
<1>4. Plain(c, new)
  BY <1>2, CallTyped DEF Plain, NoToken
<1> QED
  BY <1>4, PlainKeeps DEF new

LEMMA RejectKeeps == ASSUME ClientInv, NEW c \in Callers, Reject(c) PROVE ClientInv'
<1>1. CASE Answered(c, "unavailable")
  BY <1>1, AnsweringKeeps DEF Reject, Answers, Elsewhere
<1>2. CASE call' = [call EXCEPT ![c].pc = "rejected"]
  <2> DEFINE new == [call[c] EXCEPT !.pc = "rejected"]
  <2>1. call' = [call EXCEPT ![c] = new]
    BY <1>2 DEF ClientInv, ClientType, CallType
  <2>2. /\ new \in CallType /\ new.pc = "rejected" /\ new.token = call[c].token
        /\ new.rejected = call[c].rejected
    BY CallTyped DEF CallType, CallPhases
  <2>3. call[c].token \in dead
    BY DEF Reject, Accepted
  <2> HIDE DEF new
  <2>4. Plain(c, new)
    BY <2>2, <2>3, CallTyped DEF Plain, Retried, NoToken
  <2> QED
    BY <2>1, <2>4, PlainKeeps DEF Reject, Elsewhere
<1> QED
  BY <1>1, <1>2 DEF Reject

LEMMA InvalidateKeeps == ASSUME ClientInv, NEW c \in Callers, Invalidate(c) PROVE ClientInv'
<1> USE DEF ClientInv
<1> DEFINE new == [call[c] EXCEPT !.pc = "get", !.rejected = call[c].token]
<1>1. call' = [call EXCEPT ![c] = new]
  BY DEF Invalidate, ClientType, CallType
<1>2. new \in CallType /\ new.pc = "get" /\ new.token = call[c].token /\ new.rejected = call[c].token
  BY CallTyped DEF CallType, CallPhases
<1>3. call[c].token \in dead
  BY CallTyped DEF Invalidate
<1> HIDE DEF new
<1>4. \A d \in Callers : call'[d] = IF d = c THEN new ELSE call[d]
  BY <1>1 DEF ClientType
<1>5. UNCHANGED <<issued, due, dead, lock>> /\ cache' = NoToken /\ lock = Nobody
  BY DEF Invalidate
<1>6. ClientType'
  BY <1>1, <1>2, <1>5, CallTyped DEF ClientType, NoToken
<1>7. LockIsHeld'
  BY <1>2, <1>4, <1>5 DEF LockIsHeld
<1>8. RejectedAreDead'
  BY <1>2, <1>3, <1>4, <1>5 DEF RejectedAreDead, Retried
<1>9. CacheMovesOn'
  BY <1>5 DEF CacheMovesOn
<1>10. RetryHasNewToken'
  BY <1>2, <1>4, <1>5 DEF RetryHasNewToken, Retried
<1>11. NoNeedlessRefresh'
  BY <1>5 DEF NoNeedlessRefresh
<1> QED
  BY <1>6, <1>7, <1>8, <1>9, <1>10, <1>11

(* With the lock, and a look at the cache.                                 *)
LEMMA AcquireKeeps == ASSUME ClientInv, NEW c \in Callers, Acquire(c) PROVE ClientInv'
<1>1. CASE ~NeedsRefresh
  BY <1>1, SendingKeeps DEF Acquire, Elsewhere
<1>2. CASE NeedsRefresh
  <2> USE DEF ClientInv
  <2> DEFINE new == [call[c] EXCEPT !.pc = "fetch"]
  <2>1. call' = [call EXCEPT ![c] = new] /\ lock' = c /\ lock = Nobody
    BY <1>2 DEF Acquire, ClientType, CallType
  <2>2. /\ new \in CallType /\ new.pc = "fetch" /\ new.token = call[c].token
        /\ new.rejected = call[c].rejected
    BY CallTyped DEF CallType, CallPhases
  <2>3. call[c].pc = "wait" /\ UNCHANGED <<issued, due, dead, cache>>
    BY DEF Acquire
  <2> HIDE DEF new
  <2>4. \A d \in Callers : call'[d] = IF d = c THEN new ELSE call[d]
    BY <2>1 DEF ClientType
  <2>5. ClientType'
    BY <2>1, <2>2, <2>3 DEF ClientType
  <2>6. LockIsHeld'
    BY <2>1, <2>2, <2>4, NobodyAssumption DEF LockIsHeld
  <2>7. RejectedAreDead'
    BY <2>2, <2>3, <2>4, CallTyped DEF RejectedAreDead, Retried
  <2>8. CacheMovesOn'
    BY <2>2, <2>3, <2>4 DEF CacheMovesOn, Retried
  <2>9. RetryHasNewToken'
    BY <2>2, <2>3, <2>4 DEF RetryHasNewToken, Retried
  <2>10. NoNeedlessRefresh'
    BY <1>2, <2>3 DEF NoNeedlessRefresh, NeedsRefresh
  <2> QED
    BY <2>5, <2>6, <2>7, <2>8, <2>9, <2>10
<1> QED
  BY <1>1, <1>2

(* The source: what it yields is newer than any dead token.                *)
LEMMA SourceIsNewer ==
  ASSUME ClientInv, TokenMode = "command", NEW t \in Source
  PROVE  \A r \in dead : t > r
<1>1. t = IF issued < MaxTokens THEN issued + 1 ELSE issued
  BY DEF Source, Newer
<1>2. /\ issued \in Nat /\ issued <= MaxTokens /\ MaxTokens \in Nat /\ MaxTokens \notin dead
      /\ dead \subseteq 1 .. issued
  BY CallTyped, TokensAssumption DEF ClientInv, ClientType, RejectedAreDead
<1> QED
  BY <1>1, <1>2

LEMMA SourceTyped ==
  ASSUME ClientInv, NEW t \in Source
  PROVE  t \in 0 .. MaxTokens /\ issued <= t
<1>1. t \in {issued, IF issued < MaxTokens THEN issued + 1 ELSE issued}
  BY ModeAssumption DEF Source, Newer
<1>2. issued \in Nat /\ issued <= MaxTokens /\ MaxTokens \in Nat
  BY CallTyped, TokensAssumption DEF ClientInv, ClientType
<1> QED
  BY <1>1, <1>2

LEMMA FetchKeeps == ASSUME ClientInv, NEW c \in Callers, Fetch(c) PROVE ClientInv'
<1> USE DEF ClientInv
<1>1. PICK t \in Source : issued' = t /\ cache' = t /\ Sends(c, t)
  BY DEF Fetch
<1> DEFINE new == [call[c] EXCEPT !.pc = "sent", !.token = t]
<1>2. call' = [call EXCEPT ![c] = new]
  BY <1>1 DEF Sends, ClientType, CallType
<1>3. /\ new \in CallType /\ new.pc = "sent" /\ new.token = t
      /\ new.rejected = call[c].rejected
  <2>1. t \in 0 .. MaxTokens /\ call[c] \in CallType
    BY CallTyped, SourceTyped
  <2> QED
    BY <2>1 DEF CallType, CallPhases
<1> HIDE DEF new
<1>4. \A d \in Callers : call'[d] = IF d = c THEN new ELSE call[d]
  BY <1>2 DEF ClientType
<1>5. UNCHANGED <<due, dead>> /\ lock' = Nobody /\ call[c].pc = "fetch" /\ lock = c
  BY DEF Fetch, LockIsHeld
<1>6. t \in 0 .. MaxTokens /\ issued <= t /\ issued \in Nat
  BY SourceTyped, CallTyped
<1>7. ClientType'
  BY <1>1, <1>2, <1>3, <1>5, <1>6 DEF ClientType
<1>8. LockIsHeld'
  BY <1>3, <1>4, <1>5 DEF LockIsHeld
<1>9. RejectedAreDead'
  <2>1. dead \subseteq 1 .. t /\ MaxTokens \notin dead
    BY <1>6, TokensAssumption DEF RejectedAreDead, ClientType
  <2>2. ASSUME NEW d \in Callers
        PROVE  /\ call'[d].token <= t
               /\ call'[d].rejected # NoToken => call'[d].rejected \in dead
               /\ call'[d].pc = "rejected" => call'[d].token \in dead
    <3>1. call[d].token \in Nat /\ call[d].token <= issued
      BY CallTyped DEF CallType
    <3> QED
      BY <3>1, <1>3, <1>4, <1>6, CallTyped DEF Retried
  <2> QED
    BY <2>1, <2>2, <1>1, <1>5 DEF RejectedAreDead, Retried
<1>10. CacheMovesOn'
  BY <1>1, <1>3, <1>4, <1>5, SourceIsNewer, CallTyped DEF CacheMovesOn, Retried
<1>11. RetryHasNewToken'
  BY <1>1, <1>3, <1>4, <1>5, SourceIsNewer, CallTyped DEF RetryHasNewToken, Retried
<1>12. NoNeedlessRefresh'
  BY <1>5 DEF NoNeedlessRefresh
<1> QED
  BY <1>7, <1>8, <1>9, <1>10, <1>11, <1>12

LEMMA FetchFailsKeeps == ASSUME ClientInv, NEW c \in Callers, FetchFails(c) PROVE ClientInv'
<1> USE DEF ClientInv
<1> DEFINE new == [call[c] EXCEPT !.pc = "done", !.answer = "unavailable"]
<1>1. call' = [call EXCEPT ![c] = new]
  BY DEF FetchFails, Answered, ClientType, CallType
<1>2. /\ new \in CallType /\ new.pc = "done" /\ new.token = call[c].token
      /\ new.rejected = call[c].rejected
  BY CallTyped DEF CallType, CallPhases, Answers
<1> HIDE DEF new
<1>3. \A d \in Callers : call'[d] = IF d = c THEN new ELSE call[d]
  BY <1>1 DEF ClientType
<1>4. UNCHANGED <<issued, due, dead, cache>> /\ lock' = Nobody /\ lock = c
  BY DEF FetchFails, LockIsHeld
<1>5. ClientType'
  BY <1>1, <1>2, <1>4 DEF ClientType
<1>6. LockIsHeld'
  BY <1>2, <1>3, <1>4 DEF LockIsHeld
<1>7. RejectedAreDead'
  BY <1>2, <1>3, <1>4 DEF RejectedAreDead, Retried
<1>8. CacheMovesOn'
  BY <1>2, <1>3, <1>4 DEF CacheMovesOn, Retried
<1>9. RetryHasNewToken'
  BY <1>2, <1>3, <1>4 DEF RetryHasNewToken, Retried
<1>10. NoNeedlessRefresh'
  BY <1>4 DEF NoNeedlessRefresh
<1> QED
  BY <1>5, <1>6, <1>7, <1>8, <1>9, <1>10

LEMMA TokensKeep == ASSUME ClientInv, TokenStep PROVE ClientInv'
<1> USE DEF ClientInv
<1>1. CASE BecomesDue
  BY <1>1, TokensAssumption
  DEF BecomesDue, ClientType, LockIsHeld, RejectedAreDead, CacheMovesOn, RetryHasNewToken,
      NoNeedlessRefresh, NeedsRefresh, Retried, Tokens
<1>2. CASE Dies
  BY <1>2, TokensAssumption
  DEF Dies, ClientType, LockIsHeld, RejectedAreDead, CacheMovesOn, RetryHasNewToken,
      NoNeedlessRefresh, NeedsRefresh, Retried, Tokens
<1> QED
  BY <1>1, <1>2 DEF TokenStep

LEMMA CrashKeeps == ASSUME ClientInv, ClientCrash PROVE ClientInv'
  BY NobodyAssumption, TokensAssumption
  DEF ClientInv, ClientCrash, ClientType, CallType, LockIsHeld, RejectedAreDead, CacheMovesOn,
      RetryHasNewToken, NoNeedlessRefresh, Retried, NoCall, NoToken, CallPhases, Answers

LEMMA ClientKeeps == ASSUME ClientInv, ClientMove PROVE ClientInv'
<1>1. ASSUME NEW c \in Callers,
             \/ Begins(c) /\ call[c].pc \in {"idle", "done"} /\ Elsewhere
             \/ Ends(c) /\ call[c].pc = "done" /\ Elsewhere
      PROVE  ClientInv'
  BY <1>1, StartingOverKeeps
<1>2. ASSUME NEW c \in Callers, NEW answer \in Answers, Executed(c, answer) PROVE ClientInv'
  BY <1>2, AnsweringKeeps DEF Executed, Elsewhere
<1>3. ASSUME NEW c \in Callers, CallStep(c) PROVE ClientInv'
  <2>1. CASE Unreachable(c)
    BY <2>1, AnsweringKeeps DEF Unreachable, Elsewhere, Answers
  <2> QED
    BY <1>3, <2>1, GetKeeps, AcquireKeeps, FetchKeeps, FetchFailsKeeps, InvalidateKeeps, RejectKeeps
    DEF CallStep
<1>4. ASSUME UNCHANGED clientVars PROVE ClientInv'
  BY <1>4
  DEF clientVars, ClientInv, ClientType, LockIsHeld, RejectedAreDead, CacheMovesOn,
      RetryHasNewToken, NoNeedlessRefresh, NeedsRefresh, Retried
<1> QED
  BY <1>1, <1>2, <1>3, <1>4, TokensKeep, CrashKeeps DEF ClientMove

-----------------------------------------------------------------------------
(* The builds *)

WorkerType ==
  [pc : {"idle", "squeue", "sacct"}, watching : SUBSET Builds, queue : SUBSET Builds,
   running : SUBSET Builds, remembered : SUBSET Builds]
BuildType ==
  /\ state \in [Builds -> States]
  /\ numbered \subseteq Builds /\ finished \subseteq numbered
  /\ start \in [Builds -> {"idle", "submitting", "answered"}]
  /\ cancel \in [Builds -> {"idle", "canceling"}]
  /\ job \in [Builds -> Underway \cup {"none", "completed", "killed"}]
  /\ disk \in [Paths -> {"absent", "partial", "whole"}]
  /\ worker \in WorkerType
  /\ crashes \in 0 .. MaxCrashes

(* A handler has a call under way only while it waits for it.              *)
CallsBelong ==
  /\ \A b \in Builds : start[b] # "submitting" => call[Starting(b)].pc = "idle"
  /\ \A b \in Builds : cancel[b] = "canceling" => b \in Cancelable
  /\ \A b \in Cancelable : cancel[b] # "canceling" => call[Canceling(b)].pc = "idle"
  /\ worker.pc = "idle" => call[Polling].pc = "idle"

(* A row has the number of a job only when its submission has been         *)
(* answered, and then the job exists.                                      *)
NumbersAreJobs ==
  /\ \A b \in Builds : start[b] # "answered" => b \notin numbered
  /\ \A b \in Builds : start[b] = "submitting" /\ call[Starting(b)].answer = "ok" => job[b] # "none"
  /\ \A b \in numbered : job[b] # "none"

(* What the worker holds across its awaits: jobs that it did not find in   *)
(* the queue are still gone when it comes to judge them.                   *)
WorkerKnows ==
  /\ worker.watching \subseteq numbered /\ worker.queue \subseteq worker.watching
  /\ worker.running \subseteq worker.queue /\ worker.remembered \subseteq Gone
  /\ worker.pc = "squeue" => worker.remembered = {}
  /\ worker.pc = "sacct" \/ (worker.pc = "squeue" /\ call[Polling].answer = "ok")
       => \A b \in Gone : ~Alive(b)

(* Only a job that has built its image is past the building.               *)
VerifiedIsWhole ==
  \A b \in Builds : job[b] \in {"verified", "copying"} => disk[Staging(b)] \in {"absent", "whole"}

Jobs == NumbersAreJobs /\ WorkerKnows /\ JudgedJobsAreGone
Files == VerifiedIsWhole /\ FinalNameIsWhole
BuildInv == ClientInv /\ BuildType /\ CallsBelong /\ Jobs /\ Files

LEMMA CallerFacts ==
  /\ Polling \in Callers
  /\ \A b \in Builds : Starting(b) \in Callers /\ Starting(b) # Polling
  /\ \A b \in Cancelable : b \in Builds /\ Canceling(b) \in Callers /\ Canceling(b) # Polling
  /\ \A b, c \in Builds : Starting(b) # Canceling(c) /\ (Starting(b) = Starting(c) => b = c)
                          /\ (Canceling(b) = Canceling(c) => b = c)
  BY CallersAssumption, CancelableAssumption DEF BuildCallers, Starting, Canceling, Polling

LEMMA PathFacts ==
  /\ \A b \in Builds : Staging(b) \in Paths /\ Incoming(b) \in Paths /\ NameOf[b] \in Names
  /\ \A n \in Names : Final(n) \in Paths
  /\ \A b, c \in Builds : Staging(b) # Incoming(c) /\ (Staging(b) = Staging(c) => b = c)
  /\ \A b \in Builds, n \in Names : Staging(b) # Final(n) /\ Incoming(b) # Final(n)
  /\ \A m, n \in Names : Final(m) = Final(n) => m = n
  BY DEF Staging, Incoming, Final, Paths, Names

(* What an operation does to the calls.                                    *)
OnlyCall(c, pc, answer) ==
  /\ \A d \in Callers \ {c} : call'[d] = call[d]
  /\ call'[c].pc = pc /\ call'[c].answer = answer

LEMMA CallShapes ==
  ASSUME ClientInv, NEW c \in Callers
  PROVE  /\ Begins(c) => OnlyCall(c, "get", "none")
         /\ Ends(c) => OnlyCall(c, "idle", "none")
         /\ \A answer \in Answers :
              Executed(c, answer) => OnlyCall(c, "done", answer) /\ call[c].pc = "sent"
  BY DEF ClientInv, ClientType, CallType, OnlyCall, Begins, Ends, Executed, Answered, NoCall

LEMMA CallStepShape ==
  ASSUME ClientInv, NEW c \in Callers, CallStep(c)
  PROVE  /\ \A d \in Callers \ {c} : call'[d] = call[d]
         /\ call[c].pc \notin {"idle", "done"} /\ call'[c].pc # "idle"
         /\ call'[c].answer \in {call[c].answer, "unavailable"}
  BY DEF ClientInv, ClientType, CallType, CallStep, Get, Acquire, Fetch, FetchFails, Invalidate, Reject,
         Unreachable, Sends, Answered

(* Actions that touch neither a job nor a file.                            *)
LEMMA FilesStay == ASSUME Files, UNCHANGED <<job, disk>> PROVE Files'
  BY DEF Files, VerifiedIsWhole, FinalNameIsWhole, Exists

LEMMA BuildInitially == Init => BuildInv
<1> SUFFICES ASSUME Init PROVE BuildInv
  OBVIOUS
<1>1. ClientInv
  BY ClientStarts DEF Init
<1>2. BuildType
  BY CrashesAssumption
  DEF Init, BuildInit, BuildType, WorkerType, NoWork, States, Underway
<1>3. CallsBelong
  BY CallerFacts DEF Init, BuildInit, ClientInit, CallsBelong, NoCall
<1>4. Jobs
  BY DEF Init, BuildInit, Jobs, NumbersAreJobs, WorkerKnows, JudgedJobsAreGone, NoWork, Gone
<1>5. Files
  BY PathFacts DEF Init, BuildInit, Files, VerifiedIsWhole, FinalNameIsWhole, Exists
<1> QED
  BY <1>1, <1>2, <1>3, <1>4, <1>5 DEF BuildInv

LEMMA StartBuildKeeps ==
  ASSUME BuildInv, NEW b \in Builds, StartBuild(b)
  PROVE  ClientMove /\ BuildType' /\ CallsBelong' /\ Jobs' /\ Files'
<1> USE DEF BuildInv
<1>1. ClientMove
  BY CallerFacts DEF StartBuild, ClientMove, Elsewhere, CallsBelong, Done
<1>2. BuildType'
  BY CancelableAssumption DEF StartBuild, BuildType, States, Canceled, rows
<1>3. CallsBelong'
  BY CallerFacts, CallShapes DEF StartBuild, CallsBelong, OnlyCall, BuildType
<1>4. Jobs'
  BY CallerFacts, CallShapes DEF StartBuild, OnlyCall, BuildType, Ok, Done, CallsBelong, Jobs, NumbersAreJobs, WorkerKnows, JudgedJobsAreGone, Gone, Alive
<1>5. Files'
  BY FilesStay DEF StartBuild
<1> QED
  BY <1>1, <1>2, <1>3, <1>4, <1>5

LEMMA StartConflictsKeeps ==
  ASSUME BuildInv, NEW b \in Builds, StartConflicts(b)
  PROVE  ClientMove /\ BuildType' /\ CallsBelong' /\ Jobs' /\ Files'
<1> USE DEF BuildInv
<1>1. ClientMove
  BY DEF StartConflicts, ClientMove
<1>2. BuildType'
  BY DEF StartConflicts, rows, BuildType
<1>3. CallsBelong'
  BY DEF StartConflicts, CallsBelong, BuildType, clientVars
<1>4. Jobs'
  BY DEF StartConflicts, BuildType, clientVars, rows, Jobs, NumbersAreJobs, WorkerKnows, JudgedJobsAreGone, Gone, Alive
<1>5. Files'
  BY FilesStay DEF StartConflicts
<1> QED
  BY <1>1, <1>2, <1>3, <1>4, <1>5

LEMMA StartReturnsKeeps ==
  ASSUME BuildInv, NEW b \in Builds, StartReturns(b)
  PROVE  ClientMove /\ BuildType' /\ CallsBelong' /\ Jobs' /\ Files'
<1> USE DEF BuildInv
<1>1. ClientMove
  BY CallerFacts DEF StartReturns, ClientMove, Elsewhere, CallsBelong, Done
<1>2. BuildType'
  BY CancelableAssumption DEF StartReturns, BuildType, States, Canceled, rows
<1>3. CallsBelong'
  BY CallerFacts, CallShapes DEF StartReturns, CallsBelong, OnlyCall, BuildType
<1>4. Jobs'
  BY CallerFacts, CallShapes DEF StartReturns, OnlyCall, BuildType, Ok, Done, CallsBelong, Jobs, NumbersAreJobs, WorkerKnows, JudgedJobsAreGone, Gone, Alive
<1>5. Files'
  BY FilesStay DEF StartReturns
<1> QED
  BY <1>1, <1>2, <1>3, <1>4, <1>5

LEMMA CancelRowKeeps ==
  ASSUME BuildInv, NEW b \in Builds, CancelRow(b)
  PROVE  ClientMove /\ BuildType' /\ CallsBelong' /\ Jobs' /\ Files'
<1> USE DEF BuildInv
<1>1. ClientMove
  BY DEF CancelRow, ClientMove
<1>2. BuildType'
  BY DEF CancelRow, Canceled, handlers, BuildType, States
<1>3. CallsBelong'
  BY DEF CancelRow, CallsBelong, BuildType, clientVars, handlers
<1>4. Jobs'
  BY DEF CancelRow, BuildType, clientVars, handlers, Jobs, NumbersAreJobs, WorkerKnows, JudgedJobsAreGone, Gone, Alive
<1>5. Files'
  BY FilesStay DEF CancelRow
<1> QED
  BY <1>1, <1>2, <1>3, <1>4, <1>5

LEMMA CancelBuildKeeps ==
  ASSUME BuildInv, NEW b \in Builds, CancelBuild(b)
  PROVE  ClientMove /\ BuildType' /\ CallsBelong' /\ Jobs' /\ Files'
<1> USE DEF BuildInv
<1>1. ClientMove
  BY CallerFacts DEF CancelBuild, ClientMove, Elsewhere, CallsBelong, Done
<1>2. BuildType'
  BY CancelableAssumption DEF CancelBuild, BuildType, States, Canceled, rows
<1>3. CallsBelong'
  <2>1. b \in Cancelable /\ OnlyCall(Canceling(b), "get", "none")
    BY CallerFacts, CallShapes DEF CancelBuild, CallsBelong
  <2>2. UNCHANGED <<start, worker>> /\ cancel' = [cancel EXCEPT ![b] = "canceling"]
    BY DEF CancelBuild, rows
  <2>3. ASSUME NEW c \in Builds
        PROVE  /\ start'[c] # "submitting" => call'[Starting(c)].pc = "idle"
               /\ cancel'[c] = "canceling" => c \in Cancelable
    BY <2>1, <2>2, CallerFacts DEF CallsBelong, OnlyCall, BuildType
  <2>4. ASSUME NEW c \in Cancelable, cancel'[c] # "canceling"
        PROVE  call'[Canceling(c)].pc = "idle"
    BY <2>1, <2>2, <2>4, CallerFacts DEF CallsBelong, OnlyCall, BuildType
  <2>5. worker'.pc = "idle" => call'[Polling].pc = "idle"
    BY <2>1, <2>2, CallerFacts DEF CallsBelong, OnlyCall
  <2> QED
    BY <2>3, <2>4, <2>5 DEF CallsBelong
<1>4. Jobs'
  <2>1. b \in Cancelable /\ OnlyCall(Canceling(b), "get", "none")
    BY CallerFacts, CallShapes DEF CancelBuild, CallsBelong
  <2>2. UNCHANGED <<start, numbered, finished, job, worker>>
    BY DEF CancelBuild, rows
  <2>3. /\ call'[Polling] = call[Polling]
        /\ \A c \in Builds : call'[Starting(c)] = call[Starting(c)]
    BY <2>1, CallerFacts DEF OnlyCall
  <2> QED
    BY <2>2, <2>3 DEF Jobs, NumbersAreJobs, WorkerKnows, JudgedJobsAreGone, Gone, Alive
<1>5. Files'
  BY FilesStay DEF CancelBuild
<1> QED
  BY <1>1, <1>2, <1>3, <1>4, <1>5

LEMMA CancelReturnsKeeps ==
  ASSUME BuildInv, NEW b \in Builds, CancelReturns(b)
  PROVE  ClientMove /\ BuildType' /\ CallsBelong' /\ Jobs' /\ Files'
<1> USE DEF BuildInv
<1>1. ClientMove
  BY CallerFacts DEF CancelReturns, ClientMove, Elsewhere, CallsBelong, Done
<1>2. BuildType'
  BY CancelableAssumption DEF CancelReturns, BuildType, States, Canceled, rows
<1>3. CallsBelong'
  <2>1. b \in Cancelable /\ OnlyCall(Canceling(b), "idle", "none")
    BY CallerFacts, CallShapes DEF CancelReturns, CallsBelong
  <2>2. UNCHANGED <<start, worker>> /\ cancel' = [cancel EXCEPT ![b] = "idle"]
    BY DEF CancelReturns, rows
  <2>3. ASSUME NEW c \in Builds
        PROVE  /\ start'[c] # "submitting" => call'[Starting(c)].pc = "idle"
               /\ cancel'[c] = "canceling" => c \in Cancelable
    BY <2>1, <2>2, CallerFacts DEF CallsBelong, OnlyCall, BuildType
  <2>4. ASSUME NEW c \in Cancelable, cancel'[c] # "canceling"
        PROVE  call'[Canceling(c)].pc = "idle"
    BY <2>1, <2>2, <2>4, CallerFacts DEF CallsBelong, OnlyCall, BuildType
  <2>5. worker'.pc = "idle" => call'[Polling].pc = "idle"
    BY <2>1, <2>2, CallerFacts DEF CallsBelong, OnlyCall
  <2> QED
    BY <2>3, <2>4, <2>5 DEF CallsBelong
<1>4. Jobs'
  <2>1. b \in Cancelable /\ OnlyCall(Canceling(b), "idle", "none")
    BY CallerFacts, CallShapes DEF CancelReturns, CallsBelong
  <2>2. UNCHANGED <<start, numbered, finished, job, worker>>
    BY DEF CancelReturns, rows
  <2>3. /\ call'[Polling] = call[Polling]
        /\ \A c \in Builds : call'[Starting(c)] = call[Starting(c)]
    BY <2>1, CallerFacts DEF OnlyCall
  <2> QED
    BY <2>2, <2>3 DEF Jobs, NumbersAreJobs, WorkerKnows, JudgedJobsAreGone, Gone, Alive
<1>5. Files'
  BY FilesStay DEF CancelReturns
<1> QED
  BY <1>1, <1>2, <1>3, <1>4, <1>5

(* The job of a build that has no number yet comes into being.             *)
LEMMA SubmitExecutedKeeps ==
  ASSUME BuildInv, NEW b \in Builds, SubmitExecuted(b)
  PROVE  ClientMove /\ BuildType' /\ CallsBelong' /\ Jobs' /\ Files'
<1> USE DEF BuildInv
<1>1. PICK answer \in Answers \ {"none"} :
        /\ Executed(Starting(b), answer)
        /\ job' = IF answer = "refused" THEN job ELSE [job EXCEPT ![b] = "pending"]
  BY DEF SubmitExecuted
<1>2. ClientMove
  BY <1>1, CallerFacts DEF ClientMove
<1>3. OnlyCall(Starting(b), "done", answer)
  BY <1>1, CallerFacts, CallShapes
<1>4. UNCHANGED <<state, numbered, finished, start, cancel, disk, worker, crashes>>
      /\ start[b] = "submitting"
  BY DEF SubmitExecuted, rows, handlers
<1>5. BuildType'
  BY <1>1, <1>4 DEF BuildType, Underway
<1>6. CallsBelong'
  BY <1>3, <1>4, CallerFacts DEF CallsBelong, OnlyCall
<1>7. Jobs'
  <2>1. \A c \in Builds : job'[c] = job[c] \/ (c = b /\ job'[c] = "pending")
    BY <1>1 DEF BuildType
  <2>2. b \notin numbered /\ call'[Polling] = call[Polling]
    <3>1. b \notin numbered
      BY <1>4 DEF Jobs, NumbersAreJobs
    <3>2. call'[Polling] = call[Polling]
      BY <1>3, CallerFacts DEF OnlyCall
    <3> QED
      BY <3>1, <3>2
  <2>3. NumbersAreJobs'
    <3>1. answer = "ok" => job'[b] = "pending"
      BY <1>1 DEF BuildType
    <3>2. \A c \in Builds \ {b} : call'[Starting(c)] = call[Starting(c)]
      BY <1>3, CallerFacts DEF OnlyCall
    <3> QED
      BY <1>3, <1>4, <2>1, <2>2, <3>1, <3>2 DEF Jobs, NumbersAreJobs, OnlyCall, BuildType
  <2>4. WorkerKnows'
    BY <1>4, <2>1, <2>2 DEF Jobs, WorkerKnows, Gone, Alive, BuildType, WorkerType
  <2>5. JudgedJobsAreGone'
    BY <1>4, <2>1, <2>2 DEF Jobs, JudgedJobsAreGone, Alive, BuildType
  <2> QED
    BY <2>3, <2>4, <2>5 DEF Jobs
<1>8. Files'
  BY <1>1, <1>4 DEF Files, VerifiedIsWhole, FinalNameIsWhole, Exists, BuildType
<1> QED
  BY <1>2, <1>5, <1>6, <1>7, <1>8

(* Jobs that go on or end: none comes to life, and none is forgotten.      *)
JobsGoOn ==
  \A c \in Builds : \/ job'[c] = job[c]
                    \/ /\ job[c] \in Underway
                       /\ job'[c] \in Underway \cup {"completed", "killed"}

LEMMA JobsGoOnKeeps ==
  ASSUME BuildInv, JobsGoOn,
         UNCHANGED <<numbered, finished, start, worker>>,
         call'[Polling] = call[Polling],
         \A c \in Builds : call'[Starting(c)] = call[Starting(c)]
  PROVE  Jobs'
<1> USE DEF BuildInv
<1>1. NumbersAreJobs'
  BY DEF JobsGoOn, Jobs, NumbersAreJobs, BuildType, Underway
<1>2. WorkerKnows'
  BY DEF JobsGoOn, Jobs, WorkerKnows, Gone, Alive, BuildType, WorkerType
<1>3. JudgedJobsAreGone'
  BY DEF JobsGoOn, Jobs, JudgedJobsAreGone, Alive, BuildType
<1> QED
  BY <1>1, <1>2, <1>3 DEF Jobs

LEMMA CancelExecutedKeeps ==
  ASSUME BuildInv, NEW b \in Builds, CancelExecuted(b)
  PROVE  ClientMove /\ BuildType' /\ CallsBelong' /\ Jobs' /\ Files'
<1> USE DEF BuildInv
<1>1. PICK answer \in Answers \ {"none"} :
        /\ Executed(Canceling(b), answer)
        /\ job' \in {job, [job EXCEPT ![b] = "killed"]}
        /\ job' # job => job[b] = "pending"
  BY DEF CancelExecuted
<1>2. b \in Cancelable /\ cancel[b] = "canceling"
      /\ UNCHANGED <<state, numbered, finished, start, cancel, disk, worker, crashes>>
  BY DEF CancelExecuted, CallsBelong, rows, handlers
<1>3. ClientMove
  BY <1>1, <1>2, CallerFacts DEF ClientMove
<1>4. OnlyCall(Canceling(b), "done", answer)
  BY <1>1, <1>2, CallerFacts, CallShapes
<1>5. BuildType'
  BY <1>1, <1>2 DEF BuildType
<1>6. CallsBelong'
  BY <1>2, <1>4, CallerFacts DEF CallsBelong, OnlyCall
<1>7. Jobs'
  <2>1. JobsGoOn
    BY <1>1 DEF JobsGoOn, BuildType, Underway
  <2>2. /\ call'[Polling] = call[Polling]
        /\ \A c \in Builds : call'[Starting(c)] = call[Starting(c)]
    BY <1>2, <1>4, CallerFacts DEF OnlyCall
  <2> QED
    BY <1>2, <2>1, <2>2, JobsGoOnKeeps
<1>8. Files'
  BY <1>1, <1>2 DEF Files, VerifiedIsWhole, FinalNameIsWhole, Exists, BuildType
<1> QED
  BY <1>3, <1>5, <1>6, <1>7, <1>8

(* The files are those of one job, and it writes the final name only with  *)
(* what it has verified.                                                   *)
LEMMA JobStepFiles ==
  ASSUME BuildInv, NEW b \in Builds, JobStep(b)
  PROVE  Files' /\ disk' \in [Paths -> {"absent", "partial", "whole"}]
<1> USE DEF BuildInv
<1> DEFINE gone == [disk EXCEPT ![Staging(b)] = "absent", ![Incoming(b)] = "absent"]
<1>1. \A c \in Builds \ {b} : job'[c] = job[c]
  BY DEF JobStep, JobStarts, JobBuilds, JobVerifies, JobCopies, JobPublishes, JobCompletes, JobDies,
         JobGoes, BuildType
<1>2. /\ Staging(b) \in Paths /\ Incoming(b) \in Paths /\ Final(NameOf[b]) \in Paths
      /\ NameOf[b] \in Names /\ Staging(b) # Incoming(b)
      /\ \A n \in Names : Final(n) # Staging(b) /\ Final(n) # Incoming(b)
      /\ \A c \in Builds \ {b} : Staging(c) # Staging(b) /\ Staging(c) # Incoming(b)
      /\ \A c \in Builds, n \in Names : Staging(c) # Final(n)
  BY PathFacts
<1>3. CASE disk' = disk /\ job'[b] # "copying" /\ (job'[b] = "verified" => disk[Staging(b)] = "whole")
  BY <1>1, <1>3 DEF Files, VerifiedIsWhole, FinalNameIsWhole, Exists, BuildType
<1>4. CASE /\ \E content \in {"partial", "whole"} : disk' = [disk EXCEPT ![Staging(b)] = content]
           /\ job'[b] \notin {"verified", "copying"}
  BY <1>1, <1>2, <1>4 DEF Files, VerifiedIsWhole, FinalNameIsWhole, Exists, BuildType
<1>5. CASE disk' = [disk EXCEPT ![Incoming(b)] = "partial"] /\ job[b] = "verified"
  BY <1>1, <1>2, <1>5 DEF Files, VerifiedIsWhole, FinalNameIsWhole, Exists, BuildType
<1>6. CASE disk' = gone /\ job'[b] \notin {"verified", "copying"}
  <2>1. /\ gone \in [Paths -> {"absent", "partial", "whole"}]
        /\ \A p \in Paths : gone[p] = IF p \in {Staging(b), Incoming(b)} THEN "absent" ELSE disk[p]
    BY <1>2 DEF BuildType
  <2>2. VerifiedIsWhole'
    BY <1>1, <1>2, <1>6, <2>1, PathFacts DEF Files, VerifiedIsWhole
  <2>3. FinalNameIsWhole'
    BY <1>2, <1>6, <2>1, PathFacts DEF Files, FinalNameIsWhole, Exists
  <2> QED
    BY <1>6, <2>1, <2>2, <2>3 DEF Files
<1>7. CASE JobPublishes(b)
  <2>1. /\ disk' = [disk EXCEPT ![Final(NameOf[b])] = disk[Staging(b)],
                                ![Staging(b)] = "absent", ![Incoming(b)] = "absent"]
        /\ disk[Staging(b)] # "absent" /\ job[b] \in {"verified", "copying"}
        /\ job'[b] = "published"
    BY <1>7 DEF JobPublishes, JobGoes, Exists, BuildType
  <2>2. disk[Staging(b)] = "whole"
    BY <2>1 DEF Files, VerifiedIsWhole
  <2> DEFINE at(p) == IF p \in {Staging(b), Incoming(b)} THEN "absent"
                     ELSE IF p = Final(NameOf[b]) THEN "whole" ELSE disk[p]
  <2>3. /\ disk' \in [Paths -> {"absent", "partial", "whole"}]
        /\ \A p \in Paths : disk'[p] = at(p)
    BY <1>2, <2>1, <2>2 DEF BuildType
  <2>4. VerifiedIsWhole'
    BY <1>1, <1>2, <2>1, <2>3, PathFacts DEF Files, VerifiedIsWhole
  <2>5. FinalNameIsWhole'
    BY <1>2, <2>3, PathFacts DEF Files, FinalNameIsWhole, Exists
  <2> QED
    BY <2>3, <2>4, <2>5 DEF Files
<1> QED
  <2>1. CASE JobStarts(b) \/ JobBuilds(b)
    BY <1>4, <2>1 DEF JobStarts, JobBuilds, JobGoes, Writes, BuildType
  <2>2. CASE JobVerifies(b)
    BY <1>3, <2>2 DEF JobVerifies, JobGoes, BuildType
  <2>3. CASE JobCopies(b)
    BY <1>5, <2>3 DEF JobCopies, JobGoes, Writes
  <2>4. CASE JobCompletes(b) \/ JobDies(b)
    BY <1>3, <1>6, <2>4 DEF JobCompletes, JobDies, JobGoes, Cleaned, BuildType
  <2> QED
    BY <1>7, <2>1, <2>2, <2>3, <2>4 DEF JobStep

LEMMA JobStepKeeps ==
  ASSUME BuildInv, NEW b \in Builds, JobStep(b)
  PROVE  ClientMove /\ BuildType' /\ CallsBelong' /\ Jobs' /\ Files'
<1> USE DEF BuildInv
<1>1. /\ UNCHANGED <<clientVars, rows, handlers, worker, crashes>>
      /\ job[b] \in Underway
      /\ \E to \in Underway \cup {"completed", "killed"} : job' = [job EXCEPT ![b] = to]
  BY DEF JobStep, JobStarts, JobBuilds, JobVerifies, JobCopies, JobPublishes, JobCompletes, JobDies,
         JobGoes, Alive, Underway
<1>2. ClientMove
  BY <1>1 DEF ClientMove
<1>3. BuildType'
  BY <1>1, JobStepFiles DEF BuildType, rows, handlers
<1>4. CallsBelong'
  BY <1>1 DEF CallsBelong, clientVars, handlers
<1>5. Jobs'
  <2>1. JobsGoOn
    BY <1>1 DEF JobsGoOn, BuildType
  <2> QED
    BY <1>1, <2>1, JobsGoOnKeeps DEF clientVars, rows, handlers
<1> QED
  BY <1>2, <1>3, <1>4, <1>5, JobStepFiles

LEMMA DeleteImageKeeps ==
  ASSUME BuildInv, NEW n \in Names, DeleteImage(n)
  PROVE  ClientMove /\ BuildType' /\ CallsBelong' /\ Jobs' /\ Files'
<1> USE DEF BuildInv
<1>1. disk' = [disk EXCEPT ![Final(n)] = "absent"]
      /\ UNCHANGED <<clientVars, rows, handlers, job, worker, crashes>>
  BY DEF DeleteImage
<1>2. ClientMove
  BY <1>1 DEF ClientMove
<1>3. BuildType'
  BY <1>1 DEF BuildType, rows, handlers
<1>4. CallsBelong'
  BY <1>1 DEF CallsBelong, clientVars, handlers
<1>5. Jobs'
  BY <1>1 DEF Jobs, NumbersAreJobs, WorkerKnows, JudgedJobsAreGone, Gone, Alive, clientVars, rows, handlers
<1>6. Files'
  BY <1>1, PathFacts DEF Files, VerifiedIsWhole, FinalNameIsWhole, Exists, BuildType
<1> QED
  BY <1>2, <1>3, <1>4, <1>5, <1>6

-----------------------------------------------------------------------------
(* The worker *)

(* The worker's call is nobody else's.                                     *)
LEMMA PollingIsAlone ==
  ASSUME BuildInv, NEW pc, NEW answer, OnlyCall(Polling, pc, answer),
         worker'.pc = "idle" => pc = "idle",
         UNCHANGED <<numbered, start, cancel, job, disk>>
  PROVE  CallsBelong' /\ NumbersAreJobs' /\ Files'
<1> USE DEF BuildInv
<1>1. /\ call'[Polling].pc = pc
      /\ \A b \in Builds : call'[Starting(b)] = call[Starting(b)]
      /\ \A b \in Cancelable : call'[Canceling(b)] = call[Canceling(b)]
  BY CallerFacts DEF OnlyCall
<1>2. CallsBelong'
  BY <1>1 DEF CallsBelong
<1>3. NumbersAreJobs'
  BY <1>1 DEF Jobs, NumbersAreJobs
<1> QED
  BY <1>2, <1>3, FilesStay

LEMMA SnapshotKeeps ==
  ASSUME BuildInv, Snapshot
  PROVE  ClientMove /\ BuildType' /\ CallsBelong' /\ Jobs' /\ Files'
<1> USE DEF BuildInv
<1>1. /\ worker' = [NoWork EXCEPT !.pc = "squeue", !.watching = Watched]
      /\ UNCHANGED <<state, numbered, finished, start, cancel, job, disk, crashes>>
      /\ Begins(Polling) /\ Elsewhere /\ call[Polling].pc = "idle"
  BY DEF Snapshot, rows, handlers, Elsewhere, CallsBelong
<1>2. Watched \subseteq numbered /\ numbered \subseteq Builds
  BY DEF Watched, BuildType
<1>3. /\ worker' \in WorkerType
      /\ worker'.pc = "squeue" /\ worker'.watching \subseteq numbered
      /\ worker'.queue = {} /\ worker'.running = {} /\ worker'.remembered = {}
  BY <1>1, <1>2 DEF NoWork, WorkerType
<1>4. OnlyCall(Polling, "get", "none")
  BY <1>1, CallerFacts, CallShapes
<1>5. ClientMove
  BY <1>1, CallerFacts DEF ClientMove
<1>6. BuildType'
  BY <1>1, <1>3 DEF BuildType
<1>7. CallsBelong' /\ NumbersAreJobs' /\ Files'
  BY <1>1, <1>3, <1>4, PollingIsAlone
<1>8. WorkerKnows'
  BY <1>1, <1>3, <1>4 DEF WorkerKnows, OnlyCall
<1>9. JudgedJobsAreGone'
  BY <1>1 DEF Jobs, JudgedJobsAreGone, Alive
<1> QED
  BY <1>5, <1>6, <1>7, <1>8, <1>9 DEF Jobs

(* What is not in the queue is gone at that moment, and stays so.          *)
LEMMA QueueExecutedKeeps ==
  ASSUME BuildInv, QueueExecuted
  PROVE  ClientMove /\ BuildType' /\ CallsBelong' /\ Jobs' /\ Files'
<1> USE DEF BuildInv
<1> DEFINE inQueue == {b \in worker.watching : Alive(b)}
           inRun == {b \in worker.watching : Alive(b) /\ job[b] # "pending"}
<1>1. /\ worker' = [worker EXCEPT !.queue = inQueue, !.running = inRun]
      /\ UNCHANGED <<state, numbered, finished, start, cancel, job, disk, crashes>>
      /\ Executed(Polling, "ok") /\ worker.pc = "squeue"
  BY DEF QueueExecuted, rows, handlers
<1>2. inQueue \subseteq worker.watching /\ inRun \subseteq inQueue
      /\ \A b \in worker.watching \ inQueue : ~Alive(b)
  OBVIOUS
<1> HIDE DEF inQueue, inRun
<1>3. worker \in WorkerType /\ worker.watching \subseteq Builds
  BY DEF BuildType, WorkerType
<1>4. /\ worker' \in WorkerType
      /\ worker'.pc = "squeue" /\ worker'.watching = worker.watching
      /\ worker'.queue = inQueue /\ worker'.running = inRun
      /\ worker'.remembered = worker.remembered
  BY <1>1, <1>2, <1>3 DEF WorkerType
<1>5. OnlyCall(Polling, "done", "ok")
  BY <1>1, CallerFacts, CallShapes DEF Answers
<1>6. ClientMove
  BY <1>1, CallerFacts DEF ClientMove, Answers
<1>7. BuildType'
  BY <1>1, <1>4 DEF BuildType
<1>8. CallsBelong' /\ NumbersAreJobs' /\ Files'
  BY <1>1, <1>4, <1>5, PollingIsAlone
<1>9. WorkerKnows'
  <2>1. worker.remembered = {}
    BY <1>1 DEF Jobs, WorkerKnows
  <2> QED
    BY <1>1, <1>2, <1>4, <2>1 DEF Jobs, WorkerKnows, Gone, Alive
<1>10. JudgedJobsAreGone'
  BY <1>1 DEF Jobs, JudgedJobsAreGone, Alive
<1> QED
  BY <1>6, <1>7, <1>8, <1>9, <1>10 DEF Jobs

LEMMA ExitExecutedKeeps ==
  ASSUME BuildInv, ExitExecuted
  PROVE  ClientMove /\ BuildType' /\ CallsBelong' /\ Jobs' /\ Files'
<1> USE DEF BuildInv
<1>1. PICK answer \in {"ok", "unavailable"}, jobs \in SUBSET Gone :
        Executed(Polling, answer) /\ worker' = [worker EXCEPT !.remembered = jobs]
  BY DEF ExitExecuted
<1>2. UNCHANGED <<state, numbered, finished, start, cancel, job, disk, crashes>>
      /\ worker.pc = "sacct"
  BY DEF ExitExecuted, rows, handlers
<1>3. worker \in WorkerType /\ Gone \subseteq Builds
  BY DEF BuildType, WorkerType, Gone
<1>4. /\ worker' \in WorkerType
      /\ worker'.pc = "sacct" /\ worker'.watching = worker.watching
      /\ worker'.queue = worker.queue /\ worker'.running = worker.running
      /\ worker'.remembered = jobs
  BY <1>1, <1>2, <1>3 DEF WorkerType
<1>5. OnlyCall(Polling, "done", answer)
  BY <1>1, CallerFacts, CallShapes DEF Answers
<1>6. ClientMove
  BY <1>1, CallerFacts DEF ClientMove, Answers
<1>7. BuildType'
  BY <1>2, <1>4 DEF BuildType
<1>8. CallsBelong' /\ NumbersAreJobs' /\ Files'
  BY <1>2, <1>4, <1>5, PollingIsAlone
<1>9. WorkerKnows'
  BY <1>1, <1>2, <1>4 DEF Jobs, WorkerKnows, Gone, Alive
<1>10. JudgedJobsAreGone'
  BY <1>2 DEF Jobs, JudgedJobsAreGone, Alive
<1> QED
  BY <1>6, <1>7, <1>8, <1>9, <1>10 DEF Jobs

(* The end of a cycle, whether it has written something or not: nothing is *)
(* held any more.                                                          *)
LEMMA CycleEnds ==
  ASSUME BuildInv, worker' = NoWork, Ends(Polling), Elsewhere, call[Polling].pc = "done",
         UNCHANGED <<numbered, start, cancel, job, disk, crashes>>,
         state' \in [Builds -> States], finished' \subseteq numbered,
         \A b \in finished' \ finished : ~Alive(b)
  PROVE  ClientMove /\ BuildType' /\ CallsBelong' /\ Jobs' /\ Files'
<1> USE DEF BuildInv
<1>1. OnlyCall(Polling, "idle", "none")
  BY CallerFacts, CallShapes
<1>2. /\ worker' \in WorkerType /\ worker'.pc = "idle"
      /\ worker'.watching = {} /\ worker'.queue = {} /\ worker'.running = {}
      /\ worker'.remembered = {}
  BY DEF NoWork, WorkerType
<1>3. ClientMove
  BY CallerFacts DEF ClientMove
<1>4. BuildType'
  BY <1>2 DEF BuildType
<1>5. CallsBelong' /\ NumbersAreJobs' /\ Files'
  BY <1>1, PollingIsAlone
<1>6. WorkerKnows'
  BY <1>2 DEF WorkerKnows
<1>7. JudgedJobsAreGone'
  BY DEF Jobs, JudgedJobsAreGone, Alive
<1> QED
  BY <1>3, <1>4, <1>5, <1>6, <1>7 DEF Jobs

LEMMA QueueUnavailableKeeps ==
  ASSUME BuildInv, QueueUnavailable
  PROVE  ClientMove /\ BuildType' /\ CallsBelong' /\ Jobs' /\ Files'
<1>1. state' \in [Builds -> States] /\ finished' \subseteq numbered /\ finished' = finished
  BY DEF QueueUnavailable, rows, BuildInv, BuildType
<1> QED
  BY <1>1, CycleEnds DEF QueueUnavailable, rows, handlers, Elsewhere, Done

(* What is judged is gone, because nothing that is gone comes back.        *)
LEMMA ApplyKeeps ==
  ASSUME BuildInv, Apply, Elsewhere, call[Polling].pc = "done",
         \A b \in Gone : ~Alive(b),
         UNCHANGED <<numbered, start, cancel, job, disk, crashes>>
  PROVE  ClientMove /\ BuildType' /\ CallsBelong' /\ Jobs' /\ Files'
<1> USE DEF BuildInv
<1>1. Judged \subseteq Gone /\ Judged \subseteq numbered
  BY DEF Judged, Gone, Jobs, WorkerKnows
<1>2. state' \in [Builds -> States]
  <2>1. CASE UNCHANGED <<state, finished>>
    BY <2>1 DEF BuildType
  <2>2. CASE Write
    <3>1. \A b \in Builds :
            (CASE b \in Judged -> IF ImageSeen(b) THEN "SUCCEEDED" ELSE "FAILED"
               [] b \in worker.running /\ Active(b) -> "RUNNING"
               [] OTHER -> state[b]) \in States
      BY <1>1 DEF BuildType, States
    <3> QED
      BY <2>2, <3>1 DEF Write
  <2> QED
    BY <2>1, <2>2 DEF Apply
<1>3. finished' \in {finished, finished \cup Judged}
  BY DEF Apply, Write
<1>4. finished' \subseteq numbered /\ \A b \in finished' \ finished : ~Alive(b)
  BY <1>1, <1>3 DEF BuildType
<1>5. worker' = NoWork /\ Ends(Polling)
  BY DEF Apply
<1> HIDE DEF BuildInv
<1> QED
  BY <1>2, <1>4, <1>5, CycleEnds

LEMMA ExitReturnsKeeps ==
  ASSUME BuildInv, ExitReturns
  PROVE  ClientMove /\ BuildType' /\ CallsBelong' /\ Jobs' /\ Files'
<1>1. \A b \in Gone : ~Alive(b)
  BY DEF ExitReturns, BuildInv, Jobs, WorkerKnows
<1> QED
  BY <1>1, ApplyKeeps DEF ExitReturns, Elsewhere, handlers, Done

LEMMA QueueReturnsKeeps ==
  ASSUME BuildInv, QueueReturns
  PROVE  ClientMove /\ BuildType' /\ CallsBelong' /\ Jobs' /\ Files'
<1>1. /\ UNCHANGED <<numbered, start, cancel, job, disk, crashes>> /\ Elsewhere
      /\ worker.pc = "squeue" /\ call[Polling].pc = "done"
      /\ \A b \in Gone : ~Alive(b)
  BY DEF QueueReturns, handlers, Elsewhere, Ok, Done, BuildInv, Jobs, WorkerKnows
<1>2. CASE Apply
  BY <1>1, <1>2, ApplyKeeps
<1>3. CASE ~Apply
  <2> USE DEF BuildInv
  <2>1. /\ worker' = [worker EXCEPT !.pc = "sacct"] /\ Begins(Polling)
        /\ UNCHANGED <<state, finished>>
    BY <1>3 DEF QueueReturns
  <2>2. /\ worker' \in WorkerType /\ worker'.pc = "sacct"
        /\ worker'.watching = worker.watching /\ worker'.queue = worker.queue
        /\ worker'.running = worker.running /\ worker'.remembered = worker.remembered
    BY <2>1 DEF BuildType, WorkerType
  <2>3. OnlyCall(Polling, "get", "none")
    BY <2>1, CallerFacts, CallShapes
  <2>4. ClientMove
    BY <1>1, <2>1, CallerFacts DEF ClientMove
  <2>5. BuildType'
    BY <1>1, <2>1, <2>2 DEF BuildType
  <2>6. CallsBelong' /\ NumbersAreJobs' /\ Files'
    BY <1>1, <2>2, <2>3, PollingIsAlone
  <2>7. WorkerKnows'
    BY <1>1, <2>2 DEF Jobs, WorkerKnows, Gone, Alive
  <2>8. JudgedJobsAreGone'
    BY <1>1, <2>1 DEF Jobs, JudgedJobsAreGone, Alive
  <2> QED
    BY <2>4, <2>5, <2>6, <2>7, <2>8 DEF Jobs
<1> QED
  BY <1>2, <1>3

-----------------------------------------------------------------------------
(* A restart, the client on its own, and all of it *)

(* Nothing is under way after a crash, and what was known is forgotten.    *)
LEMMA BuildCrashKeeps ==
  ASSUME BuildInv, Crash
  PROVE  ClientMove /\ BuildType' /\ CallsBelong' /\ Jobs' /\ Files'
<1> USE DEF BuildInv
<1>1. /\ UNCHANGED <<state, numbered, finished, job, disk>> /\ crashes' = crashes + 1
      /\ crashes < MaxCrashes /\ cancel' = [b \in Builds |-> "idle"] /\ worker' = NoWork
      /\ start' = [b \in Builds |-> IF start[b] = "submitting" THEN "answered" ELSE start[b]]
      /\ ClientCrash /\ \A c \in Callers : call'[c] = NoCall
  BY DEF Crash, rows, ClientCrash
<1>2. ClientMove
  BY <1>1 DEF ClientMove
<1>3. BuildType'
  <2>1. crashes' \in 0 .. MaxCrashes
    BY <1>1, CrashesAssumption DEF BuildType
  <2>2. worker' \in WorkerType
    BY <1>1 DEF NoWork, WorkerType
  <2> QED
    BY <1>1, <2>1, <2>2 DEF BuildType
<1>4. CallsBelong'
  BY <1>1, CallerFacts DEF CallsBelong, NoCall
<1>5. Jobs'
  <2>1. NumbersAreJobs'
    BY <1>1 DEF Jobs, NumbersAreJobs, BuildType
  <2>2. WorkerKnows'
    BY <1>1 DEF WorkerKnows, NoWork
  <2> QED
    BY <1>1, <2>1, <2>2 DEF Jobs, JudgedJobsAreGone, Alive
<1> QED
  BY <1>1, <1>2, <1>3, <1>4, <1>5, FilesStay

(* A call on its way touches nothing of a build; an answer of "ok" is the  *)
(* operation's own.                                                        *)
LEMMA BuildCallKeeps ==
  ASSUME BuildInv, NEW c \in Callers, CallStep(c), UNCHANGED buildVars
  PROVE  ClientMove /\ BuildType' /\ CallsBelong' /\ Jobs' /\ Files'
<1> USE DEF BuildInv
<1>1. UNCHANGED <<state, numbered, finished, start, cancel, job, disk, worker, crashes>>
  BY DEF buildVars
<1>2. \A d \in Callers : /\ call[d].pc = "idle" => call'[d].pc = "idle"
                         /\ call'[d].answer = "ok" => call[d].answer = "ok"
  BY CallStepShape
<1>3. ClientMove
  BY DEF ClientMove
<1>4. BuildType'
  BY <1>1 DEF BuildType
<1>5. CallsBelong'
  BY <1>1, <1>2, CallerFacts DEF CallsBelong
<1>6. Jobs'
  BY <1>1, <1>2, CallerFacts DEF Jobs, NumbersAreJobs, WorkerKnows, JudgedJobsAreGone, Gone, Alive
<1> QED
  BY <1>1, <1>3, <1>4, <1>5, <1>6, FilesStay

LEMMA BuildTokensKeep ==
  ASSUME BuildInv, TokenStep \/ UNCHANGED clientVars, UNCHANGED buildVars
  PROVE  ClientMove /\ BuildType' /\ CallsBelong' /\ Jobs' /\ Files'
<1> USE DEF BuildInv
<1>1. UNCHANGED <<state, numbered, finished, start, cancel, job, disk, worker, crashes, call>>
  BY DEF buildVars, TokenStep, BecomesDue, Dies, clientVars
<1>2. BuildType'
  BY <1>1 DEF BuildType
<1>3. CallsBelong'
  BY <1>1 DEF CallsBelong
<1>4. Jobs'
  BY <1>1 DEF Jobs, NumbersAreJobs, WorkerKnows, JudgedJobsAreGone, Gone, Alive
<1> QED
  BY <1>1, <1>2, <1>3, <1>4, FilesStay DEF ClientMove

LEMMA BuildKeeps == BuildInv /\ [Next]_vars => BuildInv'
<1> SUFFICES ASSUME BuildInv, [Next]_vars PROVE BuildInv'
  OBVIOUS
<1>1. ClientMove /\ BuildType' /\ CallsBelong' /\ Jobs' /\ Files'
  <2>1. ASSUME NEW b \in Builds, Request(b) \/ JobStep(b)
        PROVE  ClientMove /\ BuildType' /\ CallsBelong' /\ Jobs' /\ Files'
    BY <2>1, StartBuildKeeps, StartConflictsKeeps, StartReturnsKeeps, CancelRowKeeps,
       CancelBuildKeeps, CancelReturnsKeeps, SubmitExecutedKeeps, CancelExecutedKeeps, JobStepKeeps
    DEF Request, HandlerStep
  <2>2. ASSUME NEW n \in Names, DeleteImage(n)
        PROVE  ClientMove /\ BuildType' /\ CallsBelong' /\ Jobs' /\ Files'
    BY <2>2, DeleteImageKeeps
  <2>3. ASSUME WorkerStep \/ SlurmAnswers
        PROVE  ClientMove /\ BuildType' /\ CallsBelong' /\ Jobs' /\ Files'
    BY <2>3, SnapshotKeeps, QueueUnavailableKeeps, QueueReturnsKeeps, ExitReturnsKeeps,
       QueueExecutedKeeps, ExitExecutedKeeps
    DEF WorkerStep, SlurmAnswers
  <2>4. ASSUME NEW c \in Callers, CallStep(c), UNCHANGED buildVars
        PROVE  ClientMove /\ BuildType' /\ CallsBelong' /\ Jobs' /\ Files'
    BY <2>4, BuildCallKeeps
  <2>5. ASSUME UNCHANGED vars
        PROVE  ClientMove /\ BuildType' /\ CallsBelong' /\ Jobs' /\ Files'
    BY <2>5, BuildTokensKeep DEF vars
  <2> QED
    BY <2>1, <2>2, <2>3, <2>4, <2>5, BuildCrashKeeps, BuildTokensKeep DEF Next
<1>2. ClientInv'
  BY <1>1, ClientKeeps DEF BuildInv
<1> QED
  BY <1>1, <1>2 DEF BuildInv

(* The invariant that the others follow from: it ties each handler to its  *)
(* call, each row to its job, each job to its files, and each caller to    *)
(* the tokens. (images_api.py, main.py, slurm_rest.py, tokens.py)          *)
THEOREM BuildsInductive == Spec => []BuildInv
  BY BuildInitially, BuildKeeps, PTL DEF Spec

(* Everything stays in its range, for any number of builds and tokens, and *)
(* the token lock belongs to a caller that is getting a token.             *)
THEOREM BuildsTypeCorrect == Spec => []TypeOK
<1>1. BuildInv => TypeOK
  <2> SUFFICES ASSUME BuildInv PROVE TypeOK
    OBVIOUS
  <2>1. /\ issued \in 0 .. MaxTokens /\ due \subseteq Tokens /\ dead \subseteq Tokens
        /\ cache \in 0 .. issued
        /\ call \in [Callers -> [pc : CallPhases, token : 0 .. MaxTokens,
                                 rejected : 0 .. MaxTokens, answer : Answers]]
        /\ lock \in Callers \cup {Nobody} /\ (lock # Nobody => call[lock].pc = "fetch")
    BY DEF BuildInv, ClientInv, ClientType, CallType, LockIsHeld
  <2>2. numbered \subseteq {b \in Builds : job[b] # "none"}
    BY DEF BuildInv, BuildType, Jobs, NumbersAreJobs
  <2>3. worker \in [pc : {"idle", "squeue", "sacct"}, watching : SUBSET numbered,
                    queue : SUBSET Builds, running : SUBSET Builds, remembered : SUBSET Builds]
    BY DEF BuildInv, BuildType, Jobs, WorkerKnows, WorkerType
  <2> QED
    BY <2>1, <2>2, <2>3 DEF TypeOK, BuildInv, BuildType, Jobs, WorkerKnows
<1> QED
  BY <1>1, BuildsInductive, PTL

(* After a rejection, a call is tried with a newer token than the rejected *)
(* one, however many callers there are. (_request, TokenProvider)          *)
THEOREM RetriesAreFresh == Spec => []RetryHasNewToken
<1>1. BuildInv => RetryHasNewToken
  BY DEF BuildInv, ClientInv
<1> QED
  BY <1>1, BuildsInductive, PTL

(* The token source is asked only when there is a reason.                  *)
(* (TokenProvider.get)                                                     *)
THEOREM RefreshesAreNeeded == Spec => []NoNeedlessRefresh
<1>1. BuildInv => NoNeedlessRefresh
  BY DEF BuildInv, ClientInv
<1> QED
  BY <1>1, BuildsInductive, PTL

(* image_build_worker judges no build whose job is alive, whatever Slurm's *)
(* answers and however late they are read. (image_build_worker)            *)
THEOREM JudgedAreGone == Spec => []JudgedJobsAreGone
<1>1. BuildInv => JudgedJobsAreGone
  BY DEF BuildInv, Jobs
<1> QED
  BY <1>1, BuildsInductive, PTL

(* No partial file ever has the name of an image, with any number of       *)
(* builds of it at work. (apptainer_build.sh)                              *)
THEOREM ImagesAreWhole == Spec => []FinalNameIsWhole
<1>1. BuildInv => FinalNameIsWhole
  BY DEF BuildInv, Files
<1> QED
  BY <1>1, BuildsInductive, PTL
=============================================================================
