---------------------------- MODULE SlurmClient ----------------------------
(***************************************************************************)
(* How a request reaches slurmrestd: _request in slurm_rest.py, and the    *)
(* TokenProvider of tokens.py that lends it a token. Requests run side by  *)
(* side (each gets its token in a thread); a token can be due for renewal, *)
(* or be dead: expired, revoked, or signed with a key that is no longer in *)
(* use. Tokens are numbered in the order in which they were issued.        *)
(***************************************************************************)
EXTENDS Integers, FiniteSets

CONSTANTS
  Callers,    \* who may have a request under way
  TokenMode,  \* SLURM_TOKEN_MODE: "static", "file" or "command"
  MaxTokens,  \* the last token, which neither becomes due nor dies
  Nobody

ASSUME TokensAssumption == MaxTokens \in Nat \ {0}
ASSUME ModeAssumption == TokenMode \in {"static", "file", "command"}
ASSUME NobodyAssumption == Nobody \notin Callers

VARIABLES
  issued,     \* the last token there is
  due,        \* tokens whose exp claim is within the refresh margin
  dead,       \* tokens that slurmrestd does not accept
  cache,      \* TokenProvider._cached; NoToken for None
  lock,       \* the caller that holds TokenProvider._lock
  call        \* caller -> [pc, token, rejected, answer]

clientVars == <<issued, due, dead, cache, lock, call>>

NoToken == 0
Tokens == 1 .. MaxTokens
NoCall == [pc |-> "idle", token |-> NoToken, rejected |-> NoToken, answer |-> "none"]
Retried(c) == call[c].rejected # NoToken
CallPhases == {"idle", "get", "wait", "fetch", "sent", "rejected", "done"}
Answers == {"none", "ok", "refused", "unavailable"}

(* The tokens of earlier days, which nobody holds any more, are expired.   *)
ClientInit ==
  /\ issued \in 0 .. MaxTokens /\ (TokenMode # "command" => issued > 0)
  /\ due = 1 .. issued - 1 /\ dead = due
  /\ cache = NoToken
  /\ lock = Nobody
  /\ call = [c \in Callers |-> NoCall]

Idle(c) == call[c].pc = "idle"
Done(c) == call[c].pc = "done"
Ok(c) == Done(c) /\ call[c].answer = "ok"

(* What the caller does of the call: it makes it, and takes its answer.    *)
Begins(c) == call' = [call EXCEPT ![c] = [NoCall EXCEPT !.pc = "get"]]
Ends(c) == call' = [call EXCEPT ![c] = NoCall]

-----------------------------------------------------------------------------
(* TokenProvider. *)

NeedsRefresh == cache = NoToken \/ cache \in due
Sends(c, t) == call' = [call EXCEPT ![c].pc = "sent", ![c].token = t]
Answered(c, answer) == call' = [call EXCEPT ![c].pc = "done", ![c].answer = answer]

(* get: without the lock, if the cached token will do.                     *)
Get(c) ==
  /\ call[c].pc = "get"
  /\ IF NeedsRefresh THEN call' = [call EXCEPT ![c].pc = "wait"] ELSE Sends(c, cache)
  /\ UNCHANGED <<issued, due, dead, cache, lock>>

(* get, with the lock: another caller may have renewed it in the meantime. *)
\* mutant
AcquireOnly(c) ==
  /\ call[c].pc = "wait" /\ lock = Nobody
  /\ lock' = c /\ call' = [call EXCEPT ![c].pc = "fetch"]
  /\ UNCHANGED <<issued, due, dead, cache>>
Acquire(c) ==
  /\ call[c].pc = "wait" /\ lock = Nobody
  /\ IF NeedsRefresh THEN lock' = c /\ call' = [call EXCEPT ![c].pc = "fetch"]
     ELSE Sends(c, cache) /\ UNCHANGED lock
  /\ UNCHANGED <<issued, due, dead, cache>>

(* The source, under the lock. A command mints a token; a file has the one *)
(* that is there, or that somebody else has put there since.               *)
Newer == IF issued < MaxTokens THEN issued + 1 ELSE issued
Source ==
  CASE TokenMode = "command" -> {Newer}
    [] TokenMode = "file" -> {issued, Newer}
    [] TokenMode = "static" -> {issued}
Fetch(c) ==
  /\ call[c].pc = "fetch"
  /\ \E t \in Source :
       /\ issued' = t /\ cache' = t
       /\ Sends(c, t)
  /\ lock' = Nobody
  /\ UNCHANGED <<due, dead>>

\* mutant
FailsWithLock(c) ==
  /\ call[c].pc = "fetch" /\ TokenMode # "static"
  /\ Answered(c, "unavailable")
  /\ UNCHANGED <<issued, due, dead, cache, lock>>
(* The command fails or times out, or the file cannot be read.             *)
FetchFails(c) ==
  /\ call[c].pc = "fetch" /\ TokenMode # "static"
  /\ lock' = Nobody
  /\ Answered(c, "unavailable")
  /\ UNCHANGED <<issued, due, dead, cache>>

(* After a rejection: invalidate, and once more from the start.            *)
\* mutant
RetryWithoutInvalidate(c) ==
  /\ call[c].pc = "rejected" /\ lock = Nobody
  /\ call' = [call EXCEPT ![c].pc = "get", ![c].rejected = call[c].token]
  /\ UNCHANGED <<issued, due, dead, cache, lock>>
Invalidate(c) ==
  /\ call[c].pc = "rejected" /\ lock = Nobody
  /\ cache' = NoToken
  /\ call' = [call EXCEPT ![c].pc = "get", ![c].rejected = call[c].token]
  /\ UNCHANGED <<issued, due, dead, lock>>

-----------------------------------------------------------------------------
(* slurmrestd. *)

Accepted(t) == t \notin dead

\* mutant
RejectionReadAsEmpty(c) ==
  /\ call[c].pc = "sent" /\ ~Accepted(call[c].token)
  /\ Answered(c, "ok")
  /\ UNCHANGED <<issued, due, dead, cache, lock>>
(* 401, 403, 511, or an answer whose errors are about authentication: one  *)
(* retry with another token, then the cluster counts as unavailable.       *)
Reject(c) ==
  /\ call[c].pc = "sent" /\ ~Accepted(call[c].token)
  /\ IF Retried(c) THEN Answered(c, "unavailable")
     ELSE call' = [call EXCEPT ![c].pc = "rejected"]
  /\ UNCHANGED <<issued, due, dead, cache, lock>>

(* The request does not arrive; or slurmrestd says 5xx, or no JSON.        *)
Unreachable(c) ==
  /\ call[c].pc = "sent"
  /\ Answered(c, "unavailable")
  /\ UNCHANGED <<issued, due, dead, cache, lock>>

(* It is executed, and this is what the caller hears of it. The effect     *)
(* belongs to the operation, and an answer can get lost on its way.        *)
Executed(c, answer) ==
  /\ call[c].pc = "sent" /\ Accepted(call[c].token)
  /\ Answered(c, answer)
  /\ UNCHANGED <<issued, due, dead, cache, lock>>

-----------------------------------------------------------------------------
(* Tokens age.                                                             *)

BecomesDue ==
  /\ \E t \in (1 .. issued) \ (due \cup {MaxTokens}) : due' = due \cup {t}
  /\ UNCHANGED <<issued, dead, cache, lock, call>>

Dies ==
  /\ \E t \in (1 .. issued) \ (dead \cup {MaxTokens}) : dead' = dead \cup {t}
  /\ UNCHANGED <<issued, due, cache, lock, call>>

CallStep(c) ==
  Get(c) \/ Acquire(c) \/ Fetch(c) \/ FetchFails(c) \/ Invalidate(c) \/ Reject(c) \/ Unreachable(c)
TokenStep == BecomesDue \/ Dies

(* The process dies, and the requests and the cache with it.               *)
ClientCrash ==
  /\ cache' = NoToken
  /\ lock' = Nobody
  /\ call' = [c \in Callers |-> NoCall]
  /\ UNCHANGED <<issued, due, dead>>
=============================================================================
