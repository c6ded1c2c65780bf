---------------------------- MODULE LeaderElection ----------------------------
(***************************************************************************)
(* The election of the one instance that runs the background workers       *)
(* (leader.py, with leader_worker, _supervised and lifespan of main.py):   *)
(* a row with a holder and a heartbeat, renewed by its holder, stolen from *)
(* a holder that is silent for longer than TTL.                            *)
(*                                                                         *)
(* A member of Instances is a process: instance_id() is new at every       *)
(* start, so a restarted instance is another member.                       *)
(*                                                                         *)
(* Time is kept as ages, so that it never ends.  The clock does not tick   *)
(* past a deadline: a process begins an attempt at most Heartbeat after    *)
(* the last one, and an attempt takes at most Delay from the moment it     *)
(* reads its clock.  Clocks of two instances differ by at most Skew.       *)
(***************************************************************************)
EXTENDS Integers, FiniteSets

CONSTANTS Instances, Nobody, TTL, Heartbeat, Delay, Skew,
          MaxErrors   \* bound on the number of database errors

ASSUME ElectionConstants ==
  /\ Nobody \notin Instances
  /\ TTL \in Nat /\ Heartbeat \in Nat /\ Delay \in Nat /\ Skew \in Nat /\ MaxErrors \in Nat

(* "Must comfortably exceed the renew interval". *)
ASSUME Comfortable == TTL > Heartbeat + 2 * Delay + Skew

VARIABLES
  holder, age,      \* the lock row: its holder, the age of its heartbeat, and
  ahead,            \* how far ahead the clock was that the heartbeat was read from
  stage,            \* the life of a process
  pc, since, seen,  \* its attempt: the step, the time since it began (or since the
                    \* last one ended), and the holder that it saw
  leaders,          \* the processes whose is_leader is set
  working,          \* the processes whose workers run
  skew,             \* how far the clock of a process is ahead
  errors            \* database errors so far

row == <<holder, age, ahead>>
attempt == <<pc, since, seen>>
vars == <<row, stage, attempt, leaders, working, skew, errors>>

(* An age at which a heartbeat is expired for everybody, and the age of    *)
(* the heartbeat of 1970 that a clean shutdown leaves behind.              *)
Old == TTL + Heartbeat + 2 * Delay + Skew
Released == Old + 1
AtWork == {"select", "insert", "renew", "steal"}
Stages == {"new", "starting", "up", "closing", "dead"}

TypeOK ==
  /\ holder \in Instances \cup {Nobody} /\ age \in 0..Released /\ ahead \in 0..Skew
  /\ stage \in [Instances -> Stages]
  /\ pc \in [Instances -> {"idle"} \cup AtWork]
  /\ since \in [Instances -> Nat]
  /\ seen \in [Instances -> Instances \cup {Nobody}]
  /\ leaders \subseteq Instances /\ working \subseteq Instances
  /\ skew \in [Instances -> 0..Skew]
  /\ errors \in 0..MaxErrors

Init ==
  /\ holder = Nobody /\ age = 0 /\ ahead = 0
  /\ stage = [n \in Instances |-> "new"]
  /\ pc = [n \in Instances |-> "idle"]
  /\ since = [n \in Instances |-> 0]
  /\ seen = [n \in Instances |-> Nobody]
  /\ leaders = {} /\ working = {}
  /\ skew \in [Instances -> 0..Skew]
  /\ errors = 0

Runs(n) == stage[n] \in {"starting", "up", "closing"}
Up(n) == stage[n] = "up"
Leads(n) == Up(n) /\ n \in leaders

(* An attempt begins by reading the clock.  lifespan makes the first one,  *)
(* and only then starts leader_worker, which makes another at once.        *)
Boot(n) ==
  /\ stage[n] = "new"
  /\ stage' = [stage EXCEPT ![n] = "starting"]
  /\ pc' = [pc EXCEPT ![n] = "select"]
  /\ UNCHANGED <<row, since, seen, leaders, working, skew, errors>>

Begin(n) ==
  /\ Up(n) /\ pc[n] = "idle"
  /\ pc' = [pc EXCEPT ![n] = "select"]
  /\ since' = [since EXCEPT ![n] = 0]
  /\ UNCHANGED <<row, stage, seen, leaders, working, skew, errors>>

(* The end of an attempt, with leadership or without. *)
End(n, leads) ==
  /\ pc' = [pc EXCEPT ![n] = "idle"]
  /\ since' = [since EXCEPT ![n] = IF stage[n] = "starting" THEN Heartbeat ELSE 0]
  /\ seen' = [seen EXCEPT ![n] = Nobody]
  /\ stage' = [stage EXCEPT ![n] = IF @ = "starting" THEN "up" ELSE @]
  /\ leaders' = IF leads THEN leaders \cup {n} ELSE leaders \ {n}
  /\ UNCHANGED <<working, skew>>

(* The age of the heartbeat as n sees it: from the moment at which the     *)
(* holder read its clock to the moment at which n read its own.            *)
HeldForever(n) == FALSE                                             \* mutant
Expired(n) == (age - since[n]) + (skew[n] - ahead) >= TTL

Select(n) ==
  /\ Runs(n) /\ pc[n] = "select"
  /\ \/ /\ holder = Nobody
        /\ pc' = [pc EXCEPT ![n] = "insert"]
        /\ UNCHANGED seen
     \/ /\ holder = n
        /\ pc' = [pc EXCEPT ![n] = "renew"]
        /\ UNCHANGED seen
     \/ /\ holder \notin {Nobody, n} /\ Expired(n)
        /\ pc' = [pc EXCEPT ![n] = "steal"]
        /\ seen' = [seen EXCEPT ![n] = holder]
  /\ UNCHANGED <<row, stage, since, leaders, working, skew, errors>>

(* Another instance holds the row and is alive. *)
Follow(n) ==
  /\ Runs(n) /\ pc[n] = "select"
  /\ holder \notin {Nobody, n} /\ ~Expired(n)
  /\ End(n, FALSE)
  /\ UNCHANGED <<row, errors>>

(* Whether the write of n matches a row, and what the row is then.  The    *)
(* renewal names the row by its key alone; the insertion fails on the key  *)
(* when another instance was first.                                        *)
StealsAnyway(n) ==                              \* mutant: no WHERE holder = old
  \/ pc[n] = "insert" /\ holder = Nobody
  \/ pc[n] \in {"renew", "steal"}
Matches(n) ==
  \/ pc[n] = "insert" /\ holder = Nobody
  \/ pc[n] = "renew"
  \/ pc[n] = "steal" /\ holder = seen[n]

StampExpiry(n) ==                               \* mutant: the row is given its expiry time
  /\ holder' = IF pc[n] = "renew" THEN holder ELSE n
  /\ age' = since[n] - TTL
  /\ ahead' = skew[n]
Stamp(n) ==
  /\ holder' = IF pc[n] = "renew" THEN holder ELSE n
  /\ age' = since[n]
  /\ ahead' = skew[n]

Write(n) ==
  /\ Runs(n) /\ pc[n] \in {"insert", "renew", "steal"}
  /\ IF Matches(n) THEN Stamp(n) ELSE UNCHANGED row
  /\ End(n, Matches(n))
  /\ UNCHANGED errors

(* A database error, before or after the commit, makes the process stand   *)
(* down.                                                                   *)
DatabaseError(n) ==
  /\ Runs(n) /\ pc[n] \in AtWork
  /\ errors < MaxErrors
  /\ UNCHANGED row \/ (Matches(n) /\ Stamp(n))
  /\ End(n, FALSE)
  /\ errors' = errors + 1

(* _supervised looks at is_leader before it enters a worker's loop, and    *)
(* not again until the loop raises.                                        *)
WorkersStart(n) ==
  /\ Leads(n) /\ n \notin working
  /\ working' = working \cup {n}
  /\ UNCHANGED <<row, stage, attempt, leaders, skew, errors>>

WorkersFail(n) ==
  /\ n \in working
  /\ working' = working \ {n}
  /\ UNCHANGED <<row, stage, attempt, leaders, skew, errors>>

(* Shutdown cancels the tasks; an attempt already in its thread goes on.   *)
Shutdown(n) ==
  /\ Up(n)
  /\ stage' = [stage EXCEPT ![n] = "closing"]
  /\ working' = working \ {n}
  /\ UNCHANGED <<row, attempt, leaders, skew, errors>>

Release(n) ==
  /\ stage[n] = "closing" /\ n \in leaders
  /\ \/ /\ IF holder = n THEN age' = Released /\ UNCHANGED <<holder, ahead>> ELSE UNCHANGED row
        /\ UNCHANGED errors
     \/ /\ errors < MaxErrors
        /\ errors' = errors + 1
        /\ UNCHANGED row
  /\ leaders' = leaders \ {n}
  /\ UNCHANGED <<stage, attempt, working, skew>>

Die(n) ==
  /\ Runs(n)
  /\ stage' = [stage EXCEPT ![n] = "dead"]
  /\ pc' = [pc EXCEPT ![n] = "idle"]
  /\ since' = [since EXCEPT ![n] = 0]
  /\ seen' = [seen EXCEPT ![n] = Nobody]
  /\ leaders' = leaders \ {n} /\ working' = working \ {n}
  /\ UNCHANGED <<row, skew, errors>>

Deadline(n) == IF pc[n] = "idle" THEN Heartbeat ELSE Delay
TicksFor(n) == Up(n) \/ (Runs(n) /\ pc[n] \in AtWork)

Older(a) == IF a < Old THEN a + 1 ELSE a

Tick ==
  /\ \A n \in Instances : TicksFor(n) => since[n] < Deadline(n)
  /\ age' = Older(age)
  /\ since' = [n \in Instances |-> IF TicksFor(n) THEN since[n] + 1 ELSE since[n]]
  /\ UNCHANGED <<holder, ahead, stage, pc, seen, leaders, working, skew, errors>>

Next ==
  \/ \E n \in Instances :
       \/ Boot(n) \/ Begin(n) \/ Select(n) \/ Follow(n) \/ Write(n) \/ DatabaseError(n)
       \/ WorkersStart(n) \/ WorkersFail(n) \/ Shutdown(n) \/ Release(n) \/ Die(n)
  \/ Tick

Spec == Init /\ [][Next]_vars

-------------------------------------------------------------------------------
(* The promise of the election, "the failure mode it must avoid is two     *)
(* leaders submitting jobs": as long as the database answers, at most one  *)
(* instance leads, and the workers run on no other.                        *)
AtMostOneLeads == \A n, m \in Instances : Leads(n) /\ Leads(m) => n = m
OnlyTheLeaderWorks == \A n \in working : Leads(n)
UndisturbedElection == errors = 0 => AtMostOneLeads /\ OnlyTheLeaderWorks

(* A leader that is dead is replaced: while an instance is up, the row is  *)
(* never left without a heartbeat for longer than TTL and one turn of the  *)
(* loop of that instance.                                                  *)
TakeoverIsPrompt ==
  errors = 0 =>
    \A n \in Instances :
      Up(n) => age < TTL + Skew + Heartbeat + 2 * Delay \/ age = Released
===============================================================================
