----------------------------- MODULE LeaderProofs -----------------------------
(***************************************************************************)
(* As long as the database answers, the election never has two leaders,    *)
(* the workers run on the leader only, and a dead leader is replaced in    *)
(* time: for any number of instances and any timing that is Comfortable.   *)
(***************************************************************************)
EXTENDS LeaderElection, TLAPS

(* The time since n last finished an attempt is at most this. *)
Turn(n) == since[n] + (IF pc[n] = "idle" THEN 0 ELSE Heartbeat)

InTime == \A n \in Instances : TicksFor(n) => since[n] <= Deadline(n)

(* Only a process that runs is in the middle of an attempt. *)
Quiet ==
  \A n \in Instances :
    /\ ~Runs(n) => pc[n] = "idle" /\ n \notin working
    /\ stage[n] = "starting" => pc[n] \in AtWork
    /\ stage[n] = "new" => since[n] = 0

(* A process that is up leads exactly when the row is in its name, and the *)
(* heartbeat is then no older than its turn.                               *)
LeaderHoldsRow ==
  \A n \in Instances :
    Up(n) => /\ n \in leaders <=> holder = n
             /\ holder = n => age <= Delay + Turn(n)

HolderStarted == holder # Nobody => stage[holder] \in {"up", "closing", "dead"}

(* Nobody steals from an instance that is up, and an attempt knows the row *)
(* of its own process.                                                     *)
StealsFromGone ==
  \A n \in Instances :
    pc[n] = "steal" => seen[n] # Nobody /\ stage[seen[n]] \in {"closing", "dead"}
KnowsOwnRow ==
  \A n \in Instances :
    /\ pc[n] = "renew" => stage[n] # "starting" /\ (Up(n) => holder = n)
    /\ pc[n] \in {"insert", "steal"} => holder # n

(* A write that comes too late finds a row that was just written.          *)
TooLate(n) ==
  \/ pc[n] = "insert" /\ holder # Nobody
  \/ pc[n] = "steal" /\ holder # seen[n]
LateFindsFresh ==
  \A n \in Instances : TooLate(n) => age <= Delay + since[n] \/ age = Released

IsFollowed ==
  \A n \in Instances : Up(n) => age < TTL + Skew + Delay + Turn(n) \/ age = Released

Undisturbed ==
  /\ LeaderHoldsRow /\ HolderStarted /\ StealsFromGone /\ KnowsOwnRow
  /\ LateFindsFresh /\ IsFollowed /\ OnlyTheLeaderWorks

ElectionInv == TypeOK /\ InTime /\ Quiet /\ (errors = 0 => Undisturbed)

-------------------------------------------------------------------------------
LEMMA InitInv == Init => ElectionInv
BY ElectionConstants
DEF Init, ElectionInv, TypeOK, InTime, Quiet, Undisturbed, LeaderHoldsRow, HolderStarted,
    StealsFromGone, KnowsOwnRow, LateFindsFresh, TooLate, IsFollowed, OnlyTheLeaderWorks,
    Stages, AtWork, Runs, Up, Leads, TicksFor, Released, Old

LEMMA BootKeeps == ASSUME ElectionInv, NEW n \in Instances, Boot(n) PROVE ElectionInv'
<1> USE ElectionConstants DEF Boot, ElectionInv
<1>1. TypeOK'
  BY DEF TypeOK, row, Stages, AtWork
<1>2. InTime' /\ Quiet'
  BY DEF TypeOK, InTime, Quiet, TicksFor, Deadline, Runs, Up, AtWork
<1>3. ASSUME errors' = 0 PROVE Undisturbed'
  <2> USE <1>3 DEF Undisturbed, TypeOK, row
  <2>1. LeaderHoldsRow' /\ IsFollowed'
    BY DEF LeaderHoldsRow, IsFollowed, Up, Turn
  <2>2. HolderStarted' /\ StealsFromGone' /\ KnowsOwnRow'
    BY DEF HolderStarted, StealsFromGone, KnowsOwnRow, Up, Stages
  <2>3. LateFindsFresh'
    BY DEF LateFindsFresh, TooLate
  <2>4. OnlyTheLeaderWorks'
    BY DEF OnlyTheLeaderWorks, Leads, Up
  <2> QED
    BY <2>1, <2>2, <2>3, <2>4
<1> QED
  BY <1>1, <1>2, <1>3

(* The write matches the row that the attempt meant, or another process    *)
(* has just written it: either way no leader loses a fresh row.            *)
LEMMA WriteKeeps == ASSUME ElectionInv, NEW n \in Instances, Write(n) PROVE ElectionInv'
<1> USE ElectionConstants DEF ElectionInv
<1>1. since[n] \in Nat /\ since[n] <= Delay /\ pc[n] \in AtWork /\ Runs(n)
  BY DEF Write, TypeOK, InTime, TicksFor, Deadline, AtWork
<1>2. /\ pc' = [pc EXCEPT ![n] = "idle"]
      /\ since' = [since EXCEPT ![n] = IF stage[n] = "starting" THEN Heartbeat ELSE 0]
      /\ seen' = [seen EXCEPT ![n] = Nobody]
      /\ stage' = [stage EXCEPT ![n] = IF stage[n] = "starting" THEN "up" ELSE stage[n]]
      /\ leaders' = IF Matches(n) THEN leaders \cup {n} ELSE leaders \ {n}
      /\ working' = working /\ skew' = skew
  BY DEF Write, End
<1>3. TypeOK'
  <2>1. holder' \in Instances \cup {Nobody} /\ age' \in 0..Released /\ ahead' \in 0..Skew
    <3>1. age' = age \/ age' = since[n]
      BY DEF Write, Stamp, row
    <3> QED
      BY <1>1, <3>1 DEF Write, TypeOK, Stamp, row, Released, Old
  <2>2. stage' \in [Instances -> Stages] /\ pc' \in [Instances -> {"idle"} \cup AtWork]
    BY <1>2 DEF TypeOK, Stages
  <2>3. since' \in [Instances -> Nat] /\ seen' \in [Instances -> Instances \cup {Nobody}]
    BY <1>2 DEF TypeOK
  <2>4. /\ leaders' \subseteq Instances /\ working' \subseteq Instances
        /\ skew' \in [Instances -> 0..Skew]
    BY <1>2 DEF TypeOK
  <2>5. errors' \in 0..MaxErrors
    BY DEF Write, TypeOK
  <2> QED
    BY <2>1, <2>2, <2>3, <2>4, <2>5 DEF TypeOK
<1>4. InTime' /\ Quiet'
  BY <1>1, <1>2 DEF TypeOK, InTime, Quiet, TicksFor, Deadline, Runs, Up, AtWork
<1>5. ASSUME errors' = 0 PROVE Undisturbed'
  <2>1. errors = 0 /\ Undisturbed
    BY <1>5 DEF Write
  <2> USE <2>1 DEF Undisturbed
  <2>2. Matches(n) \/ age <= Delay + since[n] \/ age = Released
    BY <1>1 DEF Matches, LateFindsFresh, TooLate, Write
  <2>3. /\ holder' = IF Matches(n) /\ pc[n] # "renew" THEN n ELSE holder
        /\ age' = IF Matches(n) THEN since[n] ELSE age
    BY DEF Write, Stamp, row
  <2>4. /\ holder # n => pc[n] # "renew" \/ stage[n] = "closing"
        /\ Matches(n) /\ pc[n] # "renew" => holder = Nobody \/ stage[holder] \in {"closing", "dead"}
        /\ ~Matches(n) => holder # n /\ pc[n] # "renew"
    BY <1>1 DEF Write, Matches, KnowsOwnRow, StealsFromGone, Runs, Up
  <2>5. LeaderHoldsRow'
    BY <1>1, <1>2, <2>3, <2>4 DEF LeaderHoldsRow, Turn, TypeOK, Up, Runs
  <2>6. HolderStarted'
    BY <1>1, <1>2, <2>3 DEF HolderStarted, TypeOK, Runs
  <2>7. StealsFromGone'
    BY <1>1, <1>2 DEF StealsFromGone, TypeOK, Runs
  <2>8. KnowsOwnRow'
    BY <1>1, <1>2, <2>3, <2>4 DEF KnowsOwnRow, TypeOK, Up, Runs
  <2>9. LateFindsFresh'
    BY <1>1, <1>2, <2>3 DEF LateFindsFresh, TooLate, TypeOK
  <2>10. IsFollowed'
    BY <1>1, <1>2, <2>2, <2>3, Comfortable DEF IsFollowed, Turn, TypeOK, Up, Runs
  <2>11. OnlyTheLeaderWorks'
    BY <1>1, <1>2, <2>4 DEF OnlyTheLeaderWorks, LeaderHoldsRow, Leads, TypeOK, Up
  <2> QED
    BY <2>5, <2>6, <2>7, <2>8, <2>9, <2>10, <2>11
<1> QED
  BY <1>3, <1>4, <1>5

LEMMA SelectKeeps == ASSUME ElectionInv, NEW n \in Instances, Select(n) PROVE ElectionInv'
<1> USE ElectionConstants DEF ElectionInv, row
<1>1. TypeOK'
  BY DEF Select, TypeOK, AtWork
<1>2. InTime' /\ Quiet'
  BY DEF Select, TypeOK, InTime, Quiet, TicksFor, Deadline, Runs, Up, AtWork
<1>3. ASSUME errors' = 0 PROVE Undisturbed'
  <2> USE <1>3 DEF Undisturbed
  <2>1. /\ holder # Nobody /\ holder # n /\ Expired(n) => stage[holder] \in {"closing", "dead"}
        /\ holder = n => stage[n] # "starting"
    BY Comfortable
    DEF Select, Expired, TypeOK, InTime, LeaderHoldsRow, HolderStarted, Turn, TicksFor,
        Deadline, Runs, Up, AtWork
  <2>2. LeaderHoldsRow' /\ IsFollowed'
    BY DEF Select, LeaderHoldsRow, IsFollowed, TypeOK, Turn, Up
  <2>3. HolderStarted' /\ OnlyTheLeaderWorks'
    BY DEF Select, HolderStarted, OnlyTheLeaderWorks, Leads, Up
  <2>4. StealsFromGone' /\ KnowsOwnRow'
    BY <2>1 DEF Select, StealsFromGone, KnowsOwnRow, TypeOK, Up
  <2>5. LateFindsFresh'
    BY DEF Select, LateFindsFresh, TooLate, TypeOK
  <2> QED
    BY <2>2, <2>3, <2>4, <2>5
<1> QED
  BY <1>1, <1>2, <1>3

LEMMA FollowKeeps == ASSUME ElectionInv, NEW n \in Instances, Follow(n) PROVE ElectionInv'
<1> USE ElectionConstants DEF Follow, End, ElectionInv, TypeOK, row
<1>1. TypeOK'
  BY DEF Stages
<1>2. InTime' /\ Quiet'
  BY DEF InTime, Quiet, TicksFor, Deadline, Runs, Up, AtWork
<1>3. ASSUME errors' = 0 PROVE Undisturbed'
  <2> USE <1>3 DEF Undisturbed
  <2>1. LeaderHoldsRow'
    BY DEF LeaderHoldsRow, Turn, Runs, Up
  <2>2. HolderStarted' /\ StealsFromGone' /\ KnowsOwnRow'
    BY DEF HolderStarted, StealsFromGone, KnowsOwnRow, Runs, Up
  <2>3. LateFindsFresh'
    BY DEF LateFindsFresh, TooLate
  <2>4. IsFollowed'
    BY DEF Expired, InTime, IsFollowed, Turn, TicksFor, Deadline, Runs, Up, AtWork
  <2>5. OnlyTheLeaderWorks'
    BY DEF LeaderHoldsRow, OnlyTheLeaderWorks, Leads, Up
  <2> QED
    BY <2>1, <2>2, <2>3, <2>4, <2>5
<1> QED
  BY <1>1, <1>2, <1>3

(* Time passes: no deadline is missed, and until one is, no heartbeat is.  *)
LEMMA TickKeeps == ASSUME ElectionInv, Tick PROVE ElectionInv'
<1> USE ElectionConstants DEF ElectionInv
<1>1. TypeOK'
  BY DEF Tick, TypeOK, Older, Released, Old
<1>2. InTime' /\ Quiet'
  BY DEF Tick, TypeOK, InTime, Quiet, TicksFor, Deadline, Runs, Up
<1>3. ASSUME errors' = 0 PROVE Undisturbed'
  <2>1. Undisturbed /\ UNCHANGED <<holder, ahead, stage, pc, seen, leaders, working>>
    BY <1>3 DEF Tick
  <2> USE <2>1 DEF Undisturbed
  <2>2. age \in Nat /\ age' <= age + 1 /\ (age = Released => age' = Released)
    BY DEF Tick, TypeOK, Older, Released, Old
  <2>3. ASSUME NEW n \in Instances, Up(n) \/ pc[n] # "idle"
        PROVE since[n] \in Nat /\ since'[n] = since[n] + 1
    BY <2>3 DEF Tick, TypeOK, Quiet, TicksFor
  <2>4. ASSUME NEW n \in Instances, Up(n) PROVE Turn(n) \in Nat /\ Turn(n)' = Turn(n) + 1
    BY <2>3, <2>4 DEF Turn
  <2>5. LeaderHoldsRow' /\ IsFollowed'
    BY <1>1, <2>2, <2>4 DEF LeaderHoldsRow, IsFollowed, TypeOK, Up
  <2>6. LateFindsFresh'
    BY <1>1, <2>2, <2>3 DEF LateFindsFresh, TooLate, TypeOK
  <2>7. HolderStarted' /\ StealsFromGone' /\ KnowsOwnRow' /\ OnlyTheLeaderWorks'
    BY DEF HolderStarted, StealsFromGone, KnowsOwnRow, OnlyTheLeaderWorks, Leads, Up
  <2> QED
    BY <2>5, <2>6, <2>7
<1> QED
  BY <1>1, <1>2, <1>3

LEMMA StepInv == ElectionInv /\ [Next]_vars => ElectionInv'
<1> SUFFICES ASSUME ElectionInv, [Next]_vars PROVE ElectionInv'
  OBVIOUS
<1> USE ElectionConstants DEF ElectionInv
<1>1. ASSUME NEW n \in Instances, Begin(n) PROVE ElectionInv'
  BY <1>1
  DEF Begin, TypeOK, InTime, Quiet, Undisturbed, LeaderHoldsRow, HolderStarted, StealsFromGone,
      KnowsOwnRow, LateFindsFresh, TooLate, IsFollowed, OnlyTheLeaderWorks, Turn, AtWork, Runs,
      Up, Leads, TicksFor, Deadline, row
<1>2. ASSUME NEW n \in Instances, DatabaseError(n) PROVE ElectionInv'
  <2>1. since[n] <= Delay /\ errors' # 0
    BY <1>2 DEF DatabaseError, TypeOK, InTime, TicksFor, Deadline, AtWork
  <2>2. TypeOK'
    BY <1>2, <2>1 DEF DatabaseError, End, Stamp, TypeOK, Stages, Released, Old, row
  <2>3. InTime' /\ Quiet'
    BY <1>2 DEF DatabaseError, End, TypeOK, InTime, Quiet, TicksFor, Deadline, Runs, Up, AtWork
  <2> QED
    BY <2>1, <2>2, <2>3
<1>3. ASSUME NEW n \in Instances, WorkersStart(n) \/ WorkersFail(n) PROVE ElectionInv'
  BY <1>3
  DEF WorkersStart, WorkersFail, TypeOK, InTime, Quiet, Undisturbed, LeaderHoldsRow,
      HolderStarted, StealsFromGone, KnowsOwnRow, LateFindsFresh, TooLate, IsFollowed,
      OnlyTheLeaderWorks, Turn, Runs, Up, Leads, TicksFor, Deadline, row, attempt
<1>4. ASSUME NEW n \in Instances, Shutdown(n) PROVE ElectionInv'
  BY <1>4
  DEF Shutdown, TypeOK, Stages, InTime, Quiet, Undisturbed, LeaderHoldsRow, HolderStarted,
      StealsFromGone, KnowsOwnRow, LateFindsFresh, TooLate, IsFollowed, OnlyTheLeaderWorks,
      Turn, Runs, Up, Leads, TicksFor, Deadline, row, attempt
<1>5. ASSUME NEW n \in Instances, Release(n) PROVE ElectionInv'
  BY <1>5
  DEF Release, Released, Old, TypeOK, InTime, Quiet, Undisturbed, LeaderHoldsRow,
      HolderStarted, StealsFromGone, KnowsOwnRow, LateFindsFresh, TooLate, IsFollowed,
      OnlyTheLeaderWorks, Turn, Runs, Up, Leads, TicksFor, Deadline, row, attempt
<1>6. ASSUME NEW n \in Instances, Die(n) PROVE ElectionInv'
  BY <1>6
  DEF Die, TypeOK, Stages, InTime, Quiet, Undisturbed, LeaderHoldsRow, HolderStarted,
      StealsFromGone, KnowsOwnRow, LateFindsFresh, TooLate, IsFollowed, OnlyTheLeaderWorks,
      Turn, Runs, Up, Leads, TicksFor, Deadline, row
<1>7. CASE UNCHANGED vars
  BY <1>7
  DEF vars, TypeOK, InTime, Quiet, Undisturbed, LeaderHoldsRow, HolderStarted, StealsFromGone,
      KnowsOwnRow, LateFindsFresh, TooLate, IsFollowed, OnlyTheLeaderWorks, Turn, Runs, Up,
      Leads, TicksFor, Deadline, row, attempt
<1> QED
  BY <1>1, <1>2, <1>3, <1>4, <1>5, <1>6, <1>7, BootKeeps, SelectKeeps, FollowKeeps, WriteKeeps,
     TickKeeps DEF Next

THEOREM ElectionInvariant == Spec => []ElectionInv
BY InitInv, StepInv, PTL DEF Spec

-------------------------------------------------------------------------------
(* "The failure mode it must avoid is two leaders submitting jobs": as     *)
(* long as the database answers, at most one instance leads at any moment, *)
(* and the workers run on no other.                                        *)
THEOREM ElectionIsSafe == Spec => []UndisturbedElection
<1>1. ElectionInv => UndisturbedElection
  BY DEF ElectionInv, Undisturbed, LeaderHoldsRow, UndisturbedElection, AtMostOneLeads, Leads
<1> QED
  BY <1>1, ElectionInvariant, PTL

(* "One of them takes over ... if the leader dies": while an instance is   *)
(* up and the database answers, the row does not stay without a heartbeat. *)
THEOREM DeadLeaderIsReplaced == Spec => []TakeoverIsPrompt
<1>1. ElectionInv => TakeoverIsPrompt
  BY ElectionConstants
  DEF ElectionInv, TypeOK, InTime, Undisturbed, IsFollowed, Turn, TakeoverIsPrompt, TicksFor,
      Deadline, Up
<1> QED
  BY <1>1, ElectionInvariant, PTL

(* Processes, attempts, clocks and the row stay in their ranges, however   *)
(* the election goes. (leader.LeaderElector)                               *)
THEOREM ElectionTypeCorrect == Spec => []TypeOK
<1>1. ElectionInv => TypeOK
  BY DEF ElectionInv
<1> QED
  BY <1>1, ElectionInvariant, PTL
===============================================================================
