-------------------------- MODULE AdmissionProofs --------------------------
(***************************************************************************)
(* Proofs for AdmissionProperties: for any number of requests, users and   *)
(* replicas, on any cluster, tables stay in their ranges, one request at a *)
(* time is inside the booking lock, nobody books more GPUs at once than his*)
(* quota allows, and the plan of the bookings keeps its promises.          *)
(***************************************************************************)
EXTENDS AdmissionProperties, PlacementProofs

-----------------------------------------------------------------------------
(* Counting GPUs *)

Pairs(rows, t) ==
  UNION {{row.id} \X (1 .. row.gpus) : row \in {r \in rows : r.begin <= t /\ t < r.end}}

LEMMA Counting == \A n \in Nat : IsFiniteSet(1 .. n) /\ Cardinality(1 .. n) = n
<1> TAKE n \in Nat
<1>1. IsFiniteSet(1 .. n) /\ Cardinality(1 .. n) = IF 1 > n THEN 0 ELSE n - 1 + 1
  <2>1. 1 \in Int /\ n \in Int
    OBVIOUS
  <2> QED
    BY <2>1, FS_Interval
<1> QED
  BY <1>1

(* The pairs of finitely many rows are finitely many.                      *)
LEMMA PairsAreFinite ==
  ASSUME NEW rows, IsFiniteSet(rows), \A r \in rows : r.gpus \in Nat, NEW t
  PROVE  IsFiniteSet(Pairs(rows, t))
<1> DEFINE A == {r \in rows : r.begin <= t /\ t < r.end}
           S == {{row.id} \X (1 .. row.gpus) : row \in A}
           f == [row \in A |-> {row.id} \X (1 .. row.gpus)]
<1>1. IsFiniteSet(A)
  BY FS_Subset
<1>2. f \in Surjection(A, S)
  BY DEF Surjection
<1>3. IsFiniteSet(S)
  <2> HIDE DEF A, S, f
  <2> QED
    BY <1>1, <1>2, FS_Surjection
<1>4. ASSUME NEW T \in S PROVE IsFiniteSet(T)
  <2>1. PICK r \in rows : T = {r.id} \X (1 .. r.gpus)
    OBVIOUS
  <2>2. IsFiniteSet({r.id}) /\ IsFiniteSet(1 .. r.gpus)
    BY FS_Singleton, Counting
  <2> QED
    BY <2>1, <2>2, FS_Product
<1>5. IsFiniteSet(UNION S)
  <2> HIDE DEF S
  <2> QED
    BY <1>3, <1>4, FS_UNION
<1> QED
  BY <1>5 DEF Pairs

LEMMA GpusArePairs == \A rows, t : GpusAt(rows, t) = Cardinality(Pairs(rows, t))
  BY DEF GpusAt, Pairs

(* Fewer pairs are fewer GPUs.                                             *)
LEMMA FewerGpus ==
  ASSUME NEW some, NEW all, IsFiniteSet(all), \A r \in all : r.gpus \in Nat,
         NEW t, NEW s, Pairs(some, s) \subseteq Pairs(all, t)
  PROVE  /\ GpusAt(some, s) \in Nat /\ GpusAt(all, t) \in Nat
         /\ GpusAt(some, s) <= GpusAt(all, t)
<1>1. IsFiniteSet(Pairs(all, t))
  BY PairsAreFinite
<1>2. IsFiniteSet(Pairs(some, s)) /\ Cardinality(Pairs(some, s)) <= Cardinality(Pairs(all, t))
  BY <1>1, FS_Subset
<1> QED
  BY <1>1, <1>2, GpusArePairs, FS_CardinalityType

(* A row under an identity of its own adds its GPUs while it is active, and*)
(* nothing at other times.                                                 *)
LEMMA OneMoreRow ==
  ASSUME NEW rows, IsFiniteSet(rows), \A r \in rows : r.gpus \in Nat, NEW t,
         NEW row, row.gpus \in Nat, \A r \in rows : r.id # row.id
  PROVE  GpusAt(rows \cup {row}, t) =
           IF row.begin <= t /\ t < row.end THEN GpusAt(rows, t) + row.gpus ELSE GpusAt(rows, t)
<1> DEFINE new == {row.id} \X (1 .. row.gpus)
<1>1. IsFiniteSet(Pairs(rows, t))
  BY PairsAreFinite
<1>2. CASE ~(row.begin <= t /\ t < row.end)
  <2>1. Pairs(rows \cup {row}, t) = Pairs(rows, t)
    BY <1>2 DEF Pairs
  <2> QED
    BY <1>2, <2>1, GpusArePairs
<1>3. CASE row.begin <= t /\ t < row.end
  <2>1. Pairs(rows \cup {row}, t) = Pairs(rows, t) \cup new
    BY <1>3 DEF Pairs
  <2>2. Pairs(rows, t) \cap new = {}
    BY DEF Pairs
  <2>3. IsFiniteSet(new) /\ Cardinality(new) = row.gpus
    <3>1. IsFiniteSet({row.id}) /\ Cardinality({row.id}) = 1
      BY FS_Singleton
    <3>2. IsFiniteSet(1 .. row.gpus) /\ Cardinality(1 .. row.gpus) = row.gpus
      BY Counting
    <3>3. IsFiniteSet(new) /\ Cardinality(new) = Cardinality({row.id}) * Cardinality(1 .. row.gpus)
      BY <3>1, <3>2, FS_Product, Zenon
    <3>4. Cardinality({row.id}) * Cardinality(1 .. row.gpus) = row.gpus
      BY <3>1, <3>2
    <3> QED
      BY <3>3, <3>4
  <2>4. Cardinality(Pairs(rows, t)) \in Nat
    BY <1>1, FS_CardinalityType
  <2>5. Cardinality(Pairs(rows, t) \cup new) = Cardinality(Pairs(rows, t)) + row.gpus
    <3> HIDE DEF new
    <3>1. Cardinality(Pairs(rows, t) \cup new) =
            Cardinality(Pairs(rows, t)) + Cardinality(new) - Cardinality(Pairs(rows, t) \cap new)
      BY <1>1, <2>3, FS_Union
    <3>2. Cardinality(Pairs(rows, t) \cap new) = 0
      BY <2>2, FS_EmptySet
    <3> QED
      BY <3>1, <3>2, <2>3, <2>4
  <2> QED
    BY <1>3, <2>1, <2>5, GpusArePairs
<1> QED
  BY <1>2, <1>3

(* Natural numbers below a bound that are not all excluded have a greatest.*)
LEMMA GreatestNumber ==
  ASSUME NEW T \in SUBSET Nat, T # {}, NEW n \in Nat, \A x \in T : x <= n
  PROVE  \E x \in T : \A y \in T : y <= x
<1> DEFINE gaps == {n - x : x \in T}
<1>1. gaps \in SUBSET Nat /\ gaps # {}
  <2>1. \A x \in T : n - x \in Nat
    OBVIOUS
  <2> QED
    BY <2>1
<1>2. PICK g \in gaps : \A h \in gaps : g <= h
  <2> HIDE DEF gaps
  <2> QED
    BY <1>1, LeastNumber
<1>3. PICK x \in T : g = n - x
  OBVIOUS
<1>4. \A y \in T : n - x <= n - y
  BY <1>2, <1>3
<1> QED
  BY <1>4

-----------------------------------------------------------------------------
(* The inductive invariant *)

ChangeType == [of : Requests \cup {Nobody}, begin : Nat \cup {Unknown}, end : Nat \cup {Unknown}]
RequestType == [pc : Stages, row : RowType, into : ChangeType]
Snapshots == {EmptySnapshot} \cup Clusters \cup {[c EXCEPT !.foreign = {}] : c \in Clusters}
Types ==
  /\ now \in 0 .. MaxTime
  /\ snapshot \in [Replicas -> Snapshots]
  /\ lease \in [Requests -> RowType]
  /\ lastId \in Nat /\ sentinel \in BOOLEAN
  /\ lock \in Requests \cup {Nobody}
  /\ request \in [Requests -> RequestType]
  /\ edit \in ChangeType

(* An identity is given once, a row that is about to be changed exists, and*)
(* one that is about to be inserted has no identity yet.                   *)
Exists(p) == p \in Requests /\ lease[p].id # 0
Identities ==
  /\ \A q \in Requests : lease[q].id <= lastId /\ (lease[q].id = 0 => lease[q] = NoRow)
  /\ \A p, q \in Requests : lease[p].id = lease[q].id /\ lease[p] # NoRow => p = q
  /\ \A q \in Requests : /\ request[q].row.id = 0
                         /\ request[q].pc = "merging" => Exists(request[q].into.of)
  /\ edit # NoEdit => Exists(edit.of)

(* The lock belongs to the one request that is inside the transaction.     *)
Inside(q) == request[q].pc \in {"check", "insert"}
LockIsHeld ==
  /\ lock # Nobody => sentinel /\ lock \in Requests /\ Inside(lock)
  /\ \A q \in Requests : Inside(q) => lock = q

(* A booking that was checked and is not inserted yet still fits its       *)
(* owner's quota, whatever others have done since.                         *)
Booked(row) == row.state \in ActiveStates /\ row.asBooked
Covers(row, t) == row.begin <= t /\ t < row.end
Reserved(q) ==
  LET u == Wanted[q].user
      row == request[q].row
  IN \A t \in now .. MaxTime :
       Covers(row, t) => Within(GpusAt(BookedBy(u) \cup {row}, t), QuotaFor(u, row.pool).gpus)
PlacesAreReserved == \A q \in Requests : request[q].pc = "insert" => Reserved(q)

AdmissionInv == Types /\ Identities /\ LockIsHeld /\ QuotaIsKept /\ PlacesAreReserved

LEMMA Constants ==
  /\ IsFiniteSet(Requests) /\ Nobody \notin Requests
  /\ MaxTime \in Nat /\ Horizon \in Nat
  /\ NoRow \in RowType /\ NoEdit \in ChangeType /\ NoWork \in RequestType
  /\ NoRow.id = 0 /\ NoRow.state = "NONE" /\ ~Booked(NoRow) /\ NoWork.pc = "idle" /\ NoWork.row = NoRow
  BY RequestsAssumption, TimesAssumption
  DEF NoRow, NoEdit, NoWork, RowType, ChangeType, RequestType, LeaseStates, Stages, Booked, ActiveStates

-----------------------------------------------------------------------------
(* What a request asks for *)

LEMMA ClassesAreKnown ==
  ASSUME NEW q \in Requests PROVE RequestedClass(q) \in DOMAIN GpuClass \cup {NoClass}
<1> DEFINE inv == Serving(q)
           m == Wanted[q].model
           p == RequestedPool(q)
           usable == {c \in ClassesOn(inv, CandidateNodes(inv, p)) : UsableClass(inv, m, p, c)}
<1>1. usable \subseteq DOMAIN GpuClass
  BY DEF UsableClass
<1>2. ASSUME usable # {} PROVE \E c \in usable : \A d \in usable : GpuClass[c].vram <= GpuClass[d].vram
  <2> DEFINE sizes == {GpuClass[c].vram : c \in usable}
  <2>1. sizes \in SUBSET Nat /\ sizes # {}
    BY <1>1, <1>2, ClassesAssumption
  <2>2. \E x \in sizes : \A y \in sizes : x <= y
    <3> HIDE DEF sizes
    <3> QED
      BY <2>1, LeastNumber
  <2> QED
    BY <2>2
<1>3. ASSUME usable # {}
      PROVE  (CHOOSE c \in usable : \A d \in usable : GpuClass[c].vram <= GpuClass[d].vram) \in usable
  <2> HIDE DEF usable
  <2> QED
    BY <1>2, <1>3
<1>4. ChooseGpuClass(inv, m, p, Wanted[q].class) \in DOMAIN GpuClass \cup {NoClass}
  BY <1>1, <1>3 DEF ChooseGpuClass, UsableClass
<1> QED
  BY <1>4 DEF RequestedClass

LEMMA RequestedRows ==
  ASSUME Types, NEW q \in Requests, Acceptable(q), NEW begin \in Nat
  PROVE  RequestedRow(q, begin) \in RowType /\ RequestedRow(q, begin).id = 0
<1>1. Wanted[q].model \in DOMAIN Model /\ Wanted[q].pool \in DOMAIN Pool \cup {NoPool}
  BY DEF Acceptable
<1>2. RequestedPool(q) \in DOMAIN Pool \cup {NoPool}
  BY <1>1 DEF RequestedPool, PoolForNode
<1>3. RequestedGpus(q) \in Nat \ {0}
  BY <1>1, ModelsAssumption, WantedAssumption DEF RequestedGpus, GpusFor
<1>4. begin + Wanted[q].length \in Nat /\ Wanted[q].node \in Nat \cup {NoNode}
  BY WantedAssumption
<1>5. Wanted[q].model \in DOMAIN Model /\ RequestedClass(q) \in DOMAIN GpuClass \cup {NoClass}
  BY <1>1, ClassesAreKnown
<1> QED
  BY <1>2, <1>3, <1>4, <1>5 DEF RequestedRow, RowType, LeaseStates, NoRow

LEMMA BeginsAreTimes ==
  ASSUME Types, NEW q \in Requests, NEW begin \in Begins(q), begin # Unknown
  PROVE  begin \in Nat
<1>0. now \in Nat
  BY TimesAssumption DEF Types
<1>1. ASSUME begin = EarliestStart(q) PROVE begin \in Nat
  <2> DEFINE others == {Demand(Serving(q), row) : row \in Active(Rows)}
             until == now + Horizon
  <2>1. ASSUME NEW d, NEW slots, d.begin = now
        PROVE  LET slot == FindEarliestSlot(d, slots, others, Serving(q).foreign, until, Grid)
               IN slot = Unknown \/ slot \in Nat
    <3>1. \A row \in Active(Rows) : row.begin \in Nat /\ row.end \in Nat
      BY DEF Types, RowType, Active, Rows
    <3>2. \A o \in others : o.begin \in Nat /\ o.end \in Nat
      BY <3>1 DEF Demand
    <3>3. until \in Nat /\ Grid \in Nat \ {0}
      BY <1>0, TimesAssumption
    <3> HIDE DEF others, until
    <3> QED
      BY <1>0, <2>1, <3>2, <3>3, EarliestSlotFits
  <2>2. Probe(q).begin = now /\ \A N : [Probe(q) EXCEPT !.nodes = N].begin = now
    BY DEF Probe, Demand, RequestedRow, NoRow
  <2>3. EarliestStart(q) = Unknown \/ EarliestStart(q) \in Nat
    BY <2>1, <2>2 DEF EarliestStart
  <2> QED
    BY <1>1, <2>3
<1>2. CASE Wanted[q].asap
  BY <1>1, <1>2 DEF Begins
<1>3. CASE ~Wanted[q].asap
  BY <1>0, <1>3, WantedAssumption DEF Begins
<1> QED
  BY <1>2, <1>3

-----------------------------------------------------------------------------
(* Types *)

LEMMA PairMax == \A a, b \in Nat : Max({a, b}) \in Nat
<1> TAKE a, b \in Nat
<1>1. \E x \in {a, b} : \A y \in {a, b} : x >= y
  OBVIOUS
<1> QED
  BY <1>1 DEF Max

LEMMA PairMin == \A a, b \in Nat : Min({a, b}) \in Nat
<1> TAKE a, b \in Nat
<1>1. \E x \in {a, b} : \A y \in {a, b} : x <= y
  OBVIOUS
<1> QED
  BY <1>1 DEF Min

(* What a request is told, and where it goes on.                           *)
LEMMA AnswerTypes ==
  ASSUME Types, NEW q \in Requests, NEW pc \in Stages, Continue(q, pc) \/ Answer(q, pc)
  PROVE  request' \in [Requests -> RequestType]
<1>1. request[q] \in RequestType /\ NoWork \in RequestType
  BY Constants DEF Types
<1>2. [request[q] EXCEPT !.pc = pc] \in RequestType /\ [NoWork EXCEPT !.pc = pc] \in RequestType
  BY <1>1 DEF RequestType
<1>3. CASE Continue(q, pc)
  BY <1>2, <1>3 DEF Types, Continue
<1>4. CASE Answer(q, pc)
  BY <1>2, <1>4 DEF Types, Answer
<1> QED
  BY <1>3, <1>4

LEMMA ArriveTypes ==
  ASSUME Types, NEW q \in Requests, Arrive(q) PROVE Types'
<1>1. request' \in [Requests -> RequestType]
  <2>1. CASE Answer(q, "refused")
    BY <2>1, AnswerTypes DEF Stages
  <2>2. CASE ~Answer(q, "refused")
    <3>1. PICK begin \in Begins(q) :
            /\ Acceptable(q) /\ begin # Unknown
            /\ request' = [request EXCEPT ![q].pc = "merge", ![q].row = RequestedRow(q, begin)]
      BY <2>2 DEF Arrive
    <3>2. RequestedRow(q, begin) \in RowType
      BY <3>1, BeginsAreTimes, RequestedRows
    <3>3. request[q] \in RequestType
      BY DEF Types
    <3>4. [request[q] EXCEPT !.pc = "merge", !.row = RequestedRow(q, begin)] \in RequestType
      BY <3>2, <3>3 DEF RequestType, Stages
    <3> QED
      BY <3>1, <3>4 DEF Types
  <2> QED
    BY <2>1, <2>2
<1> QED
  BY <1>1 DEF Types, Arrive

LEMMA MergeTypes ==
  ASSUME Types, NEW q \in Requests, Merge(q) PROVE Types'
<1>1. request' \in [Requests -> RequestType]
  <2>1. CASE Answer(q, "refused")
    BY <2>1, AnswerTypes DEF Stages
  <2>2. CASE ~Answer(q, "refused")
    <3> DEFINE row(p) == MergedRow(request[q].row, lease[p])
               change(p) == [of |-> p, begin |-> Changed(lease[p].begin, row(p).begin),
                                       end |-> Changed(lease[p].end, row(p).end)]
    <3>1. PICK p \in Requests :
            request' = [request EXCEPT ![q].pc = "merging", ![q].into = change(p)]
      BY <2>2 DEF Merge
    <3>2. request[q] \in RequestType /\ request[q].row \in RowType /\ lease[p] \in RowType
      BY DEF Types, RequestType
    <3>3. row(p).begin \in Nat /\ row(p).end \in Nat
      BY <3>2, PairMax, PairMin DEF MergedRow, RowType
    <3>4. change(p) \in ChangeType
      BY <3>3 DEF ChangeType, Changed
    <3>5. [request[q] EXCEPT !.pc = "merging", !.into = change(p)] \in RequestType
      BY <3>2, <3>4 DEF RequestType, Stages
    <3> HIDE DEF change
    <3> QED
      BY <3>1, <3>5 DEF Types
  <2> QED
    BY <2>1, <2>2
<1> QED
  BY <1>1 DEF Types, Merge

(* A commit writes times into a row.                                       *)
LEMMA WrittenTypes ==
  ASSUME NEW row \in RowType, NEW change \in ChangeType
  PROVE  Written(row, change) \in RowType
  BY DEF Written, RowType, ChangeType

LEMMA CommitTypes ==
  ASSUME Types, Identities, (\E q \in Requests : CommitMerge(q)) \/ CommitEdit
  PROVE  Types'
<1>1. CASE CommitEdit
  <2>1. edit.of \in Requests /\ edit \in ChangeType
    BY <1>1 DEF CommitEdit, Identities, Exists, Types
  <2>2. Written(lease[edit.of], edit) \in RowType
    BY <2>1, WrittenTypes DEF Types
  <2> QED
    BY <1>1, <2>2, Constants DEF CommitEdit, Types
<1>2. ASSUME NEW q \in Requests, CommitMerge(q) PROVE Types'
  <2> DEFINE change == request[q].into
  <2>1. change.of \in Requests /\ change \in ChangeType
    BY <1>2 DEF CommitMerge, Identities, Exists, Types, RequestType
  <2>2. Written(lease[change.of], change) \in RowType
    BY <2>1, WrittenTypes DEF Types
  <2>3. request' \in [Requests -> RequestType]
    BY <1>2, AnswerTypes DEF CommitMerge, Stages
  <2> QED
    BY <1>2, <2>2, <2>3 DEF CommitMerge, Types
<1> QED
  BY <1>1, <1>2

LEMMA PrepareTypes ==
  ASSUME Types, NEW q \in Requests, Prepare(q) PROVE Types'
<1> DEFINE state == IF request[q].row.begin > now THEN "PLANNED" ELSE "SUBMITTED"
<1>1. request[q] \in RequestType /\ state \in LeaseStates
  BY DEF Types, LeaseStates
<1>2. [request[q].row EXCEPT !.state = state] \in RowType
  BY <1>1 DEF RequestType, RowType
<1>3. [request[q] EXCEPT !.pc = "lock", !.row = [request[q].row EXCEPT !.state = state]] \in RequestType
  BY <1>1, <1>2 DEF RequestType, Stages
<1>4. request' = [request EXCEPT ![q] =
                    [request[q] EXCEPT !.pc = "lock", !.row = [request[q].row EXCEPT !.state = state]]]
  BY DEF Prepare
<1> HIDE DEF state
<1> QED
  BY <1>3, <1>4 DEF Types, Prepare

LEMMA LockTypes ==
  ASSUME Types, NEW q \in Requests, Take(q) \/ FindsNoRow(q) \/ CreateRow(q) \/ Check(q)
  PROVE  Types'
<1>1. \E pc \in Stages : Continue(q, pc) \/ Answer(q, pc)
  <2>1. CASE Check(q)
    BY <2>1 DEF Check, Verdict, Stages
  <2>2. CASE Take(q) \/ FindsNoRow(q) \/ CreateRow(q)
    BY <2>2 DEF Take, FindsNoRow, CreateRow, Stages
  <2> QED
    BY <2>1, <2>2
<1>2. request' \in [Requests -> RequestType]
  BY <1>1, AnswerTypes
<1>3. lock' \in Requests \cup {Nobody} /\ sentinel' \in BOOLEAN
  <2>1. CASE Check(q)
    BY <2>1 DEF Check, Unlock, Types
  <2>2. CASE Take(q) \/ FindsNoRow(q) \/ CreateRow(q)
    BY <2>2 DEF Take, FindsNoRow, CreateRow, Types
  <2> QED
    BY <2>1, <2>2
<1>4. UNCHANGED <<now, snapshot, lease, lastId, edit>>
  BY DEF Take, FindsNoRow, CreateRow, Check
<1> QED
  BY <1>2, <1>3, <1>4 DEF Types

LEMMA NumberedTypes ==
  ASSUME NEW row \in RowType, NEW n \in Nat PROVE [row EXCEPT !.id = n] \in RowType
  BY DEF RowType

LEMMA InsertTypes ==
  ASSUME Types, NEW q \in Requests, Insert(q) PROVE Types'
<1>1. request[q].row \in RowType /\ lastId \in Nat
  BY DEF Types, RequestType
<1>2. [request[q].row EXCEPT !.id = lastId + 1] \in RowType
  BY <1>1, NumberedTypes
<1>3. request' \in [Requests -> RequestType]
  BY AnswerTypes DEF Insert, Stages
<1>4. lease' \in [Requests -> RowType] /\ lastId' \in Nat
  BY <1>1, <1>2 DEF Insert, Types
<1>5. lock' \in Requests \cup {Nobody}
  BY DEF Insert, Unlock, Types
<1> QED
  BY <1>3, <1>4, <1>5 DEF Insert, Types

LEMMA RowTimes ==
  ASSUME NEW row \in RowType
  PROVE  /\ row.begin \in Nat /\ row.end \in Nat /\ row.gpus \in Nat /\ row.id \in Nat
         /\ \A b, e : /\ [row EXCEPT !.begin = b, !.end = e].begin = b
                      /\ [row EXCEPT !.begin = b, !.end = e].end = e
                      /\ [row EXCEPT !.end = e].begin = row.begin
                      /\ [row EXCEPT !.end = e].end = e
  BY DEF RowType

LEMMA EditTypes ==
  ASSUME Types, NEW p \in Requests, UpdateLease(p) \/ ExtendLease(p) PROVE Types'
<1>1. lease[p] \in RowType
  BY DEF Types
<1>2. PICK row : Validated(p, row) /\ row.begin \in Nat /\ row.end \in Nat
  <2>1. CASE UpdateLease(p)
    <3>1. PICK begin \in Wanted[p].begins :
            Validated(p, [lease[p] EXCEPT !.begin = begin, !.end = begin + Wanted[p].length])
      BY <2>1 DEF UpdateLease
    <3> DEFINE new == [lease[p] EXCEPT !.begin = begin, !.end = begin + Wanted[p].length]
    <3>2. begin \in Nat /\ begin + Wanted[p].length \in Nat
      BY WantedAssumption
    <3>3. Validated(p, new) /\ new.begin \in Nat /\ new.end \in Nat
      BY <1>1, <3>1, <3>2, RowTimes
    <3> HIDE DEF new
    <3> QED
      BY <3>3
  <2>2. CASE ExtendLease(p)
    <3> DEFINE new == [lease[p] EXCEPT !.end = lease[p].end + 1]
    <3>1. Validated(p, new)
      BY <2>2 DEF ExtendLease
    <3>2. lease[p].begin \in Nat /\ lease[p].end + 1 \in Nat
      BY <1>1, RowTimes
    <3>3. Validated(p, new) /\ new.begin \in Nat /\ new.end \in Nat
      BY <1>1, <3>1, <3>2, RowTimes
    <3> HIDE DEF new
    <3> QED
      BY <3>3
  <2> QED
    BY <2>1, <2>2
<1>3. edit' \in ChangeType
  BY <1>1, <1>2, RowTimes DEF Validated, Changed, ChangeType
<1> QED
  BY <1>2, <1>3 DEF Validated, Types

LEMMA WorkerTypes ==
  ASSUME Types, NEW p \in Requests, Worker(p) PROVE Types'
<1>1. lease[p] \in RowType
  BY DEF Types
<1>2. PICK state \in LeaseStates, asBooked \in BOOLEAN :
        lease' = [lease EXCEPT ![p].state = state, ![p].asBooked = asBooked]
  BY <1>1 DEF Worker, Submit, Fail, Claim, Resubmit, Finish, Moves, RowType, LeaseStates
<1>3. [lease[p] EXCEPT !.state = state, !.asBooked = asBooked] \in RowType
  BY <1>1 DEF RowType
<1>4. UNCHANGED <<now, snapshot, lastId, sentinel, lock, request, edit>>
  BY DEF Worker, Submit, Fail, Claim, Resubmit, Finish, Moves
<1> QED
  BY <1>2, <1>3, <1>4 DEF Types

LEMMA RefreshTypes ==
  ASSUME Types, Refresh PROVE Types'
<1>1. PICK slurm \in Clusters : \E foreign \in {slurm.foreign, {}} :
        snapshot' = [snapshot EXCEPT ![Leader] = [slurm EXCEPT !.foreign = foreign]]
  BY DEF Refresh
<1>2. [slurm EXCEPT !.foreign = slurm.foreign] = slurm
  <2>1. slurm = [nodes |-> slurm.nodes, foreign |-> slurm.foreign]
    BY ClustersAssumption
  <2> QED
    BY <2>1
<1>3. \A foreign \in {slurm.foreign, {}} : [slurm EXCEPT !.foreign = foreign] \in Snapshots
  BY <1>2 DEF Snapshots
<1>4. snapshot' \in [Replicas -> Snapshots]
  BY <1>1, <1>3 DEF Types
<1> QED
  BY <1>4 DEF Refresh, Types

LEMMA NextTypes ==
  ASSUME Types, Identities, Next PROVE Types'
<1>1. ASSUME NEW q \in Requests, Proceed(q) \/ Arrive(q) PROVE Types'
  BY <1>1, ArriveTypes, MergeTypes, CommitTypes, PrepareTypes, LockTypes, InsertTypes DEF Proceed
<1>2. CASE Tick
  BY <1>2, TimesAssumption DEF Tick, Types
<1> QED
  BY <1>1, <1>2, EditTypes, WorkerTypes, RefreshTypes, CommitTypes DEF Next, Create

-----------------------------------------------------------------------------
(* What the steps do to the rows *)

(* Every step but an insertion leaves identities alone, and a row that     *)
(* counts as booked after it did so before, with the same GPUs and times.  *)
Steady ==
  /\ lastId' = lastId /\ now <= now'
  /\ \A p \in Requests :
       /\ lease'[p].id = lease[p].id
       /\ lease[p].id = 0 => lease'[p] = lease[p]
       /\ Booked(lease'[p]) => /\ Booked(lease[p]) /\ lease'[p].gpus = lease[p].gpus
                               /\ lease'[p].begin = lease[p].begin /\ lease'[p].end = lease[p].end

LEMMA WrittenRow ==
  ASSUME NEW row \in RowType, NEW change
  PROVE  Written(row, change).id = row.id /\ ~Booked(Written(row, change))
  BY DEF Written, RowType, Booked

LEMMA CommitIsSteady ==
  ASSUME Types, Identities, (\E q \in Requests : CommitMerge(q)) \/ CommitEdit
  PROVE  Steady
<1>1. PICK change : /\ Exists(change.of) /\ UNCHANGED <<lastId, now>>
                    /\ lease' = [lease EXCEPT ![change.of] = Written(lease[change.of], change)]
  <2>1. CASE CommitEdit
    BY <2>1 DEF CommitEdit, Identities
  <2>2. ASSUME NEW q \in Requests, CommitMerge(q)
        PROVE  \E change : /\ Exists(change.of) /\ UNCHANGED <<lastId, now>>
                           /\ lease' = [lease EXCEPT ![change.of] = Written(lease[change.of], change)]
    BY <2>2 DEF CommitMerge, Identities
  <2> QED
    BY <2>1, <2>2
<1>2. lease[change.of] \in RowType /\ lease \in [Requests -> RowType]
  BY <1>1 DEF Types, Exists
<1>3. ASSUME NEW p \in Requests, p = change.of PROVE lease'[p].id = lease[p].id /\ ~Booked(lease'[p])
  BY <1>1, <1>2, <1>3, WrittenRow
<1>4. ASSUME NEW p \in Requests, p # change.of PROVE lease'[p] = lease[p]
  BY <1>1, <1>2, <1>4
<1>5. now \in Nat
  BY TimesAssumption DEF Types
<1> QED
  BY <1>1, <1>3, <1>4, <1>5 DEF Steady, Exists

LEMMA WorkerIsSteady ==
  ASSUME Types, Identities, NEW p \in Requests, Worker(p) PROVE Steady
<1>1. lease[p] \in RowType /\ lease \in [Requests -> RowType]
  BY DEF Types
<1>2. PICK state \in LeaseStates, asBooked \in BOOLEAN :
        /\ lease[p].state # "NONE"
        /\ lease' = [lease EXCEPT ![p].state = state, ![p].asBooked = asBooked]
        /\ asBooked /\ state \in ActiveStates => Booked(lease[p])
  BY <1>1
  DEF Worker, Submit, Fail, Claim, Resubmit, Finish, Moves, RowType, LeaseStates, ActiveStates, Booked
<1>3. UNCHANGED <<now, lastId>>
  BY DEF Worker, Submit, Fail, Claim, Resubmit, Finish, Moves
<1>4. /\ lease'[p].id = lease[p].id /\ lease'[p].gpus = lease[p].gpus
      /\ lease'[p].begin = lease[p].begin /\ lease'[p].end = lease[p].end
      /\ lease'[p].state = state /\ lease'[p].asBooked = asBooked
  BY <1>1, <1>2 DEF RowType
<1>5. ASSUME NEW o \in Requests, o # p PROVE lease'[o] = lease[o]
  BY <1>1, <1>2, <1>5
<1>6. now \in Nat
  BY TimesAssumption DEF Types
<1>7. lease[p].id # 0
  BY <1>2, Constants DEF Identities
<1>8. Booked(lease'[p]) => Booked(lease[p])
  BY <1>2, <1>4 DEF Booked
<1> QED
  BY <1>3, <1>4, <1>5, <1>6, <1>7, <1>8 DEF Steady
-----------------------------------------------------------------------------

LEMMA NextIsSteady ==
  ASSUME Types, Identities, Next, \A q \in Requests : ~Insert(q) PROVE Steady
<1>1. ASSUME UNCHANGED <<lease, lastId>>, now' \in {now, now + 1} PROVE Steady
  <2>1. now \in Nat
    BY TimesAssumption DEF Types
  <2> QED
    BY <1>1, <2>1 DEF Steady
<1>2. ASSUME NEW q \in Requests,
             \/ Arrive(q) \/ Merge(q) \/ Prepare(q) \/ Take(q)
             \/ FindsNoRow(q) \/ CreateRow(q) \/ Check(q)
      PROVE  Steady
  BY <1>1, <1>2 DEF Arrive, Merge, Prepare, Take, FindsNoRow, CreateRow, Check
<1>3. ASSUME NEW p \in Requests, UpdateLease(p) \/ ExtendLease(p) PROVE Steady
  BY <1>1, <1>3 DEF UpdateLease, ExtendLease, Validated
<1>4. CASE Refresh \/ Tick
  BY <1>1, <1>4 DEF Refresh, Tick
<1> QED
  BY <1>2, <1>3, <1>4, CommitIsSteady, WorkerIsSteady DEF Next, Create, Proceed

-----------------------------------------------------------------------------
(* Identities *)

(* A request takes up a row that exists, and its own has no identity.      *)
LEMMA RequestsName ==
  ASSUME Types, Identities, Next, NEW q \in Requests
  PROVE  /\ request'[q].row.id = 0
         /\ request'[q].pc = "merging" => Exists(request'[q].into.of)
<1> DEFINE Named == /\ request'[q].row.id = 0
                    /\ request'[q].pc = "merging" => Exists(request'[q].into.of)
<1>0. request[q] \in RequestType /\ request[q].row \in RowType /\ request \in [Requests -> RequestType]
  BY DEF Types, RequestType
<1>1. ASSUME request'[q] = request[q] PROVE Named
  BY <1>1 DEF Identities
<1>2. ASSUME NEW pc \in Stages \ {"merging"}, Continue(q, pc) \/ Answer(q, pc) PROVE Named
  BY <1>0, <1>2, Constants DEF Continue, Answer, RequestType, Identities, NoWork
<1>3. CASE Arrive(q) /\ ~Answer(q, "refused")
  <2>1. PICK begin \in Begins(q) :
          /\ Acceptable(q) /\ begin # Unknown
          /\ request' = [request EXCEPT ![q].pc = "merge", ![q].row = RequestedRow(q, begin)]
    BY <1>3 DEF Arrive
  <2>2. RequestedRow(q, begin).id = 0
    BY <2>1, BeginsAreTimes, RequestedRows
  <2>3. request'[q].row = RequestedRow(q, begin) /\ request'[q].pc = "merge"
    BY <1>0, <2>1 DEF RequestType
  <2> QED
    BY <2>2, <2>3
<1>4. CASE Merge(q) /\ ~Answer(q, "refused")
  <2>0. PICK p \in Requests : \E change :
          /\ MergesInto(q, p) /\ change.of = p
          /\ request' = [request EXCEPT ![q].pc = "merging", ![q].into = change]
    BY <1>4 DEF Merge
  <2>1. PICK change :
          /\ MergesInto(q, p) /\ change.of = p
          /\ request' = [request EXCEPT ![q].pc = "merging", ![q].into = change]
    BY <2>0
  <2>2. lease[p].id # 0
    BY <2>1, Constants DEF MergesInto, Latest, SameModel, ActiveStates, Identities
  <2>3. request'[q].into = change /\ request'[q].row = request[q].row
    BY <1>0, <2>1 DEF RequestType
  <2> QED
    BY <2>1, <2>2, <2>3 DEF Exists, Identities
<1>5. CASE Prepare(q)
  <2>1. request'[q].row.id = request[q].row.id /\ request'[q].pc = "lock"
    BY <1>0, <1>5 DEF Prepare, RequestType, RowType
  <2> QED
    BY <2>1 DEF Identities
<1>6. CASE CommitMerge(q) \/ Take(q) \/ FindsNoRow(q) \/ CreateRow(q) \/ Check(q) \/ Insert(q)
           \/ Answer(q, "refused")
  <2>1. \E pc \in Stages \ {"merging"} : Continue(q, pc) \/ Answer(q, pc)
    BY <1>6 DEF CommitMerge, Take, FindsNoRow, CreateRow, Check, Insert, Verdict, Stages
  <2> QED
    BY <1>2, <2>1
<1>7. ASSUME NEW o \in Requests, o # q, Create(o) PROVE request'[q] = request[q]
  BY <1>0, <1>7
  DEF Create, Proceed, Arrive, Merge, CommitMerge, Prepare, Take, FindsNoRow, CreateRow, Check,
      Insert, Continue, Answer
<1>8. ASSUME NEW p \in Requests, UpdateLease(p) \/ ExtendLease(p) \/ Worker(p)
      PROVE  request' = request
  BY <1>8
  DEF UpdateLease, ExtendLease, Validated, Worker, Submit, Fail, Claim, Resubmit, Finish, Moves
<1>9. CASE CommitEdit \/ Refresh \/ Tick
  BY <1>1, <1>9 DEF CommitEdit, Refresh, Tick
<1> QED
  BY <1>1, <1>3, <1>4, <1>5, <1>6, <1>7, <1>8, <1>9 DEF Next, Create, Proceed

LEMMA EditsName ==
  ASSUME Types, Identities, Next, edit' # NoEdit PROVE Exists(edit'.of)
<1>1. ASSUME NEW p \in Requests, UpdateLease(p) \/ ExtendLease(p) PROVE Exists(edit'.of)
  <2>1. edit'.of = p
    <3>1. PICK row : Validated(p, row)
      BY <1>1 DEF UpdateLease, ExtendLease
    <3> QED
      BY <3>1 DEF Validated
  <2>2. lease[p].id # 0
    BY <1>1, Constants DEF UpdateLease, ExtendLease, Identities
  <2> QED
    BY <2>1, <2>2 DEF Exists
<1>2. ASSUME NEW p \in Requests, Worker(p) \/ Create(p) PROVE edit' = edit
  BY <1>2
  DEF Worker, Submit, Fail, Claim, Resubmit, Finish, Moves, Create, Proceed, Arrive, Merge,
      CommitMerge, Prepare, Take, FindsNoRow, CreateRow, Check, Insert
<1>3. CASE CommitEdit \/ Refresh \/ Tick
  BY <1>3 DEF CommitEdit, Refresh, Tick, Identities
<1> QED
  BY <1>1, <1>2, <1>3 DEF Next, Identities

(* An insertion gives its row the next identity.                           *)
LEMMA InsertedRow ==
  ASSUME Types, NEW q \in Requests, Insert(q)
  PROVE  /\ lastId' = lastId + 1 /\ now' = now
         /\ lease'[q] = [request[q].row EXCEPT !.id = lastId + 1]
         /\ lease'[q].id = lastId + 1 /\ lease'[q].gpus = request[q].row.gpus
         /\ lease'[q].begin = request[q].row.begin /\ lease'[q].end = request[q].row.end
         /\ lease'[q].pool = request[q].row.pool
         /\ \A o \in Requests \ {q} : lease'[o] = lease[o]
<1>1. request[q].row \in RowType /\ lease \in [Requests -> RowType]
  BY DEF Types, RequestType
<1>2. /\ lastId' = lastId + 1 /\ now' = now
      /\ lease' = [lease EXCEPT ![q] = [request[q].row EXCEPT !.id = lastId + 1]]
  BY DEF Insert
<1>3. \A row \in RowType, n \in Nat :
        LET new == [row EXCEPT !.id = n]
        IN /\ new.id = n /\ new.gpus = row.gpus /\ new.begin = row.begin /\ new.end = row.end
           /\ new.pool = row.pool
  BY DEF RowType
<1>4. lastId + 1 \in Nat
  BY DEF Types
<1> QED
  BY <1>1, <1>2, <1>3, <1>4

LEMMA NextIdentities ==
  ASSUME Types, Identities, Next PROVE Identities'
<1>0. lastId \in Nat /\ \A q \in Requests : lease[q].id \in Nat
  BY DEF Types, RowType
<1>1. CASE \E q \in Requests : Insert(q)
  <2>1. PICK q \in Requests : Insert(q)
    BY <1>1
  <2>2. /\ lastId' = lastId + 1 /\ lease'[q].id = lastId + 1
        /\ \A o \in Requests \ {q} : lease'[o] = lease[o]
    BY <2>1, InsertedRow
  <2>3. \A p \in Requests : lease'[p].id <= lastId' /\ (lease'[p].id = 0 => lease'[p] = NoRow)
    BY <1>0, <2>2 DEF Identities
  <2>4. \A o, p \in Requests : lease'[o].id = lease'[p].id /\ lease'[o] # NoRow => o = p
    BY <1>0, <2>2 DEF Identities
  <2>5. \A p : Exists(p) => Exists(p)'
    BY <1>0, <2>2 DEF Exists
  <2> QED
    BY <2>3, <2>4, <2>5, RequestsName, EditsName DEF Identities, Exists
<1>2. CASE \A q \in Requests : ~Insert(q)
  <2>1. Steady
    BY <1>2, NextIsSteady
  <2>2. \A p : Exists(p) => Exists(p)'
    BY <2>1 DEF Exists, Steady
  <2>3. \A p \in Requests : lease'[p].id <= lastId' /\ (lease'[p].id = 0 => lease'[p] = NoRow)
    BY <2>1 DEF Identities, Steady
  <2>4. ASSUME NEW o \in Requests, NEW p \in Requests,
               lease'[o].id = lease'[p].id, lease'[o] # NoRow
        PROVE  o = p
    <3>1. lease[o].id = lease[p].id
      BY <2>1, <2>4 DEF Steady
    <3>2. lease[o] # NoRow
      BY <2>1, <2>4, Constants DEF Steady
    <3> QED
      BY <3>1, <3>2 DEF Identities
  <2> QED
    BY <2>2, <2>3, <2>4, RequestsName, EditsName DEF Identities, Exists
<1> QED
  BY <1>1, <1>2

-----------------------------------------------------------------------------
(* The booking lock *)

(* A request gets inside by taking the lock, and leaves by giving it back. *)
LEMMA NextLock ==
  ASSUME Types, LockIsHeld, Next PROVE LockIsHeld'
<1>0. request \in [Requests -> RequestType] /\ sentinel \in BOOLEAN
  BY DEF Types
<1>1. ASSUME sentinel => sentinel', lock' = lock, \A q \in Requests : Inside(q)' <=> Inside(q)
      PROVE  LockIsHeld'
  BY <1>1 DEF LockIsHeld
<1>2. ASSUME NEW q \in Requests, Arrive(q) \/ Merge(q) \/ CommitMerge(q) \/ Prepare(q) \/ FindsNoRow(q)
                                 \/ CreateRow(q)
      PROVE  LockIsHeld'
  <2>1. /\ sentinel => sentinel'
        /\ lock' = lock
    BY <1>2 DEF Arrive, Merge, CommitMerge, Prepare, FindsNoRow, CreateRow
  <2>2. ~Inside(q)
    BY <1>2 DEF Inside, Arrive, Merge, CommitMerge, Prepare, FindsNoRow, CreateRow
  <2>3. ~Inside(q)'
    BY <1>0, <1>2, Constants
    DEF Inside, Arrive, Merge, CommitMerge, Prepare, FindsNoRow, CreateRow, Continue, Answer,
        RequestType, NoWork
  <2>4. \A o \in Requests \ {q} : request'[o] = request[o]
    BY <1>0, <1>2
    DEF Arrive, Merge, CommitMerge, Prepare, FindsNoRow, CreateRow, Continue, Answer
  <2> QED
    BY <1>1, <2>1, <2>2, <2>3, <2>4 DEF Inside
<1>3. ASSUME NEW q \in Requests, Take(q) PROVE LockIsHeld'
  <2>1. request'[q].pc = "check" /\ \A o \in Requests \ {q} : request'[o] = request[o]
    BY <1>0, <1>3 DEF Take, Continue, RequestType
  <2>2. sentinel' /\ lock = Nobody /\ lock' = q
    BY <1>3 DEF Take
  <2> QED
    BY <2>1, <2>2, Constants DEF LockIsHeld, Inside
<1>4. ASSUME NEW q \in Requests, Check(q) \/ Insert(q) PROVE LockIsHeld'
  <2>1. Inside(q) /\ sentinel' = sentinel
    BY <1>4 DEF Inside, Check, Insert
  <2>2. lock = q
    BY <2>1 DEF LockIsHeld
  <2>3. \A o \in Requests \ {q} : request'[o] = request[o]
    BY <1>0, <1>4 DEF Check, Insert, Continue, Answer
  <2>4. \/ lock' = lock /\ request'[q].pc = "insert"
        \/ lock' = Nobody /\ request'[q].pc \in {"refused", "error", "booked"}
    BY <1>0, <1>4, <2>2, Constants
    DEF Check, Insert, Verdict, Continue, Answer, Unlock, RequestType, NoWork
  <2> QED
    BY <2>1, <2>2, <2>3, <2>4, Constants DEF LockIsHeld, Inside
<1>5. ASSUME NEW p \in Requests, UpdateLease(p) \/ ExtendLease(p) \/ Worker(p) PROVE LockIsHeld'
  BY <1>1, <1>5
  DEF UpdateLease, ExtendLease, Validated, Worker, Submit, Fail, Claim, Resubmit, Finish, Moves,
      Inside
<1>6. CASE CommitEdit \/ Refresh \/ Tick
  BY <1>1, <1>6 DEF CommitEdit, Refresh, Tick, Inside
<1> QED
  BY <1>2, <1>3, <1>4, <1>5, <1>6 DEF Next, Create, Proceed

-----------------------------------------------------------------------------
(* Quotas *)

Users == {Wanted[q].user : q \in Requests}
Pools == DOMAIN Pool \cup {NoPool}

LEMMA LessIsWithin ==
  ASSUME NEW u \in Users, NEW p \in Pools, NEW a \in Nat, NEW b \in Nat, a <= b,
         Within(b, QuotaFor(u, p).gpus)
  PROVE  Within(a, QuotaFor(u, p).gpus)
<1>1. QuotaFor(u, p).gpus \in Nat \cup {Unlimited}
  BY QuotasAssumption DEF Users, Pools
<1> QED
  BY <1>1 DEF Within

LEMMA RowsAreFinite ==
  ASSUME NEW table \in [Requests -> RowType], NEW A \in SUBSET Requests
  PROVE  /\ IsFiniteSet({table[q] : q \in A})
         /\ \A row \in {table[q] : q \in A} : row.gpus \in Nat
<1> DEFINE S == {table[q] : q \in A}
           f == [q \in A |-> table[q]]
<1>1. IsFiniteSet(A)
  BY RequestsAssumption, FS_Subset
<1>2. f \in Surjection(A, S)
  BY DEF Surjection
<1>3. IsFiniteSet(S)
  <2> HIDE DEF S, f
  <2> QED
    BY <1>1, <1>2, FS_Surjection
<1> QED
  BY <1>3, RowTimes

LEMMA TablesAreFinite ==
  ASSUME Types, NEW u
  PROVE  /\ IsFiniteSet(BookedBy(u)) /\ \A row \in BookedBy(u) : row.gpus \in Nat
         /\ IsFiniteSet(Mine(u)) /\ \A row \in Mine(u) : row.gpus \in Nat
<1>1. lease \in [Requests -> RowType]
  BY DEF Types
<1> DEFINE A == {p \in Requests : /\ Wanted[p].user = u
                                  /\ lease[p].state \in ActiveStates /\ lease[p].asBooked}
           B == {p \in Requests : /\ Wanted[p].user = u
                                  /\ lease[p].state \in ActiveStates /\ lease[p].end > now}
<1>2. A \in SUBSET Requests /\ B \in SUBSET Requests
  OBVIOUS
<1>3. BookedBy(u) = {lease[q] : q \in A} /\ Mine(u) = {lease[q] : q \in B}
  BY DEF BookedBy, Mine
<1> HIDE DEF A, B
<1> QED
  BY <1>1, <1>2, <1>3, RowsAreFinite

LEMMA WithOneMore ==
  ASSUME NEW rows, IsFiniteSet(rows), \A r \in rows : r.gpus \in Nat, NEW row, row.gpus \in Nat
  PROVE  IsFiniteSet(rows \cup {row}) /\ \A r \in rows \cup {row} : r.gpus \in Nat
  BY FS_AddElement

LEMMA BookedRows ==
  \A u : BookedBy(u) = {lease[q] : q \in {p \in Requests : Wanted[p].user = u /\ Booked(lease[p])}}
  BY DEF BookedBy, Booked

(* The check looks at the instants at which bookings begin only. That is   *)
(* enough: at any instant, no more is booked than when the last of the     *)
(* bookings that cover it began.                                           *)
LEMMA PeakIsAtABegin ==
  ASSUME Types, NEW q \in Requests, WithinQuota(q, request[q].row)
  PROVE  Reserved(q)
<1> DEFINE u == Wanted[q].user
           row == request[q].row
           all == Mine(u) \cup {row}
           limit == QuotaFor(u, row.pool).gpus
<1>0. /\ u \in Users /\ row.pool \in Pools /\ row \in RowType /\ now \in Nat
      /\ lease \in [Requests -> RowType]
  <2>1. row \in RowType
    BY DEF Types, RequestType
  <2>2. row.pool \in Pools
    BY <2>1 DEF RowType, Pools
  <2>3. u \in Users /\ now \in Nat /\ lease \in [Requests -> RowType]
    BY TimesAssumption DEF Users, Types
  <2> QED
    BY <2>1, <2>2, <2>3
<1>1. \A s \in {r.begin : r \in all} : Within(GpusAt(all, s), limit)
  BY DEF WithinQuota
<1>2. IsFiniteSet(all) /\ \A r \in all : r.gpus \in Nat
  BY <1>0, TablesAreFinite, WithOneMore, RowTimes
<1>3. \A r \in all : r.begin \in Nat /\ r.end \in Nat
  BY <1>0, RowTimes DEF Mine
<1>4. ASSUME NEW t \in now .. MaxTime, Covers(row, t)
      PROVE  Within(GpusAt(BookedBy(u) \cup {row}, t), limit)
  <2> DEFINE begins == {r.begin : r \in {x \in all : x.begin <= t}}
  <2>0. t \in Nat
    BY <1>0, TimesAssumption
  <2>1. begins \in SUBSET Nat /\ begins # {} /\ \A b \in begins : b <= t
    <3>1. row \in {x \in all : x.begin <= t}
      BY <1>4 DEF Covers
    <3> HIDE DEF all, row
    <3> QED
      BY <1>3, <3>1
  <2>2. PICK s \in begins : \A b \in begins : b <= s
    <3> HIDE DEF begins
    <3> QED
      BY <2>0, <2>1, GreatestNumber
  <2>3. s \in Nat /\ s <= t /\ s \in {r.begin : r \in all}
    BY <2>1
  <2>4. Pairs(BookedBy(u) \cup {row}, t) \subseteq Pairs(all, s)
    <3>1. ASSUME NEW r \in BookedBy(u) \cup {row}, Covers(r, t) PROVE r \in all /\ Covers(r, s)
      <4>1. r \in all
        <5>1. ASSUME r \in BookedBy(u) PROVE r \in Mine(u)
          <6>1. PICK p \in Requests : r = lease[p] /\ Wanted[p].user = u /\ lease[p].state \in ActiveStates
            BY <5>1 DEF BookedBy
          <6>2. lease[p].end \in Nat /\ lease[p].end > now
            BY <1>0, <2>0, <3>1, <6>1, RowTimes DEF Covers
          <6> QED
            BY <6>1, <6>2 DEF Mine
        <5> QED
          BY <5>1
      <4>2. r.begin \in begins
        BY <3>1, <4>1 DEF Covers
      <4>3. r.begin <= s /\ r.end \in Nat
        BY <1>3, <2>2, <4>1, <4>2
      <4> QED
        BY <2>0, <2>3, <3>1, <4>1, <4>3 DEF Covers
    <3> HIDE DEF all, row
    <3> QED
      BY <3>1 DEF Pairs, Covers
  <2>5. Within(GpusAt(all, s), limit)
    BY <1>1, <2>3
  <2> HIDE DEF all, begins, row
  <2>6. /\ GpusAt(BookedBy(u) \cup {row}, t) \in Nat /\ GpusAt(all, s) \in Nat
        /\ GpusAt(BookedBy(u) \cup {row}, t) <= GpusAt(all, s)
    BY <1>2, <2>4, FewerGpus
  <2> QED
    BY <1>0, <2>5, <2>6, LessIsWithin
<1> QED
  BY <1>4 DEF Reserved

(* Steady steps take bookings away from a user, and add none.              *)
LEMMA SteadyBookings ==
  ASSUME Types, Steady, NEW u, NEW more, NEW t
  PROVE  Pairs(BookedBy(u)' \cup more, t) \subseteq Pairs(BookedBy(u) \cup more, t)
<1>1. ASSUME NEW r \in BookedBy(u)'
      PROVE  \E o \in BookedBy(u) : /\ o.id = r.id /\ o.gpus = r.gpus
                                    /\ o.begin = r.begin /\ o.end = r.end
  <2>1. PICK p \in Requests : r = lease'[p] /\ Wanted[p].user = u /\ Booked(lease'[p])
    BY <1>1 DEF BookedBy, Booked
  <2>2. lease[p] \in BookedBy(u)
    BY <2>1, BookedRows DEF Steady
  <2> QED
    BY <2>1, <2>2 DEF Steady
<1>2. ASSUME NEW r \in BookedBy(u)' \cup more
      PROVE  \E o \in BookedBy(u) \cup more : /\ o.id = r.id /\ o.gpus = r.gpus
                                              /\ o.begin = r.begin /\ o.end = r.end
  BY <1>1, <1>2
<1>3. \A old, new : (\A r \in new : \E o \in old : /\ o.id = r.id /\ o.gpus = r.gpus
                                                   /\ o.begin = r.begin /\ o.end = r.end)
                   => Pairs(new, t) \subseteq Pairs(old, t)
  BY DEF Pairs
<1> QED
  BY <1>2, <1>3

LEMMA SteadyQuota ==
  ASSUME Types, Steady, Types', QuotaIsKept PROVE QuotaIsKept'
<1>1. ASSUME NEW u \in Users, NEW t \in now' .. MaxTime
      PROVE  \E p \in Pools : Within(GpusAt(BookedBy(u)', t), QuotaFor(u, p).gpus)
  <2>1. t \in now .. MaxTime
    BY <1>1, TimesAssumption DEF Types, Steady
  <2>2. PICK p \in Pools : Within(GpusAt(BookedBy(u), t), QuotaFor(u, p).gpus)
    BY <2>1 DEF QuotaIsKept, Users, Pools
  <2>3. Pairs(BookedBy(u)', t) \subseteq Pairs(BookedBy(u), t)
    <3>1. Pairs(BookedBy(u)' \cup {}, t) \subseteq Pairs(BookedBy(u) \cup {}, t)
      BY SteadyBookings
    <3>2. BookedBy(u)' \cup {} = BookedBy(u)' /\ BookedBy(u) \cup {} = BookedBy(u)
      OBVIOUS
    <3> QED
      BY <3>1, <3>2
  <2>4. /\ GpusAt(BookedBy(u)', t) \in Nat /\ GpusAt(BookedBy(u), t) \in Nat
        /\ GpusAt(BookedBy(u)', t) <= GpusAt(BookedBy(u), t)
    BY <2>3, TablesAreFinite, FewerGpus
  <2> QED
    BY <2>2, <2>4, LessIsWithin
<1> QED
  BY <1>1 DEF QuotaIsKept, Users, Pools

LEMMA SteadyReservation ==
  ASSUME Types, Steady, Types', NEW q \in Requests, request'[q].row = request[q].row, Reserved(q)
  PROVE  Reserved(q)'
<1> DEFINE u == Wanted[q].user
           row == request[q].row
           limit == QuotaFor(u, row.pool).gpus
<1>0. u \in Users /\ row.pool \in Pools /\ row.gpus \in Nat
  BY DEF Users, Pools, Types, RequestType, RowType
<1>1. ASSUME NEW t \in now' .. MaxTime, Covers(row, t)
      PROVE  Within(GpusAt(BookedBy(u)' \cup {row}, t), limit)
  <2>1. t \in now .. MaxTime
    BY <1>1, TimesAssumption DEF Types, Steady
  <2>2. Within(GpusAt(BookedBy(u) \cup {row}, t), limit)
    BY <1>1, <2>1 DEF Reserved
  <2>3. Pairs(BookedBy(u)' \cup {row}, t) \subseteq Pairs(BookedBy(u) \cup {row}, t)
    BY SteadyBookings
  <2>4. IsFiniteSet(BookedBy(u) \cup {row}) /\ \A r \in BookedBy(u) \cup {row} : r.gpus \in Nat
    BY <1>0, TablesAreFinite, WithOneMore
  <2> HIDE DEF row
  <2>5. /\ GpusAt(BookedBy(u)' \cup {row}, t) \in Nat /\ GpusAt(BookedBy(u) \cup {row}, t) \in Nat
        /\ GpusAt(BookedBy(u)' \cup {row}, t) <= GpusAt(BookedBy(u) \cup {row}, t)
    BY <2>3, <2>4, FewerGpus
  <2> QED
    BY <1>0, <2>2, <2>5, LessIsWithin
<1> QED
  BY <1>1 DEF Reserved

(* Only the check reserves a place.                                        *)
LEMMA OnlyCheckReserves ==
  ASSUME Types, Next, NEW q \in Requests, request'[q].pc = "insert"
  PROVE  request'[q].row = request[q].row /\ (request[q].pc = "insert" \/ WithinQuota(q, request[q].row))
<1>0. request \in [Requests -> RequestType]
  BY DEF Types
<1>1. ASSUME request'[q] = request[q] PROVE request'[q].row = request[q].row /\ request[q].pc = "insert"
  BY <1>1
<1>2. CASE Check(q)
  <2>1. Verdict(q) = "fits" /\ Continue(q, "insert")
    BY <1>0, <1>2, Constants DEF Check, Verdict, Answer, Continue, NoWork
  <2>2. WithinQuota(q, request[q].row)
    BY <2>1 DEF Verdict
  <2>3. request'[q].row = request[q].row
    BY <1>0, <2>1 DEF Continue, RequestType
  <2> QED
    BY <2>2, <2>3
<1>3. CASE Arrive(q) \/ Merge(q) \/ CommitMerge(q) \/ Prepare(q) \/ Take(q) \/ FindsNoRow(q)
             \/ CreateRow(q) \/ Insert(q)
  BY <1>0, <1>3, Constants
  DEF Arrive, Merge, CommitMerge, Prepare, Take, FindsNoRow, CreateRow, Insert, Continue, Answer,
      RequestType, NoWork
<1>4. ASSUME NEW o \in Requests, o # q, Create(o) PROVE request'[q] = request[q]
  BY <1>0, <1>4
  DEF Create, Proceed, Arrive, Merge, CommitMerge, Prepare, Take, FindsNoRow, CreateRow, Check,
      Insert, Continue, Answer
<1>5. ASSUME NEW p \in Requests, UpdateLease(p) \/ ExtendLease(p) \/ Worker(p) PROVE request' = request
  BY <1>5
  DEF UpdateLease, ExtendLease, Validated, Worker, Submit, Fail, Claim, Resubmit, Finish, Moves
<1>6. CASE CommitEdit \/ Refresh \/ Tick
  BY <1>1, <1>6 DEF CommitEdit, Refresh, Tick
<1> QED
  BY <1>1, <1>2, <1>3, <1>4, <1>5, <1>6 DEF Next, Create, Proceed

(* An insertion books what was reserved.                                   *)
LEMMA InsertQuota ==
  ASSUME Types, Types', Identities, LockIsHeld, QuotaIsKept, PlacesAreReserved,
         NEW q \in Requests, Insert(q)
  PROVE  QuotaIsKept'
<1> DEFINE row == request[q].row
           new == lease'[q]
           u == Wanted[q].user
<1>1. /\ lastId' = lastId + 1 /\ now' = now /\ new.id = lastId + 1
      /\ new.gpus = row.gpus /\ new.begin = row.begin /\ new.end = row.end /\ new.pool = row.pool
      /\ \A o \in Requests \ {q} : lease'[o] = lease[o]
  BY InsertedRow
<1>2. Reserved(q) /\ row.id = 0 /\ row.gpus \in Nat /\ row.pool \in Pools
  BY DEF PlacesAreReserved, Insert, Identities, Types, RequestType, RowType, Pools
<1>3. ASSUME NEW r \in BookedBy(u) PROVE r.id # row.id /\ r.id # new.id
  <2>1. PICK p \in Requests : r = lease[p] /\ Booked(lease[p])
    BY <1>3, BookedRows
  <2>2. lease[p].id # 0 /\ lease[p].id <= lastId
    BY <2>1, Constants DEF Identities
  <2>3. lease[p].id \in Nat /\ lastId \in Nat
    BY RowTimes DEF Types
  <2> QED
    BY <1>1, <1>2, <2>1, <2>2, <2>3
<1>4. ASSUME NEW t \in now .. MaxTime
      PROVE  \E p \in Pools : Within(GpusAt(BookedBy(u)', t), QuotaFor(u, p).gpus)
  <2>1. BookedBy(u)' \subseteq BookedBy(u) \cup {new}
    BY <1>1, BookedRows DEF BookedBy, Booked
  <2>2. Pairs(BookedBy(u)', t) \subseteq Pairs(BookedBy(u) \cup {new}, t)
    <3> HIDE DEF new
    <3> QED
      BY <2>1 DEF Pairs
  <2>3. IsFiniteSet(BookedBy(u)) /\ \A r \in BookedBy(u) : r.gpus \in Nat
    BY TablesAreFinite
  <2>4. IsFiniteSet(BookedBy(u) \cup {new}) /\ \A r \in BookedBy(u) \cup {new} : r.gpus \in Nat
    BY <1>1, <1>2, <2>3, WithOneMore
  <2>5. GpusAt(BookedBy(u) \cup {new}, t) =
          IF Covers(row, t) THEN GpusAt(BookedBy(u) \cup {row}, t) ELSE GpusAt(BookedBy(u), t)
    <3>1. GpusAt(BookedBy(u) \cup {new}, t) =
            IF Covers(row, t) THEN GpusAt(BookedBy(u), t) + row.gpus ELSE GpusAt(BookedBy(u), t)
      <4> HIDE DEF new
      <4> QED
        BY <1>1, <1>2, <1>3, <2>3, OneMoreRow DEF Covers
    <3>2. GpusAt(BookedBy(u) \cup {row}, t) =
            IF Covers(row, t) THEN GpusAt(BookedBy(u), t) + row.gpus ELSE GpusAt(BookedBy(u), t)
      <4> HIDE DEF row
      <4> QED
        BY <1>2, <1>3, <2>3, OneMoreRow DEF Covers
    <3> QED
      BY <3>1, <3>2
  <2> HIDE DEF new
  <2>6. /\ GpusAt(BookedBy(u)', t) \in Nat /\ GpusAt(BookedBy(u) \cup {new}, t) \in Nat
        /\ GpusAt(BookedBy(u)', t) <= GpusAt(BookedBy(u) \cup {new}, t)
    BY <2>2, <2>4, FewerGpus
  <2>7. \E p \in Pools : Within(GpusAt(BookedBy(u) \cup {new}, t), QuotaFor(u, p).gpus)
    <3>1. CASE Covers(row, t)
      BY <1>2, <2>5, <3>1 DEF Reserved
    <3>2. CASE ~Covers(row, t)
      BY <1>4, <2>5, <3>2 DEF QuotaIsKept, Pools
    <3> QED
      BY <3>1, <3>2
  <2>8. u \in Users
    BY DEF Users
  <2> QED
    BY <2>6, <2>7, <2>8, LessIsWithin
<1>5. ASSUME NEW v \in Users, v # u PROVE BookedBy(v)' = BookedBy(v)
  BY <1>1, <1>5 DEF BookedBy
<1>6. ASSUME NEW v \in Users, NEW t \in now' .. MaxTime
      PROVE  \E p \in Pools : Within(GpusAt(BookedBy(v)', t), QuotaFor(v, p).gpus)
  BY <1>1, <1>4, <1>5, <1>6 DEF QuotaIsKept, Users, Pools
<1> QED
  BY <1>6 DEF QuotaIsKept, Users, Pools

LEMMA NextQuota ==
  ASSUME AdmissionInv, Types', Next PROVE QuotaIsKept' /\ PlacesAreReserved'
<1> USE DEF AdmissionInv
<1>1. CASE \E q \in Requests : Insert(q)
  <2>1. PICK q \in Requests : Insert(q)
    BY <1>1
  <2>2. QuotaIsKept'
    BY <2>1, InsertQuota
  <2>3. ASSUME NEW o \in Requests PROVE request'[o].pc # "insert"
    <3>1. CASE o = q
      BY <2>1, <3>1, Constants DEF Insert, Answer, Types, NoWork
    <3>2. CASE o # q
      BY <2>1, <3>2 DEF Insert, Answer, LockIsHeld, Inside, Types
    <3> QED
      BY <3>1, <3>2
  <2> QED
    BY <2>2, <2>3 DEF PlacesAreReserved
<1>2. CASE \A q \in Requests : ~Insert(q)
  <2>1. Steady
    BY <1>2, NextIsSteady
  <2>2. ASSUME NEW q \in Requests, request'[q].pc = "insert" PROVE Reserved(q)'
    <3>1. request'[q].row = request[q].row /\ Reserved(q)
      BY <2>2, OnlyCheckReserves, PeakIsAtABegin DEF PlacesAreReserved
    <3> QED
      BY <2>1, <3>1, SteadyReservation
  <2> QED
    BY <2>1, <2>2, SteadyQuota DEF PlacesAreReserved
<1> QED
  BY <1>1, <1>2

-----------------------------------------------------------------------------
(* The theorems *)

LEMMA NobodyHasBooked ==
  ASSUME Init, NEW u, NEW t PROVE GpusAt(BookedBy(u), t) = 0
<1>1. BookedBy(u) = {}
  BY Constants, BookedRows DEF Init
<1>2. Pairs({}, t) = {}
  BY DEF Pairs
<1> QED
  BY <1>1, <1>2, GpusArePairs, FS_EmptySet

LEMMA InitInv == Init => AdmissionInv
<1> SUFFICES ASSUME Init PROVE AdmissionInv
  OBVIOUS
<1>1. Types
  <2>1. snapshot \in [Replicas -> Snapshots]
    BY DEF Init, Snapshots
  <2>2. lease \in [Requests -> RowType] /\ request \in [Requests -> RequestType]
    BY Constants DEF Init
  <2>3. now \in 0 .. MaxTime
    BY TimesAssumption DEF Init
  <2>4. edit \in ChangeType /\ lastId \in Nat /\ sentinel \in BOOLEAN /\ lock \in Requests \cup {Nobody}
    BY Constants DEF Init
  <2> QED
    BY <2>1, <2>2, <2>3, <2>4 DEF Types
<1>2. Identities /\ LockIsHeld /\ PlacesAreReserved
  BY Constants DEF Init, Identities, LockIsHeld, Inside, PlacesAreReserved
<1>3. QuotaIsKept
  <2>1. ASSUME NEW u \in Users, NEW t PROVE Within(GpusAt(BookedBy(u), t), QuotaFor(u, NoPool).gpus)
    BY NobodyHasBooked, QuotasAssumption DEF Users, Within
  <2> QED
    BY <2>1 DEF QuotaIsKept, Users
<1> QED
  BY <1>1, <1>2, <1>3 DEF AdmissionInv

LEMMA StepInv == AdmissionInv /\ [Next]_vars => AdmissionInv'
<1> SUFFICES ASSUME AdmissionInv, [Next]_vars PROVE AdmissionInv'
  OBVIOUS
<1>1. CASE Next
  <2>1. Types' /\ Identities' /\ LockIsHeld'
    BY <1>1, NextTypes, NextIdentities, NextLock DEF AdmissionInv
  <2> QED
    BY <1>1, <2>1, NextQuota DEF AdmissionInv
<1>2. CASE UNCHANGED vars
  <2> USE <1>2 DEF vars, AdmissionInv
  <2>1. Types' /\ Identities' /\ LockIsHeld'
    BY DEF Types, Identities, Exists, LockIsHeld, Inside
  <2>2. \A u : BookedBy(u)' = BookedBy(u)
    BY DEF BookedBy
  <2>3. QuotaIsKept'
    BY <2>2 DEF QuotaIsKept
  <2>4. PlacesAreReserved'
    BY <2>2 DEF PlacesAreReserved, Reserved
  <2> QED
    BY <2>1, <2>3, <2>4
<1> QED
  BY <1>1, <1>2

(* The inductive invariant of the calendar and its bookings: types, given  *)
(* identities, the lock, and what is reserved between check and insertion. *)
THEOREM AdmissionInductive == Spec => []AdmissionInv
BY InitInv, StepInv, PTL DEF Spec

(* Every table stays in its range, identities are given once, and the lock *)
(* belongs to a request that is inside its transaction.                    *)
THEOREM AdmissionTypeCorrect == Spec => []TypeOK
<1>1. AdmissionInv => TypeOK
  BY Constants
  DEF AdmissionInv, Types, Identities, LockIsHeld, Inside, TypeOK, RequestType, Snapshots
<1> QED
  BY <1>1, AdmissionInductive, PTL

(* The booking lock does what it is for: between the check of a booking and*)
(* its insertion no other booking is checked or inserted, on any replica,  *)
(* the first ones of all included. (leader.booking_lock)                   *)
THEOREM OneBooksAtATime == Spec => [](\A p, q \in Requests : Inside(p) /\ Inside(q) => p = q)
<1>1. AdmissionInv => \A p, q \in Requests : Inside(p) /\ Inside(q) => p = q
  BY DEF AdmissionInv, LockIsHeld
<1> QED
  BY <1>1, AdmissionInductive, PTL

(* However the requests of one user interleave, on however many replicas,  *)
(* with whatever the workers and other users do between check and          *)
(* insertion: what he has booked, and nobody has changed or retried since, *)
(* stays within his quota of concurrent GPUs. (admin._enforce_quota)       *)
THEOREM QuotasAreKept == Spec => []QuotaIsKept
<1>1. AdmissionInv => QuotaIsKept
  BY DEF AdmissionInv
<1> QED
  BY <1>1, AdmissionInductive, PTL

-----------------------------------------------------------------------------
(* The plan of the bookings *)

Demands(inv, rows) == {Demand(inv, row) : row \in rows}

(* The rows of a table where an identity is given once.                    *)
GoodRows(rows) ==
  /\ IsFiniteSet(rows) /\ rows \subseteq RowType
  /\ \A r, s \in rows : r.id = s.id => r = s

LEMMA GoodDemands ==
  ASSUME NEW rows, GoodRows(rows), NEW inv
  PROVE  /\ IsFiniteSet(Demands(inv, rows)) /\ Distinct(Demands(inv, rows))
         /\ Plan(inv, rows) = ComputePlacements(Demands(inv, rows), EffectiveNodes(inv), inv.foreign)
<1> DEFINE D == Demands(inv, rows)
<1>1. IsFiniteSet(D)
  <2> DEFINE f == [row \in rows |-> Demand(inv, row)]
  <2>1. f \in Surjection(rows, D)
    BY DEF Surjection, Demands
  <2> HIDE DEF f, D
  <2> QED
    BY <2>1, FS_Surjection DEF GoodRows
<1>2. Distinct(D)
  <2>1. ASSUME NEW d \in D
        PROVE  \E row \in rows : d = Demand(inv, row) /\ d.id = row.id
    BY DEF Demands, Demand
  <2>2. \A row \in rows : LET d == Demand(inv, row)
                         IN d.begin \in Int /\ d.end \in Int /\ d.id \in Int
    BY RowTimes DEF Demand, GoodRows
  <2>3. \A d \in D : d.begin \in Int /\ d.end \in Int /\ d.id \in Int
    BY <2>1, <2>2
  <2>4. \A d, e \in D : d.id = e.id => d = e
    BY <2>1 DEF GoodRows
  <2> HIDE DEF D
  <2> QED
    BY <2>3, <2>4 DEF Distinct
<1>3. Plan(inv, rows) = ComputePlacements(D, EffectiveNodes(inv), inv.foreign)
  <2> DEFINE P(demands, slots) == ComputePlacements(demands, slots, inv.foreign)
  <2>1. Plan(inv, rows) = Only({P(demands, slots) : demands \in {D}, slots \in {EffectiveNodes(inv)}})
    BY DEF Plan, Demands
  <2> HIDE DEF P
  <2>2. {P(demands, slots) : demands \in {D}, slots \in {EffectiveNodes(inv)}} = {P(D, EffectiveNodes(inv))}
    OBVIOUS
  <2> QED
    BY <2>1, <2>2, OnlyOne DEF P
<1> QED
  BY <1>1, <1>2, <1>3

(* Bookings are good rows, in a state and after a step.                    *)
LEMMA SomeRowsAreGood ==
  ASSUME NEW table \in [Requests -> RowType], NEW rows \in SUBSET {table[q] : q \in Requests},
         NoRow \notin rows,
         \A p, q \in Requests : table[p].id = table[q].id /\ table[p] # NoRow => p = q
  PROVE  GoodRows(rows)
<1>1. IsFiniteSet({table[q] : q \in Requests})
  BY RowsAreFinite
<1> QED
  BY <1>1, FS_Subset DEF GoodRows

LEMMA BookingsAreGood ==
  /\ AdmissionInv => GoodRows(ActiveLeases)
  /\ AdmissionInv' => GoodRows(ActiveLeases')
<1>1. ASSUME AdmissionInv PROVE GoodRows(ActiveLeases)
  <2>1. /\ ActiveLeases \in SUBSET {lease[q] : q \in Requests}
        /\ NoRow \notin ActiveLeases
    BY DEF ActiveLeases, Active, Rows
  <2> QED
    BY <1>1, <2>1, SomeRowsAreGood DEF AdmissionInv, Types, Identities
<1>2. ASSUME AdmissionInv' PROVE GoodRows(ActiveLeases')
  <2>1. /\ ActiveLeases' \in SUBSET {lease'[q] : q \in Requests}
        /\ NoRow \notin ActiveLeases'
    BY DEF ActiveLeases, Active, Rows
  <2> QED
    BY <1>2, <2>1, SomeRowsAreGood DEF AdmissionInv, Types, Identities
<1> QED
  BY <1>1, <1>2

(* The GPUs of a snapshot are numbered, and its foreign jobs have times.   *)
LEMMA SnapshotsAreGood ==
  ASSUME NEW inv \in Snapshots
  PROVE  Numbered(EffectiveNodes(inv)) /\ Timed(inv.foreign)
<1>1. /\ DOMAIN inv.nodes \subseteq Nat
      /\ \A n \in DOMAIN inv.nodes : /\ DOMAIN inv.nodes[n].gpus \subseteq Nat
                                     /\ IsFiniteSet(DOMAIN inv.nodes[n].gpus)
      /\ Timed(inv.foreign)
  <2>1. CASE inv = EmptySnapshot
    BY <2>1 DEF EmptySnapshot, Timed
  <2>2. ASSUME NEW c \in Clusters, inv = c \/ inv = [c EXCEPT !.foreign = {}]
        PROVE  inv.nodes = c.nodes /\ (inv.foreign = c.foreign \/ inv.foreign = {})
    <3>1. c = [nodes |-> c.nodes, foreign |-> c.foreign]
      BY ClustersAssumption
    <3>2. [c EXCEPT !.foreign = {}].nodes = c.nodes /\ [c EXCEPT !.foreign = {}].foreign = {}
      BY <3>1
    <3> QED
      BY <2>2, <3>2
  <2>3. CASE inv # EmptySnapshot
    <3>1. PICK c \in Clusters : inv = c \/ inv = [c EXCEPT !.foreign = {}]
      BY <2>3 DEF Snapshots
    <3>2. inv.nodes = c.nodes /\ (inv.foreign = c.foreign \/ inv.foreign = {})
      BY <2>2, <3>1
    <3> QED
      BY <3>2, ClustersAssumption DEF Timed
  <2> QED
    BY <2>1, <2>3
<1>2. CASE UsableNodes(inv) # {}
  <2>1. EffectiveNodes(inv) = [n \in UsableNodes(inv) |-> inv.nodes[n].gpus]
    BY <1>2 DEF EffectiveNodes
  <2>2. UsableNodes(inv) \subseteq DOMAIN inv.nodes
    BY DEF UsableNodes
  <2> QED
    BY <1>1, <2>1, <2>2 DEF Numbered
<1>3. CASE UsableNodes(inv) = {}
  <2> DEFINE k == Max({1, TotalGpus}) - 1
  <2>1. k \in Int
    <3>1. \E x \in {1, TotalGpus} : \A y \in {1, TotalGpus} : x >= y
      BY TotalAssumption
    <3> QED
      BY <3>1, TotalAssumption DEF Max
  <2>2. EffectiveNodes(inv) = [n \in {SyntheticNode} |-> [i \in 0 .. k |-> NoClass]]
    BY <1>3 DEF EffectiveNodes
  <2> HIDE DEF k
  <2>3. IsFiniteSet(0 .. k)
    BY <2>1, FS_Interval
  <2> QED
    BY <1>1, <2>1, <2>2, <2>3 DEF Numbered, SyntheticNode
<1> QED
  BY <1>1, <1>2, <1>3

(* On every replica, whatever snapshot it has, at every moment: the plan   *)
(* gives no GPU away twice, and every booking with a place is on GPUs that *)
(* suit it and are free. (placement.compute_placements)                    *)
THEOREM PlansAreSound == Spec => []PlacementsAreSound
<1>1. ASSUME AdmissionInv PROVE PlacementsAreSound
  <2> SUFFICES ASSUME NEW r \in Replicas
               PROVE  PlacementsAreSound!(r)
    BY DEF PlacementsAreSound
  <2> DEFINE inv == snapshot[r]
             slots == EffectiveNodes(inv)
             plan == Plan(inv, ActiveLeases)
             D == Demands(inv, ActiveLeases)
  <2>1. IsFiniteSet(D) /\ Distinct(D) /\ plan = ComputePlacements(D, slots, inv.foreign)
    BY <1>1, BookingsAreGood, GoodDemands
  <2>2. Numbered(slots) /\ Timed(inv.foreign)
    <3>1. inv \in Snapshots
      BY <1>1 DEF AdmissionInv, Types
    <3> QED
      BY <3>1, SnapshotsAreGood
  <2> HIDE DEF inv, slots, plan, D
  <2>3. ASSUME NEW d \in D, NEW e \in D, plan[d.id] # NoPlace, plan[e.id] # NoPlace,
               Before(d, e), e.begin < e.end, GpusOf(plan, d) \cap GpusOf(plan, e) # {}
        PROVE  d.end + Gap(e.class) <= e.begin
    BY <2>1, <2>2, <2>3, NoGpuIsGivenTwice
  <2>4. ASSUME NEW d \in D, plan[d.id] # NoPlace
        PROVE  /\ \A g \in GpusOf(plan, d) :
                    /\ g[1] \in DOMAIN slots /\ g[2] \in DOMAIN slots[g[1]]
                    /\ d.class # NoClass => slots[g[1]][g[2]] = d.class
               /\ \A b \in ForeignBusy(slots, inv.foreign) :
                    <<b.node, b.index>> \in GpusOf(plan, d) => b.end <= d.begin \/ d.end <= b.begin
               /\ d.pin = NoNode /\ d.nodes # {} => plan[d.id].node \in d.nodes
               /\ d.pin # NoNode => plan[d.id].node = d.pin
    BY <2>1, <2>2, <2>4, PlacesSuit
  <2> QED
    BY <2>3, <2>4 DEF inv, slots, plan, D, Demands, GpusOf
<1> QED
  BY <1>1, AdmissionInductive, PTL

(* No step of any request, worker or edit moves a booking that begins      *)
(* before all that the step adds, drops or changes: on every replica whose *)
(* snapshot stays, it keeps its GPUs in the plan.                          *)
THEOREM EarlierOnesStand == Spec => EarlierBookingsStand
<1>1. ASSUME AdmissionInv, AdmissionInv', NEW r \in Replicas
      PROVE  LET inv == snapshot[r]
                 demands(rows) == {Demand(inv, row) : row \in rows}
                 kept == demands(ActiveLeases) \cap demands(ActiveLeases')
                 changed == (demands(ActiveLeases) \cup demands(ActiveLeases')) \ kept
                 standing == {d \in kept : \A e \in changed : d.begin < e.begin}
             IN \A d \in standing : Plan(inv, ActiveLeases)[d.id] = Plan(inv, ActiveLeases')[d.id]
  <2> DEFINE inv == snapshot[r]
             D == Demands(inv, ActiveLeases)
             E == Demands(inv, ActiveLeases')
  <2>1. /\ IsFiniteSet(D) /\ Distinct(D)
        /\ Plan(inv, ActiveLeases) = ComputePlacements(D, EffectiveNodes(inv), inv.foreign)
    BY <1>1, BookingsAreGood, GoodDemands
  <2>2. /\ IsFiniteSet(E) /\ Distinct(E)
        /\ Plan(inv, ActiveLeases') = ComputePlacements(E, EffectiveNodes(inv), inv.foreign)
    BY <1>1, BookingsAreGood, GoodDemands
  <2> HIDE DEF inv, D, E
  <2>3. ASSUME NEW d \in D \cap E, \A c \in (D \cup E) \ (D \cap E) : d.begin < c.begin
        PROVE  Plan(inv, ActiveLeases)[d.id] = Plan(inv, ActiveLeases')[d.id]
    BY <2>1, <2>2, <2>3, EarlierDemandsStay
  <2> QED
    BY <2>3 DEF inv, D, E, Demands
<1>2. AdmissionInv /\ AdmissionInv' => MovesNoEarlierBooking
  BY <1>1 DEF MovesNoEarlierBooking
<1> QED
  BY <1>2, AdmissionInductive, PTL DEF EarlierBookingsStand

(* The search for the earliest start and the conflict check agree on a     *)
(* request that names no node, in a pool that names none, beside bookings  *)
(* of which none failed and none has its window.                           *)
LEMMA EarliestStartFits ==
  ASSUME AdmissionInv, NEW q \in Requests, NEW start, start = EarliestStart(q), start # Unknown,
         Acceptable(q), \A pool \in PoolOf(RequestedPool(q)) : pool.nodes = {},
         Wanted[q].node = NoNode, Active(Rows) = ActiveLeases,
         ~Unsortable(RequestedRow(q, start))
  PROVE  ~Conflicts(Serving(q), RequestedRow(q, start))
<1> DEFINE inv == Serving(q)
           slots == EffectiveNodes(inv)
           D == Demands(inv, ActiveLeases)
           row == RequestedRow(q, start)
           m == Demand(inv, row)
           p == MovedTo(Probe(q), start)
<1>1. /\ Types /\ Identities /\ GoodRows(ActiveLeases) /\ now \in Nat
      /\ \A r \in ActiveLeases : r.id # 0 /\ r \in RowType
  <2>1. GoodRows(ActiveLeases)
    BY BookingsAreGood
  <2>2. \A r \in ActiveLeases : r.id # 0
    BY DEF AdmissionInv, Identities, ActiveLeases, Active, Rows
  <2> QED
    BY <2>1, <2>2, TimesAssumption DEF AdmissionInv, Types, GoodRows
<1>2. Probe(q).id = -1 /\ Probe(q).begin = now
  BY DEF Probe, Demand, RequestedRow, NoRow
<1>3. /\ start \in Nat
      /\ ComputePlacements(D \cup {p}, slots, inv.foreign)[-1] # NoPlace
  <2>1. start = FindEarliestSlot(Probe(q), slots, D, inv.foreign, now + Horizon, Grid)
    <3>1. UNION {pool.nodes : pool \in PoolOf(RequestedPool(q))} = {}
      OBVIOUS
    <3> QED
      BY <3>1 DEF EarliestStart, Demands
  <2>2. \A o \in D : o.begin \in Nat /\ o.end \in Nat
    BY <1>1, RowTimes DEF Demands, Demand
  <2>3. now + Horizon \in Nat /\ Grid \in Nat \ {0} /\ Probe(q).begin \in Nat
    BY <1>1, <1>2, TimesAssumption
  <2> HIDE DEF D, slots, inv
  <2> QED
    BY <1>2, <2>1, <2>2, <2>3, EarliestSlotFits
<1>4. row \in RowType /\ row.id = 0 /\ m.id = 0
  BY <1>1, <1>3, RequestedRows DEF Demand
<1>5. Alike(m, p) /\ p.id = -1
  <2>1. /\ row.begin = start /\ row.end = start + Wanted[q].length /\ row.gpus = RequestedGpus(q)
        /\ row.class = RequestedClass(q) /\ row.pool = RequestedPool(q) /\ row.pin = NoNode
    BY DEF RequestedRow, NoRow
  <2>2. /\ Probe(q).begin = now /\ Probe(q).end = now + Wanted[q].length
        /\ Probe(q).gpus = RequestedGpus(q) /\ Probe(q).class = RequestedClass(q)
        /\ Probe(q).nodes = AllowedNodes(inv, RequestedPool(q)) /\ Probe(q).pin = NoNode
        /\ Probe(q).id = -1
    BY DEF Probe, Demand, RequestedRow, NoRow
  <2>3. start + (now + Wanted[q].length) - now = start + Wanted[q].length
    BY <1>1, <1>3, WantedAssumption
  <2>4. /\ m.begin = row.begin /\ m.end = row.end /\ m.gpus = row.gpus /\ m.class = row.class
        /\ m.nodes = AllowedNodes(inv, row.pool) /\ m.pin = row.pin
    BY DEF Demand
  <2>5. /\ p.begin = start /\ p.end = start + (now + Wanted[q].length) - now
        /\ p.gpus = Probe(q).gpus /\ p.class = Probe(q).class
        /\ p.nodes = Probe(q).nodes /\ p.pin = Probe(q).pin /\ p.id = Probe(q).id
    BY <2>2 DEF MovedTo, Probe, Demand
  <2> HIDE DEF row, m, p, inv
  <2> QED
    BY <2>1, <2>2, <2>3, <2>4, <2>5 DEF Alike
<1> HIDE DEF p, m
<1>6. /\ IsFiniteSet(D \cup {m}) /\ Distinct(D \cup {m})
      /\ Plan(inv, ActiveLeases \cup {row}) = ComputePlacements(D \cup {m}, slots, inv.foreign)
  <2>1. GoodRows(ActiveLeases \cup {row})
    <3>1. IsFiniteSet(ActiveLeases \cup {row})
      BY <1>1, FS_AddElement DEF GoodRows
    <3> HIDE DEF row
    <3> QED
      BY <1>1, <1>4, <3>1 DEF GoodRows
  <2>2. Demands(inv, ActiveLeases \cup {row}) = D \cup {m}
    BY DEF Demands, m
  <2> HIDE DEF D, row, slots, inv
  <2> QED
    BY <2>1, <2>2, GoodDemands DEF slots
<1>7. IsFiniteSet(D \cup {p}) /\ Distinct(D \cup {p})
  <2>1. IsFiniteSet(D) /\ Distinct(D)
    BY <1>1, GoodDemands
  <2>2. IsFiniteSet(D \cup {p})
    BY <2>1, FS_AddElement
  <2>3. \A d \in D : d.id # -1
    BY <1>1, RowTimes DEF Demands, Demand
  <2>4. p.begin \in Int /\ p.end \in Int /\ p.id \in Int
    <3>1. m.begin \in Int /\ m.end \in Int
      BY <1>6 DEF Distinct
    <3> QED
      BY <1>5, <3>1 DEF Alike
  <2> HIDE DEF D
  <2> QED
    BY <1>5, <2>1, <2>2, <2>3, <2>4 DEF Distinct
<1>8. ASSUME Managed(row) PROVE \A d \in D : ~Ties(d, m)
  <2>1. ~\E other \in ActiveLeases : Ties(row, other)
    BY <1>8 DEF Unsortable
  <2>2. m.begin = row.begin /\ m.end = row.end
    BY DEF m, Demand
  <2>3. \A d \in D : \E other \in ActiveLeases : d.begin = other.begin /\ d.end = other.end
    BY DEF Demands, Demand
  <2> HIDE DEF D, row
  <2> QED
    BY <2>1, <2>2, <2>3 DEF Ties
<1>9. ASSUME Managed(row) PROVE Plan(inv, ActiveLeases \cup {row})[0] # NoPlace
  <2> DEFINE M == D \cup {m}
             P == D \cup {p}
  <2>1. NoTies(D, m)
    BY <1>8, <1>9 DEF NoTies
  <2>2. IsFiniteSet(M) /\ Distinct(M) /\ IsFiniteSet(P) /\ Distinct(P)
    BY <1>6, <1>7
  <2>3. ComputePlacements(M, slots, inv.foreign)[m.id] = ComputePlacements(P, slots, inv.foreign)[p.id]
    <3> DEFINE foreign == inv.foreign
    <3>1. M = D \cup {m} /\ P = D \cup {p} /\ Alike(m, p)
      BY <1>5
    <3> HIDE DEF M, P, D, slots, foreign, inv, row
    <3>2. ComputePlacements(M, slots, foreign)[m.id] = ComputePlacements(P, slots, foreign)[p.id]
      BY <2>1, <2>2, <3>1, EitherGetsThePlace
    <3> QED
      BY <3>2 DEF foreign
  <2> HIDE DEF D, slots, inv, row
  <2> QED
    BY <1>3, <1>4, <1>5, <1>6, <2>3
<1>10. Others(row) = ActiveLeases
  BY <1>1, <1>4 DEF Others
<1> QED
  BY <1>4, <1>9, <1>10 DEF Conflicts

(* An ASAP request that names no node and whose pool names none is never   *)
(* refused for the slot that was found for it, unless a failed booking     *)
(* still holds GPUs or another has the same window.                        *)
THEOREM AsapPassesTheCheck == Spec => AsapIsBookable
<1>1. ASSUME AdmissionInv, Next, NEW q \in Requests,
             Wanted[q].asap, request[q].pc = "idle", request'[q].pc = "merge",
             Active(Rows) = ActiveLeases, Wanted[q].node = NoNode,
             \A pool \in PoolOf(RequestedPool(q)) : pool.nodes = {},
             ~Unsortable(request'[q].row)
      PROVE  ~Conflicts(Serving(q), request'[q].row)
  <2>1. Arrive(q)
    <3>1. ASSUME NEW o \in Requests, Proceed(o) PROVE FALSE
      <4>1. request[o].pc # "idle"
        BY <3>1
        DEF Proceed, Merge, CommitMerge, Prepare, Take, FindsNoRow, CreateRow, Check, Insert
      <4>2. \A r \in Requests \ {o} : request'[r] = request[r]
        BY <1>1, <3>1
        DEF Proceed, Merge, CommitMerge, Prepare, Take, FindsNoRow, CreateRow, Check, Insert,
            Answer, Continue, AdmissionInv, Types
      <4> QED
        BY <1>1, <4>1, <4>2
    <3>2. ASSUME NEW o \in Requests, Arrive(o) PROVE o = q
      BY <1>1, <3>2 DEF Arrive, Answer, AdmissionInv, Types
    <3>3. ASSUME request' = request PROVE FALSE
      BY <1>1, <3>3
    <3> QED
      BY <1>1, <3>1, <3>2, <3>3
      DEF Next, Create, UpdateLease, ExtendLease, Validated, Worker, Submit, Fail, Claim, Resubmit,
          Finish, Moves, CommitEdit, Refresh, Tick
  <2>2. request \in [Requests -> RequestType] /\ request[q] \in RequestType
    BY <1>1 DEF AdmissionInv, Types
  <2>3. PICK begin \in Begins(q) :
          /\ Acceptable(q) /\ begin # Unknown
          /\ request' = [request EXCEPT ![q].pc = "merge", ![q].row = RequestedRow(q, begin)]
    <3>1. ~Answer(q, "refused")
      BY <1>1, <2>2 DEF Answer, NoWork
    <3> QED
      BY <2>1, <3>1 DEF Arrive
  <2>4. begin = EarliestStart(q)
    BY <1>1 DEF Begins
  <2>5. request'[q].row = RequestedRow(q, begin)
    BY <2>2, <2>3 DEF RequestType
  <2> QED
    BY <1>1, <2>3, <2>4, <2>5, EarliestStartFits
<1>2. AdmissionInv /\ [Next]_vars => FindsABookableSlot
  <2>1. UNCHANGED vars => request' = request
    BY DEF vars
  <2> QED
    BY <1>1, <2>1 DEF FindsABookableSlot
<1> QED
  BY <1>2, AdmissionInductive, PTL DEF AsapIsBookable, Spec
=============================================================================
