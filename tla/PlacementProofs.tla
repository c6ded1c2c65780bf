-------------------------- MODULE PlacementProofs --------------------------
(***************************************************************************)
(* Proofs for Placement: what a plan is, for any set of demands, any GPUs  *)
(* and any foreign jobs.                                                   *)
(***************************************************************************)
EXTENDS Placement, FiniteSetTheorems, WellFoundedInduction, TLAPS

-----------------------------------------------------------------------------
(* Numbers and finite sets                                                 *)

(* Natural numbers that are not all excluded have a least.                 *)
LEMMA LeastNumber ==
  ASSUME NEW T \in SUBSET Nat, T # {} PROVE \E x \in T : \A y \in T : x <= y
<1>1. \E x \in T : \A y \in T : ~(<<y, x>> \in OpToRel(<, Nat))
  BY NatLessThanWellFounded, WFMin
<1>2. \A x, y \in Nat : <<x, y>> \in OpToRel(<, Nat) <=> x < y
  BY DEF OpToRel
<1>3. \E x \in T : \A y \in T : ~(y < x)
  BY <1>1, <1>2
<1> QED
  BY <1>3

(* Of finite sets that are not all excluded, one has no smaller one.       *)
LEMMA SmallestSet ==
  ASSUME NEW D, IsFiniteSet(D), NEW Bad \in SUBSET (SUBSET D), Bad # {}
  PROVE  \E E \in Bad : \A x \in E : E \ {x} \notin Bad
<1> DEFINE sizes == {Cardinality(E) : E \in Bad}
<1>1. \A E \in Bad : IsFiniteSet(E) /\ Cardinality(E) \in Nat
  BY FS_Subset, FS_CardinalityType
<1>2. PICK n \in sizes : \A m \in sizes : n <= m
  <2>1. sizes \in SUBSET Nat /\ sizes # {}
    BY <1>1
  <2> QED
    BY <2>1, LeastNumber
<1>3. PICK E \in Bad : Cardinality(E) = n
  BY <1>2
<1>4. ASSUME NEW x \in E, E \ {x} \in Bad PROVE FALSE
  <2>1. Cardinality(E \ {x}) = Cardinality(E) - 1
    BY <1>1, FS_RemoveElement
  <2>2. Cardinality(E) <= Cardinality(E \ {x})
    BY <1>2, <1>3, <1>4
  <2> QED
    BY <1>1, <2>1, <2>2
<1> QED
  BY <1>3, <1>4

(* A strict total order R of a finite set has a last element there.        *)
LEMMA LastOf ==
  ASSUME NEW D, IsFiniteSet(D), D # {}, NEW R,
         \A a, b, c \in D : <<a, b>> \in R /\ <<b, c>> \in R => <<a, c>> \in R,
         \A a, b \in D : a # b => <<a, b>> \in R \/ <<b, a>> \in R
  PROVE  \E d \in D : \A e \in D \ {d} : <<e, d>> \in R
<1> DEFINE LastIn(E, d) == \A e \in E \ {d} : <<e, d>> \in R
           Bad == {E \in SUBSET D : E # {} /\ ~\E d \in E : LastIn(E, d)}
<1>1. SUFFICES ASSUME Bad # {} PROVE FALSE
  OBVIOUS
<1>2. PICK E \in Bad : \A x \in E : E \ {x} \notin Bad
  <2>1. Bad \in SUBSET (SUBSET D)
    OBVIOUS
  <2> HIDE DEF Bad
  <2> QED
    BY <1>1, <2>1, SmallestSet
<1>3. PICK x \in E : TRUE
  OBVIOUS
<1>4. CASE E \ {x} = {}
  BY <1>4
<1>5. CASE E \ {x} # {}
  <2>1. PICK y \in E \ {x} : LastIn(E \ {x}, y)
    BY <1>2, <1>5
  <2>2. CASE <<x, y>> \in R
    <3>1. LastIn(E, y)
      BY <2>1, <2>2
    <3> QED
      BY <3>1
  <2>3. CASE <<y, x>> \in R
    <3>1. ASSUME NEW e \in E \ {x} PROVE <<e, x>> \in R
      <4>1. CASE e = y
        BY <4>1, <2>3
      <4>2. CASE e # y
        <5>1. <<e, y>> \in R
          BY <2>1, <4>2
        <5> QED
          BY <5>1, <2>3
      <4> QED
        BY <4>1, <4>2
    <3> QED
      BY <3>1
  <2> QED
    BY <2>2, <2>3
<1> QED
  BY <1>4, <1>5

-----------------------------------------------------------------------------
(* The order of the demands                                                *)

(* Demands with integer times, each under an identity of its own.          *)
Distinct(D) ==
  /\ \A d \in D : d.begin \in Int /\ d.end \in Int /\ d.id \in Int
  /\ \A d, e \in D : d.id = e.id => d = e

(* Before is a strict total order of them.                                 *)
LEMMA BeforeIsTransitive ==
  ASSUME NEW a, NEW b, NEW c,
         \A d \in {a, b, c} : d.begin \in Int /\ d.end \in Int /\ d.id \in Int,
         Before(a, b), Before(b, c)
  PROVE  Before(a, c)
  BY DEF Before

LEMMA BeforeIsStrict ==
  ASSUME NEW a, NEW b, \A d \in {a, b} : d.begin \in Int /\ d.end \in Int /\ d.id \in Int,
         Before(a, b)
  PROVE  ~Before(b, a)
  BY DEF Before

LEMMA BeforeIsTotal ==
  ASSUME NEW D, Distinct(D), NEW a \in D, NEW b \in D, a # b
  PROVE  Before(a, b) \/ Before(b, a)
  BY DEF Before, Distinct

IsLast(D, d) == d \in D /\ \A e \in D \ {d} : Before(e, d)
IsFirst(D, d) == d \in D /\ \A e \in D \ {d} : Before(d, e)

LEMMA LastExists ==
  ASSUME NEW D, IsFiniteSet(D), Distinct(D), D # {}
  PROVE  /\ \E d : IsLast(D, d)
         /\ \A d, e : IsLast(D, d) /\ IsLast(D, e) => d = e
<1> DEFINE R == {p \in D \X D : Before(p[1], p[2])}
<1>1. \A a, b \in D : <<a, b>> \in R <=> Before(a, b)
  OBVIOUS
<1>2. \E d \in D : \A e \in D \ {d} : <<e, d>> \in R
  <2>1. \A a, b, c \in D : <<a, b>> \in R /\ <<b, c>> \in R => <<a, c>> \in R
    BY <1>1, BeforeIsTransitive DEF Distinct
  <2>2. \A a, b \in D : a # b => <<a, b>> \in R \/ <<b, a>> \in R
    BY <1>1, BeforeIsTotal
  <2> HIDE DEF R
  <2> QED
    BY <2>1, <2>2, LastOf
<1>3. ASSUME NEW d, NEW e, IsLast(D, d), IsLast(D, e) PROVE d = e
  <2> SUFFICES ASSUME d # e PROVE FALSE
    OBVIOUS
  <2>1. Before(d, e) /\ Before(e, d) /\ d \in D /\ e \in D
    BY <1>3 DEF IsLast
  <2> QED
    BY <2>1, BeforeIsStrict DEF Distinct
<1> QED
  BY <1>1, <1>2, <1>3 DEF IsLast

LEMMA FirstExists ==
  ASSUME NEW D, IsFiniteSet(D), Distinct(D), D # {}
  PROVE  \E d : IsFirst(D, d)
<1> DEFINE R == {p \in D \X D : Before(p[2], p[1])}
<1>1. \A a, b \in D : <<a, b>> \in R <=> Before(b, a)
  OBVIOUS
<1>2. \E d \in D : \A e \in D \ {d} : <<e, d>> \in R
  <2>1. \A a, b, c \in D : <<a, b>> \in R /\ <<b, c>> \in R => <<a, c>> \in R
    BY <1>1, BeforeIsTransitive DEF Distinct
  <2>2. \A a, b \in D : a # b => <<a, b>> \in R \/ <<b, a>> \in R
    BY <1>1, BeforeIsTotal
  <2> HIDE DEF R
  <2> QED
    BY <2>1, <2>2, LastOf
<1> QED
  BY <1>1, <1>2 DEF IsFirst

(* What holds of a demand whenever it holds of those before it holds of    *)
(* all: G is the set of which it holds.                                    *)
LEMMA OneAfterTheOther ==
  ASSUME NEW D, IsFiniteSet(D), Distinct(D), NEW G \in SUBSET D,
         \A d \in D : (\A e \in D : Before(e, d) => e \in G) => d \in G
  PROVE  G = D
<1> SUFFICES ASSUME D \ G # {} PROVE FALSE
  OBVIOUS
<1>1. PICK d : IsFirst(D \ G, d)
  <2>1. IsFiniteSet(D \ G)
    BY FS_Subset
  <2>2. Distinct(D \ G)
    BY DEF Distinct
  <2> QED
    BY <2>1, <2>2, FirstExists
<1>2. \A e \in D : Before(e, d) => e \in G
  <2> SUFFICES ASSUME NEW e \in D, Before(e, d), e \notin G PROVE FALSE
    OBVIOUS
  <2>1. d \in D
    BY <1>1 DEF IsFirst
  <2>2. ~Before(d, e)
    BY <2>1, BeforeIsStrict DEF Distinct
  <2>3. e = d
    BY <1>1, <2>2 DEF IsFirst
  <2> QED
    BY <2>2, <2>3
<1> QED
  BY <1>1, <1>2 DEF IsFirst

-----------------------------------------------------------------------------
(* The recursion of ComputePlacements                                      *)

NextPlan(slots, plan, d) == Put(slots, plan, d, PlaceFor(slots, plan.busy, d))

LEMMA OnlyOne == \A x : Only({x}) = x
  BY DEF Only

(* What the recursion of ComputePlacements says of a function.             *)
Unfolds(placed, demands, slots, foreign) ==
  placed = [D \in SUBSET demands |->
              IF D = {} THEN [busy |-> ForeignBusy(slots, foreign), at |-> <<>>]
              ELSE NextPlan(slots, placed[D \ {CHOOSE d \in D : \A e \in D \ {d} : Before(e, d)}],
                            CHOOSE d \in D : \A e \in D \ {d} : Before(e, d))]

(* A function for a set of demands makes one for a set with one more.      *)
LEMMA UnfoldsOnce ==
  ASSUME NEW D, IsFiniteSet(D), Distinct(D), NEW x, IsLast(D, x), NEW slots, NEW foreign,
         NEW g, Unfolds(g, D \ {x}, slots, foreign)
  PROVE  \E h : Unfolds(h, D, slots, foreign)
<1> DEFINE last(E) == CHOOSE d \in E : \A e \in E \ {d} : Before(e, d)
           first == [busy |-> ForeignBusy(slots, foreign), at |-> <<>>]
           h == [E \in SUBSET D |-> IF x \in E THEN NextPlan(slots, g[E \ {x}], x) ELSE g[E]]
           rhs(E) == IF E = {} THEN first ELSE NextPlan(slots, h[E \ {last(E)}], last(E))
<1>1. ASSUME NEW E \in SUBSET D, E # {} PROVE IsLast(E, last(E))
  <2>1. IsFiniteSet(E) /\ Distinct(E)
    BY FS_Subset DEF Distinct
  <2>2. \E d \in E : \A e \in E \ {d} : Before(e, d)
    BY <1>1, <2>1, LastExists DEF IsLast
  <2> QED
    BY <2>2 DEF IsLast
<1>2. ASSUME NEW E \in SUBSET D, x \in E PROVE last(E) = x
  <2>1. IsFiniteSet(E) /\ Distinct(E)
    BY FS_Subset DEF Distinct
  <2>2. IsLast(E, x)
    BY <1>2 DEF IsLast
  <2>3. IsLast(E, last(E))
    BY <1>1, <1>2
  <2> HIDE DEF last
  <2> QED
    BY <1>2, <2>1, <2>2, <2>3, LastExists
<1>3. \A E \in SUBSET (D \ {x}) :
        g[E] = IF E = {} THEN first ELSE NextPlan(slots, g[E \ {last(E)}], last(E))
  <2> DEFINE body(E) == IF E = {} THEN first ELSE NextPlan(slots, g[E \ {last(E)}], last(E))
  <2>1. g = [E \in SUBSET (D \ {x}) |-> body(E)]
    BY DEF Unfolds
  <2> HIDE DEF body
  <2>2. \A E \in SUBSET (D \ {x}) : g[E] = body(E)
    BY <2>1
  <2> QED
    BY <2>2 DEF body
<1>4. ASSUME NEW E \in SUBSET D PROVE h[E] = rhs(E)
  <2> HIDE DEF last, first
  <2>1. CASE x \in E
    <3>1. h[E] = NextPlan(slots, g[E \ {x}], x)
      BY <2>1
    <3>2. h[E \ {x}] = g[E \ {x}]
      OBVIOUS
    <3>3. last(E) = x /\ E # {}
      BY <1>2, <2>1
    <3> HIDE DEF h
    <3> QED
      BY <3>1, <3>2, <3>3
  <2>2. CASE x \notin E
    <3>1. h[E] = g[E]
      BY <2>2
    <3>2. E # {} => h[E \ {last(E)}] = g[E \ {last(E)}]
      BY <2>2
    <3>3. E \in SUBSET (D \ {x})
      BY <2>2
    <3> HIDE DEF h
    <3> QED
      BY <1>3, <3>1, <3>2, <3>3
  <2> QED
    BY <2>1, <2>2
<1>5. h = [E \in SUBSET D |-> rhs(E)]
  <2>1. h = [E \in SUBSET D |-> h[E]]
    OBVIOUS
  <2> HIDE DEF h, rhs
  <2> QED
    BY <1>4, <2>1
<1> QED
  BY <1>5 DEF Unfolds

LEMMA ThePlanUnfolds ==
  ASSUME NEW D, IsFiniteSet(D), Distinct(D), NEW slots, NEW foreign
  PROVE  \E placed : /\ Unfolds(placed, D, slots, foreign)
                     /\ ComputePlacements(D, slots, foreign) = placed[D].at
<1> DEFINE first == [busy |-> ForeignBusy(slots, foreign), at |-> <<>>]
           Bad == {E \in SUBSET D : ~\E g : Unfolds(g, E, slots, foreign)}
<1>1. Bad = {}
  <2> SUFFICES ASSUME Bad # {} PROVE FALSE
    OBVIOUS
  <2>1. PICK E \in Bad : \A x \in E : E \ {x} \notin Bad
    <3>1. Bad \in SUBSET (SUBSET D)
      OBVIOUS
    <3> HIDE DEF Bad
    <3> QED
      BY <3>1, SmallestSet
  <2>2. CASE E = {}
    <3> DEFINE g == [F \in SUBSET E |-> first]
    <3>1. Unfolds(g, E, slots, foreign)
      BY <2>2 DEF Unfolds
    <3> QED
      BY <3>1, <2>1
  <2>3. CASE E # {}
    <3>1. IsFiniteSet(E) /\ Distinct(E)
      BY FS_Subset DEF Distinct
    <3>2. PICK x : IsLast(E, x)
      BY <2>3, <3>1, LastExists
    <3>3. PICK g : Unfolds(g, E \ {x}, slots, foreign)
      BY <2>1, <3>2 DEF IsLast
    <3>4. \E h : Unfolds(h, E, slots, foreign)
      BY <3>1, <3>2, <3>3, UnfoldsOnce
    <3> QED
      BY <2>1, <3>4
  <2> QED
    BY <2>2, <2>3
<1>2. PICK g : Unfolds(g, D, slots, foreign)
  BY <1>1
<1> DEFINE last(E) == CHOOSE d \in E : \A e \in E \ {d} : Before(e, d)
           after(plan, d) ==
             Only({Put(slots, plan, d, place) : place \in {PlaceFor(slots, plan.busy, d)}})
           placed == CHOOSE f : f = [E \in SUBSET D |->
             IF E = {} THEN first ELSE Only({after(plan, last(E)) : plan \in {f[E \ {last(E)}]}})]
<1>3. ComputePlacements(D, slots, foreign) = placed[D].at
  BY DEF ComputePlacements
<1>4. \A f : Unfolds(f, D, slots, foreign) <=>
        f = [E \in SUBSET D |->
               IF E = {} THEN first ELSE Only({after(plan, last(E)) : plan \in {f[E \ {last(E)}]}})]
  <2>1. \A plan, d : after(plan, d) = NextPlan(slots, plan, d)
    BY OnlyOne DEF NextPlan
  <2>2. \A plan, d : Only({after(p, d) : p \in {plan}}) = NextPlan(slots, plan, d)
    <3> HIDE DEF after
    <3>1. \A plan, d : {after(p, d) : p \in {plan}} = {after(plan, d)}
      OBVIOUS
    <3> QED
      BY <2>1, <3>1, OnlyOne
  <2> TAKE f
  <2> DEFINE short(E) == IF E = {} THEN first ELSE NextPlan(slots, f[E \ {last(E)}], last(E))
             long(E) == IF E = {} THEN first
                        ELSE Only({after(plan, last(E)) : plan \in {f[E \ {last(E)}]}})
  <2>3. \A E : short(E) = long(E)
    <3> HIDE DEF after, last, first
    <3> QED
      BY <2>2
  <2>4. Unfolds(f, D, slots, foreign) <=> f = [E \in SUBSET D |-> short(E)]
    BY DEF Unfolds
  <2>5. [E \in SUBSET D |-> short(E)] = [E \in SUBSET D |-> long(E)]
    <3> HIDE DEF short, long
    <3> QED
      BY <2>3
  <2> QED
    BY <2>4, <2>5
<1>5. Unfolds(placed, D, slots, foreign)
  <2> HIDE DEF first, after, last
  <2>1. \E f : f = [E \in SUBSET D |->
             IF E = {} THEN first ELSE Only({after(plan, last(E)) : plan \in {f[E \ {last(E)}]}})]
    BY <1>2, <1>4
  <2>2. placed = [E \in SUBSET D |->
             IF E = {} THEN first
             ELSE Only({after(plan, last(E)) : plan \in {placed[E \ {last(E)}]}})]
    BY <2>1
  <2> HIDE DEF placed
  <2> QED
    BY <1>4, <2>2
<1> QED
  BY <1>3, <1>5

-----------------------------------------------------------------------------
(* What a plan is, without recursion                                       *)

(* The GPUs that a plan gives to the demands D.                            *)
Share(place, d) == Held(place.node, place.start .. place.start + d.gpus - 1, d)
Taken(at, D) == UNION {Share(at[d.id], d) : d \in {e \in D : at[e.id] # NoPlace}}
Below(D, d) == {e \in D : Before(e, d)}

(* Every demand has the place that is best for it, given the foreign jobs  *)
(* and those before it.                                                    *)
IsPlan(at, D, slots, foreign) ==
  \A d \in D :
    at[d.id] = PlaceFor(slots, ForeignBusy(slots, foreign) \cup Taken(at, Below(D, d)), d)

(* The state of the recursion after the demands D.                         *)
Follows(plan, D, slots, foreign) ==
  /\ DOMAIN plan.at = {d.id : d \in D}
  /\ plan.busy = ForeignBusy(slots, foreign) \cup Taken(plan.at, D)
  /\ IsPlan(plan.at, D, slots, foreign)

LEMMA NextPlanFollows ==
  ASSUME NEW D, Distinct(D), NEW x, IsLast(D, x), NEW slots, NEW foreign,
         NEW plan, Follows(plan, D \ {x}, slots, foreign)
  PROVE  Follows(NextPlan(slots, plan, x), D, slots, foreign)
<1> DEFINE place == PlaceFor(slots, plan.busy, x)
           next == NextPlan(slots, plan, x)
           E == D \ {x}
<1>1. next.at = [id \in DOMAIN plan.at \cup {x.id} |-> IF id = x.id THEN place ELSE plan.at[id]]
  BY DEF NextPlan, Put
<1>2. next.busy = IF place = NoPlace THEN plan.busy ELSE plan.busy \cup Share(place, x)
  BY DEF NextPlan, Put, Share
<1>3. x \in D /\ \A d \in E : d.id # x.id /\ d.id \in DOMAIN plan.at
  BY DEF Distinct, IsLast, Follows
<1> HIDE DEF next, place
<1>4. next.at[x.id] = place /\ \A d \in E : next.at[d.id] = plan.at[d.id]
  BY <1>1, <1>3
<1>5. ASSUME NEW F \in SUBSET E PROVE Taken(next.at, F) = Taken(plan.at, F)
  <2>1. {e \in F : next.at[e.id] # NoPlace} = {e \in F : plan.at[e.id] # NoPlace}
    BY <1>4
  <2>2. \A d \in F : Share(next.at[d.id], d) = Share(plan.at[d.id], d)
    BY <1>4
  <2> QED
    BY <2>1, <2>2 DEF Taken
<1>6. Below(D, x) = E
  <2>1. \A e \in E : Before(e, x)
    BY DEF IsLast
  <2>2. ~Before(x, x)
    BY <1>3, BeforeIsStrict DEF Distinct
  <2> QED
    BY <2>1, <2>2 DEF Below
<1>7. ASSUME NEW d \in E PROVE Below(D, d) = Below(E, d)
  <2>1. ~Before(x, d)
    <3>1. Before(d, x)
      BY DEF IsLast
    <3> QED
      BY <1>3, <3>1, BeforeIsStrict DEF Distinct
  <2> QED
    BY <2>1 DEF Below
<1>8. DOMAIN next.at = {d.id : d \in D}
  BY <1>1, <1>3 DEF Follows
<1>9. next.busy = ForeignBusy(slots, foreign) \cup Taken(next.at, D)
  <2>1. Taken(next.at, D) = IF place = NoPlace THEN Taken(next.at, E)
                            ELSE Taken(next.at, E) \cup Share(place, x)
    BY <1>3, <1>4 DEF Taken
  <2>2. plan.busy = ForeignBusy(slots, foreign) \cup Taken(next.at, E)
    BY <1>5 DEF Follows
  <2> QED
    BY <1>2, <2>1, <2>2
<1>10. IsPlan(next.at, D, slots, foreign)
  <2>1. plan.busy = ForeignBusy(slots, foreign) \cup Taken(next.at, Below(D, x))
    BY <1>5, <1>6 DEF Follows
  <2>2. ASSUME NEW d \in E
        PROVE  next.at[d.id] =
                 PlaceFor(slots, ForeignBusy(slots, foreign) \cup Taken(next.at, Below(D, d)), d)
    <3>1. Taken(next.at, Below(D, d)) = Taken(plan.at, Below(E, d))
      <4>1. Below(E, d) \in SUBSET E
        BY DEF Below
      <4> QED
        BY <1>5, <1>7, <4>1
    <3> QED
      BY <1>4, <3>1 DEF Follows, IsPlan
  <2> QED
    BY <1>4, <2>1, <2>2 DEF IsPlan, place
<1> QED
  BY <1>8, <1>9, <1>10 DEF Follows, next

(* ComputePlacements returns a plan.                                       *)
LEMMA ComputesAPlan ==
  ASSUME NEW D, IsFiniteSet(D), Distinct(D), NEW slots, NEW foreign
  PROVE  IsPlan(ComputePlacements(D, slots, foreign), D, slots, foreign)
<1>1. PICK placed : /\ Unfolds(placed, D, slots, foreign)
                    /\ ComputePlacements(D, slots, foreign) = placed[D].at
  BY ThePlanUnfolds
<1> DEFINE last(E) == CHOOSE d \in E : \A e \in E \ {d} : Before(e, d)
           first == [busy |-> ForeignBusy(slots, foreign), at |-> <<>>]
           body(E) == IF E = {} THEN first ELSE NextPlan(slots, placed[E \ {last(E)}], last(E))
           Bad == {E \in SUBSET D : ~Follows(placed[E], E, slots, foreign)}
<1>2. \A E \in SUBSET D : placed[E] = body(E)
  <2>1. placed = [E \in SUBSET D |-> body(E)]
    BY <1>1 DEF Unfolds
  <2> HIDE DEF body
  <2> QED
    BY <2>1
<1>3. Bad = {}
  <2> SUFFICES ASSUME Bad # {} PROVE FALSE
    OBVIOUS
  <2>1. PICK E \in Bad : \A x \in E : E \ {x} \notin Bad
    <3>1. Bad \in SUBSET (SUBSET D)
      OBVIOUS
    <3> HIDE DEF Bad
    <3> QED
      BY <3>1, SmallestSet
  <2>2. CASE E = {}
    <3>1. placed[E] = first
      BY <1>2, <2>2
    <3>2. Follows(first, {}, slots, foreign)
      <4>1. Taken(<<>>, {}) = {}
        BY DEF Taken
      <4>2. DOMAIN <<>> = {}
        OBVIOUS
      <4> QED
        BY <4>1, <4>2 DEF Follows, IsPlan
    <3> HIDE DEF first
    <3> QED
      BY <2>1, <2>2, <3>1, <3>2
  <2>3. CASE E # {}
    <3>1. IsFiniteSet(E) /\ Distinct(E)
      BY FS_Subset DEF Distinct
    <3>2. IsLast(E, last(E))
      <4>1. \E d \in E : \A e \in E \ {d} : Before(e, d)
        BY <2>3, <3>1, LastExists DEF IsLast
      <4> QED
        BY <4>1 DEF IsLast
    <3>3. placed[E] = NextPlan(slots, placed[E \ {last(E)}], last(E))
      BY <1>2, <2>3
    <3>4. Follows(placed[E \ {last(E)}], E \ {last(E)}, slots, foreign)
      <4> HIDE DEF last
      <4> QED
        BY <2>1, <3>2 DEF IsLast
    <3> HIDE DEF last
    <3>5. Follows(placed[E], E, slots, foreign)
      BY <3>1, <3>2, <3>3, <3>4, NextPlanFollows
    <3> QED
      BY <2>1, <3>5
  <2> QED
    BY <2>2, <2>3
<1> QED
  BY <1>1, <1>3 DEF Follows

-----------------------------------------------------------------------------
(* The place of one demand                                                 *)

(* Nodes and their GPUs are numbered.                                      *)
Numbered(slots) ==
  /\ DOMAIN slots \subseteq Nat
  /\ \A n \in DOMAIN slots : DOMAIN slots[n] \subseteq Nat /\ IsFiniteSet(DOMAIN slots[n])

LEMMA FreeCountType ==
  ASSUME NEW slots, Numbered(slots), NEW busy, NEW n \in DOMAIN slots, NEW d
  PROVE  FreeCount(slots, busy, n, d) \in Nat
<1>1. {i \in Matching(slots, n, d) : IsFree(busy, n, i, d)} \in SUBSET DOMAIN slots[n]
  BY DEF Matching
<1>2. IsFiniteSet({i \in Matching(slots, n, d) : IsFree(busy, n, i, d)})
  BY <1>1, FS_Subset DEF Numbered
<1> QED
  BY <1>2, FS_CardinalityType DEF FreeCount

(* Among triples of numbers one comes first.                               *)
LEMMA BestExists ==
  ASSUME NEW A, A # {}, \A a \in A : a.free \in Nat /\ a.node \in Nat /\ a.start \in Nat
  PROVE  \E a \in A : \A b \in A :
           \/ a.free < b.free
           \/ a.free = b.free /\ a.node < b.node
           \/ a.free = b.free /\ a.node = b.node /\ a.start <= b.start
<1>1. PICK f \in {a.free : a \in A} : \A g \in {a.free : a \in A} : f <= g
  <2>1. {a.free : a \in A} \in SUBSET Nat /\ {a.free : a \in A} # {}
    OBVIOUS
  <2> QED
    BY <2>1, LeastNumber
<1> DEFINE B == {a \in A : a.free = f}
<1>2. PICK n \in {a.node : a \in B} : \A m \in {a.node : a \in B} : n <= m
  <2>1. {a.node : a \in B} \in SUBSET Nat /\ {a.node : a \in B} # {}
    BY <1>1
  <2> QED
    BY <2>1, LeastNumber
<1> DEFINE C == {a \in B : a.node = n}
<1>3. PICK s \in {a.start : a \in C} : \A t \in {a.start : a \in C} : s <= t
  <2>1. {a.start : a \in C} \in SUBSET Nat /\ {a.start : a \in C} # {}
    BY <1>2
  <2> QED
    BY <2>1, LeastNumber
<1>4. PICK a \in C : a.start = s
  BY <1>3
<1>5. ASSUME NEW b \in A
      PROVE  \/ a.free < b.free
             \/ a.free = b.free /\ a.node < b.node
             \/ a.free = b.free /\ a.node = b.node /\ a.start <= b.start
  <2>1. a.free = f /\ a.node = n /\ a.start = s /\ f <= b.free
    BY <1>1, <1>4
  <2>2. b.free = f => n <= b.node
    <3>1. b.free = f => b.node \in {x.node : x \in B}
      OBVIOUS
    <3> QED
      BY <1>2, <3>1
  <2>3. b.free = f /\ b.node = n => s <= b.start
    <3>1. b.free = f /\ b.node = n => b.start \in {x.start : x \in C}
      OBVIOUS
    <3> HIDE DEF C
    <3> QED
      BY <1>3, <3>1
  <2>4. f \in Nat /\ n \in Nat /\ s \in Nat /\ b.free \in Nat /\ b.node \in Nat /\ b.start \in Nat
    <3>1. a \in A
      OBVIOUS
    <3> QED
      BY <2>1, <3>1
  <2> QED
    BY <2>1, <2>2, <2>3, <2>4
<1> QED
  BY <1>4, <1>5

(* A demand that gets a place gets a free block on a node it may be on.    *)
LEMMA PlaceIsFree ==
  ASSUME NEW slots, Numbered(slots), NEW busy, NEW d, PlaceFor(slots, busy, d) # NoPlace
  PROVE  LET place == PlaceFor(slots, busy, d)
         IN place.node \in NodesFor(slots, d) /\ place.start \in Blocks(slots, busy, place.node, d)
<1> DEFINE options == UNION {{[free |-> FreeCount(slots, busy, n, d), node |-> n, start |-> s] :
                                s \in Blocks(slots, busy, n, d)} : n \in NodesFor(slots, d)}
           better(a, b) == \/ a.free < b.free
                           \/ a.free = b.free /\ a.node < b.node
                           \/ a.free = b.free /\ a.node = b.node /\ a.start <= b.start
           best(among) == IF among = {} THEN NoPlace
                          ELSE CHOOSE a \in among : \A b \in among : better(a, b)
<1>1. PlaceFor(slots, busy, d) = [node |-> best(options).node, start |-> best(options).start]
  <2>1. PlaceFor(slots, busy, d) =
          Only({[node |-> place.node, start |-> place.start] : place \in {best(among) : among \in {options}}})
    BY DEF PlaceFor
  <2> HIDE DEF best, options
  <2>2. {[node |-> place.node, start |-> place.start] : place \in {best(among) : among \in {options}}} =
          {[node |-> best(options).node, start |-> best(options).start]}
    OBVIOUS
  <2> QED
    BY <2>1, <2>2, OnlyOne
<1>2. options # {}
  BY <1>1 DEF NoPlace
<1>3. NodesFor(slots, d) \subseteq DOMAIN slots
  BY DEF NodesFor
<1>4. \A a \in options : a.free \in Nat /\ a.node \in Nat /\ a.start \in Nat
  <2>1. \A n \in NodesFor(slots, d) : n \in Nat /\ FreeCount(slots, busy, n, d) \in Nat
    BY <1>3, FreeCountType DEF Numbered
  <2>2. \A n \in NodesFor(slots, d) : Blocks(slots, busy, n, d) \subseteq Nat
    BY <1>3 DEF Numbered, Blocks, Matching
  <2> QED
    BY <2>1, <2>2
<1>5. best(options) \in options
  <2>1. \E a \in options : \A b \in options : better(a, b)
    <3> HIDE DEF options
    <3> QED
      BY <1>2, <1>4, BestExists
  <2> HIDE DEF options, better
  <2> QED
    BY <1>2, <2>1
<1>6. PICK n \in NodesFor(slots, d) : \E s \in Blocks(slots, busy, n, d) :
        best(options) = [free |-> FreeCount(slots, busy, n, d), node |-> n, start |-> s]
  <2> HIDE DEF best
  <2> QED
    BY <1>5
<1> HIDE DEF best, options
<1> QED
  BY <1>1, <1>6

(* Whose the demand is does not matter to its place.                       *)
Alike(d, e) ==
  /\ d.gpus = e.gpus /\ d.begin = e.begin /\ d.end = e.end
  /\ d.class = e.class /\ d.nodes = e.nodes /\ d.pin = e.pin

LEMMA PlaceOfAlike ==
  ASSUME NEW slots, NEW busy, NEW d, NEW e, Alike(d, e)
  PROVE  PlaceFor(slots, busy, d) = PlaceFor(slots, busy, e)
<1>1. NodesFor(slots, d) = NodesFor(slots, e)
  BY DEF Alike, NodesFor
<1>2. \A n : Matching(slots, n, d) = Matching(slots, n, e)
  BY DEF Alike, Matching
<1>3. \A n, i : IsFree(busy, n, i, d) <=> IsFree(busy, n, i, e)
  BY DEF Alike, IsFree, Overlaps
<1>4. \A n : FreeCount(slots, busy, n, d) = FreeCount(slots, busy, n, e)
  <2>1. \A n : {i \in Matching(slots, n, d) : IsFree(busy, n, i, d)} =
                 {i \in Matching(slots, n, e) : IsFree(busy, n, i, e)}
    BY <1>2, <1>3
  <2> QED
    BY <2>1 DEF FreeCount
<1>5. \A n : Blocks(slots, busy, n, d) = Blocks(slots, busy, n, e)
  BY <1>2, <1>3 DEF Alike, Blocks
<1> DEFINE options(x) == UNION {{[free |-> FreeCount(slots, busy, n, x), node |-> n, start |-> s] :
                                   s \in Blocks(slots, busy, n, x)} : n \in NodesFor(slots, x)}
<1>6. options(d) = options(e)
  BY <1>1, <1>4, <1>5
<1> QED
  BY <1>6 DEF PlaceFor

-----------------------------------------------------------------------------
(* Plans side by side                                                      *)

(* S is a part of the demands D with all that is placed before it, and f   *)
(* takes it to an alike part of the demands E.                             *)
Embeds(f, S, D, E) ==
  \A d \in S : /\ d \in D /\ Below(D, d) \subseteq S
               /\ f[d] \in E /\ Alike(d, f[d])
               /\ Below(E, f[d]) = {f[e] : e \in Below(D, d)}

(* Then both have the same places.                                         *)
LEMMA PlansAgree ==
  ASSUME NEW D, NEW E, NEW slots, NEW foreign, NEW at, NEW bt, NEW S, NEW f,
         IsFiniteSet(D), Distinct(D), Embeds(f, S, D, E),
         IsPlan(at, D, slots, foreign), IsPlan(bt, E, slots, foreign)
  PROVE  \A d \in S : at[d.id] = bt[f[d].id]
<1> DEFINE G == {d \in S : at[d.id] = bt[f[d].id]}
<1>1. ASSUME NEW d \in S, \A e \in S : Before(e, d) => e \in G PROVE d \in G
  <2>0. /\ d \in D /\ Below(D, d) \subseteq S /\ f[d] \in E /\ Alike(d, f[d])
        /\ Below(E, f[d]) = {f[e] : e \in Below(D, d)}
    BY DEF Embeds
  <2>1. \A e \in Below(D, d) : /\ e \in S /\ at[e.id] = bt[f[e].id]
                               /\ Share(at[e.id], e) = Share(bt[f[e].id], f[e])
    <3> SUFFICES ASSUME NEW e \in Below(D, d)
                 PROVE  /\ e \in S /\ at[e.id] = bt[f[e].id]
                        /\ Share(at[e.id], e) = Share(bt[f[e].id], f[e])
      OBVIOUS
    <3>1. e \in S /\ at[e.id] = bt[f[e].id]
      BY <1>1, <2>0 DEF Below
    <3>2. e.gpus = f[e].gpus /\ e.begin = f[e].begin /\ e.end = f[e].end
      BY <3>1 DEF Alike, Embeds
    <3> QED
      BY <3>1, <3>2 DEF Share, Held
  <2>2. Taken(at, Below(D, d)) = Taken(bt, Below(E, f[d]))
    <3> DEFINE B == Below(D, d)
    <3>1. Below(E, f[d]) = {f[e] : e \in B}
      BY <2>0
    <3> HIDE DEF B
    <3>2. Taken(at, B) = UNION {Share(at[e.id], e) : e \in {b \in B : at[b.id] # NoPlace}}
      BY DEF Taken
    <3>3. {Share(at[e.id], e) : e \in {b \in B : at[b.id] # NoPlace}} =
            {Share(bt[g.id], g) : g \in {h \in {f[e] : e \in B} : bt[h.id] # NoPlace}}
      BY <2>1 DEF B
    <3>4. Taken(bt, {f[e] : e \in B}) =
            UNION {Share(bt[g.id], g) : g \in {h \in {f[e] : e \in B} : bt[h.id] # NoPlace}}
      BY DEF Taken
    <3>5. Taken(at, B) = Taken(bt, Below(E, f[d]))
      BY <3>1, <3>2, <3>3, <3>4
    <3> QED
      BY <3>5 DEF B
  <2>3. at[d.id] = PlaceFor(slots, ForeignBusy(slots, foreign) \cup Taken(at, Below(D, d)), d)
    BY <2>0 DEF IsPlan
  <2>4. bt[f[d].id] =
          PlaceFor(slots, ForeignBusy(slots, foreign) \cup Taken(bt, Below(E, f[d])), f[d])
    BY <2>0 DEF IsPlan
  <2>5. at[d.id] = bt[f[d].id]
    BY <2>0, <2>2, <2>3, <2>4, PlaceOfAlike
  <2> QED
    BY <2>5
<1>2. G = S
  <2>1. IsFiniteSet(S) /\ Distinct(S) /\ G \in SUBSET S
    BY FS_Subset DEF Distinct, Embeds
  <2> HIDE DEF G
  <2> QED
    BY <1>1, <2>1, OneAfterTheOther
<1> QED
  BY <1>2

-----------------------------------------------------------------------------
(* What a plan promises                                                    *)

(* The GPUs that a plan gives to a demand.                                 *)
GpusOf(at, d) == {<<at[d.id].node, i>> : i \in at[d.id].start .. at[d.id].start + d.gpus - 1}

LEMMA GapType == \A c : Gap(c) \in Nat
  BY ClassesAssumption, DefaultsAssumption DEF Gap

(* A plan gives no GPU to two demands unless the guard gap of the later one*)
(* lies between them: for any set of demands on any GPUs, whatever else    *)
(* has a place there. (placement.compute_placements)                       *)
THEOREM NoGpuIsGivenTwice ==
  ASSUME NEW D, IsFiniteSet(D), Distinct(D), NEW slots, Numbered(slots), NEW foreign,
         NEW at, at = ComputePlacements(D, slots, foreign),
         NEW d \in D, NEW e \in D, at[d.id] # NoPlace, at[e.id] # NoPlace,
         Before(d, e), e.begin < e.end, GpusOf(at, d) \cap GpusOf(at, e) # {}
  PROVE  d.end + Gap(e.class) <= e.begin
<1>0. IsPlan(at, D, slots, foreign)
  BY ComputesAPlan
<1> DEFINE busy == ForeignBusy(slots, foreign) \cup Taken(at, Below(D, e))
           place == at[e.id]
<1>1. place.node \in NodesFor(slots, e) /\ place.start \in Blocks(slots, busy, place.node, e)
  BY <1>0, PlaceIsFree DEF IsPlan
<1>2. PICK i : i \in at[d.id].start .. at[d.id].start + d.gpus - 1
                /\ at[d.id].node = place.node
                /\ i \in place.start .. place.start + e.gpus - 1
  BY DEF GpusOf
<1>3. [node |-> at[d.id].node, index |-> i, begin |-> d.begin, end |-> d.end] \in busy
  <2>1. d \in {f \in Below(D, e) : at[f.id] # NoPlace}
    BY DEF Below
  <2>2. [node |-> at[d.id].node, index |-> i, begin |-> d.begin, end |-> d.end] \in Share(at[d.id], d)
    BY <1>2 DEF Share, Held
  <2> QED
    BY <2>1, <2>2 DEF Taken
<1>4. IsFree(busy, place.node, i, e)
  BY <1>1, <1>2 DEF Blocks
<1>5. ~Overlaps(e, [node |-> at[d.id].node, index |-> i, begin |-> d.begin, end |-> d.end], Gap(e.class))
  BY <1>2, <1>3, <1>4 DEF IsFree
<1>6. e.end + Gap(e.class) <= d.begin \/ d.end + Gap(e.class) <= e.begin
  BY <1>5 DEF Overlaps
<1>7. d.begin <= e.begin
  BY DEF Before, Distinct
<1> QED
  BY <1>6, <1>7, GapType DEF Distinct

(* When foreign jobs hold their GPUs is known.                             *)
Timed(foreign) == \A job \in foreign : {job.begin, job.end} \subseteq Int \cup {Unknown}

LEMMA ForeignTimes ==
  ASSUME NEW slots, NEW foreign, Timed(foreign)
  PROVE  \A b \in ForeignBusy(slots, foreign) : b.begin \in Int /\ b.end \in Int
<1> SUFFICES ASSUME NEW b \in ForeignBusy(slots, foreign) PROVE b.begin \in Int /\ b.end \in Int
  OBVIOUS
<1>1. PICK job \in foreign : /\ ~(job.begin = Unknown /\ job.end = Unknown)
                             /\ \E n, I : b \in Held(n, I, ForeignSpan(job))
  <2> DEFINE jobs == {j \in foreign : j.gpus > 0 /\ ~(j.begin = Unknown /\ j.end = Unknown)}
             gpus(n, job) == IF job.indices # {} THEN DOMAIN slots[n] \cap job.indices
                             ELSE {i \in DOMAIN slots[n] : i < job.gpus}
             held(job) == UNION {Held(n, gpus(n, job), ForeignSpan(job)) : n \in job.nodes \cap DOMAIN slots}
  <2>1. ForeignBusy(slots, foreign) = UNION {held(job) : job \in jobs}
    BY DEF ForeignBusy
  <2>2. PICK job \in jobs : b \in held(job)
    <3> HIDE DEF held, jobs
    <3> QED
      BY <2>1
  <2>3. PICK n : b \in Held(n, gpus(n, job), ForeignSpan(job))
    <3> HIDE DEF gpus
    <3> QED
      BY <2>2
  <2> HIDE DEF gpus
  <2> QED
    BY <2>2, <2>3
<1>2. b.begin = ForeignSpan(job).begin /\ b.end = ForeignSpan(job).end
  BY <1>1 DEF Held
<1> QED
  BY <1>1, <1>2, DefaultsAssumption DEF ForeignSpan, Timed

(* A demand with a place is on GPUs that exist and are of its class, on the*)
(* node it is pinned to or one of those it may be on, and on none that a   *)
(* foreign job holds at the time. (placement.compute_placements)           *)
THEOREM PlacesSuit ==
  ASSUME NEW D, IsFiniteSet(D), Distinct(D), NEW slots, Numbered(slots), NEW foreign, Timed(foreign),
         NEW at, at = ComputePlacements(D, slots, foreign), NEW d \in D, at[d.id] # NoPlace
  PROVE  /\ \A g \in GpusOf(at, d) :
              /\ g[1] \in DOMAIN slots /\ g[2] \in DOMAIN slots[g[1]]
              /\ d.class # NoClass => slots[g[1]][g[2]] = d.class
         /\ \A b \in ForeignBusy(slots, foreign) :
              <<b.node, b.index>> \in GpusOf(at, d) => b.end <= d.begin \/ d.end <= b.begin
         /\ d.pin = NoNode /\ d.nodes # {} => at[d.id].node \in d.nodes
         /\ d.pin # NoNode => at[d.id].node = d.pin
<1>0. IsPlan(at, D, slots, foreign)
  BY ComputesAPlan
<1> DEFINE busy == ForeignBusy(slots, foreign) \cup Taken(at, Below(D, d))
           place == at[d.id]
<1>1. place.node \in NodesFor(slots, d) /\ place.start \in Blocks(slots, busy, place.node, d)
  BY <1>0, PlaceIsFree DEF IsPlan
<1>2. ASSUME NEW g \in GpusOf(at, d)
      PROVE  /\ g = <<place.node, g[2]>>
             /\ g[2] \in Matching(slots, place.node, d) /\ IsFree(busy, place.node, g[2], d)
  <2>1. PICK i \in place.start .. place.start + d.gpus - 1 : g = <<place.node, i>>
    BY DEF GpusOf
  <2>2. i \in Matching(slots, place.node, d) /\ IsFree(busy, place.node, i, d)
    BY <1>1 DEF Blocks
  <2> QED
    BY <2>1, <2>2
<1>3. ASSUME NEW g \in GpusOf(at, d)
      PROVE  /\ g[1] \in DOMAIN slots /\ g[2] \in DOMAIN slots[g[1]]
             /\ d.class # NoClass => slots[g[1]][g[2]] = d.class
  <2>1. place.node \in DOMAIN slots
    BY <1>1 DEF NodesFor
  <2>2. g[1] = place.node /\ g[2] \in Matching(slots, place.node, d)
    BY <1>2
  <2> QED
    BY <2>1, <2>2 DEF Matching
<1>4. ASSUME NEW b \in ForeignBusy(slots, foreign), <<b.node, b.index>> \in GpusOf(at, d)
      PROVE  b.end <= d.begin \/ d.end <= b.begin
  <2>1. b.node = place.node /\ IsFree(busy, place.node, b.index, d)
    BY <1>2, <1>4
  <2>2. ~Overlaps(d, b, Gap(d.class))
    BY <2>1 DEF IsFree
  <2>3. b.begin \in Int /\ b.end \in Int /\ d.begin \in Int /\ d.end \in Int
    BY ForeignTimes DEF Distinct
  <2> QED
    BY <2>2, <2>3, GapType DEF Overlaps
<1>5. /\ d.pin = NoNode /\ d.nodes # {} => place.node \in d.nodes
      /\ d.pin # NoNode => place.node = d.pin
  BY <1>1 DEF NodesFor
<1> QED
  BY <1>3, <1>4, <1>5

-----------------------------------------------------------------------------
(* What a change of the demands leaves alone                               *)

(* Whatever demands come, go or change, those that begin before all of them*)
(* keep their places: nobody is moved by a later booking.                  *)
(* (the order of compute_placements)                                       *)
THEOREM EarlierDemandsStay ==
  ASSUME NEW D, IsFiniteSet(D), Distinct(D), NEW E, IsFiniteSet(E), Distinct(E),
         NEW slots, NEW foreign, NEW x \in D \cap E,
         \A c \in (D \cup E) \ (D \cap E) : x.begin < c.begin
  PROVE  ComputePlacements(D, slots, foreign)[x.id] = ComputePlacements(E, slots, foreign)[x.id]
<1> DEFINE changed == (D \cup E) \ (D \cap E)
           S == {d \in D \cap E : \A c \in changed : d.begin < c.begin}
           f == [d \in S |-> d]
           at == ComputePlacements(D, slots, foreign)
           bt == ComputePlacements(E, slots, foreign)
<1>1. \A d \in D \cup E : d.begin \in Int
  BY DEF Distinct
<1>2. ASSUME NEW d \in S, NEW e \in D \cup E, Before(e, d) PROVE e \in S
  <2>1. e.begin <= d.begin
    BY <1>1, <1>2 DEF Before
  <2>2. \A c \in changed : e.begin < c.begin
    BY <1>1, <2>1
  <2>3. e \notin changed
    BY <1>1, <2>2
  <2> QED
    BY <2>2, <2>3
<1>3. ASSUME NEW d \in S
      PROVE  /\ Below(D, d) \subseteq S
             /\ f[d] \in E /\ Alike(d, f[d])
             /\ Below(E, f[d]) = {f[e] : e \in Below(D, d)}
  <2>1. f[d] = d /\ d \in E
    OBVIOUS
  <2>2. Below(D, d) = {e \in S : Before(e, d)} /\ Below(E, d) = {e \in S : Before(e, d)}
    BY <1>2 DEF Below
  <2>3. {f[e] : e \in {g \in S : Before(g, d)}} = {e \in S : Before(e, d)}
    OBVIOUS
  <2> HIDE DEF S, f
  <2> QED
    BY <2>1, <2>2, <2>3 DEF Alike
<1>4. \A d \in S : at[d.id] = bt[f[d].id]
  <2>1. IsPlan(at, D, slots, foreign) /\ IsPlan(bt, E, slots, foreign)
    BY ComputesAPlan
  <2>2. Embeds(f, S, D, E)
    <3>1. \A d \in S : d \in D
      OBVIOUS
    <3> HIDE DEF S, f
    <3> QED
      BY <1>3, <3>1 DEF Embeds
  <2> HIDE DEF S, f, at, bt, changed
  <2> QED
    BY <2>1, <2>2, PlansAgree
<1>5. x \in S /\ f[x] = x
  OBVIOUS
<1> QED
  BY <1>4, <1>5

(* Two demands for the same get the same place beside the same others, if  *)
(* none of those has their window: identities decide nothing else.         *)
NoTies(D, m) == \A d \in D : ~Ties(d, m)
LEMMA EitherGetsThePlace ==
  ASSUME NEW D, NEW m, NEW p, NEW M, NEW P, NEW slots, NEW foreign,
         Alike(m, p), NoTies(D, m), M = D \cup {m}, P = D \cup {p},
         IsFiniteSet(M), Distinct(M), IsFiniteSet(P), Distinct(P)
  PROVE  ComputePlacements(M, slots, foreign)[m.id] = ComputePlacements(P, slots, foreign)[p.id]
<1> DEFINE S == Below(M, m) \cup {m}
           f == [x \in S |-> IF x = m THEN p ELSE x]
           at == ComputePlacements(M, slots, foreign)
           bt == ComputePlacements(P, slots, foreign)
<1>0. m \notin D /\ p \notin D
  BY DEF NoTies, Ties, Alike
<1>1. \A d \in M \cup P : d.begin \in Int /\ d.end \in Int /\ d.id \in Int
  BY DEF Distinct
<1>2. ASSUME NEW d \in D PROVE Before(d, m) <=> Before(d, p)
  BY <1>1 DEF Before, NoTies, Ties, Alike
<1>3. ASSUME NEW d \in M \cup P PROVE ~Before(d, d)
  BY <1>1 DEF Before
<1>4. Below(M, m) = Below(D, m) /\ Below(P, p) = Below(D, m)
  BY <1>2, <1>3 DEF Below
<1>5. ASSUME NEW d \in Below(D, m) PROVE Below(M, d) = Below(D, d) /\ Below(P, d) = Below(D, d)
  <2>1. d \in D /\ Before(d, m) /\ Before(d, p)
    BY <1>2 DEF Below
  <2>2. ~Before(m, d) /\ ~Before(p, d)
    BY <1>1, <2>1, BeforeIsStrict
  <2> QED
    BY <2>2 DEF Below
<1>6. ASSUME NEW d \in Below(D, m) PROVE Below(D, d) \subseteq Below(D, m)
  BY <1>1, BeforeIsTransitive DEF Below
<1>7. S = Below(D, m) \cup {m} /\ Below(D, m) \subseteq D
  BY <1>4 DEF Below
<1>8. f[m] = p /\ \A d \in Below(D, m) : f[d] = d
  BY <1>0, <1>7
<1>9. \A B \in SUBSET Below(D, m) : {f[e] : e \in B} = B
  <2> HIDE DEF f
  <2> QED
    BY <1>8
<1>10. ASSUME NEW d \in S
       PROVE  /\ Below(M, d) \subseteq S
              /\ f[d] \in P /\ Alike(d, f[d])
              /\ Below(P, f[d]) = {f[e] : e \in Below(M, d)}
  <2> HIDE DEF f, S
  <2>1. CASE d = m
    <3>1. f[d] = p /\ p \in P
      BY <1>8, <2>1
    <3>2. Below(M, d) = Below(D, m) /\ Below(P, p) = Below(D, m)
      BY <1>4, <2>1
    <3> QED
      BY <1>7, <1>9, <2>1, <3>1, <3>2
  <2>2. CASE d \in Below(D, m)
    <3>1. f[d] = d /\ d \in P
      BY <1>7, <1>8, <2>2
    <3>2. Below(M, d) = Below(D, d) /\ Below(P, d) = Below(D, d)
      BY <1>5, <2>2
    <3>3. Below(D, d) \subseteq Below(D, m)
      BY <1>6, <2>2
    <3> QED
      BY <1>7, <1>9, <3>1, <3>2, <3>3 DEF Alike
  <2> QED
    BY <1>7, <2>1, <2>2
<1>11. \A d \in S : at[d.id] = bt[f[d].id]
  <2>1. IsPlan(at, M, slots, foreign) /\ IsPlan(bt, P, slots, foreign)
    BY ComputesAPlan
  <2>2. Embeds(f, S, M, P)
    <3>1. \A d \in S : d \in M
      BY <1>7
    <3> HIDE DEF S, f
    <3> QED
      BY <1>10, <3>1 DEF Embeds
  <2> HIDE DEF S, f, at, bt
  <2> QED
    BY <2>1, <2>2, PlansAgree
<1> QED
  BY <1>8, <1>11

(* The search returns a start from which the demand has a place.           *)
LEMMA EarliestSlotFits ==
  ASSUME NEW d, d.begin \in Nat, NEW slots, NEW others, NEW foreign,
         \A o \in others : o.begin \in Nat /\ o.end \in Nat,
         NEW horizon \in Nat, NEW step \in Nat \ {0}, NEW slot,
         slot = FindEarliestSlot(d, slots, others, foreign, horizon, step), slot # Unknown
  PROVE  /\ slot \in Nat
         /\ ComputePlacements(others \cup {MovedTo(d, slot)}, slots, foreign)[d.id] # NoPlace
<1> DEFINE bounds == {o.begin : o \in others} \cup {o.end : o \in others}
           grid == {t \in d.begin .. horizon : (t - d.begin) % step = 0}
           fits(t) == ComputePlacements(others \cup {MovedTo(d, t)}, slots, foreign)[d.id] # NoPlace
           starts == {t \in {d.begin} \cup {b \in bounds : d.begin <= b} \cup grid :
                        MovedTo(d, t).end <= horizon /\ fits(t)}
<1>1. starts \in SUBSET Nat
  <2>1. bounds \subseteq Nat /\ grid \subseteq Nat
    OBVIOUS
  <2> HIDE DEF bounds, grid, fits
  <2> QED
    BY <2>1
<1>2. slot = IF starts = {} THEN Unknown ELSE Min(starts)
  BY DEF FindEarliestSlot
<1>3. slot \in starts
  <2> HIDE DEF starts
  <2> QED
    BY <1>1, <1>2, LeastNumber DEF Min
<1> QED
  BY <1>1, <1>3

=============================================================================
