------------------------- MODULE ToolExecutorProofs -------------------------
(***************************************************************************)
(* For every set of tools and every batch a model asks for: what the       *)
(* planner's loops make, that calls which execute together may, that what  *)
(* a call requires is answered first, that a stopped turn starts nothing,  *)
(* and that the turn's publication keeps what ToolPort promises.           *)
(***************************************************************************)
EXTENDS ToolExecutor, FiniteSetTheorems, WellFoundedInduction, TLAPS

(* Loops over the naturals *)

\* A set of numbers with a member has a least one.
LEMMA Least ==
  ASSUME NEW T \in SUBSET Nat, T # {}
  PROVE  \E n \in T : \A m \in T : n <= m
<1> DEFINE R == OpToRel(<, Nat)
<1>1. IsWellFoundedOn(R, Nat) BY NatLessThanWellFounded
<1>2. \A x, y \in Nat : x < y => <<x, y>> \in R BY DEF OpToRel
<1> HIDE DEF R
<1>3. PICK x \in T : \A y \in T : ~(<<y, x>> \in R) BY <1>1, WFMin
<1>4. x \in Nat OBVIOUS
<1>5. ASSUME NEW m \in T PROVE x <= m
  <2>1. m \in Nat /\ ~(<<m, x>> \in R) BY <1>3
  <2>2. ~(m < x) BY <1>2, <1>4, <2>1
  <2> QED BY <1>4, <2>1, <2>2
<1> QED BY <1>5

\* A set of numbers that has zero and every successor has them all.
LEMMA Induction ==
  ASSUME NEW T \in SUBSET Nat, 0 \in T, \A n \in Nat : n \in T => n + 1 \in T
  PROVE  T = Nat
<1> SUFFICES ASSUME Nat \ T # {} PROVE FALSE OBVIOUS
<1>1. PICK n \in Nat \ T : \A m \in Nat \ T : n <= m BY Least
<1>2. n - 1 \in Nat /\ n - 1 \notin T BY <1>1
<1> QED BY <1>1, <1>2

\* g runs the loop for n rounds.
Runs(S, init, step, n, g) ==
  /\ g \in [0 .. n -> S] /\ g[0] = init
  /\ \A k \in 1 .. n : g[k] = step[<<k, g[k - 1]>>]

\* Every number of rounds can be run.
LEMMA RunsExist ==
  ASSUME NEW S, NEW init \in S, NEW step \in [Nat \X S -> S], NEW n \in Nat
  PROVE  \E g : Runs(S, init, step, n, g)
<1> DEFINE Good == {k \in Nat : \E g : Runs(S, init, step, k, g)}
<1>1. 0 \in Good
  <2>1. Runs(S, init, step, 0, [k \in 0 .. 0 |-> init]) BY DEF Runs
  <2> QED BY <2>1
<1>2. ASSUME NEW k \in Nat, k \in Good PROVE k + 1 \in Good
  <2>1. PICK g : Runs(S, init, step, k, g) BY <1>2
  <2>2. g[k] \in S BY <2>1 DEF Runs
  <2> DEFINE h == [l \in 0 .. k + 1 |-> IF l = k + 1 THEN step[<<k + 1, g[k]>>] ELSE g[l]]
  <2>3. step[<<k + 1, g[k]>>] \in S BY <2>2
  <2>4. h \in [0 .. k + 1 -> S] BY <2>1, <2>3 DEF Runs
  <2>5. h[0] = init BY <2>1 DEF Runs
  <2>6. ASSUME NEW l \in 1 .. k + 1 PROVE h[l] = step[<<l, h[l - 1]>>]
    <3>1. l \in 0 .. k + 1 /\ l - 1 \in 0 .. k + 1 /\ l - 1 # k + 1 OBVIOUS
    <3>2. h[l - 1] = g[l - 1] BY <3>1
    <3>3. CASE l = k + 1
      <4>1. h[l] = step[<<k + 1, g[k]>>] BY <3>1, <3>3
      <4>2. l - 1 = k BY <3>3
      <4> QED BY <3>2, <3>3, <4>1, <4>2
    <3>4. CASE l # k + 1
      <4>1. h[l] = g[l] /\ l \in 1 .. k BY <3>1, <3>4
      <4> HIDE DEF h
      <4> QED BY <2>1, <3>2, <4>1 DEF Runs
    <3> QED BY <3>3, <3>4
  <2> HIDE DEF h
  <2>7. Runs(S, init, step, k + 1, h) BY <2>4, <2>5, <2>6 DEF Runs
  <2> QED BY <2>7
<1> HIDE DEF Good
<1>3. Good = Nat
  <2>1. Good \in SUBSET Nat BY DEF Good
  <2> QED BY <1>1, <1>2, <2>1, Induction
<1> QED BY <1>3 DEF Good

\* Fewer rounds of a run are a run.
LEMMA RunsRestrict ==
  ASSUME NEW S, NEW init, NEW step, NEW n \in Nat, NEW m \in 0 .. n, NEW g,
         Runs(S, init, step, n, g)
  PROVE  Runs(S, init, step, m, [k \in 0 .. m |-> g[k]])
<1>1. \A k \in 0 .. m : k \in 0 .. n OBVIOUS
<1>2. \A k \in 1 .. m : k \in 1 .. n /\ k \in 0 .. m /\ k - 1 \in 0 .. m OBVIOUS
<1>3. 0 \in 0 .. m OBVIOUS
<1> QED BY <1>1, <1>2, <1>3 DEF Runs

\* Two runs of the rounds end alike.
LEMMA RunsAgree ==
  ASSUME NEW S, NEW init, NEW step, NEW n \in Nat, NEW g, NEW h,
         Runs(S, init, step, n, g), Runs(S, init, step, n, h)
  PROVE  g[n] = h[n]
<1> DEFINE Agree == {k \in Nat : k <= n => g[k] = h[k]}
<1>1. 0 \in Agree BY DEF Runs
<1>2. ASSUME NEW k \in Nat, k \in Agree PROVE k + 1 \in Agree
  <2> SUFFICES ASSUME k + 1 <= n PROVE g[k + 1] = h[k + 1] OBVIOUS
  <2>1. k + 1 \in 1 .. n /\ (k + 1) - 1 = k /\ g[k] = h[k] BY <1>2
  <2>2. g[k + 1] = step[<<k + 1, g[(k + 1) - 1]>>] /\ h[k + 1] = step[<<k + 1, h[(k + 1) - 1]>>]
    BY <2>1 DEF Runs
  <2> QED BY <2>1, <2>2
<1> HIDE DEF Agree
<1>3. Agree = Nat
  <2>1. Agree \in SUBSET Nat BY DEF Agree
  <2> QED BY <1>1, <1>2, <2>1, Induction
<1> QED BY <1>3 DEF Agree

\* f is what the loop computes.
IsLoop(f, init, step) ==
  f = [n \in Nat |-> IF n = 0 THEN init ELSE step[<<n, f[n - 1]>>]]

\* A loop over the naturals computes a function.
LEMMA Loop ==
  ASSUME NEW S, NEW init \in S, NEW step \in [Nat \X S -> S]
  PROVE  \E f \in [Nat -> S] : IsLoop(f, init, step)
<1> DEFINE run == [n \in Nat |-> CHOOSE g : Runs(S, init, step, n, g)]
           f == [n \in Nat |-> run[n][n]]
<1>1. \A n \in Nat : Runs(S, init, step, n, run[n]) BY RunsExist
<1> HIDE DEF run
<1>2. \A n \in Nat : run[n][n] \in S BY <1>1 DEF Runs
<1>3. run[0][0] = init BY <1>1 DEF Runs
<1>4. ASSUME NEW n \in Nat \ {0} PROVE run[n][n] = step[<<n, run[n - 1][n - 1]>>]
  <2> DEFINE b == [k \in 0 .. n - 1 |-> run[n][k]]
  <2>1. n - 1 \in Nat /\ n - 1 \in 0 .. n - 1 /\ n - 1 \in 0 .. n /\ n \in 1 .. n OBVIOUS
  <2>2. Runs(S, init, step, n, run[n]) /\ Runs(S, init, step, n - 1, run[n - 1]) BY <1>1, <2>1
  <2>3. Runs(S, init, step, n - 1, b) BY <2>1, <2>2, RunsRestrict
  <2>4. b[n - 1] = run[n][n - 1] BY <2>1
  <2> HIDE DEF b
  <2>5. b[n - 1] = run[n - 1][n - 1] BY <2>1, <2>2, <2>3, RunsAgree
  <2>6. run[n][n] = step[<<n, run[n][n - 1]>>] BY <2>1, <2>2 DEF Runs
  <2> QED BY <2>4, <2>5, <2>6
<1>5. f \in [Nat -> S] BY <1>2
<1>6. \A n \in Nat : f[n] = IF n = 0 THEN init ELSE step[<<n, f[n - 1]>>]
  <2> SUFFICES ASSUME NEW n \in Nat PROVE f[n] = IF n = 0 THEN init ELSE step[<<n, f[n - 1]>>]
    OBVIOUS
  <2>1. CASE n = 0 BY <1>3, <2>1
  <2>2. CASE n # 0
    <3>1. n - 1 \in Nat /\ n \in Nat \ {0} BY <2>2
    <3> QED BY <1>4, <2>2, <3>1
  <2> QED BY <2>1, <2>2
<1> HIDE DEF f
<1>7. f = [n \in Nat |-> f[n]] BY <1>5
<1>8. IsLoop(f, init, step) BY <1>6, <1>7 DEF IsLoop
<1> QED BY <1>5, <1>8
-----------------------------------------------------------------------------
(* The plan *)

USE DeclAssumption, BoundAssumption

\* No two calls of the set conflict.
Orderly(ids) == \A i, j \in ids : i # j => ~FootprintsConflict(Of(i), Of(j))

\* A conflict has no direction.
LEMMA ConflictIsSymmetric ==
  ASSUME NEW d, NEW e, FootprintsConflict(d, e)
  PROVE  FootprintsConflict(e, d)
BY DEF FootprintsConflict, Opaque, Mutates

\* What the loop of one wave has taken after n calls.
TakenUpTo(scheduled, taken, n) ==
  /\ taken \subseteq 1 .. n /\ IsFiniteSet(taken) /\ Cardinality(taken) <= MaxWave
  /\ taken \cap scheduled = {}
  /\ \A i \in taken : PrerequisitesIn(i, scheduled)
  /\ Orderly(taken)

\* A wave is of so many calls, left over, ready, and without conflicts.
LEMMA WaveIsOrderly ==
  ASSUME Len(call) \in Nat, NEW scheduled
  PROVE  TakenUpTo(scheduled, WaveAfter(scheduled), Len(call))
<1> DEFINE Body(f, n) == IF Takes(f[n - 1], n, scheduled) THEN f[n - 1] \cup {n} ELSE f[n - 1]
           step == [p \in Nat \X SUBSET Nat |->
                      IF Takes(p[2], p[1], scheduled) THEN p[2] \cup {p[1]} ELSE p[2]]
           taken == CHOOSE f : f = [n \in Nat |-> IF n = 0 THEN {} ELSE Body(f, n)]
<1>1. PICK f \in [Nat -> SUBSET Nat] : IsLoop(f, {}, step)
  <2> DEFINE S == SUBSET Nat
  <2>1. {} \in S OBVIOUS
  <2>2. step \in [Nat \X S -> S]
    <3>1. \A p \in Nat \X S : p[1] \in Nat /\ p[2] \in S OBVIOUS
    <3>2. \A p \in Nat \X S :
            (IF Takes(p[2], p[1], scheduled) THEN p[2] \cup {p[1]} ELSE p[2]) \in S
      BY <3>1
    <3> QED BY <3>2
  <2> HIDE DEF step, S
  <2>3. \E f \in [Nat -> S] : IsLoop(f, {}, step) BY <2>1, <2>2, Loop
  <2> QED BY <2>3 DEF S
<1>2. f = [n \in Nat |-> IF n = 0 THEN {} ELSE Body(f, n)]
  <2>1. ASSUME NEW n \in Nat, n # 0 PROVE step[<<n, f[n - 1]>>] = Body(f, n)
    <3>1. f[n - 1] \in SUBSET Nat /\ <<n, f[n - 1]>> \in Nat \X SUBSET Nat BY <2>1
    <3> QED BY <3>1
  <2> HIDE DEF step, Body
  <2> QED BY <1>1, <2>1 DEF IsLoop
<1>3. taken = [n \in Nat |-> IF n = 0 THEN {} ELSE Body(taken, n)] BY <1>2
<1>4. WaveAfter(scheduled) = taken[Len(call)] BY DEF WaveAfter
<1> HIDE DEF taken
<1> DEFINE Right == {n \in Nat : TakenUpTo(scheduled, taken[n], n)}
<1>5. 0 \in Right
  <2>1. taken[0] = {} BY <1>3
  <2>2. IsFiniteSet({}) /\ Cardinality({}) = 0 BY FS_EmptySet
  <2>3. TakenUpTo(scheduled, {}, 0) BY <2>2 DEF TakenUpTo, Orderly
  <2> QED BY <2>1, <2>3
<1>6. ASSUME NEW n \in Nat, n \in Right PROVE n + 1 \in Right
  <2>1. taken[n + 1] = Body(taken, n + 1)
    <3>1. n + 1 \in Nat /\ n + 1 # 0 OBVIOUS
    <3> HIDE DEF Body
    <3> QED BY <1>3, <3>1
  <2>2. (n + 1) - 1 = n /\ TakenUpTo(scheduled, taken[n], n) BY <1>6
  <2>3. CASE Takes(taken[n], n + 1, scheduled)
    <3>1. taken[n + 1] = taken[n] \cup {n + 1} BY <2>1, <2>2, <2>3
    <3>2. Orderly(taken[n + 1])
      BY <2>2, <2>3, <3>1, ConflictIsSymmetric DEF TakenUpTo, Takes, Orderly
    <3>3. IsFiniteSet(taken[n + 1]) /\ Cardinality(taken[n + 1]) <= MaxWave
      <4>1. n + 1 \notin taken[n] /\ IsFiniteSet(taken[n]) BY <2>2 DEF TakenUpTo
      <4>2. /\ IsFiniteSet(taken[n] \cup {n + 1})
            /\ Cardinality(taken[n] \cup {n + 1}) =
                 IF n + 1 \in taken[n] THEN Cardinality(taken[n]) ELSE Cardinality(taken[n]) + 1
        BY <4>1, FS_AddElement, Zenon
      <4>3. Cardinality(taken[n]) \in Nat BY <4>1, FS_CardinalityType
      <4>4. Cardinality(taken[n]) < MaxWave BY <2>3 DEF Takes
      <4> QED BY <3>1, <4>1, <4>2, <4>3, <4>4
    <3>4. TakenUpTo(scheduled, taken[n + 1], n + 1)
      BY <2>2, <2>3, <3>1, <3>2, <3>3 DEF TakenUpTo, Takes
    <3> QED BY <3>4
  <2>4. CASE ~Takes(taken[n], n + 1, scheduled)
    <3>1. taken[n + 1] = taken[n] BY <2>1, <2>2, <2>4
    <3> QED BY <2>2, <3>1 DEF TakenUpTo
  <2> QED BY <2>3, <2>4
<1>7. Right = Nat
  <2>1. Right \in SUBSET Nat OBVIOUS
  <2> HIDE DEF Right
  <2> QED BY <1>5, <1>6, <2>1, Induction
<1> QED BY <1>4, <1>7

\* What a plan promises of each wave: it has a call, and no more than may run; its
\* calls conflict with none of the wave, are neither unresolved nor in a wave before,
\* and require only what is.
Before(p, k) == p.stuck \cup UNION {p.waves[l] : l \in 1 .. k - 1}

GoodPlan(p) ==
  /\ p \in [waves : Seq(SUBSET Asked), stuck : SUBSET Asked]
  /\ \A k \in 1 .. Len(p.waves) :
       /\ p.waves[k] # {} /\ Cardinality(p.waves[k]) <= MaxWave
       /\ Orderly(p.waves[k])
       /\ p.waves[k] \cap Before(p, k) = {}
       /\ \A i \in p.waves[k] : PrerequisitesIn(i, Before(p, k))

\* One round keeps that, and schedules a call while one is left.
LEMMA RoundIsGood ==
  ASSUME Len(call) \in Nat, NEW p, GoodPlan(p)
  PROVE  /\ GoodPlan(Round(p))
         /\ Scheduled(p) \subseteq Scheduled(Round(p)) /\ Scheduled(Round(p)) \subseteq Asked
         /\ Scheduled(p) # Asked => Scheduled(Round(p)) # Scheduled(p)
<1> DEFINE left == Asked \ Scheduled(p)
           next == WaveAfter(Scheduled(p))
<1>1. TakenUpTo(Scheduled(p), next, Len(call)) BY WaveIsOrderly
<1>2. p.waves \in Seq(SUBSET Asked) /\ p.stuck \in SUBSET Asked /\ DOMAIN p.waves = 1 .. Len(p.waves)
      /\ Len(p.waves) \in Nat
  BY DEF GoodPlan
<1>3. Scheduled(p) \subseteq Asked BY <1>2 DEF Scheduled
<1>4. next \subseteq left BY <1>1 DEF TakenUpTo, Asked
<1> HIDE DEF next
<1>5. CASE left = {}
  <2>1. Round(p) = p BY <1>5 DEF Round
  <2> QED BY <1>3, <1>5, <2>1
<1>6. CASE left # {} /\ next = {}
  <2> DEFINE first == CHOOSE i \in left : \A j \in left : i <= j
             q == [waves |-> p.waves, stuck |-> p.stuck \cup {first}]
  <2>1. Round(p) = q BY <1>6 DEF Round, next
  <2>2. first \in left
    <3>1. left \in SUBSET Nat BY DEF Asked
    <3> QED BY <1>6, <3>1, Least
  <2> HIDE DEF first
  <2>4. q.waves = p.waves /\ q.stuck = p.stuck \cup {first} OBVIOUS
  <2>5. q \in [waves : Seq(SUBSET Asked), stuck : SUBSET Asked] BY <1>2, <2>2
  <2> HIDE DEF q
  <2>6. ASSUME NEW k \in 1 .. Len(q.waves)
        PROVE  /\ q.waves[k] # {} /\ Cardinality(q.waves[k]) <= MaxWave
               /\ Orderly(q.waves[k]) /\ q.waves[k] \cap Before(q, k) = {}
               /\ \A i \in q.waves[k] : PrerequisitesIn(i, Before(q, k))
    <3>1. Before(q, k) = Before(p, k) \cup {first} BY <2>4 DEF Before
    <3>2. /\ p.waves[k] # {} /\ Cardinality(p.waves[k]) <= MaxWave
          /\ Orderly(p.waves[k]) /\ p.waves[k] \cap Before(p, k) = {}
          /\ \A i \in p.waves[k] : PrerequisitesIn(i, Before(p, k))
      BY <2>4 DEF GoodPlan
    <3>3. first \notin p.waves[k] BY <1>2, <2>2, <2>4 DEF Scheduled
    <3> QED BY <2>4, <3>1, <3>2, <3>3 DEF PrerequisitesIn
  <2>7. Scheduled(q) = Scheduled(p) \cup {first} BY <2>4 DEF Scheduled
  <2> QED BY <1>3, <2>1, <2>2, <2>5, <2>6, <2>7 DEF GoodPlan
<1>7. CASE left # {} /\ next # {}
  <2> DEFINE q == [waves |-> Append(p.waves, next), stuck |-> p.stuck]
             n == Len(p.waves) + 1
  <2>1. Round(p) = q BY <1>7 DEF Round, next
  <2>2. q = [waves |-> q.waves, stuck |-> q.stuck] OBVIOUS
  <2>3. q.waves = Append(p.waves, next) /\ q.stuck = p.stuck OBVIOUS
  <2> HIDE DEF q
  <2>4. next \in SUBSET Asked BY <1>4
  <2>5. /\ q.waves \in Seq(SUBSET Asked) /\ Len(q.waves) = n /\ q.waves[n] = next
        /\ \A k \in 1 .. Len(p.waves) : q.waves[k] = p.waves[k]
    BY <1>2, <2>3, <2>4
  <2>6. q \in [waves : Seq(SUBSET Asked), stuck : SUBSET Asked] BY <1>2, <2>2, <2>3, <2>5
  <2>7. Before(q, n) = Scheduled(p)
    <3>1. n - 1 = Len(p.waves) BY <1>2
    <3>2. {q.waves[l] : l \in 1 .. n - 1} = {p.waves[k] : k \in DOMAIN p.waves} BY <1>2, <2>5, <3>1
    <3> QED BY <2>3, <3>2 DEF Before, Scheduled
  <2>8. ASSUME NEW k \in 1 .. Len(q.waves)
        PROVE  /\ q.waves[k] # {} /\ Cardinality(q.waves[k]) <= MaxWave
               /\ Orderly(q.waves[k]) /\ q.waves[k] \cap Before(q, k) = {}
               /\ \A i \in q.waves[k] : PrerequisitesIn(i, Before(q, k))
    <3>1. CASE k = n
      <4>1. /\ Cardinality(next) <= MaxWave
            /\ Orderly(next) /\ next \cap Scheduled(p) = {}
            /\ \A i \in next : PrerequisitesIn(i, Scheduled(p))
        BY <1>1 DEF TakenUpTo
      <4> QED BY <1>7, <2>5, <2>7, <3>1, <4>1
    <3>2. CASE k # n
      <4>1. k \in 1 .. Len(p.waves) /\ \A l \in 1 .. k - 1 : l \in 1 .. Len(p.waves)
        BY <1>2, <2>5, <3>2
      <4>2. {q.waves[l] : l \in 1 .. k - 1} = {p.waves[l] : l \in 1 .. k - 1} BY <2>5, <4>1
      <4>3. Before(q, k) = Before(p, k) BY <2>3, <4>2 DEF Before
      <4> QED BY <2>3, <2>5, <4>1, <4>3 DEF GoodPlan
    <3> QED BY <3>1, <3>2
  <2>9. Scheduled(q) = Scheduled(p) \cup next
    <3>1. n \in 1 .. n /\ DOMAIN q.waves = 1 .. n /\ \A k \in 1 .. Len(p.waves) : k \in 1 .. n
      BY <1>2, <2>5
    <3>2. \A k \in 1 .. n : k = n \/ k \in 1 .. Len(p.waves) BY <1>2
    <3> QED BY <1>2, <2>3, <2>5, <3>1, <3>2 DEF Scheduled
  <2> QED BY <1>3, <1>4, <1>7, <2>1, <2>6, <2>8, <2>9 DEF GoodPlan
<1> QED BY <1>5, <1>6, <1>7

\* What n rounds have made.
PlannedIn(n, p) ==
  /\ GoodPlan(p) /\ Scheduled(p) \subseteq Asked
  /\ Scheduled(p) = Asked \/ Cardinality(Scheduled(p)) >= n

\* planExecution leaves no call out and takes none twice, whatever the tools declare and
\* require of each other, in a circle too; no wave has a conflict or more than MaxWave
\* calls, and what a call of it requires comes before it.
THEOREM PlanIsGood ==
  ASSUME Len(call) \in Nat
  PROVE  GoodPlan(PlanExecution) /\ Scheduled(PlanExecution) = Asked
<1> DEFINE S == {p \in [waves : Seq(SUBSET Asked), stuck : SUBSET Asked] : GoodPlan(p)}
           step == [a \in Nat \X S |-> Round(a[2])]
           after == CHOOSE f : f = [n \in Nat |-> IF n = 0 THEN NoPlan ELSE Round(f[n - 1])]
<1>0. GoodPlan(NoPlan) BY DEF GoodPlan, NoPlan
<1>1. PICK f \in [Nat -> S] : IsLoop(f, NoPlan, step)
  <2>1. NoPlan \in S BY <1>0 DEF GoodPlan
  <2>2. step \in [Nat \X S -> S]
    <3>1. \A p \in S : Round(p) \in S BY RoundIsGood DEF GoodPlan
    <3>2. \A a \in Nat \X S : a[2] \in S OBVIOUS
    <3> HIDE DEF S
    <3> QED BY <3>1, <3>2
  <2> HIDE DEF step, S
  <2> QED BY <2>1, <2>2, Loop
<1>2. f = [n \in Nat |-> IF n = 0 THEN NoPlan ELSE Round(f[n - 1])]
  <2>1. ASSUME NEW n \in Nat, n # 0 PROVE step[<<n, f[n - 1]>>] = Round(f[n - 1])
    <3> HIDE DEF S
    <3>1. f[n - 1] \in S /\ <<n, f[n - 1]>> \in Nat \X S BY <2>1
    <3> QED BY <3>1
  <2> HIDE DEF step
  <2> QED BY <1>1, <2>1 DEF IsLoop
<1>3. after = [n \in Nat |-> IF n = 0 THEN NoPlan ELSE Round(after[n - 1])] BY <1>2
<1>4. PlanExecution = after[Len(call)] BY DEF PlanExecution
<1> HIDE DEF after
<1> DEFINE Right == {n \in Nat : PlannedIn(n, after[n])}
<1>5. IsFiniteSet(Asked) /\ Cardinality(Asked) = Len(call)
  <2>1. 1 \in Int /\ Len(call) \in Int OBVIOUS
  <2>2. IsFiniteSet(1 .. Len(call)) BY <2>1, FS_Interval
  <2>3. Cardinality(1 .. Len(call)) = IF 1 > Len(call) THEN 0 ELSE Len(call) - 1 + 1
    BY <2>1, FS_Interval, Zenon
  <2> QED BY <2>2, <2>3, SMTT(30) DEF Asked
<1>6. 0 \in Right
  <2>1. after[0] = NoPlan BY <1>3
  <2>2. Scheduled(NoPlan) = {} BY DEF Scheduled, NoPlan
  <2>3. Cardinality({}) = 0 BY FS_EmptySet
  <2>4. PlannedIn(0, after[0]) BY <1>0, <2>1, <2>2, <2>3 DEF PlannedIn
  <2> QED BY <2>4
<1>7. ASSUME NEW n \in Nat, n \in Right PROVE n + 1 \in Right
  <2> DEFINE p == after[n]
  <2>1. after[n + 1] = Round(p)
    <3>1. n + 1 \in Nat /\ n + 1 # 0 /\ (n + 1) - 1 = n OBVIOUS
    <3> QED BY <1>3, <3>1
  <2>2. PlannedIn(n, p) BY <1>7
  <2> HIDE DEF p
  <2>3. /\ GoodPlan(Round(p))
        /\ Scheduled(p) \subseteq Scheduled(Round(p)) /\ Scheduled(Round(p)) \subseteq Asked
        /\ Scheduled(p) # Asked => Scheduled(Round(p)) # Scheduled(p)
    BY <2>2, RoundIsGood DEF PlannedIn
  <2>4. CASE Scheduled(p) = Asked
    <3>1. PlannedIn(n + 1, after[n + 1]) BY <2>1, <2>3, <2>4 DEF PlannedIn
    <3> QED BY <3>1
  <2>5. CASE Scheduled(p) # Asked
    <3>1. IsFiniteSet(Scheduled(Round(p))) BY <1>5, <2>3, FS_Subset
    <3>2. /\ Cardinality(Scheduled(p)) <= Cardinality(Scheduled(Round(p)))
          /\ Cardinality(Scheduled(p)) # Cardinality(Scheduled(Round(p)))
      BY <2>3, <2>5, <3>1, FS_Subset
    <3>3. Cardinality(Scheduled(p)) \in Nat /\ Cardinality(Scheduled(Round(p))) \in Nat
      <4>1. IsFiniteSet(Scheduled(p)) BY <2>3, <3>1, FS_Subset
      <4> QED BY <3>1, <4>1, FS_CardinalityType
    <3>4. Cardinality(Scheduled(p)) >= n BY <2>2, <2>5 DEF PlannedIn
    <3>5. Cardinality(Scheduled(Round(p))) >= n + 1
      <4> DEFINE c == Cardinality(Scheduled(p))
                 d == Cardinality(Scheduled(Round(p)))
      <4>1. c \in Nat /\ d \in Nat /\ c <= d /\ c # d /\ c >= n BY <3>2, <3>3, <3>4
      <4> HIDE DEF c, d
      <4>2. d >= n + 1 BY <4>1
      <4> QED BY <4>2 DEF d
    <3>6. PlannedIn(n + 1, after[n + 1]) BY <2>1, <2>3, <3>5 DEF PlannedIn
    <3> QED BY <3>6
  <2> QED BY <2>4, <2>5
<1>8. Right = Nat
  <2>1. Right \in SUBSET Nat OBVIOUS
  <2> HIDE DEF Right
  <2> QED BY <1>6, <1>7, <2>1, Induction
<1>9. PlannedIn(Len(call), PlanExecution) BY <1>4, <1>8
<1>10. Scheduled(PlanExecution) = Asked
  <2>1. CASE Cardinality(Scheduled(PlanExecution)) >= Len(call)
    <3>1. /\ Scheduled(PlanExecution) \subseteq Asked
          /\ Cardinality(Scheduled(PlanExecution)) <= Cardinality(Asked)
          /\ IsFiniteSet(Scheduled(PlanExecution))
      BY <1>5, <1>9, FS_Subset DEF PlannedIn
    <3>2. Cardinality(Scheduled(PlanExecution)) \in Nat BY <3>1, FS_CardinalityType
    <3>3. Cardinality(Asked) = Cardinality(Scheduled(PlanExecution)) BY <1>5, <2>1, <3>1, <3>2
    <3> QED BY <1>5, <3>1, <3>3, FS_Subset
  <2> QED BY <1>9, <2>1 DEF PlannedIn
<1> QED BY <1>9, <1>10 DEF PlannedIn
-----------------------------------------------------------------------------
(* The invariant of the calls in execution *)

\* Two calls that may hold a slot together.
Compatible(i, j) ==
  \/ Of(i).batch = "read" /\ Of(j).batch = "read"
  \/ /\ Of(i).batch = "system" /\ Of(j).batch = "system"
     /\ Of(i).safe /\ Of(j).safe

\* TypeOK, but for the plan.
Types ==
  /\ call \in Seq(Tool) /\ Asked \subseteq Id /\ wave \in Nat
  /\ \E ask \in Asks : IsPrefix(call, ask)
  /\ phase \in {"open", "draining", "ended"}
  /\ status \in [Id -> {"absent", "queued", "starting", "executing", "cancelled",
                        "yielded"} \cup Finished]
  /\ at \in [Id -> AwaitsBeside \cup InExecution]
  /\ attempts \in [Id -> Nat] /\ approved \in [Id -> BOOLEAN]
  /\ begun \in [Id -> Nat] /\ results \in [Id -> Nat]
  /\ aborted \in BOOLEAN /\ discarded \in BOOLEAN

\* Nothing is tracked before the drain, and nothing is drained after a discard.
Phases ==
  /\ phase = "open" =>
       wave = 0 /\ \A i \in Id : at[i] = "none" /\ status[i] = "absent" /\ begun[i] = 0
  /\ discarded => phase = "ended"

\* What is awaited is not yet answered and holds a slot until the turn is
\* discarded, and every tracked call came with a wave.
Tracked ==
  \A i \in Id :
    /\ at[i] # "none" => /\ status[i] \notin {"absent", "yielded"}
                         /\ discarded \/ status[i] \in {"starting", "executing"}
    /\ status[i] # "absent" => \E k \in 1 .. wave : i \in plan.waves[k]

\* Whatever is awaited together may be.
Together ==
  \A i, j \in Id : i # j /\ at[i] # "none" /\ at[j] # "none" => Compatible(i, j)

IInv == Types /\ Phases /\ Tracked /\ Together
-----------------------------------------------------------------------------
(* Helpers *)

\* The identities of calls are numbers.
LEMMA IdsAreNumbers == Id \subseteq Nat
<1> SUFFICES ASSUME NEW i \in Id PROVE i \in Nat
  OBVIOUS
<1>1. PICK ask \in Asks : i \in DOMAIN ask BY DEF Id
<1>2. ask \in Seq(Tool) OBVIOUS
<1>3. DOMAIN ask = 1 .. Len(ask) BY <1>2
<1> QED BY <1>1, <1>3

\* Of two calls that were added, one was added first.
LEMMA OneIsEarlier ==
  ASSUME NEW w \in Nat, NEW i \in Id, NEW j \in Id, i # j,
         \E k \in 1 .. w : i \in plan.waves[k], \E k \in 1 .. w : j \in plan.waves[k]
  PROVE  j \in Earlier(w, i) \/ i \in Earlier(w, j)
<1>1. PICK k \in 1 .. w : i \in plan.waves[k] OBVIOUS
<1>2. PICK l \in 1 .. w : j \in plan.waves[l] OBVIOUS
<1>3. i \in Nat /\ j \in Nat BY IdsAreNumbers
<1>4. CASE k < l
  <2>1. k \in 1 .. l BY <1>4
  <2> QED BY <1>1, <1>2, <1>4, <2>1 DEF Earlier
<1>5. CASE l < k
  <2>1. l \in 1 .. k BY <1>5
  <2> QED BY <1>1, <1>2, <1>5, <2>1 DEF Earlier
<1>6. CASE k = l
  <2>1. k \in 1 .. k /\ (i < j \/ j < i) BY <1>3
  <2> QED BY <1>1, <1>2, <1>6, <2>1 DEF Earlier
<1> QED BY <1>4, <1>5, <1>6

\* A call that joins others is compatible with each of them.
LEMMA JoinsCompatible ==
  ASSUME NEW i \in Id, NEW busy, CanExecuteTool(i, busy), NEW j \in busy
  PROVE  Compatible(i, j) /\ Compatible(j, i)
BY DEF CanExecuteTool, Compatible

\* What one scan starts is compatible with what holds a slot and with itself.
LEMMA ScanIsCompatible ==
  ASSUME NEW w \in Nat, NEW queued \in SUBSET Id, NEW starts \in SUBSET queued,
         ScanStarts(w, queued, starts), ~Stopped,
         \A i \in queued : \E k \in 1 .. w : i \in plan.waves[k],
         NEW i \in starts, NEW j \in Busy \cup starts, i # j
  PROVE  Compatible(i, j) /\ Compatible(j, i)
<1>1. \A p \in starts : CanExecuteTool(p, Busy \cup (Earlier(w, p) \cap starts))
  BY DEF ScanStarts
<1>2. CASE j \in Busy
  <2>1. i \in Id /\ CanExecuteTool(i, Busy \cup (Earlier(w, i) \cap starts)) BY <1>1
  <2>2. j \in Busy \cup (Earlier(w, i) \cap starts) BY <1>2
  <2> QED BY <2>1, <2>2, JoinsCompatible
<1>3. CASE j \in starts
  <2>1. j \in Earlier(w, i) \/ i \in Earlier(w, j) BY <1>3, OneIsEarlier
  <2>2. CASE j \in Earlier(w, i) BY <1>1, <1>3, <2>2, JoinsCompatible
  <2>3. CASE i \in Earlier(w, j)
    <3>1. i \in Busy \cup (Earlier(w, j) \cap starts) BY <2>3
    <3> QED BY <1>1, <1>3, <3>1, JoinsCompatible
  <2> QED BY <2>1, <2>2, <2>3
<1> QED BY <1>2, <1>3

\* A scan, of the calls of w waves, keeps what is awaited compatible.
LEMMA ScanKeepsTogether ==
  ASSUME IInv, ~Stopped, NEW w \in Nat, NEW queued \in SUBSET Id, NEW starts \in SUBSET queued,
         ScanStarts(w, queued, starts),
         \A i \in queued : \E k \in 1 .. w : i \in plan.waves[k],
         at' = AwaitsOfStarted(starts), UNCHANGED <<call, discarded>>
  PROVE  Together'
<1> SUFFICES ASSUME NEW i \in Id, NEW j \in Id, i # j, at'[i] # "none", at'[j] # "none"
             PROVE  Compatible(i, j)
  BY DEF Together, Compatible, Of
<1>1. ~discarded BY DEF Stopped
<1>2. \A p \in Id : at'[p] # "none" => at[p] # "none" \/ p \in starts
  BY DEF AwaitsOfStarted
<1>3. \A p \in Id : at[p] # "none" => p \in Busy BY <1>1 DEF IInv, Tracked, Busy
<1>4. i \in Busy \cup starts /\ j \in Busy \cup starts BY <1>2, <1>3
<1>5. CASE i \in starts \/ j \in starts BY <1>4, <1>5, ScanIsCompatible
<1>6. CASE i \notin starts /\ j \notin starts BY <1>2, <1>6 DEF IInv, Together
<1> QED BY <1>5, <1>6
-----------------------------------------------------------------------------
(* Actions *)

\* The call holds a slot.
Holds(i) == status[i] \in {"starting", "executing"}

\* What the steps of one call, once it is awaited, leave of the others.
CallStep ==
  /\ UNCHANGED <<turn, results, stops>>
  /\ Types'
  /\ \A p \in Id :
       /\ at'[p] # "none" \/ begun'[p] # begun[p] => at[p] # "none"
       /\ status'[p] = "yielded" <=> status[p] = "yielded"
       /\ status'[p] = status[p] \/ (status[p] # "absent" /\ status'[p] # "absent")
       /\ at'[p] # "none" /\ ~discarded => status'[p] \in {"starting", "executing"}
       /\ (Holds(p) => at[p] # "none") => (Holds(p)' => at'[p] # "none")
       /\ status'[p] = "cancelled" => status[p] = "cancelled"
  /\ aborted \/ discarded =>
       \A p \in Id : begun'[p] > begun[p] \/ at'[p] \in Committed => at[p] \in Committed

\* A step of that shape keeps the invariant.
LEMMA CallStepKeeps ==
  ASSUME IInv, CallStep
  PROVE  IInv'
<1>1. Types' BY DEF CallStep
<1>2. Phases'
  BY DEF IInv, Phases, CallStep, turn, stops, Types
<1>3. Tracked' BY DEF IInv, Tracked, CallStep, turn, stops
<1>4. Together' BY DEF IInv, Together, Compatible, Of, CallStep, turn, stops
<1> QED BY <1>1, <1>2, <1>3, <1>4 DEF IInv

\* The permission check answers.
LEMMA CheckAnswersSteps ==
  ASSUME IInv, NEW i \in Id, CheckAnswers(i)
  PROVE  CallStep
<1> USE DEF IInv, Types, Tracked, Phases, CallStep, Holds, Finalize, Begin, EntersRetry, Finished, InExecution,
            turn, stops, Asked, Stopped, AwaitsBeside, Committed
<1>1. CASE Refused(i) BY <1>1 DEF Refused
<1>2. CASE Allowed(i) BY <1>2 DEF Allowed
<1>3. CASE AskUser(i) BY <1>3 DEF AskUser
<1>4. CASE CheckThrows(i) BY <1>4 DEF CheckThrows
<1>5. CASE Interrupted(i) BY <1>5 DEF Interrupted
<1>6. CASE CheckAnswered(i) BY <1>6 DEF CheckAnswered
<1> QED BY <1>1, <1>2, <1>3, <1>4, <1>5, <1>6 DEF CheckAnswers

\* The user answers.
LEMMA UserAnswersSteps ==
  ASSUME IInv, NEW i \in Id, UserAnswers(i)
  PROVE  CallStep
<1> USE DEF IInv, Types, Tracked, Phases, CallStep, Holds, Finalize, Begin, Finished, InExecution,
            turn, stops, Asked, Stopped, AwaitsBeside, Committed
<1>1. CASE PromptDenied(i) BY <1>1 DEF PromptDenied
<1>2. CASE PromptAllowed(i) BY <1>2 DEF PromptAllowed
<1> QED BY <1>1, <1>2 DEF UserAnswers

\* An execution answers, throws, runs out of time or is tried again.
LEMMA ToolAnswersSteps ==
  ASSUME IInv, NEW i \in Id, ToolAnswers(i)
  PROVE  CallStep
<1> USE DEF IInv, Types, Tracked, Phases, CallStep, Holds, Finalize, Begin, EntersRetry, Finished, InExecution,
            turn, stops, Asked, Stopped, AwaitsBeside, Committed
<1>1. CASE Returns(i) BY <1>1, SMTT(30) DEF Returns
<1>2. CASE NeedsPermission(i)
  <2>1. /\ at[i] = "answered"
        /\ UNCHANGED <<turn, status, attempts, approved, results, stops>>
        /\ Begin(i, "again") \/ (at' = [at EXCEPT ![i] = "approving"] /\ UNCHANGED begun)
    BY <1>2 DEF NeedsPermission
  <2>2. CASE Begin(i, "again") BY <2>1, <2>2
  <2>3. CASE at' = [at EXCEPT ![i] = "approving"] /\ UNCHANGED begun BY <2>1, <2>3
  <2> QED BY <2>1, <2>2, <2>3
<1>3. CASE Throws(i) BY <1>3 DEF Throws
<1>4. CASE TimesOut(i) BY <1>4 DEF TimesOut
<1>5. CASE RetriesAgain(i)
  <2>1. /\ at[i] = "retrying" /\ begun' = [begun EXCEPT ![i] = @ + 1]
        /\ attempts' = [attempts EXCEPT ![i] = @ + 1]
        /\ UNCHANGED <<turn, status, at, approved, results, stops>>
    BY <1>5 DEF RetriesAgain
  <2> QED BY <2>1
<1>6. CASE Interrupted(i) BY <1>6 DEF Interrupted
<1>7. CASE ExecutionAnswered(i) BY <1>7 DEF ExecutionAnswered
<1> QED BY <1>1, <1>2, <1>3, <1>4, <1>5, <1>6, <1>7 DEF ToolAnswers

\* A call's name arrives, before anything is tracked.
LEMMA QueueToolKeeps ==
  ASSUME IInv, NEW name \in Tool, QueueTool(name)
  PROVE  IInv'
<1>1. call' = Append(call, name) /\ call \in Seq(Tool) /\ phase = "open"
      /\ UNCHANGED <<phase, plan, wave, tracked, begun, results, stops>>
  BY DEF QueueTool, IInv, Types
<1>2. PICK ask \in Asks : IsPrefix(call', ask) BY DEF QueueTool
<1>3. ask \in Seq(Tool) /\ Len(call') <= Len(ask) /\ Len(call') \in Nat
  BY <1>1, <1>2 DEF IsPrefix
<1>4. Asked' \subseteq Id
  <2>1. 1 .. Len(call') \subseteq 1 .. Len(ask) /\ DOMAIN ask = 1 .. Len(ask) BY <1>3
  <2> QED BY <2>1 DEF Asked, Id
<1>5. Types' BY <1>1, <1>2, <1>4 DEF IInv, Types, tracked, stops
<1>6. Phases' /\ Tracked' BY <1>1 DEF IInv, Phases, Tracked, tracked, stops
<1>7. Together' BY <1>1 DEF IInv, Phases, Together, tracked
<1> QED BY <1>5, <1>6, <1>7 DEF IInv

\* The drain begins, with whatever plan was made.
LEMMA DrainKeeps ==
  ASSUME IInv, Drain
  PROVE  IInv'
<1>1. Types' BY DEF Drain, IInv, Types, Asked, tracked, stops
<1>2. Phases' BY DEF Drain, IInv, Phases, tracked, stops
<1>3. Tracked' /\ Together' BY DEF Drain, IInv, Phases, Tracked, Together, tracked, stops
<1> QED BY <1>1, <1>2, <1>3 DEF IInv

\* The scan at the top of the drain's loop.
LEMMA ProcessQueueKeeps ==
  ASSUME IInv, ProcessQueue
  PROVE  IInv'
<1> DEFINE queued == {i \in Id : status[i] = "queued"}
<1>1. PICK starts \in SUBSET queued :
        /\ ScanStarts(wave, queued, starts)
        /\ status' = Started(status, starts) /\ at' = AwaitsOfStarted(starts)
  BY DEF ProcessQueue
<1>2. ~Stopped /\ UNCHANGED <<turn, attempts, approved, begun, results, stops>> BY DEF ProcessQueue
<1>3. \A i \in queued : \E k \in 1 .. wave : i \in plan.waves[k] BY DEF IInv, Tracked
<1>4. wave \in Nat BY DEF IInv, Types
<1>5. Together' BY <1>1, <1>2, <1>3, <1>4, ScanKeepsTogether DEF turn, stops
<1>6. \A p \in Id : /\ status'[p] = IF p \in starts THEN "starting" ELSE status[p]
                    /\ at'[p] = IF p \in starts THEN "checking" ELSE at[p]
  BY <1>1, <1>2 DEF Started, StatusOfStarted, AwaitsOfStarted
<1>7. Types'
  <2>1. status' \in [Id -> {"absent", "queued", "starting", "executing", "cancelled",
                            "yielded"} \cup Finished]
    BY <1>1, <1>2 DEF Started, StatusOfStarted, IInv, Types
  <2>2. at' \in [Id -> AwaitsBeside \cup InExecution]
    BY <1>1, <1>2 DEF AwaitsOfStarted, AwaitsBeside, IInv, Types
  <2> QED BY <1>2, <2>1, <2>2 DEF IInv, Types, Asked, turn, stops
<1>8. Phases' BY <1>2 DEF ProcessQueue, IInv, Phases, turn, stops
<1>9. Tracked' BY <1>2, <1>3, <1>6 DEF IInv, Tracked, turn, stops
<1> QED BY <1>5, <1>7, <1>8, <1>9 DEF IInv

\* A wave is submitted, and scanned.
LEMMA NextWaveKeeps ==
  ASSUME IInv, NextWave
  PROVE  IInv'
<1> DEFINE ids == {i \in plan.waves[wave + 1] : status[i] = "absent"}
           added == [i \in Id |-> IF i \notin ids THEN status[i]
                                  ELSE IF Of(i).known THEN "queued" ELSE "completed"]
           queued == {i \in Id : added[i] = "queued"}
<1>1. PICK starts \in SUBSET queued :
        /\ ScanStarts(wave + 1, queued, starts)
        /\ status' = Started(added, starts) /\ at' = AwaitsOfStarted(starts)
  BY DEF NextWave, AddWave
<1>2. /\ phase = "draining" /\ wave' = wave + 1 /\ wave \in Nat /\ ~discarded
      /\ UNCHANGED <<call, phase, plan, attempts, approved, begun, results, stops>>
  BY DEF NextWave, IInv, Types, Phases
<1>3. \A i \in Id : added[i] = "absent" => status[i] = "absent" OBVIOUS
<1>4. \A i \in Id : added[i] # "absent" => \E k \in 1 .. wave + 1 : i \in plan.waves[k]
  <2> SUFFICES ASSUME NEW i \in Id, added[i] # "absent"
               PROVE  \E k \in 1 .. wave + 1 : i \in plan.waves[k]
    OBVIOUS
  <2>1. CASE i \in ids
    <3>1. wave + 1 \in 1 .. wave + 1 BY <1>2
    <3> QED BY <2>1, <3>1
  <2>2. CASE i \notin ids
    <3>1. PICK k \in 1 .. wave : i \in plan.waves[k] BY <2>2 DEF IInv, Tracked
    <3>2. k \in 1 .. wave + 1 BY <1>2
    <3> QED BY <3>1, <3>2
  <2> QED BY <2>1, <2>2
<1>5. \A i \in Id : at[i] # "none" => added[i] = status[i] /\ i \notin queued
  BY <1>2 DEF IInv, Tracked
<1>6. added \in [Id -> {"absent", "queued", "starting", "executing", "cancelled",
                        "yielded"} \cup Finished]
  BY DEF IInv, Types, Finished
<1>7. \A i \in queued : \E k \in 1 .. wave + 1 : i \in plan.waves[k] BY <1>4
<1> HIDE DEF added, ids
<1>8. \A p \in Id : /\ status'[p] = IF p \in starts THEN StatusOfStarted ELSE added[p]
                    /\ at'[p] = IF p \in starts /\ ~Stopped THEN "checking" ELSE at[p]
  BY <1>1 DEF Started, AwaitsOfStarted
<1>9. Together'
  <2>1. CASE Stopped
    <3>1. \A p \in Id : at'[p] = at[p] BY <1>8, <2>1
    <3> QED BY <1>2, <3>1 DEF IInv, Together, Compatible, Of
  <2>2. CASE ~Stopped
    <3>1. wave + 1 \in Nat BY <1>2
    <3> QED BY <1>1, <1>2, <1>7, <2>2, <3>1, ScanKeepsTogether DEF stops
  <2> QED BY <2>1, <2>2
<1>10. Types'
  <2>1. status' \in [Id -> {"absent", "queued", "starting", "executing", "cancelled",
                            "yielded"} \cup Finished]
    BY <1>1, <1>6 DEF Started, StatusOfStarted, Finished
  <2>2. at' \in [Id -> AwaitsBeside \cup InExecution]
    BY <1>1 DEF AwaitsOfStarted, AwaitsBeside, IInv, Types
  <2> QED BY <1>2, <2>1, <2>2 DEF IInv, Types, Asked, stops
<1>11. Phases' BY <1>2 DEF IInv, Phases, stops
<1>12. Tracked'
  <2> SUFFICES ASSUME NEW p \in Id
               PROVE  /\ at'[p] # "none" =>
                           status'[p] \notin {"absent", "yielded"} /\ (discarded' \/ status'[p] \in {"starting", "executing"})
                      /\ status'[p] # "absent" => \E k \in 1 .. wave' : p \in plan'.waves[k]
    BY DEF Tracked
  <2>1. status'[p] # "absent" => added[p] # "absent"
    <3>1. p \in starts => added[p] = "queued" OBVIOUS
    <3> QED BY <1>8, <3>1
  <2>2. at'[p] # "none" => status'[p] \in {"starting", "executing"}
    <3>1. CASE p \in starts /\ ~Stopped BY <1>8, <3>1 DEF StatusOfStarted
    <3>2. CASE ~(p \in starts /\ ~Stopped)
      <4> SUFFICES ASSUME at[p] # "none" PROVE status'[p] \in {"starting", "executing"}
        BY <1>8, <3>2
      <4>1. p \notin starts /\ added[p] = status[p] BY <1>5
      <4> QED BY <1>2, <1>8, <4>1 DEF IInv, Tracked
    <3> QED BY <3>1, <3>2
  <2> QED BY <1>2, <1>4, <2>1, <2>2
<1> QED BY <1>9, <1>10, <1>11, <1>12 DEF IInv

\* A result is yielded.
LEMMA YieldResultKeeps ==
  ASSUME IInv, NEW i \in Id, YieldResult(i)
  PROVE  IInv'
<1>1. /\ status[i] \in Finished /\ status' = [status EXCEPT ![i] = "yielded"]
      /\ results' = [results EXCEPT ![i] = @ + 1]
      /\ UNCHANGED <<turn, at, attempts, approved, begun, stops>>
  BY DEF YieldResult, Yieldable
<1>2. at[i] = "none"
  BY <1>1 DEF YieldResult, IInv, Types, Phases, Tracked, Finished, InExecution
<1>3. Types' BY <1>1 DEF IInv, Types, Asked, turn, stops
<1>4. Phases' BY <1>1 DEF YieldResult, IInv, Phases, turn, stops
<1>5. Tracked' BY <1>1, <1>2 DEF IInv, Types, Tracked, Finished, turn, stops
<1>6. Together' BY <1>1 DEF IInv, Together, Compatible, Of, turn
<1> QED BY <1>3, <1>4, <1>5, <1>6 DEF IInv

\* The turn ends, is aborted or is discarded.
LEMMA StopsKeep ==
  ASSUME IInv, DrainEnds \/ Abort \/ Discard
  PROVE  IInv'
<1>1. CASE DrainEnds
  BY <1>1 DEF DrainEnds, IInv, Types, Phases, Tracked, Together, Compatible, Of, Asked,
              tracked, stops
<1>2. CASE Abort
  BY <1>2 DEF Abort, IInv, Types, Phases, Tracked, Together, Compatible, Of, Asked,
              tracked, turn
<1>3. CASE Discard
  <2>1. /\ discarded' /\ phase' = "ended" /\ UNCHANGED <<plan, wave, at, begun, aborted>>
        /\ call' = (IF phase = "open" THEN <<>> ELSE call)
        /\ status' = [i \in Id |-> IF status[i] \in {"queued", "starting", "executing"}
                                     THEN "cancelled" ELSE status[i]]
    BY <1>3 DEF Discard
  <2>2. /\ call' \in Seq(Tool) /\ Asked' \subseteq Id
        /\ \E ask \in Asks : IsPrefix(call', ask)
    <3>1. \A ask \in Asks : IsPrefix(<<>>, ask) BY DEF IsPrefix
    <3> QED BY <2>1, <3>1 DEF IInv, Types, Asked
  <2>3. Types' BY <2>1, <2>2, <1>3 DEF IInv, Types, Discard
  <2>4. Phases' BY <2>1 DEF Phases
  <2>5. Tracked' BY <2>1 DEF IInv, Tracked
  <2>6. Together'
    <3>1. CASE phase = "open" BY <2>1, <3>1 DEF IInv, Phases, Together
    <3>2. CASE phase # "open" BY <2>1, <3>2 DEF IInv, Together, Compatible, Of
    <3> QED BY <3>1, <3>2
  <2> QED BY <2>3, <2>4, <2>5, <2>6 DEF IInv
<1> QED BY <1>1, <1>2, <1>3
-----------------------------------------------------------------------------
(* The invariant is inductive. *)

\* Nothing was queued.
LEMMA Initially ==
  ASSUME Init
  PROVE  IInv
<1>1. Asked = {} /\ call \in Seq(Tool) /\ \E ask \in Asks : IsPrefix(call, ask)
  BY DEF Init, Asked, IsPrefix
<1>2. Types BY <1>1 DEF Init, Types, AwaitsBeside
<1>3. Phases /\ Tracked /\ Together BY DEF Init, Phases, Tracked, Together
<1> QED BY <1>2, <1>3 DEF IInv

\* Every step keeps it.
LEMMA Steps ==
  ASSUME IInv, [Next]_vars
  PROVE  IInv'
<1>1. CASE UNCHANGED vars
  BY <1>1 DEF vars, turn, tracked, stops, IInv, Types, Phases, Tracked, Together, Compatible, Of,
              Asked
<1>2. ASSUME NEW name \in Tool, QueueTool(name) PROVE IInv' BY <1>2, QueueToolKeeps
<1>3. CASE Drain BY <1>3, DrainKeeps
<1>4. CASE DrainStep
  BY <1>4, ProcessQueueKeeps, NextWaveKeeps, YieldResultKeeps, StopsKeep DEF DrainStep
<1>5. CASE Abort \/ Discard BY <1>5, StopsKeep
<1>6. ASSUME NEW i \in Asked, CheckAnswers(i) \/ UserAnswers(i) \/ ToolAnswers(i)
      PROVE  IInv'
  <2>1. i \in Id BY DEF IInv, Types
  <2>2. CallStep BY <1>6, <2>1, CheckAnswersSteps, UserAnswersSteps, ToolAnswersSteps
  <2> QED BY <2>2, CallStepKeeps
<1> QED BY <1>1, <1>2, <1>3, <1>4, <1>5, <1>6 DEF Next

\* Whatever is asked, scanned, allowed late or stopped, the invariant holds.
THEOREM InductiveInvariant == Spec => []IInv
<1>1. Init => IInv BY Initially
<1>2. IInv /\ [Next]_vars => IInv' BY Steps
<1> QED BY <1>1, <1>2, PTL DEF Spec

\* Calls that execute together are reads, or system calls that are all safe.
THEOREM SlotsAreKept == Spec => []SlotsAreExclusive
<1>1. IInv => SlotsAreExclusive
  BY DEF IInv, Types, Together, Compatible, SlotsAreExclusive, Executing, InExecution
<1> QED BY <1>1, InductiveInvariant, PTL

\* A stopped turn begins no execution but of calls that are past their last look at
\* the stop, and no other call gets there.
THEOREM NothingStartsStopped == Spec => StopStartsNothing
<1> DEFINE StartsNothing ==
      aborted \/ discarded =>
        \A i \in Id : begun'[i] > begun[i] \/ at'[i] \in Committed => at[i] \in Committed
<1>1. ASSUME IInv, [Next]_vars PROVE [StartsNothing]_vars
  <2>1. begun \in [Id -> Nat] BY <1>1 DEF IInv, Types
  <2>2. CASE begun' = begun /\ at' = at BY <2>1, <2>2
  <2>3. ASSUME NEW i \in Asked, CheckAnswers(i) \/ UserAnswers(i) \/ ToolAnswers(i)
        PROVE  StartsNothing
    <3>1. i \in Id BY <1>1 DEF IInv, Types
    <3>2. CallStep BY <1>1, <2>3, <3>1, CheckAnswersSteps, UserAnswersSteps, ToolAnswersSteps
    <3> QED BY <3>2 DEF CallStep
  <2>4. CASE ProcessQueue \/ NextWave
    <3>1. begun' = begun /\ \E starts \in SUBSET Id : at' = AwaitsOfStarted(starts)
      BY <2>4 DEF ProcessQueue, NextWave, AddWave
    <3> QED BY <2>1, <3>1 DEF AwaitsOfStarted, Committed
  <2> QED BY <1>1, <2>2, <2>3, <2>4 DEF Next, vars, tracked, QueueTool, Drain, DrainStep,
                                       DrainEnds, YieldResult, Abort, Discard
<1> QED BY <1>1, InductiveInvariant, PTL DEF StopStartsNothing, Spec
-----------------------------------------------------------------------------
(* The invariant of the plan and of its answers *)

\* The drain follows a good plan that has every call asked.
Planned ==
  /\ IF phase = "open" THEN plan = NoPlan ELSE GoodPlan(plan) /\ Scheduled(plan) = Asked
  /\ wave <= Len(plan.waves)

\* A call is answered as unresolved when the drain starts, or else as it is yielded.
Yields ==
  \A i \in Id : results[i] = IF i \in plan.stuck \/ status[i] = "yielded" THEN 1 ELSE 0

RequirementsMet(i) == \A j \in Asked : call[j] \in Of(i).requires => results[j] > 0

\* Until the turn is stopped a wave is answered before the next is added, so what is
\* awaited is of one wave, and what it requires is answered.
Ordered ==
  /\ ~Stopped => \A k \in 1 .. wave - 1 : \A i \in Id \cap plan.waves[k] : status[i] = "yielded"
  /\ \A i, j \in Id : at[i] # "none" /\ at[j] # "none" =>
       \E k \in 1 .. wave : i \in plan.waves[k] /\ j \in plan.waves[k]
  /\ \A i \in Asked :
       at[i] # "none" \/ begun[i] > 0 \/ (~Stopped /\ status[i] # "absent") => RequirementsMet(i)

PInv == Planned /\ Yields /\ Ordered

\* A call that is tracked has a wave.
LEMMA TrackedIsPlanned ==
  ASSUME IInv, Planned, NEW i \in Id, status[i] # "absent"
  PROVE  /\ \E k \in 1 .. wave : i \in plan.waves[k]
         /\ phase # "open" /\ i \in Asked /\ i \notin plan.stuck
<1>1. PICK k \in 1 .. wave : i \in plan.waves[k] BY DEF IInv, Tracked
<1>2. phase # "open" /\ wave \in Nat BY DEF IInv, Phases, Types
<1>3. GoodPlan(plan) /\ Scheduled(plan) = Asked /\ wave <= Len(plan.waves) BY <1>2 DEF Planned
<1>4. DOMAIN plan.waves = 1 .. Len(plan.waves) /\ Len(plan.waves) \in Nat BY <1>3 DEF GoodPlan
<1>5. k \in 1 .. Len(plan.waves) BY <1>2, <1>3, <1>4
<1>6. i \in Asked BY <1>1, <1>3, <1>4, <1>5 DEF Scheduled
<1>7. i \notin plan.stuck BY <1>1, <1>3, <1>5 DEF GoodPlan, Before
<1> QED BY <1>1, <1>2, <1>6, <1>7

\* Until the turn is stopped, a call that is tracked and not answered is of the wave
\* being drained.
LEMMA OnlyTheWaveIsOpen ==
  ASSUME IInv, Ordered, ~Stopped, NEW i \in Id, status[i] \notin {"absent", "yielded"}
  PROVE  wave \in 1 .. wave /\ i \in plan.waves[wave]
<1>1. PICK k \in 1 .. wave : i \in plan.waves[k] BY DEF IInv, Tracked
<1>2. wave \in Nat BY DEF IInv, Types
<1>3. k \notin 1 .. wave - 1 BY <1>1 DEF Ordered
<1> QED BY <1>1, <1>2, <1>3

\* Once the waves before it are answered, so is all that a call requires.
LEMMA WaveIsReady ==
  ASSUME IInv, Planned, Yields, phase # "open", NEW k \in 1 .. Len(plan.waves),
         \A l \in 1 .. k - 1 : \A j \in Id \cap plan.waves[l] : status[j] = "yielded",
         NEW i \in plan.waves[k]
  PROVE  RequirementsMet(i)
<1> SUFFICES ASSUME NEW j \in Asked, call[j] \in Of(i).requires
             PROVE  results[j] > 0
  BY DEF RequirementsMet
<1>1. PrerequisitesIn(i, Before(plan, k)) BY DEF Planned, GoodPlan
<1>2. j \in Instances(call[j]) BY DEF Instances
<1>3. j \in Before(plan, k) BY <1>1, <1>2 DEF PrerequisitesIn
<1>4. j \in Id BY DEF IInv, Types
<1>5. j \in plan.stuck \/ status[j] = "yielded" BY <1>3, <1>4 DEF Before
<1> QED BY <1>4, <1>5 DEF Yields
-----------------------------------------------------------------------------
(* The steps keep it *)

\* A plan is good for the calls it was made for, whatever becomes of them.
LEMMA PlansStayGood ==
  ASSUME UNCHANGED call, GoodPlan(plan'), Scheduled(plan') = Asked
  PROVE  (GoodPlan(plan) /\ Scheduled(plan) = Asked)'
<1>1. Asked' = Asked /\ \A i : Of(i)' = Of(i) BY DEF Asked, Of
<1>2. \A name : Instances(name)' = Instances(name) BY <1>1 DEF Instances
<1>3. (plan \in [waves : Seq(SUBSET Asked), stuck : SUBSET Asked])' BY <1>1 DEF GoodPlan
<1>4. ASSUME NEW k \in (1 .. Len(plan.waves))'
      PROVE  /\ (plan.waves[k] # {} /\ Cardinality(plan.waves[k]) <= MaxWave)'
             /\ Orderly(plan.waves[k])' /\ (plan.waves[k] \cap Before(plan, k) = {})'
             /\ (\A i \in plan.waves[k] : PrerequisitesIn(i, Before(plan, k)))'
  <2>1. /\ plan'.waves[k] # {} /\ Cardinality(plan'.waves[k]) <= MaxWave
        /\ Orderly(plan'.waves[k]) /\ plan'.waves[k] \cap Before(plan', k) = {}
        /\ \A i \in plan'.waves[k] : PrerequisitesIn(i, Before(plan', k))
    BY DEF GoodPlan
  <2>2. Before(plan, k)' = Before(plan', k) BY DEF Before
  <2>3. Orderly(plan.waves[k])' BY <1>1, <2>1 DEF Orderly
  <2>4. ASSUME NEW i \in plan'.waves[k] PROVE PrerequisitesIn(i, Before(plan, k))'
    BY <1>1, <1>2, <2>1, <2>2 DEF PrerequisitesIn
  <2> QED BY <2>1, <2>2, <2>3, <2>4
<1>5. GoodPlan(plan)' BY <1>3, <1>4 DEF GoodPlan
<1>6. (Scheduled(plan) = Asked)' BY <1>1 DEF Scheduled
<1> QED BY <1>5, <1>6

\* The plan stays what it is.
LEMMA PlannedStays ==
  ASSUME Planned, UNCHANGED <<call, plan, wave>>, (phase = "open") <=> (phase' = "open")
  PROVE  Planned'
<1>1. CASE phase = "open" BY <1>1 DEF Planned
<1>2. CASE phase # "open"
  <2>1. GoodPlan(plan') /\ Scheduled(plan') = Asked BY <1>2 DEF Planned
  <2> QED BY <1>2, <2>1, PlansStayGood DEF Planned
<1> QED BY <1>1, <1>2

\* A step of one call.
LEMMA CallStepKeepsPlan ==
  ASSUME IInv, PInv, CallStep
  PROVE  PInv'
<1>1. UNCHANGED <<call, phase, plan, wave, results, aborted, discarded>>
      /\ \A p \in Id : /\ at'[p] # "none" \/ begun'[p] # begun[p] => at[p] # "none"
                       /\ status'[p] = "yielded" <=> status[p] = "yielded"
                       /\ status'[p] # "absent" => status[p] # "absent"
  BY DEF CallStep, turn, stops
<1>2. Planned' BY <1>1, PlannedStays DEF PInv
<1>3. Yields' BY <1>1 DEF PInv, Yields
<1>4. Ordered'
  <2>1. \A i \in Asked : i \in Id BY DEF IInv, Types
  <2>2. \A i \in Asked : RequirementsMet(i)' = RequirementsMet(i)
    BY <1>1 DEF RequirementsMet, Of, Asked
  <2> QED BY <1>1, <2>1, <2>2 DEF PInv, Ordered, Stopped, Asked
<1> QED BY <1>2, <1>3, <1>4 DEF PInv

\* A call's name arrives.
LEMMA QueueToolKeepsPlan ==
  ASSUME IInv, IInv', PInv, NEW name \in Tool, QueueTool(name)
  PROVE  PInv'
<1>1. phase = "open" /\ UNCHANGED <<phase, plan, wave, tracked, begun, results, stops>>
  BY DEF QueueTool
<1>2. wave = 0 /\ \A i \in Id : at[i] = "none" /\ status[i] = "absent" /\ begun[i] = 0
  BY <1>1 DEF IInv, Phases
<1>3. Asked' \subseteq Id BY DEF IInv, Types
<1>4. Planned' BY <1>1 DEF PInv, Planned
<1>5. Yields' BY <1>1 DEF PInv, Yields, tracked
<1>6. Ordered' BY <1>1, <1>2, <1>3 DEF Ordered, tracked
<1> QED BY <1>4, <1>5, <1>6 DEF PInv

\* The plan is made.
LEMMA DrainKeepsPlan ==
  ASSUME IInv, PInv, Drain
  PROVE  PInv'
<1>1. /\ phase = "open" /\ phase' = "draining" /\ plan' = PlanExecution
      /\ results' = [i \in Id |-> IF i \in plan'.stuck THEN 1 ELSE 0]
      /\ UNCHANGED <<call, wave, tracked, begun, stops>>
  BY DEF Drain
<1>2. wave = 0 /\ \A i \in Id : at[i] = "none" /\ status[i] = "absent" /\ begun[i] = 0
  BY <1>1 DEF IInv, Phases
<1>3. Asked \subseteq Id /\ call \in Seq(Tool) BY DEF IInv, Types
<1>4. GoodPlan(plan') /\ Scheduled(plan') = Asked BY <1>1, <1>3, PlanIsGood
<1>5. Planned'
  <2>1. Len(plan'.waves) \in Nat BY <1>4 DEF GoodPlan
  <2> QED BY <1>1, <1>2, <1>4, <2>1, PlansStayGood DEF Planned
<1>6. Yields' BY <1>1, <1>2 DEF Yields, tracked
<1>7. Ordered' BY <1>1, <1>2, <1>3 DEF Ordered, tracked, Asked
<1> QED BY <1>5, <1>6, <1>7 DEF PInv

\* What is waiting is scanned.
LEMMA ProcessQueueKeepsPlan ==
  ASSUME IInv, PInv, ProcessQueue
  PROVE  PInv'
<1>1. PICK starts \in SUBSET {i \in Id : status[i] = "queued"} :
        status' = Started(status, starts) /\ at' = AwaitsOfStarted(starts)
  BY DEF ProcessQueue
<1>2. ~Stopped /\ UNCHANGED <<call, phase, plan, wave, begun, results, aborted, discarded>>
  BY DEF ProcessQueue, turn, stops
<1>3. \A p \in Id : /\ status'[p] = IF p \in starts THEN "starting" ELSE status[p]
                    /\ at'[p] = IF p \in starts THEN "checking" ELSE at[p]
  BY <1>1, <1>2 DEF Started, StatusOfStarted, AwaitsOfStarted
<1>4. \A p \in Id : /\ status'[p] = "yielded" <=> status[p] = "yielded"
                    /\ status'[p] # "absent" => status[p] # "absent"
  BY <1>3
<1>5. \A p \in Id : at'[p] # "none" => status[p] \notin {"absent", "yielded"}
  BY <1>3 DEF IInv, Tracked
<1>6. Planned' BY <1>2, PlannedStays DEF PInv
<1>7. Yields' BY <1>2, <1>4 DEF PInv, Yields
<1>8. Ordered'
  <2>1. \A i \in Asked : i \in Id /\ RequirementsMet(i)' = RequirementsMet(i)
    BY <1>2 DEF RequirementsMet, Of, Asked, IInv, Types
  <2>2. \A p \in Id : at'[p] # "none" => wave \in 1 .. wave /\ p \in plan.waves[wave]
    BY <1>2, <1>5, OnlyTheWaveIsOpen DEF PInv
  <2> QED BY <1>2, <1>3, <1>4, <1>5, <2>1, <2>2 DEF PInv, Ordered, Stopped, Asked
<1> QED BY <1>6, <1>7, <1>8 DEF PInv

\* The next wave is submitted, and scanned.
LEMMA NextWaveKeepsPlan ==
  ASSUME IInv, IInv', PInv, NextWave
  PROVE  PInv'
<1> DEFINE ids == {i \in plan.waves[wave + 1] : status[i] = "absent"}
           added == [i \in Id |-> IF i \notin ids THEN status[i]
                                  ELSE IF Of(i).known THEN "queued" ELSE "completed"]
<1>1. PICK starts \in SUBSET {i \in Id : added[i] = "queued"} :
        status' = Started(added, starts) /\ at' = AwaitsOfStarted(starts)
  BY DEF NextWave, AddWave
<1>2. /\ phase = "draining" /\ WaveOver /\ wave < Len(plan.waves)
      /\ wave' = wave + 1 /\ wave \in Nat /\ Len(plan.waves) \in Nat
      /\ UNCHANGED <<call, phase, plan, begun, results, aborted, discarded>>
  BY DEF NextWave, IInv, Types, PInv, Planned, GoodPlan, stops
<1>3. \A p \in Id : /\ status'[p] = IF p \in starts THEN StatusOfStarted ELSE added[p]
                    /\ at'[p] = IF p \in starts /\ ~Stopped THEN "checking" ELSE at[p]
  BY <1>1 DEF Started, AwaitsOfStarted
<1>4. \A p \in Id : p \in starts => added[p] = "queued" OBVIOUS
<1>5. \A p \in Id : p \in ids => p \in plan.waves[wave + 1] /\ status[p] = "absent" OBVIOUS
<1>6. \A p \in Id : added[p] = IF p \notin ids THEN status[p]
                               ELSE IF Of(p).known THEN "queued" ELSE "completed"
  OBVIOUS
<1> HIDE DEF ids, added
<1>7. \A p \in Id : /\ status'[p] = "yielded" <=> status[p] = "yielded"
                    /\ status'[p] # "absent" => status[p] # "absent" \/ p \in plan.waves[wave + 1]
  BY <1>3, <1>4, <1>5, <1>6 DEF StatusOfStarted
<1>8. \A p \in Id : at'[p] # "none" =>
        \/ at[p] # "none"
        \/ ~Stopped /\ (p \in plan.waves[wave + 1] \/ status[p] = "queued")
  BY <1>3, <1>4, <1>5, <1>6
<1>9. ~Stopped => \A k \in 1 .. wave : \A i \in Id \cap plan.waves[k] : status[i] = "yielded"
  <2> SUFFICES ASSUME ~Stopped, NEW k \in 1 .. wave, NEW i \in Id \cap plan.waves[k]
               PROVE  status[i] = "yielded"
    OBVIOUS
  <2>1. CASE k = wave BY <1>2, <2>1 DEF WaveOver
  <2>2. CASE k # wave
    <3>1. k \in 1 .. wave - 1 BY <1>2, <2>2
    <3> QED BY <3>1 DEF PInv, Ordered
  <2> QED BY <2>1, <2>2
<1>10. ~Stopped => \A p \in Id : status[p] \in {"absent", "yielded"}
  BY <1>2, <1>9, OnlyTheWaveIsOpen DEF PInv
<1>11. ~Stopped => \A p \in Id : at[p] = "none" BY <1>10 DEF IInv, Tracked
<1>12. (wave + 1) \in 1 .. Len(plan.waves) /\ (wave + 1) \in 1 .. (wave + 1)
       /\ \A k \in 1 .. wave : k \in 1 .. (wave + 1)
  BY <1>2
<1>13. Planned'
  <2>1. Planned /\ phase # "open" BY <1>2 DEF PInv
  <2>2. GoodPlan(plan') /\ Scheduled(plan') = Asked BY <1>2, <2>1 DEF Planned
  <2> QED BY <1>2, <2>1, <2>2, PlansStayGood DEF Planned
<1>14. Yields' BY <1>2, <1>7 DEF PInv, Yields
<1>15. \A i \in Asked : i \in Id /\ RequirementsMet(i)' = RequirementsMet(i)
  BY <1>2 DEF RequirementsMet, Of, Asked, IInv, Types
<1>16. ~Stopped => \A i \in plan.waves[wave + 1] : RequirementsMet(i)
  <2>1. \A l \in 1 .. (wave + 1) - 1 : l \in 1 .. wave BY <1>2
  <2> QED BY <1>2, <1>9, <1>12, <2>1, WaveIsReady DEF PInv
<1>17. Ordered'
  <2>1. (~Stopped => \A k \in 1 .. wave - 1 : \A i \in Id \cap plan.waves[k] : status[i] = "yielded")'
    <3>1. \A k \in 1 .. wave' - 1 : k \in 1 .. wave BY <1>2
    <3> QED BY <1>2, <1>7, <1>9, <3>1 DEF Stopped
  <2>2. (\A i, j \in Id : at[i] # "none" /\ at[j] # "none" =>
           \E k \in 1 .. wave : i \in plan.waves[k] /\ j \in plan.waves[k])'
    <3>1. CASE Stopped BY <1>2, <1>8, <1>12, <3>1 DEF PInv, Ordered
    <3>2. CASE ~Stopped
      <4>1. \A p \in Id : at'[p] # "none" => p \in plan.waves[wave + 1]
        BY <1>8, <1>10, <1>11, <3>2
      <4> QED BY <1>2, <1>12, <4>1
    <3> QED BY <3>1, <3>2
  <2>3. (\A i \in Asked :
           at[i] # "none" \/ begun[i] > 0 \/ (~Stopped /\ status[i] # "absent") => RequirementsMet(i))'
    <3> SUFFICES ASSUME NEW i \in Asked, at'[i] # "none" \/ begun[i] > 0 \/ (~Stopped /\ status'[i] # "absent")
                 PROVE  RequirementsMet(i)
      BY <1>2, <1>15 DEF Asked, Stopped
    <3>1. \/ at[i] # "none" \/ begun[i] > 0 \/ (~Stopped /\ status[i] # "absent")
          \/ ~Stopped /\ i \in plan.waves[wave + 1]
      BY <1>7, <1>8, <1>15
    <3> QED BY <1>16, <3>1 DEF PInv, Ordered
  <2> QED BY <2>1, <2>2, <2>3 DEF Ordered
<1> QED BY <1>13, <1>14, <1>17 DEF PInv

\* A call that is tracked is answered once, as it is yielded.
LEMMA YieldResultKeepsPlan ==
  ASSUME IInv, PInv, NEW i \in Id, YieldResult(i)
  PROVE  PInv' /\ results[i] = 0 /\ i \in Asked
<1>1. /\ status[i] \in Finished /\ status' = [status EXCEPT ![i] = "yielded"]
      /\ results' = [results EXCEPT ![i] = @ + 1]
      /\ UNCHANGED <<call, phase, plan, wave, at, begun, aborted, discarded>>
  BY DEF YieldResult, Yieldable, turn, stops
<1>2. status[i] \notin {"absent", "yielded"} BY <1>1 DEF Finished
<1>3. i \notin plan.stuck /\ i \in Asked BY <1>2, TrackedIsPlanned DEF PInv
<1>4. results[i] = 0 BY <1>2, <1>3 DEF PInv, Yields
<1>5. \A p \in Id : /\ status'[p] = IF p = i THEN "yielded" ELSE status[p]
                    /\ results'[p] = IF p = i THEN 1 ELSE results[p]
  BY <1>1, <1>4 DEF IInv, Types
<1>6. Planned' BY <1>1, PlannedStays DEF PInv
<1>7. Yields' BY <1>1, <1>5 DEF PInv, Yields
<1>8. \A p \in Asked : p \in Id /\ (RequirementsMet(p) => RequirementsMet(p)')
  <2>1. Asked \subseteq Id BY DEF IInv, Types
  <2>2. \A p \in Asked : results[p] > 0 => results'[p] > 0
    <3>1. \A p \in Asked : results'[p] = IF p = i THEN 1 ELSE results[p] BY <1>5, <2>1
    <3> QED BY <3>1
  <2>3. call' = call /\ Asked' = Asked /\ Asked \subseteq Id BY <1>1, <2>1 DEF Asked
  <2> QED BY <2>2, <2>3 DEF RequirementsMet, Of
<1>9. Ordered'
  <2>1. /\ Asked' = Asked /\ Stopped' = Stopped /\ UNCHANGED <<plan, wave, at, begun>>
        /\ \A p \in Id : status'[p] = status[p] \/ (status[p] # "absent" /\ status'[p] = "yielded")
    BY <1>1, <1>2, <1>5 DEF Asked, Stopped
  <2>2. Ordered BY DEF PInv
  <2>3. \A p \in Id : status'[p] # "absent" => status[p] # "absent" BY <2>1
  <2>4. \A p \in Id : status[p] = "yielded" => status'[p] = "yielded" BY <2>1
  <2> QED BY <1>8, <2>1, <2>2, <2>3, <2>4 DEF Ordered
<1> QED BY <1>3, <1>4, <1>6, <1>7, <1>9 DEF PInv

\* The turn ends, is aborted or is discarded.
LEMMA StopsKeepPlan ==
  ASSUME IInv, IInv', PInv, DrainEnds \/ Abort \/ Discard
  PROVE  PInv'
<1>1. CASE DrainEnds \/ Abort
  <2>1. /\ UNCHANGED <<call, plan, wave, status, at, begun, results>>
        /\ (phase = "open") <=> (phase' = "open")
        /\ Stopped => Stopped'
    BY <1>1 DEF DrainEnds, Abort, tracked, turn, stops, Stopped
  <2>2. Planned' BY <2>1, PlannedStays DEF PInv
  <2>3. Yields' BY <2>1 DEF PInv, Yields
  <2>4. \A p \in Asked : RequirementsMet(p)' = RequirementsMet(p)
    BY <2>1 DEF RequirementsMet, Of, Asked
  <2>5. Ordered' BY <2>1, <2>4 DEF PInv, Ordered, Asked
  <2> QED BY <2>2, <2>3, <2>5 DEF PInv
<1>2. CASE Discard
  <2>1. /\ Stopped' /\ phase' = "ended" /\ UNCHANGED <<plan, wave, at, begun, results>>
        /\ call' = (IF phase = "open" THEN <<>> ELSE call)
        /\ \A p \in Id : status'[p] = "yielded" <=> status[p] = "yielded"
    BY <1>2 DEF Discard, Stopped
  <2>2. Yields' BY <2>1 DEF PInv, Yields
  <2>3. CASE phase = "open"
    <3>1. Asked' = {} BY <2>1, <2>3 DEF Asked
    <3>2. plan' = NoPlan /\ wave' = 0 /\ \A p \in Id : at'[p] = "none"
      BY <2>1, <2>3 DEF PInv, Planned, IInv, Phases
    <3>3. (GoodPlan(plan) /\ Scheduled(plan) = Asked)'
      BY <3>1, <3>2 DEF GoodPlan, Scheduled, NoPlan
    <3>4. Planned' BY <2>1, <3>2, <3>3 DEF Planned, NoPlan
    <3>5. Ordered' BY <2>1, <3>1, <3>2 DEF Ordered
    <3> QED BY <2>2, <3>4, <3>5 DEF PInv
  <2>4. CASE phase # "open"
    <3>1. GoodPlan(plan') /\ Scheduled(plan') = Asked /\ UNCHANGED call
      BY <2>1, <2>4 DEF PInv, Planned
    <3>2. Planned' BY <2>1, <2>4, <3>1, PlansStayGood DEF PInv, Planned
    <3>3. \A p \in Asked : RequirementsMet(p)' = RequirementsMet(p)
      BY <2>1, <3>1 DEF RequirementsMet, Of, Asked
    <3>4. Ordered' BY <2>1, <3>1, <3>3 DEF PInv, Ordered, Asked
    <3> QED BY <2>2, <3>2, <3>4 DEF PInv
  <2> QED BY <2>3, <2>4
<1> QED BY <1>1, <1>2

\* Nothing is planned at first.
LEMMA InitiallyPlanned ==
  ASSUME Init
  PROVE  PInv
BY DEF Init, PInv, Planned, Yields, Ordered, NoPlan, Asked

\* Every step keeps it.
LEMMA StepsKeepPlan ==
  ASSUME IInv, IInv', PInv, [Next]_vars
  PROVE  PInv'
<1>1. CASE UNCHANGED vars
  <2>1. UNCHANGED <<call, phase, plan, wave, status, at, begun, results, aborted, discarded>>
    BY <1>1 DEF vars, turn, tracked, stops
  <2>2. Planned' BY <2>1, PlannedStays DEF PInv
  <2> QED BY <2>1, <2>2 DEF PInv, Yields, Ordered, RequirementsMet, Of, Asked, Stopped
<1>2. ASSUME NEW name \in Tool, QueueTool(name) PROVE PInv' BY <1>2, QueueToolKeepsPlan
<1>3. CASE Drain BY <1>3, DrainKeepsPlan
<1>4. CASE DrainStep
  BY <1>4, ProcessQueueKeepsPlan, NextWaveKeepsPlan, YieldResultKeepsPlan, StopsKeepPlan DEF DrainStep
<1>5. CASE Abort \/ Discard BY <1>5, StopsKeepPlan
<1>6. ASSUME NEW i \in Asked, CheckAnswers(i) \/ UserAnswers(i) \/ ToolAnswers(i)
      PROVE  PInv'
  <2>1. i \in Id BY DEF IInv, Types
  <2>2. CallStep BY <1>6, <2>1, CheckAnswersSteps, UserAnswersSteps, ToolAnswersSteps
  <2> QED BY <2>2, CallStepKeepsPlan
<1> QED BY <1>1, <1>2, <1>3, <1>4, <1>5, <1>6 DEF Next

\* Whatever is asked, the drain follows a good plan in order, and answers as it goes.
THEOREM PlanIsFollowed == Spec => []PInv
<1>1. Init => PInv BY InitiallyPlanned
<1>2. IInv /\ IInv' /\ PInv /\ [Next]_vars => PInv' BY StepsKeepPlan
<1> QED BY <1>1, <1>2, InductiveInvariant, PTL DEF Spec

\* Every variable keeps its type, the plan included.
THEOREM TypeCorrect == Spec => []TypeOK
<1>1. ASSUME IInv, PInv PROVE TypeOK
  <2>1. plan.waves \in Seq(SUBSET Id) /\ plan \in [waves : Seq(SUBSET Id), stuck : SUBSET Id]
    <3>1. CASE phase = "open"
      <4>1. plan = [waves |-> <<>>, stuck |-> {}] BY <1>1, <3>1 DEF PInv, Planned, NoPlan
      <4>2. plan.waves = <<>> /\ plan.stuck = {} BY <4>1
      <4>3. plan.waves \in Seq(SUBSET Id) BY <4>2
      <4> QED BY <4>1, <4>3
    <3>2. CASE phase # "open"
      <4>1. plan \in [waves : Seq(SUBSET Asked), stuck : SUBSET Asked] /\ Asked \subseteq Id
        BY <1>1, <3>2 DEF PInv, Planned, GoodPlan, IInv, Types
      <4>2. plan.waves \in Seq(SUBSET Id)
        <5>1. SUBSET Asked \subseteq SUBSET Id BY <4>1
        <5> QED BY <4>1, <5>1
      <4> QED BY <4>1, <4>2
    <3> QED BY <3>1, <3>2
  <2> QED BY <1>1, <2>1 DEF TypeOK, IInv, Types
<1> QED BY <1>1, InductiveInvariant, PlanIsFollowed, PTL

\* Two calls that may touch one path, one of them writing it, are never both awaited
\* in execution: what is awaited is of one wave, and a wave has no conflict.
THEOREM ConflictsAreSerialised == Spec => []ConflictsSerialise
<1>1. ASSUME IInv, PInv PROVE ConflictsSerialise
  <2> SUFFICES ASSUME NEW i \in Asked, NEW j \in Asked, i # j, Executing(i), Executing(j),
                      NEW p \in Path, MayWrite(Of(i), p), MayTouch(Of(j), p)
               PROVE  FALSE
    BY DEF ConflictsSerialise
  <2>1. i \in Id /\ j \in Id BY <1>1 DEF IInv, Types
  <2>2. at[i] # "none" /\ at[j] # "none" BY DEF Executing, InExecution
  <2>3. PICK k \in 1 .. wave : i \in plan.waves[k] /\ j \in plan.waves[k]
    BY <1>1, <2>1, <2>2 DEF PInv, Ordered
  <2>4. status[i] # "absent" BY <1>1, <2>1, <2>2 DEF IInv, Tracked
  <2>5. phase # "open" BY <1>1, <2>1, <2>4, TrackedIsPlanned DEF PInv
  <2>6. k \in 1 .. Len(plan.waves)
    BY <1>1, <2>3, <2>5 DEF IInv, Types, PInv, Planned, GoodPlan
  <2>7. ~FootprintsConflict(Of(i), Of(j))
    BY <1>1, <2>3, <2>5, <2>6 DEF PInv, Planned, GoodPlan, Orderly
  <2> QED BY <2>7 DEF FootprintsConflict, Opaque, Mutates, MayWrite, MayTouch
<1> QED BY <1>1, InductiveInvariant, PlanIsFollowed, PTL

\* A call that began had every call it requires answered first.
THEOREM RequiredAreFirst == Spec => []RequiredFirst
<1>1. PInv => RequiredFirst BY DEF PInv, Ordered, RequirementsMet, RequiredFirst
<1> QED BY <1>1, PlanIsFollowed, PTL
-----------------------------------------------------------------------------
(* The turn keeps what ToolPort promises, step by step *)

Replied == {i \in Id : results[i] = 1}

\* Only calls that were asked are answered.
LEMMA OnlyAskedAreReplied ==
  ASSUME IInv, PInv
  PROVE  Replied \subseteq Asked
<1> SUFFICES ASSUME NEW i \in Id, results[i] = 1 PROVE i \in Asked
  BY DEF Replied
<1>1. i \in plan.stuck \/ status[i] = "yielded" BY DEF PInv, Yields
<1>2. CASE status[i] = "yielded" BY <1>2, TrackedIsPlanned DEF PInv
<1>3. CASE i \in plan.stuck
  <2>1. phase # "open" BY <1>3 DEF PInv, Planned, NoPlan
  <2> QED BY <1>3, <2>1 DEF PInv, Planned, GoodPlan
<1> QED BY <1>1, <1>2, <1>3

\* A drain that nobody cut short ends with every call answered.
LEMMA EndsAnswered ==
  ASSUME IInv, PInv, DrainEnds, ~aborted
  PROVE  Replied = Asked
<1>1. phase = "draining" /\ WaveOver /\ wave = Len(plan.waves) BY DEF DrainEnds
<1>2. ~Stopped BY <1>1 DEF Stopped, IInv, Phases
<1>3. GoodPlan(plan) /\ Scheduled(plan) = Asked /\ wave \in Nat /\ Asked \subseteq Id
  BY <1>1 DEF PInv, Planned, IInv, Types
<1>4. ASSUME NEW i \in Asked PROVE i \in Replied
  <2>1. i \in Id BY <1>3
  <2>2. CASE i \in plan.stuck BY <2>1, <2>2 DEF Replied, PInv, Yields
  <2>3. CASE i \notin plan.stuck
    <3>1. PICK k \in DOMAIN plan.waves : i \in plan.waves[k] BY <1>3, <2>3 DEF Scheduled
    <3>2. k \in 1 .. wave BY <1>1, <1>3 DEF GoodPlan
    <3>3. CASE k = wave BY <1>1, <1>2, <2>1, <3>1, <3>2, <3>3 DEF WaveOver, Replied, PInv, Yields
    <3>4. CASE k # wave
      <4>1. k \in 1 .. wave - 1 BY <1>3, <3>2, <3>4
      <4> QED BY <1>2, <2>1, <3>1, <4>1 DEF Replied, PInv, Ordered, Yields
    <3> QED BY <3>3, <3>4
  <2> QED BY <2>2, <2>3
<1> QED BY <1>4, OnlyAskedAreReplied

\* Every step of the turn is one of ToolPort's, or none.
LEMMA StepsAreThePorts ==
  ASSUME IInv, IInv', PInv, PInv', [Next]_vars
  PROVE  [Port!Next]_(Port!port)
<1> USE DEF Port!port
<1>1. CASE UNCHANGED <<call, results, phase, aborted, discarded>> BY <1>1 DEF Asked
<1>2. ASSUME NEW name \in Tool, QueueTool(name) PROVE Port!Next
  <2>1. /\ phase = "open" /\ ~discarded /\ call' = Append(call, name) /\ call \in Seq(Tool)
        /\ UNCHANGED <<phase, results, aborted, discarded>>
    BY <1>2 DEF QueueTool, IInv, Types, stops
  <2> DEFINE i == Len(call) + 1
  <2>2. i \notin Asked /\ Asked' = Asked \cup {i} BY <2>1 DEF Asked
  <2>3. i \in Id BY <2>2 DEF IInv, Types
  <2> HIDE DEF i
  <2>4. Port!Queue(i) BY <2>1, <2>2 DEF Port!Queue
  <2> QED BY <2>3, <2>4 DEF Port!Next
<1>3. ASSUME Drain PROVE Port!Next
  <2>1. /\ phase = "open" /\ ~discarded /\ phase' = "draining"
        /\ results' = [i \in Id |-> IF i \in plan'.stuck THEN 1 ELSE 0]
        /\ UNCHANGED <<call, aborted, discarded>>
    BY <1>3 DEF Drain, stops
  <2>2. plan'.stuck \subseteq Asked /\ Asked \subseteq Id
    BY <2>1 DEF PInv, Planned, GoodPlan, Asked, IInv, Types
  <2>3. {i \in Id : results'[i] = 1} = plan'.stuck BY <2>1, <2>2
  <2>4. PICK refused \in SUBSET Id : refused = plan'.stuck BY <2>2
  <2>5. Port!Drain(refused) BY <2>1, <2>2, <2>3, <2>4 DEF Port!Drain, Asked
  <2> QED BY <2>5 DEF Port!Next
<1>4. ASSUME NEW i \in Id, YieldResult(i) PROVE Port!Next
  <2>1. /\ phase = "draining" /\ results' = [results EXCEPT ![i] = @ + 1]
        /\ UNCHANGED <<call, phase, aborted, discarded>>
    BY <1>4 DEF YieldResult, turn, stops
  <2>2. ~discarded BY <2>1 DEF IInv, Phases
  <2>3. results[i] = 0 /\ i \in Asked BY <1>4, YieldResultKeepsPlan
  <2>4. {j \in Id : results'[j] = 1} = {j \in Id : results[j] = 1} \cup {i}
    BY <2>1, <2>3 DEF IInv, Types
  <2>5. Port!Answer(i) BY <2>1, <2>2, <2>3, <2>4 DEF Port!Answer, Asked
  <2> QED BY <2>5 DEF Port!Next
<1>5. ASSUME DrainEnds PROVE Port!Next
  <2>1. phase = "draining" /\ phase' = "ended" /\ UNCHANGED <<call, results, aborted, discarded>>
    BY <1>5 DEF DrainEnds, stops
  <2>2. ~discarded BY <2>1 DEF IInv, Phases
  <2>3. aborted \/ {i \in Id : results[i] = 1} = Asked BY <1>5, EndsAnswered DEF Replied
  <2>4. Port!End BY <2>1, <2>2, <2>3 DEF Port!End, Asked
  <2> QED BY <2>4 DEF Port!Next
<1>6. ASSUME Abort PROVE Port!Next
  <2>1. Port!Interrupt BY <1>6 DEF Abort, Port!Interrupt, turn, IInv, Types, Asked
  <2> QED BY <2>1 DEF Port!Next
<1>7. ASSUME Discard PROVE Port!Next
  <2>1. /\ ~discarded /\ discarded' = TRUE /\ UNCHANGED <<results, aborted>>
        /\ call' = IF phase = "open" THEN <<>> ELSE call
        /\ phase \in {"open", "draining", "ended"}
    BY <1>7 DEF Discard, IInv, Types
  <2>2. Asked' = IF phase = "open" THEN {} ELSE Asked BY <2>1 DEF Asked
  <2>3. Port!Discard BY <2>1, <2>2 DEF Port!Discard, Port!Usable
  <2> QED BY <2>3 DEF Port!Next
<1>8. CASE ProcessQueue \/ NextWave
  BY <1>1, <1>8 DEF ProcessQueue, NextWave, turn, stops
<1>9. ASSUME NEW i \in Asked, CheckAnswers(i) \/ UserAnswers(i) \/ ToolAnswers(i)
      PROVE  UNCHANGED <<call, results, phase, aborted, discarded>>
  <2>1. i \in Id BY DEF IInv, Types
  <2>2. CallStep BY <1>9, <2>1, CheckAnswersSteps, UserAnswersSteps, ToolAnswersSteps
  <2> QED BY <2>2 DEF CallStep, turn, stops
<1>10. CASE UNCHANGED vars BY <1>1, <1>10 DEF vars, turn, stops
<1> QED BY <1>1, <1>2, <1>3, <1>4, <1>5, <1>6, <1>7, <1>8, <1>9, <1>10 DEF Next, DrainStep

\* The turn's publication implements ToolPort, what the engine drives.
THEOREM Refinement == Spec => KeepsPort
<1>1. Init => Port!Init BY DEF Init, Port!Init, Asked
<1>2. IInv /\ IInv' /\ PInv /\ PInv' /\ [Next]_vars => [Port!Next]_(Port!port)
  BY StepsAreThePorts
<1> QED BY <1>1, <1>2, InductiveInvariant, PlanIsFollowed, PTL DEF Spec, KeepsPort, Port!Spec
\* A drain that ended, in a turn that is neither aborted nor discarded, gave every call
\* that was asked its one message: by ToolPort alone, whatever implements it.
THEOREM EndedIsAnswered ==
  Spec => [](phase = "ended" /\ ~Stopped => {i \in Id : results[i] = 1} = Asked)
<1> DEFINE Stage == IF discarded THEN "discarded" ELSE phase
           Replies == {i \in Id : results[i] = 1}
           Answered == Stage = "ended" /\ ~aborted => Replies = Asked
<1>1. Port!Init => Answered BY DEF Port!Init
<1>2. Answered /\ [Port!Next]_(Port!port) => Answered'
  <2> SUFFICES ASSUME Answered, [Port!Next]_(Port!port), Stage' = "ended", ~aborted'
               PROVE  Replies' = Asked'
    OBVIOUS
  <2>1. CASE UNCHANGED Port!port BY <2>1 DEF Port!port
  <2>2. CASE Port!Next
    <3> HIDE DEF Stage, Replies
    <3>1. Port!End
      BY <2>2 DEF Port!Next, Port!Publish, Port!Discard, Port!Interrupt, Port!Queue,
         Port!Answer, Port!Drain, Stage
    <3> QED BY <3>1 DEF Port!End, Replies
  <2> QED BY <2>1, <2>2
<1>3. Port!Spec => []Answered BY <1>1, <1>2, PTL DEF Port!Spec
<1>4. Answered => (phase = "ended" /\ ~Stopped => Replies = Asked) BY DEF Stopped
<1> QED BY <1>3, <1>4, Refinement, PTL DEF KeepsPort
-----------------------------------------------------------------------------
(* The drain is never stuck *)

\* A slot is held only by a call that is awaited, only a discard cancels, and every
\* call of an added wave was added.
Held ==
  /\ \A i \in Id : Holds(i) => at[i] # "none"
  /\ \A i \in Id : status[i] = "cancelled" => discarded
  /\ \A k \in 1 .. wave : \A i \in Id \cap plan.waves[k] : status[i] # "absent"

\* A scan keeps it.
LEMMA ScanKeepsHeld ==
  ASSUME Held, NEW w \in {wave, wave + 1}, NEW starts \in SUBSET Id, NEW added,
         \A i \in Id : added[i] \in {status[i], "queued", "completed"},
         \A i \in Id \cap plan.waves[wave + 1] : w = wave + 1 => added[i] # "absent",
         status' = Started(added, starts), at' = AwaitsOfStarted(starts), wave' = w,
         wave \in Nat, UNCHANGED <<plan, discarded>>
  PROVE  Held'
<1>1. \A p \in Id : /\ status'[p] = IF p \in starts THEN StatusOfStarted ELSE added[p]
                    /\ at'[p] = IF p \in starts /\ ~Stopped THEN "checking" ELSE at[p]
  BY DEF Started, AwaitsOfStarted
<1>2. ASSUME NEW i \in Id, Holds(i)' PROVE at'[i] # "none"
  <2>1. CASE i \in starts BY <1>1, <1>2, <2>1 DEF Holds, StatusOfStarted
  <2>2. CASE i \notin starts BY <1>1, <1>2, <2>2 DEF Holds, Held
  <2> QED BY <2>1, <2>2
<1>3. ASSUME NEW i \in Id, status'[i] = "cancelled" PROVE discarded'
  BY <1>1, <1>3 DEF Held, StatusOfStarted
<1>4. ASSUME NEW k \in 1 .. w, NEW i \in Id \cap plan.waves[k] PROVE status'[i] # "absent"
  <2>1. CASE k \in 1 .. wave
    <3>1. status[i] # "absent" BY <2>1 DEF Held
    <3> QED BY <1>1, <3>1 DEF StatusOfStarted
  <2>2. CASE k \notin 1 .. wave
    <3>1. k = wave + 1 /\ w = wave + 1 BY <2>2
    <3>2. added[i] # "absent" BY <3>1
    <3> QED BY <1>1, <3>2 DEF StatusOfStarted
  <2> QED BY <2>1, <2>2
<1> QED BY <1>2, <1>3, <1>4 DEF Held

\* The drain's two scans.
LEMMA ScansKeepHeld ==
  ASSUME IInv, Held, ProcessQueue \/ NextWave
  PROVE  Held'
<1>0. wave \in Nat BY DEF IInv, Types
<1>1. CASE ProcessQueue
  <2>1. PICK starts \in SUBSET Id :
          status' = Started(status, starts) /\ at' = AwaitsOfStarted(starts)
    BY <1>1 DEF ProcessQueue
  <2>2. wave' = wave /\ UNCHANGED <<plan, discarded>> BY <1>1 DEF ProcessQueue, turn, stops
  <2>3. wave # wave + 1 BY <1>0
  <2> QED BY <1>0, <2>1, <2>2, <2>3, ScanKeepsHeld
<1>2. CASE NextWave
  <2> DEFINE ids == {i \in plan.waves[wave + 1] : status[i] = "absent"}
             added == [i \in Id |-> IF i \notin ids THEN status[i]
                                    ELSE IF Of(i).known THEN "queued" ELSE "completed"]
  <2>1. PICK starts \in SUBSET Id :
          status' = Started(added, starts) /\ at' = AwaitsOfStarted(starts)
    BY <1>2 DEF NextWave, AddWave
  <2>2. wave' = wave + 1 /\ UNCHANGED <<plan, discarded>> BY <1>2 DEF NextWave, stops
  <2>3. \A i \in Id : added[i] \in {status[i], "queued", "completed"} OBVIOUS
  <2>4. \A i \in Id \cap plan.waves[wave + 1] : added[i] # "absent" OBVIOUS
  <2> HIDE DEF added, ids
  <2> QED BY <1>0, <2>1, <2>2, <2>3, <2>4, ScanKeepsHeld
<1> QED BY <1>1, <1>2

\* Every step keeps it.
LEMMA StepsKeepHeld ==
  ASSUME IInv, Held, [Next]_vars
  PROVE  Held'
<1> USE DEF Held, Holds
<1>1. CASE UNCHANGED <<status, at, plan, wave, discarded>> BY <1>1
<1>2. CASE UNCHANGED vars BY <1>1, <1>2 DEF vars, turn, tracked, stops
<1>3. CASE \E name \in Tool : QueueTool(name) BY <1>1, <1>3 DEF QueueTool, tracked, stops
<1>4. CASE Drain
  <2>1. wave = 0 BY <1>4 DEF Drain, IInv, Phases
  <2>2. UNCHANGED <<status, at, wave, discarded>> BY <1>4 DEF Drain, tracked, stops
  <2> QED BY <2>1, <2>2
<1>5. CASE ProcessQueue \/ NextWave BY <1>5, ScansKeepHeld
<1>6. ASSUME NEW i \in Id, YieldResult(i) PROVE Held'
  <2>1. /\ status' = [status EXCEPT ![i] = "yielded"] /\ DOMAIN status = Id
        /\ UNCHANGED <<at, plan, wave, discarded>>
    BY <1>6 DEF YieldResult, IInv, Types, turn, stops
  <2> QED BY <2>1
<1>7. CASE DrainEnds \/ Abort
  BY <1>1, <1>7 DEF DrainEnds, Abort, turn, tracked, stops
<1>8. CASE Discard BY <1>8 DEF Discard
<1>9. ASSUME NEW i \in Asked, CheckAnswers(i) \/ UserAnswers(i) \/ ToolAnswers(i)
      PROVE  Held'
  <2>1. i \in Id BY DEF IInv, Types
  <2>2. CallStep BY <1>9, <2>1, CheckAnswersSteps, UserAnswersSteps, ToolAnswersSteps
  <2> QED BY <2>2 DEF CallStep, turn, stops
<1> QED BY <1>2, <1>3, <1>4, <1>5, <1>6, <1>7, <1>8, <1>9 DEF Next, DrainStep

\* The order of the queue is one: no call is before itself, and what is before a call
\* that is before another is before that.
LEMMA EarlierIsAnOrder ==
  ASSUME GoodPlan(plan), Asked \subseteq Id, NEW w \in 0 .. Len(plan.waves),
         NEW i \in Id, NEW j \in Earlier(w, i)
  PROVE  j # i /\ Earlier(w, j) \subseteq Earlier(w, i)
<1>0. Id \subseteq Nat /\ Len(plan.waves) \in Nat BY IdsAreNumbers DEF GoodPlan
<1>1. \A k, l \in 1 .. w : plan.waves[k] \cap plan.waves[l] # {} => k = l
  <2> SUFFICES ASSUME NEW k \in 1 .. w, NEW l \in 1 .. w, k < l,
                      NEW h \in plan.waves[k], h \in plan.waves[l]
               PROVE  FALSE
    BY <1>0
  <2>1. k \in 1 .. l - 1 /\ l \in 1 .. Len(plan.waves) BY <1>0
  <2> QED BY <2>1 DEF GoodPlan, Before
<1>2. PICK l \in 1 .. w, k \in 1 .. w :
        i \in plan.waves[l] /\ j \in plan.waves[k] /\ k <= l /\ (k < l \/ j < i)
  <2>1. PICK l \in 1 .. w : \E k \in 1 .. l :
          i \in plan.waves[l] /\ j \in plan.waves[k] /\ (k < l \/ j < i)
    BY DEF Earlier
  <2>2. PICK k \in 1 .. l : i \in plan.waves[l] /\ j \in plan.waves[k] /\ (k < l \/ j < i)
    BY <2>1
  <2>3. k \in 1 .. w /\ k <= l BY <1>0
  <2> QED BY <2>2, <2>3
<1>3. j # i
  <2>1. CASE k < l BY <1>0, <1>1, <1>2, <2>1
  <2>2. CASE ~(k < l) BY <1>0, <1>2, <2>2 DEF Earlier
  <2> QED BY <2>1, <2>2
<1>4. ASSUME NEW h \in Earlier(w, j) PROVE h \in Earlier(w, i)
  <2>1. PICK m \in 1 .. w : \E n \in 1 .. m :
          j \in plan.waves[m] /\ h \in plan.waves[n] /\ (n < m \/ h < j)
    BY DEF Earlier
  <2>2. PICK n \in 1 .. m : j \in plan.waves[m] /\ h \in plan.waves[n] /\ (n < m \/ h < j)
    BY <2>1
  <2>3. m = k BY <1>1, <1>2, <2>2
  <2>4. n \in 1 .. l BY <1>0, <1>2, <2>3
  <2>5. h \in Id /\ j \in Id BY DEF Earlier
  <2>6. n < l \/ h < i BY <1>0, <1>2, <2>2, <2>3, <2>5
  <2> QED BY <1>2, <2>2, <2>4, <2>5, <2>6 DEF Earlier
<1> QED BY <1>3, <1>4

\* The calls before one were asked, so they are as many as a number.
LEMMA EarlierAreAsked ==
  ASSUME GoodPlan(plan), Len(call) \in Nat, NEW w \in 0 .. Len(plan.waves)
  PROVE  /\ \A i \in Id : Earlier(w, i) \subseteq Asked
         /\ IsFiniteSet(Asked) /\ Cardinality(Asked) \in Nat
<1>1. IsFiniteSet(Asked) /\ Cardinality(Asked) \in Nat
  BY FS_Interval, FS_CardinalityType DEF Asked
<1>2. ASSUME NEW i \in Id, NEW j \in Earlier(w, i) PROVE j \in Asked
  <2>1. PICK l \in 1 .. w : \E k \in 1 .. l : j \in plan.waves[k] BY DEF Earlier
  <2>2. PICK k \in 1 .. l : j \in plan.waves[k] BY <2>1
  <2>3. k \in 1 .. Len(plan.waves) /\ plan.waves \in Seq(SUBSET Asked) BY <2>2 DEF GoodPlan
  <2> QED BY <2>2, <2>3
<1> QED BY <1>1, <1>2

\* How many calls are before one of w waves.
Rank(w, i) == Cardinality(Earlier(w, i))

\* A call that is before another has fewer calls before it.
LEMMA RankRises ==
  ASSUME GoodPlan(plan), Asked \subseteq Id, Len(call) \in Nat,
         NEW w \in 0 .. Len(plan.waves), NEW i \in Id
  PROVE  Rank(w, i) \in Nat /\ \A j \in Earlier(w, i) : j \in Id /\ Rank(w, j) < Rank(w, i)
<1>1. \A h \in Id : IsFiniteSet(Earlier(w, h)) /\ Rank(w, h) \in Nat
  BY EarlierAreAsked, FS_Subset, FS_CardinalityType DEF Rank
<1>2. ASSUME NEW j \in Earlier(w, i) PROVE j \in Id /\ Rank(w, j) < Rank(w, i)
  <2>1. j \in Id BY DEF Earlier
  <2>2. Earlier(w, j) \subseteq Earlier(w, i) BY EarlierIsAnOrder
  <2>3. j \notin Earlier(w, j) BY <2>1, EarlierIsAnOrder
  <2>4. Rank(w, j) <= Rank(w, i) /\ Rank(w, j) # Rank(w, i)
    BY <1>1, <2>2, <2>3, FS_Subset DEF Rank
  <2> QED BY <1>1, <2>1, <2>4
<1> QED BY <1>1, <1>2

\* What a scan asks of a call: it depends on the calls before it alone.
Goes(w, queued, i, starts) ==
  /\ \A j \in (Earlier(w, i) \cap queued) \ starts : Of(j).batch = "read"
  /\ CanExecuteTool(i, Busy \cup IF Stopped THEN {} ELSE Earlier(w, i) \cap starts)

\* Whether a scan starts a call depends on the calls before it alone.
LEMMA GoesByTheEarlier ==
  ASSUME NEW w, NEW queued, NEW i, NEW s, NEW t, Earlier(w, i) \cap s = Earlier(w, i) \cap t
  PROVE  Goes(w, queued, i, s) <=> Goes(w, queued, i, t)
<1>1. (Earlier(w, i) \cap queued) \ s = (Earlier(w, i) \cap queued) \ t OBVIOUS
<1> QED BY <1>1 DEF Goes

\* A scan has an outcome, whatever waits, holds a slot or was stopped.
LEMMA ScanEnds ==
  ASSUME GoodPlan(plan), Asked \subseteq Id, Len(call) \in Nat,
         NEW w \in 0 .. Len(plan.waves), NEW queued \in SUBSET Id
  PROVE  \E starts \in SUBSET queued : ScanStarts(w, queued, starts)
<1> DEFINE r(i) == Rank(w, i)
           Upto(n) == {i \in queued : r(i) < n}
           Done(n, s) == \A i \in Upto(n) : i \in s <=> Goes(w, queued, i, s)
           T == {n \in Nat : \E s \in SUBSET Upto(n) : Done(n, s)}
<1>1. \A i \in Id : r(i) \in Nat /\ \A j \in Earlier(w, i) : j \in Id /\ r(j) < r(i)
  BY RankRises
<1> HIDE DEF r
<1>2. 0 \in T
  <2>1. Upto(0) = {} BY <1>1
  <2> QED BY <2>1
<1>3. ASSUME NEW n \in Nat, n \in T PROVE n + 1 \in T
  <2>1. PICK s \in SUBSET Upto(n) : Done(n, s) BY <1>3
  <2> DEFINE t == s \cup {i \in queued : r(i) = n /\ Goes(w, queued, i, s)}
  <2>2. t \in SUBSET Upto(n + 1) BY <1>1
  <2>3. ASSUME NEW i \in Upto(n + 1) PROVE i \in t <=> Goes(w, queued, i, t)
    <3>1. i \in Id /\ r(i) \in Nat /\ r(i) <= n BY <1>1
    <3>2. \A j \in Earlier(w, i) : r(j) \in Nat /\ r(j) < n BY <1>1, <3>1
    <3>3. Earlier(w, i) \cap s = Earlier(w, i) \cap t BY <3>2
    <3>4. Goes(w, queued, i, s) <=> Goes(w, queued, i, t) BY <3>3, GoesByTheEarlier
    <3>5. CASE r(i) < n
      <4>1. i \in Upto(n) BY <3>5
      <4>2. i \in s <=> Goes(w, queued, i, s) BY <2>1, <4>1
      <4>3. i \in t <=> i \in s BY <3>1, <3>5
      <4> QED BY <3>4, <4>2, <4>3
    <3>6. CASE r(i) = n
      <4>1. i \notin s BY <3>6
      <4> QED BY <3>4, <3>6, <4>1
    <3> QED BY <3>1, <3>5, <3>6
  <2> HIDE DEF t
  <2>4. Done(n + 1, t) BY <2>3
  <2>5. n + 1 \in Nat OBVIOUS
  <2> HIDE DEF Done, Upto
  <2> QED BY <2>2, <2>4, <2>5
<1>4. T \in SUBSET Nat OBVIOUS
<1> HIDE DEF T
<1>5. T = Nat BY <1>2, <1>3, <1>4, Induction
<1> USE DEF T
<1>6. PICK n \in Nat : \A i \in queued : r(i) < n
  <2>1. \A i \in Id : r(i) <= Cardinality(Asked) BY EarlierAreAsked, FS_Subset DEF r, Rank
  <2>2. Cardinality(Asked) + 1 \in Nat /\ \A i \in queued : r(i) < Cardinality(Asked) + 1
    BY <1>1, <2>1, EarlierAreAsked
  <2> QED BY <2>2
<1>7. PICK s \in SUBSET Upto(n) : Done(n, s) BY <1>5
<1>8. ScanStarts(w, queued, s) BY <1>6, <1>7 DEF ScanStarts, Goes
<1> QED BY <1>7, <1>8

\* With no slot held, a scan starts the first of the calls that wait.
LEMMA FreeSlotIsTaken ==
  ASSUME GoodPlan(plan), Asked \subseteq Id, Len(call) \in Nat,
         NEW w \in 0 .. Len(plan.waves), NEW queued \in SUBSET Id, queued # {},
         Busy = {}, ~Stopped
  PROVE  \E starts \in (SUBSET queued) \ {{}} : ScanStarts(w, queued, starts)
<1>1. PICK starts \in SUBSET queued : ScanStarts(w, queued, starts) BY ScanEnds
<1> DEFINE ranks == {Rank(w, i) : i \in queued}
<1>2. ranks \in SUBSET Nat /\ ranks # {} BY RankRises
<1>3. PICK n \in ranks : \A m \in ranks : n <= m BY <1>2, Least
<1>4. PICK i \in queued : n = Rank(w, i) BY <1>3
<1>5. Earlier(w, i) \cap queued = {}
  <2> SUFFICES ASSUME NEW j \in Earlier(w, i) \cap queued PROVE FALSE OBVIOUS
  <2>1. Rank(w, j) \in Nat /\ Rank(w, i) \in Nat /\ Rank(w, j) < Rank(w, i) BY RankRises
  <2>2. Rank(w, i) <= Rank(w, j) BY <1>3, <1>4
  <2> QED BY <2>1, <2>2
<1>6. Earlier(w, i) \cap starts = {} BY <1>5
<1>7. i \in starts
  <2>1. CanExecuteTool(i, Busy \cup IF Stopped THEN {} ELSE Earlier(w, i) \cap starts)
    BY <1>6 DEF CanExecuteTool
  <2>2. (Earlier(w, i) \cap queued) \ starts = {} BY <1>5
  <2> QED BY <1>1, <2>1, <2>2 DEF ScanStarts
<1> QED BY <1>1, <1>7

\* The calls that wait once wave k is added.
Waiting(k) ==
  {i \in Id : status[i] = "queued"
              \/ (i \in plan.waves[k] /\ status[i] = "absent" /\ Of(i).known)}

\* A guard of the drain's loop is met: it yields, ends, adds a wave or starts a call.
DrainMoves ==
  \/ \E i \in Id : Yieldable(i)
  \/ /\ WaveOver
     /\ wave < Len(plan.waves) =>
          \E starts \in SUBSET Waiting(wave + 1) : ScanStarts(wave + 1, Waiting(wave + 1), starts)
  \/ /\ ~Stopped
     /\ LET queued == {i \in Id : status[i] = "queued"} IN
        \E starts \in (SUBSET queued) \ {{}} : ScanStarts(wave, queued, starts)

\* The drain goes on or waits for the check, the prompt or the execution of a call:
\* no call waits for a slot nothing will free, nor a wave for one that cannot start.
NeverStuck == phase = "draining" => DrainMoves \/ \E i \in Asked : at[i] # "none"

\* The invariants leave a drain that stands still no state to stand in.
LEMMA InvariantsMove ==
  ASSUME IInv, PInv, Held
  PROVE  NeverStuck
<1> SUFFICES ASSUME phase = "draining", \A i \in Asked : at[i] = "none", ~DrainMoves
             PROVE  FALSE
  BY DEF NeverStuck
<1>1. /\ GoodPlan(plan) /\ Asked \subseteq Id /\ Len(call) \in Nat /\ wave \in Nat
      /\ wave \in 0 .. Len(plan.waves) /\ ~discarded
  BY DEF PInv, Planned, GoodPlan, IInv, Types, Phases
<1>2. Busy = {}
  <2>1. ASSUME NEW i \in Id, at[i] # "none" PROVE i \in Asked
    BY <2>1, TrackedIsPlanned DEF IInv, Tracked, PInv
  <2> QED BY <2>1 DEF Held, Holds, Busy
<1>3. ~WaveOver
  <2> SUFFICES ASSUME WaveOver PROVE FALSE OBVIOUS
  <2>1. wave < Len(plan.waves) BY DEF DrainMoves
  <2>2. wave + 1 \in 0 .. Len(plan.waves) /\ Waiting(wave + 1) \in SUBSET Id
    BY <1>1, <2>1 DEF Waiting
  <2> QED BY <1>1, <2>2, ScanEnds DEF DrainMoves
<1>4. ~Stopped /\ wave > 0 BY <1>3 DEF WaveOver, DrainMoves
<1>5. PICK i \in plan.waves[wave] : status[i] # "yielded" BY <1>3 DEF WaveOver
<1>6. i \in Id /\ wave \in 1 .. wave
  <2>1. wave \in 1 .. Len(plan.waves) /\ wave \in 1 .. wave BY <1>1, <1>4
  <2>2. plan.waves[wave] \subseteq Asked BY <1>1, <2>1 DEF GoodPlan
  <2> QED BY <1>1, <1>5, <2>1, <2>2
<1>7. status[i] \notin Finished BY <1>2, <1>6 DEF DrainMoves, Yieldable, Earlier, Busy
<1>8. status[i] = "queued"
  <2>1. status[i] \notin {"absent", "cancelled", "starting", "executing", "yielded"}
    BY <1>1, <1>2, <1>5, <1>6 DEF Held, Busy
  <2> QED BY <1>6, <1>7, <2>1 DEF IInv, Types
<1> DEFINE queued == {j \in Id : status[j] = "queued"}
<1>9. queued \in SUBSET Id /\ queued # {} BY <1>6, <1>8
<1>10. ~ \E starts \in (SUBSET queued) \ {{}} : ScanStarts(wave, queued, starts)
  BY <1>4 DEF DrainMoves
<1> HIDE DEF queued
<1> QED BY <1>1, <1>2, <1>4, <1>9, <1>10, FreeSlotIsTaken

\* The safety half of the drain's end, in every reachable state of every batch.
THEOREM DrainIsNeverStuck == Spec => []NeverStuck
<1>1. Init => Held BY DEF Init, Held, Holds
<1>2. IInv /\ Held /\ [Next]_vars => Held' BY StepsKeepHeld
<1>3. Spec => []Held BY <1>1, <1>2, InductiveInvariant, PTL DEF Spec
<1>4. IInv /\ PInv /\ Held => NeverStuck BY InvariantsMove
<1> QED BY <1>3, <1>4, InductiveInvariant, PlanIsFollowed, PTL
=============================================================================
