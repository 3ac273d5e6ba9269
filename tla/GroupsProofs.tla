---------------------------- MODULE GroupsProofs ----------------------------
(***************************************************************************)
(* Proofs about Groups: for any number of groups and modules, any members, *)
(* any budget and any delays.                                              *)
(***************************************************************************)
EXTENDS Groups, FiniteSetTheorems, FunctionTheorems, TLAPS

Later == {"groups", "between", "phase", "mixed", "done"}
Busy  == {"between", "phase", "mixed"}

LEMMA Constants ==
  /\ NGroups \in Nat /\ Budget \in Nat /\ Scale \in Nat /\ Scale > 0
  /\ PlanTime \in Nat /\ PhaseTime \in Nat /\ MakeTime \in Nat /\ CallTime \in Nat
  /\ \A r \in 1 .. NGroups : Scale % r = 0
BY GroupsAssumption DEF Groups

-----------------------------------------------------------------------------
(* Arithmetic of shares: B is the budget after planning, D the number of    *)
(* groups there are to drive, R of those that remain, q a share and l what   *)
(* the groups so far ran over.                                               *)

\* A tick has so many parts that what is left is shared without remainder.
LEMMA WholeShares ==
  ASSUME NEW S \in Nat, NEW R \in Nat, R > 0, S % R = 0, NEW x \in Nat
  PROVE  (S * x) \div R \in Nat /\ R * ((S * x) \div R) = S * x
<1> DEFINE k == S \div R
<1>1. k \in Nat /\ S = R * k OBVIOUS
<1> DEFINE y == k * x
<1>2. y \in Nat BY <1>1
<1>3. S * x = R * y BY <1>1
<1>4. (R * y) \div R = y
  <2> HIDE DEF y
  <2> QED BY <1>2
<1> QED BY <1>2, <1>3, <1>4

\* What every group has at least.
LEMMA ShareIsFair ==
  ASSUME NEW D \in Nat, NEW q \in Nat, NEW l \in Nat, NEW R \in Nat, R > 0, NEW B \in Int,
         D * (q * R + l) >= R * B
  PROVE  D * (q + l) >= B
<1> DEFINE dq == D * q   dl == D * l
<1>1. dq \in Nat /\ dl \in Nat OBVIOUS
<1>2. D * (q * R + l) = dq * R + dl OBVIOUS
<1>3. D * (q + l) = dq + dl OBVIOUS
<1> HIDE DEF dq, dl
<1>4. SUFFICES ASSUME dq + dl < B PROVE FALSE BY <1>1, <1>3
<1>5. R * (dq + dl) <= R * (B - 1) BY <1>1, <1>4
<1>6. R * (dq + dl) = dq * R + R * dl BY <1>1
<1>7. R * dl >= dl BY <1>1
<1>8. R * (B - 1) = R * B - R OBVIOUS
<1> QED BY <1>1, <1>2, <1>5, <1>6, <1>7, <1>8

\* What a group leaves to those after it.
LEMMA RestIsFair ==
  ASSUME NEW D \in Nat, NEW q \in Nat, NEW l \in Nat, NEW R \in Nat, R > 0, NEW B \in Int,
         D * (q * R + l) >= R * B
  PROVE  D * (q * (R - 1) + l) >= (R - 1) * B
<1> DEFINE dq == D * q   dl == D * l  r == R - 1
<1>1. dq \in Nat /\ dl \in Nat /\ r \in Nat /\ R = r + 1 OBVIOUS
<1>2. D * (q * R + l) = dq * r + dq + dl OBVIOUS
<1>3. D * (q * r + l) = dq * r + dl OBVIOUS
<1>4. R * B = r * B + B OBVIOUS
<1> HIDE DEF dq, dl, r
<1>5. CASE B <= dq BY <1>1, <1>2, <1>3, <1>4, <1>5
<1>6. CASE B > dq
  <2> SUFFICES ASSUME dq * r + dl < r * B PROVE FALSE BY <1>1, <1>3
  <2> QED BY <1>1, <1>2, <1>4, <1>6
<1> QED BY <1>1, <1>5, <1>6

LEMMA MoreOfMore ==
  ASSUME NEW D \in Nat, NEW x \in Int, NEW y \in Int, x >= y PROVE D * x >= D * y
OBVIOUS

Rest(c) == IF c < Budget THEN Budget - c ELSE 0

LEMMA PartsAreWhole ==
  ASSUME NEW c \in Nat
  PROVE  Rest(c) \in Nat /\ Scale * c \in Nat /\ Scale * Rest(c) \in Nat
<1>1. Rest(c) \in Nat BY Constants DEF Rest
<1>2. Scale * c \in Nat BY Constants
<1> DEFINE r == Rest(c)
<1> HIDE DEF r
<1>3. r \in Nat => Scale * r \in Nat BY Constants
<1> QED BY <1>1, <1>2, <1>3 DEF r

\* What is left when a group ends, if what it ran over is given back.
LEMMA LeftOver ==
  ASSUME NEW b \in Nat, NEW c \in Nat, NEW q \in Nat, NEW R \in Nat, R > 0,
         Scale * Rest(b) = q * R, NEW u \in Nat, u = Scale * b + q
  PROVE  Scale * Rest(c) + (IF Scale * c > u THEN Scale * c - u ELSE 0) >= q * (R - 1)
<1> DEFINE sb == Scale * b  sc == Scale * c  sB == Scale * Budget
           over == IF sc > u THEN sc - u ELSE 0
<1>1. sb \in Nat /\ sc \in Nat /\ sB \in Nat BY Constants
<1>2. Scale * Rest(c) >= sB - sc /\ Scale * Rest(c) >= 0 /\ Scale * Rest(c) \in Nat
  <2>1. CASE c < Budget
    <3>1. Scale * (Budget - c) = sB - sc /\ Scale * (Budget - c) \in Nat BY <2>1, Constants
    <3> QED BY <2>1, <3>1 DEF Rest
  <2>2. CASE ~(c < Budget)
    <3>1. Scale * Rest(c) = 0 BY <2>2, Constants DEF Rest
    <3>2. Scale * Budget <= Scale * c BY <2>2, Constants
    <3> QED BY <1>1, <3>1, <3>2
  <2> QED BY <2>1, <2>2
<1>3. over >= sc - u /\ over >= 0 /\ over \in Nat BY <1>1
<1>4. q * (R - 1) = q * R - q /\ q * R \in Nat OBVIOUS
<1>5. CASE b < Budget
  <2>1. q * R = sB - sb BY <1>5, Constants DEF Rest
  <2> HIDE DEF sb, sc, sB, over
  <2>2. u = sb + q BY DEF sb
  <2>3. Scale * Rest(c) + over >= q * R - q BY <1>1, <1>2, <1>3, <2>1, <2>2
  <2> QED BY <1>4, <2>3 DEF over, sc
<1>6. CASE ~(b < Budget)
  <2>1. q * R = 0 BY <1>6, Constants DEF Rest
  <2> HIDE DEF sb, sc, sB, over
  <2>2. Scale * Rest(c) + over >= q * R - q BY <1>2, <1>3, <2>1
  <2> QED BY <1>4, <2>2 DEF over, sc
<1> QED BY <1>5, <1>6

-----------------------------------------------------------------------------
(* How many groups there are still to drive. *)

ToGo(ps, i) == Cardinality({k \in i .. Len(ps) : Drivable(ps[k])})

LEMMA FirstNumbers == ASSUME NEW n \in Nat PROVE IsFiniteSet(1 .. n) /\ Cardinality(1 .. n) = n
BY FS_Interval

LEMMA ToGoIsSmall ==
  ASSUME NEW ps, Len(ps) \in Nat, NEW i \in Nat, i >= 1
  PROVE  /\ ToGo(ps, i) \in Nat /\ ToGo(ps, i) <= Len(ps)
         /\ IsFiniteSet({k \in i .. Len(ps) : Drivable(ps[k])})
<1> DEFINE S == {k \in i .. Len(ps) : Drivable(ps[k])}
<1>1. IsFiniteSet(1 .. Len(ps)) /\ Cardinality(1 .. Len(ps)) = Len(ps) BY FirstNumbers
<1>2. S \subseteq 1 .. Len(ps) OBVIOUS
<1>3. IsFiniteSet(S) /\ Cardinality(S) <= Len(ps) BY <1>1, <1>2, FS_Subset
<1> QED BY <1>3, FS_CardinalityType DEF ToGo

\* One less after a group that can be driven, as many after one that cannot.
LEMMA ToGoNext ==
  ASSUME NEW ps, Len(ps) \in Nat, NEW i \in Nat, i >= 1, i <= Len(ps)
  PROVE  /\ Drivable(ps[i]) => ToGo(ps, i) = ToGo(ps, i + 1) + 1
         /\ ~Drivable(ps[i]) => ToGo(ps, i) = ToGo(ps, i + 1)
<1> DEFINE S(n) == {k \in n .. Len(ps) : Drivable(ps[k])}
<1>1. IsFiniteSet(S(i + 1)) BY ToGoIsSmall
<1>2. CASE Drivable(ps[i])
  <2>1. S(i) = S(i + 1) \cup {i} /\ i \notin S(i + 1) BY <1>2
  <2>2. Cardinality(S(i)) = Cardinality(S(i + 1)) + 1 BY <1>1, <2>1, FS_AddElement
  <2> QED BY <1>2, <2>2 DEF ToGo
<1>3. CASE ~Drivable(ps[i])
  <2>1. S(i) = S(i + 1) BY <1>3
  <2> QED BY <1>3, <2>1 DEF ToGo
<1> QED BY <1>2, <1>3

-----------------------------------------------------------------------------
(* FairShare. *)

Plans == {PlanOf(g) : g \in Groups}

\* Where the driver is, and what it knows by then.
ClockInv ==
  /\ stage \in {"load", "plan", "dead"} \cup Later
  /\ plans \in Seq(Plans) /\ Len(plans) <= NGroups
  /\ at \in Nat /\ at >= 1 /\ clock \in Nat /\ late \in Nat
  /\ stage = "load" => at = 1 /\ plans = <<>>
  /\ stage = "plan" => Len(plans) < at
  /\ stage \in Later \ {"done"} => planned \in Nat /\ planned <= clock
  /\ stage \in Busy => /\ at <= Len(plans) /\ Drivable(plans[at])
                       /\ began \in Nat /\ until \in Nat

AfterPlanning == Scale * (Budget - planned)
InAll         == ToGo(plans, 1)

\* The groups still to come have their part of what is left, and of what those
\* before them ran over; the one that runs was given that part.
FairInv ==
  /\ stage = "groups" =>
       InAll * (Scale * Rest(clock) + late) >= ToGo(plans, at) * AfterPlanning
  /\ stage \in Busy =>
       \E q \in Nat : /\ until = Scale * began + q /\ Scale * Rest(began) = q * ToGo(plans, at)
                      /\ InAll * (q * ToGo(plans, at) + late) >= ToGo(plans, at) * AfterPlanning

LEMMA ClockInit == Init => ClockInv /\ FairInv
<1> SUFFICES ASSUME Init PROVE ClockInv /\ FairInv OBVIOUS
<1>1. plans \in Seq(Plans) /\ Len(plans) = 0 BY DEF Init
<1> QED BY <1>1, Constants DEF Init, ClockInv, FairInv, Later, Busy

\* The share of the group whose turn it is, without remainder.
LEMMA ShareIsWhole ==
  ASSUME ClockInv, Turn, Drivable(plans[at])
  PROVE  Share \in Nat /\ ToGo(plans, at) > 0 /\ Scale * Rest(clock) = Share * ToGo(plans, at)
<1> DEFINE R == ToGo(plans, at)
<1>1. Len(plans) \in Nat /\ at \in Nat /\ at >= 1 /\ at <= Len(plans) /\ Len(plans) <= NGroups /\ clock \in Nat
  BY DEF ClockInv, Turn
<1>2. R \in Nat /\ R <= NGroups
  <2>1. NGroups \in Nat BY Constants
  <2>2. R \in Nat /\ R <= Len(plans) BY <1>1, ToGoIsSmall
  <2> HIDE DEF R
  <2> QED BY <1>1, <2>1, <2>2
<1>3. R > 0
  <2>1. R = ToGo(plans, at + 1) + 1 BY <1>1, ToGoNext
  <2>2. at + 1 \in Nat /\ at + 1 >= 1 BY <1>1
  <2>3. ToGo(plans, at + 1) \in Nat BY <1>1, <2>2, ToGoIsSmall
  <2> QED BY <2>1, <2>3
<1>4. Scale % R = 0 BY <1>2, <1>3, Constants
<1>5. Rest(clock) \in Nat BY <1>1, Constants DEF Rest
<1>6. Share = (Scale * Rest(clock)) \div R BY DEF Share, Rest, Remaining, ToGo
<1> HIDE DEF R
<1>7. Share \in Nat /\ R * Share = Scale * Rest(clock)
  <2>1. Scale \in Nat BY Constants
  <2> QED BY <1>2, <1>3, <1>4, <1>5, <1>6, <2>1, WholeShares
<1> QED BY <1>2, <1>3, <1>7 DEF R

\* The plan of a group follows from what the extension is.
LEMMA PlansStay == world' = world => Plans' = Plans
<1> SUFFICES ASSUME world' = world PROVE Plans' = Plans OBVIOUS
<1>1. ASSUME NEW g PROVE PlanOf(g)' = PlanOf(g)
  <2>1. Made(g)' = Made(g) /\ Indices(g)' = Indices(g) BY DEF Made, Indices
  <2>2. \A k : Mem(g, k)' = Mem(g, k) BY DEF Mem
  <2>3. \A k : Refused(g, k)' = Refused(g, k) BY <2>2 DEF Refused
  <2>4. Listed(g)' = Listed(g) BY <2>1, <2>2 DEF Listed
  <2>5. Taken(g)' = Taken(g) BY <2>1, <2>2, <2>4 DEF Taken
  <2>6. Calls(g)' = Calls(g) BY <2>2, <2>5 DEF Calls
  <2>7. Confined(g)' = Confined(g) BY <2>3, <2>5 DEF Confined
  <2> QED BY <2>1, <2>4, <2>5, <2>6, <2>7 DEF PlanOf
<1> QED BY <1>1 DEF Plans

LEMMA ClockStep == ASSUME ClockInv, [Next]_vars PROVE ClockInv'
<1> USE DEF ClockInv, Later, Busy
<1>0. world' = world /\ Plans' = Plans
  <2>1. world' = world
    BY DEF Next, vars, Load, PlanGroup, Unmatched, Planned, PassOver, StartGroup, BeginPair, BeginMix,
       CallReturns, BeatWrites, EndPair, EndMix, OutOfTime, Finish, Dies, fixed
  <2> QED BY <2>1, PlansStay
<1>1. CASE Load BY <1>0, <1>1, Constants DEF Load, history
<1>2. CASE PlanGroup
  <2>1. at' = at + 1 /\ stage = "plan" /\ UNCHANGED <<stage, late>> BY <1>2 DEF PlanGroup, history
  <2>2. clock' \in Nat BY <1>2, Constants DEF PlanGroup
  <2>3. at <= NGroups /\ at \in Groups BY <1>2 DEF PlanGroup, Groups
  <2>4. plans' = plans \/ plans' = Append(plans, PlanOf(at)) BY <1>2 DEF PlanGroup
  <2>5. PlanOf(at) \in Plans BY <2>3 DEF Plans
  <2>6. plans' \in Seq(Plans) /\ Len(plans') <= Len(plans) + 1 BY <2>4, <2>5
  <2>7. Len(plans') <= NGroups /\ Len(plans') < at' BY <2>1, <2>3, <2>6, Constants
  <2> QED BY <1>0, <2>1, <2>2, <2>6, <2>7
<1>3. CASE Unmatched BY <1>0, <1>3 DEF Unmatched, history
<1>4. CASE Planned BY <1>0, <1>4 DEF Planned
<1>5. CASE PassOver BY <1>0, <1>5 DEF PassOver, Turn, history
<1>6. CASE StartGroup
  <2>1. /\ stage = "groups" /\ stage' = "between" /\ began' = clock /\ until' = Scale * clock + Share
        /\ at <= Len(plans) /\ Drivable(plans[at]) /\ UNCHANGED <<at, plans, planned, late>>
    BY <1>6 DEF StartGroup, Turn
  <2>2. clock' \in Nat /\ clock' >= clock BY <1>6, Constants DEF StartGroup
  <2>3. until' \in Nat
    <3>1. Turn BY <1>6 DEF StartGroup
    <3>2. Share \in Nat BY <2>1, <3>1, ShareIsWhole
    <3> QED BY <2>1, <3>2, Constants
  <2>4. Drivable(plans'[at']) BY <2>1
  <2> QED BY <1>0, <2>1, <2>2, <2>3, <2>4
<1>7. CASE BeginPair BY <1>0, <1>7 DEF BeginPair, history
<1>8. CASE BeginMix BY <1>0, <1>8 DEF BeginMix, history
<1>9. CASE CallReturns \/ BeatWrites BY <1>0, <1>9 DEF CallReturns, BeatWrites, history
<1>10. CASE EndPair
  <2>1. clock' \in Nat /\ clock' >= clock
    <3>1. PICK d \in 0 .. PhaseTime : clock' = clock + d BY <1>10 DEF EndPair, Elapses
    <3> QED BY <3>1, Constants
  <2> QED BY <1>0, <1>10, <2>1 DEF EndPair, history
<1>11. CASE EndMix \/ OutOfTime
  <2>1. stage \in Busy /\ clock' \in Nat /\ clock' >= clock
    <3>1. clock' = clock \/ \E d \in 0 .. PhaseTime : clock' = clock + d
      BY <1>11 DEF EndMix, OutOfTime, Elapses
    <3>2. stage \in Busy BY <1>11 DEF EndMix, OutOfTime
    <3> QED BY <3>1, <3>2, Constants
  <2>2. stage' = "groups" /\ at' = at + 1 /\ UNCHANGED <<plans, planned>> /\ late' = late + Over(Scale * clock')
    BY <1>11 DEF EndMix, OutOfTime, CloseGroup
  <2>3. Over(Scale * clock') \in Nat BY <2>1, Constants DEF Over
  <2> QED BY <1>0, <2>1, <2>2, <2>3
<1>12. CASE Finish \/ Dies BY <1>0, <1>12 DEF Finish, Dies, history
<1>13. CASE UNCHANGED vars BY <1>0, <1>13 DEF vars, history
<1> QED BY <1>1, <1>2, <1>3, <1>4, <1>5, <1>6, <1>7, <1>8, <1>9, <1>10, <1>11, <1>12, <1>13 DEF Next

LEMMA FairStep == ASSUME ClockInv, FairInv, [Next]_vars PROVE FairInv'
<1> DEFINE D == InAll   R == ToGo(plans, at)   B == AfterPlanning
<1>0. /\ at \in Nat /\ at >= 1 /\ clock \in Nat /\ late \in Nat /\ Len(plans) \in Nat
      /\ Budget \in Nat /\ Scale \in Nat /\ Scale > 0
  BY Constants DEF ClockInv
<1>1. D \in Nat /\ R \in Nat
  <2>1. 1 \in Nat /\ 1 >= 1 OBVIOUS
  <2>2. D \in Nat BY <1>0, <2>1, ToGoIsSmall DEF InAll
  <2> QED BY <1>0, <2>2, ToGoIsSmall
<1>2. stage \in Later \ {"done"} => B \in Int BY <1>0 DEF ClockInv, AfterPlanning
<1>3. CASE Planned
  <2>1. stage' = "groups" /\ at' = 1 /\ planned' = clock /\ UNCHANGED <<plans, clock, late>>
    BY <1>3 DEF Planned
  <2>2. Scale * Rest(clock) >= Scale * (Budget - clock) /\ Scale * Rest(clock) \in Nat
    BY <1>0 DEF Rest
  <2>3. Scale * (Budget - clock) \in Int BY <1>0
  <2> HIDE DEF D
  <2>4. D * (Scale * Rest(clock) + late) >= D * (Scale * (Budget - clock))
    <3>1. Scale * Rest(clock) + late \in Int /\ Scale * Rest(clock) + late >= Scale * (Budget - clock)
      BY <1>0, <2>2, <2>3
    <3> QED BY <1>1, <2>3, <3>1, MoreOfMore
  <2>5. InAll' = D /\ AfterPlanning' = Scale * (Budget - clock) /\ ToGo(plans', at') = D
    BY <2>1 DEF InAll, AfterPlanning, D
  <2> QED BY <2>1, <2>4, <2>5 DEF FairInv, Busy
<1>4. CASE PassOver
  <2>1. /\ stage = "groups" /\ stage' = "groups" /\ at' = at + 1 /\ at <= Len(plans) /\ ~Drivable(plans[at])
        /\ UNCHANGED <<plans, clock, late, planned>>
    BY <1>4 DEF PassOver, Turn, history
  <2>2. ToGo(plans, at + 1) = R BY <1>0, <2>1, ToGoNext
  <2>3. InAll' = D /\ AfterPlanning' = B /\ ToGo(plans', at') = R
    BY <2>1, <2>2 DEF InAll, AfterPlanning
  <2> HIDE DEF D, R, B
  <2>4. D * (Scale * Rest(clock) + late) >= R * B BY <2>1 DEF FairInv, D, R, B
  <2> QED BY <2>1, <2>3, <2>4 DEF FairInv, Busy
<1>5. CASE StartGroup
  <2>1. /\ stage = "groups" /\ stage' = "between" /\ began' = clock /\ until' = Scale * clock + Share
        /\ Turn /\ Drivable(plans[at]) /\ UNCHANGED <<plans, at, late, planned>>
    BY <1>5 DEF StartGroup, Turn
  <2>2. Share \in Nat /\ Scale * Rest(clock) = Share * R BY <2>1, ShareIsWhole
  <2>3. InAll' = D /\ AfterPlanning' = B /\ ToGo(plans', at') = R
    BY <2>1 DEF InAll, AfterPlanning
  <2> HIDE DEF D, R, B
  <2>4. D * (Scale * Rest(clock) + late) >= R * B BY <2>1 DEF FairInv, D, R, B
  <2>5. /\ until' = Scale * began' + Share /\ Scale * Rest(began') = Share * ToGo(plans', at')
        /\ InAll' * (Share * ToGo(plans', at') + late') >= ToGo(plans', at') * AfterPlanning'
    BY <2>1, <2>2, <2>3, <2>4
  <2> QED BY <2>1, <2>2, <2>5 DEF FairInv, Busy
<1>6. CASE BeginPair \/ BeginMix \/ CallReturns \/ BeatWrites \/ EndPair
  <2>1. /\ stage \in Busy /\ stage' \in Busy /\ UNCHANGED <<plans, at, late, planned, until, began>>
    BY <1>6 DEF BeginPair, BeginMix, CallReturns, BeatWrites, EndPair, Driving, Busy, history
  <2>2. stage' # "groups" BY <2>1 DEF Busy
  <2> QED BY <2>1, <2>2 DEF FairInv, InAll, AfterPlanning
<1>7. CASE EndMix \/ OutOfTime
  <2>1. /\ stage \in Busy /\ stage' = "groups" /\ at' = at + 1 /\ UNCHANGED <<plans, planned>>
        /\ late' = late + Over(Scale * clock')
    BY <1>7 DEF EndMix, OutOfTime, CloseGroup, Busy
  <2>2. clock' \in Nat
    <3>1. ClockInv' BY ClockStep
    <3> QED BY <3>1 DEF ClockInv
  <2>3. PICK q \in Nat : /\ until = Scale * began + q /\ Scale * Rest(began) = q * R
                         /\ D * (q * R + late) >= R * B
    BY <2>1 DEF FairInv
  <2>4. at <= Len(plans) /\ Drivable(plans[at]) /\ began \in Nat /\ until \in Nat /\ B \in Int
    BY <1>2, <2>1 DEF ClockInv, Busy, Later
  <2>5. R = ToGo(plans, at + 1) + 1 BY <1>0, <2>4, ToGoNext
  <2>6. ToGo(plans, at + 1) \in Nat
    <3>1. at + 1 \in Nat /\ at + 1 >= 1 BY <1>0
    <3> QED BY <1>0, <3>1, ToGoIsSmall
  <2> DEFINE over == Over(Scale * clock')  unused == Scale * Rest(clock')
  <2>13. R \in Nat /\ R > 0 BY <2>5, <2>6
  <2> HIDE DEF R
  <2>7. unused + over >= q * (R - 1)
    BY <2>2, <2>3, <2>4, <2>13, LeftOver DEF Over
  <2>8. D * (q * (R - 1) + late) >= (R - 1) * B
    <3> HIDE DEF D, B
    <3> QED BY <1>0, <1>1, <2>3, <2>4, <2>13, RestIsFair
  <2>9. unused \in Nat /\ over \in Nat
    <3>1. Scale * Rest(clock') \in Nat /\ Scale * clock' \in Nat BY <2>2, PartsAreWhole
    <3> QED BY <1>0, <2>4, <3>1 DEF Over
  <2>10. InAll' = D /\ AfterPlanning' = B /\ ToGo(plans', at') = R - 1 /\ late' = late + over
    BY <2>1, <2>5, <2>6 DEF InAll, AfterPlanning, R
  <2> HIDE DEF D, R, B, over, unused
  <2>11. D * (unused + (late + over)) >= (R - 1) * B
    <3>1. R - 1 \in Nat BY <2>13
    <3>2. q * (R - 1) \in Nat BY <3>1
    <3>3. unused + (late + over) >= q * (R - 1) + late BY <1>0, <2>7, <2>9, <3>2
    <3>4. D * (unused + (late + over)) >= D * (q * (R - 1) + late)
      BY <1>0, <1>1, <2>9, <3>2, <3>3, MoreOfMore
    <3> QED BY <1>0, <1>1, <2>4, <2>8, <2>9, <3>1, <3>2, <3>4
  <2>12. InAll' * (Scale * Rest(clock') + late') >= ToGo(plans', at') * AfterPlanning'
    BY <2>10, <2>11 DEF unused
  <2> QED BY <2>1, <2>12 DEF FairInv, Busy
<1>8. CASE Load \/ PlanGroup \/ Unmatched \/ Finish \/ Dies
  <2>1. stage' # "groups" /\ stage' \notin Busy
    BY <1>8 DEF Load, PlanGroup, Unmatched, Finish, Dies, Busy
  <2> QED BY <2>1 DEF FairInv
<1>9. CASE UNCHANGED vars
  BY <1>9 DEF vars, history, FairInv, InAll, AfterPlanning
<1> QED BY <1>3, <1>4, <1>5, <1>6, <1>7, <1>8, <1>9 DEF Next

LEMMA FairnessFollows == ASSUME ClockInv, FairInv PROVE FairShare
<1> SUFFICES ASSUME stage \in Busy
             PROVE  InAll * (until - Scale * began + late) >= AfterPlanning
  BY DEF FairShare, Busy, InAll, AfterPlanning, ToGo, DrivableGroups
<1> DEFINE D == InAll   R == ToGo(plans, at)   B == AfterPlanning
<1>0. /\ at \in Nat /\ at >= 1 /\ at <= Len(plans) /\ late \in Nat /\ Len(plans) \in Nat /\ began \in Nat
      /\ Budget \in Nat /\ Scale \in Nat /\ planned \in Nat /\ Drivable(plans[at])
  BY Constants DEF ClockInv, Busy, Later
<1>1. PICK q \in Nat : until = Scale * began + q /\ D * (q * R + late) >= R * B
  BY DEF FairInv
<1>2. D \in Nat /\ R \in Nat
  <2>1. 1 \in Nat /\ 1 >= 1 OBVIOUS
  <2>2. D \in Nat BY <1>0, <2>1, ToGoIsSmall DEF InAll
  <2> QED BY <1>0, <2>2, ToGoIsSmall
<1>3. R > 0
  <2>1. R = ToGo(plans, at + 1) + 1 BY <1>0, ToGoNext
  <2>2. at + 1 \in Nat /\ at + 1 >= 1 BY <1>0
  <2>3. ToGo(plans, at + 1) \in Nat BY <1>0, <2>2, ToGoIsSmall
  <2> QED BY <2>1, <2>3
<1>4. B \in Int BY <1>0 DEF AfterPlanning
<1> HIDE DEF D, R, B
<1>5. D * (q + late) >= B BY <1>0, <1>1, <1>2, <1>3, <1>4, ShareIsFair
<1>6. until - Scale * began = q BY <1>0, <1>1
<1> QED BY <1>5, <1>6 DEF D, B

LEMMA AlwaysFair == Spec => [](ClockInv /\ FairInv)
<1>1. ClockInv /\ FairInv /\ [Next]_vars => (ClockInv /\ FairInv)' BY ClockStep, FairStep
<1> QED BY <1>1, ClockInit, PTL DEF Spec

\* No group starves another, however long planning, factories and calls take
\* (the shares that main() gives out).
THEOREM NoGroupStarves == Spec => []FairShare
<1>1. ClockInv /\ FairInv => FairShare BY FairnessFollows
<1> QED BY <1>1, AlwaysFair, PTL

-----------------------------------------------------------------------------
(* SurfaceIsWhole. *)

\* An entry and the plan it is made from: its callables are driven or confined,
\* none is lost.
Fields == {"group", "driven", "confined", "not", "started", "busy", "pairs", "total", "exhausted"}
IsEntry(e) == DOMAIN e = Fields

Fits(e, p) ==
  /\ IsEntry(e) /\ e.group = p.group /\ e.not = p.not
  /\ \/ e.driven = p.calls /\ e.confined = {}
     \/ e.driven = {} /\ e.confined = p.calls /\ p.confined

FitAll(es) == DOMAIN es = 1 .. Len(plans) /\ \A i \in 1 .. Len(plans) : Fits(es[i], plans[i])

PlannedGroups == {plans[i].group : i \in 1 .. Len(plans)}
WantedGroups  == {g \in surface : Wanted(g)}

\* The groups are planned in order, each once; from the first file on that is
\* all of them, and every file has an entry for each.
SurfaceInv ==
  /\ surface \subseteq Groups
  /\ \A i, j \in 1 .. Len(plans) : plans[i].group = plans[j].group => i = j
  /\ stage \in {"load", "plan"} => file = NoFile
  /\ stage = "plan" => PlannedGroups = {g \in WantedGroups : g < at}
  /\ stage \in Later => PlannedGroups = WantedGroups
  /\ stage \in Later \ {"done"} =>
       FitAll(entries) /\ \A i \in 1 .. Len(plans) : i >= at => entries[i].confined = {}
  /\ file # NoFile /\ ~file.unmatched => PlannedGroups = WantedGroups /\ FitAll(file.groups)

LEMMA EntriesFit == ASSUME NEW p PROVE Fits(Entry(p), p)
BY DEF Entry, Fits, IsEntry, Fields

LEMMA UpdatesFit ==
  ASSUME NEW e, NEW p, Fits(e, p), NEW n, NEW b
  PROVE  /\ Fits(Begun(e, b), p) /\ Fits(PairDone(e, n), p) /\ Fits(Closed(e, n, b), p)
         /\ p.confined /\ e.confined = {} => Fits(SetAside(e), p)
<1> USE DEF IsEntry, Fields
<1>1. Fits(Begun(e, b), p) BY DEF Fits, Begun
<1>2. Fits(PairDone(e, n), p) BY DEF Fits, PairDone
<1>3. Fits(Closed(e, n, b), p) BY DEF Fits, Closed
<1>4. p.confined /\ e.confined = {} => Fits(SetAside(e), p) BY DEF Fits, SetAside
<1> QED BY <1>1, <1>2, <1>3, <1>4

\* One entry is replaced.
LEMMA OneChanges ==
  ASSUME NEW es, FitAll(es), NEW k \in 1 .. Len(plans), NEW e, Fits(e, plans[k])
  PROVE  FitAll([es EXCEPT ![k] = e])
BY DEF FitAll

LEMMA WorldStays ==
  ASSUME [Next]_vars
  PROVE  UNCHANGED <<world, only>> /\ (~Load => UNCHANGED surface) /\ (~PlanGroup => UNCHANGED plans)
BY DEF Next, vars, Load, PlanGroup, Unmatched, Planned, PassOver, StartGroup, BeginPair, BeginMix,
   CallReturns, BeatWrites, EndPair, EndMix, OutOfTime, CloseGroup, Finish, Dies, fixed

\* A step of a driver that has planned: one entry changes at most, and what is
\* written is what is in the result by then.
LEMMA ResultStep ==
  ASSUME SurfaceInv, stage \in Later \ {"done"}, UNCHANGED <<world, only, surface, plans>>, stage' \in Later,
         FitAll(entries'),
         stage' # "done" => \A i \in 1 .. Len(plans) : i >= at' => entries'[i].confined = {},
         file' = file \/ \E complete \in BOOLEAN : file' = Result(complete, entries')
  PROVE  SurfaceInv'
<1>1. PlannedGroups' = PlannedGroups /\ WantedGroups' = WantedGroups
  BY DEF PlannedGroups, WantedGroups, Wanted
<1>2. stage' \notin {"load", "plan"} /\ PlannedGroups = WantedGroups
  BY DEF Later, SurfaceInv
<1>3. file' # NoFile /\ ~file'.unmatched => FitAll(file'.groups)
  BY DEF SurfaceInv, Result
<1> QED BY <1>1, <1>2, <1>3 DEF SurfaceInv, FitAll

LEMMA SurfaceInit == Init => SurfaceInv
BY DEF Init, SurfaceInv, NoFile, Later

LEMMA SurfaceStep == ASSUME ClockInv, SurfaceInv, [Next]_vars PROVE SurfaceInv'
<1>0. /\ at \in Nat /\ at >= 1 /\ Len(plans) \in Nat /\ plans \in Seq(Plans)
      /\ UNCHANGED <<world, only>> /\ NGroups \in Nat
  BY WorldStays, Constants DEF ClockInv
<1>1. CASE Load
  BY <1>1 DEF Load, SurfaceInv, ClockInv, Later, PlannedGroups, WantedGroups, Wanted, Groups
<1>2. CASE PlanGroup
  <2>1. /\ stage = "plan" /\ stage' = "plan" /\ at <= NGroups /\ at' = at + 1 /\ UNCHANGED <<surface, file>>
        /\ \/ Wanted(at) /\ plans' = Append(plans, PlanOf(at))
           \/ ~Wanted(at) /\ plans' = plans
    BY <1>2 DEF PlanGroup
  <2>2. /\ file = NoFile /\ surface \subseteq Groups /\ PlannedGroups = {g \in WantedGroups : g < at}
        /\ \A i, j \in 1 .. Len(plans) : plans[i].group = plans[j].group => i = j
    BY <2>1 DEF SurfaceInv
  <2>3. WantedGroups' = WantedGroups /\ \A g \in WantedGroups : g \in Nat
    BY <1>0, <2>1, <2>2 DEF WantedGroups, Wanted, Groups
  <2>4. CASE Wanted(at) /\ plans' = Append(plans, PlanOf(at))
    <3>1. at \in WantedGroups BY <2>4 DEF WantedGroups, Wanted
    <3>2. /\ Len(plans') = Len(plans) + 1 /\ plans'[Len(plans) + 1] = PlanOf(at)
          /\ \A i \in 1 .. Len(plans) : plans'[i] = plans[i]
      BY <1>0, <2>4
    <3>3. PlanOf(at).group = at BY DEF PlanOf
    <3>4. PlannedGroups' = PlannedGroups \cup {at}
      BY <1>0, <3>2, <3>3 DEF PlannedGroups
    <3>5. {g \in WantedGroups : g < at + 1} = {g \in WantedGroups : g < at} \cup {at}
      <4>1. \A g \in WantedGroups : g < at + 1 <=> g < at \/ g = at BY <1>0, <2>3
      <4> QED BY <3>1, <4>1
    <3>6. \A i \in 1 .. Len(plans) : plans[i].group # at
      <4>1. at \notin PlannedGroups BY <1>0, <2>2
      <4> QED BY <4>1 DEF PlannedGroups
    <3>7. \A i, j \in 1 .. Len(plans') : plans'[i].group = plans'[j].group => i = j
      <4> SUFFICES ASSUME NEW i \in 1 .. Len(plans'), NEW j \in 1 .. Len(plans'),
                          plans'[i].group = plans'[j].group
                   PROVE  i = j
        OBVIOUS
      <4>1. CASE i \in 1 .. Len(plans) /\ j \in 1 .. Len(plans) BY <2>2, <3>2, <4>1
      <4>2. CASE i = Len(plans) + 1 /\ j \in 1 .. Len(plans) BY <3>2, <3>3, <3>6, <4>2
      <4>3. CASE i \in 1 .. Len(plans) /\ j = Len(plans) + 1 BY <3>2, <3>3, <3>6, <4>3
      <4> QED BY <1>0, <3>2, <4>1, <4>2, <4>3
    <3>8. PlannedGroups' = {g \in WantedGroups' : g < at'} BY <2>1, <2>2, <2>3, <3>4, <3>5
    <3>9. stage' \notin Later /\ file' = NoFile BY <2>1, <2>2 DEF Later
    <3> QED BY <2>1, <2>2, <3>7, <3>8, <3>9 DEF SurfaceInv
  <2>5. CASE ~Wanted(at) /\ plans' = plans
    <3>1. at \notin WantedGroups BY <2>5 DEF WantedGroups
    <3>2. {g \in WantedGroups : g < at + 1} = {g \in WantedGroups : g < at}
      BY <1>0, <2>3, <3>1
    <3>3. PlannedGroups' = PlannedGroups BY <2>5 DEF PlannedGroups
    <3> QED BY <2>1, <2>2, <2>3, <2>5, <3>2, <3>3 DEF SurfaceInv, Later
  <2> QED BY <2>1, <2>4, <2>5
<1>3. ASSUME stage = "plan", at > NGroups PROVE PlannedGroups = WantedGroups
  <2>1. \A g \in WantedGroups : g \in Nat /\ g < at
    BY <1>0, <1>3 DEF WantedGroups, SurfaceInv, Groups
  <2> QED BY <1>3, <2>1 DEF SurfaceInv
<1>4. CASE Unmatched
  <2>1. /\ stage = "plan" /\ at > NGroups /\ stage' = "done" /\ UNCHANGED <<surface, plans>>
        /\ file'.unmatched
    BY <1>4 DEF Unmatched, NoFile
  <2> QED BY <1>0, <1>3, <2>1 DEF SurfaceInv, Later, PlannedGroups, WantedGroups, Wanted
<1>5. CASE Planned
  <2>1. /\ stage = "plan" /\ at > NGroups /\ stage' = "groups" /\ UNCHANGED <<surface, plans>>
        /\ entries' = [i \in 1 .. Len(plans) |-> Entry(plans[i])] /\ file' = Result(FALSE, entries')
    BY <1>5 DEF Planned
  <2>2. FitAll(entries') BY <2>1, EntriesFit DEF FitAll
  <2>3. \A i \in 1 .. Len(plans) : entries'[i].confined = {} BY <2>1 DEF Entry
  <2>4. file'.groups = entries' BY <2>1 DEF Result
  <2>5. PlannedGroups' = PlannedGroups /\ WantedGroups' = WantedGroups /\ PlannedGroups = WantedGroups
    BY <1>0, <1>3, <2>1 DEF PlannedGroups, WantedGroups, Wanted
  <2>6. FitAll(entries)' /\ FitAll(file.groups)' BY <2>1, <2>2, <2>4 DEF FitAll
  <2> QED BY <2>1, <2>3, <2>5, <2>6 DEF SurfaceInv, Later
<1>6. CASE PassOver
  <2>1. /\ stage = "groups" /\ at <= Len(plans) /\ at' = at + 1 /\ stage' = "groups" /\ UNCHANGED <<surface, plans>>
        /\ entries' = [entries EXCEPT ![at] = IF plans[at].confined THEN SetAside(entries[at]) ELSE Begun(entries[at], FALSE)]
        /\ file' = Result(FALSE, entries')
    BY <1>6 DEF PassOver, Turn
  <2>2. /\ FitAll(entries) /\ \A i \in 1 .. Len(plans) : i >= at => entries[i].confined = {}
    BY <2>1 DEF SurfaceInv, Later
  <2>3. Fits(entries[at], plans[at]) /\ entries[at].confined = {} BY <1>0, <2>1, <2>2 DEF FitAll
  <2> DEFINE e == IF plans[at].confined THEN SetAside(entries[at]) ELSE Begun(entries[at], FALSE)
  <2>4. Fits(e, plans[at]) BY <2>3, UpdatesFit
  <2> HIDE DEF e
  <2>7. at \in 1 .. Len(plans) BY <1>0, <2>1
  <2>5. FitAll([entries EXCEPT ![at] = e]) BY <2>2, <2>4, <2>7, OneChanges
  <2>6. \A i \in 1 .. Len(plans) : i >= at' => entries'[i].confined = {}
    <3>1. \A i \in 1 .. Len(plans) : i >= at' => i # at /\ i >= at BY <1>0, <2>1
    <3>2. \A i \in 1 .. Len(plans) : i # at => entries'[i] = entries[i] BY <2>1, <2>2 DEF FitAll
    <3> QED BY <2>2, <3>1, <3>2
  <2> QED BY <1>0, <2>1, <2>5, <2>6, ResultStep DEF Later, e
<1>7. ASSUME stage = "groups" \/ stage \in Busy, UNCHANGED <<surface, plans>>, stage' = "groups" \/ stage' \in Busy,
             at <= Len(plans), at' \in {at, at + 1}, file' = file \/ file' = Result(FALSE, entries'),
             NEW e, Fits(e, plans[at]), e.confined = {}, entries' = [entries EXCEPT ![at] = e]
      PROVE  SurfaceInv'
  <2>1. FitAll(entries) /\ \A i \in 1 .. Len(plans) : i >= at => entries[i].confined = {}
    BY <1>7 DEF SurfaceInv, Later, Busy
  <2>4. at \in 1 .. Len(plans) BY <1>0, <1>7
  <2>2. FitAll(entries') BY <1>7, <2>1, <2>4, OneChanges
  <2>3. \A i \in 1 .. Len(plans) : i >= at' => entries'[i].confined = {}
    BY <1>0, <1>7, <2>1 DEF FitAll
  <2> QED BY <1>0, <1>7, <2>2, <2>3, ResultStep DEF Later, Busy
<1>8. ASSUME stage = "groups" \/ stage \in Busy, at <= Len(plans)
      PROVE  /\ Fits(entries[at], plans[at]) /\ entries[at].confined = {}
             /\ \A n, b : /\ Fits(Begun(entries[at], b), plans[at]) /\ Begun(entries[at], b).confined = {}
                          /\ Fits(PairDone(entries[at], n), plans[at]) /\ PairDone(entries[at], n).confined = {}
                          /\ Fits(Closed(entries[at], n, b), plans[at]) /\ Closed(entries[at], n, b).confined = {}
  <2>1. Fits(entries[at], plans[at]) /\ entries[at].confined = {}
    BY <1>0, <1>8 DEF SurfaceInv, Later, Busy, FitAll
  <2>2. DOMAIN entries[at] = Fields BY <2>1 DEF Fits, IsEntry
  <2>3. \A n, b : /\ Begun(entries[at], b).confined = {} /\ PairDone(entries[at], n).confined = {}
                  /\ Closed(entries[at], n, b).confined = {}
    BY <2>1, <2>2 DEF Begun, PairDone, Closed, Fields
  <2> QED BY <2>1, <2>3, UpdatesFit
<1>9. CASE StartGroup
  <2>1. /\ stage = "groups" /\ at <= Len(plans) /\ at' = at /\ stage' = "between" /\ UNCHANGED <<surface, plans>>
        /\ entries' = [entries EXCEPT ![at] = Begun(entries[at], TRUE)] /\ file' = Result(FALSE, entries')
    BY <1>9 DEF StartGroup, Turn
  <2> QED BY <2>1, <1>7, <1>8 DEF Busy
<1>10. CASE EndPair
  <2>1. /\ stage = "phase" /\ at' = at /\ stage' = "between" /\ UNCHANGED <<surface, plans>>
        /\ entries' = [entries EXCEPT ![at] = PairDone(entries[at], Cardinality(Pairs(plans[at])))]
        /\ file' = file \/ file' = Result(FALSE, entries')
    BY <1>10 DEF EndPair
  <2>2. at <= Len(plans) BY <2>1 DEF ClockInv, Busy
  <2> QED BY <2>1, <2>2, <1>7, <1>8 DEF Busy
<1>11. CASE EndMix \/ OutOfTime
  <2>1. /\ stage \in Busy /\ at' = at + 1 /\ stage' = "groups" /\ UNCHANGED <<surface, plans>>
        /\ file' = Result(FALSE, entries')
        /\ \E out : entries' = [entries EXCEPT ![at] = Closed(entries[at], Cardinality(Pairs(plans[at])), out)]
    BY <1>11 DEF EndMix, OutOfTime, CloseGroup, Busy
  <2>2. at <= Len(plans) BY <2>1 DEF ClockInv, Busy
  <2> QED BY <2>1, <2>2, <1>7, <1>8 DEF Busy
<1>12. CASE BeginPair \/ BeginMix \/ CallReturns \/ BeatWrites \/ Finish
  <2>1. /\ stage \in Later \ {"done"} /\ stage' \in Later /\ UNCHANGED <<surface, plans, entries, at>>
        /\ file' = file \/ \E complete \in BOOLEAN : file' = Result(complete, entries')
    BY <1>12 DEF BeginPair, BeginMix, CallReturns, BeatWrites, Finish, Driving, Later
  <2>2. FitAll(entries) /\ \A i \in 1 .. Len(plans) : i >= at => entries[i].confined = {}
    BY <2>1 DEF SurfaceInv
  <2> QED BY <1>0, <2>1, <2>2, ResultStep
<1>13. CASE Dies
  <2>1. stage' = "dead" /\ UNCHANGED <<surface, plans, file>> BY <1>13 DEF Dies
  <2> QED BY <1>0, <2>1 DEF SurfaceInv, Later, PlannedGroups, WantedGroups, Wanted, FitAll
<1>14. CASE UNCHANGED vars
  BY <1>14 DEF vars, fixed, SurfaceInv, Later, PlannedGroups, WantedGroups, Wanted, FitAll
<1> QED BY <1>1, <1>2, <1>4, <1>5, <1>6, <1>9, <1>10, <1>11, <1>12, <1>13, <1>14 DEF Next

\* What SurfaceIsWhole says of an entry.
Whole(e) ==
  LET g == e.group
      reached == e.driven \cup e.confined
  IN  /\ {Call(g, k) : k \in Listed(g)} = {c \in reached \cup e.not : c[3] = "call"}
      /\ {c \in reached : c[3] = "set"} =
           {Set(g, k) : k \in {j \in Listed(g) : Call(g, j) \in reached
                                 /\ Mem(g, j).settable /\ Mem(g, j).kind = "property"}}
      /\ reached \cap e.not = {} /\ e.driven \cap e.confined = {}
      /\ e.confined # {} => world[g].unsendable

\* A plan takes, or lists as not driven, every listed member once.
LEMMA PlansAreWhole == ASSUME NEW g, NEW e, Fits(e, PlanOf(g)) PROVE e.group = g /\ Whole(e)
<1> DEFINE S == {j \in Taken(g) : Mem(g, j).kind = "property" /\ Mem(g, j).settable}
           C == {Call(g, k) : k \in Taken(g)}   T == {Set(g, k) : k \in S}
           N == {Call(g, k) : k \in Listed(g) \ Taken(g)}
<1>1. Taken(g) \subseteq Listed(g) BY DEF Taken
<1>2. /\ e.group = g /\ e.not = N /\ e.driven \cup e.confined = C \cup T
      /\ e.driven = {} \/ e.confined = {}
      /\ e.confined # {} => Confined(g)
  BY DEF Fits, PlanOf, Calls
<1>3. \A k : /\ Call(g, k)[3] = "call" /\ Set(g, k)[3] = "set" /\ Call(g, k)[2] = k
  BY DEF Call, Set
<1>4. \A j, k : Call(g, j) = Call(g, k) => j = k BY <1>3
<1>5. {c \in (C \cup T) \cup N : c[3] = "call"} = C \cup N BY <1>3
<1>6. C \cup N = {Call(g, k) : k \in Listed(g)} BY <1>1
<1>7. {c \in C \cup T : c[3] = "set"} = T BY <1>3
<1>8. \A k \in Listed(g) : Call(g, k) \in C \cup T <=> k \in Taken(g) BY <1>3, <1>4
<1>9. {j \in Listed(g) : Call(g, j) \in C \cup T /\ Mem(g, j).settable /\ Mem(g, j).kind = "property"} = S
  BY <1>1, <1>8
<1>10. (C \cup T) \cap N = {} BY <1>3, <1>4
<1>11. Confined(g) => world[g].unsendable BY DEF Confined, Refused
<1> HIDE DEF S, C, N
<1> QED BY <1>2, <1>5, <1>6, <1>7, <1>9, <1>10, <1>11 DEF Whole

\* As many entries as there are plans: no two are of one group.
LEMMA EntriesAreApart ==
  ASSUME ClockInv, SurfaceInv, NEW es, FitAll(es)
  PROVE  Len(es) = Len(plans) /\ Cardinality({es[i] : i \in 1 .. Len(es)}) = Len(plans)
<1> DEFINE I == 1 .. Len(plans)   E == {es[i] : i \in I}   f == [i \in I |-> es[i]]
<1>1. Len(plans) \in Nat BY DEF ClockInv
<1>2. DOMAIN es = 1 .. Len(plans) BY DEF FitAll
<1>3. Len(es) = Len(plans) BY <1>1, <1>2
<1>4. f \in Bijection(I, E)
  <2>1. f \in [I -> E] OBVIOUS
  <2>2. \A i, j \in I : f[i] = f[j] => i = j BY DEF FitAll, Fits, SurfaceInv
  <2>3. \A x \in E : \E i \in I : f[i] = x OBVIOUS
  <2> QED BY <2>1, <2>2, <2>3, Fun_IsBij
<1>5. ExistsBijection(I, E) BY <1>4 DEF ExistsBijection
<1>6. IsFiniteSet(I) /\ Cardinality(I) = Len(plans) BY <1>1, FirstNumbers
<1>7. Cardinality(E) = Cardinality(I) BY <1>5, <1>6, FS_Bijection
<1> QED BY <1>3, <1>6, <1>7

LEMMA SurfaceFollows == ASSUME ClockInv, SurfaceInv PROVE SurfaceIsWhole
<1> SUFFICES ASSUME file # NoFile, ~file.unmatched
             PROVE  /\ {e.group : e \in EntriesOf(file)} = WantedGroups
                    /\ Len(file.groups) = Cardinality(EntriesOf(file))
                    /\ \A e \in EntriesOf(file) : Whole(e)
  BY DEF SurfaceIsWhole, WantedGroups, Whole
<1>1. FitAll(file.groups) /\ PlannedGroups = WantedGroups BY DEF SurfaceInv
<1>2. Len(file.groups) = Len(plans) /\ Cardinality(EntriesOf(file)) = Len(plans)
  BY <1>1, EntriesAreApart DEF EntriesOf
<1>3. \A i \in 1 .. Len(plans) : \E g : plans[i] = PlanOf(g) BY DEF ClockInv, Plans
<1>4. \A i \in 1 .. Len(plans) : Fits(file.groups[i], plans[i]) BY <1>1 DEF FitAll
<1>5. \A e \in EntriesOf(file) : Whole(e) BY <1>2, <1>3, <1>4, PlansAreWhole DEF EntriesOf
<1>6. \A i \in 1 .. Len(plans) : file.groups[i].group = plans[i].group BY <1>4 DEF Fits
<1>7. {e.group : e \in EntriesOf(file)} = PlannedGroups BY <1>2, <1>6 DEF EntriesOf, PlannedGroups
<1> QED BY <1>1, <1>2, <1>5, <1>7

\* Whenever a run ends, the result file it left has the whole surface, each
\* member once (plan_type, plan_functions, main, _write_result).
THEOREM SurfaceIsNeverCut == Spec => []SurfaceIsWhole
<1>1. ClockInv /\ SurfaceInv => SurfaceIsWhole BY SurfaceFollows
<1>2. ClockInv /\ SurfaceInv /\ [Next]_vars => SurfaceInv' BY SurfaceStep
<1> QED BY <1>1, <1>2, SurfaceInit, AlwaysFair, PTL DEF Spec

-----------------------------------------------------------------------------
(* CoverageIsEarned. *)

\* The callables of groups of which a pair was driven to its end.
Covered(es) == UNION {es[i].driven : i \in {j \in 1 .. Len(plans) : es[j].pairs > 0}}

\* What returned is of a group with a pair, or of the pair that runs; nothing
\* is complete before the end.
CoverInv ==
  /\ stage \in Later \ {"done"} =>
       \A i \in 1 .. Len(plans) : /\ entries[i].pairs \in Nat
                                  /\ (IF stage = "groups" THEN i >= at ELSE i > at) => entries[i].pairs = 0
  /\ stage \in {"load", "plan"} => returned = {}
  /\ stage \in {"groups", "between", "mixed"} => returned \subseteq Covered(entries)
  /\ stage = "phase" => /\ phase \subseteq plans[at].calls
                        /\ returned \subseteq Covered(entries) \cup plans[at].calls
  /\ stage = "mixed" => phase = plans[at].calls /\ entries[at].pairs > 0
  /\ stage = "between" => left = Pairs(plans[at]) \/ entries[at].pairs > 0
  /\ stage \in Busy => left \subseteq Pairs(plans[at])
  /\ file.returned \subseteq returned
  /\ file.complete => stage = "done" /\ (~file.unmatched => returned \subseteq Covered(file.groups)
                                                            /\ file.returned = returned)

\* An entry that gets no worse keeps what is covered.
LEMMA CoverGrows ==
  ASSUME NEW es, NEW k \in 1 .. Len(plans), DOMAIN es = 1 .. Len(plans), NEW e,
         e.driven = es[k].driven, es[k].pairs > 0 => e.pairs > 0
  PROVE  Covered(es) \subseteq Covered([es EXCEPT ![k] = e])
BY DEF Covered

LEMMA CoverageFollows == ASSUME ClockInv, SurfaceInv, CoverInv PROVE CoverageIsEarned
<1>1. Driven(file) \subseteq Total(file) /\ Driven(file) \subseteq returned
  <2>1. Driven(file) \subseteq file.returned BY DEF Driven
  <2>2. ASSUME NEW c \in Driven(file) PROVE c \in Total(file)
    <3>1. PICK e \in EntriesOf(file) : c \in e.driven BY <2>2 DEF Driven
    <3> QED BY <3>1 DEF Total
  <2> QED BY <2>1, <2>2 DEF CoverInv
<1>2. ASSUME file.complete, ~file.unmatched PROVE Driven(file) = returned
  <2>1. file # NoFile BY <1>2 DEF NoFile
  <2>2. FitAll(file.groups) BY <1>2, <2>1 DEF SurfaceInv
  <2>3. Len(file.groups) = Len(plans) BY <2>2, EntriesAreApart
  <2>4. Covered(file.groups) = UNION {e.driven : e \in {x \in EntriesOf(file) : x.pairs > 0}}
    BY <2>3 DEF Covered, EntriesOf
  <2>5. returned \subseteq Covered(file.groups) /\ file.returned = returned BY <1>2 DEF CoverInv
  <2>6. Driven(file) = Covered(file.groups) \cap file.returned BY <2>4 DEF Driven
  <2> QED BY <2>5, <2>6
<1> QED BY <1>1, <1>2 DEF CoverageIsEarned

LEMMA CoverInit == Init => CoverInv
BY DEF Init, CoverInv, NoFile, Later, Busy

\* What an entry keeps when it is replaced.
LEMMA KeptByUpdates ==
  ASSUME NEW e, IsEntry(e), NEW n, NEW b
  PROVE  /\ Begun(e, b).driven = e.driven /\ Begun(e, b).pairs = e.pairs
         /\ PairDone(e, n).driven = e.driven /\ PairDone(e, n).pairs = e.pairs + 1
         /\ Closed(e, n, b).driven = e.driven /\ Closed(e, n, b).pairs = e.pairs
         /\ SetAside(e).pairs = e.pairs /\ SetAside(e).driven = {}
BY DEF IsEntry, Fields, Begun, PairDone, Closed, SetAside

\* A step that writes what is in the result, with the pairs of each entry.
LEMMA CoverStepOf ==
  ASSUME CoverInv, stage \in Later \ {"done"}, stage' \in Later \ {"done"}, UNCHANGED plans,
         returned \subseteq returned',
         \A i \in 1 .. Len(plans) : entries'[i].pairs \in Nat,
         \A i \in 1 .. Len(plans) :
           (IF stage' = "groups" THEN i >= at' ELSE i > at') => entries'[i].pairs = 0,
         file' = file \/ file' = Result(FALSE, entries') \/ file' = Result(FALSE, entries),
         stage' \in {"groups", "between", "mixed"} => returned' \subseteq Covered(entries'),
         stage' = "phase" => /\ phase' \subseteq plans[at'].calls
                             /\ returned' \subseteq Covered(entries') \cup plans[at'].calls,
         stage' = "mixed" => phase' = plans[at'].calls /\ entries'[at'].pairs > 0,
         stage' = "between" => left' = Pairs(plans[at']) \/ entries'[at'].pairs > 0,
         stage' \in Busy => left' \subseteq Pairs(plans[at'])
  PROVE  CoverInv'
<1>1. file'.returned \subseteq returned' /\ ~file'.complete
  BY DEF CoverInv, Result
<1>2. stage' # "load" /\ stage' # "plan" /\ stage' # "done" BY DEF Later
<1>3. Covered(entries)' = Covered(entries') BY DEF Covered
<1> QED BY <1>1, <1>2, <1>3 DEF CoverInv

LEMMA CoverStep == ASSUME ClockInv, SurfaceInv, SurfaceInv', CoverInv, [Next]_vars PROVE CoverInv'
<1>0. /\ at \in Nat /\ at >= 1 /\ Len(plans) \in Nat /\ UNCHANGED <<world, only>>
  BY WorldStays DEF ClockInv
<1>1. CASE Load \/ PlanGroup
  <2>1. stage \in {"load", "plan"} /\ stage' = "plan" /\ UNCHANGED <<returned, file>>
    BY <1>1 DEF Load, PlanGroup
  <2> QED BY <2>1 DEF CoverInv, Later, Busy
<1>2. CASE Unmatched
  <2>1. stage = "plan" /\ stage' = "done" /\ UNCHANGED returned /\ file'.unmatched /\ file'.returned = {}
    BY <1>2 DEF Unmatched, NoFile
  <2> QED BY <2>1 DEF CoverInv, Later, Busy
<1>3. CASE Planned
  <2>1. /\ stage = "plan" /\ stage' = "groups" /\ UNCHANGED <<returned, plans>>
        /\ entries' = [i \in 1 .. Len(plans) |-> Entry(plans[i])] /\ file' = Result(FALSE, entries')
    BY <1>3 DEF Planned
  <2>2. \A i \in 1 .. Len(plans) : entries'[i].pairs = 0 BY <2>1 DEF Entry
  <2>3. returned = {} BY <2>1 DEF CoverInv
  <2>4. file'.returned = {} /\ ~file'.complete BY <2>1, <2>3 DEF Result
  <2>5. returned' = {} BY <2>1, <2>3
  <2>6. \A i \in 1 .. Len(plans') : entries'[i].pairs \in Nat /\ entries'[i].pairs = 0 BY <2>1, <2>2
  <2>7. stage' \notin {"phase", "mixed", "between", "done"} BY <2>1
  <2>8. stage' \notin Busy BY <2>1 DEF Busy
  <2> QED BY <2>4, <2>5, <2>6, <2>7, <2>8 DEF CoverInv
<1>4. ASSUME stage \in {"groups"} \cup Busy
      PROVE  /\ FitAll(entries) /\ DOMAIN entries = 1 .. Len(plans)
             /\ \A i \in 1 .. Len(plans) : entries[i].pairs \in Nat
             /\ \A i \in 1 .. Len(plans) : (IF stage = "groups" THEN i >= at ELSE i > at) => entries[i].pairs = 0
  BY <1>4 DEF SurfaceInv, CoverInv, Later, Busy, FitAll
<1>5. ASSUME stage \in {"groups"} \cup Busy, at <= Len(plans)
      PROVE  at \in 1 .. Len(plans) /\ IsEntry(entries[at]) /\ entries[at].pairs \in Nat
  BY <1>0, <1>4, <1>5 DEF FitAll, Fits
<1>6. ASSUME stage \in Busy PROVE at <= Len(plans) /\ Drivable(plans[at])
  BY <1>6 DEF ClockInv
<1>7. ASSUME stage \in {"groups"} \cup Busy, at <= Len(plans),
             NEW e, entries' = [entries EXCEPT ![at] = e], e.pairs \in Nat,
             e.driven = entries[at].driven \/ entries[at].pairs = 0, e.pairs >= entries[at].pairs
      PROVE  /\ Covered(entries) \subseteq Covered(entries')
             /\ \A i \in 1 .. Len(plans) : entries'[i].pairs \in Nat
             /\ \A i \in 1 .. Len(plans) : i > at => entries'[i].pairs = 0
  <2>1. at \in 1 .. Len(plans) /\ DOMAIN entries = 1 .. Len(plans) /\ entries[at].pairs \in Nat
    BY <1>4, <1>5, <1>7
  <2>2. \A i \in 1 .. Len(plans) : entries'[i] = IF i = at THEN e ELSE entries[i] BY <1>7, <2>1
  <2>3. ASSUME NEW i \in 1 .. Len(plans), entries[i].pairs > 0
        PROVE  entries'[i].pairs > 0 /\ entries'[i].driven = entries[i].driven
    BY <1>7, <2>1, <2>2, <2>3
  <2>4. Covered(entries) \subseteq Covered(entries') BY <2>3 DEF Covered
  <2>5. \A i \in 1 .. Len(plans) : entries'[i].pairs \in Nat BY <1>4, <1>7, <2>2
  <2>6. \A i \in 1 .. Len(plans) : i > at => entries'[i].pairs = 0 BY <1>0, <1>4, <1>7, <2>2 DEF Busy
  <2> QED BY <2>4, <2>5, <2>6
<1>8. CASE PassOver
  <2>1. /\ stage = "groups" /\ at <= Len(plans) /\ at' = at + 1 /\ stage' = "groups" /\ UNCHANGED <<plans, returned>>
        /\ entries' = [entries EXCEPT ![at] = IF plans[at].confined THEN SetAside(entries[at]) ELSE Begun(entries[at], FALSE)]
        /\ file' = Result(FALSE, entries')
    BY <1>8 DEF PassOver, Turn
  <2> DEFINE e == IF plans[at].confined THEN SetAside(entries[at]) ELSE Begun(entries[at], FALSE)
  <2>2. IsEntry(entries[at]) /\ entries[at].pairs = 0 BY <1>0, <1>4, <1>5, <2>1
  <2>3. e.pairs = 0 BY <2>2, KeptByUpdates
  <2> HIDE DEF e
  <2>7. entries' = [entries EXCEPT ![at] = e] BY <2>1 DEF e
  <2>9. /\ stage \in {"groups"} \cup Busy /\ at <= Len(plans)
        /\ e.pairs \in Nat /\ e.pairs >= entries[at].pairs
    BY <2>1, <2>2, <2>3
  <2>4. /\ Covered(entries) \subseteq Covered(entries')
        /\ \A i \in 1 .. Len(plans) : entries'[i].pairs \in Nat
        /\ \A i \in 1 .. Len(plans) : i > at => entries'[i].pairs = 0
    BY <1>7, <2>2, <2>7, <2>9
  <2>5. \A i \in 1 .. Len(plans) : i >= at' => i > at BY <1>0, <2>1
  <2>6. returned \subseteq Covered(entries) BY <2>1 DEF CoverInv
  <2> QED BY <2>1, <2>4, <2>5, <2>6, CoverStepOf DEF Later, Busy
<1>9. CASE StartGroup
  <2>1. /\ stage = "groups" /\ at <= Len(plans) /\ at' = at /\ stage' = "between" /\ UNCHANGED <<plans, returned>>
        /\ entries' = [entries EXCEPT ![at] = Begun(entries[at], TRUE)] /\ file' = Result(FALSE, entries')
        /\ left' = Pairs(plans[at])
    BY <1>9 DEF StartGroup, Turn
  <2>2. IsEntry(entries[at]) /\ entries[at].pairs = 0 BY <1>0, <1>4, <1>5, <2>1
  <2> DEFINE e == Begun(entries[at], TRUE)
  <2>3. e.pairs = 0 BY <2>2, KeptByUpdates
  <2> HIDE DEF e
  <2>5. entries' = [entries EXCEPT ![at] = e] BY <2>1 DEF e
  <2>9. /\ stage \in {"groups"} \cup Busy /\ at <= Len(plans)
        /\ e.pairs \in Nat /\ e.pairs >= entries[at].pairs
    BY <2>1, <2>2, <2>3
  <2>4. /\ Covered(entries) \subseteq Covered(entries')
        /\ \A i \in 1 .. Len(plans) : entries'[i].pairs \in Nat
        /\ \A i \in 1 .. Len(plans) : i > at => entries'[i].pairs = 0
    BY <1>7, <2>2, <2>5, <2>9
  <2>6. returned \subseteq Covered(entries) BY <2>1 DEF CoverInv
  <2> QED BY <2>1, <2>4, <2>6, CoverStepOf DEF Later, Busy
<1>10. CASE BeginPair
  <2>1. /\ stage = "between" /\ stage' = "phase" /\ UNCHANGED <<plans, returned, entries, at, file>>
        /\ phase' \in left /\ left' \subseteq left
    BY <1>10 DEF BeginPair
  <2>2. phase' \subseteq plans[at].calls /\ left' \subseteq Pairs(plans[at])
    BY <2>1 DEF CoverInv, Busy, Pairs
  <2>3. returned \subseteq Covered(entries) BY <2>1 DEF CoverInv
  <2> QED BY <1>4, <2>1, <2>2, <2>3, CoverStepOf DEF Later, Busy
<1>11. CASE BeginMix
  <2>1. /\ stage = "between" /\ stage' = "mixed" /\ UNCHANGED <<plans, returned, entries, at, file, left>>
        /\ phase' = plans[at].calls /\ left = {}
    BY <1>11 DEF BeginMix
  <2>2. PICK c \in plans[at].calls : TRUE BY <1>6, <2>1 DEF Busy, Drivable
  <2>3. {c, c} \in Pairs(plans[at]) BY <2>2 DEF Pairs
  <2>4. entries[at].pairs > 0 BY <2>1, <2>3 DEF CoverInv
  <2>5. returned \subseteq Covered(entries) BY <2>1 DEF CoverInv
  <2> QED BY <1>4, <2>1, <2>4, <2>5, CoverStepOf DEF Later, Busy
<1>12. ASSUME stage \in Busy PROVE entries[at].driven = plans[at].calls
  <2>1. Fits(entries[at], plans[at]) BY <1>0, <1>4, <1>6, <1>12 DEF FitAll
  <2>2. entries[at].confined = {} BY <1>0, <1>6, <1>12 DEF SurfaceInv, Later, Busy
  <2> QED BY <2>1, <2>2 DEF Fits
<1>13. CASE CallReturns
  <2>1. /\ stage \in {"phase", "mixed"} /\ UNCHANGED <<stage, plans, entries, at, file, left, phase>>
        /\ returned \subseteq returned' /\ returned' \subseteq returned \cup phase
    BY <1>13 DEF CallReturns, Driving
  <2>2. CASE stage = "phase"
    <3>1. returned' \subseteq Covered(entries) \cup plans[at].calls /\ phase \subseteq plans[at].calls
      BY <2>1, <2>2 DEF CoverInv
    <3>2. left \subseteq Pairs(plans[at]) BY <2>2 DEF CoverInv, Busy
    <3> QED BY <1>4, <2>1, <2>2, <3>1, <3>2, CoverStepOf DEF Later, Busy
  <2>3. CASE stage = "mixed"
    <3>1. plans[at].calls \subseteq Covered(entries)
      <4>1. entries[at].pairs > 0 /\ at \in 1 .. Len(plans) /\ entries[at].driven = plans[at].calls
        BY <1>0, <1>6, <1>12, <2>3 DEF CoverInv, Busy
      <4> QED BY <4>1 DEF Covered
    <3>2. returned' \subseteq Covered(entries) /\ phase = plans[at].calls /\ entries[at].pairs > 0
      BY <2>1, <2>3, <3>1 DEF CoverInv
    <3>3. left \subseteq Pairs(plans[at]) BY <2>3 DEF CoverInv, Busy
    <3> QED BY <1>4, <2>1, <2>3, <3>2, <3>3, CoverStepOf DEF Later, Busy
  <2> QED BY <2>1, <2>2, <2>3
<1>14. CASE BeatWrites
  <2>1. /\ stage \in {"phase", "mixed"} /\ UNCHANGED <<stage, plans, entries, at, left, phase, returned>>
        /\ file' = Result(FALSE, entries)
    BY <1>14 DEF BeatWrites, Driving
  <2>2. /\ stage = "phase" => phase \subseteq plans[at].calls /\ returned \subseteq Covered(entries) \cup plans[at].calls
        /\ stage = "mixed" => phase = plans[at].calls /\ entries[at].pairs > 0 /\ returned \subseteq Covered(entries)
        /\ left \subseteq Pairs(plans[at])
    BY <2>1 DEF CoverInv, Busy
  <2> QED BY <1>4, <2>1, <2>2, CoverStepOf DEF Later, Busy
<1>15. CASE EndPair
  <2>1. /\ stage = "phase" /\ stage' = "between" /\ at' = at /\ UNCHANGED <<plans, returned, left>>
        /\ entries' = [entries EXCEPT ![at] = PairDone(entries[at], Cardinality(Pairs(plans[at])))]
        /\ file' = file \/ file' = Result(FALSE, entries')
    BY <1>15 DEF EndPair
  <2> DEFINE e == PairDone(entries[at], Cardinality(Pairs(plans[at])))
  <2>2. at <= Len(plans) /\ stage \in {"groups"} \cup Busy BY <1>6, <2>1 DEF Busy
  <2>3. at \in 1 .. Len(plans) /\ IsEntry(entries[at]) /\ entries[at].pairs \in Nat
        /\ DOMAIN entries = 1 .. Len(plans)
    BY <1>4, <1>5, <2>2
  <2>4. e.driven = entries[at].driven /\ e.pairs = entries[at].pairs + 1 BY <2>3, KeptByUpdates
  <2> HIDE DEF e
  <2>5. /\ entries' = [entries EXCEPT ![at] = e] /\ e.pairs \in Nat /\ e.pairs >= entries[at].pairs
    BY <2>1, <2>3, <2>4 DEF e
  <2>6. /\ Covered(entries) \subseteq Covered(entries')
        /\ \A i \in 1 .. Len(plans) : entries'[i].pairs \in Nat
        /\ \A i \in 1 .. Len(plans) : i > at => entries'[i].pairs = 0
    BY <1>7, <2>2, <2>3, <2>4, <2>5
  <2>7. entries'[at].pairs > 0 /\ entries'[at].driven = plans[at].calls
    BY <1>12, <2>1, <2>3, <2>4, <2>5 DEF Busy
  <2>8. plans[at].calls \subseteq Covered(entries') BY <2>3, <2>7 DEF Covered
  <2>9. returned \subseteq Covered(entries') /\ left \subseteq Pairs(plans[at])
    BY <2>1, <2>6, <2>8 DEF CoverInv, Busy
  <2> QED BY <2>1, <2>6, <2>7, <2>9, CoverStepOf DEF Later, Busy
<1>16. CASE EndMix \/ OutOfTime
  <2>1. /\ stage \in {"mixed", "between"} /\ at' = at + 1 /\ stage' = "groups" /\ UNCHANGED <<plans, returned>>
        /\ file' = Result(FALSE, entries')
    BY <1>16 DEF EndMix, OutOfTime, CloseGroup
  <2>2. PICK out : entries' = [entries EXCEPT ![at] = Closed(entries[at], Cardinality(Pairs(plans[at])), out)]
    BY <1>16 DEF EndMix, OutOfTime, CloseGroup
  <2> DEFINE e == Closed(entries[at], Cardinality(Pairs(plans[at])), out)
  <2>3. at <= Len(plans) /\ stage \in {"groups"} \cup Busy BY <1>6, <2>1 DEF Busy
  <2>4. IsEntry(entries[at]) /\ entries[at].pairs \in Nat BY <1>5, <2>3
  <2>5. e.driven = entries[at].driven /\ e.pairs = entries[at].pairs BY <2>4, KeptByUpdates
  <2> HIDE DEF e
  <2>9. /\ entries' = [entries EXCEPT ![at] = e] /\ e.pairs \in Nat /\ e.pairs >= entries[at].pairs
    BY <2>2, <2>4, <2>5 DEF e
  <2>6. /\ Covered(entries) \subseteq Covered(entries')
        /\ \A i \in 1 .. Len(plans) : entries'[i].pairs \in Nat
        /\ \A i \in 1 .. Len(plans) : i > at => entries'[i].pairs = 0
    BY <1>7, <2>3, <2>5, <2>9
  <2>7. returned \subseteq Covered(entries) BY <2>1 DEF CoverInv
  <2>8. \A i \in 1 .. Len(plans) : i >= at' => i > at BY <1>0, <2>1
  <2> QED BY <2>1, <2>6, <2>7, <2>8, CoverStepOf DEF Later, Busy
<1>17. CASE Finish
  <2>1. /\ stage = "groups" /\ stage' = "done" /\ UNCHANGED <<plans, entries, returned>>
        /\ file' = Result(TRUE, entries)
    BY <1>17 DEF Finish
  <2>2. returned \subseteq Covered(entries) BY <2>1 DEF CoverInv
  <2>3. file'.groups = entries /\ file'.returned = returned BY <2>1 DEF Result
  <2>4. returned' \subseteq Covered(file'.groups) BY <2>1, <2>2, <2>3
  <2> QED BY <2>1, <2>3, <2>4 DEF CoverInv, Covered, Later, Busy
<1>18. CASE Dies
  <2>1. stage # "done" /\ stage' = "dead" /\ UNCHANGED <<returned, file>> BY <1>18 DEF Dies
  <2> QED BY <2>1 DEF CoverInv, Later, Busy
<1>19. CASE UNCHANGED vars
  BY <1>19 DEF vars, CoverInv, Covered
<1> QED BY <1>1, <1>2, <1>3, <1>8, <1>9, <1>10, <1>11, <1>13, <1>14, <1>15, <1>16, <1>17, <1>18, <1>19 DEF Next

\* What the orchestrator counts as driven did return beside other threads, and
\* a complete result counts all that did (coverage, main, _write_result).
THEOREM CoverageIsHonest == Spec => []CoverageIsEarned
<1>1. ClockInv /\ SurfaceInv /\ CoverInv => CoverageIsEarned BY CoverageFollows
<1>2. ClockInv /\ SurfaceInv /\ [Next]_vars => SurfaceInv' BY SurfaceStep
<1>3. ClockInv /\ SurfaceInv /\ SurfaceInv' /\ CoverInv /\ [Next]_vars => CoverInv' BY CoverStep
<1> QED BY <1>1, <1>2, <1>3, SurfaceInit, CoverInit, AlwaysFair, PTL DEF Spec
=============================================================================
