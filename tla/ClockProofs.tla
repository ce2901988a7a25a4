---------------------------- MODULE ClockProofs ----------------------------
(* The wrap-around comparison of deadlines, for every counter width.       *)
EXTENDS Clock, TLAPS

(* Reduction modulo the counter range, one wrap at most.                   *)
LEMMA Wrap ==
  ASSUME NEW x \in Int, x \in 0 .. 2 * W - 1, NEW y, y = x % W
  PROVE  y = IF x < W THEN x ELSE x - W
  BY HalfAssumption DEF W

LEMMA ClockInit == Init => ClockInv
  BY HalfAssumption DEF Init, ClockInv, W

LEMMA ClockNext == ClockInv /\ [Next]_vars => ClockInv'
<1> SUFFICES ASSUME ClockInv, [Next]_vars PROVE ClockInv'
  OBVIOUS
<1>0. W \in Nat /\ W = 2 * Half /\ Half \in Nat /\ Half > 0
  BY HalfAssumption DEF W
<1>1. CASE Tick
  <2>1. now + 1 \in 0 .. 2 * W - 1
    BY <1>0 DEF ClockInv
  <2>2. now' = IF now + 1 < W THEN now + 1 ELSE now + 1 - W
    <3> DEFINE x == now + 1
    <3>1. x \in Int /\ x \in 0 .. 2 * W - 1 /\ now' = x % W
      BY <1>1, <2>1 DEF Tick
    <3> HIDE DEF x
    <3>2. now' = IF x < W THEN x ELSE x - W
      BY <3>1, Wrap
    <3> QED BY <1>0, <3>2 DEF x, ClockInv
  <2> QED BY <1>0, <1>1, <2>2 DEF ClockInv, Tick
<1>2. ASSUME NEW t \in 0 .. Half - 1, Arm(t)
      PROVE  ClockInv'
  <2>1. now + t \in 0 .. 2 * W - 1
    BY <1>0 DEF ClockInv
  <2>2. deadline' = IF now + t < W THEN now + t ELSE now + t - W
    <3> DEFINE x == now + t
    <3>1. x \in Int /\ x \in 0 .. 2 * W - 1 /\ deadline' = x % W
      BY <1>2, <2>1 DEF Arm
    <3> HIDE DEF x
    <3>2. deadline' = IF x < W THEN x ELSE x - W
      BY <3>1, Wrap
    <3> QED BY <1>0, <3>2 DEF x, ClockInv
  <2> QED BY <1>0, <1>2, <2>2 DEF ClockInv, Arm
<1>3. CASE UNCHANGED vars
  BY <1>3 DEF vars, ClockInv
<1> QED BY <1>1, <1>2, <1>3 DEF Next

LEMMA ClockExact == ClockInv => DeadlineExact
<1> SUFFICES ASSUME ClockInv PROVE DeadlineExact
  OBVIOUS
<1>0. W \in Nat /\ W = 2 * Half /\ Half \in Nat /\ Half > 0
  BY HalfAssumption DEF W
<1>1. now - deadline + W \in 0 .. 2 * W - 1
  BY <1>0 DEF ClockInv
<1>2. Minus(now, deadline) = IF now - deadline + W < W THEN now - deadline + W ELSE now - deadline
  <2> DEFINE x == now - deadline + W
  <2>1. x \in Int /\ x \in 0 .. 2 * W - 1 /\ Minus(now, deadline) = x % W
    BY <1>1 DEF Minus
  <2> HIDE DEF x
  <2>2. Minus(now, deadline) = IF x < W THEN x ELSE x - W
    BY <2>1, Wrap
  <2>3. x - W = now - deadline
    BY <1>0 DEF x, ClockInv
  <2> QED BY <2>2, <2>3 DEF x
<1> QED BY <1>0, <1>2 DEF ClockInv, DeadlineExact, Expired

(* For every counter width, every timeout below half its range and every   *)
(* start of the counter: a deadline is seen as past exactly when its       *)
(* timeout has elapsed, wrapped or not, as long as it is looked at less    *)
(* than half the range after it.  This is what a countdown stands for.     *)
THEOREM DeadlineExactHolds == Spec => []DeadlineExact
  BY ClockInit, ClockNext, ClockExact, PTL DEF Spec

=============================================================================
