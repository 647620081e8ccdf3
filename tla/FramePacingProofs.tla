------------------------- MODULE FramePacingProofs -------------------------
(***************************************************************************)
(* Proofs about FramePacing, for any frame interval, session length and    *)
(* timing of the event loop: the pacings other than the tight frame clock  *)
(* never run a core faster than the wall clock.                            *)
(***************************************************************************)
EXTENDS FramePacing, TLAPS

\* A budget of at least one frame holds all the frames that are run from it.
LEMMA FramesFitBudget ==
    ASSUME NEW b \in Nat, b >= Interval, NEW most \in {1, 2, 3}
    PROVE  /\ Clamp(b \div Interval, 1, most) \in {1, 2, 3}
           /\ Clamp(b \div Interval, 1, most) * Interval <= b
<1>1. Interval \in Nat /\ Interval > 0
  BY FramePacingAssumption
<1>2. PICK q \in Int : q = b \div Interval
  BY <1>1
<1>3. q * Interval <= b
  BY <1>1, <1>2
<1> QED
  BY <1>1, <1>2, <1>3 DEF Clamp, Least

\* What a tick computes, whatever the pacing: a budget of one frame or more, and
\* within it the frames, and what they leave of it for the debt.
LEMMA TickWithinBudget ==
    ASSUME TypeOK, NEW work \in Nat
    PROVE  /\ Owed \in Nat /\ Elapsed \in Nat /\ Owed <= debt /\ Elapsed <= since
           /\ Budget \in Nat
           /\ Due => Budget <= Owed + Elapsed
           /\ Frames \in {1, 2, 3}
           /\ Frames * Interval <= Budget
           /\ Rest \in Nat
           /\ DebtAfter(work) \in Nat
           /\ Frames * Interval + DebtAfter(work) <= Budget
           /\ policy = "wall" => DebtAfter(work) = 0
<1> USE FramePacingAssumption DEF TypeOK
<1>1. Interval \in Nat /\ Interval > 0
  OBVIOUS
<1>2. Owed \in Nat /\ Elapsed \in Nat /\ Owed <= debt /\ Elapsed <= since
  BY <1>1 DEF Owed, Elapsed, Stale
<1>3. BudgetCap \in Nat /\ BudgetCap >= Interval
  BY <1>1 DEF BudgetCap, Share
<1>4. Budget \in Nat /\ Budget >= Interval
  BY <1>1, <1>2, <1>3 DEF Budget, Clamp, Least
<1>5. Due => Budget <= Owed + Elapsed
  BY <1>1, <1>2, <1>3 DEF Due, Budget, Clamp, Least
<1>6. MostFrames(Budget) \in {1, 2, 3}
  BY DEF MostFrames
<1>7. Frames \in {1, 2, 3} /\ Frames * Interval <= Budget
  BY <1>4, <1>6, FramesFitBudget DEF Frames
<1>8. Frames * Interval \in Nat
  BY <1>1, <1>7
<1>9. Rest \in Nat
  BY <1>2, <1>8 DEF Rest
<1>10. DebtCap \in Nat /\ (policy = "wall" => DebtCap = 0)
  BY <1>1 DEF DebtCap, Share
<1> DEFINE owed == Clamp(Budget - Frames * Interval, 0, DebtCap)
<1>11. /\ owed \in Nat
       /\ Frames * Interval + owed <= Budget
       /\ policy = "wall" => owed = 0
  BY <1>4, <1>7, <1>8, <1>10 DEF Clamp, Least
<1>12. /\ DebtAfter(work) \in Nat
       /\ DebtAfter(work) <= owed
  <2> HIDE DEF owed
  <2>1. \A d \in Nat : Least(owed, d) \in Nat /\ Least(owed, d) <= owed
    BY <1>11 DEF Least
  <2>2. Share(1, 2) \in Nat /\ Share(1, 4) \in Nat
    BY <1>1 DEF Share
  <2> QED
    BY <1>11, <2>1, <2>2 DEF DebtAfter, owed
<1> QED
  BY <1>2, <1>4, <1>5, <1>7, <1>8, <1>9, <1>11, <1>12

\* TypeOK is an invariant: no debt and no rest is ever negative.
THEOREM TypesHold == Spec => []TypeOK
<1>1. Init => TypeOK
  BY DEF Init, TypeOK, MaxLate
<1>2. TypeOK /\ [Next]_vars => TypeOK'
  <2> SUFFICES ASSUME TypeOK, [Next]_vars PROVE TypeOK'
    OBVIOUS
  <2>1. ASSUME NEW time \in Gap, Pass(time) PROVE TypeOK'
    BY <2>1, FramePacingAssumption DEF Pass, TypeOK
  <2>2. ASSUME NEW work \in Work, Tick(work) PROVE TypeOK'
    <3>1. work \in Nat /\ Interval \in Nat
      BY FramePacingAssumption
    <3>2. Frames * Interval \in Nat /\ Rest \in Nat /\ DebtAfter(work) \in Nat
      BY <3>1, TickWithinBudget
    <3> QED
      BY <2>2, <3>1, <3>2 DEF Tick, TypeOK
  <2>3. ASSUME NEW work \in Work, WorkerFrame(work) PROVE TypeOK'
    BY <2>3, FramePacingAssumption DEF WorkerFrame, MaxLate, TypeOK
  <2>4. CASE ResetClock
    BY <2>4 DEF ResetClock, TypeOK
  <2>5. CASE NextSession
    BY <2>5 DEF NextSession, TypeOK, MaxLate
  <2>6. CASE UNCHANGED vars
    BY <2>6 DEF vars, TypeOK
  <2> QED
    BY <2>1, <2>2, <2>3, <2>4, <2>5, <2>6 DEF Next
<1> QED
  BY <1>1, <1>2, PTL DEF Spec

\* Without the tight frame clock no time is counted twice.  It is the keeping of
\* both a debt and a rest, which only the tight pacings do, that breaks it.
THEOREM NoTimeCountedTwice ==
    ASSUME "tight" \notin Policies, "tightExternal" \notin Policies
    PROVE  Spec => []TimeCountedOnce
<1>1. Init => TimeCountedOnce
  BY DEF Init, TimeCountedOnce
<1>2. TypeOK /\ TimeCountedOnce /\ [Next]_vars => TimeCountedOnce'
  <2> SUFFICES ASSUME TypeOK, TimeCountedOnce, [Next]_vars PROVE TimeCountedOnce'
    OBVIOUS
  <2>1. ASSUME NEW time \in Gap, Pass(time) PROVE TimeCountedOnce'
    BY <2>1, FramePacingAssumption DEF Pass, TypeOK, TimeCountedOnce
  <2>2. ASSUME NEW work \in Work, Tick(work) PROVE TimeCountedOnce'
    <3>1. work \in Nat /\ Interval \in Nat
      BY FramePacingAssumption
    <3> DEFINE run == Frames * Interval
    <3>2. run \in Nat /\ Rest \in Nat /\ DebtAfter(work) \in Nat
      BY <3>1, TickWithinBudget
    <3>3. /\ Budget \in Nat /\ Elapsed \in Nat /\ Owed \in Nat
          /\ Owed <= debt /\ Elapsed <= since /\ Budget <= Owed + Elapsed
          /\ run + DebtAfter(work) <= Budget
          /\ policy = "wall" => DebtAfter(work) = 0
      BY <2>2, <3>1, TickWithinBudget DEF Tick
    <3>4. policy # "wall" => Rest = 0
      BY DEF Rest, KeepsRest, TypeOK
    <3>5. Rest = 0 \/ run + Rest = Elapsed
      BY <3>2, <3>3 DEF Rest
    <3>6. run + DebtAfter(work) + Rest <= debt + since
      <4> HIDE DEF run
      <4> QED
        BY <3>2, <3>3, <3>4, <3>5 DEF TypeOK
    <3> HIDE DEF run
    <3>7. played' = played + run /\ since' = Rest + work /\ debt' = DebtAfter(work)
          /\ clock' = clock + work
      BY <2>2 DEF Tick, run
    <3> QED
      BY <3>1, <3>2, <3>6, <3>7 DEF TypeOK, TimeCountedOnce
  <2>3. ASSUME NEW work \in Work, WorkerFrame(work) PROVE TimeCountedOnce'
    BY <2>3, FramePacingAssumption DEF WorkerFrame, TypeOK, TimeCountedOnce
  <2>4. CASE ResetClock
    BY <2>4 DEF ResetClock, TypeOK, TimeCountedOnce
  <2>5. CASE NextSession
    BY <2>5 DEF NextSession, TimeCountedOnce
  <2>6. CASE UNCHANGED vars
    BY <2>6 DEF vars, TimeCountedOnce
  <2> QED
    BY <2>1, <2>2, <2>3, <2>4, <2>5, <2>6 DEF Next
<1> QED
  BY <1>1, <1>2, TypesHold, PTL DEF Spec

\* Without the tight frame clock a core never runs ahead of the wall clock.
THEOREM NeverAhead ==
    ASSUME "tight" \notin Policies, "tightExternal" \notin Policies
    PROVE  Spec => []NoOverspeed
<1>1. TypeOK /\ TimeCountedOnce => NoOverspeed
  BY DEF TypeOK, TimeCountedOnce, NoOverspeed
<1> QED
  BY <1>1, TypesHold, NoTimeCountedTwice, PTL

=============================================================================
