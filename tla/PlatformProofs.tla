---------------------------- MODULE PlatformProofs ----------------------------
(***************************************************************************)
(* Facts about the vocabulary of Platform that both tracers rest on: how   *)
(* recording one more step changes the shape of the record.                *)
(***************************************************************************)
EXTENDS Platform, WellFoundedInduction, TLAPS

\* The record lets execution go on: nothing faulted, and execution stands inside
\* the input, off the target and below the cap.
Open(request, steps) ==
    /\ \A i \in 1 .. Len(steps) : ~steps[i].faulted
    /\ InCode(request, Position(steps))
    /\ HasTarget(request) => Position(steps) # request.stop_offset
    /\ Len(steps) < EffectiveMaxSteps(request)

\* The cap is at least one step, whatever was requested.
LEMMA CapPositive ==
    ASSUME NEW request \in Request
    PROVE  EffectiveMaxSteps(request) \in Nat \ {0}
  BY PlatformAssumption DEF EffectiveMaxSteps, Request

\* Appending to a record.
LEMMA AppendedStep ==
    ASSUME NEW steps \in Seq(PlatformStep), NEW step \in PlatformStep
    PROVE  /\ Append(steps, step) \in Seq(PlatformStep)
           /\ Len(Append(steps, step)) = Len(steps) + 1
           /\ \A i \in 1 .. Len(steps) : Append(steps, step)[i] = steps[i]
           /\ Append(steps, step)[Len(steps) + 1] = step
           /\ Last(Append(steps, step)) = step
           /\ Position(Append(steps, step)) = step.next
  BY DEF Last, Position

\* Execution always stands at an address.
LEMMA PositionType ==
    ASSUME NEW steps \in Seq(PlatformStep)
    PROVE  Position(steps) \in Address
<1>1. CASE Len(steps) = 0
  BY <1>1, PlatformAssumption DEF Position, Address
<1>2. CASE Len(steps) # 0
  <2>1. steps[Len(steps)] \in PlatformStep
    BY <1>2
  <2> QED
    BY <1>2, <2>1 DEF Position, Last, PlatformStep
<1> QED
  BY <1>1, <1>2

\* An empty record is chained, and open when execution may start at all.
LEMMA EmptyRecord ==
    ASSUME NEW request \in Request
    PROVE  /\ Chained(<<>>) /\ NeverOverran(request, <<>>) /\ Position(<<>>) = 0
           /\ request.size > 0 /\ request.stop_offset # 0 => Open(request, <<>>)
  BY CapPositive DEF Chained, NeverOverran, Open, Position, InCode, Request

\* Recording a completed instruction, or the fault that ends the run, keeps an
\* open record chained and never overrun.
LEMMA RecordedStep ==
    ASSUME NEW request \in Request, NEW steps \in Seq(PlatformStep), NEW step \in PlatformStep,
           Chained(steps), NeverOverran(request, steps), Open(request, steps),
           step.faulted \/ step.rip = Position(steps)
    PROVE  Chained(Append(steps, step)) /\ NeverOverran(request, Append(steps, step))
<1> DEFINE new == Append(steps, step)
<1>1. /\ Len(new) = Len(steps) + 1
      /\ \A i \in 1 .. Len(steps) : new[i] = steps[i]
      /\ new[Len(steps) + 1] = step
      /\ Len(steps) \in Nat
  BY AppendedStep
<1> HIDE DEF new
<1>2. Chained(new)
  <2> SUFFICES ASSUME NEW i \in 1 .. Len(new)
               PROVE  /\ new[i].faulted => i = Len(new)
                      /\ ~new[i].faulted => new[i].rip = IF i = 1 THEN 0 ELSE new[i - 1].next
    BY DEF Chained
  <2>1. CASE i \in 1 .. Len(steps)
    <3>1. ~steps[i].faulted /\ steps[i].rip = IF i = 1 THEN 0 ELSE steps[i - 1].next
      BY <2>1 DEF Chained, Open
    <3>2. i # 1 => i - 1 \in 1 .. Len(steps)
      BY <2>1
    <3> QED
      BY <1>1, <2>1, <3>1, <3>2
  <2>2. CASE i = Len(steps) + 1
    <3>1. i # 1 => i - 1 = Len(steps) /\ Len(steps) \in 1 .. Len(steps)
      BY <1>1, <2>2
    <3>2. Position(steps) = IF i = 1 THEN 0 ELSE new[i - 1].next
      BY <1>1, <2>2, <3>1 DEF Position, Last
    <3> QED
      BY <1>1, <2>2, <3>2
  <2> QED
    BY <1>1, <2>1, <2>2
<1>3. NeverOverran(request, new)
  <2> SUFFICES ASSUME NEW i \in 1 .. Len(steps)
               PROVE  /\ InCode(request, new[i].next)
                      /\ HasTarget(request) => new[i].next # request.stop_offset
    BY <1>1 DEF NeverOverran
  <2>1. CASE i < Len(steps)
    BY <1>1, <2>1 DEF NeverOverran
  <2>2. CASE i = Len(steps)
    <3>1. steps[i].next = Position(steps)
      BY <1>1, <2>2 DEF Position, Last
    <3> QED
      BY <1>1, <3>1 DEF Open
  <2> QED
    BY <1>1, <2>1, <2>2
<1> QED
  BY <1>2, <1>3 DEF new

-----------------------------------------------------------------------------
(* What Completed computes.                                                *)

\* Induction on the natural numbers, for a set: a set that holds 0 and every
\* successor up to a bound holds every number up to that bound.
LEMMA InductionUpTo ==
    ASSUME NEW bound \in Nat, NEW S, 0 \in S,
           \A n \in 1 .. bound : n - 1 \in S => n \in S
    PROVE  0 .. bound \subseteq S
<1> DEFINE T == (0 .. bound) \ S
<1> SUFFICES ASSUME T # {} PROVE FALSE
  OBVIOUS
<1>1. \A x, y \in Nat : x < y => <<x, y>> \in OpToRel(<, Nat)
  BY DEF OpToRel
<1>2. T \subseteq Nat
  OBVIOUS
<1>3. \E x \in T : \A y \in T : ~(<<y, x>> \in OpToRel(<, Nat))
  BY <1>2, NatLessThanWellFounded, WFMin, Zenon
<1>4. PICK x \in T : \A y \in T : ~(y < x)
  BY <1>1, <1>2, <1>3, Zenon
<1>5. x \in 1 .. bound /\ x \notin S /\ x - 1 \notin T
  BY <1>4
<1> QED
  BY <1>5

\* If only the last step can be a fault, the completed steps are the record
\* without that fault.
LEMMA CompletedRecord ==
    ASSUME NEW steps \in Seq(PlatformStep),
           \A i \in 1 .. Len(steps) : steps[i].faulted => i = Len(steps)
    PROVE  Completed(steps) = IF Len(steps) > 0 /\ Last(steps).faulted
                              THEN SubSeq(steps, 1, Len(steps) - 1) ELSE steps
<1> DEFINE n        == Len(steps)
           After(f, i) == IF i = 0 THEN <<>>
                          ELSE IF steps[i].faulted THEN f[i - 1]
                          ELSE Append(f[i - 1], steps[i])
           kept     == CHOOSE f : f = [i \in 0 .. n |-> After(f, i)]
           good     == [i \in 0 .. n |-> IF i > 0 /\ steps[i].faulted
                                         THEN SubSeq(steps, 1, i - 1) ELSE SubSeq(steps, 1, i)]
<1>1. Completed(steps) = kept[n]
  BY DEF Completed
<1>2. n \in Nat
  OBVIOUS
<1>3. SubSeq(steps, 1, 0) = <<>> /\ SubSeq(steps, 1, n) = steps
  OBVIOUS
<1>4. \A i \in 1 .. n : SubSeq(steps, 1, i) = Append(SubSeq(steps, 1, i - 1), steps[i])
  OBVIOUS
<1>5. good = [i \in 0 .. n |-> After(good, i)]
  <2> SUFFICES ASSUME NEW i \in 0 .. n PROVE good[i] = After(good, i)
    OBVIOUS
  <2>1. CASE i = 0
    <3>1. good[0] = SubSeq(steps, 1, 0)
      BY <1>2
    <3> HIDE DEF good
    <3> QED
      BY <1>3, <2>1, <3>1
  <2>2. CASE i # 0
    <3>1. i \in 1 .. n /\ i - 1 \in 0 .. n
      BY <1>2, <2>2
    <3>2. i - 1 > 0 => ~steps[i - 1].faulted
      BY <1>2, <3>1
    <3>3. good[i - 1] = SubSeq(steps, 1, i - 1)
      BY <3>1, <3>2
    <3>4. good[i] = IF steps[i].faulted THEN SubSeq(steps, 1, i - 1) ELSE SubSeq(steps, 1, i)
      BY <3>1
    <3> HIDE DEF good
    <3> QED
      BY <1>4, <2>2, <3>1, <3>3, <3>4
  <2> QED
    BY <2>1, <2>2
<1>6. kept = [i \in 0 .. n |-> After(kept, i)]
  BY <1>5
<1>7. \A i \in 0 .. n : kept[i] = After(kept, i) /\ good[i] = After(good, i)
  BY <1>5, <1>6
<1> DEFINE S == {i \in 0 .. n : kept[i] = good[i]}
<1> HIDE DEF kept, good
<1>8. 0 .. n \subseteq S
  <2>1. 0 \in S
    BY <1>2, <1>7
  <2>2. ASSUME NEW i \in 1 .. n, i - 1 \in S PROVE i \in S
    <3>1. i \in 0 .. n /\ kept[i - 1] = good[i - 1]
      BY <1>2, <2>2
    <3> QED
      BY <1>7, <3>1
  <2> HIDE DEF S
  <2> QED
    BY <1>2, <2>1, <2>2, InductionUpTo
<1>9. kept[n] = good[n]
  BY <1>2, <1>8
<1>10. CASE n > 0 /\ steps[n].faulted
  <2>1. good[n] = SubSeq(steps, 1, n - 1)
    BY <1>2, <1>10 DEF good
  <2> QED
    BY <1>1, <1>9, <1>10, <2>1 DEF Last
<1>11. CASE ~(n > 0 /\ steps[n].faulted)
  <2>1. good[n] = SubSeq(steps, 1, n)
    BY <1>2, <1>11 DEF good
  <2> QED
    BY <1>1, <1>3, <1>9, <1>11, <2>1 DEF Last
<1> QED
  BY <1>10, <1>11

\* In a record without faults every step is a completed one.
LEMMA CompletedAll ==
    ASSUME NEW steps \in Seq(PlatformStep), \A i \in 1 .. Len(steps) : ~steps[i].faulted
    PROVE  Completed(steps) = steps
  BY CompletedRecord DEF Last

\* The fault that ends a record is not a completed step.
LEMMA CompletedBeforeFault ==
    ASSUME NEW steps \in Seq(PlatformStep), \A i \in 1 .. Len(steps) : ~steps[i].faulted,
           NEW step \in PlatformStep, step.faulted
    PROVE  Completed(Append(steps, step)) = steps
<1> DEFINE new == Append(steps, step)
<1>1. /\ new \in Seq(PlatformStep) /\ Len(new) = Len(steps) + 1 /\ Last(new) = step
      /\ \A i \in 1 .. Len(steps) : new[i] = steps[i]
  BY AppendedStep
<1>2. SubSeq(new, 1, Len(steps)) = steps
  OBVIOUS
<1>3. \A i \in 1 .. Len(new) : new[i].faulted => i = Len(new)
  BY <1>1
<1> HIDE DEF new
<1>4. Len(new) > 0 /\ Len(new) - 1 = Len(steps) /\ Last(new).faulted
  BY <1>1
<1>5. Completed(new) = SubSeq(new, 1, Len(new) - 1)
  BY <1>1, <1>3, <1>4, CompletedRecord
<1> QED
  BY <1>2, <1>4, <1>5 DEF new
===============================================================================
