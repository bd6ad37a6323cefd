---------------------------- MODULE QController ----------------------------
(***************************************************************************)
(* How a device's query block size follows its measurements (dynamic.py,   *)
(* DynamicQController).  The measured rates are real numbers; what they    *)
(* determine is the target the size is moved to, any aligned size within   *)
(* the bounds, so the target is an input here.                             *)
(***************************************************************************)
EXTENDS Arithmetic

CONSTANTS
  BlockM,                      \* block_m
  QMinTokens,                  \* q_min_tokens
  QCapacityTokens,             \* q_capacity_tokens
  InitialQTokens,              \* initial_q_tokens
  ThresholdNum, ThresholdDen,  \* change_threshold
  StepNum, StepDen             \* max_step_ratio

-----------------------------------------------------------------------------
\* _align_up(num / den, a) and _align_down(num / den, a)
AlignUp(num, den, a) == CeilDiv(num, den * a) * a
AlignDown(num, den, a) == (num \div (den * a)) * a

Alignment(d) == AtMost(BlockM[d], QCapacityTokens[d])
QMin(d) == AlignUp(QMinTokens[d], 1, Alignment(d))
QCap(d) == AlignDown(QCapacityTokens[d], 1, Alignment(d))

\* What the constructor and DynamicScheduleConfig.validate accept, for the
\* devices in the domain of these functions.
ControllerAssumption(Devices) ==
  /\ {BlockM, QCapacityTokens, InitialQTokens} \subseteq [Devices -> Nat \ {0}]
  /\ QMinTokens \in [Devices -> Nat]
  /\ \A d \in Devices : InitialQTokens[d] <= QCapacityTokens[d]
  /\ \A d \in Devices : QCap(d) > 0 /\ QMin(d) <= QCap(d)
  /\ ThresholdNum \in Nat /\ ThresholdDen \in Nat /\ ThresholdNum < ThresholdDen
  /\ StepNum \in Nat /\ StepDen \in Nat \ {0} /\ StepNum > StepDen

\* reset: the size a controller starts from.
InitialQ(d) == AtMost(QCap(d), AtLeast(QMin(d), AlignUp(InitialQTokens[d], 1, Alignment(d))))

\* _target_q_tokens: the knee is positive, whatever was measured.
Targets(d) ==
  {t \in AtLeast(QMin(d), Alignment(d)) .. QCap(d) : t % Alignment(d) = 0}

\* The change is below change_threshold.
Negligible(previous, target) ==
  AtLeast(target - previous, previous - target) * ThresholdDen < previous * ThresholdNum

\* Mutant: a step down is not aligned.
ObservedUnaligned(d, previous, target) ==
  IF Negligible(previous, target) THEN previous
  ELSE IF target > previous
       THEN AtMost(AtMost(target, AlignUp(previous * StepNum, StepDen, Alignment(d))), QCap(d))
       ELSE AtLeast(AtLeast(target, (previous * StepDen) \div StepNum), QMin(d))

\* observe: the size after a measurement with this target.
Observed(d, previous, target) ==
  IF Negligible(previous, target) THEN previous
  ELSE IF target > previous
       THEN AtMost(AtMost(target, AlignUp(previous * StepNum, StepDen, Alignment(d))), QCap(d))
       ELSE AtLeast(AtLeast(target, AlignDown(previous * StepDen, StepNum, Alignment(d))), QMin(d))
=============================================================================
