SPECIFICATION Spec
CONSTANTS
  MaxReps = 4
  MaxSteps = 19
  RegValues = 4
  ScaledClock = 60
  StepsPerRev = 1
  Speed = {2, 7, 200}
  Direction <- MCCcw
  StepType <- MCTypes
INVARIANTS TypeOK ExactSteps InTime
PROPERTIES MotorSpec RotationEnds
