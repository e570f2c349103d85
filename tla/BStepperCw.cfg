SPECIFICATION Spec
CONSTANTS
  MaxReps = 4
  MaxSteps = 19
  RegValues = 4
  ScaledClock = 60
  StepsPerRev = 1
  Speed = {7}
  Direction <- MCBoth
  StepType <- MCTypes
PROPERTY MotorSpec
