SPECIFICATION OptimizerSpec
CONSTANTS
  WIDTH = 4
  FloatResult <- LeftOperand
  FloatLess <- NeverLess
  LABEL = 5
  F16_ONE = 3
  Lines <- SomeLines
  LINES = 3
  LastLines <- SomeEnding
  Machines <- SomeMachines
PROPERTIES
  OperandForwarded
CHECK_DEADLOCK FALSE
