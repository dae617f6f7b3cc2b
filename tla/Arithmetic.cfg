SPECIFICATION Spec
CONSTANTS
  WIDTH = 6
  FloatResult <- NoFormat
  FloatLess <- FormatLess
  F16 <- Small16
  BF16 <- SmallB16
  FI16 <- Small16
  SINGLE_M = 6
  INT_WIDTH = 8
  LONG_WIDTH = 14
INVARIANTS
  TypeOK
  Saturates
  CarryCompletes
  DivisionLaw
  ShiftsScale
  ComparisonOrders
  SumsClose
  ProductsClose
  FintsClose
  
CHECK_DEADLOCK FALSE
