SPECIFICATION Spec
CONSTANT Sample <- MCSample
INVARIANTS
  ComparesByIndex
  RewindsGoBack
CHECK_DEADLOCK FALSE
