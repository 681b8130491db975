CONSTANTS
  leftKey = leftKey
  leftDate = leftDate
  leftFloat = leftFloat
  rightKey = rightKey
  rightValue = rightValue
  LeftColumn <- MCLeft
  RightColumn <- MCRight
  Type <- MCType
  Value = {1, 2}
  MaxLeft = 2
  MaxRight = 2
  Work <- NonEqualJoin
  BatchRows = 1
SPECIFICATION Spec
INVARIANTS
  TargetExact
