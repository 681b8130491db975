CONSTANTS
  num = num
  real = real
  text = text
  Column <- MCColumn
  Type <- MCType
  Value = {1, 2}
  Nullable = {real}
  MaxRows = 3
  Query <- Every
SPECIFICATION Spec
INVARIANTS
  ResultExactUnlessDeparts
  ResultOrdered
