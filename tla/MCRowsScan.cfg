SPECIFICATION Spec
CONSTANTS
  A = A
  B = B
  C = C
  StructType <- MCTypes
  FieldsOf <- MCFieldsOf
  Columns <- MCColumns
INVARIANTS
  ScansOwnFields
  StrictRefuses
