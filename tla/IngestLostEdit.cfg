SPECIFICATION Spec
CONSTANTS
  Requests = {r1, r2, r3}
  pa = pa
  pb = pb
  pd = pd
  fa = fa
  fb = fb
  Payloads <- MCPayloads
  Fields <- MCFields
  FieldOf <- MCFieldOf
  Invalid = Invalid
  NoRow = NoRow
SYMMETRY Symmetric
INVARIANT DuplicateMeansSame
CHECK_DEADLOCK FALSE
