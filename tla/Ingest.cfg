SPECIFICATION FairSpec
CONSTANTS
  Requests = {r1, r2, r3}
  pa = pa
  pb = pb
  pd = pd
  fa = fa
  fb = fb
  Payloads <- MCPayloads
  Fields <- MCFields
  FieldOf <- MCFieldOf
  Invalid = Invalid
  NoRow = NoRow
INVARIANTS
  TypeOK
  ReceiptsReconcile
  KeyIdentifies
  TornByOverlapOnly
PROPERTIES
  AcceptedIsHandled
CHECK_DEADLOCK FALSE
