SPECIFICATION Spec
CONSTANTS
  Normal = {r1, r2, r3}
  PmRequest = pm
  Wrap = 8
  MaxUnsent = 2
INVARIANTS PendingExact DeviceUp
PROPERTIES PendingServed CallbacksEnd
CHECK_DEADLOCK FALSE
