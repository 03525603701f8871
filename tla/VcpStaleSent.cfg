SPECIFICATION Spec
CONSTANTS
  TxSize = 4
  RxSize = 4
  MaxLength = 2
  Receiving = FALSE
INVARIANT StringSent
CHECK_DEADLOCK FALSE
